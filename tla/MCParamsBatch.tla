--------------------------- MODULE MCParamsBatch ----------------------------
(* Instances of ParamsBatch for TLC.                                        *)
EXTENDS ParamsBatch, TLC

AllTypes == {"smallint", "integer", "varchar", "blob"}

=============================================================================
