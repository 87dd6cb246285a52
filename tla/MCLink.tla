------------------------------- MODULE MCLink -------------------------------
(* Link with connections that are linked again and statements that share   *)
(* the addresses of statement handles.                                     *)
EXTENDS Link, TLC

Symmetry == Permutations(Conns) \cup Permutations(Stmts) \cup Permutations(Handles)
            \cup Permutations(Levels)
=============================================================================
