----------------------------- MODULE MCResultRows ---------------------------
(* An instance of ResultRows for TLC: queries make three sets, of three rows,    *)
(* which blocks of two rows hold only in part, of none, and of one, which is less *)
(* than a block.                                                                  *)
EXTENDS ResultRows

MCRowCount == <<3, 0, 1>>
MCSpan == {-2, 2}

=============================================================================
