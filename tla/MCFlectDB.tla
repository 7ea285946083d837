----------------------------- MODULE MCFlectDB ------------------------------
(***************************************************************************)
(* FlectDB for TLC: tokens of a usual life and one of a shorter one, which *)
(* the pool lifetime of the first does not fit.                            *)
(***************************************************************************)
EXTENDS FlectDB, TLC

CONSTANTS c1, c2

MCConns  == {c1, c2}
Symmetry == Permutations(MCConns)
=============================================================================
