----------------------------- MODULE MCRegistry -----------------------------
(***************************************************************************)
(* Registry for TLC: a definition and its next edition with one more       *)
(* column, its move to another table, and a projection sharing the table.  *)
(***************************************************************************)
EXTENDS Registry, TLC

CONSTANTS h1, h2, board, totals, tasks, archive, title, owner, points, user, none

MCHandlers    == {h1, h2}
Symmetry      == Permutations(MCHandlers)
MCDefinitions == {[name |-> board, table |-> tasks, cols |-> {title}],
                  [name |-> board, table |-> tasks, cols |-> {title, owner}],
                  [name |-> board, table |-> archive, cols |-> {owner}],
                  [name |-> totals, table |-> tasks, cols |-> {owner, points}]}
=============================================================================
