---------------------------- MODULE MCProjector -----------------------------
(***************************************************************************)
(* Projector for TLC: a board keyed by stream, with set, delete and inc    *)
(* rules, and totals keyed by a payload field, which only counts; each has *)
(* a table of its own, or both name the same one.                          *)
(***************************************************************************)
EXTENDS Projector, TLC

CONSTANTS h1, h2, board, totals, tb, tt, t1, t2, r1, s1, o1, absent

MCHandlers    == {h1, h2}
Symmetry      == Permutations(MCHandlers)
MCRebuilders  == {r1}
MCTenantOf    == (r1 :> t1)
MCProjections == {board, totals}
MCTables      == {tb, tt}
MCLayouts     == {(board :> tb @@ totals :> tt), (board :> tb @@ totals :> tb)}
MCTenants     == {t1, t2}
MCTypes       == {"Moved", "Removed", "Counted"}
MCIds         == {s1, o1}

A(op, keyed, set, inc) == [op |-> op, keyed |-> keyed, set |-> set, inc |-> inc]
None == A("none", FALSE, FALSE, FALSE)

MCRuleOf == [p \in MCProjections |-> IF p = board
  THEN [Moved   |-> A("upsert", FALSE, TRUE, FALSE),
        Removed |-> A("delete", FALSE, FALSE, FALSE),
        Counted |-> A("upsert", FALSE, FALSE, TRUE)]
  ELSE [Moved   |-> None,
        Removed |-> None,
        Counted |-> A("upsert", TRUE, FALSE, TRUE)]]

E(t, type, key, amount) ==
  [tenant |-> t, type |-> type, stream |-> s1, key |-> key, amount |-> amount]

Moved     == E(t1, "Moved", Absent, Absent)
Removed   == E(t1, "Removed", Absent, Absent)
Counted   == E(t1, "Counted", o1, 1)
Keyless   == E(t1, "Counted", Absent, -3)     \* totals cannot fold it
Broken    == E(t1, "Counted", o1, Absent)     \* neither can
Elsewhere == E(t2, "Counted", o1, 2)

MCBatches == {<<Moved>>, <<Moved, Removed>>, <<Keyless, Counted>>, <<Broken>>, <<Elsewhere>>}
=============================================================================
