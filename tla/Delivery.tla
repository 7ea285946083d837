------------------------------ MODULE Delivery ------------------------------
(***************************************************************************)
(* What a reader of the log is promised, by whatever way it reads: it is   *)
(* handed the events meant for it oldest first, without leaving one out,   *)
(* and an event that is committed later comes after those it has.  The     *)
(* live sessions of Realtime and the pages of LogReads implement it for    *)
(* the events that do not appear below the reader's cursor.                *)
(***************************************************************************)
EXTENDS Naturals

CONSTANT Readers

VARIABLES
  due,   \* due[r]: the numbers of the committed events meant for reader r
  got    \* got[r]: those it has been handed

Above(S, T) == \A m \in S, n \in T : m > n

Init ==
  /\ due \in [Readers -> SUBSET Nat]
  /\ got = [r \in Readers |-> {}]

(* Commits: what they add for a reader comes after what it has. *)
Grow ==
  /\ \A r \in Readers : due[r] \subseteq due'[r] /\ Above(due'[r] \ due[r], got[r])
  /\ UNCHANGED got

(* One reader is handed the oldest of the events it does not have. *)
Deliver(r) ==
  /\ got[r] \subseteq got'[r] /\ got'[r] \subseteq due[r]
  /\ Above(due[r] \ got'[r], got'[r])
  /\ \A q \in Readers \ {r} : got'[q] = got[q]
  /\ UNCHANGED due

Next == Grow \/ \E r \in Readers : Deliver(r)

Spec == Init /\ [][Next]_<<due, got>>

(* The promise: what a reader has is all that is due up to some number. *)
NoGap == \A r \in Readers : Above(due[r] \ got[r], got[r])
=============================================================================
