--------------------------- MODULE DeliveryProofs ---------------------------
(***************************************************************************)
(* What Delivery's readers may rely on.  It holds of Realtime's sessions   *)
(* and of LogReads' pages, which implement Delivery.                       *)
(***************************************************************************)
EXTENDS Delivery, TLAPS

LEMMA NoGapStep == NoGap /\ [Next]_<<due, got>> => NoGap'
  <1> SUFFICES ASSUME NoGap, [Next]_<<due, got>> PROVE NoGap'
    OBVIOUS
  <1>1. CASE Grow
    <2> SUFFICES ASSUME NEW r \in Readers, NEW m \in due'[r] \ got'[r], NEW n \in got'[r]
                 PROVE  m > n
      BY DEF NoGap, Above
    <2>1. got' = got /\ Above(due'[r] \ due[r], got[r])
      BY <1>1 DEF Grow
    <2> QED BY <2>1 DEF NoGap, Above
  <1>2. ASSUME NEW r \in Readers, Deliver(r) PROVE NoGap'
    <2> SUFFICES ASSUME NEW q \in Readers PROVE Above(due'[q] \ got'[q], got'[q])
      BY DEF NoGap, Above
    <2>1. CASE q = r
      BY <1>2, <2>1 DEF Deliver, Above
    <2>2. CASE q # r
      BY <1>2, <2>2 DEF Deliver, NoGap
    <2> QED BY <2>1, <2>2
  <1>3. CASE UNCHANGED <<due, got>>
    BY <1>3 DEF NoGap, Above
  <1> QED BY <1>1, <1>2, <1>3 DEF Next

(* What a reader has is all that is due to it up to some number: the highest *)
(* number it has is a cursor from which it can go on without a loss.         *)
THEOREM DeliveryNoGap == Spec => []NoGap
  <1>1. Init => NoGap
    BY DEF Init, NoGap, Above
  <1> QED BY <1>1, NoGapStep, PTL DEF Spec

(* A reader is never handed anything that belongs before what it has. *)
InOrder == [][\A r \in Readers : Above(got'[r] \ got[r], got[r])]_<<due, got>>

(* Whoever delivers without a gap delivers in order: what lies below the     *)
(* highest number a reader has is there already.                             *)
THEOREM DeliveryInOrder == Spec => InOrder
  <1>1. NoGap /\ [Next]_<<due, got>>
        => [\A r \in Readers : Above(got'[r] \ got[r], got[r])]_<<due, got>>
    <2> SUFFICES ASSUME NoGap, Next, NEW r \in Readers
                 PROVE  Above(got'[r] \ got[r], got[r])
      OBVIOUS
    <2>1. CASE Grow
      BY <2>1 DEF Grow, Above
    <2>2. ASSUME NEW q \in Readers, Deliver(q) PROVE Above(got'[r] \ got[r], got[r])
      BY <2>2 DEF Deliver, NoGap, Above
    <2> QED BY <2>1, <2>2 DEF Next
  <1>2. Spec => [][\A r \in Readers : Above(got'[r] \ got[r], got[r])]_<<due, got>>
    BY <1>1, DeliveryNoGap, PTL DEF Spec
  <1> QED BY <1>2 DEF InOrder
=============================================================================
