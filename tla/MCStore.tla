------------------------------ MODULE MCStore -------------------------------
(***************************************************************************)
(* Store for TLC: one tenant, two streams and a handful of bodies that     *)
(* collide on version, type and client-supplied id.                        *)
(***************************************************************************)
EXTENDS Store

CONSTANTS h1, h2, t1, s1, s2, task, note, idA, idB, noType, generated

MCHandlers  == {h1, h2}
MCTenants   == {t1}
MCStreams   == {s1, s2}
MCTypes     == {task, note}
MCClientIds == {idA, idB}

Body(s, type, v, ids) ==
  [tenant |-> t1, stream |-> s, stype |-> type, expected |-> v, ids |-> ids]

Gen == <<Generated>>

(* Racing writers of s1, one of them with a batch, one with another type,    *)
(* and an untyped follow-up.                                                 *)
RacingRequests ==
  {Body(s1, task, 0, Gen \o Gen), Body(s1, note, 0, Gen), Body(s1, task, 1, Gen),
   Body(s1, NoType, 1, Gen), Body(s1, NoType, 2, Gen)}

(* Bodies with ids of their own: crossed batches, the same id on two streams. *)
IdRequests ==
  {Body(s1, task, 0, <<idA, idB>>), Body(s2, task, 0, <<idB, idA>>),
   Body(s2, NoType, 0, Gen), Body(s2, NoType, 1, <<idA>>)}

AllRequests == RacingRequests \cup IdRequests
=============================================================================
