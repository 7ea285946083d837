----------------------------- MODULE MCRealtime -----------------------------
(***************************************************************************)
(* Realtime for TLC: a reader with a type filter, a stalled client of the  *)
(* same tenant, and events of another type and another tenant in between.  *)
(***************************************************************************)
EXTENDS Realtime

CONSTANTS c1, c2, t1, t2, task, note, none, any

MCTenantOf == [c \in Clients |-> IF c = c1 THEN t1 ELSE t2]
MCFilterOf == [c \in Clients |-> IF c = c1 THEN task ELSE any]
MCClients  == {c1, c2}
MCTenants  == {t1, t2}
MCTypes    == {task, note}
MCStalled  == {c2}
MCKinds    == {[tenant |-> t1, type |-> task], [tenant |-> t1, type |-> note],
               [tenant |-> t2, type |-> task]}
=============================================================================
