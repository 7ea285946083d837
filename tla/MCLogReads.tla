----------------------------- MODULE MCLogReads -----------------------------
(***************************************************************************)
(* LogReads for TLC: two tenants, two streams, every server that boots,    *)
(* every kind of caller, and reads with the limits at their edges.         *)
(***************************************************************************)
EXTENDS LogReads

CONSTANTS r1, t1, t2, s1, s2, task, note, saga, alice, bob, manager, user,
          any, none, never, admin, garbage, generated

MCConfigs == {c \in Config : c.production = c.admin}

(* Expiry: none, past, this very second.  A service is pinned or not. *)
MCTokens ==
  LET Tokens(type, sub, role) ==
        [signed: BOOLEAN, exp: {never, 0, 1}, type: {type}, org: {t1, none}, sub: {sub}, role: {role}]
  IN {k \in Tokens("service", none, none) \cup Tokens("user", alice, user) : k.signed \/ k.exp = never}

(* The headers always claim to be bob the manager. *)
MCRequests ==
  [bearer: MCTokens \cup {none, admin}, tenant: {t1, t2, none}, uid: {bob}, role: {manager}]

Of(kind, of, from, limit) == [kind |-> kind, of |-> of, from |-> from, limit |-> limit]
Whole   == Of("all", any, garbage, garbage)
MCReads ==
  {Of("all", any, 0, 3), Of("all", task, 0, 2), Of("all", any, 1, -1), Of("all", any, 0, 1),
   Of("stream", s1, garbage, 2), Of("stream", s2, 0, 1), Of("correlation", saga, 0, 1)}

Visitor == [bearer |-> none, tenant |-> t1, uid |-> bob, role |-> manager]

(* Every caller reads everything, one of them in every way. *)
MCCalls  == [who: MCRequests, read: {Whole}] \cup [who: {Visitor}, read: MCReads]

MCBodies ==
  {[tenant |-> t1, stream |-> s1, stype |-> task, corr |-> saga],
   [tenant |-> t1, stream |-> s2, stype |-> note, corr |-> saga],
   [tenant |-> t2, stream |-> s1, stype |-> task, corr |-> any]}
=============================================================================
