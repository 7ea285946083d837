------------------------------ MODULE EventLog ------------------------------
(***************************************************************************)
(* What the event log of foldbase promises, whatever the database behind   *)
(* it: one variable, the set of committed events, and one kind of step,    *)
(* the append of a whole batch to the end of one stream.  Store is shown   *)
(* to implement this specification.                                        *)
(***************************************************************************)
EXTENDS Naturals

CONSTANTS Tenants, Streams,
          Generated     \* the id of an event whose UUID the server made up

VARIABLE log            \* the committed events, records with the fields
                        \* seq, id, tenant, stream, stype, version

(* The events of one stream, and their version numbers. *)
StreamOf(es, t, s) == {e \in es : e.tenant = t /\ e.stream = s}
VersionsOf(es)     == {e.version : e \in es}

(* Two rows the UNIQUE constraints of the events table keep apart: the id,  *)
(* the global sequence number, the position in the stream.  Generated ids   *)
(* are UUIDs and never collide.                                             *)
Clash(d, e) ==
  \/ d.id = e.id /\ e.id # Generated
  \/ d.tenant = e.tenant /\ d.stream = e.stream /\ d.version = e.version

(***************************************************************************)
(* The state of a log that was only ever appended to.                      *)
(***************************************************************************)
Gapless(es) ==
  \A t \in Tenants, s \in Streams :
     LET vs == VersionsOf(StreamOf(es, t, s)) IN \E n \in {0} \cup vs : vs = 1..n

NoClash(es)  == \A d, e \in es : d # e => ~Clash(d, e) /\ d.seq # e.seq
OneType(es)  == \A d, e \in es :
                   d.tenant = e.tenant /\ d.stream = e.stream => d.stype = e.stype
InOrder(es)  == \A d, e \in es :
                   d.tenant = e.tenant /\ d.stream = e.stream /\ d.version < e.version
                   => d.seq < e.seq

LogOK(es) == Gapless(es) /\ NoClash(es) /\ OneType(es) /\ InOrder(es)

-----------------------------------------------------------------------------
Init == log = {}

(* One append: the new events all go to stream s of tenant t, continue its  *)
(* versions without a hole, share its type and clash with nothing.          *)
Append(t, s) ==
  LET new == log' \ log
      old == VersionsOf(StreamOf(log, t, s))
  IN /\ log \subseteq log'
     /\ new # {} /\ StreamOf(new, t, s) = new
     /\ \E n \in {0} \cup old, m \in VersionsOf(new) :
           /\ old = 1..n
           /\ VersionsOf(new) = (n + 1)..m
     /\ NoClash(log') /\ OneType(log') /\ InOrder(log')

Next == \E t \in Tenants, s \in Streams : Append(t, s)

Spec == Init /\ [][Next]_log
=============================================================================
