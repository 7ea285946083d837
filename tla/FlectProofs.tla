---------------------------- MODULE FlectProofs -----------------------------
(***************************************************************************)
(* Proofs about FlectDB: how long a pooled connection and its token live,  *)
(* for every set of lives the broker may hand out, every timeout and any   *)
(* number of connections.                                                  *)
(***************************************************************************)
EXTENDS FlectDB, TLAPS

(* The manifest in hand has one of the broker's lives, and the pool lifetime *)
(* is the one of the first.                                                  *)
ManifestInv ==
  /\ m \in Manifest \cup {None} /\ life \in Nat /\ first \in Nat
  /\ (m # None => m.issued <= now /\ m.expires > m.issued)
  /\ (first # 0 => life = ConnLifetime(first))
  /\ (phase = "up" => m # None)

(* The holder asks the broker for no longer than a timeout. *)
ClockInv ==
  /\ now \in Nat /\ until \in Nat
  /\ since \in Nat \cup {None} /\ failed \in Nat \cup {None}
  /\ callers \subseteq Conns /\ (callers # {} => phase = "up")
  /\ holder \in callers \cup {None} /\ (holder = None <=> since = None)
  /\ (since # None => until = since + Timeout /\ since <= now /\ now <= until)

(* Boot stays within its attempts; callers know when they called. *)
BootInv ==
  /\ phase \in {"asking", "pausing", "up", "exited"}
  /\ attempt \in Nat /\ attempt <= Attempts /\ pause \in Nat
  /\ (phase = "pausing" => attempt < Attempts)
  /\ (m # None => phase = "up")
  /\ asked \in [Conns -> Nat]

(* A connection was made with a third of its token's life left, or with one  *)
(* that was valid a timeout earlier.                                         *)
Made(x) ==
  /\ x.expires > x.issued
  /\ IF x.kept THEN x.born < x.expires + Timeout
               ELSE 3 * (x.expires - x.born) >= Life(x)
ConnInv ==
  /\ conn \in [Conns -> Connection \cup {None}]
  /\ \A c \in Conns : conn[c] # None => Made(conn[c])

IInv == ManifestInv /\ ClockInv /\ ConnInv /\ BootInv

-----------------------------------------------------------------------------
(* Three lifetimes of the pool fit into a life of more than three seconds. *)
LEMMA LifetimeFits ==
  ASSUME NEW t \in Nat, NEW s \in Nat, t > 3 * s, Second = s
  PROVE  3 * ConnLifetime(t) < t
BY DEF ConnLifetime

LEMMA LifetimeType == ASSUME NEW t \in Nat PROVE ConnLifetime(t) \in Nat
BY FlectAssumption DEF ConnLifetime

LEMMA ResolvedType ==
  ASSUME now \in Nat, NEW x \in Resolved
  PROVE  /\ x \in Manifest /\ x # None
         /\ x.issued = now /\ x.expires > now /\ Life(x) \in Nat \ {0}
BY FlectAssumption DEF Resolved, Manifest, Life

(* What Opens leaves behind. *)
LEMMA OpensConn ==
  ASSUME ClockInv, ConnInv, NEW c \in Conns, NEW x \in Manifest, NEW kept \in BOOLEAN,
         Opens(c, x, kept), x.expires > x.issued,
         IF kept THEN now < x.expires + Timeout ELSE 3 * (x.expires - now) >= Life(x)
  PROVE  ConnInv'
<1> DEFINE new == [born |-> now, issued |-> x.issued, expires |-> x.expires, kept |-> kept]
<1>1. new \in Connection /\ Made(new)
  BY DEF Connection, Manifest, Made, Life, ClockInv
<1>2. conn' = [conn EXCEPT ![c] = new]
  BY DEF Opens
<1>3. ConnInv'
  <2>1. conn' \in [Conns -> Connection \cup {None}]
    BY <1>1, <1>2 DEF ConnInv
  <2>2. ASSUME NEW d \in Conns, conn'[d] # None PROVE Made(conn'[d])
    BY <1>1, <1>2, <2>2 DEF ConnInv
  <2>3. ASSUME NEW y, Made(y) PROVE Made(y)'
    BY <2>3 DEF Made, Life
  <2> QED
    BY <2>1, <2>2 DEF ConnInv, Made, Life
<1> QED
  BY <1>3

-----------------------------------------------------------------------------
LEMMA InitInv == Init => IInv
BY FlectAssumption DEF Init, IInv, ManifestInv, ClockInv, ConnInv, BootInv, Manifest, Connection

LEMMA BootStep ==
  ASSUME IInv, BootResolves \/ BootRetries \/ BootAsksAgain \/ BootFails \/ Exited
  PROVE  IInv'
<1> USE DEF IInv, lockVars
<1>1. CASE BootResolves
  <2>1. PICK x \in Resolved : m' = x /\ life' = ConnLifetime(Life(x)) /\ first' = Life(x)
    BY <1>1 DEF BootResolves
  <2>2. ManifestInv'
    BY <1>1, <2>1, ResolvedType, LifetimeType DEF BootResolves, ClockInv, ManifestInv, ConnLifetime
  <2> QED
    BY <1>1, <2>2 DEF BootResolves, ClockInv, ConnInv, BootInv, Made, Life
<1>2. CASE BootRetries \/ BootAsksAgain \/ BootFails
  <2>1. callers = {} /\ since = None
    BY <1>2 DEF BootRetries, BootAsksAgain, BootFails, ClockInv
  <2>2. ManifestInv'
    BY <1>2 DEF BootRetries, BootAsksAgain, BootFails, ManifestInv, ConnLifetime
  <2>3. until' \in Nat
    <3>1. pause \in Nat
      BY DEF BootInv
    <3> QED
      BY <1>2, <3>1, FlectAssumption DEF BootRetries, BootAsksAgain, BootFails, ClockInv
  <2>4. ClockInv'
    BY <1>2, <2>1, <2>3 DEF BootRetries, BootAsksAgain, BootFails, ClockInv
  <2>5. ConnInv'
    BY <1>2 DEF BootRetries, BootAsksAgain, BootFails, ConnInv, Made, Life
  <2>6. BootInv'
    <3>1. pause \in Nat /\ NextPause \in Nat /\ attempt \in Nat /\ Attempts \in Nat
      BY FlectAssumption DEF NextPause, PauseDoubled, BootInv
    <3>2. m = None
      BY <1>2 DEF BootRetries, BootAsksAgain, BootFails, BootInv
    <3> QED
      BY <1>2, <3>1, <3>2 DEF BootRetries, BootAsksAgain, BootFails, AttemptLeft, BootInv
  <2> QED
    BY <2>2, <2>4, <2>5, <2>6
<1>3. CASE Exited
  BY <1>3 DEF Exited, vars, bootVars, ManifestInv, ClockInv, ConnInv, BootInv, Made, Life, ConnLifetime
<1> QED
  BY <1>1, <1>2, <1>3

(* Who holds the mutex is in Connect, so there is a manifest. *)
LEMMA HolderCalls ==
  ASSUME IInv, NEW c \in Conns, holder = c
  PROVE  c \in callers /\ phase = "up" /\ m \in Manifest /\ m.expires > m.issued
<1>1. c # None
  BY FlectAssumption
<1> QED
  BY <1>1 DEF IInv, ManifestInv, ClockInv

LEMMA ConnectStep ==
  ASSUME IInv, NEW c \in Conns,
         Call(c) \/ Reuse(c) \/ StartRenewal(c) \/ Renewed(c) \/ KeepOld(c) \/ ConnectFails(c)
  PROVE  IInv'
<1> USE DEF IInv, BootInv, bootVars
<1>1. CASE Call(c)
  BY <1>1 DEF Call, ManifestInv, ClockInv, ConnInv, Made, Life, ConnLifetime
<1>2. CASE Reuse(c)
  <2>1. m \in Manifest /\ m.expires > m.issued
    BY <1>2 DEF Reuse, Locks, ManifestInv, ClockInv
  <2>2. Opens(c, m, FALSE)
    BY <1>2 DEF Reuse
  <2>3. 3 * (m.expires - now) >= Life(m)
    BY <1>2, <2>1 DEF Reuse, RenewDue, ClockInv, Manifest, Life
  <2>4. ConnInv'
    BY <2>1, <2>2, <2>3, OpensConn
  <2> QED
    BY <1>2, <2>1, <2>4 DEF Reuse, Locks, Opens, ManifestInv, ClockInv, ConnLifetime
<1>3. CASE StartRenewal(c)
  BY <1>3, FlectAssumption, SMTT(30) DEF StartRenewal, AskBroker, Locks, ManifestInv, ClockInv, ConnInv, Made, Life,
     ConnLifetime
<1>4. CASE Renewed(c)
  <2>1. PICK x \in Resolved : m' = x /\ Opens(c, x, FALSE)
    BY <1>4 DEF Renewed
  <2>2. x \in Manifest /\ x # None /\ x.issued = now /\ x.expires > now
    BY <2>1, ResolvedType DEF ClockInv
  <2>3. 3 * (x.expires - now) >= Life(x)
    BY <1>4, <2>2 DEF Renewed, Manifest, Life, ClockInv
  <2>4. ConnInv'
    BY <2>1, <2>2, <2>3, OpensConn
  <2> QED
    BY <1>4, <2>1, <2>2, <2>3, <2>4, HolderCalls DEF Renewed, Opens, ManifestInv, ClockInv, ConnLifetime
<1>5. CASE KeepOld(c)
  <2>1. m \in Manifest /\ m.expires > m.issued
    BY <1>5, HolderCalls DEF KeepOld
  <2>2. Opens(c, m, TRUE)
    BY <1>5 DEF KeepOld
  <2>3. now < m.expires + Timeout
    BY <1>5, <2>1, FlectAssumption DEF KeepOld, StillValid, ClockInv, Manifest
  <2>4. ConnInv'
    BY <2>1, <2>2, <2>3, OpensConn
  <2> QED
    BY <1>5, <2>1, <2>4 DEF KeepOld, Opens, ManifestInv, ClockInv, ConnLifetime
<1>6. CASE ConnectFails(c)
  BY <1>6 DEF ConnectFails, ManifestInv, ClockInv, ConnInv, Made, Life, ConnLifetime
<1> QED
  BY <1>1, <1>2, <1>3, <1>4, <1>5, <1>6

LEMMA PoolStep ==
  ASSUME IInv, (\E c \in Conns : Close(c)) \/ Tick \/ UNCHANGED vars
  PROVE  IInv'
<1> USE DEF IInv, BootInv, bootVars, lockVars
<1>1. CASE \E c \in Conns : Close(c)
  BY <1>1 DEF Close, ManifestInv, ClockInv, ConnInv, Made, Life, ConnLifetime
<1>2. CASE Tick
  <2>1. since # None => now < until
    BY <1>2, FlectAssumption DEF Tick, Urgent, ClockInv
  <2> QED
    BY <1>2, <2>1, FlectAssumption DEF Tick, ManifestInv, ClockInv, ConnInv, Made, Life,
       ConnLifetime, Manifest
<1>3. CASE UNCHANGED vars
  BY <1>3 DEF vars, ManifestInv, ClockInv, ConnInv, Made, Life, ConnLifetime
<1> QED
  BY <1>1, <1>2, <1>3

-----------------------------------------------------------------------------
(* The inductive invariant of manifests, clock and connections. *)
THEOREM FlectInvariant == Spec => []IInv
<1>1. IInv /\ [Next]_vars => IInv'
  BY BootStep, ConnectStep, PoolStep DEF Next
<1> QED
  BY InitInv, <1>1, PTL DEF Spec

(* Every reachable state is well typed. *)
THEOREM FlectTypeOK == Spec => []TypeOK
<1>1. IInv => TypeOK
  BY DEF IInv, ManifestInv, ClockInv, ConnInv, BootInv, TypeOK
<1> QED
  BY FlectInvariant, <1>1, PTL

(* Whatever lives the broker hands out and however callers interleave, a     *)
(* pooled connection that no outage kept has a valid token.                  *)
THEOREM FlectNoneOutlives == Spec => []NoneOutlivesItsToken
<1>1. IInv => NoneOutlivesItsToken
  <2> SUFFICES ASSUME IInv, NEW c \in Conns, Usable(c), ~conn[c].kept,
                      first <= Life(conn[c]), 3 * Second < first
               PROVE  now < conn[c].expires
    BY DEF NoneOutlivesItsToken
  <2>1. /\ conn[c] \in Connection /\ 3 * (conn[c].expires - conn[c].born) >= Life(conn[c])
        /\ now <= conn[c].born + life
    BY DEF Usable, IInv, ConnInv, Made
  <2>2. life = ConnLifetime(first) /\ first \in Nat /\ life \in Nat /\ now \in Nat
    BY FlectAssumption DEF IInv, ManifestInv, ClockInv
  <2>3. 3 * life < first
    BY <2>2, LifetimeFits, FlectAssumption
  <2> QED
    BY <2>1, <2>2, <2>3 DEF Connection, Life
<1> QED
  BY FlectInvariant, <1>1, PTL

(* In an outage the token of a connection in use has been expired for less   *)
(* than the pool lifetime and one broker timeout.                            *)
THEOREM FlectOutlivesBriefly == Spec => []OutlivesBriefly
<1>1. IInv => OutlivesBriefly
  <2> SUFFICES ASSUME IInv, NEW c \in Conns, Usable(c)
               PROVE  now < conn[c].expires + life + Timeout
    BY DEF OutlivesBriefly
  <2>1. conn[c] \in Connection /\ Made(conn[c]) /\ now <= conn[c].born + life
    BY DEF Usable, IInv, ConnInv
  <2>2. life \in Nat /\ now \in Nat /\ Timeout \in Nat
    BY FlectAssumption DEF IInv, ManifestInv, ClockInv
  <2> QED
    BY <2>1, <2>2 DEF Connection, Life, Made
<1> QED
  BY FlectInvariant, <1>1, PTL

-----------------------------------------------------------------------------
(***************************************************************************)
(* How long a caller waits.  The request that is under way began when the  *)
(* caller came or later, or else right after one that failed; and when the *)
(* mutex is free, which takes no time, a caller that was let down by no    *)
(* failure just now finds credentials that are not due.                    *)
(***************************************************************************)
WaitInv ==
  /\ \A c \in callers : holder # None => since <= asked[c] \/ failed = since
  /\ \A c \in callers : holder = None => now \in {asked[c], failed} \/ ~RenewDue(m)
  /\ WaitIsBounded

LEMMA CallWaits ==
  ASSUME IInv, WaitInv, NEW c \in Conns, Call(c)
  PROVE  WaitInv'
<1>1. /\ now \in Nat /\ asked \in [Conns -> Nat] /\ callers \subseteq Conns /\ Timeout \in Nat
      /\ since \in Nat \cup {None} /\ (holder # None => since <= now /\ since \in Nat)
  BY FlectAssumption DEF IInv, ClockInv, BootInv
<1>2. /\ callers' = callers \cup {c} /\ asked' = [asked EXCEPT ![c] = now]
      /\ UNCHANGED <<now, m, holder, since, failed>>
  BY DEF Call
<1>3. ASSUME NEW d \in callers'
      PROVE  /\ asked'[d] = IF d = c THEN now ELSE asked[d]
             /\ d # c => d \in callers
  BY <1>1, <1>2
<1> QED
  BY <1>1, <1>2, <1>3 DEF WaitInv, WaitIsBounded, RenewDue, Life

(* A caller takes the mutex and asks: the others' credentials are due too. *)
LEMMA AskWaits ==
  ASSUME IInv, WaitInv, NEW c \in Conns, StartRenewal(c)
  PROVE  WaitInv'
<1>1. /\ now \in Nat /\ asked \in [Conns -> Nat] /\ callers \subseteq Conns
      /\ holder = None /\ RenewDue(m)
  BY DEF IInv, ClockInv, BootInv, StartRenewal, Locks
<1>2. holder' = c /\ since' = now /\ c # None /\ UNCHANGED <<now, m, callers, asked, failed>>
  BY FlectAssumption DEF StartRenewal, AskBroker
<1>3. ASSUME NEW d \in callers PROVE since' <= asked[d] \/ failed = since'
  BY <1>1, <1>2 DEF WaitInv
<1> QED
  BY <1>2, <1>3 DEF WaitInv, WaitIsBounded

(* A caller leaves with the credentials in hand, which are not due. *)
LEMMA ReuseWaits ==
  ASSUME IInv, WaitInv, NEW c \in Conns, Reuse(c)
  PROVE  WaitInv'
<1>1. /\ callers' \subseteq callers /\ holder' = None /\ ~RenewDue(m)
      /\ UNCHANGED <<now, m, asked, failed>>
  BY DEF Reuse, Locks, Opens
<1> QED
  BY <1>1 DEF WaitInv, WaitIsBounded, RenewDue, Life

(* The broker has answered, in time, with credentials that are not due. *)
LEMMA RenewedWaits ==
  ASSUME IInv, WaitInv, NEW c \in Conns, Renewed(c)
  PROVE  WaitInv'
<1>1. /\ now \in Nat /\ callers' \subseteq callers /\ holder' = None
      /\ UNCHANGED <<now, asked, failed>>
  BY DEF Renewed, Opens, IInv, ClockInv
<1>2. PICK x \in Resolved : m' = x
  BY DEF Renewed
<1>3. ~RenewDue(x)
  BY <1>1, <1>2, ResolvedType DEF RenewDue, Life, Manifest
<1>4. ~RenewDue(m)'
  BY <1>1, <1>2, <1>3 DEF RenewDue, Life
<1> QED
  BY <1>1, <1>4 DEF WaitInv, WaitIsBounded

(* The renewal failed: those who still wait have seen it. *)
LEMMA FailureWaits ==
  ASSUME IInv, WaitInv, NEW c \in Conns, KeepOld(c) \/ ConnectFails(c)
  PROVE  WaitInv'
<1>1. holder' = None /\ failed' = now /\ now' = now /\ now \in Nat /\ Timeout \in Nat
  BY FlectAssumption DEF KeepOld, ConnectFails, Opens, IInv, ClockInv
<1>2. now # None /\ now <= now + Timeout
  BY <1>1, FlectAssumption
<1> QED
  BY <1>1, <1>2 DEF WaitInv, WaitIsBounded

LEMMA OtherWaits ==
  ASSUME IInv, WaitInv,
         \/ BootResolves \/ BootRetries \/ BootAsksAgain \/ BootFails \/ Exited
         \/ (\E c \in Conns : Close(c)) \/ Tick \/ UNCHANGED vars
  PROVE  WaitInv'
<1> USE DEF lockVars
<1>1. CASE BootResolves \/ BootRetries \/ BootAsksAgain \/ BootFails
  <2>1. callers = {} /\ UNCHANGED callers
    BY <1>1 DEF BootResolves, BootRetries, BootAsksAgain, BootFails, IInv, ClockInv
  <2> QED
    BY <2>1 DEF WaitInv, WaitIsBounded
<1>2. CASE (\E c \in Conns : Close(c)) \/ Exited \/ UNCHANGED vars
  <2>1. UNCHANGED <<now, m, lockVars>>
    BY <1>2 DEF Close, Exited, vars
  <2> QED
    BY <2>1 DEF WaitInv, WaitIsBounded, RenewDue, Life
<1>3. CASE Tick
  <2>1. callers # {} => holder # None /\ now < until
    BY <1>3, FlectAssumption DEF Tick, Urgent, IInv, ClockInv
  <2>2. /\ UNCHANGED <<m, lockVars, until>> /\ now' = now + 1 /\ now \in Nat
        /\ Timeout \in Nat /\ asked \in [Conns -> Nat] /\ callers \subseteq Conns
        /\ failed \in Nat \cup {None}
    BY <1>3, FlectAssumption DEF Tick, IInv, ClockInv, BootInv
  <2>3. ASSUME NEW c \in callers
        PROVE  /\ since <= asked[c] \/ failed = since
               /\ since \in Nat /\ now + 1 <= since + Timeout
    BY <2>1, <2>2 DEF WaitInv, IInv, ClockInv
  <2>4. ASSUME NEW c \in callers
        PROVE  now + 1 <= asked[c] + Timeout \/ (failed # None /\ now + 1 <= failed + Timeout)
    BY <2>2, <2>3, FlectAssumption
  <2> QED
    BY <2>1, <2>2, <2>3, <2>4 DEF WaitInv, WaitIsBounded
<1> QED
  BY <1>1, <1>2, <1>3

(* Whoever is in Connect has waited for one broker timeout at most since it  *)
(* called or since a renewal failed, for any number of connections and       *)
(* whichever of those who wait the mutex lets in.                            *)
THEOREM FlectWaitIsBounded == Spec => []WaitIsBounded
<1>1. Init => WaitInv
  BY DEF Init, WaitInv, WaitIsBounded
<1>2. IInv /\ WaitInv /\ [Next]_vars => WaitInv'
  BY CallWaits, AskWaits, ReuseWaits, RenewedWaits, FailureWaits, OtherWaits DEF Next
<1>3. WaitInv => WaitIsBounded
  BY DEF WaitInv
<1> QED
  BY FlectInvariant, <1>1, <1>2, <1>3, PTL DEF Spec
=============================================================================
