------------------------------ MODULE FlectDB -------------------------------
(***************************************************************************)
(* The database a Flect binding names (flectdb/flectdb.go).  A broker      *)
(* resolves the binding into a manifest, credentials with an expiry; each  *)
(* new connection takes the credentials in hand, renewed when less than a  *)
(* third of their life is left, and the pool closes a connection after a   *)
(* fixed lifetime.  Connect runs under a mutex, which it holds while the   *)
(* broker thinks.  A sync.Mutex that is free goes to anyone who wants it:  *)
(* a newcomer may overtake those who wait, and nothing here depends on the *)
(* order in which the runtime prefers the starving.                        *)
(*                                                                         *)
(* Time passes in Tick, never beyond a moment at which the code acts.      *)
(***************************************************************************)
EXTENDS Integers

CONSTANTS
  Conns,        \* the connections the pool can hold at a time
  Lives,        \* how long the manifests are valid that the broker hands out
  Second,       \* the least lifetime of a pooled connection
  Timeout,      \* of the HTTP client that asks the broker
  Attempts, Backoff, MaxPause,   \* of the resolution at boot
  None,         \* no manifest, no connection, nobody, never
  MaxTime       \* bound

ASSUME FlectAssumption ==
  /\ Lives \subseteq Nat \ {0}
  /\ {Second, Timeout, Attempts, Backoff, MaxPause, MaxTime} \subseteq Nat
  /\ Attempts > 0 /\ None \notin Conns \cup Nat
  /\ None \notin [issued: Nat, expires: Nat]
  /\ None \notin [born: Nat, issued: Nat, expires: Nat, kept: BOOLEAN]

VARIABLES
  now,
  phase,     \* "asking" the broker at boot, "pausing", "up", or "exited"
  attempt,   \* of the resolution at boot
  pause,     \* the next one between attempts
  until,     \* when the pause, or the request to the broker, is over
  m,         \* c.m: the manifest in hand
  life,      \* the lifetime of pooled connections
  first,     \* history: how long the manifest of the boot was valid
  callers,   \* those in Connect
  holder,    \* the one that holds the mutex while the broker is asked
  since,     \* the time the holder has read
  asked,     \* history: asked[c]: when c called Connect
  failed,    \* history: when a renewal last failed
  conn       \* conn[c]: a pooled connection: when it was made, with which token

bootVars == <<phase, attempt, pause, life, first>>
lockVars == <<callers, holder, since, asked, failed>>
vars == <<now, bootVars, until, m, lockVars, conn>>

Manifest   == [issued: Nat, expires: Nat]
Connection == [born: Nat, issued: Nat, expires: Nat, kept: BOOLEAN]

(* What validate lets pass: it has a life of its own from the answer on. *)
Resolved == {[issued |-> now, expires |-> now + t] : t \in Lives}

Life(x) == x.expires - x.issued

(* ttl/4, at least a second *)
ConnLifetime(t)     == IF t \div 4 > Second THEN t \div 4 ELSE Second

(* Less than a third of its life is left. *)
RenewOnExpiry(x) == x.expires <= now
RenewDue(x)      == 3 * (x.expires - now) < Life(x)

Init ==
  /\ now = 0
  /\ phase = "asking" /\ attempt = 1 /\ pause = Backoff /\ until = Timeout
  /\ m = None /\ life = 0 /\ first = 0
  /\ callers = {} /\ holder = None /\ since = None
  /\ asked = [c \in Conns |-> 0] /\ failed = None
  /\ conn = [c \in Conns |-> None]

-----------------------------------------------------------------------------
(***************************************************************************)
(* Boot: Open.                                                             *)
(***************************************************************************)
BootResolves ==
  /\ phase = "asking"
  /\ \E x \in Resolved :
       m' = x /\ life' = ConnLifetime(Life(x)) /\ first' = Life(x)
  /\ phase' = "up"
  /\ UNCHANGED <<now, attempt, pause, until, lockVars, conn>>

(* An outage, or a manifest that validate refuses: tried again. *)
PauseDoubled == pause * 2
NextPause    == IF PauseDoubled > MaxPause THEN MaxPause ELSE PauseDoubled

AttemptLeftAtLast == attempt <= Attempts
AttemptLeft       == attempt < Attempts

BootRetries ==
  /\ phase = "asking" /\ AttemptLeft
  /\ phase' = "pausing" /\ until' = now + pause /\ pause' = NextPause
  /\ UNCHANGED <<now, attempt, m, life, first, lockVars, conn>>

BootAsksAgain ==
  /\ phase = "pausing" /\ now >= until
  /\ phase' = "asking" /\ attempt' = attempt + 1 /\ until' = now + Timeout
  /\ UNCHANGED <<now, pause, m, life, first, lockVars, conn>>

(* A refusal, or the last outage: the process exits. *)
BootFails ==
  /\ phase = "asking"
  /\ phase' = "exited"
  /\ UNCHANGED <<now, attempt, pause, until, m, life, first, lockVars, conn>>

Exited == phase = "exited" /\ UNCHANGED vars

-----------------------------------------------------------------------------
(***************************************************************************)
(* Connect and current.                                                    *)
(***************************************************************************)
Call(c) ==
  /\ phase = "up" /\ conn[c] = None /\ c \notin callers
  /\ callers' = callers \cup {c}
  /\ asked' = [asked EXCEPT ![c] = now]
  /\ UNCHANGED <<now, bootVars, until, m, holder, since, failed, conn>>

(* The mutex is free, and c is the one that gets it. *)
Locks(c) == holder = None /\ c \in callers

(* c leaves with the credentials x. *)
Opens(c, x, kept) ==
  /\ conn' = [conn EXCEPT ![c] = [born |-> now, issued |-> x.issued,
                                  expires |-> x.expires, kept |-> kept]]
  /\ callers' = callers \ {c} /\ holder' = None /\ since' = None

(* The credentials in hand will do. *)
Reuse(c) ==
  /\ Locks(c) /\ ~RenewDue(m)
  /\ Opens(c, m, FALSE)
  /\ UNCHANGED <<now, bootVars, until, m, asked, failed>>

AskBroker(c) ==
  /\ holder' = c /\ since' = now /\ until' = now + Timeout
  /\ UNCHANGED <<now, bootVars, m, callers, asked, failed, conn>>

StartRenewalAgain(c) == Locks(c) /\ AskBroker(c)
StartRenewal(c)      == Locks(c) /\ RenewDue(m) /\ AskBroker(c)

Renewed(c) ==
  /\ holder = c
  /\ \E x \in Resolved : m' = x /\ Opens(c, x, FALSE)
  /\ UNCHANGED <<now, bootVars, until, asked, failed>>

(* Valid is judged by the time read before the broker was asked. *)
ValidForALife  == m.expires + Life(m) > since
StillValid     == m.expires > since

KeepOld(c) ==
  /\ holder = c /\ StillValid
  /\ Opens(c, m, TRUE)
  /\ failed' = now
  /\ UNCHANGED <<now, bootVars, until, m, asked>>

ConnectFails(c) ==
  /\ holder = c /\ ~StillValid
  /\ callers' = callers \ {c} /\ holder' = None /\ since' = None
  /\ failed' = now
  /\ UNCHANGED <<now, bootVars, until, m, asked, conn>>

-----------------------------------------------------------------------------
(***************************************************************************)
(* The pool and the clock.                                                 *)
(***************************************************************************)
(* What database/sql still hands out. *)
Usable(c) == conn[c] # None /\ now <= conn[c].born + life

(* Idle too long, broken, or past its lifetime when it is next asked for. *)
Close(c) ==
  /\ conn[c] # None
  /\ conn' = [conn EXCEPT ![c] = None]
  /\ UNCHANGED <<now, bootVars, until, m, lockVars>>

(* A pause ends and a request times out on time, and a free mutex is taken.  *)
Urgent ==
  \/ phase \in {"asking", "pausing"} /\ now >= until
  \/ callers # {} /\ (holder = None \/ now >= until)

Tick ==
  /\ phase # "exited" /\ ~Urgent /\ now < MaxTime
  /\ now' = now + 1
  /\ UNCHANGED <<bootVars, until, m, lockVars, conn>>

Next ==
  \/ BootResolves \/ BootRetries \/ BootAsksAgain \/ BootFails \/ Exited
  \/ \E c \in Conns :
       \/ Call(c) \/ Reuse(c) \/ StartRenewal(c) \/ Renewed(c) \/ KeepOld(c)
       \/ ConnectFails(c) \/ Close(c)
  \/ Tick

Spec == Init /\ [][Next]_vars

-----------------------------------------------------------------------------
(***************************************************************************)
(* Properties.                                                             *)
(***************************************************************************)
TypeOK ==
  /\ now \in Nat /\ until \in Nat /\ life \in Nat /\ first \in Nat
  /\ phase \in {"asking", "pausing", "up", "exited"}
  /\ attempt \in Nat /\ attempt <= Attempts /\ pause \in Nat
  /\ m \in Manifest \cup {None} /\ (phase = "up" <=> m # None)
  /\ callers \subseteq Conns /\ (callers # {} => phase = "up")
  /\ holder \in callers \cup {None} /\ (holder = None <=> since = None)
  /\ {since, failed} \subseteq Nat \cup {None}
  /\ asked \in [Conns -> Nat]
  /\ conn \in [Conns -> Connection \cup {None}]

(* No statement goes out with an expired token: what the pool hands out has  *)
(* a valid one, unless an outage made Connect keep it, or the broker hands   *)
(* out shorter lives than at boot or lives of three seconds or less.         *)
NoneOutlivesItsToken ==
  \A c \in Conns :
    Usable(c) /\ ~conn[c].kept /\ first <= Life(conn[c]) /\ 3 * Second < first
      => now < conn[c].expires

(* Through outages and renewals with other lives, the token of a connection  *)
(* in use has been expired for less than the lifetime and one broker timeout.*)
OutlivesBriefly ==
  \A c \in Conns : Usable(c) => now < conn[c].expires + life + Timeout

(* Callers wait for the broker and not for each other: whoever is in Connect *)
(* called it, or has seen a renewal fail, no more than one broker timeout    *)
(* ago, however many wait and in whatever order the mutex takes them.  One   *)
(* renewal that succeeds lets all of them go; each that fails costs those    *)
(* who still wait another timeout.                                           *)
WaitIsBounded ==
  \A c \in callers :
    now <= asked[c] + Timeout \/ (failed # None /\ now <= failed + Timeout)
=============================================================================
