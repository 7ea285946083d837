------------------------------ MODULE Realtime ------------------------------
(***************************************************************************)
(* Realtime delivery over SSE (httpapi/router.go: append's publish loop and *)
(* subscribe; clients/ts subscribe): append handlers commit events and then *)
(* publish them one by one on the Bus; one session goroutine per connected  *)
(* client replays the log from the client's cursor and then tails the bus;  *)
(* the client reads the wire, remembers the last id and reconnects from it. *)
(*                                                                         *)
(* The log is a sequence: globalSeq is the position.  That commits appear   *)
(* in globalSeq order is Store's CommitsInSeqOrder, which SQLite provides.  *)
(***************************************************************************)
EXTENDS Bus

CONSTANTS
  Writers,          \* append handlers
  Types, AnyType,   \* stream types, and the absent ?type= filter
  TenantOf,         \* TenantOf[c]: the tenant of the client's token
  FilterOf,         \* FilterOf[c]: its ?type= filter, or AnyType
  Kinds,            \* the kinds of event written, records [tenant, type]
  Stalled,          \* clients that may stop reading their connection
  WireSize,         \* events the network takes before a send blocks
  Luck,             \* times in a row select prefers the channel to overflow
  MaxBatch, MaxEvents, MaxFailures   \* bounds

ASSUME RealtimeAssumption ==
  /\ TenantOf \in [Clients -> Tenants]
  /\ FilterOf \in [Clients -> Types \cup {AnyType}]
  /\ Kinds \subseteq [tenant: Tenants, type: Types]
  /\ Stalled \subseteq Clients
  /\ {WireSize, MaxBatch} \subseteq Nat \ {0}
  /\ {Luck, MaxEvents, MaxFailures} \subseteq Nat

VARIABLES
  log,        \* the committed events, in globalSeq order
  pend,       \* pend[w]: committed events the handler has yet to publish
  spc,        \* spc[c]: the session goroutine of client c
  backlog,    \* backlog[c]: catch-up events not sent yet
  lastSeq,    \* lastSeq[c]: the session's dedup cursor
  luck,       \* luck[c]: picks of the channel since the overflow signal
  wire,       \* wire[c]: sent and not yet received
  lastId,     \* lastId[c]: the client's resume cursor
  got,        \* history: the events client c received
  raced,      \* history: two handlers were between commit and publish, or one
              \* never published what it had committed
  outrun,     \* history: a session took more than it had buffered at overflow
  failures    \* connections lost and crashes so far

sessionVars == <<spc, backlog, lastSeq, luck>>
clientVars  == <<wire, lastId, got>>
history == <<raced, outrun>>
vars == <<busVars, log, pend, sessionVars, clientVars, history, failures>>

Event == 1..MaxEvents     \* an event is its globalSeq

(* The events of the log a subscription is about. *)
TypeMatches(c, e) == FilterOf[c] \in {AnyType, log[e].type}
Wanted(c) == {e \in 1..Len(log) : log[e].tenant = TenantOf[c] /\ TypeMatches(c, e)}

(* The live loop drops what catch-up already sent. *)
NoOverlap(c, e)      == FALSE
OverlapByOne(c, e)   == e <= lastSeq[c] + 1
Overlap(c, e)        == e <= lastSeq[c]

(* The catch-up read: everything after the cursor that the filter lets pass. *)
CatchUp(c)           == {e \in Wanted(c) : e > lastSeq[c]}

Init ==
  /\ BusInit
  /\ log = <<>>
  /\ pend = [w \in Writers |-> <<>>]
  /\ spc = [c \in Clients |-> "off"]
  /\ backlog = [c \in Clients |-> {}]
  /\ lastSeq = [c \in Clients |-> 0]
  /\ luck = [c \in Clients |-> 0]
  /\ wire = [c \in Clients |-> <<>>]
  /\ lastId = [c \in Clients |-> 0]
  /\ got = [c \in Clients |-> <<>>]
  /\ raced = FALSE
  /\ outrun = FALSE
  /\ failures = 0

-----------------------------------------------------------------------------
(***************************************************************************)
(* The append handlers.                                                    *)
(***************************************************************************)
(* Store.Append committed a batch of one stream; folding takes its time. *)
Commit(w) ==
  /\ pend[w] = <<>>
  /\ \E k \in Kinds, n \in 1..MaxBatch :
       /\ Len(log) + n <= MaxEvents
       /\ log' = log \o [j \in 1..n |-> k]
       /\ pend' = [pend EXCEPT ![w] = [j \in 1..n |-> Len(log) + j]]
  /\ raced' = (raced \/ \E v \in Writers : pend[v] # <<>>)
  /\ UNCHANGED <<busVars, sessionVars, clientVars, outrun, failures>>

(* The batch is committed and the answer to COMMIT lost: the handler answers *)
(* 500, and neither folds nor publishes.                                     *)
CommitUnanswered(w) ==
  /\ pend[w] = <<>> /\ failures < MaxFailures
  /\ \E k \in Kinds, n \in 1..MaxBatch :
       /\ Len(log) + n <= MaxEvents
       /\ log' = log \o [j \in 1..n |-> k]
  /\ raced' = TRUE
  /\ failures' = failures + 1
  /\ UNCHANGED <<busVars, pend, sessionVars, clientVars, outrun>>

(* One turn of the publish loop; after the last one the handler answers 200. *)
PublishNext(w) ==
  /\ pend[w] # <<>>
  /\ Publish(log[Head(pend[w])].tenant, Head(pend[w]))
  /\ pend' = [pend EXCEPT ![w] = Tail(@)]
  /\ UNCHANGED <<log, sessionVars, clientVars, history, failures>>

-----------------------------------------------------------------------------
(***************************************************************************)
(* The sessions.                                                           *)
(***************************************************************************)
(* A request arrives with Last-Event-ID; the bus comes before the log. *)
Connect(c) ==
  /\ spc[c] = "off" /\ wire[c] = <<>>
  /\ Subscribe(c, TenantOf[c])
  /\ lastSeq' = [lastSeq EXCEPT ![c] = lastId[c]]
  /\ spc' = [spc EXCEPT ![c] = "joined"]
  /\ UNCHANGED <<log, pend, backlog, luck, clientVars, history, failures>>

ReadLog(c) ==
  /\ spc[c] = "joined"
  /\ backlog' = [backlog EXCEPT ![c] = CatchUp(c)]
  /\ spc' = [spc EXCEPT ![c] = "catchup"]
  /\ UNCHANGED <<busVars, log, pend, lastSeq, luck, clientVars, history, failures>>

(* send: the event goes on the wire and the cursor moves to it. *)
Send(c, e) ==
  /\ Len(wire[c]) < WireSize
  /\ wire' = [wire EXCEPT ![c] = Append(@, e)]
  /\ lastSeq' = [lastSeq EXCEPT ![c] = e]
  /\ UNCHANGED <<lastId, got>>

CatchUpSend(c) ==
  /\ spc[c] = "catchup"
  /\ \E e \in backlog[c] :
       /\ \A d \in backlog[c] : e <= d
       /\ Send(c, e)
       /\ backlog' = [backlog EXCEPT ![c] = @ \ {e}]
  /\ UNCHANGED <<busVars, log, pend, spc, luck, history, failures>>

GoLive(c) ==
  /\ spc[c] = "catchup" /\ backlog[c] = {}
  /\ spc' = [spc EXCEPT ![c] = "live"]
  /\ UNCHANGED <<busVars, log, pend, backlog, lastSeq, luck, clientVars, history, failures>>

(* The select of the live loop picks the channel; with the overflow signal   *)
(* pending the pick is a coin flip, which comes out right Luck times at most. *)
Pick(c) ==
  /\ spc[c] = "live"
  /\ over[c] => luck[c] < Luck
  /\ luck' = [luck EXCEPT ![c] = IF over[c] THEN @ + 1 ELSE 0]
  /\ outrun' = (outrun \/ luck[c] >= BufferSize)
  /\ Take(c)

LiveSkip(c) ==
  /\ Pick(c)
  /\ LET e == Head(chan[c]) IN Overlap(c, e) \/ ~TypeMatches(c, e)
  /\ UNCHANGED <<log, pend, spc, backlog, lastSeq, clientVars, raced, failures>>

LiveSend(c) ==
  /\ Pick(c)
  /\ LET e == Head(chan[c]) IN ~Overlap(c, e) /\ TypeMatches(c, e) /\ Send(c, e)
  /\ UNCHANGED <<log, pend, spc, backlog, raced, failures>>

(* subscribe returns: the deferred Unsubscribe runs. *)
EndSession(c) ==
  /\ Unsubscribe(c)
  /\ spc' = [spc EXCEPT ![c] = "off"]
  /\ backlog' = [backlog EXCEPT ![c] = {}]
  /\ lastSeq' = [lastSeq EXCEPT ![c] = 0]
  /\ luck' = [luck EXCEPT ![c] = 0]

OverflowEnd(c) ==
  /\ spc[c] = "live" /\ over[c]
  /\ EndSession(c)
  /\ UNCHANGED <<log, pend, clientVars, history, failures>>

(* The connection breaks, or ReadAll fails: what is on the wire is lost. *)
Drop(c) ==
  /\ spc[c] # "off" /\ failures < MaxFailures
  /\ EndSession(c)
  /\ wire' = [wire EXCEPT ![c] = <<>>]
  /\ failures' = failures + 1
  /\ UNCHANGED <<log, pend, lastId, got, history>>

(* The client takes an event and remembers its id before it handles it. *)
ClientRecv(c) ==
  /\ wire[c] # <<>>
  /\ lastId' = [lastId EXCEPT ![c] = Head(wire[c])]
  /\ got' = [got EXCEPT ![c] = Append(@, Head(wire[c]))]
  /\ wire' = [wire EXCEPT ![c] = Tail(@)]
  /\ UNCHANGED <<busVars, log, pend, sessionVars, history, failures>>

(* The server dies and restarts: the log and the clients' cursors remain. *)
Crash ==
  /\ failures < MaxFailures
  /\ BusReset
  /\ pend' = [w \in Writers |-> <<>>]
  /\ spc' = [c \in Clients |-> "off"]
  /\ backlog' = [c \in Clients |-> {}]
  /\ lastSeq' = [c \in Clients |-> 0]
  /\ luck' = [c \in Clients |-> 0]
  /\ wire' = [c \in Clients |-> <<>>]
  /\ failures' = failures + 1
  /\ UNCHANGED <<log, lastId, got, history>>

(* Everything bounded has happened and been delivered. *)
Rest ==
  /\ Len(log) = MaxEvents /\ \A w \in Writers : pend[w] = <<>>
  /\ \A c \in Clients : spc[c] = "live" /\ chan[c] = <<>> /\ wire[c] = <<>>
  /\ UNCHANGED vars

-----------------------------------------------------------------------------
Session(c) ==
  ReadLog(c) \/ CatchUpSend(c) \/ GoLive(c) \/ LiveSkip(c) \/ LiveSend(c) \/ OverflowEnd(c)

Next ==
  \/ \E w \in Writers : Commit(w) \/ CommitUnanswered(w) \/ PublishNext(w)
  \/ \E c \in Clients : Connect(c) \/ Session(c) \/ Drop(c) \/ ClientRecv(c)
  \/ Crash \/ Rest

Spec == Init /\ [][Next]_vars

(* Goroutines are scheduled; a client that is not stalled reads its socket   *)
(* and reconnects after its backoff.  Nobody has to append, drop or crash.   *)
FairSpec ==
  /\ Spec
  /\ \A w \in Writers : WF_vars(PublishNext(w))
  /\ \A c \in Clients : WF_vars(Session(c))
  /\ \A c \in Clients \ Stalled : WF_vars(Connect(c)) /\ WF_vars(ClientRecv(c))

-----------------------------------------------------------------------------
(***************************************************************************)
(* Properties.                                                             *)
(***************************************************************************)
TypeOK ==
  /\ BusTypeOK(Event)
  /\ log \in Seq(Kinds) /\ Len(log) <= MaxEvents
  /\ pend \in [Writers -> Seq(Event)]
  /\ spc \in [Clients -> {"off", "joined", "catchup", "live"}]
  /\ backlog \in [Clients -> SUBSET Event]
  /\ lastSeq \in [Clients -> Event \cup {0}]
  /\ luck \in [Clients -> 0..Luck]
  /\ wire \in [Clients -> Seq(Event)] /\ \A c \in Clients : Len(wire[c]) <= WireSize
  /\ lastId \in [Clients -> Event \cup {0}]
  /\ got \in [Clients -> Seq(Event)]
  /\ raced \in BOOLEAN /\ outrun \in BOOLEAN
  /\ failures \in 0..MaxFailures

Received(c) == {got[c][j] : j \in 1..Len(got[c])}

(* Each event reaches a client once at most and in globalSeq order, over     *)
(* overlaps of catch-up and live tail, reconnects, overflows and crashes.    *)
OrderedOnce ==
  \A c \in Clients : \A j, k \in 1..Len(got[c]) : j < k => got[c][j] < got[c][k]

(* Nothing is skipped: below the last event received, the client has every   *)
(* event of its subscription.                                                *)
GapFree ==
  \A c \in Clients : \A e \in Wanted(c) : e <= lastId[c] => e \in Received(c)

D == INSTANCE Delivery WITH Readers <- Clients,
                            due <- [c \in Clients |-> Wanted(c)],
                            got <- [c \in Clients |-> Received(c)]

(* As long as appends do not overlap between commit and publish, none fails  *)
(* after it has committed, and no session wins more tosses after its         *)
(* overflow than it had events buffered then (one more lets an event past    *)
(* the one refused), a session promises what a paging reader is promised:    *)
(* each step hands over the oldest events of the client's own tenant and     *)
(* stream type that it does not have, over catch-up, live tail, overflow,    *)
(* reconnect and crash.                                                      *)
DeliversUnlessRaced ==
  /\ D!Init
  /\ [][raced' \/ outrun' \/ D!Next]_<<[c \in Clients |-> Wanted(c)],
                                      [c \in Clients |-> Received(c)]>>

(* Nobody's slowness is the writer's: every commit is published and its      *)
(* handler answers, whatever the sessions and a stalled client do.           *)
WritersNeverWait == \A w \in Writers : pend[w] # <<>> ~> pend[w] = <<>>

(* Nothing is lost, only re-read: a client that keeps reading ends up with   *)
(* every event of its subscription, with the same exceptions.                *)
EventuallyCurrent ==
  \A c \in Clients \ Stalled : <>[](raced \/ outrun \/ Wanted(c) \subseteq Received(c))
=============================================================================
