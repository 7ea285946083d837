---------------------------- MODULE RealtimeProofs ----------------------------
(***************************************************************************)
(* Theorems about Realtime, for every set of clients and writers, every    *)
(* filter, and buffers, batches and logs of every size.                    *)
(***************************************************************************)
EXTENDS Realtime, TLAPS

Elems(s) == {s[j] : j \in 1..Len(s)}
Increasing(s) == \A j, k \in 1..Len(s) : j < k => s[j] < s[k]

Sent(c) == Elems(wire[c])
Buffered(c) == Elems(chan[c])

(* Committed and not yet published. *)
Pending == UNION {Elems(pend[w]) : w \in Writers}

(* What a client has comes before what is on the wire, and that before what  *)
(* its session has yet to send.                                              *)
Order(c) ==
  /\ Increasing(got[c]) /\ Increasing(wire[c])
  /\ \A e \in Received(c) : e <= lastId[c]
  /\ \A e \in Sent(c) : lastId[c] < e
  /\ spc[c] # "off" => lastId[c] <= lastSeq[c] /\ \A e \in Sent(c) : e <= lastSeq[c]
  /\ \A e \in backlog[c] : lastSeq[c] < e
  /\ spc[c] # "catchup" => backlog[c] = {}

(* A session handles only committed events, of its own tenant. *)
Own(c) ==
  /\ Received(c) \cup Sent(c) \cup backlog[c] \subseteq Wanted(c)
  /\ lastId[c] <= Len(log) /\ lastSeq[c] <= Len(log)
  /\ \A e \in Buffered(c) : e \in 1..Len(log) /\ log[e].tenant = TenantOf[c]
  /\ IF spc[c] = "off" THEN reg[c] = NoTenant /\ chan[c] = <<>> ELSE reg[c] = TenantOf[c]

(* The tosses of select since the overflow leave the rest of a full buffer. *)
Tossed(c) ==
  /\ luck[c] = 0 \/ (spc[c] = "live" /\ over[c])
  /\ over[c] => luck[c] <= BufferSize /\ BufferSize <= luck[c] + Len(chan[c])

(* An event the full buffer had no room for: it comes after what is left of  *)
(* the buffer that was full.                                                 *)
Refused(c, e) == over[c] /\ \A j \in 1..Len(chan[c]) : j + luck[c] <= BufferSize => chan[c][j] < e

(* Nothing a client wants is missing between any two of its stages. *)
Whole(c) ==
  /\ \A e \in Wanted(c) : e <= lastId[c] => e \in Received(c)
  /\ \A e \in Wanted(c), d \in Sent(c) : e <= d => e \in Received(c) \cup Sent(c)
  /\ spc[c] # "off" =>
       \A e \in Wanted(c) : e <= lastSeq[c] => e \in Received(c) \cup Sent(c)
  /\ \A e \in Wanted(c), d \in backlog[c] : lastSeq[c] < e => e \in backlog[c] \/ d < e
  /\ spc[c] \in {"catchup", "live"} =>
       \A e \in Wanted(c) : lastSeq[c] < e =>
         e \in backlog[c] \cup Pending \cup Buffered(c) \/ Refused(c, e)

(* One handler at a time publishes, in the order of the log, *)
InTurn ==
  /\ \A v, w \in Writers : pend[v] # <<>> /\ pend[w] # <<>> => v = w
  /\ \A w \in Writers : Increasing(pend[w])

(* so that a channel has events in that order, before all that will come. *)
Lined(c) == Increasing(chan[c]) /\ \A e \in Buffered(c), p \in Pending : e < p

Safe(c) ==
  /\ Order(c) /\ Own(c)
  /\ ~outrun => Tossed(c)
  /\ ~raced => Lined(c)
  /\ ~raced /\ ~outrun => Whole(c)

IInv ==
  /\ TypeOK
  /\ Pending \subseteq 1..Len(log)
  /\ ~raced => InTurn
  /\ \A c \in Clients : Safe(c)

(* All there is of one client. *)
Mine(c) == <<reg[c], chan[c], over[c], spc[c], backlog[c], lastSeq[c], luck[c],
             wire[c], lastId[c], got[c]>>

-----------------------------------------------------------------------------
(***************************************************************************)
(* Sequences of events.                                                    *)
(***************************************************************************)
LEMMA Taken ==
  ASSUME NEW S, NEW s \in Seq(S), s # <<>>
  PROVE  /\ Head(s) \in S /\ Tail(s) \in Seq(S) /\ Len(s) = Len(Tail(s)) + 1 /\ Head(s) = s[1]
         /\ \A j \in 1..Len(Tail(s)) : Tail(s)[j] = s[j + 1]
         /\ Elems(s) = {Head(s)} \cup Elems(Tail(s))
  <1>1. /\ Len(s) \in Nat /\ Len(s) >= 1 /\ Len(Tail(s)) = Len(s) - 1 /\ Head(s) = s[1]
        /\ Tail(s) \in Seq(S) /\ Head(s) \in S
        /\ \A j \in 1..Len(Tail(s)) : Tail(s)[j] = s[j + 1]
    OBVIOUS
  <1>2. \A e \in Elems(s) : e = Head(s) \/ e \in Elems(Tail(s))
    <2> SUFFICES ASSUME NEW j \in 1..Len(s), j # 1 PROVE s[j] \in Elems(Tail(s))
      BY <1>1 DEF Elems
    <2>1. j - 1 \in 1..Len(Tail(s)) /\ Tail(s)[j - 1] = s[j]
      BY <1>1
    <2> QED BY <2>1 DEF Elems
  <1>3. Elems(Tail(s)) \subseteq Elems(s) /\ Head(s) \in Elems(s)
    BY <1>1 DEF Elems
  <1> QED BY <1>1, <1>2, <1>3

LEMMA TakenInOrder ==
  ASSUME NEW s \in Seq(Nat), s # <<>>, Increasing(s)
  PROVE  Increasing(Tail(s)) /\ \A e \in Elems(Tail(s)) : Head(s) < e
  <1>1. /\ Len(s) \in Nat /\ Len(s) = Len(Tail(s)) + 1 /\ Head(s) = s[1] /\ Len(Tail(s)) \in Nat
        /\ \A j \in 1..Len(Tail(s)) : Tail(s)[j] = s[j + 1]
    BY Taken
  <1>2. \A j \in 1..Len(Tail(s)) : j + 1 \in 1..Len(s) /\ 1 < j + 1
    BY <1>1
  <1>3. \A j, k \in 1..Len(Tail(s)) : j < k => s[j + 1] < s[k + 1]
    BY <1>1, <1>2 DEF Increasing
  <1>4. \A j \in 1..Len(Tail(s)) : s[1] < s[j + 1]
    BY <1>1, <1>2 DEF Increasing
  <1> QED BY <1>1, <1>3, <1>4 DEF Increasing, Elems

LEMMA Added ==
  ASSUME NEW S, NEW s \in Seq(S), NEW e \in S
  PROVE  /\ Append(s, e) \in Seq(S) /\ Len(Append(s, e)) = Len(s) + 1 /\ Len(s) \in Nat
         /\ \A j \in 1..Len(s) : Append(s, e)[j] = s[j]
         /\ Elems(Append(s, e)) = Elems(s) \cup {e}
  <1>1. /\ Append(s, e) \in Seq(S) /\ Len(Append(s, e)) = Len(s) + 1 /\ Len(s) \in Nat
        /\ \A j \in 1..Len(s) : Append(s, e)[j] = s[j]
        /\ Append(s, e)[Len(s) + 1] = e
    OBVIOUS
  <1> QED BY <1>1 DEF Elems

LEMMA AddedInOrder ==
  ASSUME NEW s \in Seq(Nat), NEW e \in Nat, Increasing(s), \A d \in Elems(s) : d < e
  PROVE  Increasing(Append(s, e))
  <1>1. /\ Len(Append(s, e)) = Len(s) + 1 /\ Len(s) \in Nat
        /\ \A j \in 1..Len(s) : Append(s, e)[j] = s[j]
        /\ Append(s, e)[Len(s) + 1] = e
        /\ \A j \in 1..Len(s) : s[j] \in Nat
    OBVIOUS
  <1> DEFINE t == Append(s, e)
  <1> SUFFICES ASSUME NEW j \in 1..Len(t), NEW k \in 1..Len(t), j < k
               PROVE  t[j] < t[k]
    BY DEF Increasing
  <1>2. j \in 1..Len(s) /\ t[j] = s[j] /\ s[j] < e
    BY <1>1 DEF Elems
  <1>3. CASE k \in 1..Len(s)
    BY <1>1, <1>2, <1>3 DEF Increasing
  <1>4. CASE k = Len(s) + 1
    BY <1>1, <1>2, <1>4
  <1>5. k \in 1..Len(s) \/ k = Len(s) + 1
    BY <1>1
  <1> QED BY <1>3, <1>4, <1>5

LEMMA Nothing == Elems(<<>>) = {} /\ Increasing(<<>>)
  BY DEF Elems, Increasing

-----------------------------------------------------------------------------
(***************************************************************************)
(* Types.                                                                  *)
(***************************************************************************)
LEMMA Sizes ==
  /\ BufferSize \in Nat \ {0} /\ WireSize \in Nat \ {0} /\ MaxBatch \in Nat
  /\ Luck \in Nat /\ MaxEvents \in Nat /\ MaxFailures \in Nat
  BY RealtimeAssumption, BusAssumption

LEMMA EventSequence ==
  ASSUME NEW s \in Seq(Event)
  PROVE  s \in Seq(Nat) /\ Event \subseteq Nat
  BY Sizes DEF Event

LEMMA WantedTyped ==
  ASSUME TypeOK, NEW c \in Clients
  PROVE  Wanted(c) \subseteq 1..Len(log) /\ 1..Len(log) \subseteq Event /\ Event \subseteq Nat
  BY Sizes DEF TypeOK, Wanted, Event

LEMMA PublishTyped ==
  ASSUME TypeOK, NEW t, NEW e \in Event, Publish(t, e)
  PROVE  BusTypeOK(Event)'
  <1>1. chan' \in [Clients -> Seq(Event)]
    BY DEF TypeOK, BusTypeOK, Publish
  <1>2. ASSUME NEW c \in Clients PROVE Len(chan'[c]) <= BufferSize
    <2>1. /\ chan[c] \in Seq(Event) /\ Len(chan[c]) <= BufferSize /\ Len(chan[c]) \in Nat
          /\ chan'[c] = IF c \in Audience(t) /\ HasRoom(c) THEN Append(chan[c], e) ELSE chan[c]
      BY DEF TypeOK, BusTypeOK, Publish
    <2>2. Len(Append(chan[c], e)) = Len(chan[c]) + 1
      BY <2>1
    <2> QED BY <2>1, <2>2, Sizes DEF HasRoom
  <1>3. over' \in [Clients -> BOOLEAN]
    BY Zenon DEF TypeOK, BusTypeOK, Publish, Signalled
  <1> QED BY <1>1, <1>2, <1>3 DEF TypeOK, BusTypeOK, Publish

LEMMA SubscribeTyped ==
  ASSUME TypeOK, NEW c \in Clients, NEW t \in Tenants \cup {NoTenant}, Subscribe(c, t)
  PROVE  BusTypeOK(Event)'
  <1>1. <<>> \in Seq(Event) /\ Len(<<>>) <= BufferSize
    BY Sizes
  <1>2. reg' \in [Clients -> Tenants \cup {NoTenant}]
    BY DEF TypeOK, BusTypeOK, Subscribe
  <1>3. chan' \in [Clients -> Seq(Event)] /\ \A d \in Clients : Len(chan'[d]) <= BufferSize
    BY <1>1 DEF TypeOK, BusTypeOK, Subscribe
  <1>4. over' \in [Clients -> BOOLEAN]
    BY DEF TypeOK, BusTypeOK, Subscribe
  <1> QED BY <1>2, <1>3, <1>4 DEF BusTypeOK

LEMMA TakeTyped ==
  ASSUME TypeOK, NEW c \in Clients, Take(c)
  PROVE  BusTypeOK(Event)' /\ Head(chan[c]) \in Event
  <1>1. chan[c] \in Seq(Event) /\ chan[c] # <<>> /\ Len(chan[c]) <= BufferSize
    BY DEF TypeOK, BusTypeOK, Take
  <1>2. Tail(chan[c]) \in Seq(Event) /\ Len(chan[c]) = Len(Tail(chan[c])) + 1 /\ Head(chan[c]) \in Event
    BY <1>1, Taken
  <1>3. chan' \in [Clients -> Seq(Event)]
    BY <1>2 DEF TypeOK, BusTypeOK, Take
  <1>4. \A d \in Clients : Len(chan'[d]) <= BufferSize
    BY <1>1, <1>2, Sizes DEF TypeOK, BusTypeOK, Take
  <1> QED BY <1>2, <1>3, <1>4 DEF TypeOK, BusTypeOK, Take

LEMMA SendTyped ==
  ASSUME TypeOK, NEW c \in Clients, NEW e \in Event, Send(c, e)
  PROVE  /\ wire' \in [Clients -> Seq(Event)] /\ \A d \in Clients : Len(wire'[d]) <= WireSize
         /\ lastSeq' \in [Clients -> Event \cup {0}]
  <1>1. wire[c] \in Seq(Event) /\ Len(wire[c]) < WireSize /\ Len(wire[c]) \in Nat
    BY DEF TypeOK, Send
  <1>2. Append(wire[c], e) \in Seq(Event) /\ Len(Append(wire[c], e)) = Len(wire[c]) + 1
    BY <1>1
  <1> QED BY <1>1, <1>2, Sizes DEF TypeOK, Send

LEMMA CommitTyped ==
  ASSUME TypeOK, NEW w \in Writers, Commit(w)
  PROVE  TypeOK'
  <1>1. PICK k \in Kinds, n \in 1..MaxBatch :
          /\ Len(log) + n <= MaxEvents
          /\ log' = log \o [j \in 1..n |-> k]
          /\ pend' = [pend EXCEPT ![w] = [j \in 1..n |-> Len(log) + j]]
    BY DEF Commit
  <1>2. n \in Nat /\ log \in Seq(Kinds) /\ Len(log) \in Nat
    BY <1>1, Sizes DEF TypeOK
  <1>3. [j \in 1..n |-> k] \in Seq(Kinds) /\ Len([j \in 1..n |-> k]) = n
    BY <1>1, <1>2
  <1>4. log' \in Seq(Kinds) /\ Len(log') = Len(log) + n
    BY <1>1, <1>2, <1>3
  <1>5. \A j \in 1..n : Len(log) + j \in Event
    BY <1>1, <1>2, Sizes DEF Event
  <1>6. [j \in 1..n |-> Len(log) + j] \in Seq(Event)
    BY <1>2, <1>5
  <1>7. pend' \in [Writers -> Seq(Event)]
    BY <1>1, <1>6 DEF TypeOK
  <1>8. raced' \in BOOLEAN /\ outrun' \in BOOLEAN
    BY Zenon DEF Commit, TypeOK
  <1>9. BusTypeOK(Event)'
    BY DEF Commit, TypeOK, BusTypeOK, busVars
  <1> QED BY <1>1, <1>4, <1>7, <1>8, <1>9 DEF TypeOK, Commit, sessionVars, clientVars

LEMMA UnansweredTyped ==
  ASSUME TypeOK, NEW w \in Writers, CommitUnanswered(w)
  PROVE  TypeOK'
  <1>1. PICK k \in Kinds, n \in 1..MaxBatch :
          /\ Len(log) + n <= MaxEvents
          /\ log' = log \o [j \in 1..n |-> k]
    BY DEF CommitUnanswered
  <1>2. n \in Nat /\ log \in Seq(Kinds) /\ Len(log) \in Nat
    BY <1>1, Sizes DEF TypeOK
  <1>3. [j \in 1..n |-> k] \in Seq(Kinds) /\ Len([j \in 1..n |-> k]) = n
    BY <1>1, <1>2
  <1>4. log' \in Seq(Kinds) /\ Len(log') = Len(log) + n
    BY <1>1, <1>2, <1>3
  <1>5. raced' \in BOOLEAN /\ outrun' \in BOOLEAN
    BY Zenon DEF CommitUnanswered, TypeOK
  <1>6. BusTypeOK(Event)'
    BY DEF CommitUnanswered, TypeOK, BusTypeOK, busVars
  <1>7. failures' \in 0..MaxFailures
    BY Sizes DEF CommitUnanswered, TypeOK
  <1> QED BY <1>1, <1>4, <1>5, <1>6, <1>7 DEF TypeOK, CommitUnanswered, sessionVars, clientVars

LEMMA EndTyped ==
  ASSUME TypeOK, NEW c \in Clients, EndSession(c)
  PROVE  /\ BusTypeOK(Event)'
         /\ spc' \in [Clients -> {"off", "joined", "catchup", "live"}]
         /\ backlog' \in [Clients -> SUBSET Event]
         /\ lastSeq' \in [Clients -> Event \cup {0}]
         /\ luck' \in [Clients -> 0..Luck]
  <1>1. BusTypeOK(Event)'
    BY SubscribeTyped DEF EndSession, Unsubscribe
  <1> QED BY <1>1, Sizes DEF TypeOK, EndSession

LEMMA PickTyped ==
  ASSUME TypeOK, NEW c \in Clients, Pick(c)
  PROVE  /\ BusTypeOK(Event)' /\ Head(chan[c]) \in Event
         /\ luck' \in [Clients -> 0..Luck]
         /\ outrun' \in BOOLEAN
  <1>1. IF over[c] THEN luck[c] + 1 \in 0..Luck ELSE 0 \in 0..Luck
    BY Sizes DEF TypeOK, Pick
  <1>2. luck' \in [Clients -> 0..Luck]
    BY <1>1 DEF TypeOK, Pick
  <1> QED BY <1>2, TakeTyped DEF Pick, TypeOK

LEMMA TypeStep == TypeOK /\ [Next]_vars => TypeOK'
  <1> SUFFICES ASSUME TypeOK, [Next]_vars PROVE TypeOK'
    OBVIOUS
  <1>1. ASSUME NEW w \in Writers, PublishNext(w) PROVE TypeOK'
    <2>1. /\ pend[w] \in Seq(Event) /\ pend[w] # <<>>
      BY <1>1 DEF TypeOK, PublishNext
    <2>2. Head(pend[w]) \in Event /\ Tail(pend[w]) \in Seq(Event)
      BY <2>1
    <2>3. BusTypeOK(Event)'
      BY <1>1, <2>2, PublishTyped DEF PublishNext
    <2> QED BY <1>1, <2>2, <2>3 DEF TypeOK, PublishNext, sessionVars, clientVars, history
  <1>2. ASSUME NEW c \in Clients, Connect(c) PROVE TypeOK'
    <2>1. BusTypeOK(Event)'
      BY <1>2, SubscribeTyped, RealtimeAssumption DEF Connect
    <2> QED BY <1>2, <2>1 DEF TypeOK, Connect, clientVars, history
  <1>3. ASSUME NEW c \in Clients, ReadLog(c) PROVE TypeOK'
    <2>1. CatchUp(c) \subseteq Event
      BY WantedTyped DEF CatchUp
    <2>2. BusTypeOK(Event)'
      BY <1>3 DEF TypeOK, BusTypeOK, ReadLog, busVars
    <2> QED BY <1>3, <2>1, <2>2 DEF TypeOK, ReadLog, clientVars, history
  <1>4. ASSUME NEW c \in Clients, CatchUpSend(c) PROVE TypeOK'
    <2>1. PICK e \in backlog[c] : Send(c, e) /\ backlog' = [backlog EXCEPT ![c] = @ \ {e}]
      BY <1>4 DEF CatchUpSend
    <2>2. e \in Event /\ backlog' \in [Clients -> SUBSET Event]
      BY <2>1 DEF TypeOK
    <2>3. BusTypeOK(Event)'
      BY <1>4 DEF TypeOK, BusTypeOK, CatchUpSend, busVars
    <2> QED BY <1>4, <2>1, <2>2, <2>3, SendTyped DEF TypeOK, CatchUpSend, Send, history
  <1>5. ASSUME NEW c \in Clients, GoLive(c) PROVE TypeOK'
    <2>1. BusTypeOK(Event)'
      BY <1>5 DEF TypeOK, BusTypeOK, GoLive, busVars
    <2> QED BY <1>5, <2>1 DEF TypeOK, GoLive, clientVars, history
  <1>6. ASSUME NEW c \in Clients, LiveSkip(c) PROVE TypeOK'
    BY <1>6, PickTyped DEF TypeOK, LiveSkip, clientVars
  <1>7. ASSUME NEW c \in Clients, LiveSend(c) PROVE TypeOK'
    <2>1. Pick(c) /\ Send(c, Head(chan[c]))
      BY <1>7 DEF LiveSend
    <2> QED BY <1>7, <2>1, PickTyped, SendTyped DEF TypeOK, LiveSend, Send
  <1>8. ASSUME NEW c \in Clients, OverflowEnd(c) PROVE TypeOK'
    BY <1>8, EndTyped DEF TypeOK, OverflowEnd, clientVars, history
  <1>9. ASSUME NEW c \in Clients, Drop(c) PROVE TypeOK'
    <2>1. wire' \in [Clients -> Seq(Event)] /\ \A d \in Clients : Len(wire'[d]) <= WireSize
      BY <1>9, Sizes DEF TypeOK, Drop
    <2>2. failures' \in 0..MaxFailures
      BY <1>9, Sizes DEF TypeOK, Drop
    <2>3. EndSession(c)
      BY <1>9 DEF Drop
    <2> QED BY <1>9, <2>1, <2>2, <2>3, EndTyped DEF TypeOK, Drop, history
  <1>10. ASSUME NEW c \in Clients, ClientRecv(c) PROVE TypeOK'
    <2>1. /\ Head(wire[c]) \in Event /\ Tail(wire[c]) \in Seq(Event)
          /\ Len(wire[c]) = Len(Tail(wire[c])) + 1 /\ Len(wire[c]) <= WireSize
      BY <1>10, Taken DEF TypeOK, ClientRecv
    <2>2. wire' \in [Clients -> Seq(Event)] /\ \A d \in Clients : Len(wire'[d]) <= WireSize
      BY <1>10, <2>1, Sizes DEF TypeOK, ClientRecv
    <2>3. got' \in [Clients -> Seq(Event)] /\ lastId' \in [Clients -> Event \cup {0}]
      BY <1>10, <2>1 DEF TypeOK, ClientRecv
    <2>4. BusTypeOK(Event)'
      BY <1>10 DEF TypeOK, BusTypeOK, ClientRecv, busVars
    <2> QED BY <1>10, <2>2, <2>3, <2>4 DEF TypeOK, ClientRecv, sessionVars, history
  <1>11. CASE Crash
    <2>1. BusTypeOK(Event)'
      BY <1>11, Sizes DEF Crash, BusReset, BusTypeOK
    <2>2. failures' \in 0..MaxFailures
      BY <1>11, Sizes DEF TypeOK, Crash
    <2>3. wire' \in [Clients -> Seq(Event)] /\ \A d \in Clients : Len(wire'[d]) <= WireSize
      BY <1>11, Sizes DEF Crash
    <2> QED BY <1>11, <2>1, <2>2, <2>3, Sizes DEF TypeOK, Crash, history
  <1>12. CASE UNCHANGED vars
    <2>1. BusTypeOK(Event)'
      BY <1>12 DEF TypeOK, BusTypeOK, vars, busVars
    <2> QED BY <1>12, <2>1 DEF TypeOK, vars, sessionVars, clientVars, history
  <1> QED BY <1>1, <1>2, <1>3, <1>4, <1>5, <1>6, <1>7, <1>8, <1>9, <1>10, <1>11, <1>12, CommitTyped,
             UnansweredTyped
          DEF Next, Session, Rest

-----------------------------------------------------------------------------
(***************************************************************************)
(* Frames.                                                                 *)
(***************************************************************************)
LEMMA Views ==
  ASSUME NEW c \in Clients
  PROVE  /\ Received(c) = Elems(got[c]) /\ Received(c)' = Elems(got'[c])
         /\ Sent(c)' = Elems(wire'[c]) /\ Buffered(c)' = Elems(chan'[c])
         /\ Increasing(got[c])' = Increasing(got'[c])
         /\ Increasing(wire[c])' = Increasing(wire'[c])
         /\ Increasing(chan[c])' = Increasing(chan'[c])
  BY DEF Received, Sent, Buffered, Elems, Increasing

LEMMA SameLog ==
  ASSUME log' = log, NEW c \in Clients
  PROVE  Wanted(c)' = Wanted(c) /\ CatchUp(c) \subseteq Wanted(c)
  BY DEF Wanted, TypeMatches, CatchUp

LEMMA SamePend ==
  ASSUME pend' = pend
  PROVE  Pending' = Pending /\ InTurn' = InTurn
  BY DEF Pending, InTurn, Elems, Increasing

LEMMA Untouched ==
  ASSUME NEW c \in Clients, UNCHANGED <<log, pend, raced, Mine(c)>>, outrun => outrun', Safe(c)
  PROVE  Safe(c)'
  <1>1. /\ reg'[c] = reg[c] /\ chan'[c] = chan[c] /\ over'[c] = over[c] /\ spc'[c] = spc[c]
        /\ backlog'[c] = backlog[c] /\ lastSeq'[c] = lastSeq[c] /\ luck'[c] = luck[c]
        /\ wire'[c] = wire[c] /\ lastId'[c] = lastId[c] /\ got'[c] = got[c]
    BY DEF Mine
  <1>2. /\ Received(c)' = Received(c) /\ Sent(c)' = Sent(c) /\ Buffered(c)' = Buffered(c)
        /\ Wanted(c)' = Wanted(c) /\ Pending' = Pending
    BY <1>1, Views, SameLog, SamePend DEF Sent, Buffered
  <1>3. Order(c)'
    BY <1>1, <1>2, Views DEF Safe, Order
  <1>4. Own(c)'
    BY <1>1, <1>2 DEF Safe, Own
  <1>5. ~outrun' => Tossed(c)'
    BY <1>1 DEF Safe, Tossed
  <1>6. ~raced' => Lined(c)'
    BY <1>1, <1>2, Views DEF Safe, Lined
  <1>7. ~raced' /\ ~outrun' => Whole(c)'
    BY <1>1, <1>2 DEF Safe, Whole, Refused
  <1> QED BY <1>3, <1>4, <1>5, <1>6, <1>7 DEF Safe

(* A step of one client's is about that client. *)
LEMMA OfOneClient ==
  ASSUME IInv, [Next]_vars, NEW c \in Clients,
         UNCHANGED <<log, pend, raced>>, outrun => outrun',
         \A d \in Clients \ {c} : UNCHANGED Mine(d),
         Safe(c)'
  PROVE  IInv'
  <1>1. \A d \in Clients : Safe(d)'
    BY Untouched DEF IInv
  <1>2. TypeOK'
    BY TypeStep DEF IInv
  <1> QED BY <1>1, <1>2, SamePend DEF IInv

LEMMA ConnectStep ==
  ASSUME IInv, [Next]_vars, NEW c \in Clients, Connect(c)
  PROVE  IInv'
  <1>1. /\ spc[c] = "off" /\ wire[c] = <<>> /\ spc'[c] = "joined"
        /\ chan'[c] = <<>> /\ reg'[c] = TenantOf[c] /\ over'[c] = FALSE
        /\ lastSeq'[c] = lastId[c] /\ lastId[c] \in Nat
        /\ UNCHANGED <<log, pend, raced, outrun, backlog, luck, wire, lastId, got>>
    BY WantedTyped DEF IInv, TypeOK, BusTypeOK, Connect, Subscribe, clientVars, history
  <1>2. \A d \in Clients \ {c} : UNCHANGED Mine(d)
    BY <1>1 DEF IInv, TypeOK, BusTypeOK, Connect, Subscribe, Mine
  <1>3. /\ Received(c)' = Received(c) /\ Sent(c) = {} /\ Sent(c)' = {} /\ Buffered(c)' = {}
        /\ Wanted(c)' = Wanted(c) /\ Pending' = Pending /\ Increasing(chan'[c])
    BY <1>1, Views, SameLog, SamePend, Nothing DEF Sent
  <1>4. Order(c) /\ Own(c) /\ (~outrun => Tossed(c)) /\ (~raced /\ ~outrun => Whole(c))
    BY DEF IInv, Safe
  <1>5. Order(c)'
    BY <1>1, <1>3, <1>4, Views DEF Order
  <1>6. Own(c)'
    BY <1>1, <1>3, <1>4 DEF Own, Order
  <1>7. ~outrun' => Tossed(c)'
    BY <1>1, <1>4 DEF Tossed
  <1>8. Lined(c)'
    BY <1>1, <1>3, Views DEF Lined
  <1>9. ~raced' /\ ~outrun' => Whole(c)'
    BY <1>1, <1>3, <1>4 DEF Whole, Order
  <1> QED BY <1>1, <1>2, <1>5, <1>6, <1>7, <1>8, <1>9, OfOneClient DEF Safe

LEMMA ReadLogStep ==
  ASSUME IInv, [Next]_vars, NEW c \in Clients, ReadLog(c)
  PROVE  IInv'
  <1>1. /\ spc[c] = "joined" /\ spc'[c] = "catchup" /\ backlog'[c] = CatchUp(c)
        /\ UNCHANGED <<reg, chan, over, log, pend, raced, outrun, lastSeq, luck, wire, lastId, got>>
    BY DEF IInv, TypeOK, ReadLog, busVars, clientVars, history
  <1>2. \A d \in Clients \ {c} : UNCHANGED Mine(d)
    BY <1>1 DEF IInv, TypeOK, ReadLog, Mine
  <1>3. /\ Received(c)' = Received(c) /\ Sent(c)' = Sent(c) /\ Buffered(c)' = Buffered(c)
        /\ Wanted(c)' = Wanted(c) /\ Pending' = Pending
        /\ CatchUp(c) = {e \in Wanted(c) : lastSeq[c] < e}
    BY <1>1, Views, SameLog, SamePend, WantedTyped DEF Sent, Buffered, CatchUp, IInv, TypeOK
  <1>4. /\ Order(c) /\ Own(c) /\ (~outrun => Tossed(c)) /\ (~raced => Lined(c))
        /\ (~raced /\ ~outrun => Whole(c))
    BY DEF IInv, Safe
  <1>5. Order(c)'
    BY <1>1, <1>3, <1>4, Views DEF Order
  <1>6. Own(c)'
    BY <1>1, <1>3, <1>4 DEF Own
  <1>7. ~outrun' => Tossed(c)'
    BY <1>1, <1>4 DEF Tossed
  <1>8. ~raced' => Lined(c)'
    BY <1>1, <1>3, <1>4, Views DEF Lined
  <1>9. ~raced' /\ ~outrun' => Whole(c)'
    BY <1>1, <1>3, <1>4 DEF Whole
  <1> QED BY <1>1, <1>2, <1>5, <1>6, <1>7, <1>8, <1>9, OfOneClient DEF Safe

-----------------------------------------------------------------------------
(***************************************************************************)
(* What a session sends.                                                   *)
(***************************************************************************)
LEMMA Sends ==
  ASSUME IInv, NEW c \in Clients, spc[c] # "off", NEW e \in Event, Send(c, e), lastSeq[c] < e
  PROVE  /\ wire'[c] = Append(wire[c], e) /\ lastSeq'[c] = e
         /\ Elems(wire'[c]) = Sent(c) \cup {e} /\ Increasing(wire'[c])
         /\ \A d \in Sent(c) : d < e
         /\ UNCHANGED <<lastId, got>>
         /\ \A d \in Clients \ {c} : wire'[d] = wire[d] /\ lastSeq'[d] = lastSeq[d]
  <1>1. /\ wire[c] \in Seq(Event) /\ wire[c] \in Seq(Nat) /\ e \in Nat /\ lastSeq[c] \in Nat
        /\ wire'[c] = Append(wire[c], e) /\ lastSeq'[c] = e
    BY WantedTyped DEF IInv, TypeOK, Send
  <1>2. Order(c)
    BY DEF IInv, Safe
  <1>3. Sent(c) \subseteq Nat
    BY <1>1 DEF Sent, Elems
  <1>4. \A d \in Sent(c) : d < e
    BY <1>1, <1>2, <1>3 DEF Order
  <1>5. Increasing(wire'[c])
    BY <1>1, <1>2, <1>4, AddedInOrder DEF Order, Sent
  <1>6. Elems(wire'[c]) = Sent(c) \cup {e}
    BY <1>1, Added DEF Sent
  <1>7. \A d \in Clients \ {c} : wire'[d] = wire[d] /\ lastSeq'[d] = lastSeq[d]
    BY DEF IInv, TypeOK, Send
  <1> QED BY <1>1, <1>4, <1>5, <1>6, <1>7 DEF Send

(* Sending keeps the order, and what is sent next leaves nothing out. *)
LEMMA SendKeeps ==
  ASSUME IInv, NEW c \in Clients, spc[c] # "off", spc'[c] = spc[c],
         NEW e \in Wanted(c), Send(c, e), lastSeq[c] < e,
         UNCHANGED <<log, pend, raced>>, outrun => outrun',
         backlog'[c] = backlog[c] \ {e}, \A d \in backlog'[c] : e < d
  PROVE  /\ Order(c)'
         /\ Received(c)' = Received(c) /\ Sent(c)' = Sent(c) \cup {e}
         /\ Wanted(c)' = Wanted(c) /\ Pending' = Pending
         /\ ~raced' /\ ~outrun' =>
              \/ \E d \in Wanted(c) : lastSeq[c] < d /\ d < e
              \/ /\ \A d \in Wanted(c) : d <= lastId'[c] => d \in Received(c)'
                 /\ \A d \in Wanted(c), b \in Sent(c)' : d <= b => d \in Received(c)' \cup Sent(c)'
                 /\ \A d \in Wanted(c) : d <= e => d \in Received(c)' \cup Sent(c)'
  <1>1. /\ e \in Event /\ e \in Nat /\ lastSeq[c] \in Nat /\ lastId[c] \in Nat
        /\ Wanted(c) \subseteq Nat /\ got' = got /\ lastId' = lastId
        /\ Received(c) \subseteq Nat /\ Sent(c) \subseteq Nat
    BY WantedTyped, SMTT(30) DEF IInv, TypeOK, Send, Received, Sent, Elems
  <1>2. /\ lastSeq'[c] = e /\ Sent(c)' = Sent(c) \cup {e} /\ Increasing(wire'[c])
        /\ \A d \in Sent(c) : d < e
    BY <1>1, Sends, Views
  <1>3. /\ Received(c)' = Received(c) /\ Wanted(c)' = Wanted(c) /\ Pending' = Pending
    BY <1>1, Views, SameLog, SamePend
  <1>4. Order(c) /\ (~raced /\ ~outrun => Whole(c))
    BY DEF IInv, Safe
  <1>5. Order(c)'
    BY <1>1, <1>2, <1>3, <1>4, Views DEF Order
  <1>6. ASSUME ~raced', ~outrun', \A d \in Wanted(c) : ~(lastSeq[c] < d /\ d < e)
        PROVE  /\ \A d \in Wanted(c) : d <= lastId'[c] => d \in Received(c)'
               /\ \A d \in Wanted(c), b \in Sent(c)' : d <= b => d \in Received(c)' \cup Sent(c)'
               /\ \A d \in Wanted(c) : d <= e => d \in Received(c)' \cup Sent(c)'
    <2>1. Whole(c)
      BY <1>4, <1>6
    <2>2. \A d \in Wanted(c) : d <= e => d \in Received(c)' \cup Sent(c)'
      BY <1>1, <1>2, <1>3, <1>6, <2>1 DEF Whole
    <2>3. \A d \in Wanted(c) : d <= lastId'[c] => d \in Received(c)'
      BY <1>1, <1>3, <2>1 DEF Whole
    <2>4. ASSUME NEW d \in Wanted(c), NEW b \in Sent(c)', d <= b
          PROVE  d \in Received(c)' \cup Sent(c)'
      BY <1>1, <1>2, <2>2, <2>4
    <2> QED BY <2>2, <2>3, <2>4
  <1> QED BY <1>2, <1>3, <1>5, <1>6

LEMMA CatchUpSendStep ==
  ASSUME IInv, [Next]_vars, NEW c \in Clients, CatchUpSend(c)
  PROVE  IInv'
  <1>1. PICK e \in backlog[c] :
          /\ \A d \in backlog[c] : e <= d
          /\ Send(c, e)
          /\ backlog' = [backlog EXCEPT ![c] = @ \ {e}]
    BY DEF CatchUpSend
  <1>2. /\ spc[c] = "catchup" /\ spc' = spc /\ backlog'[c] = backlog[c] \ {e}
        /\ UNCHANGED <<reg, chan, over, log, pend, raced, outrun, luck, lastId, got>>
    BY <1>1 DEF IInv, TypeOK, CatchUpSend, Send, busVars, history
  <1>3. /\ Order(c) /\ Own(c) /\ (~outrun => Tossed(c)) /\ (~raced => Lined(c))
        /\ (~raced /\ ~outrun => Whole(c))
    BY DEF IInv, Safe
  <1>4. /\ e \in Wanted(c) /\ e \in Event /\ lastSeq[c] < e
        /\ backlog[c] \subseteq Wanted(c) /\ Wanted(c) \subseteq Nat /\ lastSeq[c] \in Nat
    BY <1>3, WantedTyped DEF Own, Order, IInv, TypeOK
  <1>5. \A d \in backlog'[c] : e < d
    BY <1>1, <1>2, <1>4
  <1>6. \A d \in Clients \ {c} : UNCHANGED Mine(d)
    BY <1>1, <1>2, <1>4, Sends, ZenonT(60) DEF IInv, TypeOK, Mine
  <1>7. /\ Order(c)'
        /\ Received(c)' = Received(c) /\ Sent(c)' = Sent(c) \cup {e}
        /\ Wanted(c)' = Wanted(c) /\ Pending' = Pending /\ Buffered(c)' = Buffered(c)
        /\ lastSeq'[c] = e
    BY <1>1, <1>2, <1>4, <1>5, SendKeeps, Sends, Views DEF Buffered
  <1>8. Own(c)'
    <2>1. e <= Len(log)
      BY <1>4, WantedTyped DEF IInv
    <2> QED BY <1>2, <1>3, <1>4, <1>7, <2>1 DEF Own
  <1>9. ~outrun' => Tossed(c)'
    BY <1>2, <1>3 DEF Tossed
  <1>10. ~raced' => Lined(c)'
    BY <1>2, <1>3, <1>7, Views DEF Lined
  <1>11. ASSUME ~raced', ~outrun' PROVE Whole(c)'
    <2>1. Whole(c)
      BY <1>2, <1>3, <1>11
    <2>2. ~ \E d \in Wanted(c) : lastSeq[c] < d /\ d < e
      BY <1>1, <1>4, <2>1 DEF Whole
    <2>3. /\ \A d \in Wanted(c) : d <= lastId'[c] => d \in Received(c)'
          /\ \A d \in Wanted(c), b \in Sent(c)' : d <= b => d \in Received(c)' \cup Sent(c)'
          /\ \A d \in Wanted(c) : d <= e => d \in Received(c)' \cup Sent(c)'
      BY <1>1, <1>2, <1>4, <1>5, <1>11, <2>2, SendKeeps
    <2>4. \A d \in Wanted(c), b \in backlog'[c] : e < d => d \in backlog'[c] \/ b < d
      BY <1>2, <1>4, <2>1 DEF Whole
    <2>5. \A d \in Wanted(c) : e < d =>
            d \in backlog'[c] \cup Pending \cup Buffered(c) \/ Refused(c, d)
      BY <1>2, <1>4, <2>1 DEF Whole
    <2>6. \A d : Refused(c, d)' = Refused(c, d)
      BY <1>2 DEF Refused
    <2> QED BY <1>2, <1>7, <2>3, <2>4, <2>5, <2>6 DEF Whole
  <1> QED BY <1>2, <1>6, <1>7, <1>8, <1>9, <1>10, <1>11, OfOneClient DEF Safe

LEMMA GoLiveStep ==
  ASSUME IInv, [Next]_vars, NEW c \in Clients, GoLive(c)
  PROVE  IInv'
  <1>1. /\ spc[c] = "catchup" /\ spc'[c] = "live" /\ backlog[c] = {}
        /\ UNCHANGED <<reg, chan, over, log, pend, raced, outrun, backlog, lastSeq, luck, wire, lastId, got>>
    BY DEF IInv, TypeOK, GoLive, busVars, clientVars, history
  <1>2. \A d \in Clients \ {c} : UNCHANGED Mine(d)
    BY <1>1 DEF IInv, TypeOK, GoLive, Mine
  <1>3. /\ Received(c)' = Received(c) /\ Sent(c)' = Sent(c) /\ Buffered(c)' = Buffered(c)
        /\ Wanted(c)' = Wanted(c) /\ Pending' = Pending
    BY <1>1, Views, SameLog, SamePend DEF Sent, Buffered
  <1>4. /\ Order(c) /\ Own(c) /\ (~outrun => Tossed(c)) /\ (~raced => Lined(c))
        /\ (~raced /\ ~outrun => Whole(c))
    BY DEF IInv, Safe
  <1>5. Order(c)'
    BY <1>1, <1>3, <1>4, Views DEF Order
  <1>6. Own(c)'
    BY <1>1, <1>3, <1>4 DEF Own
  <1>7. ~outrun' => Tossed(c)'
    BY <1>1, <1>4 DEF Tossed
  <1>8. ~raced' => Lined(c)'
    BY <1>1, <1>3, <1>4, Views DEF Lined
  <1>9. ~raced' /\ ~outrun' => Whole(c)'
    BY <1>1, <1>3, <1>4 DEF Whole, Refused
  <1> QED BY <1>1, <1>2, <1>5, <1>6, <1>7, <1>8, <1>9, OfOneClient DEF Safe

(* Taking the oldest event of the channel. *)
LEMMA Picks ==
  ASSUME IInv, NEW c \in Clients, Pick(c), UNCHANGED <<log, pend, spc>>
  PROVE  /\ Head(chan[c]) \in Event
         /\ Buffered(c) = {Head(chan[c])} \cup Buffered(c)'
         /\ UNCHANGED <<reg, over>> /\ (outrun => outrun')
         /\ \A d \in Clients \ {c} : chan'[d] = chan[d] /\ luck'[d] = luck[d]
         /\ ~raced => Lined(c)' /\ \A e \in Buffered(c)' : Head(chan[c]) < e
         /\ ~outrun' => /\ Tossed(c)'
                        /\ \A e : Refused(c, e) => Refused(c, e)' /\ Head(chan[c]) < e
  <1> DEFINE h == Head(chan[c])
  <1>1. /\ chan[c] \in Seq(Event) /\ chan[c] \in Seq(Nat) /\ chan[c] # <<>>
        /\ chan'[c] = Tail(chan[c])
        /\ UNCHANGED <<reg, over>>
        /\ \A d \in Clients \ {c} : chan'[d] = chan[d] /\ luck'[d] = luck[d]
    BY WantedTyped DEF IInv, TypeOK, BusTypeOK, Pick, Take
  <1>2. /\ h \in Event /\ Elems(chan[c]) = {h} \cup Elems(chan'[c])
        /\ Len(chan[c]) = Len(chan'[c]) + 1 /\ h = chan[c][1] /\ Len(chan'[c]) \in Nat
        /\ \A j \in 1..Len(chan'[c]) : chan'[c][j] = chan[c][j + 1]
    BY <1>1, Taken
  <1>3. Buffered(c) = {h} \cup Buffered(c)'
    BY <1>2, Views DEF Buffered
  <1>4. ASSUME ~raced PROVE Lined(c)' /\ \A e \in Buffered(c)' : h < e
    <2>1. Lined(c)
      BY <1>4 DEF IInv, Safe
    <2>2. Increasing(chan'[c]) /\ \A e \in Elems(chan'[c]) : h < e
      BY <1>1, <2>1, TakenInOrder DEF Lined
    <2>3. \A e \in Buffered(c)', p \in Pending : e < p
      BY <1>3, <2>1 DEF Lined
    <2> QED BY <2>2, <2>3, Views, SamePend DEF Lined
  <1>5. luck[c] \in Nat /\ luck'[c] = IF over[c] THEN luck[c] + 1 ELSE 0
    BY Sizes DEF IInv, TypeOK, Pick
  <1>6. (~outrun' => luck[c] < BufferSize) /\ (outrun => outrun')
    <2>1. (~outrun' => ~(luck[c] >= BufferSize)) /\ (outrun => outrun')
      BY Zenon DEF Pick
    <2>2. ~(luck[c] >= BufferSize) => luck[c] < BufferSize
      BY <1>5, Sizes
    <2> QED BY <2>1, <2>2
  <1>7. ~outrun' => Tossed(c)'
    <2> SUFFICES ASSUME ~outrun' PROVE Tossed(c)'
      OBVIOUS
    <2>1. Tossed(c) /\ luck[c] < BufferSize /\ spc'[c] = "live"
      BY <1>6 DEF IInv, Safe, Pick
    <2>2. CASE ~over[c]
      BY <1>1, <1>5, <2>2 DEF Tossed
    <2>3. CASE over[c]
      BY <1>1, <1>2, <1>5, <2>1, <2>3, Sizes DEF Tossed
    <2> QED BY <2>2, <2>3
  <1>8. ASSUME ~outrun', NEW e, Refused(c, e) PROVE Refused(c, e)' /\ h < e
    <2>1. over[c] /\ luck'[c] = luck[c] + 1 /\ luck[c] < BufferSize /\ over'[c]
      BY <1>1, <1>5, <1>6, <1>8 DEF Refused
    <2>2. h < e
      BY <1>2, <1>5, <1>8, <2>1, Sizes DEF Refused
    <2>3. ASSUME NEW j \in 1..Len(chan'[c]), j + luck'[c] <= BufferSize
          PROVE  chan'[c][j] < e
      <3>1. j + 1 \in 1..Len(chan[c]) /\ (j + 1) + luck[c] <= BufferSize
        BY <1>2, <1>5, <2>1, <2>3, Sizes
      <3> QED BY <1>2, <1>8, <3>1 DEF Refused
    <2> QED BY <2>1, <2>2, <2>3 DEF Refused
  <1> QED BY <1>1, <1>2, <1>3, <1>4, <1>6, <1>7, <1>8

LEMMA LiveSkipStep ==
  ASSUME IInv, [Next]_vars, NEW c \in Clients, LiveSkip(c)
  PROVE  IInv'
  <1> DEFINE h == Head(chan[c])
  <1>1. /\ spc[c] = "live" /\ Pick(c) /\ (h <= lastSeq[c] \/ ~TypeMatches(c, h))
        /\ UNCHANGED <<log, pend, spc, backlog, lastSeq, wire, lastId, got, raced>>
    BY DEF LiveSkip, Pick, Overlap, clientVars
  <1>2. /\ h \in Event /\ Buffered(c) = {h} \cup Buffered(c)'
        /\ UNCHANGED <<reg, over>> /\ (outrun => outrun')
        /\ \A d \in Clients \ {c} : chan'[d] = chan[d] /\ luck'[d] = luck[d]
        /\ ~raced => Lined(c)' /\ \A e \in Buffered(c)' : h < e
        /\ ~outrun' => Tossed(c)' /\ \A e : Refused(c, e) => Refused(c, e)' /\ h < e
    BY <1>1, Picks
  <1>3. \A d \in Clients \ {c} : UNCHANGED Mine(d)
    BY <1>1, <1>2 DEF Mine
  <1>4. /\ Received(c)' = Received(c) /\ Sent(c)' = Sent(c)
        /\ Wanted(c)' = Wanted(c) /\ Pending' = Pending
    BY <1>1, Views, SameLog, SamePend DEF Sent
  <1>5. Order(c) /\ Own(c) /\ (~raced /\ ~outrun => Whole(c))
    BY DEF IInv, Safe
  <1>6. Order(c)'
    BY <1>1, <1>4, <1>5, Views DEF Order
  <1>7. Own(c)'
    BY <1>1, <1>2, <1>4, <1>5 DEF Own
  <1>8. ASSUME ~raced', ~outrun' PROVE Whole(c)'
    <2>1. Whole(c) /\ \A e : Refused(c, e) => Refused(c, e)'
      BY <1>1, <1>2, <1>5, <1>8
    <2>2. h \notin {e \in Wanted(c) : lastSeq[c] < e}
      <3>1. h \in Nat /\ lastSeq[c] \in Nat
        BY <1>2, WantedTyped DEF IInv, TypeOK
      <3>2. h \in Wanted(c) => TypeMatches(c, h)
        BY DEF Wanted
      <3> QED BY <1>1, <3>1, <3>2
    <2>3. \A e \in Wanted(c) : lastSeq[c] < e =>
            e \in backlog[c] \cup Pending \cup Buffered(c)' \/ Refused(c, e)'
      BY <1>1, <1>2, <2>1, <2>2 DEF Whole
    <2> QED BY <1>1, <1>4, <2>1, <2>3 DEF Whole
  <1> QED BY <1>1, <1>2, <1>3, <1>6, <1>7, <1>8, OfOneClient DEF Safe

LEMMA LiveSendStep ==
  ASSUME IInv, [Next]_vars, NEW c \in Clients, LiveSend(c)
  PROVE  IInv'
  <1> DEFINE h == Head(chan[c])
  <1>1. /\ spc[c] = "live" /\ Pick(c) /\ ~(h <= lastSeq[c]) /\ TypeMatches(c, h) /\ Send(c, h)
        /\ UNCHANGED <<log, pend, spc, backlog, raced, lastId, got>>
    BY DEF LiveSend, Pick, Overlap, Send
  <1>2. /\ h \in Event /\ Buffered(c) = {h} \cup Buffered(c)'
        /\ UNCHANGED <<reg, over>> /\ (outrun => outrun')
        /\ \A d \in Clients \ {c} : chan'[d] = chan[d] /\ luck'[d] = luck[d]
        /\ ~raced => Lined(c)' /\ \A e \in Buffered(c)' : h < e
        /\ ~outrun' => Tossed(c)' /\ \A e : Refused(c, e) => Refused(c, e)' /\ h < e
    BY <1>1, Picks
  <1>3. /\ Order(c) /\ Own(c) /\ (~raced => Lined(c)) /\ (~raced /\ ~outrun => Whole(c))
    BY DEF IInv, Safe
  <1>4. /\ lastSeq[c] < h /\ h \in Wanted(c) /\ Wanted(c) \subseteq Nat /\ lastSeq[c] \in Nat
    BY <1>1, <1>2, <1>3, WantedTyped DEF Own, Wanted, IInv, TypeOK
  <1>5. backlog[c] = {} /\ backlog'[c] = {}
    BY <1>1, <1>3 DEF Order
  <1>6. \A d \in Clients \ {c} : UNCHANGED Mine(d)
    BY <1>1, <1>2, <1>4, Sends DEF Mine
  <1>7. /\ Order(c)'
        /\ Received(c)' = Received(c) /\ Sent(c)' = Sent(c) \cup {h}
        /\ Wanted(c)' = Wanted(c) /\ Pending' = Pending
        /\ lastSeq'[c] = h
    BY <1>1, <1>2, <1>4, <1>5, SendKeeps, Sends
  <1>8. Own(c)'
    BY <1>1, <1>2, <1>3, <1>4, <1>5, <1>7 DEF Own
  <1>9. ASSUME ~raced', ~outrun' PROVE Whole(c)'
    <2>1. /\ Whole(c) /\ Lined(c)
          /\ \A e : Refused(c, e) => Refused(c, e)' /\ h < e
          /\ \A e \in Buffered(c)' : h < e
      BY <1>1, <1>2, <1>3, <1>9
    <2>2. \A e \in Pending : h < e
      BY <1>2, <2>1 DEF Lined
    <2>3. \A e \in Wanted(c) : lastSeq[c] < e =>
            e \in Pending \cup Buffered(c) \/ Refused(c, e)
      BY <1>1, <1>5, <2>1 DEF Whole
    <2>4. ~ \E d \in Wanted(c) : lastSeq[c] < d /\ d < h
      <3> SUFFICES ASSUME NEW d \in Wanted(c), lastSeq[c] < d, d < h PROVE FALSE
        OBVIOUS
      <3>1. h \in Nat /\ d \in Nat /\ ~(h < d) /\ d # h
        BY <1>4
      <3> QED BY <1>2, <2>1, <2>2, <2>3, <3>1
    <2>5. /\ \A d \in Wanted(c) : d <= lastId'[c] => d \in Received(c)'
          /\ \A d \in Wanted(c), b \in Sent(c)' : d <= b => d \in Received(c)' \cup Sent(c)'
          /\ \A d \in Wanted(c) : d <= h => d \in Received(c)' \cup Sent(c)'
      BY <1>1, <1>2, <1>4, <1>5, <1>9, <2>4, SendKeeps
    <2>6. \A e \in Wanted(c) : h < e => e \in Pending \cup Buffered(c)' \/ Refused(c, e)'
      BY <1>2, <1>4, <2>1, <2>3
    <2> QED BY <1>1, <1>5, <1>7, <2>5, <2>6 DEF Whole
  <1> QED BY <1>1, <1>2, <1>6, <1>7, <1>8, <1>9, OfOneClient DEF Safe

(* A session that ends leaves its client what is on the wire, or nothing. *)
LEMMA Ends ==
  ASSUME IInv, [Next]_vars, NEW c \in Clients, EndSession(c),
         UNCHANGED <<log, pend, lastId, got, raced, outrun>>,
         wire'[c] = wire[c] \/ wire'[c] = <<>>, \A d \in Clients \ {c} : wire'[d] = wire[d]
  PROVE  IInv'
  <1>1. /\ reg'[c] = NoTenant /\ chan'[c] = <<>> /\ over'[c] = FALSE /\ spc'[c] = "off"
        /\ backlog'[c] = {} /\ luck'[c] = 0 /\ lastSeq'[c] = 0 /\ 0 <= Len(log)
    BY DEF IInv, TypeOK, BusTypeOK, EndSession, Unsubscribe, Subscribe
  <1>2. \A d \in Clients \ {c} : UNCHANGED Mine(d)
    BY DEF IInv, TypeOK, BusTypeOK, EndSession, Unsubscribe, Subscribe, Mine
  <1>3. /\ Received(c)' = Received(c) /\ Wanted(c)' = Wanted(c)
        /\ Buffered(c)' = {} /\ Increasing(chan'[c])
        /\ (Sent(c)' = Sent(c) /\ wire'[c] = wire[c]) \/ (Sent(c)' = {} /\ Increasing(wire'[c]))
    BY <1>1, Views, SameLog, Nothing DEF Sent
  <1>4. Order(c) /\ Own(c) /\ (~raced /\ ~outrun => Whole(c))
    BY DEF IInv, Safe
  <1>5. Order(c)'
    BY <1>1, <1>3, <1>4, Views DEF Order
  <1>6. Own(c)'
    BY <1>1, <1>3, <1>4 DEF Own
  <1>7. Tossed(c)' /\ Lined(c)'
    BY <1>1, <1>3, Views DEF Tossed, Lined
  <1>8. ~raced' /\ ~outrun' => Whole(c)'
    BY <1>1, <1>3, <1>4 DEF Whole
  <1> QED BY <1>2, <1>5, <1>6, <1>7, <1>8, OfOneClient DEF Safe

LEMMA ClientRecvStep ==
  ASSUME IInv, [Next]_vars, NEW c \in Clients, ClientRecv(c)
  PROVE  /\ IInv'
         /\ Head(wire[c]) \in Wanted(c)
         /\ Received(c)' = Received(c) \cup {Head(wire[c])}
         /\ \A e \in Received(c) : e < Head(wire[c])
         /\ ~raced /\ ~outrun => \A e \in Wanted(c) : e <= Head(wire[c]) => e \in Received(c)'
  <1> DEFINE h == Head(wire[c])
  <1>1. /\ wire[c] \in Seq(Event) /\ wire[c] \in Seq(Nat) /\ wire[c] # <<>>
        /\ got[c] \in Seq(Event) /\ got[c] \in Seq(Nat) /\ lastId[c] \in Nat
        /\ lastId'[c] = h /\ got'[c] = Append(got[c], h) /\ wire'[c] = Tail(wire[c])
        /\ UNCHANGED <<reg, chan, over, log, pend, spc, backlog, lastSeq, luck, raced, outrun>>
    BY WantedTyped DEF IInv, TypeOK, ClientRecv, busVars, sessionVars, history
  <1>2. \A d \in Clients \ {c} : UNCHANGED Mine(d)
    BY <1>1 DEF IInv, TypeOK, ClientRecv, Mine
  <1>3. /\ Order(c) /\ Own(c) /\ (~outrun => Tossed(c)) /\ (~raced => Lined(c))
        /\ (~raced /\ ~outrun => Whole(c))
    BY DEF IInv, Safe
  <1>4. h \in Event /\ h \in Nat /\ Sent(c) = {h} \cup Elems(wire'[c])
    BY <1>1, Taken DEF Sent
  <1>5. Increasing(wire'[c]) /\ \A e \in Elems(wire'[c]) : h < e
    BY <1>1, <1>3, TakenInOrder DEF Order
  <1>6. /\ Sent(c)' = Elems(wire'[c]) /\ Received(c)' = Received(c) \cup {h}
        /\ Buffered(c)' = Buffered(c) /\ Wanted(c)' = Wanted(c) /\ Pending' = Pending
    <2>1. Elems(Append(got[c], h)) = Elems(got[c]) \cup {h}
      BY <1>1, <1>4, Added
    <2> QED BY <1>1, <2>1, Views, SameLog, SamePend DEF Buffered
  <1>7. Received(c) \subseteq Nat /\ Sent(c) \subseteq Nat /\ Wanted(c) \subseteq Nat
    BY <1>1, WantedTyped, SMTT(30) DEF Received, Sent, Elems, IInv
  <1>8. lastId[c] < h /\ \A e \in Received(c) : e < h
    <2>1. lastId[c] < h /\ \A e \in Received(c) : e <= lastId[c]
      BY <1>3, <1>4 DEF Order
    <2> QED BY <1>1, <1>4, <1>7, <2>1
  <1>9. Increasing(got'[c])
    BY <1>1, <1>3, <1>4, <1>8, AddedInOrder, Views DEF Order
  <1>10. Order(c)'
    <2>1. \A e \in Received(c)' : e <= h
      BY <1>4, <1>6, <1>7, <1>8
    <2>2. spc[c] # "off" => h <= lastSeq[c] /\ \A e \in Sent(c)' : e <= lastSeq[c]
      BY <1>3, <1>4, <1>6 DEF Order
    <2> QED BY <1>1, <1>3, <1>5, <1>6, <1>9, <2>1, <2>2, Views DEF Order
  <1>11. Own(c)'
    <2>1. h \in Wanted(c)
      BY <1>3, <1>4 DEF Own
    <2>2. h <= Len(log)
      BY <2>1, WantedTyped DEF IInv
    <2> QED BY <1>1, <1>3, <1>4, <1>6, <2>2 DEF Own
  <1>12. (~outrun' => Tossed(c)') /\ (~raced' => Lined(c)')
    BY <1>1, <1>3, <1>6, Views DEF Tossed, Lined
  <1>13. ASSUME ~raced', ~outrun'
         PROVE  Whole(c)' /\ \A e \in Wanted(c) : e <= h => e \in Received(c)'
    <2>1. Whole(c)
      BY <1>1, <1>3, <1>13
    <2>2. Received(c)' \cup Sent(c)' = Received(c) \cup Sent(c)
      BY <1>4, <1>6
    <2>3. \A e \in Wanted(c) : e <= h => e \in Received(c)'
      <3> SUFFICES ASSUME NEW e \in Wanted(c), e <= h PROVE e \in Received(c)'
        OBVIOUS
      <3>1. e \in Received(c) \cup Sent(c)
        BY <1>4, <2>1 DEF Whole
      <3>2. e \notin Sent(c)'
        BY <1>4, <1>5, <1>6, <1>7
      <3> QED BY <2>2, <3>1, <3>2
    <2>4. \A e \in Wanted(c), d \in Sent(c)' : e <= d => e \in Received(c)' \cup Sent(c)'
      BY <1>4, <1>6, <2>1, <2>2 DEF Whole
    <2>5. spc[c] # "off" =>
            \A e \in Wanted(c) : e <= lastSeq[c] => e \in Received(c)' \cup Sent(c)'
      BY <2>1, <2>2 DEF Whole
    <2>6. \A e : Refused(c, e)' = Refused(c, e)
      BY <1>1 DEF Refused
    <2>7. Whole(c)'
      BY <1>1, <1>6, <2>1, <2>3, <2>4, <2>5, <2>6 DEF Whole
    <2> QED BY <2>3, <2>7
  <1>14. IInv'
    BY <1>1, <1>2, <1>10, <1>11, <1>12, <1>13, OfOneClient DEF Safe
  <1> QED BY <1>1, <1>3, <1>4, <1>6, <1>8, <1>13, <1>14 DEF Own

LEMMA CrashStep ==
  ASSUME IInv, [Next]_vars, Crash
  PROVE  IInv'
  <1>1. pend' = [w \in Writers |-> <<>>] /\ UNCHANGED <<log, lastId, got, raced, outrun>>
    BY DEF Crash, history
  <1>2. Pending' = {} /\ InTurn'
    BY <1>1, Nothing DEF Pending, InTurn, Elems, Increasing
  <1>3. ASSUME NEW c \in Clients PROVE Safe(c)'
    <2>1. /\ reg'[c] = NoTenant /\ chan'[c] = <<>> /\ over'[c] = FALSE /\ spc'[c] = "off"
          /\ backlog'[c] = {} /\ luck'[c] = 0 /\ wire'[c] = <<>>
          /\ lastSeq'[c] = 0 /\ 0 <= Len(log)
      BY DEF Crash, BusReset, IInv, TypeOK
    <2>2. /\ Received(c)' = Received(c) /\ Wanted(c)' = Wanted(c) /\ Sent(c)' = {}
          /\ Buffered(c)' = {} /\ Increasing(chan'[c]) /\ Increasing(wire'[c])
      BY <1>1, <2>1, Views, SameLog, Nothing
    <2>3. Order(c) /\ Own(c) /\ (~raced /\ ~outrun => Whole(c))
      BY DEF IInv, Safe
    <2>4. Order(c)'
      BY <1>1, <2>1, <2>2, <2>3, Views DEF Order
    <2>5. Own(c)' /\ Tossed(c)' /\ Lined(c)'
      BY <1>1, <2>1, <2>2, <2>3, Views DEF Own, Tossed, Lined
    <2>6. ~raced' /\ ~outrun' => Whole(c)'
      BY <1>1, <2>1, <2>2, <2>3 DEF Whole
    <2> QED BY <2>4, <2>5, <2>6 DEF Safe
  <1>4. TypeOK'
    BY TypeStep DEF IInv
  <1> QED BY <1>2, <1>3, <1>4 DEF IInv

-----------------------------------------------------------------------------
(***************************************************************************)
(* Appends.                                                                *)
(***************************************************************************)
LEMMA Commits ==
  ASSUME IInv, NEW w \in Writers, Commit(w)
  PROVE  /\ Len(log) \in Nat /\ Len(log) <= Len(log')
         /\ \A e \in 1..Len(log) : log'[e] = log[e]
         /\ Pending' = Pending \cup {e \in 1..Len(log') : Len(log) < e}
         /\ ~raced' => ~raced /\ InTurn'
         /\ UNCHANGED <<reg, chan, over, spc, backlog, lastSeq, luck, wire, lastId, got, outrun>>
  <1>1. PICK k \in Kinds, n \in 1..MaxBatch :
          /\ log' = log \o [j \in 1..n |-> k]
          /\ pend' = [pend EXCEPT ![w] = [j \in 1..n |-> Len(log) + j]]
    BY DEF Commit
  <1> DEFINE new == [j \in 1..n |-> Len(log) + j]
  <1>2. /\ n \in Nat /\ log \in Seq(Kinds) /\ Len(log) \in Nat
        /\ pend \in [Writers -> Seq(Event)] /\ pend[w] = <<>>
    <2>1. n \in Nat
      BY <1>1, Sizes
    <2>2. log \in Seq(Kinds) /\ pend \in [Writers -> Seq(Event)] /\ pend[w] = <<>>
      BY DEF IInv, TypeOK, Commit
    <2>3. Len(log) \in Nat
      BY <2>2
    <2> QED BY <2>1, <2>2, <2>3
  <1>3. [j \in 1..n |-> k] \in Seq(Kinds) /\ Len([j \in 1..n |-> k]) = n
    BY <1>1, <1>2
  <1>4. Len(log') = Len(log) + n /\ \A e \in 1..Len(log) : log'[e] = log[e]
    BY <1>1, <1>2, <1>3
  <1>5. new \in Seq(Nat) /\ Len(new) = n /\ Increasing(new)
    BY <1>2 DEF Increasing
  <1>6. Elems(new) = {e \in 1..Len(log') : Len(log) < e}
    <2>1. \A j \in 1..n : Len(log) + j \in 1..Len(log') /\ Len(log) < Len(log) + j
      BY <1>2, <1>4
    <2>2. ASSUME NEW e \in 1..Len(log'), Len(log) < e PROVE e \in Elems(new)
      <3>1. e - Len(log) \in 1..n /\ new[e - Len(log)] = e
        BY <1>2, <1>4, <2>2
      <3> QED BY <1>5, <3>1 DEF Elems
    <2>3. Elems(new) = {new[j] : j \in 1..n}
      BY <1>5 DEF Elems
    <2> QED BY <2>1, <2>2, <2>3
  <1>7. /\ pend'[w] = new /\ \A v \in Writers \ {w} : pend'[v] = pend[v]
        /\ Elems(pend[w]) = {}
    BY <1>1, <1>2, Nothing
  <1>8. Pending' = UNION {Elems(pend'[v]) : v \in Writers}
    BY DEF Pending, Elems
  <1>9. Pending' = Pending \cup Elems(new)
    BY <1>7, <1>8 DEF Pending
  <1>10. ASSUME ~raced' PROVE ~raced /\ InTurn'
    <2>1. ~raced /\ ~(\E v \in Writers : pend[v] # <<>>)
      BY <1>10, Zenon DEF Commit
    <2>2. \A v \in Writers : v # w => pend'[v] = <<>>
      BY <1>7, <2>1
    <2>3. \A v \in Writers : Increasing(pend'[v])
      BY <1>5, <1>7, <2>2, Nothing
    <2>4. \A v, u \in Writers : pend'[v] # <<>> /\ pend'[u] # <<>> => v = u
      BY <2>2
    <2>5. InTurn'
      BY <2>3, <2>4 DEF InTurn, Increasing
    <2> QED BY <2>1, <2>5
  <1>11. UNCHANGED <<reg, chan, over, spc, backlog, lastSeq, luck, wire, lastId, got, outrun>>
    BY DEF Commit, busVars, sessionVars, clientVars
  <1>12. Len(log) <= Len(log')
    BY <1>2, <1>4
  <1>13. Pending' = Pending \cup {e \in 1..Len(log') : Len(log) < e}
    BY <1>6, <1>9
  <1> QED BY <1>2, <1>4, <1>10, <1>11, <1>12, <1>13

(* What a commit adds for a client comes after all there was. *)
LEMMA Grows ==
  ASSUME IInv, NEW w \in Writers, Commit(w), NEW c \in Clients
  PROVE  /\ Wanted(c) \subseteq Wanted(c)' /\ Wanted(c)' \subseteq Nat
         /\ \A e \in Wanted(c)' : e \notin Wanted(c) => Len(log) < e /\ e \in Pending'
         /\ Received(c)' = Received(c)
  <1>0. Len(log') \in Nat
    <2>1. TypeOK
      BY DEF IInv
    <2> QED BY <2>1, CommitTyped DEF TypeOK
  <1>1. /\ Len(log) \in Nat /\ Len(log') \in Nat /\ Len(log) <= Len(log')
        /\ \A e \in 1..Len(log) : log'[e] = log[e]
    BY <1>0, Commits, CommitTyped
  <1>2. /\ Wanted(c) = {e \in 1..Len(log) : log[e].tenant = TenantOf[c]
                                              /\ FilterOf[c] \in {AnyType, log[e].type}}
        /\ Wanted(c)' = {e \in 1..Len(log') : log'[e].tenant = TenantOf[c]
                                              /\ FilterOf[c] \in {AnyType, log'[e].type}}
    BY DEF Wanted, TypeMatches
  <1>3. \A e \in 1..Len(log') : e \notin 1..Len(log) => Len(log) < e /\ e \in Pending'
    BY <1>1, Commits
  <1> QED BY <1>1, <1>2, <1>3, Commits, Views

LEMMA CommitStep ==
  ASSUME IInv, NEW w \in Writers, Commit(w)
  PROVE  IInv'
  <1>0. Len(log') \in Nat
    <2>1. TypeOK
      BY DEF IInv
    <2> QED BY <2>1, CommitTyped DEF TypeOK
  <1>1. /\ Len(log) \in Nat /\ Len(log') \in Nat /\ Len(log) <= Len(log')
        /\ \A e \in 1..Len(log) : log'[e] = log[e]
        /\ Pending' = Pending \cup {e \in 1..Len(log') : Len(log) < e}
        /\ (~raced' => ~raced /\ InTurn')
        /\ UNCHANGED <<reg, chan, over, spc, backlog, lastSeq, luck, wire, lastId, got, outrun>>
    BY <1>0, Commits
  <1>2. ASSUME NEW c \in Clients PROVE Safe(c)'
    <2>1. /\ Wanted(c) \subseteq Wanted(c)' /\ Wanted(c)' \subseteq Nat
          /\ \A e \in Wanted(c)' : e \notin Wanted(c) => Len(log) < e /\ e \in Pending'
      BY Grows
    <2>2. /\ Received(c)' = Received(c) /\ Sent(c)' = Sent(c) /\ Buffered(c)' = Buffered(c)
          /\ lastId[c] \in Nat /\ lastSeq[c] \in Nat
      BY <1>1, Views, WantedTyped DEF Sent, Buffered, IInv, TypeOK
    <2>3. /\ Order(c) /\ Own(c) /\ (~outrun => Tossed(c)) /\ (~raced => Lined(c))
          /\ (~raced /\ ~outrun => Whole(c))
      BY DEF IInv, Safe
    <2>4. Order(c)'
      BY <1>1, <2>2, <2>3, Views DEF Order
    <2>5. Own(c)'
      BY <1>1, <2>1, <2>2, <2>3 DEF Own
    <2>6. ~outrun' => Tossed(c)'
      BY <1>1, <2>3 DEF Tossed
    <2>7. ~raced' => Lined(c)'
      BY <1>1, <2>2, <2>3, Views DEF Lined, Own
    <2>8. ASSUME ~raced', ~outrun' PROVE Whole(c)'
      <3>1. Whole(c)
        BY <1>1, <2>3, <2>8
      <3>2. Sent(c) \cup backlog[c] \subseteq 1..Len(log)
        BY <2>3 DEF Own, Wanted
      <3>3. lastId[c] <= Len(log) /\ lastSeq[c] <= Len(log)
        BY <2>3 DEF Own
      <3>4. \A e : Refused(c, e)' = Refused(c, e)
        BY <1>1 DEF Refused
      <3>5. \A e \in Wanted(c)' : e <= lastId[c] \/ e <= lastSeq[c] => e \in Wanted(c)
        BY <1>1, <2>1, <2>2, <3>3
      <3>6. \A e \in Wanted(c)', d \in Sent(c) \cup backlog[c] : e \in Wanted(c) \/ d < e
        BY <1>1, <2>1, <3>2
      <3>7. \A e \in Wanted(c)', d \in Sent(c) : e <= d => e \in Wanted(c)
        BY <1>1, <2>1, <3>2
      <3> QED BY <1>1, <2>1, <2>2, <3>1, <3>4, <3>5, <3>6, <3>7 DEF Whole
    <2> QED BY <2>4, <2>5, <2>6, <2>7, <2>8 DEF Safe
  <1>3. TypeOK'
    BY CommitTyped DEF IInv
  <1>4. (Pending \subseteq 1..Len(log))'
    <2>1. Pending \subseteq 1..Len(log)
      BY DEF IInv
    <2>2. Len(log) \in Nat /\ Len(log') \in Nat /\ Len(log) <= Len(log')
      BY <1>1
    <2>3. Pending' = Pending \cup {e \in 1..Len(log') : Len(log) < e}
      BY Commits
    <2>4. 1..Len(log) \subseteq 1..Len(log')
      BY <2>2
    <2>5. Pending' \subseteq 1..Len(log')
      BY <2>1, <2>3, <2>4, Zenon
    <2> QED BY <2>5
  <1> QED BY <1>1, <1>2, <1>3, <1>4 DEF IInv

(* The handler does not hear of its commit: all that is lost is the order of *)
(* what is published.                                                        *)
LEMMA UnansweredStep ==
  ASSUME IInv, NEW w \in Writers, CommitUnanswered(w)
  PROVE  IInv'
  <1>1. /\ UNCHANGED <<reg, chan, over, pend, spc, backlog, lastSeq, luck, wire, lastId, got, outrun>>
        /\ raced' = TRUE
    BY DEF CommitUnanswered, busVars, sessionVars, clientVars
  <1>2. PICK k \in Kinds, n \in 1..MaxBatch : log' = log \o [j \in 1..n |-> k]
    BY DEF CommitUnanswered
  <1>3. /\ Len(log) \in Nat /\ Len(log') \in Nat /\ Len(log) <= Len(log')
        /\ \A e \in 1..Len(log) : log'[e] = log[e]
    <2>1. n \in Nat /\ log \in Seq(Kinds) /\ Len(log) \in Nat
      BY <1>2, Sizes DEF IInv, TypeOK
    <2>2. [j \in 1..n |-> k] \in Seq(Kinds) /\ Len([j \in 1..n |-> k]) = n
      BY <1>2, <2>1
    <2> QED BY <1>2, <2>1, <2>2
  <1>4. ASSUME NEW c \in Clients PROVE Safe(c)'
    <2>1. Wanted(c) \subseteq Wanted(c)'
      BY <1>3 DEF Wanted, TypeMatches
    <2>2. Received(c)' = Received(c) /\ Sent(c)' = Sent(c) /\ Buffered(c)' = Buffered(c)
      BY <1>1, Views DEF Sent, Buffered
    <2>3. Order(c) /\ Own(c) /\ (~outrun => Tossed(c))
      BY DEF IInv, Safe
    <2>4. Order(c)'
      BY <1>1, <2>2, <2>3, Views DEF Order
    <2>5. Own(c)'
      <3>1. lastId[c] \in Nat /\ lastSeq[c] \in Nat
        BY WantedTyped DEF IInv, TypeOK
      <3> QED BY <1>1, <1>3, <2>1, <2>2, <2>3, <3>1 DEF Own
    <2>6. ~outrun' => Tossed(c)'
      BY <1>1, <2>3 DEF Tossed
    <2> QED BY <1>1, <2>4, <2>5, <2>6 DEF Safe
  <1>5. TypeOK'
    BY UnansweredTyped DEF IInv
  <1>6. (Pending \subseteq 1..Len(log))'
    <2>1. Pending' = Pending /\ Pending \subseteq 1..Len(log)
      BY <1>1, SamePend DEF IInv
    <2>2. 1..Len(log) \subseteq 1..Len(log')
      BY <1>3
    <2> QED BY <2>1, <2>2
  <1> QED BY <1>1, <1>4, <1>5, <1>6 DEF IInv

(* The oldest committed event that is not published moves to the channels.   *)
LEMMA Publishes ==
  ASSUME IInv, NEW w \in Writers, PublishNext(w)
  PROVE  LET e == Head(pend[w])
         IN  /\ e \in 1..Len(log) /\ e \in Event /\ log[e].tenant \in Tenants
             /\ Publish(log[e].tenant, e)
             /\ Pending = {e} \cup Pending'
             /\ ~raced => InTurn' /\ \A p \in Pending' : e < p
             /\ UNCHANGED <<log, spc, backlog, lastSeq, luck, wire, lastId, got, raced, outrun>>
  <1> DEFINE e == Head(pend[w])
  <1>1. /\ pend \in [Writers -> Seq(Event)] /\ pend[w] # <<>>
        /\ pend' = [pend EXCEPT ![w] = Tail(@)]
        /\ pend[w] \in Seq(Event) /\ pend[w] \in Seq(Nat) /\ Event \subseteq Nat
    <2>2. /\ pend \in [Writers -> Seq(Event)] /\ pend[w] # <<>>
          /\ pend' = [pend EXCEPT ![w] = Tail(@)]
      BY DEF IInv, TypeOK, PublishNext
    <2> QED BY <2>2, EventSequence
  <1>2. /\ e \in Event /\ Elems(pend[w]) = {e} \cup Elems(pend'[w])
        /\ \A v \in Writers \ {w} : pend'[v] = pend[v]
    BY <1>1, Taken
  <1>3. Pending' = UNION {Elems(pend'[v]) : v \in Writers}
    BY DEF Pending, Elems
  <1>4. Pending = {e} \cup Pending'
    BY <1>2, <1>3 DEF Pending
  <1>5. e \in 1..Len(log) /\ log \in Seq(Kinds)
    BY <1>4 DEF IInv, TypeOK
  <1>6. log[e].tenant \in Tenants
    BY <1>5, RealtimeAssumption
  <1>7. ASSUME ~raced PROVE InTurn' /\ \A p \in Pending' : e < p
    <2>1. InTurn
      BY <1>7 DEF IInv
    <2>2. Increasing(pend'[w]) /\ \A p \in Elems(pend'[w]) : e < p
      BY <1>1, <2>1, TakenInOrder DEF InTurn
    <2>3. \A v \in Writers : v # w => pend'[v] = <<>>
      BY <1>1, <1>2, <2>1 DEF InTurn
    <2>4. Pending' = Elems(pend'[w])
      BY <1>3, <2>3, Nothing
    <2>5. \A v \in Writers : Increasing(pend'[v])
      BY <2>2, <2>3, Nothing
    <2>6. \A v, u \in Writers : pend'[v] # <<>> /\ pend'[u] # <<>> => v = u
      BY <2>3
    <2>7. InTurn'
      BY <2>5, <2>6 DEF InTurn, Increasing
    <2> QED BY <2>2, <2>4, <2>7
  <1>8. /\ Publish(log[e].tenant, e)
        /\ UNCHANGED <<log, spc, backlog, lastSeq, luck, wire, lastId, got, raced, outrun>>
    BY DEF PublishNext, sessionVars, clientVars, history
  <1> QED BY <1>2, <1>4, <1>5, <1>6, <1>7, <1>8

(* A channel gets the event, or its session is told that it did not.         *)
LEMMA Offered ==
  ASSUME IInv, NEW t \in Tenants, NEW e \in Event, Publish(t, e), NEW c \in Clients
  PROVE  /\ reg' = reg /\ (over[c] => over'[c])
         /\ \/ /\ reg[c] = t /\ spc[c] # "off"
               /\ Len(chan[c]) < BufferSize /\ chan'[c] = Append(chan[c], e)
               /\ over'[c] => over[c]
            \/ /\ reg[c] = t /\ spc[c] # "off"
               /\ ~(Len(chan[c]) < BufferSize) /\ chan'[c] = chan[c] /\ over'[c]
            \/ reg[c] # t /\ chan'[c] = chan[c] /\ (over'[c] => over[c])
  <1>1. over'[c] = IF c \in Audience(t) THEN Signalled(c) ELSE over[c]
    BY DEF Publish
  <1>2. /\ over[c] => over'[c]
        /\ reg[c] # t => (over'[c] => over[c])
        /\ reg[c] = t /\ HasRoom(c) => (over'[c] => over[c])
        /\ reg[c] = t /\ ~HasRoom(c) => over'[c]
    BY <1>1, Zenon DEF Audience, Signalled
  <1>3. reg[c] = t => spc[c] # "off"
    BY BusAssumption DEF IInv, Safe, Own
  <1>4. /\ reg' = reg
        /\ chan'[c] = IF reg[c] = t /\ HasRoom(c) THEN Append(chan[c], e) ELSE chan[c]
    BY DEF Publish, Audience
  <1> QED BY <1>2, <1>3, <1>4 DEF HasRoom

LEMMA PublishKeeps ==
  ASSUME IInv, NEW w \in Writers, PublishNext(w), NEW c \in Clients
  PROVE  Safe(c)'
  <1>1. PICK e \in Event, t \in Tenants :
        /\ e \in 1..Len(log) /\ t = log[e].tenant
        /\ Publish(t, e)
        /\ Pending = {e} \cup Pending'
        /\ ~raced => \A p \in Pending' : e < p
    BY Publishes
  <1>2. UNCHANGED <<log, spc, backlog, lastSeq, luck, wire, lastId, got, raced, outrun>>
    BY Publishes
  <1>3. /\ reg' = reg /\ (over[c] => over'[c])
        /\ \/ /\ reg[c] = t /\ spc[c] # "off"
              /\ Len(chan[c]) < BufferSize /\ chan'[c] = Append(chan[c], e)
              /\ over'[c] => over[c]
           \/ /\ reg[c] = t /\ spc[c] # "off"
              /\ ~(Len(chan[c]) < BufferSize) /\ chan'[c] = chan[c] /\ over'[c]
           \/ reg[c] # t /\ chan'[c] = chan[c] /\ (over'[c] => over[c])
    BY <1>1, Offered
  <1>4. /\ Order(c) /\ Own(c) /\ (~outrun => Tossed(c)) /\ (~raced => Lined(c))
        /\ (~raced /\ ~outrun => Whole(c))
    BY DEF IInv, Safe
  <1>5. /\ Received(c)' = Received(c) /\ Sent(c)' = Sent(c) /\ Wanted(c)' = Wanted(c)
    BY <1>2, Views, SameLog DEF Sent
  <1>6. /\ chan[c] \in Seq(Event) /\ chan[c] \in Seq(Nat) /\ Len(chan[c]) \in Nat
        /\ luck[c] \in Nat /\ e \in Nat
    <2>1. chan[c] \in Seq(Event) /\ luck[c] \in 0..Luck
      BY DEF IInv, TypeOK, BusTypeOK
    <2> QED BY <1>1, <2>1, EventSequence
  <1>7. /\ chan'[c] = Append(chan[c], e) =>
             /\ Buffered(c)' = Buffered(c) \cup {e} /\ Len(chan'[c]) = Len(chan[c]) + 1
             /\ \A j \in 1..Len(chan[c]) : chan'[c][j] = chan[c][j]
        /\ chan'[c] = chan[c] => Buffered(c)' = Buffered(c)
    <2>1. /\ Elems(Append(chan[c], e)) = Elems(chan[c]) \cup {e}
          /\ Len(Append(chan[c], e)) = Len(chan[c]) + 1
          /\ \A j \in 1..Len(chan[c]) : Append(chan[c], e)[j] = chan[c][j]
      BY <1>1, <1>6, Added
    <2> QED BY <2>1, Views DEF Buffered
  <1>8. Order(c)'
    BY <1>2, <1>4, <1>5, Views DEF Order
  <1>9. Own(c)'
    <2>1. \A d \in Buffered(c)' : d \in 1..Len(log) /\ log[d].tenant = TenantOf[c]
      BY <1>1, <1>3, <1>4, <1>7 DEF Own
    <2> QED BY <1>2, <1>3, <1>4, <1>5, <2>1 DEF Own
  <1>10. ASSUME ~outrun' PROVE Tossed(c)'
    <2>1. Tossed(c)
      BY <1>2, <1>4, <1>10
    <2>2. luck[c] = 0 \/ (spc[c] = "live" /\ over'[c])
      BY <1>3, <2>1 DEF Tossed
    <2>3. over'[c] => luck[c] <= BufferSize /\ BufferSize <= luck[c] + Len(chan'[c])
      <3>1. CASE over[c]
        BY <1>3, <1>6, <1>7, <2>1, <3>1, Sizes DEF Tossed
      <3>2. CASE ~over[c]
        BY <1>3, <1>6, <1>7, <2>1, <3>2, Sizes DEF Tossed
      <3> QED BY <3>1, <3>2
    <2> QED BY <1>2, <2>2, <2>3 DEF Tossed
  <1>11. ASSUME ~raced' PROVE Lined(c)'
    <2>1. Lined(c)
      BY <1>2, <1>4, <1>11
    <2>2. \A d \in Buffered(c) : d < e
      BY <1>1, <2>1 DEF Lined
    <2>3. Increasing(chan'[c])
      BY <1>3, <1>6, <2>1, <2>2, AddedInOrder DEF Lined, Buffered
    <2>4. \A d \in Buffered(c)', p \in Pending' : d < p
      BY <1>1, <1>2, <1>3, <1>7, <1>11, <2>1 DEF Lined
    <2> QED BY <2>3, <2>4, Views DEF Lined
  <1>12. ASSUME ~raced', ~outrun' PROVE Whole(c)'
    <2>1. Whole(c) /\ Tossed(c) /\ Lined(c)
      BY <1>2, <1>4, <1>12
    <2>2. ASSUME NEW d, Refused(c, d) PROVE Refused(c, d)'
      <3>1. over[c] /\ over'[c] /\ BufferSize <= luck[c] + Len(chan[c])
        BY <1>3, <2>1, <2>2 DEF Refused, Tossed
      <3>2. ASSUME NEW j \in 1..Len(chan'[c]), j + luck[c] <= BufferSize
            PROVE  chan'[c][j] < d
        <4>1. j \in 1..Len(chan[c]) /\ chan'[c][j] = chan[c][j]
          <5>1. CASE chan'[c] = chan[c]
            BY <3>2, <5>1
          <5>2. CASE chan'[c] = Append(chan[c], e)
            <6>1. j \in 1..Len(chan[c])
              BY <1>6, <1>7, <3>1, <3>2, <5>2, Sizes
            <6> QED BY <1>7, <5>2, <6>1
          <5> QED BY <1>3, <5>1, <5>2
        <4> QED BY <2>2, <3>2, <4>1 DEF Refused
      <3> QED BY <1>2, <3>1, <3>2 DEF Refused
    <2>3. spc[c] # "off" /\ e \in Wanted(c) => e \in Buffered(c)' \/ Refused(c, e)'
      <3> SUFFICES ASSUME spc[c] # "off", e \in Wanted(c), e \notin Buffered(c)'
                   PROVE  Refused(c, e)'
        OBVIOUS
      <3>1. reg[c] = t
        BY <1>1, <1>4 DEF Own, Wanted
      <3>2. chan'[c] = chan[c] /\ over'[c]
        BY <1>3, <1>7, <3>1
      <3>3. \A d \in Buffered(c) : d < e
        BY <1>1, <2>1 DEF Lined
      <3> QED BY <3>2, <3>3 DEF Refused, Buffered, Elems
    <2>4. Buffered(c) \subseteq Buffered(c)'
      BY <1>3, <1>7
    <2>5. spc[c] \in {"catchup", "live"} =>
            \A d \in Wanted(c) : lastSeq[c] < d =>
              d \in backlog[c] \cup Pending' \cup Buffered(c)' \/ Refused(c, d)'
      <3> SUFFICES ASSUME spc[c] \in {"catchup", "live"}, NEW d \in Wanted(c), lastSeq[c] < d
                   PROVE  d \in backlog[c] \cup Pending' \cup Buffered(c)' \/ Refused(c, d)'
        OBVIOUS
      <3>1. d \in backlog[c] \cup Pending \cup Buffered(c) \/ Refused(c, d)
        BY <2>1 DEF Whole
      <3> QED BY <1>1, <2>2, <2>3, <2>4, <3>1
    <2> QED BY <1>2, <1>5, <2>1, <2>5 DEF Whole
  <1> QED BY <1>8, <1>9, <1>10, <1>11, <1>12 DEF Safe

LEMMA PublishStep ==
  ASSUME IInv, [Next]_vars, NEW w \in Writers, PublishNext(w)
  PROVE  IInv'
  <1>1. /\ Pending = {Head(pend[w])} \cup Pending'
        /\ ~raced => InTurn'
        /\ UNCHANGED <<log, raced>>
    BY Publishes
  <1>2. TypeOK'
    BY TypeStep DEF IInv
  <1>3. Pending' \subseteq 1..Len(log')
    BY <1>1 DEF IInv
  <1> QED BY <1>1, <1>2, <1>3, PublishKeeps DEF IInv

-----------------------------------------------------------------------------
(***************************************************************************)
(* Theorems.                                                               *)
(***************************************************************************)
LEMMA InitIInv == Init => IInv
  <1> SUFFICES ASSUME Init PROVE IInv
    OBVIOUS
  <1>1. log = <<>> /\ pend = [w \in Writers |-> <<>>] /\ Pending = {} /\ InTurn
    BY Nothing DEF Init, Pending, InTurn
  <1>2. BusTypeOK(Event)
    BY Sizes DEF Init, BusInit, BusTypeOK
  <1>3. TypeOK
    <2>1. wire \in [Clients -> Seq(Event)] /\ \A c \in Clients : Len(wire[c]) <= WireSize
      BY Sizes DEF Init
    <2>2. log \in Seq(Kinds) /\ Len(log) <= MaxEvents
      BY <1>1, Sizes
    <2>3. pend \in [Writers -> Seq(Event)] /\ got \in [Clients -> Seq(Event)]
      BY <1>1 DEF Init
    <2>4. raced \in BOOLEAN /\ outrun \in BOOLEAN
      BY Zenon DEF Init
    <2> QED BY <1>2, <2>1, <2>2, <2>3, <2>4, Sizes DEF Init, TypeOK
  <1>4. ASSUME NEW c \in Clients PROVE Safe(c)
    <2>1. /\ reg[c] = NoTenant /\ chan[c] = <<>> /\ over[c] = FALSE /\ spc[c] = "off"
          /\ backlog[c] = {} /\ luck[c] = 0 /\ wire[c] = <<>> /\ lastSeq[c] = 0
          /\ lastId[c] = 0 /\ got[c] = <<>>
      BY DEF Init, BusInit
    <2>2. /\ Received(c) = {} /\ Sent(c) = {} /\ Buffered(c) = {} /\ Wanted(c) = {}
          /\ Increasing(chan[c]) /\ Increasing(wire[c]) /\ Increasing(got[c])
      BY <1>1, <2>1, Nothing, Views DEF Sent, Buffered, Wanted
    <2> QED BY <1>1, <2>1, <2>2 DEF Safe, Order, Own, Tossed, Lined, Whole
  <1> QED BY <1>1, <1>3, <1>4 DEF IInv

LEMMA EndStep ==
  ASSUME IInv, [Next]_vars, NEW c \in Clients, OverflowEnd(c) \/ Drop(c)
  PROVE  IInv' /\ got' = got /\ log' = log
  <1>1. EndSession(c) /\ UNCHANGED <<log, pend, lastId, got, raced, outrun>>
    BY DEF OverflowEnd, Drop, clientVars, history
  <1>2. wire'[c] = wire[c] \/ wire'[c] = <<>>
    BY DEF OverflowEnd, Drop, clientVars, IInv, TypeOK
  <1>3. \A d \in Clients \ {c} : wire'[d] = wire[d]
    BY DEF OverflowEnd, Drop, clientVars, IInv, TypeOK
  <1> QED BY <1>1, <1>2, <1>3, Ends

LEMMA NextIInv == IInv /\ [Next]_vars => IInv'
  <1> SUFFICES ASSUME IInv, [Next]_vars PROVE IInv'
    OBVIOUS
  <1>1. CASE UNCHANGED vars
    <2>1. \A c \in Clients : Safe(c)'
      BY <1>1, Untouched DEF IInv, vars, busVars, sessionVars, clientVars, history, Mine
    <2>2. TypeOK' /\ Pending' = Pending /\ InTurn' = InTurn /\ log' = log /\ raced' = raced
      BY <1>1, TypeStep, SamePend DEF IInv, vars, history
    <2> QED BY <2>1, <2>2 DEF IInv
  <1>2. CASE \E w \in Writers : Commit(w) \/ CommitUnanswered(w) \/ PublishNext(w)
    BY <1>2, CommitStep, UnansweredStep, PublishStep
  <1>3. CASE \E c \in Clients : Connect(c) \/ Drop(c) \/ ClientRecv(c)
    BY <1>3, ConnectStep, EndStep, ClientRecvStep
  <1>4. CASE \E c \in Clients : Session(c)
    BY <1>4, ReadLogStep, CatchUpSendStep, GoLiveStep, LiveSkipStep, LiveSendStep, EndStep
       DEF Session
  <1> QED BY <1>1, <1>2, <1>3, <1>4, CrashStep DEF Next, Rest

(* The inductive invariant of the sessions, their clients and the handlers.  *)
THEOREM RealtimeInvariant == Spec => []IInv
  BY InitIInv, NextIInv, PTL DEF Spec

(* Types: no buffer or connection holds more than its size. *)
THEOREM RealtimeTypeOK == Spec => []TypeOK
  <1>1. IInv => TypeOK
    BY DEF IInv
  <1> QED BY <1>1, RealtimeInvariant, PTL

(* No client ever receives an event twice or out of order, however handlers  *)
(* race, buffers overflow, connections break and the server restarts.        *)
THEOREM RealtimeOrderedOnce == Spec => []OrderedOnce
  <1>1. IInv => OrderedOnce
    BY DEF IInv, Safe, Order, OrderedOnce, Increasing
  <1> QED BY <1>1, RealtimeInvariant, PTL

-----------------------------------------------------------------------------
(***************************************************************************)
(* The sessions implement Delivery.                                        *)
(***************************************************************************)
Due == [c \in Clients |-> Wanted(c)]
Handed == [c \in Clients |-> Received(c)]

LEMMA Unmoved ==
  ASSUME log' = log, got' = got
  PROVE  UNCHANGED <<Due, Handed>>
  BY SameLog DEF Due, Handed, Received

LEMMA CommitDelivers ==
  ASSUME IInv, NEW w \in Writers, Commit(w)
  PROVE  D!Grow
  <1>1. ASSUME NEW c \in Clients
        PROVE  /\ Wanted(c) \subseteq Wanted(c)' /\ Received(c)' = Received(c)
               /\ D!Above(Wanted(c)' \ Wanted(c), Received(c))
    <2>1. /\ Wanted(c) \subseteq Wanted(c)' /\ Received(c)' = Received(c)
          /\ \A e \in Wanted(c)' : e \notin Wanted(c) => Len(log) < e
          /\ Wanted(c)' \subseteq Nat
      BY Grows
    <2>2. Received(c) \subseteq 1..Len(log) /\ Len(log) \in Nat
      BY DEF IInv, TypeOK, Safe, Own, Wanted
    <2> QED BY <2>1, <2>2 DEF D!Above
  <1> QED BY <1>1 DEF D!Grow

LEMMA ClientRecvDelivers ==
  ASSUME IInv, [Next]_vars, NEW c \in Clients, ClientRecv(c), ~raced', ~outrun'
  PROVE  D!Deliver(c)
  <1> DEFINE h == Head(wire[c])
  <1>1. ~raced /\ ~outrun /\ log' = log
    BY DEF ClientRecv, history
  <1>2. /\ h \in Wanted(c) /\ Received(c)' = Received(c) \cup {h}
        /\ \A e \in Received(c) : e < h
        /\ \A e \in Wanted(c) : e <= h => e \in Received(c)'
    BY <1>1, ClientRecvStep
  <1>3. \A d \in Clients : Wanted(d)' = Wanted(d)
    BY <1>1, SameLog
  <1>4. \A d \in Clients \ {c} : Received(d)' = Received(d)
    BY Views DEF ClientRecv, IInv, TypeOK
  <1>5. Received(c) \subseteq Wanted(c) /\ Wanted(c) \subseteq Nat
    BY WantedTyped DEF IInv, Safe, Own
  <1>6. D!Above(Wanted(c) \ Received(c)', Received(c)')
    BY <1>2, <1>5 DEF D!Above
  <1> QED BY <1>2, <1>3, <1>4, <1>5, <1>6 DEF D!Deliver

(* Unless appends overlap between commit and publish, one fails after it has *)
(* committed, or a session outruns its overflow, every step of every client  *)
(* is one that Delivery allows: in order, nothing left out, nothing of other *)
(* tenants or types, for all sizes of buffers and any number of lost         *)
(* connections and restarts.                                                 *)
THEOREM RealtimeDelivers == Spec => DeliversUnlessRaced
  <1>1. Init => D!Init
    BY DEF Init, D!Init, Wanted, Received
  <1>2. IInv /\ [Next]_vars => [raced' \/ outrun' \/ D!Next]_<<Due, Handed>>
    <2> SUFFICES ASSUME IInv, [Next]_vars, ~raced', ~outrun'
                 PROVE  D!Next \/ UNCHANGED <<Due, Handed>>
      OBVIOUS
    <2>1. ASSUME NEW w \in Writers, Commit(w) PROVE D!Next
      BY <2>1, CommitDelivers DEF D!Next
    <2>2. ASSUME NEW c \in Clients, ClientRecv(c) PROVE D!Next
      BY <2>2, ClientRecvDelivers DEF D!Next
    <2>3. ASSUME NEW w \in Writers, PublishNext(w) PROVE log' = log /\ got' = got
      BY <2>3 DEF PublishNext, clientVars
    <2>4. ASSUME NEW c \in Clients, Connect(c) \/ Session(c) \/ Drop(c)
          PROVE  log' = log /\ got' = got
      BY <2>4 DEF Connect, Session, ReadLog, CatchUpSend, GoLive, LiveSkip, LiveSend,
                  OverflowEnd, Drop, Send, clientVars
    <2>5. Crash \/ UNCHANGED vars => log' = log /\ got' = got
      BY DEF Crash, vars, clientVars
    <2>6. \A w \in Writers : ~CommitUnanswered(w)
      BY DEF CommitUnanswered
    <2> QED BY <2>1, <2>2, <2>3, <2>4, <2>5, <2>6, Unmoved DEF Next, Rest
  <1>3. Spec => [][raced' \/ outrun' \/ D!Next]_<<Due, Handed>>
    BY <1>2, RealtimeInvariant, PTL DEF Spec
  <1>4. Spec => D!Init
    BY <1>1 DEF Spec
  <1> QED BY <1>3, <1>4, PTL DEF DeliversUnlessRaced, Due, Handed
=============================================================================
