------------------------------- MODULE Store --------------------------------
(***************************************************************************)
(* The append path of foldbase: Store.Append inside the HTTP handler that  *)
(* calls it (store/store.go, httpapi/router.go), over the events table of  *)
(* either dialect (dialect/dialect.go).  Each handler is one goroutine and *)
(* runs one request at a time; the steps of a handler are the statements   *)
(* it sends to the database, and handlers interleave between statements.   *)
(*                                                                         *)
(*   begin   -> waits for a connection and opens the transaction           *)
(*   check   -> SELECT MAX(version), MAX(stream_type)                      *)
(*   reserve -> the next INSERT takes its global_seq                       *)
(*   write   -> the INSERT meets the UNIQUE indexes                        *)
(*   commit  -> COMMIT                                                     *)
(*   reread  -> StreamVersion, after a UNIQUE violation                    *)
(*   reply   -> fold, publish and the 200 (Projector, Realtime)            *)
(***************************************************************************)
EXTENDS Naturals, Sequences

CONSTANTS
  Handlers,       \* concurrent requests in the server
  Tenants, Streams, Types, ClientIds,
  NoType,         \* the empty streamType
  Generated,      \* the id of an event whose UUID the server generates
  Requests,       \* the append bodies clients send, a subset of Request
  Postgres,       \* TRUE: Postgres with a pool; FALSE: SQLite, one connection
  MaxRequests,    \* bound: requests received in a behaviour
  MaxFaults,      \* bound: statements that fail for a reason of their own
  MaxCrashes      \* bound: crashes of the server process

StreamTypes == Types \cup {NoType}
Ids         == ClientIds \cup {Generated}

Request == [tenant: Tenants, stream: Streams, stype: StreamTypes,
            expected: Nat, ids: {q \in Seq(Ids) : Len(q) > 0}]

ASSUME RequestsAssumption == Requests # {} /\ Requests \subseteq Request
ASSUME BoundsAssumption   == /\ Postgres \in BOOLEAN
                             /\ MaxRequests \in Nat
                             /\ MaxFaults \in Nat
                             /\ MaxCrashes \in Nat
ASSUME IdsAssumption      == Generated \notin ClientIds

VARIABLES
  events,       \* the committed rows of the events table
  tx,           \* tx[h]: the rows inserted by h's open transaction
  nextSeq,      \* the next value of the global_seq sequence
  durableSeq,   \* SQLite: the value a rollback returns to
  pc,           \* pc[h]: the statement handler h executes next
  req,          \* req[h]: the request in hand
  cur,          \* cur[h]: Append's cur, the version the check read
  stype,        \* stype[h]: the stream type the rows get
  i,            \* i[h]: INSERTs begun by the open transaction
  gs,           \* gs[h]: the global_seq of the INSERT in progress
  result,       \* result[h]: the answer to req[h]
  served, faults, crashes   \* counters for the bounds

vars == <<events, tx, nextSeq, durableSeq, pc, req, cur, stype, i, gs, result,
          served, faults, crashes>>

log == INSTANCE EventLog WITH log <- events

Row    == [seq: Nat, id: Ids, tenant: Tenants, stream: Streams,
           stype: StreamTypes, version: Nat]
Answer == [code: {0, 200, 400, 409, 500}, actual: Nat, rows: SUBSET Row]

NoRows(code, v) == [code |-> code, actual |-> v, rows |-> {}]
Pending     == NoRows(0, 0)
Failed      == NoRows(500, 0)
Refused     == NoRows(400, 0)
Conflict(v) == NoRows(409, v)

InTxWhileRereading(h) == pc[h] \in {"check", "reserve", "write", "commit", "reread"}
InTx(h) == pc[h] \in {"check", "reserve", "write", "commit"}

(***************************************************************************)
(* What the database answers.                                              *)
(***************************************************************************)
RowsOf(t, s) == log!StreamOf(events, t, s)

(* SELECT MAX(version): 0 for a stream without events. *)
FirstVersion(t, s) ==
  LET vs == {0} \cup log!VersionsOf(RowsOf(t, s)) IN CHOOSE v \in vs : \A w \in vs : v <= w
CurrentVersion(t, s) ==
  LET vs == {0} \cup log!VersionsOf(RowsOf(t, s)) IN CHOOSE v \in vs : \A w \in vs : w <= v

(* SELECT MAX(stream_type): the type of the stream's events, which share it. *)
ExistingType(t, s) == (CHOOSE e \in RowsOf(t, s) : TRUE).stype

(* A statement outside h's own transaction needs a connection: the SQLite    *)
(* pool has exactly one (SetMaxOpenConns(1)), which a transaction keeps.     *)
ConnFreeAlways == TRUE
ConnFree == Postgres \/ \A g \in Handlers : ~InTx(g)

(* What ROLLBACK does to the sequence: SQLite keeps its AUTOINCREMENT value  *)
(* in a table, a Postgres identity never goes back.                          *)
SeqAfterRollback == IF Postgres THEN nextSeq ELSE durableSeq

NewRowAtCur(h) == [seq |-> gs[h], id |-> req[h].ids[i[h]], tenant |-> req[h].tenant,
              stream |-> req[h].stream, stype |-> stype[h], version |-> cur[h] + i[h] - 1]
NewRowUntyped(h) == [seq |-> gs[h], id |-> req[h].ids[i[h]], tenant |-> req[h].tenant,
              stream |-> req[h].stream, stype |-> req[h].stype, version |-> cur[h] + i[h]]
NewRow(h) == [seq |-> gs[h], id |-> req[h].ids[i[h]], tenant |-> req[h].tenant,
              stream |-> req[h].stream, stype |-> stype[h], version |-> cur[h] + i[h]]

(* The rows the UNIQUE(id) and UNIQUE(tenant, stream_id, version) indexes    *)
(* refuse to see beside a new row.                                           *)
Clashes(row, rows) == \E e \in rows : log!Clash(e, row)

(* Postgres makes an INSERT wait for the transaction whose uncommitted row   *)
(* it clashes with.                                                          *)
WaitsFor(g, h) ==
  /\ pc[g] = "write" /\ g # h
  /\ Clashes(NewRow(g), tx[h]) /\ ~Clashes(NewRow(g), events \cup tx[g])

Stuck(S) == S # {} /\ \A g \in S : \E h \in S : WaitsFor(g, h)
WaitCycle(S) == Stuck(S) /\ \A R \in SUBSET S : Stuck(R) => R = S

-----------------------------------------------------------------------------
Init ==
  /\ events = {}
  /\ tx = [h \in Handlers |-> {}]
  /\ nextSeq = 1 /\ durableSeq = 1
  /\ pc = [h \in Handlers |-> "idle"]
  /\ req = [h \in Handlers |-> CHOOSE r \in Requests : TRUE]
  /\ cur = [h \in Handlers |-> 0]
  /\ stype = [h \in Handlers |-> NoType]
  /\ i = [h \in Handlers |-> 0]
  /\ gs = [h \in Handlers |-> 0]
  /\ result = [h \in Handlers |-> Pending]
  /\ served = 0 /\ faults = 0 /\ crashes = 0

Goto(h, label) == pc' = [pc EXCEPT ![h] = label]

(* The version check of optimistic concurrency. *)
ExpectedOrLater(h, v) == v >= req[h].expected
Expected(h, v) == v = req[h].expected

(* Was the last event of the batch inserted? *)
LastInsertEarly(h) == i[h] + 1 >= Len(req[h].ids)
LastInsertLate(h)  == i[h] > Len(req[h].ids)
LastInsert(h)      == i[h] = Len(req[h].ids)

(* A validated append body reaches Store.Append. *)
Receive(h) ==
  /\ pc[h] = "idle" /\ served < MaxRequests
  /\ \E r \in Requests : req' = [req EXCEPT ![h] = r]
  /\ Goto(h, "begin")
  /\ result' = [result EXCEPT ![h] = Pending]
  /\ served' = served + 1
  /\ UNCHANGED <<events, tx, nextSeq, durableSeq, cur, stype, i, gs, faults, crashes>>

Begin(h) ==
  /\ pc[h] = "begin" /\ ConnFree
  /\ Goto(h, "check")
  /\ UNCHANGED <<events, tx, nextSeq, durableSeq, req, cur, stype, i, gs, result,
                 served, faults, crashes>>

(* Append returns: its transaction is over and its locals are gone. *)
Return(h) ==
  /\ tx' = [tx EXCEPT ![h] = {}]
  /\ cur' = [cur EXCEPT ![h] = 0]
  /\ stype' = [stype EXCEPT ![h] = NoType]
  /\ i' = [i EXCEPT ![h] = 0]
  /\ gs' = [gs EXCEPT ![h] = 0]
  /\ UNCHANGED <<req, served, crashes>>

(* The deferred tx.Rollback: the transaction's rows never existed. *)
Rollback(h) ==
  /\ Return(h)
  /\ nextSeq' = SeqAfterRollback
  /\ UNCHANGED <<events, durableSeq>>

(* Append returned an error: the handler answers it. *)
Reject(h, answer) ==
  /\ Rollback(h)
  /\ Goto(h, "idle")
  /\ result' = [result EXCEPT ![h] = answer]

TypeConflict(h) ==
  LET r == req[h] IN
  CurrentVersion(r.tenant, r.stream) > 0 /\ r.stype # NoType
     /\ r.stype # ExistingType(r.tenant, r.stream)

CheckConflict(h) ==
  /\ pc[h] = "check"
  /\ LET v == CurrentVersion(req[h].tenant, req[h].stream)
     IN ~Expected(h, v) /\ Reject(h, Conflict(v))
  /\ UNCHANGED faults

CheckType(h) ==
  /\ pc[h] = "check"
  /\ Expected(h, CurrentVersion(req[h].tenant, req[h].stream))
  /\ TypeConflict(h)
  /\ Reject(h, Refused)
  /\ UNCHANGED faults

CheckPass(h) ==
  /\ pc[h] = "check"
  /\ LET r == req[h]
         v == CurrentVersion(r.tenant, r.stream)
     IN /\ Expected(h, v) /\ ~TypeConflict(h)
        /\ cur' = [cur EXCEPT ![h] = v]
        /\ stype' = [stype EXCEPT ![h] =
                       IF v > 0 THEN ExistingType(r.tenant, r.stream) ELSE r.stype]
  /\ Goto(h, "reserve")
  /\ UNCHANGED <<events, tx, nextSeq, durableSeq, req, i, gs, result,
                 served, faults, crashes>>

(* The INSERT evaluates the global_seq default before it looks at any index. *)
Reserve(h) ==
  /\ pc[h] = "reserve"
  /\ gs' = [gs EXCEPT ![h] = nextSeq]
  /\ nextSeq' = nextSeq + 1
  /\ i' = [i EXCEPT ![h] = i[h] + 1]
  /\ Goto(h, "write")
  /\ UNCHANGED <<events, tx, durableSeq, req, cur, stype, result,
                 served, faults, crashes>>

WriteRow(h) ==
  /\ pc[h] = "write"
  /\ ~Clashes(NewRow(h), events)
  /\ \A g \in Handlers : ~Clashes(NewRow(h), tx[g])
  /\ tx' = [tx EXCEPT ![h] = @ \cup {NewRow(h)}]
  /\ Goto(h, IF LastInsert(h) THEN "commit" ELSE "reserve")
  /\ UNCHANGED <<events, nextSeq, durableSeq, req, cur, stype, i, gs, result,
                 served, faults, crashes>>

(* A UNIQUE violation: roll back, then ask for the stream's version. *)
WriteDuplicate(h) ==
  /\ pc[h] = "write"
  /\ Clashes(NewRow(h), events \cup tx[h])
  /\ Rollback(h)
  /\ Goto(h, "reread")
  /\ UNCHANGED <<result, faults>>

(* Postgres breaks a cycle of waiting transactions by failing one of them;   *)
(* the error is no UNIQUE violation, so the handler panics.                  *)
DeadlockVictim(h) ==
  /\ \E S \in SUBSET Handlers : h \in S /\ WaitCycle(S)
  /\ Reject(h, Failed)
  /\ UNCHANGED faults

Committed(h) ==
  /\ events' = events \cup tx[h]
  /\ durableSeq' = nextSeq

Commit(h) ==
  /\ pc[h] = "commit"
  /\ Committed(h)
  /\ Return(h)
  /\ result' = [result EXCEPT ![h] = [code |-> 200, actual |-> cur[h] + Len(req[h].ids),
                                      rows |-> tx[h]]]
  /\ Goto(h, "reply")
  /\ UNCHANGED <<nextSeq, faults>>

Reply(h) ==
  /\ pc[h] = "reply"
  /\ Goto(h, "idle")
  /\ UNCHANGED <<events, tx, nextSeq, durableSeq, req, cur, stype, i, gs, result,
                 served, faults, crashes>>

Reread(h) ==
  /\ pc[h] = "reread" /\ ConnFree
  /\ result' = [result EXCEPT ![h] =
                  Conflict(CurrentVersion(req[h].tenant, req[h].stream))]
  /\ Goto(h, "idle")
  /\ UNCHANGED <<events, tx, nextSeq, durableSeq, req, cur, stype, i, gs,
                 served, faults, crashes>>

-----------------------------------------------------------------------------
(***************************************************************************)
(* What can go wrong: a statement fails, COMMIT fails, the process dies.   *)
(***************************************************************************)
StatementFails(h) ==
  /\ \/ pc[h] = "begin" /\ ConnFree
     \/ pc[h] \in {"check", "write"}
  /\ faults < MaxFaults
  /\ Reject(h, Failed)
  /\ faults' = faults + 1

(* StreamVersion's error is dropped and its zero value answered. *)
RereadFails(h) ==
  /\ pc[h] = "reread" /\ faults < MaxFaults
  /\ result' = [result EXCEPT ![h] = Conflict(0)]
  /\ Goto(h, "idle")
  /\ faults' = faults + 1
  /\ UNCHANGED <<events, tx, nextSeq, durableSeq, req, cur, stype, i, gs,
                 served, crashes>>

(* COMMIT returns an error.  Over a network the answer alone may be lost:    *)
(* the rows are there and the client is told 500.                            *)
CommitFails(h) ==
  /\ pc[h] = "commit" /\ faults < MaxFaults
  /\ \/ events' = events /\ durableSeq' = durableSeq
     \/ Postgres /\ Committed(h)
  /\ nextSeq' = SeqAfterRollback
  /\ Return(h)
  /\ result' = [result EXCEPT ![h] = Failed]
  /\ Goto(h, "idle")
  /\ faults' = faults + 1

(* The process dies and is started again: open transactions are rolled back, *)
(* requests in hand get no answer, the committed rows stay.                  *)
Crash ==
  /\ crashes < MaxCrashes
  /\ \E h \in Handlers : pc[h] # "idle"
  /\ tx' = [h \in Handlers |-> {}]
  /\ cur' = [h \in Handlers |-> 0]
  /\ stype' = [h \in Handlers |-> NoType]
  /\ i' = [h \in Handlers |-> 0]
  /\ gs' = [h \in Handlers |-> 0]
  /\ nextSeq' = SeqAfterRollback
  /\ result' = [h \in Handlers |-> IF pc[h] = "idle" THEN result[h] ELSE Pending]
  /\ pc' = [h \in Handlers |-> "idle"]
  /\ crashes' = crashes + 1
  /\ UNCHANGED <<events, durableSeq, req, served, faults>>

(* Every bounded request was answered: the behaviour may end here. *)
Quiet == served = MaxRequests /\ (\A h \in Handlers : pc[h] = "idle")
Rest  == Quiet /\ UNCHANGED vars

-----------------------------------------------------------------------------
Step(h) ==
  \/ Begin(h) \/ CheckConflict(h) \/ CheckType(h) \/ CheckPass(h)
  \/ Reserve(h) \/ WriteRow(h) \/ WriteDuplicate(h) \/ DeadlockVictim(h)
  \/ Commit(h) \/ Reply(h) \/ Reread(h)

Fault(h) == StatementFails(h) \/ RereadFails(h) \/ CommitFails(h)

Next == \/ \E h \in Handlers : Receive(h) \/ Step(h) \/ Fault(h)
        \/ Crash \/ Rest

Spec == Init /\ [][Next]_vars

(* Every goroutine with a statement to execute is scheduled, the database    *)
(* answers it, and its deadlock detector runs.                               *)
FairSpec == Spec /\ \A h \in Handlers : WF_vars(Step(h))
-----------------------------------------------------------------------------
(***************************************************************************)
(* Properties.                                                             *)
(***************************************************************************)
TypeOK ==
  /\ events \in SUBSET Row
  /\ tx \in [Handlers -> SUBSET Row]
  /\ nextSeq \in Nat /\ durableSeq \in Nat
  /\ pc \in [Handlers -> {"idle", "begin", "check", "reserve", "write", "commit",
                         "reread", "reply"}]
  /\ req \in [Handlers -> Requests]
  /\ cur \in [Handlers -> Nat]
  /\ stype \in [Handlers -> StreamTypes]
  /\ i \in [Handlers -> Nat]
  /\ \A h \in Handlers : i[h] <= Len(req[h].ids)
  /\ gs \in [Handlers -> Nat]
  /\ result \in [Handlers -> Answer]
  /\ served \in Nat /\ faults \in Nat /\ crashes \in Nat

(* Streams have no holes: whatever handlers race, fail or die, the versions  *)
(* of a stream are 1..n, which is what expectedVersion counts on.            *)
VersionsGapless == log!Gapless(events)

(* The UNIQUE indexes hold and no two events share a globalSeq. *)
IdentityUnique == log!NoClash(events)

(* All events of a stream carry one type: the aggregate of the check and the *)
(* category filters rest on it.                                              *)
OneTypePerStream == log!OneType(events)

(* Within a stream globalSeq and version agree, so a replay in globalSeq     *)
(* order (rebuild, SSE) meets a stream's events in the order they happened,  *)
(* also on Postgres, where transactions interleave.                          *)
SeqFollowsVersion == log!InOrder(events)

Answered(h, code) == pc[h] = "idle" /\ result[h].code = code

(* A 200 is the truth: the whole batch is in the log, right after the        *)
(* version the caller expected, and stays there over crashes.                *)
AckedDurable ==
  \A h \in Handlers : Answered(h, 200) =>
     LET n == Len(req[h].ids)
         e == req[h].expected
     IN /\ result[h].rows \subseteq events
        /\ \A k \in 1..n : \E row \in result[h].rows :
              row.version = e + k /\ row.id = req[h].ids[k]
        /\ result[h].actual = e + n

(* Optimistic concurrency: of the requests that expect the same version of   *)
(* the same stream, one at most is told 200.                                 *)
OneWinner ==
  \A g, h \in Handlers :
     /\ g # h /\ Answered(g, 200) /\ Answered(h, 200)
     /\ req[g].tenant = req[h].tenant /\ req[g].stream = req[h].stream
     => req[g].expected # req[h].expected

(* Whoever loses a race learns what to retry from: a 409 names a version the *)
(* stream reached and the caller did not expect.  Requests with ids of their *)
(* own and the rereads that fail are left out: see ConflictIsNews.           *)
RaceLoserLearns ==
  \A h \in Handlers :
     /\ Answered(h, 409) /\ faults = 0
     /\ \A k \in 1..Len(req[h].ids) : req[h].ids[k] = Generated
     => /\ result[h].actual # req[h].expected
        /\ result[h].actual <= CurrentVersion(req[h].tenant, req[h].stream)

(* The contract of the 409 (openapi.yaml): the answer carries a version to   *)
(* rebase on, so it differs from the one the caller expected.  An event id   *)
(* that exists already breaks it: the UNIQUE(id) violation is answered as a  *)
(* version conflict at the very version the caller sent.                     *)
ConflictIsNews ==
  \A h \in Handlers : Answered(h, 409) => result[h].actual # req[h].expected

(* Commits publish sequence numbers in order: nobody who has seen event n    *)
(* can miss one below n that appears later.  Readers with a globalSeq cursor *)
(* (catch-up, paging, rebuild) count on it.                                  *)
CommitsInSeqOrder ==
  [][\A e \in events' \ events, d \in events : d.seq < e.seq]_vars

(* Every request the server accepts is answered, unless the server dies: no  *)
(* handler waits for ever for the connection, a row lock or a reread.        *)
EveryRequestAnswered ==
  \A h \in Handlers :
     pc[h] = "begin" ~> (pc[h] = "idle" /\ (result[h].code # 0 \/ crashes > 0))

(* The append path implements the append-only log. *)
ImplementsEventLog == log!Spec
=============================================================================
