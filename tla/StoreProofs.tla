---------------------------- MODULE StoreProofs -----------------------------
(***************************************************************************)
(* Theorems about Store, for every set of handlers, tenants, streams, ids  *)
(* and requests, both dialects and every bound.  The inductive invariant   *)
(* IInv says what an open transaction knows of the log while other         *)
(* handlers commit to it.                                                  *)
(***************************************************************************)
EXTENDS Store, TLAPS

(* The rows an open transaction has inserted so far. *)
Done(h) == IF pc[h] = "write" THEN i[h] - 1 ELSE i[h]

Writing(h) == pc[h] \in {"reserve", "write", "commit"}

Mine(h, e) == e.tenant = req[h].tenant /\ e.stream = req[h].stream

(* Outside a transaction nothing is pending; inside, the pending rows are    *)
(* the first Done(h) events of the request at the versions after cur[h].     *)
Shape(h) ==
  /\ ~Writing(h) => tx[h] = {} /\ i[h] = 0
  /\ pc[h] = "reserve" => i[h] < Len(req[h].ids)
  /\ pc[h] = "write" => i[h] > 0
  /\ pc[h] = "commit" => i[h] = Len(req[h].ids)
  /\ Writing(h) => cur[h] = req[h].expected
  /\ \A e \in tx[h] :
        /\ Mine(h, e) /\ e.stype = stype[h]
        /\ \E k \in 1..Done(h) : e.version = cur[h] + k /\ e.id = req[h].ids[k]
  /\ \A k \in 1..Done(h) : \E e \in tx[h] : e.version = cur[h] + k
  /\ \A d, e \in tx[h] : /\ d.version = e.version => d = e
                         /\ d.version < e.version => d.seq < e.seq
  /\ pc[h] = "write" => \A e \in tx[h] : e.seq < gs[h]

(* The events the check counted are in the log, of the type the transaction  *)
(* continues, and older than anything it writes.                             *)
Base(h) ==
  Writing(h) =>
    \A v \in 1..cur[h] : \E e \in events :
      /\ Mine(h, e) /\ e.version = v /\ e.stype = stype[h]
      /\ \A d \in tx[h] : e.seq < d.seq
      /\ pc[h] = "write" => e.seq < gs[h]

(* Pending rows clash with no committed row and no other pending row. *)
Apart(h) ==
  /\ \A e \in tx[h], d \in events : ~log!Clash(d, e) /\ d.seq # e.seq
  /\ \A d, e \in tx[h] : d # e => ~log!Clash(d, e)
  /\ \A g \in Handlers : g # h =>
        \A e \in tx[h], d \in tx[g] : ~log!Clash(d, e) /\ d.seq # e.seq

(* A reserved sequence number is nobody else's. *)
Reserved(h) ==
  /\ \A e \in tx[h] : e.seq < nextSeq
  /\ pc[h] = "write" =>
       /\ gs[h] < nextSeq
       /\ \A d \in events : d.seq # gs[h]
       /\ \A g \in Handlers : g # h =>
             /\ \A d \in tx[g] : d.seq # gs[h]
             /\ pc[g] = "write" => gs[g] # gs[h]

SeqBound ==
  /\ durableSeq <= nextSeq
  /\ \A e \in events : e.seq < durableSeq

(* SQLite: one transaction at a time, and all its numbers are new. *)
OneConn ==
  ~Postgres =>
    /\ \A g, h \in Handlers : InTx(g) /\ InTx(h) => g = h
    /\ \A h \in Handlers :
         /\ \A e \in tx[h] : durableSeq <= e.seq
         /\ pc[h] = "write" => durableSeq <= gs[h]

(* What a 200 says. *)
Acked(h) ==
  result[h].code = 200 =>
    /\ pc[h] \in {"idle", "reply"}
    /\ result[h].rows \subseteq events
    /\ \A row \in result[h].rows : Mine(h, row)
    /\ \A k \in 1..Len(req[h].ids) : \E row \in result[h].rows :
          row.version = req[h].expected + k /\ row.id = req[h].ids[k]
    /\ result[h].actual = req[h].expected + Len(req[h].ids)
    /\ \A g \in Handlers : g # h /\ result[g].code = 200 =>
          result[g].rows \cap result[h].rows = {}

LogInv == log!Gapless(events) /\ log!NoClash(events) /\ log!OneType(events) /\ log!InOrder(events)

IInv ==
  /\ TypeOK
  /\ LogInv
  /\ \A h \in Handlers : Shape(h)
  /\ \A h \in Handlers : Base(h)
  /\ \A h \in Handlers : Apart(h)
  /\ \A h \in Handlers : Reserved(h)
  /\ SeqBound
  /\ OneConn
  /\ \A h \in Handlers : Acked(h)

-----------------------------------------------------------------------------
(***************************************************************************)
(* The steps of Store by what they do to the log and to the transactions.  *)
(***************************************************************************)
Answers(h) ==
  \/ result' = result
  \/ \E a \in Answer : a.code # 200 /\ result' = [result EXCEPT ![h] = a]

(* A handler without pending rows goes on. *)
Move(h) ==
  /\ ~Writing(h)
  /\ UNCHANGED <<events, tx, nextSeq, durableSeq, cur, stype, i, gs>>
  /\ \/ /\ pc[h] = "idle" /\ Goto(h, "begin")
        /\ \E r \in Requests : req' = [req EXCEPT ![h] = r]
        /\ result' = [result EXCEPT ![h] = Pending]
     \/ pc[h] = "begin" /\ ConnFree /\ Goto(h, "check") /\ UNCHANGED <<req, result>>
     \/ pc[h] \in {"reply", "reread"} /\ Goto(h, "idle") /\ req' = req /\ Answers(h)

(* A transaction is rolled back. *)
Abort(h) ==
  /\ pc[h] \in {"begin", "check", "write", "commit"}
  /\ pc[h] = "begin" => ConnFree
  /\ Rollback(h)
  /\ \E l \in {"idle", "reread"} : Goto(h, l)
  /\ Answers(h)

(* A transaction is committed, and its client told so or not. *)
Commits(h) ==
  /\ pc[h] = "commit"
  /\ Committed(h) /\ Return(h) /\ nextSeq' = nextSeq
  /\ \/ Goto(h, "idle") /\ result' = [result EXCEPT ![h] = Failed]
     \/ /\ Goto(h, "reply")
        /\ result' = [result EXCEPT ![h] = [code |-> 200, actual |-> cur[h] + Len(req[h].ids),
                                            rows |-> tx[h]]]

Kinds(h) ==
  Move(h) \/ Abort(h) \/ CheckPass(h) \/ Reserve(h) \/ WriteRow(h) \/ Commits(h)

(* A stream without holes has a current version, and all versions up to it. *)
LEMMA CurrentVersionFacts ==
  ASSUME TypeOK, LogInv, NEW t \in Tenants, NEW s \in Streams
  PROVE  /\ CurrentVersion(t, s) \in Nat
         /\ \A v \in 1..CurrentVersion(t, s) : \E e \in events :
               e.tenant = t /\ e.stream = s /\ e.version = v
<1> DEFINE vs == log!VersionsOf(RowsOf(t, s))
<1>1. PICK n \in {0} \cup vs : vs = 1..n
  BY DEF LogInv, log!Gapless, RowsOf
<1>2. n \in Nat
  BY DEF TypeOK, Row, RowsOf, log!VersionsOf, log!StreamOf
<1>3. n \in {0} \cup vs /\ \A w \in {0} \cup vs : w <= n
  BY <1>1, <1>2
<1>4. \A v \in {0} \cup vs : (\A w \in {0} \cup vs : w <= v) => v = n
  BY <1>1, <1>2, <1>3
<1>5. CurrentVersion(t, s) = n
  BY <1>3, <1>4 DEF CurrentVersion
<1>6. QED
  BY <1>1, <1>2, <1>5 DEF log!VersionsOf, log!StreamOf, RowsOf

LEMMA AnswerTypes ==
  /\ Pending \in Answer /\ Pending.code # 200
  /\ Failed \in Answer /\ Failed.code # 200
  /\ Refused \in Answer /\ Refused.code # 200
  /\ \A v \in Nat : Conflict(v) \in Answer /\ Conflict(v).code # 200
BY DEF Answer, NoRows, Pending, Failed, Refused, Conflict

(* Every step of a handler is of one of these kinds. *)
LEMMA ActiveKinds ==
  ASSUME TypeOK, LogInv, NEW h \in Handlers, Receive(h) \/ Step(h) \/ Fault(h)
  PROVE  Kinds(h)
<1> USE DEF Kinds
<1>1. CASE Receive(h)
  BY <1>1 DEF Receive, Move, Writing, Goto
<1>2. CASE Step(h)
  <2>0. req[h] \in Request /\ req[h].tenant \in Tenants /\ req[h].stream \in Streams
    BY RequestsAssumption DEF TypeOK, Request
  <2> DEFINE v == CurrentVersion(req[h].tenant, req[h].stream)
  <2>v. v \in Nat
    BY <2>0, CurrentVersionFacts
  <2>a. Conflict(v) \in Answer /\ Conflict(v).code # 200
    BY <2>v, AnswerTypes
  <2>1. CASE Begin(h)
    BY <2>1 DEF Begin, Move, Writing, Goto
  <2>2. CASE CheckConflict(h)
    <3>1. Reject(h, Conflict(v)) /\ pc[h] = "check"
      BY <2>2 DEF CheckConflict
    <3>2. Answers(h)
      BY <3>1, <2>a DEF Reject, Answers
    <3>3. QED
      BY <3>1, <3>2 DEF Reject, Abort
  <2>3. CASE CheckType(h)
    BY <2>3, AnswerTypes DEF CheckType, Reject, Abort, Answers
  <2>4. CASE WriteDuplicate(h)
    BY <2>4 DEF WriteDuplicate, Abort, Answers
  <2>5. CASE DeadlockVictim(h)
    <3>1. pc[h] = "write"
      BY <2>5 DEF DeadlockVictim, WaitCycle, Stuck, WaitsFor
    <3>2. QED
      BY <2>5, <3>1, AnswerTypes DEF DeadlockVictim, Reject, Abort, Answers
  <2>6. CASE Commit(h)
    BY <2>6 DEF Commit, Commits
  <2>7. CASE Reply(h)
    BY <2>7 DEF Reply, Move, Writing, Answers
  <2>8. CASE Reread(h)
    <3>1. Answers(h)
      BY <2>8, <2>a DEF Reread, Answers
    <3>2. QED
      BY <2>8, <3>1 DEF Reread, Move, Writing
  <2>9. QED
    BY <1>2, <2>1, <2>2, <2>3, <2>4, <2>5, <2>6, <2>7, <2>8 DEF Step
<1>3. CASE Fault(h)
  <2>1. CASE StatementFails(h)
    BY <2>1, AnswerTypes DEF StatementFails, Reject, Abort, Answers
  <2>2. CASE RereadFails(h)
    <3>1. Answers(h)
      BY <2>2, AnswerTypes DEF RereadFails, Answers
    <3>2. QED
      BY <2>2, <3>1 DEF RereadFails, Move, Writing
  <2>3. CASE CommitFails(h)
    <3>1. Answers(h)
      BY <2>3, AnswerTypes DEF CommitFails, Answers
    <3>2. CASE events' = events /\ durableSeq' = durableSeq
      BY <2>3, <3>1, <3>2 DEF CommitFails, Abort, Rollback
    <3>3. CASE Postgres /\ Committed(h)
      BY <2>3, <3>3 DEF CommitFails, Commits, SeqAfterRollback
    <3>4. QED
      BY <2>3, <3>2, <3>3 DEF CommitFails
  <2>4. QED
    BY <1>3, <2>1, <2>2, <2>3 DEF Fault
<1>4. QED
  BY <1>1, <1>2, <1>3

LEMMA StepKinds ==
  ASSUME TypeOK, LogInv, Next
  PROVE  (\E h \in Handlers : Kinds(h)) \/ Crash \/ UNCHANGED vars
BY ActiveKinds DEF Next, Rest

-----------------------------------------------------------------------------
(***************************************************************************)
(* Each conjunct of IInv is kept by every kind of step.                    *)
(***************************************************************************)
LEMMA ReqFacts ==
  ASSUME TypeOK, NEW h \in Handlers
  PROVE  /\ req[h] \in Request /\ req[h].tenant \in Tenants /\ req[h].stream \in Streams
         /\ req[h].stype \in StreamTypes /\ req[h].expected \in Nat
         /\ Len(req[h].ids) \in Nat /\ Len(req[h].ids) > 0
         /\ \A k \in 1..Len(req[h].ids) : req[h].ids[k] \in Ids
BY RequestsAssumption DEF TypeOK, Request

(* The row an INSERT carries is a row of the table. *)
LEMMA NewRowFacts ==
  ASSUME TypeOK, NEW h \in Handlers, Shape(h), pc[h] = "write"
  PROVE  NewRow(h) \in Row
<1>1. i[h] \in 1..Len(req[h].ids)
  BY ReqFacts DEF TypeOK, Shape
<1>2. gs[h] \in Nat /\ cur[h] + i[h] \in Nat /\ stype[h] \in StreamTypes
  BY DEF TypeOK
<1>3. QED
  BY <1>1, <1>2, ReqFacts DEF NewRow, Row

(* What a check that passes found. *)
LEMMA CheckPassFacts ==
  ASSUME TypeOK, LogInv, NEW h \in Handlers, CheckPass(h)
  PROVE  /\ cur'[h] = req[h].expected /\ cur'[h] \in Nat /\ stype'[h] \in StreamTypes
         /\ \A v \in 1..cur'[h] : \E e \in events :
               Mine(h, e) /\ e.version = v /\ e.stype = stype'[h]
<1> DEFINE t == req[h].tenant
           s == req[h].stream
           v == CurrentVersion(t, s)
<1>1. t \in Tenants /\ s \in Streams /\ req[h].stype \in StreamTypes
  BY ReqFacts
<1>2. v \in Nat /\ \A w \in 1..v : \E e \in events :
         e.tenant = t /\ e.stream = s /\ e.version = w
  BY <1>1, CurrentVersionFacts
<1>3. cur'[h] = v /\ v = req[h].expected
  BY DEF CheckPass, Expected, TypeOK
<1>4. stype'[h] = IF v > 0 THEN ExistingType(t, s) ELSE req[h].stype
  BY DEF CheckPass, TypeOK
<1>5. CASE v = 0
  BY <1>1, <1>3, <1>4, <1>5
<1>6. CASE v > 0
  <2> DEFINE c == CHOOSE e \in RowsOf(t, s) : TRUE
  <2>1. \E e \in RowsOf(t, s) : TRUE
    BY <1>2, <1>6 DEF RowsOf, log!StreamOf
  <2>2. c \in RowsOf(t, s)
    BY <2>1
  <2>3. c \in events /\ c.tenant = t /\ c.stream = s
    BY <2>2 DEF RowsOf, log!StreamOf
  <2>4. stype'[h] = c.stype
    BY <1>4, <1>6 DEF ExistingType
  <2>5. c.stype \in StreamTypes
    BY <2>3 DEF TypeOK, Row
  <2>6. \A e \in events : e.tenant = t /\ e.stream = s => e.stype = c.stype
    BY <2>3 DEF LogInv, log!OneType
  <2>7. QED
    BY <1>2, <1>3, <2>4, <2>5, <2>6 DEF Mine
<1>7. QED
  BY <1>2, <1>5, <1>6

LEMMA TypeStep ==
  ASSUME TypeOK, LogInv, NEW h \in Handlers, Shape(h), Kinds(h),
         served' \in Nat, faults' \in Nat, crashes' \in Nat
  PROVE  TypeOK'
<1> USE DEF TypeOK
<1>n. NoType \in StreamTypes /\ {} \in SUBSET Row
  BY DEF StreamTypes
<1>1. CASE Move(h)
  <2>1. result' \in [Handlers -> Answer]
    BY <1>1, AnswerTypes DEF Move, Answers
  <2>2. pc' \in [Handlers -> {"idle", "begin", "check", "reserve", "write", "commit",
                              "reread", "reply"}]
    BY <1>1 DEF Move, Goto
  <2>3. req' \in [Handlers -> Requests]
    BY <1>1 DEF Move
  <2>4. \A g \in Handlers : i'[g] <= Len(req'[g].ids)
    <3>1. TAKE g \in Handlers
    <3>2. CASE g = h
      <4>1. req'[h] \in Request
        BY <2>3, RequestsAssumption
      <4>2. i'[h] = 0
        BY <1>1 DEF Move, Shape
      <4>3. QED
        BY <3>2, <4>1, <4>2 DEF Request
    <3>3. CASE g # h
      BY <1>1, <3>3 DEF Move
    <3>4. QED
      BY <3>2, <3>3
  <2>5. QED
    BY <1>1, <2>1, <2>2, <2>3, <2>4 DEF Move
<1>2. CASE Abort(h)
  <2>1. result' \in [Handlers -> Answer]
    BY <1>2, ZenonT(60) DEF Abort, Answers
  <2>2. pc' \in [Handlers -> {"idle", "begin", "check", "reserve", "write", "commit",
                              "reread", "reply"}]
    BY <1>2 DEF Abort, Goto
  <2>3. \A g \in Handlers : i'[g] <= Len(req'[g].ids)
    BY <1>2, ReqFacts, SMTT(30) DEF Abort, Rollback, Return
  <2>4. QED
    BY <1>n, <1>2, <2>1, <2>2, <2>3 DEF Abort, Rollback, Return, SeqAfterRollback
<1>3. CASE CheckPass(h)
  <2>1. cur' \in [Handlers -> Nat] /\ stype' \in [Handlers -> StreamTypes]
    BY <1>3, CheckPassFacts DEF CheckPass
  <2>2. QED
    BY <1>3, <2>1 DEF CheckPass, Goto
<1>4. CASE Reserve(h)
  BY <1>4, ReqFacts DEF Reserve, Shape, Goto
<1>5. CASE WriteRow(h)
  <2>1. NewRow(h) \in Row
    BY <1>5, NewRowFacts DEF WriteRow
  <2>2. tx' \in [Handlers -> SUBSET Row]
    BY <1>5, <2>1 DEF WriteRow
  <2>3. QED
    BY <1>5, <2>2 DEF WriteRow, Goto
<1>6. CASE Commits(h)
  <2>1. result' \in [Handlers -> Answer]
    <3>1. [code |-> 200, actual |-> cur[h] + Len(req[h].ids), rows |-> tx[h]] \in Answer
      BY ReqFacts DEF Answer
    <3>2. QED
      BY <1>6, <3>1, AnswerTypes, ZenonT(60) DEF Commits
  <2>2. \A g \in Handlers : i'[g] <= Len(req'[g].ids)
    BY <1>6, ReqFacts DEF Commits, Return
  <2>3. pc' \in [Handlers -> {"idle", "begin", "check", "reserve", "write", "commit",
                              "reread", "reply"}]
    BY <1>6 DEF Commits, Goto
  <2>4. events' \in SUBSET Row /\ durableSeq' \in Nat
    BY <1>6 DEF Commits, Committed
  <2>5. QED
    BY <1>n, <1>6, <2>1, <2>2, <2>3, <2>4 DEF Commits, Return
<1>7. QED
  BY <1>1, <1>2, <1>3, <1>4, <1>5, <1>6 DEF Kinds

(* A step of h leaves the transaction state of the other handlers alone. *)
LEMMA OthersUnchanged ==
  ASSUME TypeOK, NEW h \in Handlers, Kinds(h), NEW g \in Handlers, g # h
  PROVE  /\ tx'[g] = tx[g] /\ pc'[g] = pc[g] /\ req'[g] = req[g] /\ cur'[g] = cur[g]
         /\ stype'[g] = stype[g] /\ i'[g] = i[g] /\ gs'[g] = gs[g]
         /\ result'[g] = result[g]
BY DEF TypeOK, Kinds, Move, Abort, CheckPass, Reserve, WriteRow, Commits, Rollback, Return,
       Goto, Answers

(* After an abort or a commit h holds nothing. *)
LEMMA NothingHeld ==
  ASSUME TypeOK, NEW h \in Handlers, Abort(h) \/ Commits(h)
  PROVE  /\ tx'[h] = {} /\ i'[h] = 0 /\ cur'[h] = 0 /\ req' = req
         /\ pc'[h] \in {"idle", "reread", "reply"}
BY DEF TypeOK, Abort, Commits, Rollback, Return, Goto

LEMMA ShapeStep ==
  ASSUME IInv, NEW h \in Handlers, Kinds(h)
  PROVE  \A g \in Handlers : Shape(g)'
<1>t. TypeOK /\ Shape(h)
  BY DEF IInv
<1>o. ASSUME NEW g \in Handlers, g # h PROVE Shape(g)'
  <2>1. Shape(g)
    BY DEF IInv
  <2>2. QED
    BY <1>t, <1>o, <2>1, OthersUnchanged DEF Shape, Mine, Done, Writing
<1>1. CASE Move(h)
  <2>1. ~Writing(h) /\ ~Writing(h)'
    BY <1>1, <1>t DEF Move, Writing, Goto, TypeOK
  <2>2. tx'[h] = {} /\ i'[h] = 0
    BY <1>1, <1>t, <2>1 DEF Move, Shape
  <2>3. QED
    BY <2>1, <2>2 , <1>o DEF Shape, Writing, Done
<1>2. CASE Abort(h) \/ Commits(h)
  BY <1>2, <1>t, <1>o, NothingHeld DEF Shape, Writing, Done
<1>3. CASE CheckPass(h)
  <2>1. pc[h] = "check" /\ pc'[h] = "reserve" /\ tx'[h] = {} /\ i'[h] = 0 /\ req' = req
    BY <1>3, <1>t DEF CheckPass, Shape, Goto, TypeOK, Writing
  <2>2. cur'[h] = req[h].expected /\ Len(req[h].ids) > 0
    BY <1>3, <1>t, CheckPassFacts, ReqFacts DEF IInv
  <2>3. QED
    BY <2>1, <2>2, <1>o DEF Shape, Writing, Done
<1>4. CASE Reserve(h)
  <2>1. /\ pc[h] = "reserve" /\ pc'[h] = "write" /\ i'[h] = i[h] + 1 /\ gs'[h] = nextSeq
        /\ UNCHANGED <<tx, req, cur, stype>>
    BY <1>4, <1>t DEF Reserve, Goto, TypeOK
  <2>2. i[h] \in Nat /\ Done(h)' = Done(h)
    BY <2>1, <1>t DEF Done, TypeOK
  <2>3. \A e \in tx[h] : e.seq < nextSeq
    BY DEF IInv, Reserved
  <2>4. QED
    BY <1>t, <1>o, <2>1, <2>2, <2>3 DEF Shape, Writing, Mine
<1>5. CASE WriteRow(h)
  <2> DEFINE row == NewRow(h)
             n == i[h]
  <2>1. /\ pc[h] = "write" /\ tx'[h] = tx[h] \cup {row}
        /\ pc'[h] = IF LastInsert(h) THEN "commit" ELSE "reserve"
        /\ UNCHANGED <<req, cur, stype, i, gs>>
    BY <1>5, <1>t DEF WriteRow, Goto, TypeOK
  <2>2. /\ n \in Nat /\ n > 0 /\ n <= Len(req[h].ids) /\ cur[h] \in Nat
        /\ Len(req[h].ids) \in Nat
    BY <2>1, <1>t, ReqFacts DEF Shape, TypeOK
  <2>3. Done(h) = n - 1 /\ Done(h)' = n
    BY <2>1 DEF Done
  <2>4. /\ Mine(h, row) /\ row.stype = stype[h] /\ row.version = cur[h] + n
        /\ row.id = req[h].ids[n] /\ row.seq = gs[h]
    BY DEF NewRow, Mine
  <2>5. \A e \in tx[h] : e.version < row.version /\ e.seq < row.seq /\ e.version \in Nat
    BY <1>t, <2>1, <2>2, <2>3, <2>4 DEF Shape
  <2>6. \A e \in tx'[h] : /\ Mine(h, e) /\ e.stype = stype[h]
                          /\ \E k \in 1..n : e.version = cur[h] + k /\ e.id = req[h].ids[k]
    <3>1. TAKE e \in tx'[h]
    <3>2. CASE e = row
      BY <3>2, <2>2, <2>4
    <3>3. CASE e \in tx[h]
      BY <3>3, <1>t, <2>2, <2>3 DEF Shape
    <3>4. QED
      BY <2>1, <3>2, <3>3
  <2>7. \A k \in 1..n : \E e \in tx'[h] : e.version = cur[h] + k
    <3>1. TAKE k \in 1..n
    <3>2. CASE k = n
      BY <3>2, <2>1, <2>4
    <3>3. CASE k \in 1..(n - 1)
      BY <3>3, <1>t, <2>1, <2>3 DEF Shape
    <3>4. QED
      BY <2>2, <3>2, <3>3
  <2>8. \A d, e \in tx'[h] : /\ d.version = e.version => d = e
                             /\ d.version < e.version => d.seq < e.seq
    <3>1. TAKE d, e \in tx'[h]
    <3>2. CASE d \in tx[h] /\ e \in tx[h]
      BY <3>2, <1>t DEF Shape
    <3>3. CASE d = row \/ e = row
      BY <3>3, <2>1, <2>2, <2>4, <2>5
    <3>4. QED
      BY <2>1, <3>2, <3>3
  <2>9. Writing(h) /\ Writing(h)' /\ cur[h] = req[h].expected
    BY <2>1, <1>t DEF Writing, Shape
  <2>10. /\ pc'[h] # "write"
         /\ pc'[h] = "reserve" => i'[h] < Len(req'[h].ids)
         /\ pc'[h] = "commit" => i'[h] = Len(req'[h].ids)
    BY <2>1, <2>2 DEF LastInsert
  <2>11. \A e \in tx'[h] : Mine(h, e)' /\ e.stype = stype'[h]
    BY <2>1, <2>6 DEF Mine
  <2>12. Shape(h)'
    BY <2>1, <2>3, <2>6, <2>7, <2>8, <2>9, <2>10, <2>11 DEF Shape
  <2>13. QED
    BY <1>o, <2>12
<1>6. QED
  BY <1>1, <1>2, <1>3, <1>4, <1>5 DEF Kinds

LEMMA BaseStep ==
  ASSUME IInv, NEW h \in Handlers, Kinds(h)
  PROVE  \A g \in Handlers : Base(g)'
<1>t. TypeOK /\ LogInv /\ Shape(h) /\ Base(h) /\ SeqBound
  BY DEF IInv
<1>e. events \subseteq events'
  BY DEF Kinds, Move, Abort, CheckPass, Reserve, WriteRow, Commits, Committed, Rollback
<1>o. ASSUME NEW g \in Handlers, g # h PROVE Base(g)'
  <2>1. Base(g)
    BY DEF IInv
  <2>2. QED
    BY <1>t, <1>o, <1>e, <2>1, OthersUnchanged DEF Base, Mine, Writing
<1>1. CASE Move(h)
  <2>1. ~Writing(h)'
    BY <1>1, <1>t DEF Move, Writing, Goto, TypeOK
  <2>2. QED
    BY <2>1, <1>o DEF Base
<1>2. CASE Abort(h) \/ Commits(h)
  BY <1>2, <1>t, <1>o, NothingHeld DEF Base, Writing
<1>3. CASE CheckPass(h)
  <2>1. pc'[h] = "reserve" /\ tx'[h] = {} /\ req' = req /\ events' = events
    BY <1>3, <1>t DEF CheckPass, Shape, Goto, TypeOK, Writing
  <2>2. QED
    BY <1>3, <1>o, <1>t, <2>1, CheckPassFacts DEF Base, Mine
<1>4. CASE Reserve(h)
  <2>1. /\ pc[h] = "reserve" /\ pc'[h] = "write" /\ gs'[h] = nextSeq
        /\ UNCHANGED <<events, tx, req, cur, stype>>
    BY <1>4, <1>t DEF Reserve, Goto, TypeOK
  <2>2. \A e \in events : e.seq < nextSeq
    BY <1>t DEF SeqBound, TypeOK, Row
  <2>3. QED
    BY <1>o, <1>t, <2>1, <2>2 DEF Base, Mine, Writing
<1>5. CASE WriteRow(h)
  <2>1. /\ pc[h] = "write" /\ tx'[h] = tx[h] \cup {NewRow(h)}
        /\ pc'[h] \in {"commit", "reserve"}
        /\ UNCHANGED <<events, req, cur, stype>>
    BY <1>5, <1>t DEF WriteRow, Goto, TypeOK
  <2>2. NewRow(h).seq = gs[h]
    BY DEF NewRow
  <2>3. QED
    BY <1>o, <1>t, <2>1, <2>2 DEF Base, Mine, Writing
<1>6. QED
  BY <1>1, <1>2, <1>3, <1>4, <1>5 DEF Kinds

LEMMA ApartStep ==
  ASSUME IInv, NEW h \in Handlers, Kinds(h)
  PROVE  \A g \in Handlers : Apart(g)'
<1>t. TypeOK /\ Shape(h) /\ \A g \in Handlers : Apart(g) /\ Reserved(g)
  BY DEF IInv
<1>a. tx \in [Handlers -> SUBSET Row]
  BY <1>t DEF TypeOK
<1>1. CASE Move(h) \/ CheckPass(h) \/ Reserve(h)
  <2>1. events' = events /\ tx' = tx
    BY <1>1 DEF Move, CheckPass, Reserve
  <2>2. QED
    BY <1>t, <2>1 DEF Apart
<1>2. CASE Abort(h)
  <2>1. events' = events /\ tx' = [tx EXCEPT ![h] = {}]
    BY <1>2 DEF Abort, Rollback, Return
  <2>2. QED
    BY <1>t, <1>a, <2>1 DEF Apart
<1>3. CASE WriteRow(h)
  <2> DEFINE row == NewRow(h)
  <2>1. /\ pc[h] = "write" /\ events' = events
        /\ tx' = [tx EXCEPT ![h] = tx[h] \cup {row}]
    BY <1>3 DEF WriteRow
  <2>2. \A d \in events : ~log!Clash(d, row) /\ d.seq # row.seq
    BY <1>3, <1>t, <2>1 DEF WriteRow, Clashes, Reserved, NewRow
  <2>3. \A g \in Handlers : \A d \in tx[g] : ~log!Clash(d, row) /\ ~log!Clash(row, d)
    BY <1>3 DEF WriteRow, Clashes, log!Clash
  <2>4. \A g \in Handlers : g # h => \A d \in tx[g] : d.seq # row.seq
    BY <1>t, <2>1 DEF Reserved, NewRow
  <2>5. \A g \in Handlers : g # h => tx'[g] = tx[g]
    BY <1>a, <2>1
  <2>6. tx'[h] = tx[h] \cup {row}
    BY <1>a, <2>1
  <2>7. Apart(h)'
    BY <1>t, <2>1, <2>2, <2>3, <2>4, <2>5, <2>6 DEF Apart
  <2>8. ASSUME NEW g \in Handlers, g # h PROVE Apart(g)'
    BY <1>t, <2>1, <2>3, <2>4, <2>5, <2>6, <2>8 DEF Apart
  <2>9. QED
    BY <2>7, <2>8
<1>4. CASE Commits(h)
  <2>1. events' = events \cup tx[h] /\ tx' = [tx EXCEPT ![h] = {}]
    BY <1>4 DEF Commits, Committed, Return
  <2>2. Apart(h)'
    BY <1>a, <2>1 DEF Apart
  <2>3. ASSUME NEW g \in Handlers, g # h PROVE Apart(g)'
    <3>1. Apart(g) /\ tx'[g] = tx[g]
      BY <1>a, <1>t, <2>1, <2>3
    <3>2. \A e \in tx[g], d \in events' : ~log!Clash(d, e) /\ d.seq # e.seq
      BY <2>1, <2>3, <3>1 DEF Apart
    <3>3. QED
      BY <1>a, <2>1, <3>1, <3>2 DEF Apart
  <2>4. QED
    BY <2>2, <2>3
<1>5. QED
  BY <1>1, <1>2, <1>3, <1>4 DEF Kinds

(* A rollback on SQLite returns the sequence to where the others still are. *)
LEMMA AbortAlone ==
  ASSUME IInv, NEW h \in Handlers, Abort(h), ~Postgres
  PROVE  \A g \in Handlers : g # h => tx[g] = {} /\ pc[g] # "write"
<1>1. TypeOK /\ OneConn /\ \A g \in Handlers : Shape(g)
  BY DEF IInv
<1>2. \A g \in Handlers : g # h => ~InTx(g)
  BY <1>1 DEF Abort, ConnFree, OneConn, InTx
<1>3. QED
  BY <1>1, <1>2 DEF InTx, Shape, Writing

LEMMA ReservedStep ==
  ASSUME IInv, NEW h \in Handlers, Kinds(h)
  PROVE  \A g \in Handlers : Reserved(g)'
<1>t. TypeOK /\ Shape(h) /\ SeqBound /\ \A g \in Handlers : Apart(g) /\ Reserved(g)
  BY DEF IInv
<1>a. /\ tx \in [Handlers -> SUBSET Row] /\ nextSeq \in Nat /\ durableSeq \in Nat
      /\ events \in SUBSET Row /\ gs \in [Handlers -> Nat]
  BY <1>t DEF TypeOK
<1>s. \A r \in Row : r.seq \in Nat
  BY DEF Row
<1>1. CASE Move(h) \/ CheckPass(h)
  <2>1. /\ events' = events /\ tx' = tx /\ nextSeq' = nextSeq /\ gs' = gs
        /\ pc'[h] # "write"
        /\ \A g \in Handlers : g # h => pc'[g] = pc[g]
    BY <1>1, <1>t DEF Move, CheckPass, Goto, TypeOK
  <2>2. QED
    BY <1>t, <2>1 DEF Reserved
<1>2. CASE Abort(h)
  <2>1. /\ events' = events /\ tx'[h] = {} /\ pc'[h] # "write"
        /\ nextSeq' = IF Postgres THEN nextSeq ELSE durableSeq
    BY <1>2, <1>t, NothingHeld DEF Abort, Rollback, SeqAfterRollback
  <2>2. CASE Postgres
    <3>1. nextSeq' = nextSeq
      BY <2>1, <2>2
    <3>2. QED
      BY <1>2, <1>t, <2>1, <3>1, OthersUnchanged DEF Reserved, Kinds
  <2>3. CASE ~Postgres
    BY <1>2, <1>t, <2>1, <2>3, OthersUnchanged, AbortAlone DEF Reserved, Kinds
  <2>4. QED
    BY <2>2, <2>3
<1>3. CASE Reserve(h)
  <2>1. /\ events' = events /\ tx' = tx /\ nextSeq' = nextSeq + 1
        /\ gs'[h] = nextSeq
        /\ \A g \in Handlers : g # h => pc'[g] = pc[g] /\ gs'[g] = gs[g]
    BY <1>3, <1>t DEF Reserve, Goto, TypeOK
  <2>2. \A d \in events : d.seq < nextSeq
    BY <1>a, <1>s, <1>t DEF SeqBound
  <2>3. Reserved(h)'
    BY <1>a, <1>s, <1>t, <2>1, <2>2 DEF Reserved
  <2>4. ASSUME NEW g \in Handlers, g # h PROVE Reserved(g)'
    BY <1>a, <1>s, <1>t, <2>1, <2>4 DEF Reserved
  <2>5. QED
    BY <2>3, <2>4
<1>4. CASE WriteRow(h)
  <2>1. /\ pc[h] = "write" /\ events' = events /\ nextSeq' = nextSeq /\ gs' = gs
        /\ tx'[h] = tx[h] \cup {NewRow(h)} /\ pc'[h] # "write"
        /\ \A g \in Handlers : g # h => pc'[g] = pc[g] /\ tx'[g] = tx[g]
    BY <1>4, <1>t DEF WriteRow, Goto, TypeOK
  <2>2. NewRow(h).seq = gs[h]
    BY DEF NewRow
  <2>3. Reserved(h)'
    BY <1>t, <2>1, <2>2 DEF Reserved
  <2>4. ASSUME NEW g \in Handlers, g # h PROVE Reserved(g)'
    BY <1>t, <2>1, <2>2, <2>4 DEF Reserved
  <2>5. QED
    BY <2>3, <2>4
<1>5. CASE Commits(h)
  <2>1. /\ events' = events \cup tx[h] /\ nextSeq' = nextSeq
        /\ tx'[h] = {} /\ pc'[h] # "write"
    BY <1>5, <1>t, NothingHeld DEF Commits, Committed
  <2>2. Reserved(h)'
    BY <2>1 DEF Reserved
  <2>3. ASSUME NEW g \in Handlers, g # h PROVE Reserved(g)'
    <3>1. tx'[g] = tx[g] /\ pc'[g] = pc[g] /\ gs'[g] = gs[g]
      BY <1>5, <1>t, <2>3, OthersUnchanged DEF Kinds
    <3>2. \A k \in Handlers : k # g /\ k # h =>
             tx'[k] = tx[k] /\ pc'[k] = pc[k] /\ gs'[k] = gs[k]
      BY <1>5, <1>t, OthersUnchanged DEF Kinds
    <3>3. QED
      BY <1>t, <2>1, <2>3, <3>1, <3>2 DEF Reserved
  <2>4. QED
    BY <2>2, <2>3
<1>6. QED
  BY <1>1, <1>2, <1>3, <1>4, <1>5 DEF Kinds

LEMMA SeqBoundStep ==
  ASSUME IInv, NEW h \in Handlers, Kinds(h)
  PROVE  SeqBound'
<1>t. TypeOK /\ SeqBound /\ Reserved(h)
  BY DEF IInv
<1>a. nextSeq \in Nat /\ durableSeq \in Nat /\ events \in SUBSET Row /\ tx[h] \in SUBSET Row
  BY <1>t DEF TypeOK
<1>s. \A r \in Row : r.seq \in Nat
  BY DEF Row
<1>1. CASE Move(h) \/ CheckPass(h) \/ WriteRow(h)
  BY <1>1, <1>t DEF Move, CheckPass, WriteRow, SeqBound
<1>2. CASE Abort(h)
  BY <1>2, <1>a, <1>t DEF Abort, Rollback, SeqAfterRollback, SeqBound
<1>3. CASE Reserve(h)
  BY <1>3, <1>a, <1>t DEF Reserve, SeqBound
<1>4. CASE Commits(h)
  <2>1. events' = events \cup tx[h] /\ durableSeq' = nextSeq /\ nextSeq' = nextSeq
    BY <1>4 DEF Commits, Committed
  <2>2. \A e \in events \cup tx[h] : e.seq < nextSeq
    BY <1>a, <1>s, <1>t DEF SeqBound, Reserved
  <2>3. QED
    BY <1>a, <2>1, <2>2 DEF SeqBound
<1>5. QED
  BY <1>1, <1>2, <1>3, <1>4 DEF Kinds

LEMMA OneConnStep ==
  ASSUME IInv, NEW h \in Handlers, Kinds(h)
  PROVE  OneConn'
<1> SUFFICES ASSUME ~Postgres PROVE OneConn'
  BY DEF OneConn
<1>t. TypeOK /\ Shape(h) /\ SeqBound /\ OneConn /\ \A g \in Handlers : Shape(g)
  BY DEF IInv
<1>a. nextSeq \in Nat /\ durableSeq \in Nat /\ durableSeq <= nextSeq
  BY <1>t DEF TypeOK, SeqBound
<1>o. \A g \in Handlers : g # h =>
         tx'[g] = tx[g] /\ pc'[g] = pc[g] /\ gs'[g] = gs[g] /\ (InTx(g)' <=> InTx(g))
  BY <1>t, OthersUnchanged DEF InTx
<1>i. (\A g, k \in Handlers : InTx(g) /\ InTx(k) => g = k)
        /\ (\A g \in Handlers : /\ \A e \in tx[g] : durableSeq <= e.seq
                                /\ pc[g] = "write" => durableSeq <= gs[g])
  BY <1>t DEF OneConn
<1>1. CASE Move(h)
  <2>1. durableSeq' = durableSeq /\ tx' = tx /\ pc'[h] # "write" /\ gs' = gs
    BY <1>1, <1>t DEF Move, Goto, TypeOK
  <2>2. InTx(h)' => \A g \in Handlers : ~InTx(g)
    BY <1>1, <1>t DEF Move, Goto, TypeOK, InTx, ConnFree
  <2>3. QED
    BY <1>i, <1>o, <2>1, <2>2 DEF OneConn
<1>2. CASE Abort(h)
  <2>1. durableSeq' = durableSeq /\ tx'[h] = {} /\ pc'[h] # "write" /\ ~InTx(h)'
    BY <1>2, <1>t, NothingHeld DEF Abort, Rollback, InTx
  <2>2. QED
    BY <1>i, <1>o, <2>1 DEF OneConn
<1>3. CASE CheckPass(h) \/ Reserve(h) \/ WriteRow(h)
  <2>1. InTx(h)
    BY <1>3 DEF CheckPass, Reserve, WriteRow, InTx
  <2>2. durableSeq' = durableSeq
    BY <1>3 DEF CheckPass, Reserve, WriteRow
  <2>3. \A e \in tx'[h] : e \in tx[h] \/ (pc[h] = "write" /\ e.seq = gs[h])
    BY <1>3, <1>t DEF CheckPass, Reserve, WriteRow, NewRow, TypeOK
  <2>4. pc'[h] = "write" => gs'[h] = nextSeq
    BY <1>3, <1>t DEF CheckPass, Reserve, WriteRow, Goto, TypeOK
  <2>5. QED
    BY <1>a, <1>i, <1>o, <2>1, <2>2, <2>3, <2>4 DEF OneConn
<1>4. CASE Commits(h)
  <2>1. InTx(h) /\ ~InTx(h)' /\ tx'[h] = {} /\ pc'[h] # "write"
    BY <1>4, <1>t, NothingHeld DEF Commits, InTx
  <2>2. \A g \in Handlers : g # h => ~InTx(g)
    BY <1>i, <2>1
  <2>3. \A g \in Handlers : g # h => tx[g] = {} /\ pc[g] # "write"
    BY <2>2, <1>t DEF InTx, Shape, Writing
  <2>4. QED
    BY <1>o, <2>1, <2>2, <2>3 DEF OneConn
<1>5. QED
  BY <1>1, <1>2, <1>3, <1>4 DEF Kinds

LEMMA AckedStep ==
  ASSUME IInv, NEW h \in Handlers, Kinds(h)
  PROVE  \A g \in Handlers : Acked(g)'
<1>t. TypeOK /\ Shape(h) /\ Apart(h) /\ \A g \in Handlers : Acked(g)
  BY DEF IInv
<1>e. events \subseteq events'
  BY DEF Kinds, Move, Abort, CheckPass, Reserve, WriteRow, Commits, Committed, Rollback
<1>r. result \in [Handlers -> Answer]
  BY <1>t DEF TypeOK
<1>o. \A g \in Handlers : g # h =>
         result'[g] = result[g] /\ req'[g] = req[g] /\ pc'[g] = pc[g]
  BY <1>t, OthersUnchanged
<1>1. CASE result'[h].code # 200
  BY <1>1, <1>e, <1>o, <1>t DEF Acked, Mine
<1>2. CASE result'[h].code = 200 /\ ~Commits(h)
  <2>1. result' = result
    BY <1>2, <1>r, AnswerTypes DEF Kinds, Move, Abort, CheckPass, Reserve, WriteRow, Answers
  <2>2. pc[h] \in {"idle", "reply"}
    BY <1>2, <1>t, <2>1 DEF Acked
  <2>3. Move(h)
    BY <1>2, <2>2 DEF Kinds, Abort, CheckPass, Reserve, WriteRow
  <2>4. pc[h] = "reply"
    BY <1>2, <1>r, <2>2, <2>3, AnswerTypes DEF Move
  <2>5. pc'[h] = "idle" /\ req' = req /\ events' = events
    BY <1>t, <2>3, <2>4 DEF Move, Goto, TypeOK
  <2>6. QED
    BY <1>o, <1>t, <2>1, <2>5 DEF Acked, Mine
<1>3. CASE result'[h].code = 200 /\ Commits(h)
  <2> DEFINE answer == [code |-> 200, actual |-> cur[h] + Len(req[h].ids), rows |-> tx[h]]
  <2>1. result'[h] = answer /\ pc'[h] = "reply" /\ req' = req
        /\ events' = events \cup tx[h]
    BY <1>3, <1>r, <1>t, AnswerTypes DEF Commits, Committed, Return, Goto, TypeOK
  <2>2. pc[h] = "commit" /\ Done(h) = Len(req[h].ids) /\ cur[h] = req[h].expected
    BY <1>3, <1>t DEF Commits, Shape, Done, Writing
  <2>3. tx[h] \cap events = {}
    BY <1>t DEF Apart, log!Clash
  <2>4. \A g \in Handlers : g # h /\ result'[g].code = 200 =>
           result'[g].rows \cap tx[h] = {}
    BY <1>o, <1>t, <2>3 DEF Acked
  <2>5. \A k \in 1..Len(req[h].ids) : \E row \in tx[h] :
           row.version = req[h].expected + k /\ row.id = req[h].ids[k]
    <3>1. TAKE k \in 1..Len(req[h].ids)
    <3>2. PICK row \in tx[h] : row.version = cur[h] + k
      BY <1>t, <2>2 DEF Shape
    <3>3. PICK j \in 1..Len(req[h].ids) : row.version = cur[h] + j /\ row.id = req[h].ids[j]
      BY <1>t, <2>2 DEF Shape
    <3>4. j = k
      BY <3>2, <3>3, <1>t, ReqFacts DEF TypeOK
    <3>5. QED
      BY <2>2, <3>2, <3>3, <3>4
  <2>6. \A row \in tx[h] : Mine(h, row)
    BY <1>t DEF Shape
  <2>7. Acked(h)'
    BY <2>1, <2>2, <2>4, <2>5, <2>6 DEF Acked, Mine
  <2>8. ASSUME NEW g \in Handlers, g # h PROVE Acked(g)'
    <3>1. result'[g] = result[g] /\ req'[g] = req[g] /\ pc'[g] = pc[g] /\ Acked(g)
      BY <1>o, <1>t, <2>8
    <3>2. \A k \in Handlers : k # g /\ k # h => result'[k] = result[k]
      BY <1>o
    <3>3. result'[g].code = 200 => result'[h].rows \cap result'[g].rows = {}
      BY <2>1, <2>4, <2>8
    <3>4. QED
      BY <1>e, <3>1, <3>2, <3>3, <2>1, <2>8 DEF Acked, Mine
  <2>9. QED
    BY <2>7, <2>8
<1>4. QED
  BY <1>1, <1>2, <1>3

(* What a COMMIT finds: nobody appended to the stream since the check, so    *)
(* the batch continues it.                                                   *)
LEMMA CommitFindsStream ==
  ASSUME IInv, NEW h \in Handlers, pc[h] = "commit"
  PROVE  LET old == log!VersionsOf(RowsOf(req[h].tenant, req[h].stream))
             n   == cur[h]
             m   == cur[h] + Len(req[h].ids)
         IN /\ n \in Nat /\ m \in Nat /\ n < m
            /\ old = 1..n /\ log!VersionsOf(tx[h]) = (n + 1)..m
            /\ n \in {0} \cup old /\ m \in log!VersionsOf(tx[h])
            /\ \A e \in tx[h] : Mine(h, e)
            /\ tx[h] # {} /\ tx[h] \cap events = {}
<1> DEFINE t == req[h].tenant
           s == req[h].stream
           old == log!VersionsOf(RowsOf(t, s))
           n == cur[h]
           len == Len(req[h].ids)
<1>t. TypeOK /\ LogInv /\ Shape(h) /\ Base(h) /\ Apart(h)
  BY DEF IInv
<1>1. t \in Tenants /\ s \in Streams /\ len \in Nat /\ len > 0 /\ n \in Nat
  BY <1>t, ReqFacts DEF TypeOK
<1>2. Done(h) = len /\ Writing(h)
  BY <1>t DEF Shape, Done, Writing
<1>3. PICK v \in {0} \cup old : old = 1..v
  BY <1>1, <1>t DEF LogInv, log!Gapless, RowsOf
<1>4. v \in Nat
  BY <1>t DEF TypeOK, Row, log!VersionsOf, log!StreamOf, RowsOf
<1>5. \A w \in 1..n : w \in old
  BY <1>t, <1>2 DEF Base, Mine, log!VersionsOf, log!StreamOf, RowsOf
<1>6. n <= v
  BY <1>1, <1>3, <1>4, <1>5
<1>7. \A k \in 1..len : \E e \in tx[h] : e.version = n + k
  BY <1>t, <1>2 DEF Shape
<1>8. \A e \in tx[h] : Mine(h, e) /\ \E k \in 1..len : e.version = n + k
  BY <1>t, <1>2 DEF Shape
<1>9. ~(n < v)
  <2> SUFFICES ASSUME n < v PROVE FALSE
    OBVIOUS
  <2>1. n + 1 \in old
    BY <1>1, <1>3, <1>4
  <2>2. PICK d \in events : d.tenant = t /\ d.stream = s /\ d.version = n + 1
    BY <2>1 DEF log!VersionsOf, log!StreamOf, RowsOf
  <2>3. PICK e \in tx[h] : e.version = n + 1
    BY <1>1, <1>7
  <2>4. log!Clash(d, e)
    BY <1>8, <2>2, <2>3 DEF log!Clash, Mine
  <2>5. QED
    BY <1>t, <2>4 DEF Apart
<1>10. n = v
  BY <1>1, <1>4, <1>6, <1>9
<1>11. log!VersionsOf(tx[h]) = (n + 1)..(n + len)
  <2>1. \A w \in log!VersionsOf(tx[h]) : w \in (n + 1)..(n + len)
    BY <1>1, <1>8 DEF log!VersionsOf
  <2>2. ASSUME NEW w \in (n + 1)..(n + len) PROVE w \in log!VersionsOf(tx[h])
    <3>1. w - n \in 1..len /\ n + (w - n) = w
      BY <1>1
    <3>2. PICK e \in tx[h] : e.version = n + (w - n)
      BY <1>7, <3>1
    <3>3. QED
      BY <3>1, <3>2 DEF log!VersionsOf
  <2>3. QED
    BY <2>1, <2>2
<1>12. n + len \in log!VersionsOf(tx[h])
  BY <1>1, <1>11
<1>13. tx[h] \cap events = {}
  BY <1>t DEF Apart, log!Clash
<1>14. tx[h] # {}
  BY <1>1, <1>7
<1>15. QED
  BY <1>1, <1>3, <1>8, <1>10, <1>11, <1>12, <1>13, <1>14

LEMMA LogStep ==
  ASSUME IInv, NEW h \in Handlers, Kinds(h)
  PROVE  LogInv'
<1>t. TypeOK /\ LogInv /\ Shape(h) /\ Base(h) /\ Apart(h)
  BY DEF IInv
<1>1. CASE ~Commits(h)
  <2>1. events' = events
    BY <1>1 DEF Kinds, Move, Abort, CheckPass, Reserve, WriteRow, Rollback
  <2>2. QED
    BY <1>t, <2>1 DEF LogInv, log!Gapless, log!NoClash, log!OneType, log!InOrder
<1>2. CASE Commits(h)
  <2> DEFINE t == req[h].tenant
             s == req[h].stream
             n == cur[h]
             m == cur[h] + Len(req[h].ids)
  <2>1. events' = events \cup tx[h] /\ pc[h] = "commit"
    BY <1>2 DEF Commits, Committed
  <2>2. /\ n \in Nat /\ m \in Nat /\ n < m
        /\ log!VersionsOf(RowsOf(t, s)) = 1..n
        /\ log!VersionsOf(tx[h]) = (n + 1)..m
        /\ \A e \in tx[h] : Mine(h, e)
    BY <2>1, CommitFindsStream
  <2>3. log!Gapless(events)'
    <3>1. ASSUME NEW u \in Tenants, NEW r \in Streams
          PROVE  LET vs == log!VersionsOf(log!StreamOf(events', u, r))
                 IN  \E k \in {0} \cup vs : vs = 1..k
      <4>1. CASE u = t /\ r = s
        <5>1. log!VersionsOf(log!StreamOf(events', t, s)) = 1..n \cup (n + 1)..m
          BY <2>1, <2>2 DEF log!VersionsOf, log!StreamOf, RowsOf, Mine
        <5>2. 1..n \cup (n + 1)..m = 1..m /\ m \in 1..m
          BY <2>2
        <5>3. QED
          BY <4>1, <5>1, <5>2
      <4>2. CASE ~(u = t /\ r = s)
        <5>1. log!StreamOf(events', u, r) = log!StreamOf(events, u, r)
          BY <2>1, <2>2, <4>2 DEF log!StreamOf, Mine
        <5>2. QED
          BY <1>t, <5>1 DEF LogInv, log!Gapless
      <4>3. QED
        BY <4>1, <4>2
    <3>2. QED
      BY <3>1 DEF log!Gapless
  <2>4. log!NoClash(events)'
    <3>1. \A d, e \in tx[h] : d # e => d.seq # e.seq
      <4>1. TAKE d, e \in tx[h]
      <4>2. d.version \in Nat /\ e.version \in Nat /\ d.seq \in Nat /\ e.seq \in Nat
        BY <1>t DEF TypeOK, Row
      <4>3. d # e => d.version < e.version \/ e.version < d.version
        BY <1>t, <4>2 DEF Shape
      <4>4. QED
        BY <1>t, <4>2, <4>3 DEF Shape
    <3>2. \A d, e \in tx[h] : d # e => ~log!Clash(d, e)
      BY <1>t DEF Apart
    <3>3. \A d \in events, e \in tx[h] :
             /\ ~log!Clash(d, e) /\ ~log!Clash(e, d) /\ d.seq # e.seq
      BY <1>t DEF Apart, log!Clash
    <3>4. QED
      BY <1>t, <2>1, <3>1, <3>2, <3>3 DEF LogInv, log!NoClash
  <2>5. \A d \in events, e \in tx[h] : d.tenant = e.tenant /\ d.stream = e.stream =>
           d.stype = e.stype /\ d.seq < e.seq /\ d.version < e.version
    <3>1. SUFFICES ASSUME NEW d \in events, NEW e \in tx[h],
                          d.tenant = e.tenant, d.stream = e.stream
                   PROVE  d.stype = e.stype /\ d.seq < e.seq /\ d.version < e.version
      OBVIOUS
    <3>2. d.tenant = t /\ d.stream = s
      BY <2>2, <3>1 DEF Mine
    <3>3. d.version \in 1..n
      BY <2>2, <3>2 DEF log!VersionsOf, log!StreamOf, RowsOf
    <3>4. PICK c \in events : /\ Mine(h, c) /\ c.version = d.version /\ c.stype = stype[h]
                              /\ \A w \in tx[h] : c.seq < w.seq
      BY <1>t, <2>1, <3>3 DEF Base, Writing
    <3>5. c = d
      BY <1>t, <3>2, <3>4 DEF LogInv, log!NoClash, log!Clash, Mine
    <3>6. e.version \in (n + 1)..m
      BY <2>2 DEF log!VersionsOf
    <3>7. QED
      BY <1>t, <2>2, <3>3, <3>4, <3>5, <3>6 DEF Shape
  <2>6. log!OneType(events)'
    BY <1>t, <2>1, <2>5 DEF LogInv, log!OneType, Shape
  <2>7. log!InOrder(events)'
    <3>1. \A d \in events, e \in tx[h] : d.version \in Nat /\ e.version \in Nat
      BY <1>t DEF TypeOK, Row
    <3>2. \A d \in events, e \in tx[h] :
             d.tenant = e.tenant /\ d.stream = e.stream => ~(e.version < d.version)
      BY <2>5, <3>1
    <3>3. \A d, e \in tx[h] : d.version < e.version => d.seq < e.seq
      BY <1>t DEF Shape
    <3>4. QED
      BY <1>t, <2>1, <2>5, <3>2, <3>3 DEF LogInv, log!InOrder
  <2>8. QED
    BY <2>3, <2>4, <2>6, <2>7 DEF LogInv
<1>3. QED
  BY <1>1, <1>2

(* A crash keeps the committed events and forgets the open transactions. *)
LEMMA CrashStep ==
  ASSUME IInv, Crash
  PROVE  IInv'
<1>t. TypeOK /\ LogInv /\ SeqBound /\ \A h \in Handlers : Acked(h)
  BY DEF IInv
<1>1. /\ events' = events /\ durableSeq' = durableSeq /\ req' = req
      /\ nextSeq' = IF Postgres THEN nextSeq ELSE durableSeq
      /\ \A h \in Handlers : /\ tx'[h] = {} /\ pc'[h] = "idle" /\ i'[h] = 0
                             /\ result'[h] = IF pc[h] = "idle" THEN result[h] ELSE Pending
  BY DEF Crash, SeqAfterRollback
<1>2. TypeOK'
  <2>1. result' \in [Handlers -> Answer]
    BY <1>t, AnswerTypes DEF Crash, TypeOK
  <2>2. crashes' \in Nat /\ NoType \in StreamTypes
    BY <1>t DEF Crash, TypeOK, StreamTypes
  <2>3. \A h \in Handlers : i'[h] <= Len(req'[h].ids)
    BY <1>t, <1>1, ReqFacts
  <2>4. QED
    BY <1>t, <2>1, <2>2, <2>3 DEF Crash, TypeOK, SeqAfterRollback
<1>3. LogInv'
  BY <1>t, <1>1 DEF LogInv, log!Gapless, log!NoClash, log!OneType, log!InOrder
<1>4. \A h \in Handlers : Shape(h)' /\ Base(h)' /\ Apart(h)' /\ Reserved(h)'
  BY <1>1 DEF Shape, Base, Apart, Reserved, Writing, Done
<1>5. SeqBound'
  BY <1>t, <1>1 DEF SeqBound, TypeOK
<1>6. OneConn'
  BY <1>1 DEF OneConn, InTx
<1>7. \A h \in Handlers : Acked(h)'
  BY <1>t, <1>1, AnswerTypes DEF Acked, Mine
<1>8. QED
  BY <1>2, <1>3, <1>4, <1>5, <1>6, <1>7 DEF IInv

LEMMA InitIInv == Init => IInv
<1> SUFFICES ASSUME Init PROVE IInv
  OBVIOUS
<1>1. TypeOK
  <2>1. \A h \in Handlers : req[h] \in Requests /\ req[h] \in Request
    BY RequestsAssumption DEF Init
  <2>2. \A r \in Request : Len(r.ids) \in Nat /\ 0 <= Len(r.ids)
    BY DEF Request
  <2>3. \A h \in Handlers : i[h] <= Len(req[h].ids)
    <3>1. TAKE h \in Handlers
    <3>2. i[h] = 0
      BY DEF Init
    <3>3. QED
      BY <2>1, <2>2, <3>2
  <2>4. QED
    BY <2>1, <2>3, AnswerTypes DEF Init, TypeOK, StreamTypes
<1>2. LogInv
  BY DEF Init, LogInv, log!Gapless, log!NoClash, log!OneType, log!InOrder,
         log!VersionsOf, log!StreamOf
<1>3. ASSUME NEW h \in Handlers PROVE Shape(h) /\ Base(h) /\ Apart(h) /\ Reserved(h)
  <2>1. pc[h] = "idle" /\ tx[h] = {} /\ i[h] = 0
    BY DEF Init
  <2>2. QED
    BY <2>1 DEF Shape, Base, Apart, Reserved, Writing, Done
<1>4. SeqBound /\ OneConn
  BY DEF Init, SeqBound, OneConn, InTx
<1>5. \A h \in Handlers : Acked(h)
  BY AnswerTypes DEF Init, Acked
<1>6. QED
  BY <1>1, <1>2, <1>3, <1>4, <1>5 DEF IInv

(* The counters of the bounds count. *)
LEMMA CountersStep ==
  ASSUME TypeOK, Next
  PROVE  served' \in Nat /\ faults' \in Nat /\ crashes' \in Nat
<1>t. served \in Nat /\ faults \in Nat /\ crashes \in Nat
  BY DEF TypeOK
<1> USE <1>t
<1>1. ASSUME NEW h \in Handlers, Receive(h) PROVE served' \in Nat /\ faults' \in Nat /\ crashes' \in Nat
  BY <1>1 DEF Receive
<1>2. ASSUME NEW h \in Handlers, Step(h) PROVE served' \in Nat /\ faults' \in Nat /\ crashes' \in Nat
  <2>1. CASE Begin(h) \/ CheckPass(h) \/ Reserve(h) \/ WriteRow(h) \/ Reply(h) \/ Reread(h)
    BY <2>1 DEF Begin, CheckPass, Reserve, WriteRow, Reply, Reread
  <2>2. CASE CheckConflict(h) \/ CheckType(h) \/ WriteDuplicate(h) \/ DeadlockVictim(h)
    BY <2>2 DEF CheckConflict, CheckType, WriteDuplicate, DeadlockVictim, Reject, Rollback, Return
  <2>3. CASE Commit(h)
    BY <2>3 DEF Commit, Return
  <2>4. QED
    BY <1>2, <2>1, <2>2, <2>3 DEF Step
<1>3. ASSUME NEW h \in Handlers, Fault(h) PROVE served' \in Nat /\ faults' \in Nat /\ crashes' \in Nat
  BY <1>3 DEF Fault, StatementFails, RereadFails, CommitFails, Reject, Rollback, Return
<1>4. CASE Crash
  BY <1>4 DEF Crash
<1>5. CASE Rest
  BY <1>5 DEF Rest, vars
<1>6. QED
  BY <1>1, <1>2, <1>3, <1>4, <1>5 DEF Next

LEMMA NextIInv == IInv /\ [Next]_vars => IInv'
<1> SUFFICES ASSUME IInv, [Next]_vars PROVE IInv'
  OBVIOUS
<1>1. CASE UNCHANGED vars
  BY <1>1 DEF vars, IInv, TypeOK, LogInv, Shape, Base, Apart, Reserved, SeqBound, OneConn,
     Acked, Writing, Done, Mine, InTx, log!Gapless, log!NoClash, log!OneType, log!InOrder
<1>2. CASE Crash
  BY <1>2, CrashStep
<1>3. ASSUME NEW h \in Handlers, Kinds(h), Next PROVE IInv'
  <2>1. served' \in Nat /\ faults' \in Nat /\ crashes' \in Nat
    BY <1>3, CountersStep DEF IInv
  <2>2. TypeOK'
    BY <1>3, <2>1, TypeStep DEF IInv
  <2>3. QED
    BY <1>3, <2>2, LogStep, ShapeStep, BaseStep, ApartStep, ReservedStep, SeqBoundStep,
       OneConnStep, AckedStep DEF IInv
<1>4. QED
  BY <1>1, <1>2, <1>3, StepKinds DEF IInv

(* The inductive invariant holds in every reachable state. *)
THEOREM StoreInvariant == Spec => []IInv
<1>1. QED
  BY InitIInv, NextIInv, PTL DEF Spec

(* Every variable keeps its type, an INSERT never runs past the batch. *)
THEOREM StoreTypeOK == Spec => []TypeOK
<1>1. IInv => TypeOK
  BY DEF IInv
<1>2. QED
  BY <1>1, StoreInvariant, PTL

(* No stream ever has a hole or a version twice (store.go: cur + i + 1 under  *)
(* the UNIQUE index), for any number of handlers on either dialect.           *)
THEOREM StoreGapless == Spec => []VersionsGapless
<1>1. IInv => VersionsGapless
  BY DEF IInv, LogInv, VersionsGapless
<1>2. QED
  BY <1>1, StoreInvariant, PTL

(* A stream keeps the type of its first event. *)
THEOREM StoreOneType == Spec => []OneTypePerStream
<1>1. IInv => OneTypePerStream
  BY DEF IInv, LogInv, OneTypePerStream
<1>2. QED
  BY <1>1, StoreInvariant, PTL

(* No id, no position in a stream and no globalSeq is given twice. *)
THEOREM StoreIdentityUnique == Spec => []IdentityUnique
<1>1. IInv => IdentityUnique
  BY DEF IInv, LogInv, IdentityUnique
<1>2. QED
  BY <1>1, StoreInvariant, PTL

(* globalSeq orders the events of a stream as their versions do. *)
THEOREM StoreSeqFollowsVersion == Spec => []SeqFollowsVersion
<1>1. IInv => SeqFollowsVersion
  BY DEF IInv, LogInv, SeqFollowsVersion
<1>2. QED
  BY <1>1, StoreInvariant, PTL

(* A 200 answers for the whole batch, at the versions the caller named. *)
THEOREM StoreAckedDurable == Spec => []AckedDurable
<1>1. IInv => AckedDurable
  BY DEF IInv, Acked, AckedDurable, Answered
<1>2. QED
  BY <1>1, StoreInvariant, PTL

(* Two requests that expect the same version of a stream never both win. *)
THEOREM StoreOneWinner == Spec => []OneWinner
<1>1. IInv => OneWinner
  <2> SUFFICES ASSUME IInv, NEW g \in Handlers, NEW h \in Handlers, g # h,
                      Answered(g, 200), Answered(h, 200),
                      req[g].tenant = req[h].tenant, req[g].stream = req[h].stream,
                      req[g].expected = req[h].expected
               PROVE  FALSE
    BY DEF OneWinner
  <2>1. TypeOK /\ LogInv /\ Acked(g) /\ Acked(h)
    BY DEF IInv
  <2>2. 1 \in 1..Len(req[g].ids) /\ 1 \in 1..Len(req[h].ids)
    BY <2>1, ReqFacts
  <2>3. PICK d \in result[g].rows : d.version = req[g].expected + 1
    BY <2>1, <2>2 DEF Acked, Answered
  <2>4. PICK e \in result[h].rows : e.version = req[h].expected + 1
    BY <2>1, <2>2 DEF Acked, Answered
  <2>5. d \in events /\ e \in events /\ log!Clash(d, e)
    BY <2>1, <2>3, <2>4 DEF Acked, Answered, Mine, log!Clash
  <2>6. d # e
    BY <2>1, <2>3, <2>4 DEF Acked, Answered
  <2>7. QED
    BY <2>1, <2>5, <2>6 DEF LogInv, log!NoClash
<1>2. QED
  BY <1>1, StoreInvariant, PTL

(* On SQLite commits appear in globalSeq order. On Postgres they do not.      *)
THEOREM SQLiteCommitsInSeqOrder ==
  ASSUME ~Postgres
  PROVE  Spec => CommitsInSeqOrder
<1>1. IInv /\ [Next]_vars =>
        [\A e \in events' \ events, d \in events : d.seq < e.seq]_vars
  <2> SUFFICES ASSUME IInv, Next, NEW e \in events' \ events, NEW d \in events
               PROVE  d.seq < e.seq
    OBVIOUS
  <2>1. TypeOK /\ LogInv /\ SeqBound /\ OneConn
    BY DEF IInv
  <2>2. PICK h \in Handlers : e \in tx[h]
    <3>1. CASE Crash
      BY <3>1 DEF Crash
    <3>2. CASE UNCHANGED vars
      BY <3>2 DEF vars
    <3>3. ASSUME NEW h \in Handlers, Kinds(h) PROVE e \in tx[h]
      BY <3>3 DEF Kinds, Move, Abort, CheckPass, Reserve, WriteRow, Commits, Committed, Rollback
    <3>4. QED
      BY <2>1, <3>1, <3>2, <3>3, StepKinds
  <2>3. durableSeq <= e.seq /\ d.seq < durableSeq
    BY <2>1, <2>2 DEF OneConn, SeqBound
  <2>4. d.seq \in Nat /\ e.seq \in Nat /\ durableSeq \in Nat
    BY <2>1, <2>2 DEF TypeOK, Row
  <2>5. QED
    BY <2>3, <2>4
<1>2. QED
  BY <1>1, StoreInvariant, PTL DEF Spec, CommitsInSeqOrder

(* The append path implements EventLog: every step of a handler appends one  *)
(* whole batch to the end of one stream, or leaves the log alone.            *)
THEOREM StoreImplementsEventLog == Spec => ImplementsEventLog
<1>1. Init => log!Init
  BY DEF Init, log!Init
<1>2. IInv /\ IInv' /\ [Next]_vars => [log!Next]_events
  <2> SUFFICES ASSUME IInv, IInv', [Next]_vars, events' # events
               PROVE  log!Next
    OBVIOUS
  <2>0. TypeOK /\ LogInv /\ LogInv'
    BY DEF IInv
  <2>1. PICK h \in Handlers : Kinds(h)
    BY <2>0, StepKinds DEF vars, Crash
  <2>2. Commits(h)
    BY <2>1 DEF Kinds, Move, Abort, CheckPass, Reserve, WriteRow, Rollback
  <2>3. events' = events \cup tx[h] /\ pc[h] = "commit"
    BY <2>2 DEF Commits, Committed
  <2> DEFINE t == req[h].tenant
             s == req[h].stream
             n == cur[h]
             m == cur[h] + Len(req[h].ids)
             old == log!VersionsOf(RowsOf(t, s))
  <2>4. /\ old = 1..n /\ log!VersionsOf(tx[h]) = (n + 1)..m
        /\ n \in {0} \cup old /\ m \in log!VersionsOf(tx[h])
        /\ \A e \in tx[h] : Mine(h, e)
        /\ tx[h] # {} /\ tx[h] \cap events = {}
    BY <2>3, CommitFindsStream
  <2>5. events' \ events = tx[h] /\ events \subseteq events'
    BY <2>3, <2>4
  <2>6. log!StreamOf(tx[h], t, s) = tx[h]
    BY <2>4 DEF log!StreamOf, Mine
  <2>7. t \in Tenants /\ s \in Streams
    BY <2>0, ReqFacts
  <2>8. log!Append(t, s)
    BY <2>0, <2>4, <2>5, <2>6 DEF log!Append, LogInv, RowsOf
  <2>9. QED
    BY <2>7, <2>8 DEF log!Next
<1>3. QED
  BY <1>1, <1>2, StoreInvariant, PTL DEF Spec, ImplementsEventLog, log!Spec

-----------------------------------------------------------------------------
(***************************************************************************)
(* What a 409 tells its client.                                            *)
(***************************************************************************)
Unnamed(h) == \A k \in 1..Len(req[h].ids) : req[h].ids[k] = Generated
Reached(h) == result[h].actual = 0 \/ \E e \in events : Mine(h, e) /\ e.version = result[h].actual

(* A handler that lost its race rereads a stream that went past what it      *)
(* expected, and a 409 names a version the stream has reached.               *)
Loser(h) ==
  /\ result[h].code = 409 => pc[h] = "idle"
  /\ Unnamed(h) /\ pc[h] = "reread"
       => \E e \in events : Mine(h, e) /\ e.version > req[h].expected
  /\ Unnamed(h) /\ result[h].code = 409 /\ faults = 0
       => result[h].actual # req[h].expected /\ Reached(h)

LEMMA CurrentVersionBound ==
  ASSUME TypeOK, LogInv, NEW t \in Tenants, NEW s \in Streams,
         NEW e \in events, e.tenant = t, e.stream = s
  PROVE  e.version <= CurrentVersion(t, s)
<1> DEFINE vs == log!VersionsOf(RowsOf(t, s))
<1>1. PICK n \in {0} \cup vs : vs = 1..n
  BY DEF LogInv, log!Gapless, RowsOf
<1>2. \A v \in {0} \cup vs : v \in Nat
  BY DEF TypeOK, Row, log!VersionsOf, log!StreamOf, RowsOf
<1>3. n \in {0} \cup vs /\ \A w \in {0} \cup vs : w <= n
  BY <1>1, <1>2
<1>4. \A w \in {0} \cup vs : w <= CurrentVersion(t, s)
  BY <1>3 DEF CurrentVersion
<1>5. e.version \in vs
  BY DEF log!VersionsOf, log!StreamOf, RowsOf
<1> QED
  BY <1>4, <1>5

(* Nothing a handler was told is taken back by the steps of the others. *)
LEMMA LoserKept ==
  ASSUME NEW h \in Handlers, Loser(h), events \subseteq events', faults' = 0 => faults = 0,
         req'[h] = req[h], result'[h] = result[h], pc'[h] = pc[h]
  PROVE  Loser(h)'
BY DEF Loser, Unnamed, Reached, Mine

LEMMA LoserStep ==
  ASSUME IInv, Next, \A h \in Handlers : Loser(h)
  PROVE  \A g \in Handlers : Loser(g)'
<1>t. TypeOK /\ LogInv /\ \A h \in Handlers : Shape(h)
  BY DEF IInv
<1>1. CASE Crash
  <2> SUFFICES ASSUME NEW h \in Handlers PROVE Loser(h)'
    OBVIOUS
  <2>1. /\ events' = events /\ req' = req /\ faults' = faults /\ pc'[h] = "idle"
        /\ result'[h] = IF pc[h] = "idle" THEN result[h] ELSE Pending
    BY <1>1 DEF Crash
  <2> QED
    BY <2>1, AnswerTypes DEF Loser, Unnamed, Reached, Mine, Pending, NoRows
<1>2. CASE Rest
  BY <1>2, LoserKept DEF Rest, vars
<1>3. ASSUME NEW h \in Handlers, Receive(h) \/ Step(h) \/ Fault(h)
      PROVE  \A g \in Handlers : Loser(g)'
  <2>1. Kinds(h)
    <3>1. ASSUME Receive(h) PROVE Kinds(h)
      BY <3>1 DEF Kinds, Receive, Move, Writing, Goto
    <3> QED
      BY <1>3, <3>1, <1>t, ActiveKinds
  <2>2. events \subseteq events'
    BY <2>1 DEF Kinds, Move, Abort, CheckPass, Reserve, WriteRow, Commits, Committed, Rollback
  <2>3. faults' = 0 => faults = 0
    <3>1. faults \in Nat
      BY <1>t DEF TypeOK
    <3> QED
      BY <1>3, <3>1 DEF Receive, Step, Fault, Begin, CheckConflict, CheckType, CheckPass, Reserve,
         WriteRow, WriteDuplicate, DeadlockVictim, Commit, Reply, Reread, StatementFails,
         RereadFails, CommitFails
  <2>4. ASSUME NEW g \in Handlers, g # h PROVE Loser(g)'
    BY <1>t, <2>1, <2>2, <2>3, <2>4, OthersUnchanged, LoserKept
  <2>5. Loser(h)'
    <3>1. CASE Receive(h)
      BY <1>t, <3>1 DEF Receive, Goto, TypeOK, Loser, Pending, NoRows
    <3>2. CASE Begin(h) \/ CheckPass(h) \/ Reserve(h) \/ WriteRow(h)
      <4>1. result' = result /\ pc[h] # "idle" /\ pc'[h] \notin {"idle", "reread"}
        BY <1>t, <3>2 DEF Begin, CheckPass, Reserve, WriteRow, Goto, TypeOK
      <4> QED
        BY <4>1 DEF Loser
    <3>3. CASE CheckConflict(h)
      <4> DEFINE v == CurrentVersion(req[h].tenant, req[h].stream)
      <4>1. /\ v # req[h].expected /\ pc'[h] = "idle" /\ req' = req /\ events' = events
            /\ result'[h] = Conflict(v)
        BY <1>t, <3>3 DEF CheckConflict, Expected, Reject, Rollback, Return, Goto, TypeOK
      <4>2. v \in Nat /\ (v = 0 \/ \E e \in events : Mine(h, e) /\ e.version = v)
        <5>1. v \in Nat /\ \A w \in 1..v : \E e \in events :
                e.tenant = req[h].tenant /\ e.stream = req[h].stream /\ e.version = w
          BY <1>t, ReqFacts, CurrentVersionFacts
        <5>2. v = 0 \/ v \in 1..v
          BY <5>1
        <5> QED
          BY <5>1, <5>2 DEF Mine
      <4>3. result'[h].code = 409 /\ result'[h].actual = v
        BY <4>1 DEF Conflict, NoRows
      <4> HIDE DEF v
      <4> QED
        BY <4>1, <4>2, <4>3 DEF Loser, Reached, Mine
    <3>4. CASE CheckType(h) \/ DeadlockVictim(h) \/ StatementFails(h) \/ CommitFails(h)
      <4>1. pc'[h] = "idle" /\ result'[h] \in {Refused, Failed}
        BY <1>t, <3>4 DEF CheckType, DeadlockVictim, StatementFails, CommitFails, Reject, Goto, TypeOK
      <4>2. result'[h].code # 409
        BY <4>1 DEF Refused, Failed, NoRows
      <4> QED
        BY <4>1, <4>2 DEF Loser
    <3>5. CASE WriteDuplicate(h)
      <4>1. /\ pc[h] = "write" /\ pc'[h] = "reread" /\ events' = events /\ req' = req
            /\ result' = result
        BY <1>t, <3>5 DEF WriteDuplicate, Rollback, Return, Goto, TypeOK
      <4>2. ASSUME Unnamed(h)
            PROVE  \E e \in events : Mine(h, e) /\ e.version > req[h].expected
        <5>1. PICK e \in events \cup tx[h] : log!Clash(e, NewRow(h))
          BY <3>5 DEF WriteDuplicate, Clashes
        <5>2. i[h] \in 1..Len(req[h].ids) /\ cur[h] = req[h].expected /\ cur[h] \in Nat
          BY <1>t, <4>1, ReqFacts DEF TypeOK, Shape, Writing
        <5>3. Mine(h, e) /\ e.version = cur[h] + i[h]
          BY <4>2, <5>1, <5>2 DEF log!Clash, NewRow, Unnamed, Mine
        <5>4. e \notin tx[h]
          BY <1>t, <4>1, <5>2, <5>3 DEF Shape, Done
        <5> QED
          BY <5>1, <5>2, <5>3, <5>4
      <4> QED
        BY <4>1, <4>2 DEF Loser, Unnamed, Mine
    <3>6. CASE Commit(h)
      <4>1. result'[h].code = 200 /\ pc'[h] = "reply"
        BY <1>t, <3>6 DEF Commit, Goto, TypeOK
      <4> QED
        BY <4>1 DEF Loser
    <3>7. CASE Reply(h)
      <4>1. result' = result /\ pc[h] = "reply" /\ pc'[h] = "idle"
        BY <1>t, <3>7 DEF Reply, Goto, TypeOK
      <4> QED
        BY <4>1 DEF Loser
    <3>8. CASE Reread(h)
      <4> DEFINE v == CurrentVersion(req[h].tenant, req[h].stream)
      <4>1. /\ pc[h] = "reread" /\ pc'[h] = "idle" /\ req' = req /\ events' = events
            /\ result'[h] = Conflict(v)
        BY <1>t, <3>8 DEF Reread, Goto, TypeOK
      <4>2. v \in Nat /\ (v = 0 \/ \E e \in events : Mine(h, e) /\ e.version = v)
        <5>1. v \in Nat /\ \A w \in 1..v : \E e \in events :
                e.tenant = req[h].tenant /\ e.stream = req[h].stream /\ e.version = w
          BY <1>t, ReqFacts, CurrentVersionFacts
        <5>2. v = 0 \/ v \in 1..v
          BY <5>1
        <5> QED
          BY <5>1, <5>2 DEF Mine
      <4>3. result'[h].code = 409 /\ result'[h].actual = v
        BY <4>1 DEF Conflict, NoRows
      <4>4. Unnamed(h) => v # req[h].expected
        <5> SUFFICES ASSUME Unnamed(h) PROVE v # req[h].expected
          OBVIOUS
        <5>1. PICK e \in events : Mine(h, e) /\ e.version > req[h].expected
          BY <4>1 DEF Loser
        <5>2. e.version <= v
          BY <1>t, <5>1, ReqFacts, CurrentVersionBound DEF Mine
        <5>3. e.version \in Nat /\ req[h].expected \in Nat
          BY <1>t, ReqFacts DEF TypeOK, Row
        <5> QED
          BY <4>2, <5>1, <5>2, <5>3
      <4> HIDE DEF v
      <4> QED
        BY <4>1, <4>2, <4>3, <4>4 DEF Loser, Reached, Mine, Unnamed
    <3>9. CASE RereadFails(h)
      <4>1. pc'[h] = "idle" /\ faults' # 0
        BY <1>t, <3>9 DEF RereadFails, Goto, TypeOK
      <4> QED
        BY <4>1 DEF Loser
    <3> QED
      BY <1>3, <3>1, <3>2, <3>3, <3>4, <3>5, <3>6, <3>7, <3>8, <3>9 DEF Step, Fault
  <2> QED
    BY <2>4, <2>5
<1> QED
  BY <1>1, <1>2, <1>3 DEF Next

(* A client that lost a race is told a version its stream reached and that   *)
(* differs from the one it expected.                                         *)
THEOREM StoreRaceLoserLearns == Spec => []RaceLoserLearns
<1>1. Init => \A h \in Handlers : Loser(h)
  <2> SUFFICES ASSUME Init, NEW h \in Handlers PROVE Loser(h)
    OBVIOUS
  <2>1. result[h].code = 0 /\ pc[h] = "idle"
    BY DEF Init, Pending, NoRows
  <2> QED
    BY <2>1 DEF Loser
<1>2. IInv /\ (\A h \in Handlers : Loser(h)) /\ [Next]_vars => (\A h \in Handlers : Loser(h))'
  <2> SUFFICES ASSUME IInv, \A h \in Handlers : Loser(h), [Next]_vars
               PROVE  (\A h \in Handlers : Loser(h))'
    OBVIOUS
  <2>1. CASE UNCHANGED vars
    BY <2>1, LoserKept DEF vars
  <2> QED
    BY <2>1, LoserStep
<1>3. IInv /\ (\A h \in Handlers : Loser(h)) => RaceLoserLearns
  <2> SUFFICES ASSUME IInv, NEW h \in Handlers, Loser(h), Answered(h, 409), faults = 0, Unnamed(h)
               PROVE  /\ result[h].actual # req[h].expected
                      /\ result[h].actual <= CurrentVersion(req[h].tenant, req[h].stream)
    BY DEF RaceLoserLearns, Unnamed
  <2>1. result[h].actual # req[h].expected /\ Reached(h)
    BY DEF Loser, Answered
  <2>2. CurrentVersion(req[h].tenant, req[h].stream) \in Nat
    BY ReqFacts, CurrentVersionFacts DEF IInv
  <2>3. \A e \in events : Mine(h, e) => e.version <= CurrentVersion(req[h].tenant, req[h].stream)
    BY ReqFacts, CurrentVersionBound DEF IInv, Mine
  <2> QED
    BY <2>1, <2>2, <2>3 DEF Reached
<1>4. Spec => [](\A h \in Handlers : Loser(h))
  BY <1>1, <1>2, StoreInvariant, PTL DEF Spec
<1> QED
  BY <1>3, <1>4, StoreInvariant, PTL
=============================================================================
