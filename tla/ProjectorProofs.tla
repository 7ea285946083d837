-------------------------- MODULE ProjectorProofs ---------------------------
(***************************************************************************)
(* Proofs about Projector, for any definitions over any tables, any number *)
(* of handlers and rebuilds, any batches and any failures.  First what the *)
(* tables can hold at all (IInv: types, and a source for every row), then  *)
(* what they do hold (FInv: sums, latest events and the folds yet to come).*)
(***************************************************************************)
EXTENDS Projector, FiniteSetTheorems, WellFoundedInduction, TLAPS

Views   == [Tables -> [Tenants -> [Ids -> Row]]]
Reasons == {"stale", "shuffled", "crossed", "shared"}
Doubts  == [Tables -> [Tenants -> SUBSET Reasons]]

(* The log and the tables are well typed. *)
DataInv ==
  /\ log \in Seq(Event) /\ Len(log) <= MaxEvents
  /\ tableOf \in Layouts
  /\ view \in Views

(* An append handler folds events that its projections have rules for. *)
FoldInv ==
  /\ todo \in [Handlers -> SUBSET ((1..Len(log)) \X Projections)]
  /\ \A h \in Handlers : \A job \in todo[h] : HasRule(job[2], log[job[1]])

(* A rebuild replays one projection, by what that can fold for the tenant. *)
RebuildInv ==
  /\ queue \in [Rebuilders -> SUBSET Projections]
  /\ cur \in [Rebuilders -> SUBSET Projections]
  /\ snap \in [Rebuilders -> 0..Len(log)]
  /\ replay \in [Rebuilders -> SUBSET (1..Len(log))]
  /\ \A r \in Rebuilders :
       /\ cur[r] = {} => replay[r] = {}
       /\ \A p, q \in cur[r] : p = q
       /\ \A p \in cur[r] : replay[r] \subseteq FoldedEvents(p, TenantOf[r])

HistoryInv ==
  /\ heals \in [Rebuilders -> SUBSET Projections]
  /\ doubt \in Doubts
  /\ failures \in 0..MaxFailures

(* Event s, of tenant t, has been folded by p into row id of table b, if     *)
(* anything has.                                                             *)
Source(b, t, id, p, s) ==
  /\ p \in In(b) /\ s \in FoldedEvents(p, t)
  /\ RowId(p, log[s]) = id /\ RuleFor(p, log[s]).op = "upsert"

(* What a row says, some event says: that it is there, the value that was    *)
(* set last, and that something was counted.                                 *)
SourcedRow(b, t, id, row) ==
  /\ row.live => \E p \in Projections : \E s \in 1..Len(log) : Source(b, t, id, p, s)
  /\ row.last # 0 => \E p \in Projections :
                        Source(b, t, id, p, row.last) /\ RuleFor(p, log[row.last]).set
  /\ row.total # 0 => \E p \in Projections : \E s \in 1..Len(log) :
                        Source(b, t, id, p, s) /\ RuleFor(p, log[s]).inc

RowsHaveSources ==
  \A b \in Tables, t \in Tenants, id \in Ids : SourcedRow(b, t, id, view[b][t][id])

IInv == DataInv /\ FoldInv /\ RebuildInv /\ HistoryInv /\ RowsHaveSources

-----------------------------------------------------------------------------
(* Every replay that is not over has a next event. *)
LEMMA FirstIn ==
  ASSUME NEW S, S \subseteq Nat, S # {}
  PROVE  First(S) \in S /\ \A d \in S : First(S) <= d
<1> DEFINE R == OpToRel(<, Nat)
<1>1. PICK s \in S : \A d \in S : ~ (<<d, s>> \in R)
  <2>1. IsWellFoundedOn(R, Nat)
    BY NatLessThanWellFounded
  <2> HIDE DEF R
  <2> QED
    BY <2>1, WFMin
<1>2. \A d \in S : d < s => <<d, s>> \in R
  BY DEF OpToRel
<1>3. \A d \in S : ~ (d < s)
  <2> HIDE DEF R
  <2> QED
    BY <1>1, <1>2
<1>4. \A d \in S : s <= d
  BY <1>3
<1> QED
  BY <1>4 DEF First

(* What one statement of a fold needs of the event it folds. *)
LEMMA FoldFacts ==
  ASSUME DataInv, NEW p \in Projections, NEW s \in 1..Len(log),
         HasRule(p, log[s]), Foldable(p, log[s])
  PROVE  /\ log[s] \in Event /\ log[s].tenant \in Tenants
         /\ tableOf[p] \in Tables
         /\ RowId(p, log[s]) \in Ids
         /\ RuleFor(p, log[s]) \in Rule
         /\ RuleFor(p, log[s]).op \in {"upsert", "delete"}
         /\ (RuleFor(p, log[s]).op = "upsert" /\ RuleFor(p, log[s]).inc => log[s].amount \in Int)
         /\ s \in FoldedEvents(p, log[s].tenant)
<1>1. log[s] \in Event
  BY DEF DataInv
<1>2. tableOf \in [Projections -> Tables]
  BY ProjectorAssumption DEF DataInv
<1>3. log[s].type \in Types /\ log[s].tenant \in Tenants /\ log[s].stream \in Ids
      /\ log[s].key \in Ids \cup {Absent} /\ log[s].amount \in Int \cup {Absent}
  BY <1>1 DEF Event
<1>4. RuleFor(p, log[s]) \in Rule
  BY <1>3, ProjectorAssumption DEF RuleFor
<1>5. RuleFor(p, log[s]).op \in {"upsert", "delete"}
  BY <1>4 DEF HasRule, Rule
<1>6. RowId(p, log[s]) \in Ids
  BY <1>3 DEF RowId, Foldable
<1>7. RuleFor(p, log[s]).op = "upsert" /\ RuleFor(p, log[s]).inc => log[s].amount \in Int
  BY <1>3 DEF Foldable
<1> QED
  BY <1>1, <1>2, <1>3, <1>4, <1>5, <1>6, <1>7 DEF FoldedEvents

(* The row a fold leaves. *)
NewRow(p, s) ==
  LET old == view[tableOf[p]][log[s].tenant][RowId(p, log[s])]
  IN IF RuleFor(p, log[s]).op = "delete" THEN NoRow
     ELSE Upsert(RuleFor(p, log[s]), old, s, log[s].amount)

(* A fold writes one row of one table, for one tenant. *)
LEMMA AppliedRows ==
  ASSUME DataInv, NEW p \in Projections, NEW s \in 1..Len(log),
         HasRule(p, log[s]), Foldable(p, log[s])
  PROVE  /\ Applied(p, s) \in Views
         /\ \A b \in Tables, t \in Tenants, id \in Ids :
              Applied(p, s)[b][t][id] =
                IF b = tableOf[p] /\ t = log[s].tenant /\ id = RowId(p, log[s])
                THEN NewRow(p, s) ELSE view[b][t][id]
         /\ NewRow(p, s) \in Row
<1> DEFINE b0 == tableOf[p]
           t0 == log[s].tenant
           i0 == RowId(p, log[s])
           rule == RuleFor(p, log[s])
           old == view[b0][t0][i0]
<1>1. b0 \in Tables /\ t0 \in Tenants /\ i0 \in Ids /\ rule \in Rule
      /\ (rule.op = "upsert" /\ rule.inc => log[s].amount \in Int)
      /\ rule.op \in {"upsert", "delete"} /\ s \in Nat
  BY FoldFacts
<1>2. view \in Views
  BY DEF DataInv
<1>3. old \in Row
  BY <1>1, <1>2 DEF Views
<1>4. NewRow(p, s) \in Row
  <2>1. CASE rule.op = "delete"
    BY <2>1 DEF NewRow, NoRow, Row
  <2>2. CASE rule.op = "upsert"
    <3>1. rule.inc => old.total + log[s].amount \in Int
      <4>1. old.total \in Int /\ (rule.inc => log[s].amount \in Int)
        BY <2>2, <1>1, <1>3 DEF Row
      <4> QED
        BY <4>1
    <3>2. Upsert(rule, old, s, log[s].amount) \in Row
      BY <3>1, <1>1, <1>3 DEF Upsert, Row
    <3> QED
      BY <3>2, <2>2 DEF NewRow
  <2> QED
    BY <2>1, <2>2, <1>1
<1>5. ApplyTo(p, view[b0][t0], s) = [view[b0][t0] EXCEPT ![i0] = NewRow(p, s)]
  BY DEF ApplyTo, NewRow
<1>6. Applied(p, s) = [view EXCEPT ![b0] = [view[b0] EXCEPT ![t0] =
                         [view[b0][t0] EXCEPT ![i0] = NewRow(p, s)]]]
  BY <1>5 DEF Applied
<1> HIDE DEF b0, t0, i0, rule, old
<1>7. [view[b0][t0] EXCEPT ![i0] = NewRow(p, s)] \in [Ids -> Row]
  BY <1>1, <1>2, <1>4 DEF Views
<1>8. [view[b0] EXCEPT ![t0] = [view[b0][t0] EXCEPT ![i0] = NewRow(p, s)]] \in [Tenants -> [Ids -> Row]]
  BY <1>1, <1>2, <1>7 DEF Views
<1>9. Applied(p, s) \in Views
  BY <1>1, <1>2, <1>6, <1>8 DEF Views
<1>10. ASSUME NEW b \in Tables, NEW t \in Tenants, NEW id \in Ids
       PROVE  Applied(p, s)[b][t][id] =
                IF b = b0 /\ t = t0 /\ id = i0 THEN NewRow(p, s) ELSE view[b][t][id]
  BY <1>1, <1>2, <1>6 DEF Views
<1> QED
  BY <1>4, <1>9, <1>10 DEF b0, t0, i0

(* Nothing of the log or of the tables' layout changes. *)
LEMMA SameLog ==
  ASSUME UNCHANGED <<log, tableOf>>
  PROVE  /\ \A p, e : /\ HasRule(p, e)' = HasRule(p, e) /\ Foldable(p, e)' = Foldable(p, e)
                      /\ RuleFor(p, e)' = RuleFor(p, e) /\ RowId(p, e)' = RowId(p, e)
         /\ \A p, t : FoldedEvents(p, t)' = FoldedEvents(p, t)
         /\ \A b, t, id, p, s : Source(b, t, id, p, s)' = Source(b, t, id, p, s)
         /\ \A b, t, id, row : SourcedRow(b, t, id, row)' = SourcedRow(b, t, id, row)
<1>1. \A p, e : /\ HasRule(p, e)' = HasRule(p, e) /\ Foldable(p, e)' = Foldable(p, e)
                /\ RuleFor(p, e)' = RuleFor(p, e) /\ RowId(p, e)' = RowId(p, e)
  BY DEF HasRule, Foldable, RuleFor, RowId
<1>2. \A p, t : FoldedEvents(p, t)' = FoldedEvents(p, t)
  BY <1>1 DEF FoldedEvents
<1>3. \A b, t, id, p, s : Source(b, t, id, p, s)' = Source(b, t, id, p, s)
  BY <1>1, <1>2 DEF Source, In
<1>4. \A b, t, id, row : SourcedRow(b, t, id, row)' = SourcedRow(b, t, id, row)
  BY <1>1, <1>3 DEF SourcedRow
<1> QED
  BY <1>1, <1>2, <1>3, <1>4

(* A fold leaves a row that the folded event speaks for. *)
LEMMA FoldKeepsRows ==
  ASSUME DataInv, RowsHaveSources, NEW p \in Projections, NEW s \in 1..Len(log),
         HasRule(p, log[s]), Foldable(p, log[s]),
         UNCHANGED <<log, tableOf>>, view' = Applied(p, s)
  PROVE  DataInv' /\ RowsHaveSources'
<1>1. DataInv'
  BY AppliedRows DEF DataInv
<1>2. ASSUME NEW b \in Tables, NEW t \in Tenants, NEW id \in Ids
      PROVE  SourcedRow(b, t, id, view'[b][t][id])
  <2> DEFINE e == log[s]
             rule == RuleFor(p, log[s])
             old == view[b][t][id]
  <2>1. SourcedRow(b, t, id, old)
    BY DEF RowsHaveSources
  <2>2. CASE ~ (b = tableOf[p] /\ t = log[s].tenant /\ id = RowId(p, log[s]))
    BY <2>1, <2>2, AppliedRows
  <2>3. CASE b = tableOf[p] /\ t = log[s].tenant /\ id = RowId(p, log[s])
    <3>1. view'[b][t][id] = NewRow(p, s)
      BY <2>3, AppliedRows
    <3>2. CASE rule.op = "delete"
      BY <3>1, <3>2 DEF NewRow, NoRow, SourcedRow
    <3>3. CASE rule.op = "upsert"
      <4>1. Source(b, t, id, p, s)
        BY <2>3, <3>3, FoldFacts DEF Source, In
      <4>2. view'[b][t][id] = Upsert(rule, old, s, e.amount)
        BY <2>3, <3>1, <3>3 DEF NewRow
      <4>3. /\ view'[b][t][id].last = (IF rule.set THEN s ELSE old.last)
            /\ view'[b][t][id].total = (IF rule.inc THEN old.total + e.amount ELSE old.total)
        BY <4>2 DEF Upsert
      <4>5. view'[b][t][id].last # 0 => \E q \in Projections :
              Source(b, t, id, q, view'[b][t][id].last) /\ RuleFor(q, log[view'[b][t][id].last]).set
        <5>1. CASE rule.set
          BY <4>1, <4>3, <5>1
        <5>2. CASE ~ rule.set
          BY <2>1, <4>3, <5>2 DEF SourcedRow
        <5> QED
          BY <5>1, <5>2
      <4>6. view'[b][t][id].total # 0 => \E q \in Projections : \E d \in 1..Len(log) :
              Source(b, t, id, q, d) /\ RuleFor(q, log[d]).inc
        <5>1. CASE rule.inc
          BY <4>1, <5>1
        <5>2. CASE ~ rule.inc
          BY <2>1, <4>3, <5>2 DEF SourcedRow
        <5> QED
          BY <5>1, <5>2
      <4> QED
        BY <4>1, <4>5, <4>6 DEF SourcedRow
    <3> QED
      BY <3>2, <3>3, FoldFacts
  <2> QED
    BY <2>2, <2>3
<1>3. RowsHaveSources'
  BY <1>2, SameLog DEF RowsHaveSources
<1> QED
  BY <1>1, <1>3

(* A wipe leaves rows that say nothing. *)
LEMMA WipeKeepsRows ==
  ASSUME DataInv, RowsHaveSources, NEW p \in Projections, NEW t \in Tenants,
         UNCHANGED <<log, tableOf>>, view' = Wiped(p, t)
  PROVE  DataInv' /\ RowsHaveSources'
<1>1. view \in Views /\ tableOf[p] \in Tables
  BY ProjectorAssumption DEF DataInv
<1>2. NoRow \in Row
  BY DEF NoRow, Row
<1>3. view' = [view EXCEPT ![tableOf[p]] = [view[tableOf[p]] EXCEPT ![t] = [id \in Ids |-> NoRow]]]
  BY DEF Wiped
<1>4. [view[tableOf[p]] EXCEPT ![t] = [id \in Ids |-> NoRow]] \in [Tenants -> [Ids -> Row]]
  BY <1>1, <1>2 DEF Views
<1>5. view' \in Views
  BY <1>1, <1>3, <1>4 DEF Views
<1>6. ASSUME NEW b \in Tables, NEW u \in Tenants, NEW id \in Ids
      PROVE  view'[b][u][id] \in {NoRow, view[b][u][id]}
  BY <1>1, <1>3 DEF Views
<1>7. ASSUME NEW b \in Tables, NEW u \in Tenants, NEW id \in Ids
      PROVE  SourcedRow(b, u, id, view'[b][u][id])
  <2>1. CASE view'[b][u][id] = NoRow
    BY <2>1 DEF SourcedRow, NoRow
  <2>2. CASE view'[b][u][id] = view[b][u][id]
    BY <2>2 DEF RowsHaveSources
  <2> QED
    BY <1>6, <2>1, <2>2
<1>8. RowsHaveSources'
  BY <1>7, SameLog DEF RowsHaveSources
<1> QED
  BY <1>5, <1>8 DEF DataInv

(* Nothing about the rows changes with the log and the tables unchanged. *)
LEMMA SameRows ==
  ASSUME DataInv, RowsHaveSources, UNCHANGED <<log, tableOf, view>>
  PROVE  DataInv' /\ RowsHaveSources'
<1>1. DataInv'
  BY DEF DataInv
<1>2. RowsHaveSources'
  BY SameLog DEF RowsHaveSources
<1> QED
  BY <1>1, <1>2

-----------------------------------------------------------------------------
(* A doubt is cast for a known reason. *)
LEMMA DoubtTyped ==
  ASSUME doubt \in Doubts, NEW B, NEW t \in Tenants,
         NEW why \in SUBSET Reasons, Doubt(B, t, why)
  PROVE  doubt' \in Doubts
<1>1. ASSUME NEW b \in Tables
      PROVE  [doubt[b] EXCEPT ![t] = IF b \in B THEN @ \cup why ELSE @]
               \in [Tenants -> SUBSET Reasons]
  BY DEF Doubts
<1> QED
  BY <1>1 DEF Doubt, Doubts

(* With the log as it was, handlers can only have less to do. *)
LEMMA LessToFold ==
  ASSUME FoldInv, UNCHANGED <<log, tableOf>>, NEW h \in Handlers, NEW J, J \subseteq todo[h],
         todo' = [todo EXCEPT ![h] = J]
  PROVE  FoldInv'
<1>1. todo' \in [Handlers -> SUBSET ((1..Len(log)) \X Projections)]
  BY DEF FoldInv
<1>2. \A g \in Handlers : todo'[g] \subseteq todo[g]
  BY DEF FoldInv
<1>3. \A g \in Handlers : \A job \in todo'[g] : HasRule(job[2], log[job[1]])
  BY <1>2 DEF FoldInv
<1> QED
  BY <1>1, <1>3, SameLog DEF FoldInv

(* Rebuilds that do not move stay well formed. *)
LEMMA SameRebuilds ==
  ASSUME RebuildInv, UNCHANGED <<log, tableOf, rebuildVars>>
  PROVE  RebuildInv'
<1>1. \A p, t : FoldedEvents(p, t)' = FoldedEvents(p, t)
  BY SameLog
<1> QED
  BY <1>1 DEF RebuildInv, rebuildVars

(* Folds that do not move stay well formed. *)
LEMMA SameFolds ==
  ASSUME FoldInv, UNCHANGED <<log, tableOf, todo>>
  PROVE  FoldInv'
BY SameLog DEF FoldInv

(* A job folds an event of the log that its projection has a rule for. *)
LEMMA JobFacts ==
  ASSUME IInv, NEW h \in Handlers, NEW job \in todo[h]
  PROVE  /\ job[1] \in 1..Len(log) /\ job[2] \in Projections
         /\ HasRule(job[2], log[job[1]])
         /\ log[job[1]].tenant \in Tenants
<1>1. job \in (1..Len(log)) \X Projections /\ HasRule(job[2], log[job[1]])
  BY DEF IInv, FoldInv
<1>2. log[job[1]] \in Event
  BY <1>1 DEF IInv, DataInv
<1> QED
  BY <1>1, <1>2 DEF Event

-----------------------------------------------------------------------------
(* An empty log, empty tables and nobody at work satisfy the invariant. *)
LEMMA InitInv == Init => IInv
<1> SUFFICES ASSUME Init PROVE IInv
  OBVIOUS
<1> USE DEF Init
<1>1. DataInv
  <2>1. NoRow \in Row
    BY DEF NoRow, Row
  <2>2. view \in Views
    BY <2>1 DEF Views
  <2> QED
    BY <2>2, ProjectorAssumption DEF DataInv
<1>2. FoldInv
  BY DEF FoldInv
<1>3. RebuildInv
  BY DEF RebuildInv
<1>4. HistoryInv
  BY ProjectorAssumption DEF HistoryInv, Doubts
<1>5. RowsHaveSources
  BY DEF RowsHaveSources, SourcedRow, NoRow
<1> QED
  BY <1>1, <1>2, <1>3, <1>4, <1>5 DEF IInv

(* A job folded keeps the invariant. *)
LEMMA FoldStep ==
  ASSUME IInv, NEW h \in Handlers, Fold(h)
  PROVE  IInv'
<1>1. PICK job \in todo[h] :
        /\ Foldable(job[2], log[job[1]]) /\ view' = Applied(job[2], job[1])
        /\ todo' = [todo EXCEPT ![h] = @ \ {job}]
  BY DEF Fold
<1>2. UNCHANGED <<log, tableOf, rebuildVars, heals, doubt, failures>>
  BY DEF Fold
<1>3. DataInv' /\ RowsHaveSources'
  BY <1>1, <1>2, JobFacts, FoldKeepsRows DEF IInv
<1>4. FoldInv'
  BY <1>1, <1>2, LessToFold DEF IInv
<1>5. RebuildInv'
  BY <1>2, SameRebuilds DEF IInv
<1>6. HistoryInv'
  BY <1>2 DEF IInv, HistoryInv
<1> QED
  BY <1>3, <1>4, <1>5, <1>6 DEF IInv

(* A fold that errs or fails, and the jobs dropped with it, keep it. *)
LEMMA StopStep ==
  ASSUME IInv, NEW h \in Handlers, FoldErrors(h) \/ FoldFails(h)
  PROVE  IInv'
<1>1. PICK job \in todo[h] :
        /\ StopFolding(h, job)
        /\ view' = view \/ (Foldable(job[2], log[job[1]]) /\ view' = Applied(job[2], job[1]))
  BY DEF FoldErrors, FoldFails
<1>2. UNCHANGED <<log, tableOf, rebuildVars, heals>> /\ failures' \in 0..MaxFailures
  BY <1>1, ProjectorAssumption DEF StopFolding, FoldErrors, FoldFails, IInv, HistoryInv
<1>3. DataInv' /\ RowsHaveSources'
  BY <1>1, <1>2, JobFacts, FoldKeepsRows, SameRows DEF IInv
<1>4. FoldInv'
  <2> DEFINE J == {}
  <2>1. todo' = [todo EXCEPT ![h] = J]
    BY <1>1 DEF StopFolding
  <2>2. FoldInv /\ UNCHANGED <<log, tableOf>> /\ J \subseteq todo[h]
    BY <1>2 DEF IInv
  <2> HIDE DEF J
  <2> QED
    BY <2>1, <2>2, LessToFold
<1>5. RebuildInv'
  BY <1>2, SameRebuilds DEF IInv
<1>6. doubt' \in Doubts
  <2>1. Doubt(Dropped(todo[h] \ {job}) \cup Dropped({job}), log[job[1]].tenant, {"stale"})
    BY <1>1 DEF StopFolding
  <2> QED
    BY <2>1, JobFacts, DoubtTyped DEF IInv, HistoryInv, Reasons
<1>7. HistoryInv'
  BY <1>2, <1>6 DEF IInv, HistoryInv
<1> QED
  BY <1>3, <1>4, <1>5, <1>7 DEF IInv

(* A rebuild that starts keeps it. *)
LEMMA StartStep ==
  ASSUME IInv, NEW r \in Rebuilders, StartRebuild(r)
  PROVE  IInv'
<1> DEFINE Over(P) == {b \in TablesOf(P) : ~Settled(b, TenantOf[r])}
<1>1. PICK P \in {{p} : p \in Projections} \cup {Projections} :
        /\ queue' = [queue EXCEPT ![r] = P] /\ snap' = [snap EXCEPT ![r] = Len(log)]
        /\ heals' = [q \in Rebuilders |->
             IF q = r THEN {p \in P : ~Shared(p) /\ tableOf[p] \notin Over(P)}
             ELSE IF TenantOf[q] = TenantOf[r] THEN {p \in heals[q] : tableOf[p] \notin Over(P)}
             ELSE heals[q]]
        /\ Doubt(Over(P), TenantOf[r], {"crossed"})
  BY DEF StartRebuild
<1>2. UNCHANGED <<log, tableOf, view, todo, cur, replay, failures>>
  BY DEF StartRebuild
<1> HIDE DEF Over
<1>3. P \subseteq Projections /\ TenantOf[r] \in Tenants
  BY ProjectorAssumption
<1>4. DataInv' /\ RowsHaveSources' /\ FoldInv'
  BY <1>2, SameRows, SameFolds DEF IInv
<1>5. RebuildInv'
  <2>1. queue' \in [Rebuilders -> SUBSET Projections] /\ snap' \in [Rebuilders -> 0..Len(log)]
    BY <1>1, <1>3 DEF IInv, RebuildInv, DataInv
  <2>2. \A p, t : FoldedEvents(p, t)' = FoldedEvents(p, t)
    BY <1>2, SameLog
  <2> QED
    BY <1>2, <2>1, <2>2 DEF IInv, RebuildInv
<1>6. HistoryInv'
  <2>1. doubt' \in Doubts
    BY <1>1, <1>3, DoubtTyped DEF IInv, HistoryInv, Reasons
  <2>2. heals' \in [Rebuilders -> SUBSET Projections]
    BY <1>1, <1>3 DEF IInv, HistoryInv
  <2> QED
    BY <1>2, <2>1, <2>2 DEF IInv, HistoryInv
<1> QED
  BY <1>4, <1>5, <1>6 DEF IInv

(* A table wiped for a tenant keeps it. *)
LEMMA WipeStep ==
  ASSUME IInv, NEW r \in Rebuilders, Wipe(r)
  PROVE  IInv'
<1>1. PICK p \in queue[r] :
        /\ view' = Wiped(p, TenantOf[r]) /\ cur' = [cur EXCEPT ![r] = {p}]
        /\ queue' = [queue EXCEPT ![r] = @ \ {p}]
        /\ replay' = [replay EXCEPT ![r] = ReplayOf(r, p)]
        /\ Doubt({tableOf[p]}, TenantOf[r], IF Shared(p) THEN {"shared"} ELSE {})
  BY DEF Wipe
<1>2. UNCHANGED <<log, tableOf, todo, snap, heals, failures>> /\ cur[r] = {}
  BY DEF Wipe
<1>3. p \in Projections /\ TenantOf[r] \in Tenants
  BY ProjectorAssumption DEF IInv, RebuildInv
<1>4. DataInv' /\ RowsHaveSources' /\ FoldInv'
  BY <1>1, <1>2, <1>3, WipeKeepsRows, SameFolds DEF IInv
<1>5. RebuildInv'
  <2>1. \A q, t : FoldedEvents(q, t)' = FoldedEvents(q, t)
    BY <1>2, SameLog
  <2>2. ReplayOf(r, p) \subseteq FoldedEvents(p, TenantOf[r]) /\ ReplayOf(r, p) \subseteq 1..Len(log)
    BY DEF ReplayOf, FoldedEvents
  <2> QED
    BY <1>1, <1>2, <1>3, <2>1, <2>2, SMTT(30) DEF IInv, RebuildInv
<1>6. HistoryInv'
  <2>1. doubt' \in Doubts
    <3>1. (IF Shared(p) THEN {"shared"} ELSE {}) \in SUBSET Reasons
      BY DEF Reasons
    <3> QED
      BY <1>1, <1>3, <3>1, DoubtTyped DEF IInv, HistoryInv
  <2> QED
    BY <1>2, <2>1 DEF IInv, HistoryInv
<1> QED
  BY <1>4, <1>5, <1>6 DEF IInv

(* The next event of a replay is one its projection can fold. *)
LEMMA ReplayFacts ==
  ASSUME IInv, NEW r \in Rebuilders, replay[r] # {}, NEW p \in cur[r]
  PROVE  /\ p \in Projections /\ First(replay[r]) \in replay[r]
         /\ First(replay[r]) \in 1..Len(log)
         /\ HasRule(p, log[First(replay[r])]) /\ Foldable(p, log[First(replay[r])])
<1>1. replay[r] \subseteq 1..Len(log) /\ replay[r] \subseteq FoldedEvents(p, TenantOf[r])
      /\ p \in Projections
  BY DEF IInv, RebuildInv
<1>2. First(replay[r]) \in replay[r]
  BY <1>1, FirstIn
<1> QED
  BY <1>1, <1>2 DEF FoldedEvents

(* An event replayed keeps it. *)
LEMMA ReplayStep ==
  ASSUME IInv, NEW r \in Rebuilders, Replay(r)
  PROVE  IInv'
<1>1. PICK p \in cur[r] : view' = Applied(p, First(replay[r]))
  BY DEF Replay
<1>2. /\ replay[r] # {} /\ replay' = [replay EXCEPT ![r] = @ \ {First(replay[r])}]
      /\ UNCHANGED <<log, tableOf, todo, queue, cur, snap, heals, doubt, failures>>
  BY DEF Replay
<1>3. DataInv' /\ RowsHaveSources' /\ FoldInv'
  BY <1>1, <1>2, ReplayFacts, FoldKeepsRows, SameFolds DEF IInv
<1>4. RebuildInv'
  <2>1. \A q, t : FoldedEvents(q, t)' = FoldedEvents(q, t)
    BY <1>2, SameLog
  <2> QED
    BY <1>2, <2>1 DEF IInv, RebuildInv
<1>5. HistoryInv'
  BY <1>2 DEF IInv, HistoryInv
<1> QED
  BY <1>3, <1>4, <1>5 DEF IInv

(* A projection rebuilt keeps it. *)
LEMMA FinishStep ==
  ASSUME IInv, NEW r \in Rebuilders, FinishProjection(r)
  PROVE  IInv'
<1>1. /\ cur' = [cur EXCEPT ![r] = {}] /\ replay[r] = {}
      /\ doubt' = [b \in Tables |-> [doubt[b] EXCEPT ![TenantOf[r]] =
                     IF b \in TablesOf(cur[r] \cap heals[r]) THEN {} ELSE @]]
      /\ heals' = [heals EXCEPT ![r] = @ \ cur[r]]
      /\ UNCHANGED <<log, tableOf, view, todo, replay, failures>>
      /\ \/ queue' = [queue EXCEPT ![r] = {}] /\ snap' = [snap EXCEPT ![r] = 0]
         \/ UNCHANGED <<queue, snap>>
  BY DEF FinishProjection, ReplayDone, EndRebuild
<1>2. DataInv' /\ RowsHaveSources' /\ FoldInv'
  BY <1>1, SameRows, SameFolds DEF IInv
<1>3. RebuildInv'
  <2>1. \A q, t : FoldedEvents(q, t)' = FoldedEvents(q, t)
    BY <1>1, SameLog
  <2>2. RebuildInv /\ 0 \in 0..Len(log)
    BY DEF IInv, DataInv
  <2>3. queue' \in [Rebuilders -> SUBSET Projections] /\ snap' \in [Rebuilders -> 0..Len(log)]
    <3>1. CASE queue' = [queue EXCEPT ![r] = {}] /\ snap' = [snap EXCEPT ![r] = 0]
      BY <2>2, <3>1 DEF RebuildInv
    <3>2. CASE UNCHANGED <<queue, snap>>
      BY <2>2, <3>2 DEF RebuildInv
    <3> QED
      BY <1>1, <3>1, <3>2
  <2>4. cur' \in [Rebuilders -> SUBSET Projections]
    BY <1>1, <2>2 DEF RebuildInv
  <2>5. ASSUME NEW q \in Rebuilders
        PROVE  cur'[q] \subseteq cur[q] /\ (cur'[q] = {} => replay'[q] = {})
    BY <1>1, <2>2 DEF RebuildInv
  <2> QED
    BY <1>1, <2>1, <2>2, <2>3, <2>4, <2>5 DEF RebuildInv
<1>4. HistoryInv'
  <2>1. ASSUME NEW b \in Tables
        PROVE  doubt'[b] \in [Tenants -> SUBSET Reasons]
    BY <1>1 DEF IInv, HistoryInv, Doubts
  <2>2. doubt' \in Doubts
    BY <1>1, <2>1 DEF Doubts
  <2>3. heals' \in [Rebuilders -> SUBSET Projections]
    BY <1>1 DEF IInv, HistoryInv
  <2> QED
    BY <1>1, <2>2, <2>3 DEF IInv, HistoryInv
<1> QED
  BY <1>2, <1>3, <1>4 DEF IInv

(* A rebuild that fails, wherever it is, keeps it. *)
LEMMA RebuildFailsStep ==
  ASSUME IInv, NEW r \in Rebuilders, RebuildFails(r)
  PROVE  IInv'
<1>1. /\ queue' = [queue EXCEPT ![r] = {}] /\ snap' = [snap EXCEPT ![r] = 0]
      /\ cur' = [cur EXCEPT ![r] = {}] /\ replay' = [replay EXCEPT ![r] = {}]
      /\ heals' = [heals EXCEPT ![r] = {}] /\ failures' \in 0..MaxFailures
      /\ UNCHANGED <<log, tableOf, todo>>
  BY ProjectorAssumption DEF RebuildFails, EndRebuild, IInv, HistoryInv
<1>2. \/ view' = view
      \/ \E p \in queue[r] : view' = Wiped(p, TenantOf[r])
      \/ replay[r] # {} /\ \E p \in cur[r] : view' = Applied(p, First(replay[r]))
  BY DEF RebuildFails
<1>3. queue[r] \subseteq Projections /\ TenantOf[r] \in Tenants
  BY ProjectorAssumption DEF IInv, RebuildInv
<1>4. DataInv' /\ RowsHaveSources'
  <2>1. CASE view' = view
    BY <1>1, <2>1, SameRows DEF IInv
  <2>2. CASE \E p \in queue[r] : view' = Wiped(p, TenantOf[r])
    BY <1>1, <1>3, <2>2, WipeKeepsRows DEF IInv
  <2>3. CASE replay[r] # {} /\ \E p \in cur[r] : view' = Applied(p, First(replay[r]))
    BY <1>1, <2>3, ReplayFacts, FoldKeepsRows DEF IInv
  <2> QED
    BY <1>2, <2>1, <2>2, <2>3
<1>5. FoldInv'
  BY <1>1, SameFolds DEF IInv
<1>6. RebuildInv'
  <2>1. \A q, t : FoldedEvents(q, t)' = FoldedEvents(q, t)
    BY <1>1, SameLog
  <2>2. RebuildInv /\ 0 \in 0..Len(log)
    BY DEF IInv, DataInv
  <2>3. /\ queue' \in [Rebuilders -> SUBSET Projections] /\ snap' \in [Rebuilders -> 0..Len(log)]
        /\ cur' \in [Rebuilders -> SUBSET Projections]
        /\ replay' \in [Rebuilders -> SUBSET (1..Len(log))]
    BY <1>1, <2>2 DEF RebuildInv
  <2>4. ASSUME NEW q \in Rebuilders
        PROVE  /\ cur'[q] \subseteq cur[q] /\ replay'[q] \subseteq replay[q]
               /\ (cur'[q] = {} => replay'[q] = {})
    BY <1>1, <2>2, SMTT(30) DEF RebuildInv
  <2> QED
    BY <1>1, <2>1, <2>2, <2>3, <2>4 DEF RebuildInv
<1>7. doubt' \in Doubts
  <2>1. doubt' = doubt \/ \E B : Doubt(B, TenantOf[r], {"stale"})
    BY DEF RebuildFails
  <2>2. {"stale"} \in SUBSET Reasons
    BY DEF Reasons
  <2> QED
    BY <1>3, <2>1, <2>2, DoubtTyped DEF IInv, HistoryInv
<1>8. HistoryInv'
  BY <1>1, <1>7 DEF IInv, HistoryInv
<1> QED
  BY <1>4, <1>5, <1>6, <1>8 DEF IInv

(* A crash keeps it. *)
LEMMA CrashStep ==
  ASSUME IInv, Crash
  PROVE  IInv'
<1>1. /\ todo' = [h \in Handlers |-> {}] /\ queue' = [r \in Rebuilders |-> {}]
      /\ cur' = [r \in Rebuilders |-> {}] /\ snap' = [r \in Rebuilders |-> 0]
      /\ replay' = [r \in Rebuilders |-> {}] /\ heals' = [r \in Rebuilders |-> {}]
      /\ failures' \in 0..MaxFailures /\ UNCHANGED <<log, tableOf, view>>
  BY ProjectorAssumption DEF Crash, IInv, HistoryInv
<1>2. DataInv' /\ RowsHaveSources'
  BY <1>1, SameRows DEF IInv
<1>3. FoldInv' /\ RebuildInv'
  BY <1>1 DEF FoldInv, RebuildInv, IInv, DataInv
<1>4. doubt' \in Doubts
  <2>1. \A b \in Tables, t \in Tenants : doubt[b][t] \in SUBSET Reasons
    BY DEF IInv, HistoryInv, Doubts
  <2>2. {"stale"} \in SUBSET Reasons
    BY DEF Reasons
  <2> QED
    BY <2>1, <2>2 DEF Crash, Doubts
<1> QED
  BY <1>1, <1>2, <1>3, <1>4 DEF IInv, HistoryInv

(* What is in the log stays there, and so do the sources of the rows. *)
LEMMA AppendStep ==
  ASSUME IInv, NEW h \in Handlers, AppendBatch(h)
  PROVE  IInv'
<1> DEFINE Jobs(b) == {job \in (Len(log) + 1..Len(log) + Len(b)) \X Projections :
                         HasRule(job[2], b[job[1] - Len(log)])}
           Touched(b)  == {tableOf[job[2]] : job \in Jobs(b)}
           Shuffled(b) == {c \in Touched(b) :
                             ~Counter(c) /\ \E g \in Handlers : Folding(g, c, b[1].tenant)}
           Crossed(b)  == {c \in Touched(b) : \E r \in Rebuilders : Rebuilding(r, c, b[1].tenant)}
<1>1. PICK b \in Batches :
        /\ Len(log) + Len(b) <= MaxEvents /\ log' = log \o b
        /\ todo' = [todo EXCEPT ![h] = Jobs(b)]
        /\ doubt' = [c \in Tables |-> [doubt[c] EXCEPT ![b[1].tenant] =
             @ \cup (IF c \in Shuffled(b) THEN {"shuffled"} ELSE {})
               \cup (IF c \in Crossed(b) THEN {"crossed"} ELSE {})]]
        /\ heals' = [r \in Rebuilders |->
             IF TenantOf[r] = b[1].tenant THEN {p \in heals[r] : tableOf[p] \notin Crossed(b)}
             ELSE heals[r]]
  BY Zenon DEF AppendBatch
<1> HIDE DEF Touched, Shuffled, Crossed
<1>2. UNCHANGED <<tableOf, view, queue, cur, snap, replay, failures>>
  BY DEF AppendBatch, rebuildVars
<1>3. b \in Seq(Event) /\ b # <<>> /\ log \in Seq(Event)
  BY ProjectorAssumption DEF IInv, DataInv
<1>4. /\ log' \in Seq(Event) /\ Len(log') = Len(log) + Len(b) /\ Len(log) \in Nat /\ Len(b) \in Nat
      /\ \A s \in 1..Len(log) : log'[s] = log[s]
      /\ \A s \in Len(log) + 1..Len(log) + Len(b) : log'[s] = b[s - Len(log)]
      /\ b[1] \in Event
  BY <1>1, <1>3
<1>5. 1..Len(log) \subseteq 1..Len(log') /\ 0..Len(log) \subseteq 0..Len(log')
      /\ Len(log) + 1..Len(log) + Len(b) \subseteq 1..Len(log')
  BY <1>4
<1>6. b[1].tenant \in Tenants
  BY <1>4 DEF Event
<1>7. \A p, e : /\ HasRule(p, e)' = HasRule(p, e) /\ Foldable(p, e)' = Foldable(p, e)
                /\ RuleFor(p, e)' = RuleFor(p, e) /\ RowId(p, e)' = RowId(p, e)
  BY DEF HasRule, Foldable, RuleFor, RowId
<1>8. \A p, t : FoldedEvents(p, t) \subseteq FoldedEvents(p, t)'
  BY <1>4, <1>5, <1>7 DEF FoldedEvents
<1>9. DataInv'
  BY <1>1, <1>2, <1>4 DEF IInv, DataInv
<1>10. FoldInv'
  <2>1. Jobs(b) \subseteq (1..Len(log')) \X Projections
    BY <1>5
  <2>2. \A job \in Jobs(b) : HasRule(job[2], log'[job[1]])
    BY <1>4
  <2> HIDE DEF Jobs
  <2>3. todo' \in [Handlers -> SUBSET ((1..Len(log')) \X Projections)]
    BY <1>1, <1>5, <2>1 DEF IInv, FoldInv
  <2>4. ASSUME NEW g \in Handlers, NEW job \in todo'[g]
        PROVE  HasRule(job[2], log'[job[1]])
    <3>1. CASE g = h
      BY <1>1, <2>2, <3>1 DEF IInv, FoldInv
    <3>2. CASE g # h
      <4>1. job \in todo[g]
        BY <1>1, <3>2 DEF IInv, FoldInv
      <4>2. job[1] \in 1..Len(log) /\ HasRule(job[2], log[job[1]])
        BY <4>1 DEF IInv, FoldInv
      <4> QED
        BY <4>2, <1>4
    <3> QED
      BY <3>1, <3>2
  <2> QED
    BY <2>3, <2>4, <1>7 DEF FoldInv
<1>11. RebuildInv'
  <2>1. /\ snap' \in [Rebuilders -> 0..Len(log')]
        /\ replay' \in [Rebuilders -> SUBSET (1..Len(log'))]
    BY <1>2, <1>5 DEF IInv, RebuildInv
  <2> QED
    BY <1>2, <1>8, <2>1 DEF IInv, RebuildInv
<1>12. HistoryInv'
  <2>1. doubt' \in Doubts
    <3>1. doubt' = [c \in Tables |-> [doubt[c] EXCEPT ![b[1].tenant] =
            @ \cup (IF c \in Shuffled(b) THEN {"shuffled"} ELSE {})
              \cup (IF c \in Crossed(b) THEN {"crossed"} ELSE {})]]
      BY <1>1
    <3>2. {"shuffled"} \subseteq Reasons /\ {"crossed"} \subseteq Reasons
      BY DEF Reasons
    <3>3. ASSUME NEW c \in Tables
          PROVE  doubt'[c] \in [Tenants -> SUBSET Reasons]
      <4>1. doubt[c] \in [Tenants -> SUBSET Reasons]
        BY DEF IInv, HistoryInv, Doubts
      <4>2. doubt'[c] = [doubt[c] EXCEPT ![b[1].tenant] =
                          doubt[c][b[1].tenant] \cup (IF c \in Shuffled(b) THEN {"shuffled"} ELSE {})
                            \cup (IF c \in Crossed(b) THEN {"crossed"} ELSE {})]
        BY <3>1
      <4>3. doubt[c][b[1].tenant] \cup (IF c \in Shuffled(b) THEN {"shuffled"} ELSE {})
              \cup (IF c \in Crossed(b) THEN {"crossed"} ELSE {}) \in SUBSET Reasons
        BY <1>6, <3>2, <4>1
      <4> QED
        BY <1>6, <4>1, <4>2, <4>3
    <3> QED
      BY <3>1, <3>3 DEF Doubts
  <2>2. heals' \in [Rebuilders -> SUBSET Projections]
    BY <1>1 DEF IInv, HistoryInv
  <2> QED
    BY <1>2, <2>1, <2>2 DEF IInv, HistoryInv
<1>13. RowsHaveSources'
  <2>1. ASSUME NEW c \in Tables, NEW t \in Tenants, NEW id \in Ids, NEW p \in Projections, NEW s,
               Source(c, t, id, p, s)
        PROVE  Source(c, t, id, p, s)' /\ s \in 1..Len(log) /\ s \in 1..Len(log') /\ log'[s] = log[s]
    <3>1. s \in FoldedEvents(p, t) /\ s \in 1..Len(log)
      BY <2>1 DEF Source, FoldedEvents
    <3>2. In(c)' = In(c)
      BY <1>2 DEF In
    <3> QED
      BY <2>1, <3>1, <3>2, <1>4, <1>5, <1>7, <1>8 DEF Source
  <2>2. ASSUME NEW c \in Tables, NEW t \in Tenants, NEW id \in Ids
        PROVE  SourcedRow(c, t, id, view[c][t][id])'
    <3>1. PICK row : row = view[c][t][id] /\ row = view'[c][t][id] /\ SourcedRow(c, t, id, row)
      BY <1>2 DEF IInv, RowsHaveSources
    <3>3. row.live => \E p \in Projections : \E s \in 1..Len(log') : Source(c, t, id, p, s)'
      BY <2>1, <3>1 DEF SourcedRow
    <3>4. row.last # 0 => \E p \in Projections :
            Source(c, t, id, p, row.last)' /\ RuleFor(p, log'[row.last]).set
      BY <2>1, <3>1 DEF SourcedRow
    <3>5. row.total # 0 => \E p \in Projections : \E s \in 1..Len(log') :
            Source(c, t, id, p, s)' /\ RuleFor(p, log'[s]).inc
      BY <2>1, <3>1 DEF SourcedRow
    <3> QED
      BY <3>1, <3>3, <3>4, <3>5 DEF SourcedRow
  <2> QED
    BY <2>2 DEF RowsHaveSources
<1> QED
  BY <1>9, <1>10, <1>11, <1>12, <1>13 DEF IInv

-----------------------------------------------------------------------------
(* Every step keeps the invariant. *)
LEMMA NextInv == IInv /\ [Next]_vars => IInv'
<1> SUFFICES ASSUME IInv, [Next]_vars PROVE IInv'
  OBVIOUS
<1>1. CASE UNCHANGED vars
  <2>1. UNCHANGED <<log, tableOf, view, todo, rebuildVars, heals, doubt, failures>>
    BY <1>1 DEF vars
  <2> QED
    BY <2>1, SameRows, SameFolds, SameRebuilds DEF IInv, HistoryInv
<1> QED
  BY <1>1, AppendStep, FoldStep, StopStep, StartStep, WipeStep, ReplayStep, FinishStep,
     RebuildFailsStep, CrashStep DEF Next

(* The inductive invariant of folds and rebuilds. *)
THEOREM ProjectorInvariant == Spec => []IInv
BY InitInv, NextInv, PTL DEF Spec

(* Every reachable state is well typed: folds and replays only meet events   *)
(* of the log that their projections can fold.                               *)
THEOREM ProjectorTypeOK == Spec => []TypeOK
<1>1. IInv => TypeOK
  <2> SUFFICES ASSUME IInv PROVE TypeOK
    OBVIOUS
  <2>1. ASSUME NEW r \in Rebuilders
        PROVE  Cardinality(cur[r]) <= 1
    <3>1. CASE cur[r] = {}
      BY <3>1, FS_EmptySet
    <3>2. CASE cur[r] # {}
      <4>0. PICK p \in cur[r] : TRUE
        BY <3>2
      <4>1. cur[r] = {p}
        BY <4>0 DEF IInv, RebuildInv
      <4>2. Cardinality(cur[r]) = 1
        BY <4>1, FS_Singleton
      <4> QED
        BY <4>2
    <3> QED
      BY <3>1, <3>2
  <2> QED
    BY <2>1 DEF IInv, DataInv, FoldInv, RebuildInv, HistoryInv, Views, Doubts, Reasons, TypeOK
<1> QED
  BY <1>1, ProjectorInvariant, PTL

(* Whatever overlaps, fails or is shared, a tenant's row is there only if an *)
(* event of the tenant about that row was folded by a definition of the      *)
(* table; the value it shows was set by one, and it counted one.             *)
THEOREM ProjectorRowsHaveSources == Spec => []RowsHaveSources
<1>1. IInv => RowsHaveSources
  BY DEF IInv
<1> QED
  BY <1>1, ProjectorInvariant, PTL

-----------------------------------------------------------------------------
(***************************************************************************)
(* Sums.  MapThenSumSet adds up a finite set one element at a time, in an  *)
(* order CHOOSE decides; an induction over the set is out of reach, so the *)
(* sum is shown to be a balance, of the units that the x with a positive   *)
(* Amount(l, x) bring and those that the others take, and what is needed   *)
(* of sums is taken from there.                                            *)
(***************************************************************************)
Amount(l, x) == l[x[1]].amount
SumOver(l, F) == MapThenSumSet(LAMBDA x : l[x[1]].amount, F)
Pick(s) == CHOOSE x \in s : TRUE

(* g adds up the amounts over the subsets of F, the way MapThenSumSet goes about it. *)
Adds(g, l, F) ==
  g = [s \in SUBSET F |-> IF s = {} THEN 0 ELSE Amount(l, Pick(s)) + g[s \ {Pick(s)}]]

(* The units that x brings, or those that it takes. *)
Size(l, x, brought) == IF brought THEN Amount(l, x) ELSE -Amount(l, x)
Units(l, F, brought) == UNION {{x} \X (1..Size(l, x, brought)) : x \in F}
Net(l, F) == Cardinality(Units(l, F, TRUE)) - Cardinality(Units(l, F, FALSE))

(* n units of x. *)
LEMMA UnitsOfOne ==
  ASSUME NEW x, NEW n \in Int
  PROVE  IsFiniteSet({x} \X (1..n)) /\ Cardinality({x} \X (1..n)) = IF n > 0 THEN n ELSE 0
<1>1. IsFiniteSet({x}) /\ Cardinality({x}) = 1
  BY FS_Singleton
<1>2. IsFiniteSet(1..n) /\ Cardinality(1..n) = IF n > 0 THEN n ELSE 0
  BY FS_Interval
<1> DEFINE T == 1..n
<1> HIDE DEF T
<1>3. IsFiniteSet({x} \X T) /\ Cardinality({x} \X T) = Cardinality({x}) * Cardinality(T)
  BY <1>1, <1>2, FS_Product, Zenon DEF T
<1> QED
  BY <1>1, <1>2, <1>3 DEF T

(* A finite sum has finitely many units. *)
LEMMA UnitsFinite ==
  ASSUME NEW F, IsFiniteSet(F), NEW l, \A x \in F : Amount(l, x) \in Int, NEW brought \in BOOLEAN
  PROVE  IsFiniteSet(Units(l, F, brought))
<1> DEFINE f == [x \in F |-> {x} \X (1..Size(l, x, brought))]
           T == {{x} \X (1..Size(l, x, brought)) : x \in F}
<1>1. f \in Surjection(F, T)
  BY DEF Surjection
<1>2. IsFiniteSet(T)
  BY <1>1, FS_Surjection
<1>3. ASSUME NEW t \in T
      PROVE  IsFiniteSet(t)
  <2>1. PICK x \in F : t = {x} \X (1..Size(l, x, brought))
    OBVIOUS
  <2>2. Size(l, x, brought) \in Int
    BY DEF Size
  <2> QED
    BY <2>1, <2>2, UnitsOfOne
<1> QED
  BY <1>2, <1>3, FS_UNION DEF Units

(* Whichever element is taken out first. *)
LEMMA UnitsAdd ==
  ASSUME NEW F, IsFiniteSet(F), NEW l, \A x \in F : Amount(l, x) \in Int, NEW x \in F,
         NEW brought \in BOOLEAN
  PROVE  LET n == Size(l, x, brought)
         IN /\ Cardinality(Units(l, F, brought)) =
                 (IF n > 0 THEN n ELSE 0) + Cardinality(Units(l, F \ {x}, brought))
            /\ Cardinality(Units(l, F, brought)) \in Nat
            /\ Cardinality(Units(l, F \ {x}, brought)) \in Nat
<1> DEFINE n == Size(l, x, brought)
           one == {x} \X (1..n)
           all == Units(l, F, brought)
           rest == Units(l, F \ {x}, brought)
<1>1. IsFiniteSet(F \ {x}) /\ n \in Int
  BY FS_RemoveElement DEF Size
<1>2. IsFiniteSet(all) /\ IsFiniteSet(rest)
  BY <1>1, UnitsFinite
<1> HIDE DEF n
<1>3. IsFiniteSet(one) /\ Cardinality(one) = IF n > 0 THEN n ELSE 0
  BY <1>1, UnitsOfOne
<1>4. all = one \cup rest
  BY DEF Units, n
<1>5. one \cap rest = {}
  BY DEF Units
<1> HIDE DEF one, all, rest
<1>6. Cardinality(one \cap rest) = 0
  BY <1>5, FS_EmptySet
<1>7. Cardinality(all) \in Nat /\ Cardinality(rest) \in Nat
  BY <1>2, FS_CardinalityType
<1>8. Cardinality(one \cup rest) =
        Cardinality(one) + Cardinality(rest) - Cardinality(one \cap rest)
  BY <1>2, <1>3, FS_Union
<1>9. Cardinality(all) = (IF n > 0 THEN n ELSE 0) + Cardinality(rest)
  BY <1>1, <1>3, <1>4, <1>6, <1>7, <1>8
<1> QED
  BY <1>7, <1>9 DEF n, all, rest

(* The balance of a sum: no units, or those of any element and of the rest. *)
LEMMA NetOfNone == ASSUME NEW l PROVE Net(l, {}) = 0
<1>1. Units(l, {}, TRUE) = {} /\ Units(l, {}, FALSE) = {}
  BY DEF Units
<1>2. PICK a, b : a = Cardinality(Units(l, {}, TRUE)) /\ b = Cardinality(Units(l, {}, FALSE))
  OBVIOUS
<1>3. a = 0 /\ b = 0
  BY <1>1, <1>2, FS_EmptySet
<1>4. a - b = 0
  BY <1>3
<1>5. Net(l, {}) = a - b
  BY <1>2 DEF Net
<1> QED
  BY <1>4, <1>5

LEMMA NetAdd ==
  ASSUME NEW F, IsFiniteSet(F), NEW l, \A x \in F : Amount(l, x) \in Int, NEW x \in F
  PROVE  Net(l, F) = Amount(l, x) + Net(l, F \ {x}) /\ Net(l, F) \in Int /\ Net(l, F \ {x}) \in Int
<1> DEFINE n == Amount(l, x)
<1>1. n \in Int
  OBVIOUS
<1>2. /\ Cardinality(Units(l, F, TRUE)) =
            (IF n > 0 THEN n ELSE 0) + Cardinality(Units(l, F \ {x}, TRUE))
      /\ Cardinality(Units(l, F, TRUE)) \in Nat /\ Cardinality(Units(l, F \ {x}, TRUE)) \in Nat
  BY UnitsAdd DEF Size
<1>3. /\ Cardinality(Units(l, F, FALSE)) =
            (IF -n > 0 THEN -n ELSE 0) + Cardinality(Units(l, F \ {x}, FALSE))
      /\ Cardinality(Units(l, F, FALSE)) \in Nat /\ Cardinality(Units(l, F \ {x}, FALSE)) \in Nat
  BY UnitsAdd DEF Size
<1> HIDE DEF n
<1>4. PICK a, b, c, d :
        /\ a = Cardinality(Units(l, F, TRUE)) /\ b = Cardinality(Units(l, F, FALSE))
        /\ c = Cardinality(Units(l, F \ {x}, TRUE)) /\ d = Cardinality(Units(l, F \ {x}, FALSE))
  OBVIOUS
<1>5. /\ {a, b, c, d} \subseteq Nat
      /\ a = (IF n > 0 THEN n ELSE 0) + c /\ b = (IF -n > 0 THEN -n ELSE 0) + d
  BY <1>2, <1>3, <1>4
<1>6. a - b = n + (c - d) /\ a - b \in Int /\ c - d \in Int
  BY <1>1, <1>5
<1>7. Net(l, F) = a - b /\ Net(l, F \ {x}) = c - d
  BY <1>4 DEF Net
<1> QED
  BY <1>6, <1>7 DEF n

(* A sum is the balance of its units, whatever the recursion chooses. *)
LEMMA AddsNet ==
  ASSUME NEW F, IsFiniteSet(F), NEW l, \A x \in F : Amount(l, x) \in Int,
         NEW g, Adds(g, l, F), NEW s \in SUBSET F
  PROVE  g[s] = Net(l, s)
<1> DEFINE Wrong(n) == \E u \in SUBSET F : Cardinality(u) = n /\ g[u] # Net(l, u)
           W == {n \in Nat : Wrong(n)}
           R == OpToRel(<, Nat)
<1>1. ASSUME W # {}
      PROVE  FALSE
  <2>1. IsWellFoundedOn(R, Nat)
    BY NatLessThanWellFounded
  <2>2. PICK n \in W : \A m \in W : ~ (<<m, n>> \in R)
    <3> HIDE DEF R, Wrong
    <3> QED
      BY <1>1, <2>1, WFMin
  <2>3. \A m \in W : ~ (m < n)
    BY <2>2 DEF OpToRel
  <2>4. PICK u \in SUBSET F : Cardinality(u) = n /\ g[u] # Net(l, u)
    OBVIOUS
  <2>5. IsFiniteSet(u)
    BY FS_Subset
  <2>6. g[u] = IF u = {} THEN 0 ELSE Amount(l, Pick(u)) + g[u \ {Pick(u)}]
    BY Zenon DEF Adds
  <2>7. CASE u = {}
    BY <2>4, <2>6, <2>7, NetOfNone
  <2>8. CASE u # {}
    <3> DEFINE x == Pick(u)
               v == u \ {x}
    <3>1. x \in u
      BY <2>8 DEF Pick
    <3> HIDE DEF x
    <3>2. Cardinality(v) = n - 1 /\ n - 1 \in Nat
      <4>1. Cardinality(v) = Cardinality(u) - 1 /\ IsFiniteSet(v)
        BY <2>5, <3>1, FS_RemoveElement
      <4>2. Cardinality(v) \in Nat
        BY <4>1, FS_CardinalityType
      <4> QED
        BY <4>1, <4>2, <2>4
    <3>3. n - 1 \notin W
      BY <2>3, <3>2
    <3>4. g[v] = Net(l, v)
      BY <3>2, <3>3
    <3>5. g[u] = Amount(l, x) + g[v]
      BY <2>6, <2>8 DEF x
    <3>6. Net(l, u) = Amount(l, x) + Net(l, v)
      BY <2>5, <3>1, NetAdd
    <3> QED
      BY <2>4, <3>4, <3>5, <3>6
  <2> QED
    BY <2>7, <2>8
<1>2. IsFiniteSet(s)
  BY FS_Subset
<1>3. Cardinality(s) \in Nat
  BY <1>2, FS_CardinalityType
<1> QED
  BY <1>1, <1>3

(* Some function adds up the subsets of a finite set, so CHOOSE finds one. *)
LEMMA AddsExists ==
  ASSUME NEW F, IsFiniteSet(F), NEW l, \A x \in F : Amount(l, x) \in Int
  PROVE  \E g : Adds(g, l, F)
<1> DEFINE g == [s \in SUBSET F |-> Net(l, s)]
<1>1. ASSUME NEW s \in SUBSET F
      PROVE  g[s] = IF s = {} THEN 0 ELSE Amount(l, Pick(s)) + g[s \ {Pick(s)}]
  <2>1. CASE s = {}
    BY <2>1, NetOfNone
  <2>2. CASE s # {}
    <3> DEFINE x == Pick(s)
    <3>1. x \in s
      BY <2>2 DEF Pick
    <3>2. IsFiniteSet(s)
      BY FS_Subset
    <3> HIDE DEF x
    <3>3. Net(l, s) = Amount(l, x) + Net(l, s \ {x})
      BY <3>1, <3>2, NetAdd
    <3> QED
      BY <2>2, <3>3 DEF x
  <2> QED
    BY <2>1, <2>2
<1>2. g = [s \in SUBSET F |-> IF s = {} THEN 0 ELSE Amount(l, Pick(s)) + g[s \ {Pick(s)}]]
  <2> HIDE DEF g
  <2>1. g = [s \in SUBSET F |-> g[s]]
    BY DEF g
  <2> QED
    BY <1>1, <2>1
<1> HIDE DEF g
<1>3. Adds(g, l, F)
  BY <1>2 DEF Adds
<1> QED
  BY <1>3

(* A sum is a balance. *)
LEMMA SumIsNet ==
  ASSUME NEW F, IsFiniteSet(F), NEW l, \A x \in F : Amount(l, x) \in Int
  PROVE  SumOver(l, F) = Net(l, F)
<1> DEFINE g == CHOOSE g : Adds(g, l, F)
<1>1. Adds(g, l, F)
  BY AddsExists
<1>2. SumOver(l, F) = g[F]
  BY DEF SumOver, MapThenSumSet, MapThenFoldSet, Adds, Amount, Pick
<1> QED
  BY <1>1, <1>2, AddsNet

(* A sum of numbers is a number. *)
LEMMA SumInt ==
  ASSUME NEW F, IsFiniteSet(F), NEW l, \A x \in F : Amount(l, x) \in Int
  PROVE  SumOver(l, F) \in Int
<1>1. PICK a, b : a = Cardinality(Units(l, F, TRUE)) /\ b = Cardinality(Units(l, F, FALSE))
  OBVIOUS
<1>2. a \in Nat /\ b \in Nat
  BY <1>1, UnitsFinite, FS_CardinalityType
<1>3. a - b \in Int
  BY <1>2
<1>4. SumOver(l, F) = a - b
  BY <1>1, SumIsNet DEF Net
<1> QED
  BY <1>3, <1>4

(* Nothing adds up to nothing. *)
LEMMA SumEmpty ==
  ASSUME NEW l
  PROVE  SumOver(l, {}) = 0
BY SumIsNet, NetOfNone, FS_EmptySet

(* One element more adds its amount. *)
LEMMA SumAdd ==
  ASSUME NEW F, IsFiniteSet(F), NEW y, y \notin F, NEW l,
         \A x \in F \cup {y} : Amount(l, x) \in Int
  PROVE  SumOver(l, F \cup {y}) = SumOver(l, F) + Amount(l, y)
<1> DEFINE G == F \cup {y}
<1>1. IsFiniteSet(G)
  BY FS_AddElement
<1>2. G \ {y} = F /\ y \in G
  OBVIOUS
<1>3. \A x \in G : Amount(l, x) \in Int
  OBVIOUS
<1> HIDE DEF G
<1>4. Net(l, G) = Amount(l, y) + Net(l, F) /\ Net(l, F) \in Int /\ Amount(l, y) \in Int
  BY <1>1, <1>2, <1>3, NetAdd
<1>5. SumOver(l, G) = Net(l, G) /\ SumOver(l, F) = Net(l, F)
  BY <1>1, <1>3, SumIsNet
<1>6. SumOver(l, G) = SumOver(l, F) + Amount(l, y)
  BY <1>4, <1>5
<1> QED
  BY <1>6 DEF G

(* A sum over events of the log is the same in any longer log. *)
LEMMA SumSame ==
  ASSUME NEW F, IsFiniteSet(F), NEW l, NEW m,
         \A x \in F : Amount(l, x) \in Int /\ Amount(m, x) = Amount(l, x)
  PROVE  SumOver(m, F) = SumOver(l, F)
<1>1. \A brought \in BOOLEAN : Units(m, F, brought) = Units(l, F, brought)
  BY DEF Units, Size
<1>2. SumOver(l, F) = Net(l, F) /\ SumOver(m, F) = Net(m, F)
  BY SumIsNet
<1> QED
  BY <1>1, <1>2 DEF Net

-----------------------------------------------------------------------------
(***************************************************************************)
(* What the rows are.  A table is the fold of the events its projections   *)
(* have folded, less those still to be folded by an append or a rebuild,   *)
(* until a doubt is cast on it or while a rebuild heals it.                *)
(***************************************************************************)
(* The row that a set of folds leaves (Expected, of any set of folds). *)
RowOf(F) ==
  LET deleted == Latest({fold \in F : Op(fold).op = "delete"})
      after   == {fold \in F : fold[1] > deleted}
  IN [live  |-> after # {},
      last  |-> Latest({fold \in after : Op(fold).set}),
      total |-> Sum(after)]

(* Folds into table b for tenant t: every one the log calls for, and those   *)
(* that an append handler or a rebuild has yet to do.                        *)
AllAbout(b, t) ==
  {f \in (1..Len(log)) \X Projections : f[2] \in In(b) /\ f[1] \in FoldedEvents(f[2], t)}
Missing ==
  {f \in (1..Len(log)) \X Projections :
     \/ \E h \in Handlers : f \in todo[h]
     \/ \E r \in Rebuilders : f[2] \in cur[r] /\ f[1] \in replay[r]}

(* The folds about a row that happened, and the upserts of a set of folds.   *)
Done(b, t, id)  == About(b, t, id) \ Missing
Upserts(F)      == {f \in F : Op(f).op = "upsert"}

(* Where rows must be those of the folds that happened: no doubt was cast, or *)
(* a rebuild that heals the table has wiped it.                               *)
Trusted(b, t) ==
  \/ doubt[b][t] = {}
  \/ \E r \in Rebuilders : TenantOf[r] = t /\ \E p \in cur[r] \cap heals[r] : tableOf[p] = b

(* An event is folded by one handler, and a handler folds for one tenant. *)
JobInv ==
  /\ \A h \in Handlers : \A j, k \in todo[h] : log[j[1]].tenant = log[k[1]].tenant
  /\ \A g, h \in Handlers : g # h => todo[g] \cap todo[h] = {}
  /\ \A r \in Rebuilders : queue[r] \cap cur[r] = {}

(* A rebuild heals a table while nobody else is at work on it, no other      *)
(* definition fills it and no event came after the rebuild's snapshot.       *)
PeaceInv ==
  \A r \in Rebuilders : \A p \in (queue[r] \cup cur[r]) \cap heals[r] :
    /\ ~Shared(p)
    /\ \A h \in Handlers : ~Folding(h, tableOf[p], TenantOf[r])
    /\ \A q \in Rebuilders : q # r => ~Rebuilding(q, tableOf[p], TenantOf[r])
    /\ FoldedEvents(p, TenantOf[r]) \subseteq 1..snap[r]

(* Where no doubt was cast, nobody overlapped: a rebuild heals what it wipes, *)
(* it is alone, and one handler at a time folds into rows where order counts. *)
DoubtInv ==
  /\ \A r \in Rebuilders :
       /\ \A p \in queue[r] : doubt[tableOf[p]][TenantOf[r]] = {} => Shared(p) \/ p \in heals[r]
       /\ \A p \in cur[r] : doubt[tableOf[p]][TenantOf[r]] = {} => p \in heals[r]
  /\ \A b \in Tables, t \in Tenants : "crossed" \notin doubt[b][t] =>
       \A r \in Rebuilders : Rebuilding(r, b, t) =>
         /\ \A h \in Handlers : ~Folding(h, b, t)
         /\ \A q \in Rebuilders : q # r => ~Rebuilding(q, b, t)
  /\ \A b \in Tables, t \in Tenants : doubt[b][t] = {} /\ ~Counter(b) =>
       \A g, h \in Handlers : Folding(g, b, t) /\ Folding(h, b, t) => g = h

(* Trusted rows are the fold of what was done. *)
ShownInv ==
  \A b \in Tables, t \in Tenants, id \in Ids : Trusted(b, t) => view[b][t][id] = RowOf(Done(b, t, id))

(* What is done of a trusted table came before what is missing, unless its   *)
(* rows only count.                                                          *)
OrderInv ==
  \A b \in Tables, t \in Tenants : Trusted(b, t) /\ ~Counter(b) =>
    \A d \in AllAbout(b, t) \ Missing, m \in AllAbout(b, t) \cap Missing : d[1] <= m[1]

(* Unless a rebuild crossed other work, a row counts some of the upserts that *)
(* were done, each of them once.                                              *)
TotalInv ==
  \A b \in Tables, t \in Tenants, id \in Ids : "crossed" \notin doubt[b][t] =>
    AddsUp(view[b][t][id].total, Upserts(Done(b, t, id)))

(* Inductive together with IInv. *)
FInv == JobInv /\ PeaceInv /\ DoubtInv /\ ShownInv /\ OrderInv /\ TotalInv

-----------------------------------------------------------------------------
(***************************************************************************)
(* Rows as folds: the latest event, a table's finite set of folds, the row  *)
(* they leave, and what one more fold makes of it.                         *)
(***************************************************************************)
LEMMA MaxIn ==
  ASSUME NEW N \in Nat, NEW S \in SUBSET (0..N), S # {}
  PROVE  Max(S) \in S /\ \A y \in S : y <= Max(S)
<1> DEFINE U == {n \in 0..N : \A y \in S : y <= n}
           m == First(U)
<1>1. m \in U /\ \A d \in U : m <= d
  <2>1. N \in U /\ U \subseteq Nat
    OBVIOUS
  <2> HIDE DEF U
  <2> QED
    BY <2>1, FirstIn
<1> HIDE DEF m
<1>2. m \in S
  <2> SUFFICES ASSUME m \notin S PROVE FALSE
    OBVIOUS
  <2>1. \A y \in S : y <= m - 1
    BY <1>1
  <2>2. m - 1 \in 0..N
    <3>1. PICK y \in S : TRUE
      OBVIOUS
    <3>2. y \in 0..N /\ y <= m - 1 /\ m \in 0..N
      BY <1>1, <2>1
    <3> QED
      BY <3>2
  <2>3. m - 1 \in U
    BY <2>1, <2>2
  <2> QED
    BY <1>1, <2>3
<1>3. \A y \in S : m >= y
  BY <1>1
<1>4. \E x \in S : \A y \in S : x >= y
  BY <1>2, <1>3
<1>5. Max(S) \in S /\ \A y \in S : Max(S) >= y
  BY <1>4 DEF Max
<1> QED
  BY <1>5

(* The latest event of a set of folds bounds them, and is one of theirs. *)
LEMMA LatestFacts ==
  ASSUME NEW N \in Nat, NEW F, \A f \in F : f[1] \in 1..N
  PROVE  /\ Latest(F) \in 0..N
         /\ \A f \in F : f[1] <= Latest(F)
         /\ Latest(F) = 0 \/ \E f \in F : f[1] = Latest(F)
<1> DEFINE S == {f[1] : f \in F} \cup {0}
<1>1. S \in SUBSET (0..N) /\ S # {}
  OBVIOUS
<1>2. Latest(F) = Max(S)
  BY DEF Latest
<1>3. Max(S) \in S /\ \A y \in S : y <= Max(S)
  <2> HIDE DEF S
  <2> QED
    BY <1>1, MaxIn
<1> QED
  BY <1>1, <1>2, <1>3

(* No fold, no latest event. *)
LEMMA LatestOfNone == Latest({}) = 0
<1>1. \A f \in {} : f[1] \in 1..0
  OBVIOUS
<1> QED
  BY <1>1, LatestFacts

-----------------------------------------------------------------------------
(* What a fold about a table and a tenant is. *)
LEMMA FoldsFacts ==
  ASSUME DataInv, NEW b \in Tables, NEW t \in Tenants, NEW f \in AllAbout(b, t)
  PROVE  /\ f[1] \in 1..Len(log) /\ f[2] \in Projections /\ f = <<f[1], f[2]>>
         /\ tableOf[f[2]] = b /\ log[f[1]].tenant = t
         /\ HasRule(f[2], log[f[1]]) /\ Foldable(f[2], log[f[1]])
         /\ log[f[1]].type \in Types
         /\ Op(f) \in Rule /\ Op(f).op \in {"upsert", "delete"}
         /\ Op(f).op = "upsert" /\ Op(f).inc => Amount(log, f) \in Int
         /\ Counter(b) => Op(f).op = "upsert" /\ ~Op(f).set
<1>1. /\ f[1] \in 1..Len(log) /\ f[2] \in Projections /\ f = <<f[1], f[2]>>
      /\ tableOf[f[2]] = b /\ log[f[1]].tenant = t
      /\ HasRule(f[2], log[f[1]]) /\ Foldable(f[2], log[f[1]])
  BY DEF AllAbout, In, FoldedEvents
<1>2. /\ Op(f) \in Rule /\ Op(f).op \in {"upsert", "delete"}
      /\ Op(f).op = "upsert" /\ Op(f).inc => Amount(log, f) \in Int
  BY <1>1, FoldFacts DEF Op, Amount
<1>3. log[f[1]].type \in Types
  BY <1>1, FoldFacts DEF Event
<1>4. Counter(b) => Op(f).op = "upsert" /\ ~Op(f).set
  BY <1>1, <1>3, <1>2 DEF Counter, In, Op, RuleFor
<1> QED
  BY <1>1, <1>2, <1>3, <1>4

(* A shared row is not deleted and written by one event. *)
LEMMA NoConflict ==
  ASSUME DataInv, NEW b \in Tables, NEW t \in Tenants, NEW f \in AllAbout(b, t), NEW g \in AllAbout(b, t),
         f[1] = g[1], Op(f).op = "delete"
  PROVE  Op(g).op # "upsert"
<1>1. log[f[1]].type \in Types
  BY FoldsFacts
<1>2. /\ f[2] \in Projections /\ g[2] \in Projections /\ tableOf[f[2]] = tableOf[g[2]]
  BY FoldsFacts
<1>3. tableOf \in Layouts
  BY DEF DataInv
<1> QED
  BY <1>1, <1>2, <1>3, ProjectorAssumption DEF Op, RuleFor

(* The folds about a row are folds about its table. *)
LEMMA AboutIn ==
  ASSUME DataInv, NEW b, NEW t, NEW id
  PROVE  /\ About(b, t, id) = {f \in AllAbout(b, t) : RowId(f[2], log[f[1]]) = id}
         /\ About(b, t, id) \subseteq AllAbout(b, t)
<1>1. ASSUME NEW f \in About(b, t, id)
      PROVE  f \in AllAbout(b, t) /\ RowId(f[2], log[f[1]]) = id
  <2>1. PICK p \in In(b) : f \in {<<s, p>> : s \in {d \in FoldedEvents(p, t) : RowId(p, log[d]) = id}}
    BY DEF About
  <2>2. PICK s \in FoldedEvents(p, t) : f = <<s, p>> /\ RowId(p, log[s]) = id
    BY <2>1
  <2> QED
    BY <2>1, <2>2 DEF AllAbout, In, FoldedEvents
<1>2. ASSUME NEW f \in AllAbout(b, t), RowId(f[2], log[f[1]]) = id
      PROVE  f \in About(b, t, id)
  <2>1. f = <<f[1], f[2]>> /\ f[2] \in In(b) /\ f[1] \in FoldedEvents(f[2], t)
    BY DEF AllAbout
  <2>2. f \in {<<s, f[2]>> : s \in {d \in FoldedEvents(f[2], t) : RowId(f[2], log[d]) = id}}
    BY <1>2, <2>1
  <2> QED
    BY <2>1, <2>2 DEF About
<1> QED
  BY <1>1, <1>2

(* A log has finitely many events and a registry finitely many *)
(* projections: a table has finitely many folds.               *)
LEMMA FoldsFinite ==
  ASSUME DataInv, NEW b, NEW t, NEW F, F \subseteq AllAbout(b, t)
  PROVE  IsFiniteSet(F)
<1>1. Len(log) \in Nat
  BY DEF DataInv
<1>2. IsFiniteSet(1..Len(log))
  BY <1>1, FS_Interval
<1> DEFINE L == 1..Len(log)
<1> HIDE DEF L
<1>3. IsFiniteSet(L \X Projections)
  BY <1>2, ProjectorAssumption, FS_Product DEF L
<1>4. F \in SUBSET (L \X Projections)
  BY DEF AllAbout, L
<1> QED
  BY <1>3, <1>4, FS_Subset

(* The sum of a set of folds is over those that count. *)
LEMMA SumOfFolds ==
  ASSUME NEW F
  PROVE  Sum(F) = SumOver(log, {f \in F : Op(f).inc})
BY DEF Sum, SumOver

Deletes(F) == {f \in F : Op(f).op = "delete"}
Since(F)   == {f \in F : f[1] > Latest(Deletes(F))}

(* A row is made of the folds since the last delete. *)
LEMMA RowOfSince ==
  ASSUME NEW F
  PROVE  /\ RowOf(F).live = (Since(F) # {})
         /\ RowOf(F).last = Latest({f \in Since(F) : Op(f).set})
         /\ RowOf(F).total = Sum(Since(F))
         /\ RowOf(F) = [live |-> Since(F) # {}, last |-> Latest({f \in Since(F) : Op(f).set}),
                        total |-> Sum(Since(F))]
BY Zenon DEF RowOf, Since, Deletes

(* No fold counts nothing. *)
LEMMA SumOfNone == Sum({}) = 0
<1>1. {f \in {} : Op(f).inc} = {}
  OBVIOUS
<1> QED
  BY <1>1, SumOfFolds, SumEmpty

(* No fold leaves no row. *)
LEMMA RowOfNone == RowOf({}) = NoRow
<1>1. Since({}) = {} /\ {f \in Since({}) : Op(f).set} = {}
  BY DEF Since
<1> QED
  BY <1>1, RowOfSince, SumOfNone, LatestOfNone DEF NoRow

(* Since the last delete there are only upserts. *)
LEMMA SinceAreUpserts ==
  ASSUME DataInv, NEW b \in Tables, NEW t \in Tenants, NEW F, F \subseteq AllAbout(b, t)
  PROVE  /\ Since(F) \subseteq Upserts(F)
         /\ Latest(Deletes(F)) \in 0..Len(log)
         /\ \A f \in Deletes(F) : f[1] <= Latest(Deletes(F))
         /\ Latest(Deletes(F)) = 0 \/ \E f \in Deletes(F) : f[1] = Latest(Deletes(F))
<1>1. \A f \in F : f[1] \in 1..Len(log) /\ Op(f).op \in {"upsert", "delete"}
  BY FoldsFacts
<1>2. \A f \in Deletes(F) : f[1] \in 1..Len(log)
  BY <1>1 DEF Deletes
<1>3. Len(log) \in Nat
  BY DEF DataInv
<1>4. /\ Latest(Deletes(F)) \in 0..Len(log)
      /\ \A f \in Deletes(F) : f[1] <= Latest(Deletes(F))
      /\ Latest(Deletes(F)) = 0 \/ \E f \in Deletes(F) : f[1] = Latest(Deletes(F))
  BY <1>2, <1>3, LatestFacts
<1>5. ASSUME NEW f \in Since(F), Op(f).op = "delete"
      PROVE  FALSE
  <2>1. f \in Deletes(F) /\ f[1] > Latest(Deletes(F))
    BY <1>5 DEF Since, Deletes
  <2> QED
    BY <2>1, <1>2, <1>4
<1>6. Since(F) \subseteq F
  BY DEF Since
<1> QED
  BY <1>1, <1>4, <1>5, <1>6 DEF Upserts

(* Amounts that are added are numbers. *)
LEMMA AmountsAdd ==
  ASSUME DataInv, NEW b \in Tables, NEW t \in Tenants, NEW F, F \subseteq AllAbout(b, t),
         \A f \in F : Op(f).op = "upsert"
  PROVE  /\ IsFiniteSet({f \in F : Op(f).inc})
         /\ \A f \in {f \in F : Op(f).inc} : Amount(log, f) \in Int
         /\ Sum(F) \in Int
<1>1. {f \in F : Op(f).inc} \subseteq AllAbout(b, t)
  OBVIOUS
<1>2. IsFiniteSet({f \in F : Op(f).inc})
  BY <1>1, FoldsFinite
<1>3. \A f \in {f \in F : Op(f).inc} : Amount(log, f) \in Int
  BY FoldsFacts
<1> QED
  BY <1>2, <1>3, SumInt, SumOfFolds

(* One more upsert adds its amount, if it counts. *)
LEMMA SumOfOneMore ==
  ASSUME DataInv, NEW b \in Tables, NEW t \in Tenants, NEW F, F \subseteq AllAbout(b, t),
         NEW j \in AllAbout(b, t), j \notin F, \A f \in F \cup {j} : Op(f).op = "upsert"
  PROVE  Sum(F \cup {j}) = IF Op(j).inc THEN Sum(F) + log[j[1]].amount ELSE Sum(F)
<1> DEFINE G == {f \in F : Op(f).inc}
<1>1. F \cup {j} \subseteq AllAbout(b, t)
  OBVIOUS
<1>2. /\ IsFiniteSet(G) /\ \A f \in {f \in F \cup {j} : Op(f).inc} : Amount(log, f) \in Int
  BY <1>1, AmountsAdd
<1>3. CASE Op(j).inc
  <2>1. {f \in F \cup {j} : Op(f).inc} = G \cup {j} /\ j \notin G
    BY <1>3
  <2>2. \A f \in G \cup {j} : Amount(log, f) \in Int
    BY <1>2, <2>1
  <2>3. SumOver(log, G \cup {j}) = SumOver(log, G) + Amount(log, j)
    <3> HIDE DEF G
    <3> QED
      BY <1>2, <2>1, <2>2, SumAdd
  <2>4. Sum(F \cup {j}) = SumOver(log, G \cup {j}) /\ Sum(F) = SumOver(log, G)
    BY <2>1, SumOfFolds
  <2> QED
    BY <1>3, <2>3, <2>4 DEF Amount
<1>4. CASE ~ Op(j).inc
  <2>1. {f \in F \cup {j} : Op(f).inc} = G
    BY <1>4
  <2> QED
    BY <1>4, <2>1, SumOfFolds
<1> QED
  BY <1>3, <1>4

(* A total that some folds of F add up to, some of more folds do. *)
LEMMA AddsUpWithMore ==
  ASSUME NEW G, NEW F, F \subseteq G, NEW total, AddsUp(total, F)
  PROVE  AddsUp(total, G)
<1>1. PICK counted \in SUBSET F : total = Sum(counted)
  BY DEF AddsUp
<1>2. counted \in SUBSET G
  OBVIOUS
<1> QED
  BY <1>1, <1>2 DEF AddsUp

(* Nothing counted adds up to a new row's total. *)
LEMMA AddsUpToNothing ==
  ASSUME NEW F
  PROVE  AddsUp(0, F)
<1>1. {} \in SUBSET F
  OBVIOUS
<1> QED
  BY <1>1, SumOfNone DEF AddsUp

(* One more upsert, which was not counted, keeps a total adding up. *)
LEMMA AddsUpToOneMore ==
  ASSUME DataInv, NEW b \in Tables, NEW t \in Tenants, NEW F, F \subseteq AllAbout(b, t),
         NEW j \in AllAbout(b, t), j \notin F, \A f \in F \cup {j} : Op(f).op = "upsert",
         NEW total, AddsUp(total, F)
  PROVE  AddsUp(IF Op(j).inc THEN total + log[j[1]].amount ELSE total, F \cup {j})
<1>1. PICK counted \in SUBSET F : total = Sum(counted)
  BY DEF AddsUp
<1>2. /\ counted \subseteq AllAbout(b, t) /\ j \notin counted
      /\ \A f \in counted \cup {j} : Op(f).op = "upsert"
  OBVIOUS
<1>3. Sum(counted \cup {j}) = IF Op(j).inc THEN Sum(counted) + log[j[1]].amount ELSE Sum(counted)
  BY <1>2, SumOfOneMore
<1>4. counted \cup {j} \in SUBSET (F \cup {j})
  OBVIOUS
<1> QED
  BY <1>1, <1>3, <1>4 DEF AddsUp

-----------------------------------------------------------------------------
(* One more fold, the last one in order, or one of those that only count,    *)
(* does to the row of the others what the statement does to it.              *)
LEMMA RowOfOneMore ==
  ASSUME DataInv, NEW b \in Tables, NEW t \in Tenants, NEW F, F \subseteq AllAbout(b, t),
         NEW j \in AllAbout(b, t), j \notin F,
         Counter(b) \/ \A f \in F : f[1] <= j[1]
  PROVE  RowOf(F \cup {j}) = IF Op(j).op = "delete" THEN NoRow
                             ELSE Upsert(Op(j), RowOf(F), j[1], log[j[1]].amount)
<1> DEFINE G == F \cup {j}
           D == Latest(Deletes(F))
<1>0. Len(log) \in Nat
  BY DEF DataInv
<1>1. /\ j[1] \in 1..Len(log) /\ Op(j).op \in {"upsert", "delete"}
      /\ Counter(b) => Op(j).op = "upsert" /\ ~Op(j).set
  BY FoldsFacts
<1>2. \A f \in F : f[1] \in 1..Len(log) /\ (Counter(b) => Op(f).op = "upsert")
  BY FoldsFacts
<1>3. G \subseteq AllAbout(b, t)
  OBVIOUS
<1>4. CASE Op(j).op = "delete"
  <2>1. (\A f \in G : f[1] <= j[1]) /\ j \in Deletes(G)
    BY <1>1, <1>2, <1>4 DEF Deletes
  <2> HIDE DEF G
  <2>2. j[1] <= Latest(Deletes(G)) /\ Latest(Deletes(G)) \in Nat
    <3>1. /\ Latest(Deletes(G)) \in 0..Len(log)
          /\ \A f \in Deletes(G) : f[1] <= Latest(Deletes(G))
      BY <1>3, SinceAreUpserts
    <3> QED
      BY <2>1, <3>1, <1>0
  <2> USE DEF G
  <2>3. Since(G) = {}
    BY <2>1, <2>2, <1>1, <1>2 DEF Since
  <2>4. {f \in Since(G) : Op(f).set} = {}
    BY <2>3
  <2> HIDE DEF G
  <2>5. RowOf(G) = NoRow
    BY <2>3, <2>4, RowOfSince, SumOfNone, LatestOfNone DEF NoRow
  <2> QED
    BY <1>4, <2>5 DEF G
<1>5. CASE Op(j).op = "upsert"
  <2>1. Deletes(G) = Deletes(F)
    BY <1>5 DEF Deletes
  <2>2. /\ D \in 0..Len(log) /\ (D = 0 \/ \E f \in Deletes(F) : f[1] = D)
        /\ Since(F) \subseteq Upserts(F)
    BY SinceAreUpserts
  <2>3. j[1] > D
    <3>1. CASE D = 0
      BY <1>1, <3>1
    <3>2. CASE D # 0
      <4>1. PICK f \in Deletes(F) : f[1] = D
        BY <2>2, <3>2
      <4>2. f \in F /\ Op(f).op = "delete" /\ ~ Counter(b)
        BY <4>1, <1>2 DEF Deletes
      <4>3. f[1] <= j[1]
        BY <4>2
      <4>4. f[1] # j[1]
        BY <4>2, <1>5, NoConflict
      <4> QED
        BY <4>1, <4>2, <4>3, <4>4, <1>1, <1>2, <1>0
    <3> QED
      BY <3>1, <3>2
  <2>4. Since(G) = Since(F) \cup {j}
    BY <2>1, <2>3 DEF Since
  <2>5. RowOf(G).live = TRUE /\ Since(G) # {}
    BY <2>4, RowOfSince
  <2>6. Latest({f \in Since(G) : Op(f).set}) = IF Op(j).set THEN j[1] ELSE RowOf(F).last
    <3>1. CASE Op(j).set
      <4>1. \A f \in {f \in Since(G) : Op(f).set} : f[1] \in 1..j[1]
        BY <1>1, <1>2, <2>4, <3>1 DEF Since
      <4>2. j \in {f \in Since(G) : Op(f).set} /\ j[1] \in Nat
        <5>1. j[1] \in Nat
          BY <1>0, <1>1
        <5>2. j \in Since(G)
          BY <2>4
        <5> QED
          BY <3>1, <5>1, <5>2
      <4> DEFINE S == {f \in Since(G) : Op(f).set}
      <4> HIDE DEF S
      <4>3. Latest(S) \in 0..j[1] /\ j[1] <= Latest(S)
        BY <4>1, <4>2, LatestFacts DEF S
      <4>4. Latest(S) = j[1]
        BY <4>2, <4>3
      <4> QED
        BY <3>1, <4>4 DEF S
    <3>2. CASE ~ Op(j).set
      <4>1. {f \in Since(G) : Op(f).set} = {f \in Since(F) : Op(f).set}
        BY <2>4, <3>2
      <4> QED
        BY <3>2, <4>1, RowOfSince
    <3> QED
      BY <3>1, <3>2
  <2>7. Sum(Since(G)) = IF Op(j).inc THEN RowOf(F).total + log[j[1]].amount ELSE RowOf(F).total
    <3>1. /\ Since(F) \subseteq AllAbout(b, t) /\ j \notin Since(F)
          /\ \A f \in Since(F) \cup {j} : Op(f).op = "upsert"
      BY <1>5, <2>2 DEF Since, Upserts
    <3>2. Sum(Since(F) \cup {j}) = IF Op(j).inc THEN Sum(Since(F)) + log[j[1]].amount ELSE Sum(Since(F))
      BY <3>1, SumOfOneMore
    <3> QED
      BY <2>4, <3>2, RowOfSince
  <2> HIDE DEF G
  <2>8. RowOf(G) = [live |-> TRUE, last |-> IF Op(j).set THEN j[1] ELSE RowOf(F).last,
                    total |-> IF Op(j).inc THEN RowOf(F).total + log[j[1]].amount ELSE RowOf(F).total]
    BY <2>5, <2>6, <2>7, RowOfSince
  <2>9. RowOf(G) = Upsert(Op(j), RowOf(F), j[1], log[j[1]].amount)
    BY <2>8 DEF Upsert
  <2> QED
    BY <1>5, <2>9 DEF G
<1> QED
  BY <1>1, <1>4, <1>5

(* The log and the tables' layout decide what should be shown. *)
LEMMA SameFoldsOfLog ==
  ASSUME UNCHANGED <<log, tableOf>>
  PROVE  /\ \A F : RowOf(F)' = RowOf(F) /\ Sum(F)' = Sum(F) /\ Upserts(F)' = Upserts(F)
         /\ \A b, t : AllAbout(b, t)' = AllAbout(b, t)
         /\ \A b, t, id : About(b, t, id)' = About(b, t, id)
         /\ \A b : Counter(b)' = Counter(b)
         /\ \A p : Shared(p)' = Shared(p)
<1>1. \A f : Op(f)' = Op(f)
  BY DEF Op, RuleFor
<1>2. \A F : Sum(F)' = Sum(F)
  <2> SUFFICES ASSUME NEW F PROVE Sum(F)' = Sum(F)
    OBVIOUS
  <2>1. Sum(F)' = SumOver(log', {f \in F : Op(f)'.inc})
    BY Zenon DEF Sum, SumOver, MapThenSumSet, MapThenFoldSet
  <2>2. {f \in F : Op(f)'.inc} = {f \in F : Op(f).inc}
    BY <1>1
  <2> QED
    BY <2>1, <2>2, SumOfFolds
<1>3. \A F : Latest(F)' = Latest(F)
  BY DEF Latest
<1>4. \A F : RowOf(F)' = RowOf(F)
  <2> SUFFICES ASSUME NEW F PROVE RowOf(F)' = RowOf(F)
    OBVIOUS
  <2>1. {fold \in F : Op(fold).op = "delete"}' = {fold \in F : Op(fold).op = "delete"}
    BY <1>1
  <2> QED
    BY <1>1, <1>2, <1>3, <2>1 DEF RowOf
<1>5. \A F : Upserts(F)' = Upserts(F)
  BY <1>1 DEF Upserts
<1>6. \A b : In(b)' = In(b)
  BY DEF In
<1>7. \A b, t : AllAbout(b, t)' = AllAbout(b, t)
  BY <1>6, SameLog DEF AllAbout
<1>8. \A b, t, id : About(b, t, id)' = About(b, t, id)
  BY <1>6, SameLog DEF About, RowId, RuleFor
<1>9. \A b : Counter(b)' = Counter(b)
  BY <1>6 DEF Counter
<1>10. \A p : Shared(p)' = Shared(p)
  BY <1>6 DEF Shared
<1> QED
  BY <1>2, <1>4, <1>5, <1>7, <1>8, <1>9, <1>10

(* Folds of the log, into the tables they belong to. *)
LEMMA FoldIsAbout ==
  ASSUME DataInv, NEW p \in Projections, NEW s \in 1..Len(log), HasRule(p, log[s]), Foldable(p, log[s]),
         NEW b \in Tables, NEW t \in Tenants
  PROVE  /\ <<s, p>> \in AllAbout(b, t) <=> b = tableOf[p] /\ t = log[s].tenant
         /\ \A id : <<s, p>> \in About(b, t, id) <=>
                      b = tableOf[p] /\ t = log[s].tenant /\ id = RowId(p, log[s])
<1>1. <<s, p>> \in AllAbout(b, t) <=> b = tableOf[p] /\ t = log[s].tenant
  BY DEF AllAbout, In, FoldedEvents
<1>2. \A id : About(b, t, id) = {f \in AllAbout(b, t) : RowId(f[2], log[f[1]]) = id}
  BY AboutIn
<1> QED
  BY <1>1, <1>2

(* N is what is missing once event s is folded by p. *)
LEMMA RowAfterFold ==
  ASSUME IInv, ShownInv, OrderInv, NEW p \in Projections, NEW s \in 1..Len(log), HasRule(p, log[s]), Foldable(p, log[s]),
         NEW j \in Missing, j = <<s, p>>, NEW b \in Tables, NEW t \in Tenants, Trusted(b, t), NEW N,
         \A f \in AllAbout(b, t) : f \in N <=> f \in Missing /\ f # j,
         NEW id \in Ids
  PROVE  Applied(p, s)[b][t][id] = RowOf(About(b, t, id) \ N)
<1> DEFINE F == About(b, t, id) \ Missing
<1>0. DataInv
  BY DEF IInv
<1>1. view[b][t][id] = RowOf(F)
  BY DEF ShownInv, Done
<1>2. Applied(p, s)[b][t][id] = IF b = tableOf[p] /\ t = log[s].tenant /\ id = RowId(p, log[s])
                                THEN NewRow(p, s) ELSE view[b][t][id]
  BY <1>0, AppliedRows
<1>3. F \subseteq AllAbout(b, t) /\ About(b, t, id) \subseteq AllAbout(b, t)
  BY <1>0, AboutIn
<1>4. CASE ~ (b = tableOf[p] /\ t = log[s].tenant /\ id = RowId(p, log[s]))
  <2>1. j \notin About(b, t, id)
    BY <1>0, <1>4, FoldIsAbout
  <2>2. About(b, t, id) \ N = F
    BY <1>3, <2>1
  <2> QED
    BY <1>1, <1>2, <1>4, <2>2
<1>5. CASE b = tableOf[p] /\ t = log[s].tenant /\ id = RowId(p, log[s])
  <2>1. j \in About(b, t, id) /\ j \in AllAbout(b, t) /\ j \notin F
    BY <1>0, <1>5, FoldIsAbout
  <2>2. About(b, t, id) \ N = F \cup {j}
    BY <1>3, <2>1
  <2>3. Counter(b) \/ \A f \in F : f[1] <= j[1]
    BY <1>3, <2>1 DEF OrderInv
  <2> HIDE DEF F
  <2>4. RowOf(F \cup {j}) = IF Op(j).op = "delete" THEN NoRow
                             ELSE Upsert(Op(j), RowOf(F), j[1], log[j[1]].amount)
    BY <1>0, <1>3, <2>1, <2>3, RowOfOneMore
  <2>5. NewRow(p, s) = IF Op(j).op = "delete" THEN NoRow
                       ELSE Upsert(Op(j), view[b][t][id], s, log[s].amount)
    BY <1>5 DEF NewRow, Op
  <2> QED
    BY <1>1, <1>2, <1>5, <2>2, <2>4, <2>5
<1> QED
  BY <1>4, <1>5

(* After a missing fold is folded, trusted rows are those of the folds done. *)
LEMMA ShownAfterFold ==
  ASSUME IInv, ShownInv, OrderInv, NEW p \in Projections, NEW s \in 1..Len(log), HasRule(p, log[s]), Foldable(p, log[s]),
         <<s, p>> \in Missing, NEW b \in Tables, NEW t \in Tenants, Trusted(b, t), NEW N,
         \A f \in AllAbout(b, t) : f \in N <=> f \in Missing /\ f # <<s, p>>,
         NEW id \in Ids
  PROVE  Applied(p, s)[b][t][id] = RowOf(About(b, t, id) \ N)
<1>1. PICK j \in Missing : j = <<s, p>>
  OBVIOUS
<1>2. \A f \in AllAbout(b, t) : f \in N <=> f \in Missing /\ f # j
  BY <1>1
<1> QED
  BY <1>1, <1>2, RowAfterFold

(* Folding the earliest missing fold leaves the done before the missing. *)
LEMMA OrderAfterFold ==
  ASSUME OrderInv, NEW j, NEW b \in Tables, NEW t \in Tenants, Trusted(b, t), NEW N,
         \A f \in AllAbout(b, t) : f \in N <=> f \in Missing /\ f # j,
         ~Counter(b), j \in AllAbout(b, t) => \A m \in AllAbout(b, t) \cap Missing : j[1] <= m[1]
  PROVE  \A d \in AllAbout(b, t) \ N, m \in AllAbout(b, t) \cap N : d[1] <= m[1]
<1> SUFFICES ASSUME NEW d \in AllAbout(b, t) \ N, NEW m \in AllAbout(b, t) \cap N PROVE d[1] <= m[1]
  OBVIOUS
<1>1. m \in AllAbout(b, t) \cap Missing
  OBVIOUS
<1>2. CASE d = j
  BY <1>1, <1>2
<1>3. CASE d # j
  <2>1. d \in AllAbout(b, t) \ Missing
    BY <1>3
  <2> QED
    BY <1>1, <2>1 DEF OrderInv
<1> QED
  BY <1>2, <1>3

(* What adds up still does when more was done. *)
LEMMA TotalWithMore ==
  ASSUME IInv, TotalInv, NEW b \in Tables, NEW t \in Tenants, "crossed" \notin doubt[b][t],
         NEW N, AllAbout(b, t) \cap N \subseteq Missing, NEW id \in Ids
  PROVE  AddsUp(view[b][t][id].total, Upserts(About(b, t, id) \ N))
<1>1. AddsUp(view[b][t][id].total, Upserts(Done(b, t, id)))
  BY DEF TotalInv
<1>2. Upserts(Done(b, t, id)) \subseteq Upserts(About(b, t, id) \ N)
  BY AboutIn DEF IInv, Done, Upserts
<1> QED
  BY <1>1, <1>2, AddsUpWithMore

(* After a fold, totals are sums of upserts done. *)
LEMMA TotalAfterFold ==
  ASSUME IInv, TotalInv, NEW p \in Projections, NEW s \in 1..Len(log), HasRule(p, log[s]), Foldable(p, log[s]),
         <<s, p>> \in Missing, NEW b \in Tables, NEW t \in Tenants, "crossed" \notin doubt[b][t],
         NEW N, AllAbout(b, t) \cap N \subseteq Missing, <<s, p>> \in AllAbout(b, t) => <<s, p>> \notin N,
         NEW id \in Ids
  PROVE  AddsUp(Applied(p, s)[b][t][id].total, Upserts(About(b, t, id) \ N))
<1> DEFINE j == <<s, p>>
           F == Upserts(Done(b, t, id))
           G == Upserts(About(b, t, id) \ N)
           rule == RuleFor(p, log[s])
<1>0. DataInv
  BY DEF IInv
<1>1. Applied(p, s)[b][t][id] = IF b = tableOf[p] /\ t = log[s].tenant /\ id = RowId(p, log[s])
                                THEN NewRow(p, s) ELSE view[b][t][id]
  BY <1>0, AppliedRows
<1>2. AddsUp(view[b][t][id].total, G)
  BY TotalWithMore
<1>3. G \subseteq AllAbout(b, t) /\ F \subseteq G /\ (\A f \in G : Op(f).op = "upsert")
  BY <1>0, AboutIn DEF Done, Upserts
<1>4. CASE ~ (b = tableOf[p] /\ t = log[s].tenant /\ id = RowId(p, log[s]))
  BY <1>1, <1>2, <1>4
<1>5. CASE b = tableOf[p] /\ t = log[s].tenant /\ id = RowId(p, log[s])
  <2>1. j \in About(b, t, id) /\ j \in AllAbout(b, t) /\ j \notin N
    BY <1>0, <1>5, FoldIsAbout
  <2>2. CASE rule.op = "delete"
    <3>1. Applied(p, s)[b][t][id].total = 0
      BY <1>1, <1>5, <2>2 DEF NewRow, NoRow
    <3> HIDE DEF G
    <3>2. AddsUp(Applied(p, s)[b][t][id].total, G)
      BY <3>1, AddsUpToNothing
    <3> QED
      BY <3>2 DEF G
  <2>3. CASE rule.op = "upsert"
    <3>1. Op(j) = rule
      BY DEF Op
    <3>2. F \cup {j} \subseteq G /\ j \notin F
      BY <1>3, <2>1, <2>3, <3>1 DEF Upserts, Done
    <3>3. Applied(p, s)[b][t][id].total =
            IF rule.inc THEN view[b][t][id].total + log[s].amount ELSE view[b][t][id].total
      BY <1>1, <1>5, <2>3 DEF NewRow, Upsert
    <3>4. AddsUp(view[b][t][id].total, F)
      BY DEF TotalInv
    <3>5. j[1] = s
      BY DEF j
    <3> HIDE DEF F, G, rule, j
    <3>6. F \subseteq AllAbout(b, t) /\ \A f \in F \cup {j} : Op(f).op = "upsert"
      BY <1>3, <3>2
    <3>7. AddsUp(IF Op(j).inc THEN view[b][t][id].total + log[j[1]].amount ELSE view[b][t][id].total,
                 F \cup {j})
      BY <1>0, <2>1, <3>2, <3>4, <3>6, AddsUpToOneMore
    <3>8. AddsUp(Applied(p, s)[b][t][id].total, F \cup {j})
      BY <3>1, <3>3, <3>5, <3>7
    <3>9. AddsUp(Applied(p, s)[b][t][id].total, G)
      BY <3>2, <3>8, AddsUpWithMore
    <3> QED
      BY <3>9 DEF G
  <2> QED
    BY <1>0, <2>2, <2>3, FoldFacts
<1> QED
  BY <1>4, <1>5

(* The invariants of the rows, with the new set of missing folds. *)
LEMMA RowsNext ==
  ASSUME UNCHANGED <<log, tableOf>>, NEW N, Missing' = N,
         \A b \in Tables, t \in Tenants : Trusted(b, t)' =>
           /\ \A id \in Ids : view'[b][t][id] = RowOf(About(b, t, id) \ N)
           /\ ~Counter(b) => \A d \in AllAbout(b, t) \ N, m \in AllAbout(b, t) \cap N : d[1] <= m[1],
         \A b \in Tables, t \in Tenants, id \in Ids : "crossed" \notin doubt'[b][t] =>
           AddsUp(view'[b][t][id].total, Upserts(About(b, t, id) \ N))
  PROVE  ShownInv' /\ OrderInv' /\ TotalInv'
<1>1. \A b, t, id : Done(b, t, id)' = About(b, t, id) \ N
  BY SameFoldsOfLog DEF Done
<1>2. \A b, t, id : RowOf(Done(b, t, id))' = RowOf(About(b, t, id) \ N)
  BY <1>1, SameFoldsOfLog
<1>3. \A b, t, id : Upserts(Done(b, t, id))' = Upserts(About(b, t, id) \ N)
  BY <1>1, SameFoldsOfLog
<1>4. ShownInv'
  <2> SUFFICES ASSUME NEW b \in Tables, NEW t \in Tenants, NEW id \in Ids, Trusted(b, t)'
               PROVE  view'[b][t][id] = RowOf(Done(b, t, id))'
    BY DEF ShownInv
  <2>1. view'[b][t][id] = RowOf(About(b, t, id) \ N)
    OBVIOUS
  <2> QED
    BY <1>2, <2>1
<1>5. OrderInv'
  BY SameFoldsOfLog DEF OrderInv
<1>6. TotalInv'
  <2> SUFFICES ASSUME NEW b \in Tables, NEW t \in Tenants, NEW id \in Ids, "crossed" \notin doubt'[b][t]
               PROVE  AddsUp(view[b][t][id].total, Upserts(Done(b, t, id)))'
    BY DEF TotalInv
  <2>1. PICK counted \in SUBSET Upserts(About(b, t, id) \ N) : view'[b][t][id].total = Sum(counted)
    BY DEF AddsUp
  <2>2. counted \in SUBSET Upserts(Done(b, t, id))' /\ Sum(counted)' = Sum(counted)
    BY <1>3, SameFoldsOfLog
  <2> QED
    BY <2>1, <2>2 DEF AddsUp
<1> QED
  BY <1>4, <1>5, <1>6

-----------------------------------------------------------------------------
(***************************************************************************)
(* Who is at work on a table, and what a step of one does to the others.   *)
(***************************************************************************)
(* With the log as it was, who has no work does not disturb anybody. *)
LEMMA LessAtWork ==
  ASSUME UNCHANGED <<log, tableOf>>
  PROVE  /\ \A h \in Handlers : \A b, t : todo'[h] \subseteq todo[h] /\ Folding(h, b, t)' => Folding(h, b, t)
         /\ \A r \in Rebuilders : \A b, t :
              queue'[r] \cup cur'[r] \subseteq queue[r] \cup cur[r] /\ Rebuilding(r, b, t)' => Rebuilding(r, b, t)
<1>1. ASSUME NEW h \in Handlers, NEW b, NEW t, todo'[h] \subseteq todo[h], Folding(h, b, t)'
      PROVE  Folding(h, b, t)
  <2>1. PICK job \in todo'[h] : tableOf'[job[2]] = b /\ log'[job[1]].tenant = t
    BY <1>1 DEF Folding
  <2>2. job \in todo[h] /\ tableOf[job[2]] = b /\ log[job[1]].tenant = t
    BY <1>1, <2>1
  <2> QED
    BY <2>2 DEF Folding
<1>2. ASSUME NEW r \in Rebuilders, NEW b, NEW t, queue'[r] \cup cur'[r] \subseteq queue[r] \cup cur[r],
             Rebuilding(r, b, t)'
      PROVE  Rebuilding(r, b, t)
  <2>1. TenantOf[r] = t /\ \E p \in queue'[r] \cup cur'[r] : tableOf'[p] = b
    BY <1>2 DEF Rebuilding
  <2>2. \E p \in queue[r] \cup cur[r] : tableOf[p] = b
    BY <1>2, <2>1
  <2> QED
    BY <2>1, <2>2 DEF Rebuilding
<1> QED
  BY <1>1, <1>2

(* Who rebuilds in peace does so when others have less to do. *)
LEMMA LessPeace ==
  ASSUME IInv, JobInv, PeaceInv, UNCHANGED <<log, tableOf>>,
         \A h \in Handlers : todo'[h] \subseteq todo[h],
         \A r \in Rebuilders :
           /\ queue'[r] \cup cur'[r] \subseteq queue[r] \cup cur[r] /\ queue'[r] \cap cur'[r] = {}
           /\ queue'[r] \cup cur'[r] # {} => snap'[r] = snap[r] /\ heals'[r] \subseteq heals[r]
  PROVE  JobInv' /\ PeaceInv'
<1>2. /\ \A p : Shared(p)' = Shared(p)
      /\ \A p, t : FoldedEvents(p, t)' = FoldedEvents(p, t)
  BY SameFoldsOfLog, SameLog
<1>3. JobInv'
  <2>1. ASSUME NEW h \in Handlers, NEW j \in todo'[h], NEW k \in todo'[h]
        PROVE  log'[j[1]].tenant = log'[k[1]].tenant
    BY DEF JobInv
  <2>2. ASSUME NEW g \in Handlers, NEW h \in Handlers, g # h
        PROVE  todo'[g] \cap todo'[h] = {}
    <3>1. todo[g] \cap todo[h] = {}
      BY <2>2 DEF JobInv
    <3> QED
      BY <3>1
  <2> QED
    BY <2>1, <2>2 DEF JobInv
<1>4. PeaceInv'
  <2> SUFFICES ASSUME NEW r \in Rebuilders, NEW p \in (queue'[r] \cup cur'[r]) \cap heals'[r]
               PROVE  /\ ~Shared(p)'
                      /\ \A h \in Handlers : ~Folding(h, tableOf[p], TenantOf[r])'
                      /\ \A q \in Rebuilders : q # r => ~Rebuilding(q, tableOf[p], TenantOf[r])'
                      /\ FoldedEvents(p, TenantOf[r])' \subseteq 1..snap'[r]
    BY DEF PeaceInv
  <2>1. p \in (queue[r] \cup cur[r]) \cap heals[r] /\ snap'[r] = snap[r]
    OBVIOUS
  <2>2. /\ ~Shared(p)
        /\ \A h \in Handlers : ~Folding(h, tableOf[p], TenantOf[r])
        /\ \A q \in Rebuilders : q # r => ~Rebuilding(q, tableOf[p], TenantOf[r])
        /\ FoldedEvents(p, TenantOf[r]) \subseteq 1..snap[r]
    BY <2>1 DEF PeaceInv
  <2>3. FoldedEvents(p, TenantOf[r])' = FoldedEvents(p, TenantOf[r])
    BY <1>2
  <2>4. /\ \A h \in Handlers : Folding(h, tableOf[p], TenantOf[r])' => Folding(h, tableOf[p], TenantOf[r])
        /\ \A q \in Rebuilders : Rebuilding(q, tableOf[p], TenantOf[r])' => Rebuilding(q, tableOf[p], TenantOf[r])
    BY LessAtWork
  <2> QED
    BY <1>2, <2>1, <2>2, <2>3, <2>4
<1> QED
  BY <1>3, <1>4

(* Work that is done, or dropped with a doubt where it is missed. *)
LEMMA LessWork ==
  ASSUME IInv, JobInv, PeaceInv, DoubtInv, UNCHANGED <<log, tableOf>>,
         \A h \in Handlers : todo'[h] \subseteq todo[h],
         \A r \in Rebuilders :
           /\ queue'[r] \cup cur'[r] \subseteq queue[r] \cup cur[r] /\ queue'[r] \cap cur'[r] = {}
           /\ queue'[r] \cup cur'[r] # {} => snap'[r] = snap[r] /\ heals'[r] = heals[r],
         \A b \in Tables, t \in Tenants : doubt[b][t] \subseteq doubt'[b][t],
         \A r \in Rebuilders : \A p \in cur'[r] \ cur[r] :
           Shared(p) => doubt'[tableOf[p]][TenantOf[r]] # {}
  PROVE  JobInv' /\ PeaceInv' /\ DoubtInv'
<1>1. /\ \A h \in Handlers : \A b, t : Folding(h, b, t)' => Folding(h, b, t)
      /\ \A r \in Rebuilders : \A b, t : Rebuilding(r, b, t)' => Rebuilding(r, b, t)
  BY LessAtWork
<1>2. /\ \A p : Shared(p)' = Shared(p)
      /\ \A b : Counter(b)' = Counter(b)
      /\ \A p, t : FoldedEvents(p, t)' = FoldedEvents(p, t)
  BY SameFoldsOfLog, SameLog
<1>3. JobInv' /\ PeaceInv'
  BY LessPeace
<1>5. DoubtInv'
  <2>0. \A r \in Rebuilders : \A p \in queue'[r] \cup cur'[r] :
          tableOf[p] \in Tables /\ TenantOf[r] \in Tenants
    <3>1. \A r \in Rebuilders : queue[r] \cup cur[r] \subseteq Projections
      BY DEF IInv, RebuildInv
    <3>2. tableOf \in [Projections -> Tables]
      BY ProjectorAssumption DEF IInv, DataInv
    <3> QED
      BY <3>1, <3>2, ProjectorAssumption
  <2>1. ASSUME NEW r \in Rebuilders, NEW p \in queue'[r], doubt'[tableOf[p]][TenantOf[r]] = {}
        PROVE  Shared(p) \/ p \in heals'[r]
    <3>1. doubt[tableOf[p]][TenantOf[r]] = {} /\ heals'[r] = heals[r] /\ p \in queue[r] \cup cur[r]
      BY <2>0, <2>1
    <3> QED
      BY <3>1 DEF DoubtInv
  <2>2. ASSUME NEW r \in Rebuilders, NEW p \in cur'[r], doubt'[tableOf[p]][TenantOf[r]] = {}
        PROVE  p \in heals'[r]
    <3>1. doubt[tableOf[p]][TenantOf[r]] = {} /\ heals'[r] = heals[r] /\ p \in queue[r] \cup cur[r]
      BY <2>0, <2>2
    <3>2. p \in cur[r] \/ ~Shared(p)
      BY <2>2
    <3> QED
      BY <3>1, <3>2 DEF DoubtInv
  <2>3. ASSUME NEW b \in Tables, NEW t \in Tenants, "crossed" \notin doubt'[b][t],
               NEW r \in Rebuilders, Rebuilding(r, b, t)'
        PROVE  /\ \A h \in Handlers : ~Folding(h, b, t)'
               /\ \A q \in Rebuilders : q # r => ~Rebuilding(q, b, t)'
    <3>1. "crossed" \notin doubt[b][t] /\ Rebuilding(r, b, t)
      BY <1>1, <2>3
    <3>2. /\ \A h \in Handlers : ~Folding(h, b, t)
          /\ \A q \in Rebuilders : q # r => ~Rebuilding(q, b, t)
      BY <3>1 DEF DoubtInv
    <3> QED
      BY <1>1, <3>2
  <2>4. ASSUME NEW b \in Tables, NEW t \in Tenants, doubt'[b][t] = {}, ~Counter(b),
               NEW g \in Handlers, NEW h \in Handlers, Folding(g, b, t)', Folding(h, b, t)'
        PROVE  g = h
    <3>1. doubt[b][t] = {} /\ Folding(g, b, t) /\ Folding(h, b, t)
      BY <1>1, <2>4
    <3> QED
      BY <2>4, <3>1 DEF DoubtInv
  <2> QED
    BY <1>2, <2>1, <2>2, <2>3, <2>4 DEF DoubtInv
<1> QED
  BY <1>3, <1>5

(* Rebuilds do not overlap with anything as long as nothing says so. *)
LEMMA NotBoth ==
  ASSUME PeaceInv, DoubtInv, NEW b \in Tables, NEW t \in Tenants,
         Trusted(b, t) \/ "crossed" \notin doubt[b][t], NEW r \in Rebuilders, Rebuilding(r, b, t)
  PROVE  /\ \A h \in Handlers : ~Folding(h, b, t)
         /\ \A q \in Rebuilders : q # r => ~Rebuilding(q, b, t)
<1>1. CASE "crossed" \notin doubt[b][t]
  BY <1>1 DEF DoubtInv
<1>2. CASE \E q \in Rebuilders : TenantOf[q] = t /\ \E p \in cur[q] \cap heals[q] : tableOf[p] = b
  <2>1. PICK q \in Rebuilders : TenantOf[q] = t /\ \E p \in cur[q] \cap heals[q] : tableOf[p] = b
    BY <1>2
  <2>2. PICK p \in cur[q] \cap heals[q] : tableOf[p] = b
    BY <2>1
  <2>3. /\ \A h \in Handlers : ~Folding(h, b, t)
        /\ \A u \in Rebuilders : u # q => ~Rebuilding(u, b, t)
    BY <2>1, <2>2 DEF PeaceInv
  <2> QED
    BY <2>3
<1> QED
  BY <1>1, <1>2 DEF Trusted

(* Who has a missing fold yet to do. *)
LEMMA MissingFacts ==
  ASSUME IInv, NEW b \in Tables, NEW t \in Tenants, NEW m \in AllAbout(b, t) \cap Missing
  PROVE  \/ \E h \in Handlers : m \in todo[h] /\ Folding(h, b, t)
         \/ \E r \in Rebuilders : /\ m[2] \in cur[r] /\ m[1] \in replay[r] /\ TenantOf[r] = t
                                  /\ Rebuilding(r, b, t)
<1>1. tableOf[m[2]] = b /\ log[m[1]].tenant = t
  BY FoldsFacts DEF IInv
<1>2. CASE \E h \in Handlers : m \in todo[h]
  BY <1>1, <1>2 DEF Folding
<1>3. CASE \E r \in Rebuilders : m[2] \in cur[r] /\ m[1] \in replay[r]
  <2>1. PICK r \in Rebuilders : m[2] \in cur[r] /\ m[1] \in replay[r]
    BY <1>3
  <2>2. m[1] \in FoldedEvents(m[2], TenantOf[r])
    BY <2>1 DEF IInv, RebuildInv
  <2>3. TenantOf[r] = t
    BY <1>1, <2>2 DEF FoldedEvents
  <2> QED
    BY <1>1, <2>1, <2>3 DEF Rebuilding
<1> QED
  BY <1>2, <1>3 DEF Missing

(* A job is a missing fold, and its handler is at work on the table. *)
LEMMA JobIsMissing ==
  ASSUME IInv, NEW h \in Handlers, NEW job \in todo[h]
  PROVE  /\ job \in (1..Len(log)) \X Projections /\ job = <<job[1], job[2]>>
         /\ job \in Missing
         /\ Folding(h, tableOf[job[2]], log[job[1]].tenant)
         /\ tableOf[job[2]] \in Tables
<1>1. job \in (1..Len(log)) \X Projections
  BY DEF IInv, FoldInv
<1>2. tableOf \in [Projections -> Tables]
  BY ProjectorAssumption DEF IInv, DataInv
<1> QED
  BY <1>1, <1>2 DEF Missing, Folding

(* A statement of a fold or of a replay, of what nobody else has to do. *)
LEMMA StatementStep ==
  ASSUME IInv, FInv, NEW p \in Projections, NEW s \in 1..Len(log), HasRule(p, log[s]), Foldable(p, log[s]),
         <<s, p>> \in Missing, NEW c, NEW u, c = tableOf[p], u = log[s].tenant
  PROVE  /\ UNCHANGED <<log, tableOf, doubt, cur, heals>> /\ view' = Applied(p, s)
         /\ Missing' \ {<<s, p>>} = Missing \ {<<s, p>>}
         /\ Trusted(c, u) \/ "crossed" \notin doubt[c][u] => <<s, p>> \notin Missing'
         /\ Trusted(c, u) /\ ~Counter(c) => \A m \in AllAbout(c, u) \cap Missing : s <= m[1]
         => ShownInv' /\ OrderInv' /\ TotalInv'
<1> DEFINE j == <<s, p>>
<1>0. SUFFICES ASSUME UNCHANGED <<log, tableOf, doubt, cur, heals>>, view' = Applied(p, s),
                      Missing' \ {j} = Missing \ {j},
                      Trusted(c, u) \/ "crossed" \notin doubt[c][u] => j \notin Missing',
                      Trusted(c, u) /\ ~Counter(c) => \A m \in AllAbout(c, u) \cap Missing : s <= m[1]
               PROVE  ShownInv' /\ OrderInv' /\ TotalInv'
  OBVIOUS
<1>1. PICK N : N = Missing'
  OBVIOUS
<1>2. N \ {j} = Missing \ {j} /\ j \in Missing
  BY <1>0, <1>1
<1>3. \A b \in Tables, t \in Tenants : j \in AllAbout(b, t) <=> b = c /\ t = u
  BY FoldIsAbout DEF IInv
<1>4. ASSUME NEW b \in Tables, NEW t \in Tenants, Trusted(b, t)'
      PROVE  /\ \A id \in Ids : view'[b][t][id] = RowOf(About(b, t, id) \ N)
             /\ ~Counter(b) => \A d \in AllAbout(b, t) \ N, m \in AllAbout(b, t) \cap N : d[1] <= m[1]
  <2>1. Trusted(b, t)
    BY <1>0, <1>4 DEF Trusted
  <2>2. j \in AllAbout(b, t) => j \notin N
    BY <1>0, <1>1, <1>3, <2>1
  <2>3. \A f \in AllAbout(b, t) : f \in N <=> f \in Missing /\ f # j
    BY <1>2, <2>2
  <2>4. ASSUME NEW id \in Ids
        PROVE  view'[b][t][id] = RowOf(About(b, t, id) \ N)
    <3>1. Applied(p, s)[b][t][id] = RowOf(About(b, t, id) \ N)
      BY <2>1, <2>3, ShownAfterFold DEF FInv
    <3> QED
      BY <1>0, <3>1
  <2>5. ASSUME ~Counter(b)
        PROVE  \A d \in AllAbout(b, t) \ N, m \in AllAbout(b, t) \cap N : d[1] <= m[1]
    <3>1. j \in AllAbout(b, t) => \A m \in AllAbout(b, t) \cap Missing : j[1] <= m[1]
      BY <1>0, <1>3, <2>1, <2>5
    <3>2. OrderInv
      BY DEF FInv
    <3> HIDE DEF j
    <3> QED
      BY <2>1, <2>3, <2>5, <3>1, <3>2, OrderAfterFold
  <2> QED
    BY <2>4, <2>5
<1>5. ASSUME NEW b \in Tables, NEW t \in Tenants, NEW id \in Ids, "crossed" \notin doubt'[b][t]
      PROVE  AddsUp(view'[b][t][id].total, Upserts(About(b, t, id) \ N))
  <2>1. "crossed" \notin doubt[b][t]
    BY <1>0, <1>5
  <2>2. j \in AllAbout(b, t) => j \notin N
    BY <1>0, <1>1, <1>3, <2>1
  <2>3. AllAbout(b, t) \cap N \subseteq Missing
    BY <1>2
  <2>4. AddsUp(Applied(p, s)[b][t][id].total, Upserts(About(b, t, id) \ N))
    BY <2>1, <2>2, <2>3, TotalAfterFold DEF FInv
  <2> QED
    BY <1>0, <2>4
<1> QED
  BY <1>0, <1>1, <1>4, <1>5, RowsNext

(* A job folded keeps FInv: its row gains it, it is no longer missing. *)
LEMMA FoldKeepsFolds ==
  ASSUME IInv, FInv, NEW h \in Handlers, Fold(h)
  PROVE  FInv'
<1>1. PICK job \in todo[h] :
        /\ NextJob(h, job) /\ Foldable(job[2], log[job[1]]) /\ view' = Applied(job[2], job[1])
        /\ todo' = [todo EXCEPT ![h] = @ \ {job}]
  BY DEF Fold
<1>2. UNCHANGED <<log, tableOf, queue, cur, snap, replay, heals, doubt, failures>>
  BY DEF Fold, rebuildVars
<1>3. todo'[h] = todo[h] \ {job} /\ \A g \in Handlers \ {h} : todo'[g] = todo[g]
  BY <1>1 DEF IInv, FoldInv
<1>4. JobInv' /\ PeaceInv' /\ DoubtInv'
  BY <1>2, <1>3, LessWork DEF FInv, JobInv
<1>5. /\ job = <<job[1], job[2]>> /\ job \in Missing
      /\ job[1] \in 1..Len(log) /\ job[2] \in Projections
      /\ HasRule(job[2], log[job[1]]) /\ log[job[1]].tenant \in Tenants
      /\ tableOf[job[2]] \in Tables /\ Folding(h, tableOf[job[2]], log[job[1]].tenant)
  BY JobIsMissing, JobFacts
<1>6. Missing' \ {job} = Missing \ {job}
  BY <1>2, <1>3 DEF Missing
<1> DEFINE b == tableOf[job[2]]
           t == log[job[1]].tenant
<1>7. job \in Missing' => \E r \in Rebuilders : Rebuilding(r, b, t)
  <2>1. \A g \in Handlers : job \notin todo'[g]
    BY <1>3 DEF FInv, JobInv
  <2>2. job \in AllAbout(b, t)
    BY <1>1, <1>5, FoldIsAbout DEF IInv
  <2>3. ASSUME job \in Missing'
        PROVE  \E r \in Rebuilders : Rebuilding(r, b, t)
    <3>1. PICK r \in Rebuilders : job[2] \in cur[r] /\ job[1] \in replay[r]
      BY <1>2, <2>1, <2>3 DEF Missing
    <3>2. job[1] \in FoldedEvents(job[2], TenantOf[r])
      BY <3>1 DEF IInv, RebuildInv
    <3>3. Rebuilding(r, b, t)
      BY <3>1, <3>2 DEF FoldedEvents, Rebuilding
    <3> QED
      BY <3>3
  <2> QED
    BY <2>3
<1>8. ASSUME Trusted(b, t) \/ "crossed" \notin doubt[b][t]
      PROVE  /\ \A r \in Rebuilders : ~Rebuilding(r, b, t)
             /\ job \notin Missing'
  <2>1. \A r \in Rebuilders : ~Rebuilding(r, b, t)
    BY <1>5, <1>8, NotBoth DEF FInv
  <2> QED
    BY <1>7, <2>1
<1>9. ASSUME Trusted(b, t), ~Counter(b), NEW m \in AllAbout(b, t) \cap Missing
      PROVE  job[1] <= m[1]
  <2>1. \A r \in Rebuilders : ~Rebuilding(r, b, t)
    BY <1>8, <1>9
  <2>2. doubt[b][t] = {}
    <3> SUFFICES ASSUME doubt[b][t] # {} PROVE FALSE
      OBVIOUS
    <3>1. PICK r \in Rebuilders : TenantOf[r] = t /\ \E p \in cur[r] \cap heals[r] : tableOf[p] = b
      BY <1>9 DEF Trusted
    <3> QED
      BY <2>1, <3>1 DEF Rebuilding
  <2>3. PICK g \in Handlers : m \in todo[g] /\ Folding(g, b, t)
    BY <1>5, <2>1, MissingFacts
  <2>4. g = h
    BY <1>5, <1>9, <2>2, <2>3 DEF FInv, DoubtInv
  <2> QED
    BY <1>1, <2>3, <2>4 DEF NextJob
<1>10. ShownInv' /\ OrderInv' /\ TotalInv'
  <2> DEFINE p == job[2]
             s == job[1]
  <2> HIDE DEF p, s
  <2>1. <<s, p>> = job
    BY <1>5 DEF p, s
  <2>2. /\ p \in Projections /\ s \in 1..Len(log) /\ HasRule(p, log[s]) /\ Foldable(p, log[s])
        /\ view' = Applied(p, s)
    BY <1>1, <1>5 DEF p, s
  <2>3. /\ Trusted(b, t) \/ "crossed" \notin doubt[b][t] => job \notin Missing'
        /\ Trusted(b, t) /\ ~Counter(b) => \A m \in AllAbout(b, t) \cap Missing : s <= m[1]
        /\ b = tableOf[p] /\ t = log[s].tenant
    BY <1>8, <1>9 DEF p, s
  <2> HIDE DEF b, t
  <2> QED
    BY <1>2, <1>5, <1>6, <2>1, <2>2, <2>3, StatementStep
<1> QED
  BY <1>4, <1>10 DEF FInv

-----------------------------------------------------------------------------
(***************************************************************************)
(* One step of the projector after another.                                *)
(***************************************************************************)
(* Nobody else has the fold of a job to do, in peace. *)
LEMMA JobOnce ==
  ASSUME IInv, FInv, NEW h \in Handlers, NEW job \in todo[h], Foldable(job[2], log[job[1]]),
         NEW b, NEW t, b = tableOf[job[2]], t = log[job[1]].tenant,
         Trusted(b, t) \/ "crossed" \notin doubt[b][t]
  PROVE  /\ \A g \in Handlers : g # h => job \notin todo[g]
         /\ \A r \in Rebuilders : ~ (job[2] \in cur[r] /\ job[1] \in replay[r])
<1>1. \A g \in Handlers : g # h => job \notin todo[g]
  BY DEF FInv, JobInv
<1>2. b \in Tables /\ t \in Tenants /\ Folding(h, b, t)
  BY JobIsMissing, JobFacts
<1>3. ASSUME NEW r \in Rebuilders, job[2] \in cur[r], job[1] \in replay[r]
      PROVE  FALSE
  <2>1. job[1] \in FoldedEvents(job[2], TenantOf[r])
    BY <1>3 DEF IInv, RebuildInv
  <2>2. Rebuilding(r, b, t)
    BY <1>3, <2>1 DEF FoldedEvents, Rebuilding
  <2> QED
    BY <1>2, <2>2, NotBoth DEF FInv
<1> QED
  BY <1>1, <1>3

(* A fold that errs or fails keeps FInv: what is dropped casts a doubt. *)
LEMMA StopKeepsFolds ==
  ASSUME IInv, FInv, NEW h \in Handlers, FoldErrors(h) \/ FoldFails(h)
  PROVE  FInv'
<1>1. PICK job \in todo[h] :
        /\ StopFolding(h, job)
        /\ view' = view \/ (Foldable(job[2], log[job[1]]) /\ view' = Applied(job[2], job[1]))
  BY DEF FoldErrors, FoldFails
<1> DEFINE D == Dropped(todo[h] \ {job}) \cup Dropped({job})
           u == log[job[1]].tenant
           p == job[2]
           s == job[1]
<1>2. /\ UNCHANGED <<log, tableOf, queue, cur, snap, replay, heals>>
      /\ todo' = [todo EXCEPT ![h] = {}] /\ Doubt(D, u, {"stale"})
  BY <1>1 DEF StopFolding, rebuildVars
<1>3. todo'[h] = {} /\ \A g \in Handlers : g # h => todo'[g] = todo[g]
  BY <1>2 DEF IInv, FoldInv
<1>4. /\ job = <<s, p>> /\ job \in Missing
      /\ s \in 1..Len(log) /\ p \in Projections
      /\ HasRule(p, log[s]) /\ u \in Tenants
  BY JobIsMissing, JobFacts
<1>5. \A b \in Tables, t \in Tenants :
        /\ doubt[b][t] \subseteq doubt'[b][t]
        /\ t = u /\ b \in D => doubt'[b][t] # {}
        /\ "crossed" \in doubt[b][t] <=> "crossed" \in doubt'[b][t]
  <2> HIDE DEF D
  <2> QED
    BY <1>2, <1>4 DEF Doubt, IInv, HistoryInv, Doubts
<1> HIDE DEF s, p
<1>6. JobInv' /\ PeaceInv' /\ DoubtInv'
  <2>1. \A g \in Handlers : todo'[g] \subseteq todo[g]
    BY <1>3
  <2>2. \A r \in Rebuilders :
           /\ queue'[r] \cup cur'[r] \subseteq queue[r] \cup cur[r] /\ queue'[r] \cap cur'[r] = {}
           /\ queue'[r] \cup cur'[r] # {} => snap'[r] = snap[r] /\ heals'[r] = heals[r]
           /\ cur'[r] \ cur[r] = {}
    BY <1>2 DEF FInv, JobInv
  <2> QED
    BY <1>2, <1>5, <2>1, <2>2, LessWork DEF FInv
<1>7. \A m : m \in Missing' => m \in Missing
  BY <1>2, <1>3 DEF Missing
<1>8. ASSUME NEW b \in Tables, NEW t \in Tenants, Trusted(b, t)'
      PROVE  /\ Trusted(b, t)
             /\ \A m \in AllAbout(b, t) : m \notin todo[h]
  <2>1. Trusted(b, t)
    BY <1>2, <1>5, <1>8 DEF Trusted
  <2>2. ASSUME NEW m \in AllAbout(b, t), m \in todo[h]
        PROVE  FALSE
    <3>1. tableOf[m[2]] = b /\ log[m[1]].tenant = t /\ Foldable(m[2], log[m[1]])
      BY FoldsFacts DEF IInv
    <3>2. t = u
      BY <2>2, <3>1 DEF FInv, JobInv
    <3>3. b \in D
      BY <2>2, <3>1 DEF Dropped
    <3>4. doubt'[b][t] # {}
      BY <1>5, <3>2, <3>3
    <3>5. PICK r \in Rebuilders : TenantOf[r] = t /\ \E q \in cur[r] \cap heals[r] : tableOf[q] = b
      BY <1>2, <1>8, <3>4 DEF Trusted
    <3>6. ~Folding(h, b, t)
      BY <3>5 DEF FInv, PeaceInv
    <3> QED
      BY <2>2, <3>1, <3>6 DEF Folding
  <2> QED
    BY <2>1, <2>2
<1>9. PICK N : N = Missing'
  OBVIOUS
<1>10. ASSUME NEW b \in Tables, NEW t \in Tenants, Trusted(b, t)'
       PROVE  /\ \A id \in Ids : view'[b][t][id] = RowOf(About(b, t, id) \ N)
              /\ ~Counter(b) => \A d \in AllAbout(b, t) \ N, m \in AllAbout(b, t) \cap N : d[1] <= m[1]
  <2>1. Trusted(b, t) /\ \A m \in AllAbout(b, t) : m \notin todo[h]
    BY <1>8, <1>10
  <2>2. \A m \in AllAbout(b, t) : m \in N <=> m \in Missing
    <3>1. ASSUME NEW m \in AllAbout(b, t), m \in Missing
          PROVE  m \in Missing'
      BY <1>2, <1>3, <2>1, <3>1 DEF Missing
    <3> QED
      BY <1>7, <1>9, <3>1
  <2>3. \A id : About(b, t, id) \ N = Done(b, t, id)
    BY <2>2, AboutIn DEF Done, IInv
  <2>4. ASSUME NEW id \in Ids
        PROVE  view'[b][t][id] = view[b][t][id]
    <3>1. CASE view' = view
      BY <3>1
    <3>2. CASE Foldable(p, log[s]) /\ view' = Applied(p, s)
      <4>1. ~ (b = tableOf[p] /\ t = log[s].tenant)
        BY <1>4, <2>1, <3>2, FoldIsAbout DEF IInv
      <4> QED
        BY <1>4, <3>2, <4>1, AppliedRows DEF IInv
    <3> QED
      BY <1>1, <3>1, <3>2 DEF p, s
  <2>5. \A id \in Ids : view'[b][t][id] = RowOf(About(b, t, id) \ N)
    BY <2>1, <2>3, <2>4 DEF FInv, ShownInv
  <2>6. ~Counter(b) => \A d \in AllAbout(b, t) \ N, m \in AllAbout(b, t) \cap N : d[1] <= m[1]
    BY <2>1, <2>2 DEF FInv, OrderInv
  <2> QED
    BY <2>5, <2>6
<1>11. ASSUME NEW b \in Tables, NEW t \in Tenants, NEW id \in Ids, "crossed" \notin doubt'[b][t]
       PROVE  AddsUp(view'[b][t][id].total, Upserts(About(b, t, id) \ N))
  <2>1. "crossed" \notin doubt[b][t]
    BY <1>5, <1>11
  <2>2. AllAbout(b, t) \cap N \subseteq Missing
    BY <1>7, <1>9
  <2>3. CASE view' = view
    BY <2>1, <2>2, <2>3, TotalWithMore DEF FInv
  <2>4. CASE Foldable(p, log[s]) /\ view' = Applied(p, s)
    <3>1. <<s, p>> \in AllAbout(b, t) => <<s, p>> \notin N
      <4>1. SUFFICES ASSUME b = tableOf[p], t = log[s].tenant, job \in N
                     PROVE  FALSE
        BY <1>4, <2>4, FoldIsAbout DEF IInv
      <4>2. /\ \A g \in Handlers : g # h => job \notin todo[g]
            /\ \A r \in Rebuilders : ~ (job[2] \in cur[r] /\ job[1] \in replay[r])
        BY <2>1, <2>4, <4>1, JobOnce DEF p, s
      <4>3. job \in Missing'
        BY <1>9, <4>1
      <4> QED
        BY <1>2, <1>3, <4>2, <4>3 DEF Missing
    <3>2. <<s, p>> \in Missing
      BY <1>4
    <3>3. AddsUp(Applied(p, s)[b][t][id].total, Upserts(About(b, t, id) \ N))
      BY <1>4, <2>1, <2>2, <2>4, <3>1, <3>2, TotalAfterFold DEF FInv
    <3> QED
      BY <2>4, <3>3
  <2> QED
    BY <1>1, <2>3, <2>4 DEF p, s
<1>12. ShownInv' /\ OrderInv' /\ TotalInv'
  BY <1>2, <1>9, <1>10, <1>11, RowsNext
<1> QED
  BY <1>6, <1>12 DEF FInv

(* An event replayed keeps FInv, as a job folded does. *)
LEMMA ReplayKeepsFolds ==
  ASSUME IInv, FInv, NEW r \in Rebuilders, Replay(r)
  PROVE  FInv'
<1>1. PICK p \in cur[r] : view' = Applied(p, First(replay[r]))
  BY DEF Replay
<1> DEFINE s == First(replay[r])
           c == tableOf[p]
           u == log[s].tenant
           j == <<s, p>>
<1>2. /\ replay[r] # {} /\ replay' = [replay EXCEPT ![r] = @ \ {s}]
      /\ UNCHANGED <<log, tableOf, todo, queue, cur, snap, heals, doubt, failures>>
  BY DEF Replay
<1>3. /\ p \in Projections /\ s \in replay[r] /\ s \in 1..Len(log)
      /\ HasRule(p, log[s]) /\ Foldable(p, log[s]) /\ \A d \in replay[r] : s <= d
  <2>1. replay[r] \subseteq Nat
    BY DEF IInv, RebuildInv
  <2>2. \A d \in replay[r] : First(replay[r]) <= d
    BY <1>2, <2>1, FirstIn
  <2> QED
    BY <1>2, <2>2, ReplayFacts
<1> HIDE DEF s
<1>4. replay'[r] = replay[r] \ {s} /\ \A q \in Rebuilders : q # r => replay'[q] = replay[q]
  BY <1>2 DEF IInv, RebuildInv
<1>5. c \in Tables /\ u \in Tenants /\ u = TenantOf[r] /\ Rebuilding(r, c, u)
  <2>1. c \in Tables /\ u \in Tenants
    BY <1>3, FoldFacts DEF IInv
  <2>2. s \in FoldedEvents(p, TenantOf[r])
    BY <1>3 DEF IInv, RebuildInv
  <2> QED
    BY <2>1, <2>2 DEF FoldedEvents, Rebuilding
<1>6. JobInv' /\ PeaceInv' /\ DoubtInv'
  <2>1. \A h \in Handlers : todo'[h] \subseteq todo[h]
    BY <1>2
  <2>2. \A q \in Rebuilders :
           /\ queue'[q] \cup cur'[q] \subseteq queue[q] \cup cur[q] /\ queue'[q] \cap cur'[q] = {}
           /\ queue'[q] \cup cur'[q] # {} => snap'[q] = snap[q] /\ heals'[q] = heals[q]
           /\ cur'[q] \ cur[q] = {}
    BY <1>2 DEF FInv, JobInv
  <2>3. \A b \in Tables, t \in Tenants : doubt[b][t] \subseteq doubt'[b][t]
    BY <1>2
  <2> QED
    BY <1>2, <2>1, <2>2, <2>3, LessWork DEF FInv
<1>7. j \in Missing
  BY <1>3 DEF Missing
<1>8. Missing' \ {j} = Missing \ {j}
  <2>1. \A m : m # j /\ m[2] \in cur[r] /\ m[1] \in replay[r] /\ m \in (1..Len(log)) \X Projections
                => m[1] \in replay'[r]
    BY <1>3, <1>4 DEF IInv, RebuildInv
  <2>2. \A m : m # j => (m \in Missing <=> m \in Missing')
    BY <1>2, <1>4, <2>1 DEF Missing
  <2> QED
    BY <2>2
<1>9. Trusted(c, u) \/ "crossed" \notin doubt[c][u] =>
        /\ \A h \in Handlers : ~Folding(h, c, u)
        /\ \A q \in Rebuilders : q # r => ~Rebuilding(q, c, u)
  BY <1>5, NotBoth DEF FInv
<1>10. Trusted(c, u) \/ "crossed" \notin doubt[c][u] => j \notin Missing'
  <2> SUFFICES ASSUME Trusted(c, u) \/ "crossed" \notin doubt[c][u], j \in Missing' PROVE FALSE
    OBVIOUS
  <2>1. \A h \in Handlers : j \notin todo[h]
    BY <1>9 DEF Folding
  <2>2. PICK q \in Rebuilders : p \in cur[q] /\ s \in replay'[q]
    BY <1>2, <2>1 DEF Missing
  <2>3. q # r /\ s \in replay[q]
    BY <1>4, <2>2
  <2>4. s \in FoldedEvents(p, TenantOf[q])
    BY <2>2, <2>3 DEF IInv, RebuildInv
  <2>5. Rebuilding(q, c, u)
    BY <2>2, <2>4 DEF FoldedEvents, Rebuilding
  <2> QED
    BY <1>9, <2>3, <2>5
<1>11. ASSUME Trusted(c, u), NEW m \in AllAbout(c, u) \cap Missing
       PROVE  s <= m[1]
  <2>1. m[2] \in cur[r] /\ m[1] \in replay[r]
    BY <1>5, <1>9, <1>11, MissingFacts
  <2> QED
    BY <1>3, <2>1
<1>12. ShownInv' /\ OrderInv' /\ TotalInv'
  <2>1. view' = Applied(p, s)
    BY <1>1 DEF s
  <2> HIDE DEF c, u
  <2>2. c = tableOf[p] /\ u = log[s].tenant
    BY DEF c, u
  <2> QED
    BY <1>2, <1>3, <1>7, <1>8, <1>10, <1>11, <2>1, <2>2, StatementStep
<1> QED
  BY <1>6, <1>12 DEF FInv

(* The rows that a wipe leaves. *)
LEMMA WipedRows ==
  ASSUME DataInv, NEW p \in Projections, NEW u \in Tenants,
         NEW b \in Tables, NEW t \in Tenants, NEW id \in Ids
  PROVE  Wiped(p, u)[b][t][id] = IF b = tableOf[p] /\ t = u THEN NoRow ELSE view[b][t][id]
<1>1. tableOf[p] \in Tables
  BY ProjectorAssumption DEF DataInv
<1>2. Wiped(p, u) = [view EXCEPT ![tableOf[p]] = [view[tableOf[p]] EXCEPT ![u] = [i \in Ids |-> NoRow]]]
  BY DEF Wiped
<1> QED
  BY <1>1, <1>2 DEF DataInv, Views

(* What a wipe or nothing leaves is a sum of folds that are done. *)
LEMMA TotalWiped ==
  ASSUME IInv, TotalInv, NEW p \in Projections, NEW u \in Tenants,
         NEW b \in Tables, NEW t \in Tenants, "crossed" \notin doubt[b][t],
         NEW N, (b = tableOf[p] /\ t = u) \/ AllAbout(b, t) \cap N \subseteq Missing, NEW id \in Ids
  PROVE  AddsUp(Wiped(p, u)[b][t][id].total, Upserts(About(b, t, id) \ N))
<1>1. CASE b = tableOf[p] /\ t = u
  <2>1. Wiped(p, u)[b][t][id].total = 0
    BY <1>1, WipedRows DEF NoRow, IInv
  <2> QED
    BY <2>1, AddsUpToNothing
<1>2. CASE ~ (b = tableOf[p] /\ t = u)
  <2>1. Wiped(p, u)[b][t][id] = view[b][t][id]
    BY <1>2, WipedRows DEF IInv
  <2> QED
    BY <1>2, <2>1, TotalWithMore
<1> QED
  BY <1>1, <1>2

(* With the same folds done, the same rows are right. *)
LEMMA SameFolded ==
  ASSUME IInv, FInv, NEW b \in Tables, NEW t \in Tenants, Trusted(b, t), NEW N,
         \A m \in AllAbout(b, t) : m \in N <=> m \in Missing
  PROVE  /\ \A id \in Ids : view[b][t][id] = RowOf(About(b, t, id) \ N)
         /\ ~Counter(b) => \A d \in AllAbout(b, t) \ N, m \in AllAbout(b, t) \cap N : d[1] <= m[1]
<1>1. \A id : About(b, t, id) \ N = Done(b, t, id)
  BY AboutIn DEF Done, IInv
<1>2. \A id \in Ids : view[b][t][id] = RowOf(About(b, t, id) \ N)
  BY <1>1 DEF FInv, ShownInv
<1>3. ~Counter(b) => \A d \in AllAbout(b, t) \ N, m \in AllAbout(b, t) \cap N : d[1] <= m[1]
  BY DEF FInv, OrderInv
<1> QED
  BY <1>2, <1>3

(* A wipe keeps FInv: every fold about the tenant's rows is missing again. *)
LEMMA WipeKeepsFolds ==
  ASSUME IInv, FInv, NEW r \in Rebuilders, Wipe(r)
  PROVE  FInv'
<1>1. PICK p \in queue[r] :
        /\ view' = Wiped(p, TenantOf[r]) /\ cur' = [cur EXCEPT ![r] = {p}]
        /\ queue' = [queue EXCEPT ![r] = @ \ {p}]
        /\ replay' = [replay EXCEPT ![r] = ReplayOf(r, p)]
        /\ Doubt({tableOf[p]}, TenantOf[r], IF Shared(p) THEN {"shared"} ELSE {})
  BY DEF Wipe
<1> DEFINE c == tableOf[p]
           u == TenantOf[r]
<1>2. UNCHANGED <<log, tableOf, todo, snap, heals, failures>> /\ cur[r] = {}
  BY DEF Wipe
<1>3. p \in Projections /\ u \in Tenants /\ c \in Tables
  <2>1. tableOf \in [Projections -> Tables]
    BY ProjectorAssumption DEF IInv, DataInv
  <2> QED
    BY <2>1, ProjectorAssumption DEF IInv, RebuildInv
<1>4. /\ cur'[r] = {p} /\ queue'[r] = queue[r] \ {p} /\ replay'[r] = ReplayOf(r, p)
      /\ \A q \in Rebuilders : q # r =>
           cur'[q] = cur[q] /\ queue'[q] = queue[q] /\ replay'[q] = replay[q]
  BY <1>1 DEF IInv, RebuildInv
<1>5. \A b \in Tables, t \in Tenants :
        /\ doubt[b][t] \subseteq doubt'[b][t]
        /\ t = u /\ b = c /\ Shared(p) => doubt'[b][t] # {}
        /\ "crossed" \in doubt[b][t] <=> "crossed" \in doubt'[b][t]
  BY <1>1, <1>3 DEF Doubt, IInv, HistoryInv, Doubts
<1>6. JobInv' /\ PeaceInv' /\ DoubtInv'
  <2>1. \A h \in Handlers : todo'[h] \subseteq todo[h]
    BY <1>2
  <2>2. \A q \in Rebuilders :
           /\ queue'[q] \cup cur'[q] \subseteq queue[q] \cup cur[q] /\ queue'[q] \cap cur'[q] = {}
           /\ queue'[q] \cup cur'[q] # {} => snap'[q] = snap[q] /\ heals'[q] = heals[q]
    BY <1>2, <1>4 DEF FInv, JobInv
  <2>3. \A q \in Rebuilders : \A x \in cur'[q] \ cur[q] :
           Shared(x) => doubt'[tableOf[x]][TenantOf[q]] # {}
    BY <1>3, <1>4, <1>5
  <2>4. \A b \in Tables, t \in Tenants : doubt[b][t] \subseteq doubt'[b][t]
    BY <1>5
  <2> QED
    BY <1>2, <2>1, <2>2, <2>3, <2>4, LessWork DEF FInv
<1>7. PICK N : N = Missing'
  OBVIOUS
<1>8. \A m \in (1..Len(log)) \X Projections :
        m \in N <=> \/ \E h \in Handlers : m \in todo[h]
                    \/ \E q \in Rebuilders : q # r /\ m[2] \in cur[q] /\ m[1] \in replay[q]
                    \/ m[2] = p /\ m[1] \in ReplayOf(r, p)
  BY <1>2, <1>4, <1>7 DEF Missing
<1>9. ASSUME NEW b \in Tables, NEW t \in Tenants, ~ (b = c /\ t = u),
             NEW m \in AllAbout(b, t)
      PROVE  m \in N <=> m \in Missing
  <2>1. m \in (1..Len(log)) \X Projections /\ tableOf[m[2]] = b /\ log[m[1]].tenant = t
    BY FoldsFacts DEF IInv
  <2>2. ~ (m[2] = p /\ m[1] \in ReplayOf(r, p))
    BY <1>9, <2>1 DEF ReplayOf, FoldedEvents
  <2> QED
    BY <1>2, <1>8, <2>1, <2>2 DEF Missing
<1>10. ASSUME NEW b \in Tables, NEW t \in Tenants, b = c /\ t = u, Trusted(b, t)', NEW m \in AllAbout(b, t)
       PROVE  m \in N
  <2>1. p \in heals[r]
    <3>1. CASE doubt'[b][t] = {}
      BY <1>5, <1>10, <3>1 DEF FInv, DoubtInv
    <3>2. CASE \E q \in Rebuilders : TenantOf[q] = t /\ \E x \in cur'[q] \cap heals'[q] : tableOf'[x] = b
      <4>1. PICK q \in Rebuilders : TenantOf[q] = t /\ \E x \in cur'[q] \cap heals'[q] : tableOf'[x] = b
        BY <3>2
      <4>2. PICK x \in cur'[q] \cap heals[q] : tableOf[x] = b
        BY <1>2, <4>1
      <4>3. q = r
        <5> SUFFICES ASSUME q # r PROVE FALSE
          OBVIOUS
        <5>1. ~Rebuilding(r, c, u)
          BY <1>4, <1>10, <4>1, <4>2 DEF FInv, PeaceInv
        <5> QED
          BY <5>1 DEF Rebuilding
      <4> QED
        BY <1>4, <4>2, <4>3
    <3> QED
      BY <1>10, <3>1, <3>2 DEF Trusted
  <2>2. ~Shared(p) /\ FoldedEvents(p, u) \subseteq 1..snap[r]
    BY <2>1 DEF FInv, PeaceInv
  <2>3. m \in (1..Len(log)) \X Projections /\ m[2] \in In(c) /\ m[1] \in FoldedEvents(m[2], u)
    BY <1>10 DEF AllAbout
  <2>4. m[2] = p
    BY <2>2, <2>3 DEF Shared
  <2>5. m[1] \in ReplayOf(r, p)
    <3>1. m[1] \in FoldedEvents(p, u) /\ m[1] \in 1..snap[r]
      BY <2>2, <2>3, <2>4
    <3> QED
      BY <3>1 DEF ReplayOf
  <2> QED
    BY <1>8, <2>3, <2>4, <2>5
<1>11. ASSUME NEW b \in Tables, NEW t \in Tenants, Trusted(b, t)'
       PROVE  /\ \A id \in Ids : view'[b][t][id] = RowOf(About(b, t, id) \ N)
              /\ ~Counter(b) => \A d \in AllAbout(b, t) \ N, m \in AllAbout(b, t) \cap N : d[1] <= m[1]
  <2>1. CASE b = c /\ t = u
    <3>1. AllAbout(b, t) \ N = {} /\ \A id : About(b, t, id) \ N = {}
      BY <1>10, <1>11, <2>1, AboutIn DEF IInv
    <3>2. \A id \in Ids : view'[b][t][id] = NoRow
      BY <1>1, <1>3, <2>1, WipedRows DEF IInv
    <3> QED
      BY <3>1, <3>2, RowOfNone
  <2>2. CASE ~ (b = c /\ t = u)
    <3>1. Trusted(b, t)
      <4>1. CASE doubt'[b][t] = {}
        <5>1. doubt[b][t] = {}
          BY <1>5, <4>1
        <5> QED
          BY <5>1 DEF Trusted
      <4>2. CASE \E q \in Rebuilders : TenantOf[q] = t /\ \E x \in cur'[q] \cap heals'[q] : tableOf'[x] = b
        <5>1. PICK q \in Rebuilders : TenantOf[q] = t /\ \E x \in cur'[q] \cap heals[q] : tableOf[x] = b
          BY <1>2, <4>2
        <5>2. q # r
          BY <1>4, <2>2, <5>1
        <5>3. cur'[q] = cur[q]
          BY <1>4, <5>2
        <5> QED
          BY <5>1, <5>3 DEF Trusted
      <4> QED
        BY <1>11, <4>1, <4>2 DEF Trusted
    <3>2. \A m \in AllAbout(b, t) : m \in N <=> m \in Missing
      BY <1>9, <2>2
    <3>3. \A id \in Ids : view'[b][t][id] = view[b][t][id]
      BY <1>1, <1>3, <2>2, WipedRows DEF IInv
    <3>4. /\ \A id \in Ids : view[b][t][id] = RowOf(About(b, t, id) \ N)
          /\ ~Counter(b) => \A d \in AllAbout(b, t) \ N, m \in AllAbout(b, t) \cap N : d[1] <= m[1]
      BY <3>1, <3>2, SameFolded
    <3> QED
      BY <3>3, <3>4
  <2> QED
    BY <2>1, <2>2
<1>12. ASSUME NEW b \in Tables, NEW t \in Tenants, NEW id \in Ids, "crossed" \notin doubt'[b][t]
       PROVE  AddsUp(view'[b][t][id].total, Upserts(About(b, t, id) \ N))
  <2>1. "crossed" \notin doubt[b][t]
    BY <1>5, <1>12
  <2>2. (b = c /\ t = u) \/ AllAbout(b, t) \cap N \subseteq Missing
    BY <1>9
  <2>3. AddsUp(Wiped(p, u)[b][t][id].total, Upserts(About(b, t, id) \ N))
    BY <1>3, <2>1, <2>2, TotalWiped DEF FInv
  <2> QED
    BY <1>1, <2>3
<1>13. ShownInv' /\ OrderInv' /\ TotalInv'
  BY <1>2, <1>7, <1>11, <1>12, RowsNext
<1> QED
  BY <1>6, <1>13 DEF FInv

(* A rebuild that fails keeps FInv: its tables are in doubt. *)
LEMMA RebuildFailsKeepsFolds ==
  ASSUME IInv, FInv, NEW r \in Rebuilders, RebuildFails(r)
  PROVE  FInv'
<1> DEFINE u == TenantOf[r]
           Wipes(p)   == p \in queue[r] /\ view' = Wiped(p, u) /\ Doubt({tableOf[p]}, u, {"stale"})
           Replays(p) == /\ p \in cur[r] /\ replay[r] # {} /\ Doubt(TablesOf(cur[r]), u, {"stale"})
                         /\ view' = Applied(p, First(replay[r]))
           Stays      == /\ view' = view
                         /\ \/ cur[r] = {} /\ doubt' = doubt
                            \/ Doubt(TablesOf(cur[r]), u, {"stale"})
<1>1. /\ UNCHANGED <<log, tableOf, todo>>
      /\ queue' = [queue EXCEPT ![r] = {}] /\ cur' = [cur EXCEPT ![r] = {}]
      /\ replay' = [replay EXCEPT ![r] = {}] /\ heals' = [heals EXCEPT ![r] = {}]
      /\ snap' = [snap EXCEPT ![r] = 0]
  BY DEF RebuildFails, EndRebuild
<1>2. Stays \/ \E p \in Projections : (cur[r] = {} /\ Wipes(p)) \/ Replays(p)
  BY DEF RebuildFails, IInv, RebuildInv
<1>3. /\ u \in Tenants /\ tableOf \in [Projections -> Tables]
      /\ queue[r] \subseteq Projections /\ cur[r] \subseteq Projections
      /\ cur[r] = {} => replay[r] = {}
  BY ProjectorAssumption DEF IInv, RebuildInv, DataInv
<1>4. /\ cur'[r] = {} /\ queue'[r] = {} /\ replay'[r] = {} /\ heals'[r] = {}
      /\ \A q \in Rebuilders : q # r =>
           cur'[q] = cur[q] /\ queue'[q] = queue[q] /\ replay'[q] = replay[q]
           /\ heals'[q] = heals[q] /\ snap'[q] = snap[q]
  <2>1. /\ queue \in [Rebuilders -> SUBSET Projections] /\ cur \in [Rebuilders -> SUBSET Projections]
        /\ replay \in [Rebuilders -> SUBSET (1..Len(log))] /\ heals \in [Rebuilders -> SUBSET Projections]
        /\ snap \in [Rebuilders -> 0..Len(log)]
    BY DEF IInv, RebuildInv, HistoryInv
  <2> QED
    BY <1>1, <2>1, Zenon
<1>5. \A B : Doubt(B, u, {"stale"}) =>
        \A b \in Tables, t \in Tenants :
          /\ doubt[b][t] \subseteq doubt'[b][t]
          /\ t = u /\ b \in B => doubt'[b][t] # {}
          /\ "crossed" \in doubt[b][t] <=> "crossed" \in doubt'[b][t]
  <2> HIDE DEF u
  <2> TAKE B
  <2> HAVE Doubt(B, u, {"stale"})
  <2> TAKE b \in Tables, t \in Tenants
  <2>1. doubt'[b][t] = IF t = u /\ b \in B THEN doubt[b][t] \cup {"stale"} ELSE doubt[b][t]
    BY <1>3 DEF Doubt, IInv, HistoryInv, Doubts
  <2>2. t = u /\ b \in B => "stale" \in doubt'[b][t]
    BY <2>1
  <2> QED
    BY <2>1, <2>2
<1> HIDE DEF u
<1>6. /\ \A b \in Tables, t \in Tenants :
           /\ doubt[b][t] \subseteq doubt'[b][t]
           /\ "crossed" \in doubt[b][t] <=> "crossed" \in doubt'[b][t]
           /\ doubt'[b][t] = {} => doubt[b][t] = {}
  <2>1. CASE doubt' = doubt
    BY <2>1
  <2>2. CASE \E B : Doubt(B, u, {"stale"})
    BY <1>5, <2>2
  <2> QED
    BY <1>2, <2>1, <2>2
<1>7. JobInv' /\ PeaceInv' /\ DoubtInv'
  <2>1. \A h \in Handlers : todo'[h] \subseteq todo[h]
    BY <1>1
  <2>2. \A q \in Rebuilders :
           /\ queue'[q] \cup cur'[q] \subseteq queue[q] \cup cur[q] /\ queue'[q] \cap cur'[q] = {}
           /\ queue'[q] \cup cur'[q] # {} => snap'[q] = snap[q] /\ heals'[q] = heals[q]
           /\ cur'[q] \ cur[q] = {}
    <3> TAKE q \in Rebuilders
    <3>1. CASE q = r
      BY <1>4, <3>1
    <3>2. CASE q # r
      BY <1>4, <3>2 DEF FInv, JobInv
    <3> QED
      BY <3>1, <3>2
  <2> QED
    BY <1>1, <1>6, <2>1, <2>2, LessWork DEF FInv
<1>8. PICK N : N = Missing'
  OBVIOUS
<1>9. \A m \in (1..Len(log)) \X Projections :
        m \in N <=> \/ \E h \in Handlers : m \in todo[h]
                    \/ \E q \in Rebuilders : q # r /\ m[2] \in cur[q] /\ m[1] \in replay[q]
  BY <1>1, <1>4, <1>8 DEF Missing
<1>10. N \subseteq Missing
  BY <1>1, <1>8, <1>9 DEF Missing
<1>11. ASSUME NEW b \in Tables, NEW t \in Tenants, Trusted(b, t)'
       PROVE  /\ Trusted(b, t)
              /\ b \in TablesOf(cur[r]) => t # u
              /\ \A p \in Projections : Wipes(p) => ~ (b = tableOf[p] /\ t = u)
  <2>1. CASE doubt'[b][t] = {}
    <3>1. doubt[b][t] = {}
      BY <1>6, <2>1
    <3>2. Trusted(b, t)
      BY <3>1 DEF Trusted
    <3>3. b \in TablesOf(cur[r]) => t # u
      BY <1>2, <1>5, <2>1 DEF TablesOf
    <3>4. \A p \in Projections : Wipes(p) => ~ (b = tableOf[p] /\ t = u)
      BY <1>5, <2>1
    <3> QED
      BY <3>2, <3>3, <3>4
  <2>2. CASE \E q \in Rebuilders : TenantOf[q] = t /\ \E x \in cur'[q] \cap heals'[q] : tableOf'[x] = b
    <3>1. PICK q \in Rebuilders : TenantOf[q] = t /\ \E x \in cur'[q] \cap heals'[q] : tableOf[x] = b
      BY <1>1, <2>2
    <3>2. q # r
      BY <1>4, <3>1
    <3>3. PICK x \in cur[q] \cap heals[q] : tableOf[x] = b
      BY <1>4, <3>1, <3>2
    <3>4. Trusted(b, t)
      BY <3>1, <3>3 DEF Trusted
    <3>5. ~Rebuilding(r, b, t)
      BY <3>1, <3>2, <3>3 DEF FInv, PeaceInv
    <3>6. b \in TablesOf(cur[r]) => t # u
      BY <3>5 DEF TablesOf, Rebuilding, u
    <3>7. \A p \in Projections : Wipes(p) => ~ (b = tableOf[p] /\ t = u)
      BY <3>5 DEF Rebuilding, u
    <3> QED
      BY <3>4, <3>6, <3>7
  <2> QED
    BY <1>11, <2>1, <2>2 DEF Trusted
<1>12. ASSUME NEW p \in Projections, Replays(p)
       PROVE  /\ First(replay[r]) \in 1..Len(log) /\ First(replay[r]) \in replay[r]
              /\ HasRule(p, log[First(replay[r])]) /\ Foldable(p, log[First(replay[r])])
              /\ log[First(replay[r])].tenant = u
              /\ tableOf[p] \in TablesOf(cur[r]) /\ tableOf[p] \in Tables
              /\ <<First(replay[r]), p>> \in Missing
  <2>1. /\ First(replay[r]) \in 1..Len(log) /\ First(replay[r]) \in replay[r] /\ p \in cur[r]
        /\ HasRule(p, log[First(replay[r])]) /\ Foldable(p, log[First(replay[r])])
    BY <1>12, ReplayFacts
  <2>2. First(replay[r]) \in FoldedEvents(p, u)
    BY <2>1 DEF u, IInv, RebuildInv
  <2> QED
    BY <1>3, <2>1, <2>2 DEF FoldedEvents, TablesOf, Missing
<1>13. ASSUME NEW b \in Tables, NEW t \in Tenants, Trusted(b, t)'
       PROVE  /\ \A id \in Ids : view'[b][t][id] = RowOf(About(b, t, id) \ N)
              /\ ~Counter(b) => \A d \in AllAbout(b, t) \ N, m \in AllAbout(b, t) \cap N : d[1] <= m[1]
  <2>1. /\ Trusted(b, t) /\ (b \in TablesOf(cur[r]) => t # u)
        /\ \A p \in Projections : Wipes(p) => ~ (b = tableOf[p] /\ t = u)
    BY <1>11, <1>13
  <2>2. ASSUME NEW m \in AllAbout(b, t), m \in Missing
        PROVE  m \in N
    <3>1. /\ m \in (1..Len(log)) \X Projections /\ tableOf[m[2]] = b /\ log[m[1]].tenant = t
      BY FoldsFacts DEF IInv
    <3>2. ~ (m[2] \in cur[r] /\ m[1] \in replay[r])
      <4> SUFFICES ASSUME m[2] \in cur[r], m[1] \in replay[r] PROVE FALSE
        OBVIOUS
      <4>1. m[1] \in FoldedEvents(m[2], u)
        BY DEF u, IInv, RebuildInv
      <4> QED
        BY <2>1, <3>1, <4>1 DEF FoldedEvents, TablesOf
    <3> QED
      BY <1>9, <2>2, <3>1, <3>2 DEF Missing
  <2>3. \A m \in AllAbout(b, t) : m \in N <=> m \in Missing
    BY <1>10, <2>2
  <2>4. ASSUME NEW id \in Ids
        PROVE  view'[b][t][id] = view[b][t][id]
    <3>1. CASE Stays
      BY <3>1
    <3>2. ASSUME NEW p \in Projections, Wipes(p)
          PROVE  view'[b][t][id] = view[b][t][id]
      BY <1>3, <2>1, <3>2, WipedRows DEF IInv
    <3>3. ASSUME NEW p \in Projections, Replays(p)
          PROVE  view'[b][t][id] = view[b][t][id]
      <4> DEFINE s == First(replay[r])
      <4>1. /\ ~ (b = tableOf[p] /\ t = log[s].tenant) /\ view' = Applied(p, s)
            /\ s \in 1..Len(log) /\ HasRule(p, log[s]) /\ Foldable(p, log[s])
        BY <1>12, <2>1, <3>3
      <4> HIDE DEF s
      <4> QED
        BY <4>1, AppliedRows DEF IInv
    <3> QED
      BY <1>2, <3>1, <3>2, <3>3
  <2>5. /\ \A id \in Ids : view[b][t][id] = RowOf(About(b, t, id) \ N)
        /\ ~Counter(b) => \A d \in AllAbout(b, t) \ N, m \in AllAbout(b, t) \cap N : d[1] <= m[1]
    BY <2>1, <2>3, SameFolded
  <2> QED
    BY <2>4, <2>5
<1>14. ASSUME NEW b \in Tables, NEW t \in Tenants, NEW id \in Ids, "crossed" \notin doubt'[b][t]
       PROVE  AddsUp(view'[b][t][id].total, Upserts(About(b, t, id) \ N))
  <2>1. "crossed" \notin doubt[b][t]
    BY <1>6, <1>14
  <2>2. AllAbout(b, t) \cap N \subseteq Missing
    BY <1>10
  <2>3. CASE Stays
    BY <2>1, <2>2, <2>3, TotalWithMore DEF FInv
  <2>4. ASSUME NEW p \in Projections, Wipes(p)
        PROVE  AddsUp(view'[b][t][id].total, Upserts(About(b, t, id) \ N))
    <3>1. AddsUp(Wiped(p, u)[b][t][id].total, Upserts(About(b, t, id) \ N))
      BY <1>3, <2>1, <2>2, TotalWiped DEF FInv
    <3> QED
      BY <2>4, <3>1
  <2>5. ASSUME NEW p \in Projections, Replays(p)
        PROVE  AddsUp(view'[b][t][id].total, Upserts(About(b, t, id) \ N))
    <3> DEFINE s == First(replay[r])
    <3>1. /\ s \in 1..Len(log) /\ s \in replay[r] /\ HasRule(p, log[s]) /\ Foldable(p, log[s])
          /\ log[s].tenant = u /\ tableOf[p] \in Tables /\ <<s, p>> \in Missing
      BY <1>12, <2>5
    <3>2. view' = Applied(p, s)
      BY <2>5
    <3> HIDE DEF s
    <3>3. ASSUME <<s, p>> \in AllAbout(b, t), <<s, p>> \in N
          PROVE  FALSE
      <4>1. b = tableOf[p] /\ t = u
        BY <3>1, <3>3, FoldIsAbout DEF IInv
      <4>2. Rebuilding(r, b, t)
        BY <2>5, <4>1 DEF Rebuilding, u
      <4>3. /\ \A h \in Handlers : ~Folding(h, b, t)
            /\ \A q \in Rebuilders : q # r => ~Rebuilding(q, b, t)
        BY <2>1, <4>2, NotBoth DEF FInv
      <4>4. \A h \in Handlers : <<s, p>> \notin todo[h]
        BY <3>1, <4>1, <4>3 DEF Folding
      <4>5. PICK q \in Rebuilders : q # r /\ p \in cur[q] /\ s \in replay[q]
        BY <1>9, <3>1, <3>3, <4>4
      <4>6. s \in FoldedEvents(p, TenantOf[q])
        BY <4>5 DEF IInv, RebuildInv
      <4>7. Rebuilding(q, b, t)
        BY <3>1, <4>1, <4>5, <4>6 DEF FoldedEvents, Rebuilding
      <4> QED
        BY <4>3, <4>5, <4>7
    <3>4. AddsUp(Applied(p, s)[b][t][id].total, Upserts(About(b, t, id) \ N))
      BY <2>1, <2>2, <3>1, <3>3, TotalAfterFold DEF FInv
    <3> QED
      BY <3>2, <3>4
  <2> QED
    BY <1>2, <2>3, <2>4, <2>5
<1>15. ShownInv' /\ OrderInv' /\ TotalInv'
  BY <1>1, <1>8, <1>13, <1>14, RowsNext
<1> QED
  BY <1>7, <1>15 DEF FInv

(* A crash keeps FInv: the tables somebody was at work on are in doubt. *)
LEMMA CrashKeepsFolds ==
  ASSUME IInv, FInv, Crash
  PROVE  FInv'
<1>1. /\ UNCHANGED <<log, tableOf, view>>
      /\ \A h \in Handlers : todo'[h] = {}
      /\ \A r \in Rebuilders : queue'[r] = {} /\ cur'[r] = {} /\ heals'[r] = {}
  BY DEF Crash
<1>2. \A b \in Tables, t \in Tenants :
        /\ doubt[b][t] \subseteq doubt'[b][t]
        /\ "crossed" \in doubt[b][t] <=> "crossed" \in doubt'[b][t]
        /\ \A h \in Handlers : b \in Dropped({j \in todo[h] : log[j[1]].tenant = t}) => doubt'[b][t] # {}
        /\ \A r \in Rebuilders : TenantOf[r] = t /\ b \in TablesOf(cur[r]) => doubt'[b][t] # {}
  BY DEF Crash
<1>3. JobInv' /\ PeaceInv' /\ DoubtInv'
  BY <1>1, <1>2, LessWork DEF FInv
<1>4. Missing' = {}
  BY <1>1 DEF Missing
<1>5. ASSUME NEW b \in Tables, NEW t \in Tenants, Trusted(b, t)'
      PROVE  /\ \A id \in Ids : view'[b][t][id] = RowOf(About(b, t, id) \ {})
             /\ ~Counter(b) => \A d \in AllAbout(b, t) \ {}, m \in AllAbout(b, t) \cap {} : d[1] <= m[1]
  <2>1. doubt'[b][t] = {}
    BY <1>1, <1>5 DEF Trusted
  <2>2. doubt[b][t] = {}
    BY <1>2, <2>1
  <2>3. Trusted(b, t)
    BY <2>2 DEF Trusted
  <2>4. ASSUME NEW m \in AllAbout(b, t), m \in Missing
        PROVE  FALSE
    <3>1. tableOf[m[2]] = b /\ log[m[1]].tenant = t /\ Foldable(m[2], log[m[1]])
      BY FoldsFacts DEF IInv
    <3>2. \A h \in Handlers : m \notin todo[h]
      BY <1>2, <2>1, <3>1 DEF Dropped
    <3>3. \A r \in Rebuilders : TenantOf[r] = t => m[2] \notin cur[r]
      BY <1>2, <2>1, <3>1 DEF TablesOf
    <3> QED
      BY <2>4, <3>2, <3>3, MissingFacts
  <2>5. \A m \in AllAbout(b, t) : m \in {} <=> m \in Missing
    BY <2>4
  <2> QED
    BY <1>1, <2>3, <2>5, SameFolded
<1>6. ASSUME NEW b \in Tables, NEW t \in Tenants, NEW id \in Ids, "crossed" \notin doubt'[b][t]
      PROVE  AddsUp(view'[b][t][id].total, Upserts(About(b, t, id) \ {}))
  <2>1. "crossed" \notin doubt[b][t] /\ AllAbout(b, t) \cap {} \subseteq Missing
    BY <1>2, <1>6
  <2>2. AddsUp(view[b][t][id].total, Upserts(About(b, t, id) \ {}))
    BY <2>1, TotalWithMore DEF FInv
  <2> QED
    BY <1>1, <2>2
<1>7. ShownInv' /\ OrderInv' /\ TotalInv'
  BY <1>1, <1>4, <1>5, <1>6, RowsNext
<1> QED
  BY <1>3, <1>7 DEF FInv

(* What is shown is what the folds since the last delete add up to. *)
LEMMA TotalOfShown ==
  ASSUME IInv, ShownInv, NEW b \in Tables, NEW t \in Tenants, Trusted(b, t), NEW id \in Ids
  PROVE  AddsUp(view[b][t][id].total, Upserts(Done(b, t, id)))
<1> DEFINE F == Done(b, t, id)
<1>1. F \subseteq AllAbout(b, t)
  BY AboutIn DEF Done, IInv
<1>2. view[b][t][id] = RowOf(F)
  BY DEF ShownInv
<1> HIDE DEF F
<1>3. Since(F) \in SUBSET Upserts(F)
  BY <1>1, SinceAreUpserts DEF IInv
<1>4. view[b][t][id].total = Sum(Since(F))
  BY <1>2, RowOfSince
<1>5. AddsUp(view[b][t][id].total, Upserts(F))
  BY <1>3, <1>4 DEF AddsUp
<1> QED
  BY <1>5 DEF F

(* A rebuild that starts keeps FInv: it is in peace or crosses somebody. *)
LEMMA StartKeepsFolds ==
  ASSUME IInv, FInv, NEW r \in Rebuilders, StartRebuild(r)
  PROVE  FInv'
<1> DEFINE u == TenantOf[r]
           Over(P) == {b \in TablesOf(P) : ~Settled(b, u)}
<1>1. PICK P \in {{p} : p \in Projections} \cup {Projections} :
        /\ queue' = [queue EXCEPT ![r] = P] /\ snap' = [snap EXCEPT ![r] = Len(log)]
        /\ heals' = [q \in Rebuilders |->
             IF q = r THEN {p \in P : ~Shared(p) /\ tableOf[p] \notin Over(P)}
             ELSE IF TenantOf[q] = u THEN {p \in heals[q] : tableOf[p] \notin Over(P)}
             ELSE heals[q]]
        /\ Doubt(Over(P), u, {"crossed"})
  BY DEF StartRebuild
<1>2. UNCHANGED <<log, tableOf, view, todo, cur, replay, failures>> /\ queue[r] = {} /\ cur[r] = {}
  BY DEF StartRebuild
<1>3. P \subseteq Projections /\ u \in Tenants /\ tableOf \in [Projections -> Tables]
  BY ProjectorAssumption DEF IInv, DataInv
<1> DEFINE X == Over(P)
<1>4. /\ \A b : b \in X <=> b \in TablesOf(P) /\ ~Settled(b, u)
      /\ \A p \in P : tableOf[p] \in TablesOf(P)
  BY DEF TablesOf
<1>5. \A b \in Tables, t \in Tenants :
        doubt'[b][t] = IF t = u /\ b \in X THEN doubt[b][t] \cup {"crossed"} ELSE doubt[b][t]
  <2> HIDE DEF u, X
  <2> QED
    BY <1>1, <1>3 DEF Doubt, IInv, HistoryInv, Doubts, X
<1>6. /\ queue'[r] = P /\ snap'[r] = Len(log) /\ heals'[r] = {p \in P : ~Shared(p) /\ tableOf[p] \notin X}
      /\ \A q \in Rebuilders : q # r =>
           /\ queue'[q] = queue[q] /\ snap'[q] = snap[q]
           /\ heals'[q] = IF TenantOf[q] = u THEN {p \in heals[q] : tableOf[p] \notin X} ELSE heals[q]
  <2> HIDE DEF X
  <2>1. queue \in [Rebuilders -> SUBSET Projections] /\ snap \in [Rebuilders -> 0..Len(log)]
    BY DEF IInv, RebuildInv
  <2> QED
    BY <1>1, <2>1 DEF X
<1> HIDE DEF X, Over, u
<1>7. /\ \A h \in Handlers : \A b, t : Folding(h, b, t)' = Folding(h, b, t)
      /\ \A q \in Rebuilders : \A b, t : q # r => Rebuilding(q, b, t)' = Rebuilding(q, b, t)
      /\ \A b, t : Rebuilding(r, b, t)' <=> t = u /\ b \in TablesOf(P)
      /\ \A p, t : FoldedEvents(p, t)' = FoldedEvents(p, t)
      /\ \A p : Shared(p)' = Shared(p)
      /\ \A b : Counter(b)' = Counter(b)
  <2>1. \A h \in Handlers : \A b, t : Folding(h, b, t)' = Folding(h, b, t)
    BY <1>2 DEF Folding
  <2>2. \A q \in Rebuilders : \A b, t : q # r => Rebuilding(q, b, t)' = Rebuilding(q, b, t)
    BY <1>2, <1>6 DEF Rebuilding
  <2>3. \A b, t : Rebuilding(r, b, t)' <=> t = u /\ b \in TablesOf(P)
    BY <1>2, <1>6 DEF Rebuilding, TablesOf, u
  <2> QED
    BY <1>2, <2>1, <2>2, <2>3, SameLog, SameFoldsOfLog
<1>8. JobInv'
  <2>1. JobInv
    BY DEF FInv
  <2>2. \A q \in Rebuilders : queue'[q] \cap cur'[q] = {}
    <3> TAKE q \in Rebuilders
    <3>1. queue[q] \cap cur[q] = {}
      BY <2>1 DEF JobInv
    <3> QED
      BY <1>2, <1>6, <3>1
  <2> QED
    BY <1>2, <2>1, <2>2 DEF JobInv
<1>9. PeaceInv'
  <2> SUFFICES ASSUME NEW q \in Rebuilders, NEW p \in (queue'[q] \cup cur'[q]) \cap heals'[q]
               PROVE  /\ ~Shared(p)'
                      /\ \A h \in Handlers : ~Folding(h, tableOf[p], TenantOf[q])'
                      /\ \A x \in Rebuilders : x # q => ~Rebuilding(x, tableOf[p], TenantOf[q])'
                      /\ FoldedEvents(p, TenantOf[q])' \subseteq 1..snap'[q]
    BY DEF PeaceInv
  <2> DEFINE b == tableOf[p]
             t == TenantOf[q]
  <2>0. /\ \A h \in Handlers : Folding(h, tableOf[p], TenantOf[q])' = Folding(h, tableOf[p], TenantOf[q])
        /\ \A x \in Rebuilders : x # r =>
             Rebuilding(x, tableOf[p], TenantOf[q])' = Rebuilding(x, tableOf[p], TenantOf[q])
        /\ Rebuilding(r, tableOf[p], TenantOf[q])' <=> TenantOf[q] = u /\ tableOf[p] \in TablesOf(P)
        /\ Shared(p)' = Shared(p)
    <3>1. \A h \in Handlers : Folding(h, tableOf[p], TenantOf[q])' = Folding(h, tableOf[p], TenantOf[q])
      BY <1>2 DEF Folding
    <3>2. \A x \in Rebuilders : x # r =>
             Rebuilding(x, tableOf[p], TenantOf[q])' = Rebuilding(x, tableOf[p], TenantOf[q])
      BY <1>2, <1>6 DEF Rebuilding
    <3>3. Rebuilding(r, tableOf[p], TenantOf[q])' <=> TenantOf[q] = u /\ tableOf[p] \in TablesOf(P)
      BY <1>2, <1>6 DEF Rebuilding, TablesOf, u
    <3> QED
      BY <1>7, <3>1, <3>2, <3>3
  <2>1. CASE q = r
    <3>1. p \in P /\ ~Shared(p) /\ b \in TablesOf(P) /\ b \notin X /\ t = u
      BY <1>4, <1>6, <2>1 DEF u
    <3>2. Settled(b, t)
      BY <1>4, <3>1
    <3>3. /\ \A h \in Handlers : ~Folding(h, b, t)
          /\ \A x \in Rebuilders : ~Rebuilding(x, b, t)
      BY <3>2 DEF Settled
    <3>4. FoldedEvents(p, t) \subseteq 1..snap'[q]
      BY <1>6, <2>1 DEF FoldedEvents
    <3>5. FoldedEvents(p, t)' \subseteq 1..snap'[q]
      BY <1>7, <3>4
    <3> QED
      BY <2>0, <2>1, <3>1, <3>3, <3>5
  <2>2. CASE q # r
    <3>1. p \in (queue[q] \cup cur[q]) \cap heals[q] /\ snap'[q] = snap[q]
      BY <1>2, <1>6, <2>2
    <3>2. /\ ~Shared(p)
          /\ \A h \in Handlers : ~Folding(h, b, t)
          /\ \A x \in Rebuilders : x # q => ~Rebuilding(x, b, t)
          /\ FoldedEvents(p, t) \subseteq 1..snap[q]
      BY <3>1 DEF FInv, PeaceInv
    <3>3. Rebuilding(q, b, t)
      BY <3>1 DEF Rebuilding
    <3>4. ~ (t = u /\ b \in TablesOf(P))
      <4> SUFFICES ASSUME t = u, b \in TablesOf(P) PROVE FALSE
        OBVIOUS
      <4>1. b \in X
        BY <1>4, <3>3 DEF Settled
      <4> QED
        BY <1>6, <2>2, <4>1
    <3>5. FoldedEvents(p, t)' \subseteq 1..snap'[q]
      BY <1>7, <3>1, <3>2
    <3> QED
      BY <2>0, <3>2, <3>4, <3>5
  <2> QED
    BY <2>1, <2>2
<1>10. DoubtInv'
  <2>1. ASSUME NEW q \in Rebuilders, NEW p \in queue'[q] \cup cur'[q], doubt'[tableOf[p]][TenantOf[q]] = {}
        PROVE  /\ tableOf[p] \notin X \/ TenantOf[q] # u
               /\ doubt[tableOf[p]][TenantOf[q]] = {}
    <3>1. p \in Projections
      BY <1>2, <1>3, <1>6 DEF IInv, RebuildInv
    <3>2. tableOf[p] \in Tables /\ TenantOf[q] \in Tenants
      BY <1>3, <3>1, ProjectorAssumption
    <3> QED
      BY <1>5, <2>1, <3>2
  <2>2. ASSUME NEW q \in Rebuilders, NEW p \in queue'[q], doubt'[tableOf[p]][TenantOf[q]] = {}
        PROVE  Shared(p) \/ p \in heals'[q]
    <3>1. CASE q = r
      BY <1>6, <2>1, <2>2, <3>1 DEF u
    <3>2. CASE q # r
      <4>1. p \in queue[q]
        BY <1>6, <3>2
      <4>2. Shared(p) \/ p \in heals[q]
        BY <2>1, <2>2, <4>1 DEF FInv, DoubtInv
      <4> QED
        BY <1>6, <2>1, <2>2, <3>2, <4>2
    <3> QED
      BY <3>1, <3>2
  <2>3. ASSUME NEW q \in Rebuilders, NEW p \in cur'[q], doubt'[tableOf[p]][TenantOf[q]] = {}
        PROVE  p \in heals'[q]
    <3>1. q # r /\ p \in cur[q]
      BY <1>2, <2>3
    <3>2. p \in heals[q]
      BY <2>1, <2>3, <3>1 DEF FInv, DoubtInv
    <3> QED
      BY <1>6, <2>1, <2>3, <3>1, <3>2
  <2>4. ASSUME NEW b \in Tables, NEW t \in Tenants, "crossed" \notin doubt'[b][t],
               NEW q \in Rebuilders, Rebuilding(q, b, t)'
        PROVE  /\ \A h \in Handlers : ~Folding(h, b, t)'
               /\ \A x \in Rebuilders : x # q => ~Rebuilding(x, b, t)'
    <3>1. "crossed" \notin doubt[b][t] /\ ~ (t = u /\ b \in X)
      BY <1>5, <2>4
    <3>2. CASE q = r
      <4>1. t = u /\ b \in TablesOf(P)
        BY <1>7, <2>4, <3>2
      <4>2. Settled(b, t)
        BY <1>4, <3>1, <4>1
      <4> QED
        BY <1>7, <3>2, <4>2 DEF Settled
    <3>3. CASE q # r
      <4>1. Rebuilding(q, b, t)
        BY <1>7, <2>4, <3>3
      <4>2. /\ \A h \in Handlers : ~Folding(h, b, t)
            /\ \A x \in Rebuilders : x # q => ~Rebuilding(x, b, t)
        BY <3>1, <4>1 DEF FInv, DoubtInv
      <4>3. ~Rebuilding(r, b, t)'
        BY <1>4, <1>7, <3>1, <4>1 DEF Settled
      <4> QED
        BY <1>7, <4>2, <4>3
    <3> QED
      BY <3>2, <3>3
  <2>5. ASSUME NEW b \in Tables, NEW t \in Tenants, doubt'[b][t] = {}, ~Counter(b),
               NEW g \in Handlers, NEW h \in Handlers, Folding(g, b, t)', Folding(h, b, t)'
        PROVE  g = h
    <3>1. doubt[b][t] = {}
      BY <1>5, <2>5
    <3> QED
      BY <1>7, <2>5, <3>1 DEF FInv, DoubtInv
  <2>6. tableOf' = tableOf
    BY <1>2
  <2> QED
    BY <1>7, <2>2, <2>3, <2>4, <2>5, <2>6 DEF DoubtInv
<1>11. Missing' = Missing
  BY <1>2 DEF Missing
<1>12. ASSUME NEW b \in Tables, NEW t \in Tenants, Trusted(b, t)'
       PROVE  Trusted(b, t)
  <2>1. CASE doubt'[b][t] = {}
    <3>1. doubt[b][t] = {}
      BY <1>5, <2>1
    <3> QED
      BY <3>1 DEF Trusted
  <2>2. CASE \E q \in Rebuilders : TenantOf[q] = t /\ \E p \in cur'[q] \cap heals'[q] : tableOf'[p] = b
    <3>1. PICK q \in Rebuilders : TenantOf[q] = t /\ \E p \in cur[q] \cap heals'[q] : tableOf[p] = b
      BY <1>2, <2>2
    <3>2. q # r
      BY <1>2, <3>1
    <3>3. heals'[q] \subseteq heals[q]
      BY <1>6, <3>2
    <3> QED
      BY <3>1, <3>3 DEF Trusted
  <2> QED
    BY <1>12, <2>1, <2>2 DEF Trusted
<1>13. \A b \in Tables, t \in Tenants : "crossed" \notin doubt'[b][t] => "crossed" \notin doubt[b][t]
  BY <1>5
<1>14. ShownInv' /\ OrderInv' /\ TotalInv'
  <2>1. PICK N : N = Missing
    OBVIOUS
  <2>2. ASSUME NEW b \in Tables, NEW t \in Tenants, Trusted(b, t)'
        PROVE  /\ \A id \in Ids : view'[b][t][id] = RowOf(About(b, t, id) \ N)
               /\ ~Counter(b) => \A d \in AllAbout(b, t) \ N, m \in AllAbout(b, t) \cap N : d[1] <= m[1]
    <3>1. view' = view
      BY <1>2
    <3>2. Trusted(b, t)
      BY <1>12, <2>2
    <3> QED
      BY <2>1, <3>1, <3>2, SameFolded
  <2>3. ASSUME NEW b \in Tables, NEW t \in Tenants, NEW id \in Ids, "crossed" \notin doubt'[b][t]
        PROVE  AddsUp(view'[b][t][id].total, Upserts(About(b, t, id) \ N))
    <3>1. view' = view /\ "crossed" \notin doubt[b][t]
      BY <1>2, <1>13, <2>3
    <3> QED
      BY <2>1, <3>1, TotalWithMore DEF FInv
  <2> QED
    BY <1>2, <1>11, <2>1, <2>2, <2>3, RowsNext
<1> QED
  BY <1>8, <1>9, <1>10, <1>14 DEF FInv

(* A projection rebuilt keeps FInv: nothing is missing where it lifts doubt. *)
LEMMA FinishKeepsFolds ==
  ASSUME IInv, FInv, NEW r \in Rebuilders, FinishProjection(r)
  PROVE  FInv'
<1> DEFINE u == TenantOf[r]
           Healed == TablesOf(cur[r] \cap heals[r])
<1>1. /\ cur' = [cur EXCEPT ![r] = {}] /\ replay[r] = {} /\ cur[r] # {}
      /\ doubt' = [b \in Tables |-> [doubt[b] EXCEPT ![u] = IF b \in Healed THEN {} ELSE @]]
      /\ heals' = [heals EXCEPT ![r] = @ \ cur[r]]
      /\ UNCHANGED <<log, tableOf, view, todo, replay>>
      /\ \/ queue[r] = {} /\ queue' = [queue EXCEPT ![r] = {}] /\ snap' = [snap EXCEPT ![r] = 0]
         \/ UNCHANGED <<queue, snap>>
  BY DEF FinishProjection, ReplayDone, EndRebuild
<1>2. PICK C : C = Healed
  OBVIOUS
<1>3. u \in Tenants
  BY ProjectorAssumption
<1>4. \A b \in Tables, t \in Tenants :
        doubt'[b][t] = IF t = u /\ b \in C THEN {} ELSE doubt[b][t]
  <2>1. doubt' = [b \in Tables |-> [doubt[b] EXCEPT ![u] = IF b \in C THEN {} ELSE @]]
    BY <1>1, <1>2
  <2> HIDE DEF u
  <2> QED
    BY <1>3, <2>1 DEF IInv, HistoryInv, Doubts
<1>5. /\ cur'[r] = {} /\ heals'[r] = heals[r] \ cur[r] /\ queue'[r] = queue[r]
      /\ queue[r] # {} => snap'[r] = snap[r]
      /\ \A q \in Rebuilders : q # r =>
           cur'[q] = cur[q] /\ heals'[q] = heals[q] /\ queue'[q] = queue[q] /\ snap'[q] = snap[q]
  <2>1. /\ queue \in [Rebuilders -> SUBSET Projections] /\ snap \in [Rebuilders -> 0..Len(log)]
        /\ cur \in [Rebuilders -> SUBSET Projections] /\ heals \in [Rebuilders -> SUBSET Projections]
    BY DEF IInv, RebuildInv, HistoryInv
  <2>2. CASE UNCHANGED <<queue, snap>>
    BY <1>1, <2>1, <2>2
  <2>3. CASE queue[r] = {} /\ queue' = [queue EXCEPT ![r] = {}] /\ snap' = [snap EXCEPT ![r] = 0]
    BY <1>1, <2>1, <2>3
  <2> QED
    BY <1>1, <2>2, <2>3
<1>6. ASSUME NEW b \in C
      PROVE  \E x \in cur[r] \cap heals[r] : tableOf[x] = b
  BY <1>2, <1>6 DEF TablesOf
<1> HIDE DEF u, Healed
<1>7. ASSUME NEW b \in Tables, b \in C
      PROVE  /\ Trusted(b, u)
             /\ \A h \in Handlers : ~Folding(h, b, u)
             /\ \A q \in Rebuilders : q # r => ~Rebuilding(q, b, u)
  <2>1. PICK x \in cur[r] \cap heals[r] : tableOf[x] = b
    BY <1>6, <1>7
  <2>2. Trusted(b, u)
    BY <2>1 DEF Trusted, u
  <2>3. /\ \A h \in Handlers : ~Folding(h, b, u)
        /\ \A q \in Rebuilders : q # r => ~Rebuilding(q, b, u)
    BY <2>1 DEF FInv, PeaceInv, u
  <2> QED
    BY <2>2, <2>3
<1>8. JobInv' /\ PeaceInv'
  <2>1. \A h \in Handlers : todo'[h] \subseteq todo[h]
    BY <1>1
  <2>2. \A q \in Rebuilders :
           /\ queue'[q] \cup cur'[q] \subseteq queue[q] \cup cur[q] /\ queue'[q] \cap cur'[q] = {}
           /\ queue'[q] \cup cur'[q] # {} => snap'[q] = snap[q] /\ heals'[q] \subseteq heals[q]
    <3> TAKE q \in Rebuilders
    <3>1. CASE q = r
      BY <1>5, <3>1
    <3>2. CASE q # r
      BY <1>5, <3>2 DEF FInv, JobInv
    <3> QED
      BY <3>1, <3>2
  <2> QED
    BY <1>1, <2>1, <2>2, LessPeace DEF FInv
<1>9. DoubtInv'
  <2>0. /\ \A h \in Handlers : \A b, t : Folding(h, b, t)' => Folding(h, b, t)
        /\ \A q \in Rebuilders : \A b, t : Rebuilding(q, b, t)' => Rebuilding(q, b, t)
    <3>1. \A h \in Handlers : todo'[h] \subseteq todo[h]
      BY <1>1
    <3>2. \A q \in Rebuilders : queue'[q] \cup cur'[q] \subseteq queue[q] \cup cur[q]
      BY <1>5
    <3> QED
      BY <1>1, <3>1, <3>2, LessAtWork
  <2>1. ASSUME NEW q \in Rebuilders, NEW p \in queue[q] \cup cur[q]
        PROVE  /\ p \in Projections /\ tableOf[p] \in Tables /\ TenantOf[q] \in Tenants
               /\ Rebuilding(q, tableOf[p], TenantOf[q])
    BY ProjectorAssumption DEF IInv, RebuildInv, DataInv, Rebuilding
  <2>2. ASSUME NEW q \in Rebuilders, q # r, NEW p \in queue[q] \cup cur[q],
               doubt'[tableOf[p]][TenantOf[q]] = {}
        PROVE  doubt[tableOf[p]][TenantOf[q]] = {}
    BY <1>4, <1>7, <2>1, <2>2
  <2>3. ASSUME NEW q \in Rebuilders, NEW p \in queue'[q], doubt'[tableOf[p]][TenantOf[q]] = {}
        PROVE  Shared(p) \/ p \in heals'[q]
    <3>1. CASE q # r
      <4>1. p \in queue[q]
        BY <1>5, <3>1
      <4>2. Shared(p) \/ p \in heals[q]
        BY <2>2, <2>3, <3>1, <4>1 DEF FInv, DoubtInv
      <4> QED
        BY <1>5, <3>1, <4>2
    <3>2. CASE q = r
      <4>1. p \in queue[r] /\ p \notin cur[r]
        BY <1>5, <3>2 DEF FInv, JobInv
      <4>2. CASE doubt[tableOf[p]][u] = {}
        <5>1. Shared(p) \/ p \in heals[r]
          BY <4>1, <4>2 DEF FInv, DoubtInv, u
        <5> QED
          BY <1>5, <3>2, <4>1, <5>1
      <4>3. CASE tableOf[p] \in C
        <5>1. PICK x \in cur[r] \cap heals[r] : tableOf[x] = tableOf[p]
          BY <1>6, <4>3
        <5>2. x # p /\ x \in Projections /\ p \in Projections
          BY <2>1, <4>1, <5>1
        <5> QED
          BY <5>1, <5>2 DEF Shared, In
      <4>4. tableOf[p] \in Tables
        BY <2>1, <4>1
      <4> QED
        BY <1>3, <1>4, <2>3, <3>2, <4>2, <4>3, <4>4 DEF u
    <3> QED
      BY <3>1, <3>2
  <2>4. ASSUME NEW q \in Rebuilders, NEW p \in cur'[q], doubt'[tableOf[p]][TenantOf[q]] = {}
        PROVE  p \in heals'[q]
    <3>1. q # r /\ p \in cur[q]
      BY <1>5, <2>4
    <3>2. p \in heals[q]
      BY <2>2, <2>4, <3>1 DEF FInv, DoubtInv
    <3> QED
      BY <1>5, <3>1, <3>2
  <2>5. ASSUME NEW b \in Tables, NEW t \in Tenants, "crossed" \notin doubt'[b][t],
               NEW q \in Rebuilders, Rebuilding(q, b, t)'
        PROVE  /\ \A h \in Handlers : ~Folding(h, b, t)'
               /\ \A x \in Rebuilders : x # q => ~Rebuilding(x, b, t)'
    <3>1. Rebuilding(q, b, t)
      BY <2>0, <2>5
    <3>2. Trusted(b, t) \/ "crossed" \notin doubt[b][t]
      BY <1>4, <1>7, <2>5
    <3>3. /\ \A h \in Handlers : ~Folding(h, b, t)
          /\ \A x \in Rebuilders : x # q => ~Rebuilding(x, b, t)
      BY <3>1, <3>2, NotBoth DEF FInv
    <3> QED
      BY <2>0, <3>3
  <2>6. ASSUME NEW b \in Tables, NEW t \in Tenants, doubt'[b][t] = {}, ~Counter(b),
               NEW g \in Handlers, NEW h \in Handlers, Folding(g, b, t)', Folding(h, b, t)'
        PROVE  g = h
    <3>1. Folding(g, b, t) /\ Folding(h, b, t)
      BY <2>0, <2>6
    <3>2. doubt[b][t] = {}
      BY <1>4, <1>7, <2>6, <3>1
    <3> QED
      BY <2>6, <3>1, <3>2 DEF FInv, DoubtInv
  <2>7. /\ tableOf' = tableOf
        /\ \A p : Shared(p)' = Shared(p)
        /\ \A b : Counter(b)' = Counter(b)
    BY <1>1, SameFoldsOfLog
  <2> QED
    BY <2>3, <2>4, <2>5, <2>6, <2>7 DEF DoubtInv
<1>10. Missing' = Missing
  <2>1. \A m, q \in Rebuilders : m[2] \in cur[q] /\ m[1] \in replay[q] <=> m[2] \in cur'[q] /\ m[1] \in replay'[q]
    BY <1>1, <1>5
  <2> QED
    BY <1>1, <2>1 DEF Missing
<1>11. ASSUME NEW b \in Tables, NEW t \in Tenants, Trusted(b, t)'
       PROVE  Trusted(b, t)
  <2>1. CASE doubt'[b][t] = {}
    BY <1>4, <1>7, <2>1 DEF Trusted
  <2>2. CASE \E q \in Rebuilders : TenantOf[q] = t /\ \E p \in cur'[q] \cap heals'[q] : tableOf'[p] = b
    <3>1. PICK q \in Rebuilders : TenantOf[q] = t /\ \E p \in cur'[q] \cap heals'[q] : tableOf[p] = b
      BY <1>1, <2>2
    <3>2. cur'[q] \subseteq cur[q] /\ heals'[q] \subseteq heals[q]
      BY <1>5
    <3> QED
      BY <3>1, <3>2 DEF Trusted
  <2> QED
    BY <1>11, <2>1, <2>2 DEF Trusted
<1>12. ShownInv' /\ OrderInv' /\ TotalInv'
  <2>1. PICK N : N = Missing
    OBVIOUS
  <2>2. ASSUME NEW b \in Tables, NEW t \in Tenants, Trusted(b, t)'
        PROVE  /\ \A id \in Ids : view'[b][t][id] = RowOf(About(b, t, id) \ N)
               /\ ~Counter(b) => \A d \in AllAbout(b, t) \ N, m \in AllAbout(b, t) \cap N : d[1] <= m[1]
    <3>1. view' = view
      BY <1>1
    <3>2. Trusted(b, t)
      BY <1>11, <2>2
    <3> QED
      BY <2>1, <3>1, <3>2, SameFolded
  <2>3. ASSUME NEW b \in Tables, NEW t \in Tenants, NEW id \in Ids, "crossed" \notin doubt'[b][t]
        PROVE  AddsUp(view'[b][t][id].total, Upserts(About(b, t, id) \ N))
    <3>1. view' = view
      BY <1>1
    <3>2. CASE "crossed" \notin doubt[b][t]
      BY <2>1, <3>1, <3>2, TotalWithMore DEF FInv
    <3>3. CASE Trusted(b, t)
      BY <2>1, <3>1, <3>3, TotalOfShown DEF FInv, Done
    <3> QED
      BY <1>4, <1>7, <2>3, <3>2, <3>3
  <2> QED
    BY <1>1, <1>10, <2>1, <2>2, <2>3, RowsNext
<1> QED
  BY <1>8, <1>9, <1>12 DEF FInv

(* What the log had says the same when it has grown. *)
LEMMA LongerLog ==
  ASSUME DataInv, tableOf' = tableOf, Len(log') \in Nat, Len(log) <= Len(log'),
         \A s \in 1..Len(log) : log'[s] = log[s]
  PROVE  /\ \A p \in Projections, t \in Tenants, s \in 1..Len(log) :
              s \in FoldedEvents(p, t)' <=> s \in FoldedEvents(p, t)
         /\ \A b \in Tables, t \in Tenants : \A f \in (1..Len(log)) \X Projections :
              f \in AllAbout(b, t)' <=> f \in AllAbout(b, t)
         /\ \A b \in Tables, t \in Tenants : \A id : \A f \in (1..Len(log)) \X Projections :
              f \in About(b, t, id)' <=> f \in About(b, t, id)
         /\ \A b \in Tables, t \in Tenants : \A F \in SUBSET AllAbout(b, t) :
              /\ RowOf(F)' = RowOf(F) /\ Upserts(F)' = Upserts(F)
              /\ \A G \in SUBSET Upserts(F) : Sum(G)' = Sum(G)
         /\ \A b : Counter(b)' = Counter(b)
         /\ \A p : Shared(p)' = Shared(p)
<1>0. Len(log) \in Nat /\ \A s \in 1..Len(log) : s \in 1..Len(log')
  BY DEF DataInv
<1>1. \A p, e : /\ HasRule(p, e)' = HasRule(p, e) /\ Foldable(p, e)' = Foldable(p, e)
                /\ RuleFor(p, e)' = RuleFor(p, e) /\ RowId(p, e)' = RowId(p, e)
  BY DEF HasRule, Foldable, RuleFor, RowId
<1>2. \A b : In(b)' = In(b)
  BY DEF In
<1>3. \A p \in Projections, t \in Tenants, s \in 1..Len(log) :
        s \in FoldedEvents(p, t)' <=> s \in FoldedEvents(p, t)
  BY <1>0, <1>1 DEF FoldedEvents
<1>4. ASSUME NEW b \in Tables, NEW t \in Tenants, NEW f \in (1..Len(log)) \X Projections
      PROVE  f \in AllAbout(b, t)' <=> f \in AllAbout(b, t)
  <2>1. f \in (1..Len(log')) \X Projections
    BY <1>0
  <2>2. f[1] \in FoldedEvents(f[2], t)' <=> f[1] \in FoldedEvents(f[2], t)
    BY <1>3
  <2> QED
    BY <1>2, <2>1, <2>2 DEF AllAbout
<1>5. ASSUME NEW b \in Tables, NEW t \in Tenants, NEW id, NEW f \in (1..Len(log)) \X Projections
      PROVE  f \in About(b, t, id)' <=> f \in About(b, t, id)
  <2>1. f[2] \in Projections /\ f[1] \in 1..Len(log) /\ f = <<f[1], f[2]>>
    OBVIOUS
  <2>2. f \in About(b, t, id) <=>
          f[2] \in In(b) /\ f[1] \in FoldedEvents(f[2], t) /\ RowId(f[2], log[f[1]]) = id
    BY <2>1 DEF About
  <2>3. f \in About(b, t, id)' <=>
          f[2] \in In(b)' /\ f[1] \in FoldedEvents(f[2], t)' /\ RowId(f[2], log[f[1]])' = id
    BY <2>1 DEF About
  <2>4. RowId(f[2], log[f[1]])' = RowId(f[2], log[f[1]])
    BY <2>1 DEF RowId, RuleFor
  <2> QED
    BY <1>2, <1>3, <2>1, <2>2, <2>3, <2>4
<1>6. ASSUME NEW b \in Tables, NEW t \in Tenants, NEW F \in SUBSET AllAbout(b, t)
      PROVE  /\ RowOf(F)' = RowOf(F) /\ Upserts(F)' = Upserts(F)
             /\ \A G \in SUBSET Upserts(F) : Sum(G)' = Sum(G)
  <2>1. \A f \in F : f[1] \in 1..Len(log)
    BY FoldsFacts
  <2>2. \A f \in F : Op(f)' = Op(f)
    BY <2>1 DEF Op, RuleFor
  <2>3. ASSUME NEW G \in SUBSET F, \A f \in G : Op(f).op = "upsert"
        PROVE  Sum(G)' = Sum(G)
    <3>1. Sum(G)' = SumOver(log', {f \in G : Op(f)'.inc})
      BY Zenon DEF Sum, SumOver, MapThenSumSet, MapThenFoldSet
    <3>2. {f \in G : Op(f)'.inc} = {f \in G : Op(f).inc}
      BY <2>2
    <3>3. SumOver(log', {f \in G : Op(f).inc}) = SumOver(log, {f \in G : Op(f).inc})
      <4> DEFINE I == {f \in G : Op(f).inc}
      <4>1. \A f \in I : Amount(log', f) = Amount(log, f)
        BY <2>1 DEF Amount
      <4>2. IsFiniteSet(I) /\ \A f \in I : Amount(log, f) \in Int
        <5>1. G \subseteq AllAbout(b, t)
          OBVIOUS
        <5> QED
          BY <2>3, <5>1, AmountsAdd
      <4>3. SumOver(log', I) = SumOver(log, I)
        <5> HIDE DEF I
        <5> QED
          BY <4>1, <4>2, SumSame
      <4> QED
        BY <4>3
    <3> QED
      BY <3>1, <3>2, <3>3, SumOfFolds
  <2>4. \A G : Latest(G)' = Latest(G)
    BY DEF Latest
  <2>5. RowOf(F)' = RowOf(F)
    <3>1. {f \in F : Op(f).op = "delete"}' = {f \in F : Op(f).op = "delete"}
      BY <2>2
    <3> DEFINE A == {f \in F : f[1] > Latest({d \in F : Op(d).op = "delete"})}
    <3>2. A' = A
      BY <2>4, <3>1
    <3>3. {f \in A : Op(f).set}' = {f \in A : Op(f).set}
      BY <2>2, <3>2
    <3>4. \A G : G = A => Sum(G)' = Sum(G)
      <4>0. A = Since(F)
        BY Zenon DEF Since, Deletes
      <4> HIDE DEF A
      <4>2. Since(F) \subseteq Upserts(F)
        BY SinceAreUpserts
      <4>1. A \subseteq F /\ \A f \in A : Op(f).op = "upsert"
        BY <4>0, <4>2 DEF Upserts
      <4> QED
        BY <2>3, <4>1
    <3> QED
      BY <2>4, <3>1, <3>2, <3>3, <3>4 DEF RowOf
  <2>6. Upserts(F)' = Upserts(F) /\ Upserts(F) \subseteq F /\ \A f \in Upserts(F) : Op(f).op = "upsert"
    BY <2>2 DEF Upserts
  <2>7. \A G \in SUBSET Upserts(F) : Sum(G)' = Sum(G)
    BY <2>3, <2>6
  <2> QED
    BY <2>5, <2>6, <2>7
<1>7. \A b : Counter(b)' = Counter(b)
  BY <1>2 DEF Counter
<1>8. \A p : Shared(p)' = Shared(p)
  BY <1>2 DEF Shared
<1> QED
  BY <1>3, <1>4, <1>5, <1>6, <1>7, <1>8

(* An append keeps FInv: its folds are missing, after all that are done, *)
(* unless somebody is at work on a table it touches.                     *)
LEMMA AppendKeepsFolds ==
  ASSUME IInv, FInv, NEW h \in Handlers, AppendBatch(h)
  PROVE  FInv'
<1> DEFINE Jobs(b) == {job \in (Len(log) + 1..Len(log) + Len(b)) \X Projections :
                         HasRule(job[2], b[job[1] - Len(log)])}
           Touched(b)  == {tableOf[job[2]] : job \in Jobs(b)}
           Shuffled(b) == {c \in Touched(b) :
                             ~Counter(c) /\ \E g \in Handlers : Folding(g, c, b[1].tenant)}
           Crossed(b)  == {c \in Touched(b) : \E r \in Rebuilders : Rebuilding(r, c, b[1].tenant)}
<1>1. PICK b \in Batches :
        /\ log' = log \o b
        /\ todo' = [todo EXCEPT ![h] = Jobs(b)]
        /\ doubt' = [c \in Tables |-> [doubt[c] EXCEPT ![b[1].tenant] =
             @ \cup (IF c \in Shuffled(b) THEN {"shuffled"} ELSE {})
               \cup (IF c \in Crossed(b) THEN {"crossed"} ELSE {})]]
        /\ heals' = [r \in Rebuilders |->
             IF TenantOf[r] = b[1].tenant THEN {p \in heals[r] : tableOf[p] \notin Crossed(b)}
             ELSE heals[r]]
  BY Zenon DEF AppendBatch
<1>2. UNCHANGED <<tableOf, view, queue, cur, snap, replay, failures>> /\ todo[h] = {}
  BY DEF AppendBatch, rebuildVars
<1>3. PICK J, T, X, Y, u :
        /\ J = Jobs(b) /\ T = Touched(b) /\ X = Crossed(b) /\ Y = Shuffled(b) /\ u = b[1].tenant
  OBVIOUS
<1>4. /\ b \in Seq(Event) /\ b # <<>> /\ log \in Seq(Event)
      /\ \A j \in DOMAIN b : b[j].tenant = b[1].tenant
  BY ProjectorAssumption DEF IInv, DataInv
<1>5. /\ Len(log') = Len(log) + Len(b) /\ Len(log) \in Nat /\ Len(b) \in Nat
      /\ \A s \in 1..Len(log) : log'[s] = log[s]
      /\ \A s \in Len(log) + 1..Len(log) + Len(b) : log'[s] = b[s - Len(log)]
      /\ b[1] \in Event
  BY <1>1, <1>4
<1>6. \A s \in Len(log) + 1..Len(log') : log'[s].tenant = u
  BY <1>3, <1>4, <1>5
<1>7. /\ u \in Tenants /\ Len(log') \in Nat /\ Len(log) <= Len(log')
      /\ \A s : s \in 1..Len(log') <=> s \in 1..Len(log) \/ s \in Len(log) + 1..Len(log')
      /\ \A s : ~ (s \in 1..Len(log) /\ s \in Len(log) + 1..Len(log'))
      /\ \A d \in 1..Len(log), s \in Len(log) + 1..Len(log') : d <= s
  BY <1>3, <1>5 DEF Event
<1>8. /\ \A job : job \in J <=>
           job \in (Len(log) + 1..Len(log')) \X Projections /\ HasRule(job[2], log'[job[1]])
      /\ \A job \in J : tableOf[job[2]] \in T
  BY <1>3, <1>5
<1>9. todo'[h] = J /\ \A g \in Handlers : g # h => todo'[g] = todo[g]
  BY <1>1, <1>3 DEF IInv, FoldInv
<1>10. /\ \A c \in T : (\E r \in Rebuilders : Rebuilding(r, c, u)) => c \in X
       /\ \A c \in T : ~Counter(c) /\ (\E g \in Handlers : Folding(g, c, u)) => c \in Y
  BY <1>3
<1>11. \A c \in Tables, t \in Tenants :
         /\ doubt[c][t] \subseteq doubt'[c][t]
         /\ t = u /\ c \in X => "crossed" \in doubt'[c][t]
         /\ t = u /\ c \in Y => "shuffled" \in doubt'[c][t]
  <2>1. doubt' = [c \in Tables |-> [doubt[c] EXCEPT ![u] =
             doubt[c][u] \cup (IF c \in Y THEN {"shuffled"} ELSE {})
               \cup (IF c \in X THEN {"crossed"} ELSE {})]]
    BY <1>1, <1>3
  <2>2. \A c \in Tables, t \in Tenants : doubt'[c][t] =
          IF t = u THEN doubt[c][u] \cup (IF c \in Y THEN {"shuffled"} ELSE {})
                          \cup (IF c \in X THEN {"crossed"} ELSE {})
          ELSE doubt[c][t]
    BY <1>7, <2>1 DEF IInv, HistoryInv, Doubts
  <2> QED
    BY <2>2
<1>12. \A r \in Rebuilders :
         heals'[r] = IF TenantOf[r] = u THEN {p \in heals[r] : tableOf[p] \notin X} ELSE heals[r]
  BY <1>1, <1>3
<1> HIDE DEF Jobs, Touched, Shuffled, Crossed
<1>13. /\ tableOf \in [Projections -> Tables]
       /\ todo \in [Handlers -> SUBSET ((1..Len(log)) \X Projections)]
       /\ \A r \in Rebuilders : queue[r] \cup cur[r] \subseteq Projections /\ TenantOf[r] \in Tenants
       /\ \A r \in Rebuilders : replay[r] \subseteq 1..Len(log)
  BY ProjectorAssumption DEF IInv, DataInv, FoldInv, RebuildInv
<1>14. /\ \A g \in Handlers : \A c, t : Folding(g, c, t)' /\ g # h => Folding(g, c, t)
       /\ \A c, t : Folding(h, c, t)' => t = u /\ c \in T
       /\ \A r \in Rebuilders : \A c, t : Rebuilding(r, c, t)' = Rebuilding(r, c, t)
  <2>1. ASSUME NEW g \in Handlers, NEW c, NEW t, g # h, Folding(g, c, t)'
        PROVE  Folding(g, c, t)
    <3>1. PICK job \in todo[g] : tableOf[job[2]] = c /\ log'[job[1]].tenant = t
      BY <1>2, <1>9, <2>1 DEF Folding
    <3>2. log'[job[1]] = log[job[1]]
      BY <1>5, <1>13
    <3> QED
      BY <3>1, <3>2 DEF Folding
  <2>2. ASSUME NEW c, NEW t, Folding(h, c, t)'
        PROVE  t = u /\ c \in T
    <3>1. PICK job \in J : tableOf[job[2]] = c /\ log'[job[1]].tenant = t
      BY <1>2, <1>9, <2>2 DEF Folding
    <3> QED
      BY <1>6, <1>8, <3>1
  <2>3. \A r \in Rebuilders : \A c, t : Rebuilding(r, c, t)' = Rebuilding(r, c, t)
    BY <1>2 DEF Rebuilding
  <2> QED
    BY <2>1, <2>2, <2>3
<1>15. /\ \A p \in Projections, t \in Tenants, s \in 1..Len(log) :
            s \in FoldedEvents(p, t)' <=> s \in FoldedEvents(p, t)
       /\ \A c \in Tables, t \in Tenants : \A f \in (1..Len(log)) \X Projections :
            f \in AllAbout(c, t)' <=> f \in AllAbout(c, t)
       /\ \A c \in Tables, t \in Tenants : \A id : \A f \in (1..Len(log)) \X Projections :
            f \in About(c, t, id)' <=> f \in About(c, t, id)
       /\ \A c \in Tables, t \in Tenants : \A F \in SUBSET AllAbout(c, t) :
            /\ RowOf(F)' = RowOf(F) /\ Upserts(F)' = Upserts(F)
            /\ \A G \in SUBSET Upserts(F) : Sum(G)' = Sum(G)
       /\ \A c : Counter(c)' = Counter(c)
       /\ \A p : Shared(p)' = Shared(p)
  BY <1>2, <1>5, <1>7, LongerLog DEF IInv
<1>16. JobInv'
  <2>0. JobInv
    BY DEF FInv
  <2>1. ASSUME NEW g \in Handlers, NEW j \in todo'[g], NEW k \in todo'[g]
        PROVE  log'[j[1]].tenant = log'[k[1]].tenant
    <3>1. CASE g = h
      BY <1>6, <1>8, <1>9, <3>1
    <3>2. CASE g # h
      <4>1. j \in todo[g] /\ k \in todo[g] /\ j[1] \in 1..Len(log) /\ k[1] \in 1..Len(log)
        BY <1>9, <1>13, <3>2
      <4>2. log[j[1]].tenant = log[k[1]].tenant
        BY <2>0, <4>1 DEF JobInv
      <4> QED
        BY <1>5, <4>1, <4>2
    <3> QED
      BY <3>1, <3>2
  <2>2. ASSUME NEW f \in Handlers, NEW g \in Handlers, f # g, NEW j, j \in todo'[f], j \in todo'[g]
        PROVE  FALSE
    <3>1. \A k \in Handlers : k # h /\ j \in todo'[k] => j \in todo[k] /\ j[1] \in 1..Len(log)
      BY <1>9, <1>13
    <3>2. j \in J => j[1] \in Len(log) + 1..Len(log')
      BY <1>8
    <3>3. CASE f # h /\ g # h
      BY <2>0, <2>2, <3>1, <3>3 DEF JobInv
    <3>4. CASE f = h \/ g = h
      BY <1>7, <1>9, <2>2, <3>1, <3>2, <3>4
    <3> QED
      BY <3>3, <3>4
  <2>3. \A r \in Rebuilders : queue'[r] \cap cur'[r] = {}
    BY <1>2, <2>0 DEF JobInv
  <2> QED
    BY <2>1, <2>2, <2>3 DEF JobInv
<1>17. \A r \in Rebuilders : heals'[r] \subseteq heals[r]
  BY <1>12
<1>18. ASSUME NEW r \in Rebuilders, NEW p \in (queue[r] \cup cur[r]) \cap heals'[r]
       PROVE  TenantOf[r] = u => tableOf[p] \notin T
  <2>1. Rebuilding(r, tableOf[p], TenantOf[r])
    BY DEF Rebuilding
  <2> QED
    BY <1>10, <1>12, <2>1
<1>19. PeaceInv'
  <2> SUFFICES ASSUME NEW r \in Rebuilders, NEW p \in (queue'[r] \cup cur'[r]) \cap heals'[r]
               PROVE  /\ ~Shared(p)'
                      /\ \A g \in Handlers : ~Folding(g, tableOf[p], TenantOf[r])'
                      /\ \A q \in Rebuilders : q # r => ~Rebuilding(q, tableOf[p], TenantOf[r])'
                      /\ FoldedEvents(p, TenantOf[r])' \subseteq 1..snap'[r]
    BY DEF PeaceInv
  <2>1. PICK c, t : c = tableOf[p] /\ t = TenantOf[r]
    OBVIOUS
  <2>2. /\ p \in (queue[r] \cup cur[r]) \cap heals[r] /\ p \in Projections /\ t \in Tenants
        /\ t = u => c \notin T
    BY <1>2, <1>13, <1>17, <1>18, <2>1
  <2>3. /\ ~Shared(p)
        /\ \A g \in Handlers : ~Folding(g, c, t)
        /\ \A q \in Rebuilders : q # r => ~Rebuilding(q, c, t)
        /\ FoldedEvents(p, t) \subseteq 1..snap[r]
    BY <2>1, <2>2 DEF FInv, PeaceInv
  <2>4. /\ \A g \in Handlers : ~Folding(g, c, t)'
        /\ \A q \in Rebuilders : q # r => ~Rebuilding(q, c, t)'
    BY <1>14, <2>2, <2>3
  <2>5. ASSUME NEW s \in FoldedEvents(p, t)'
        PROVE  s \in 1..snap[r]
    <3>1. s \in 1..Len(log') /\ log'[s].tenant = t /\ HasRule(p, log'[s])
      BY DEF FoldedEvents, HasRule, RuleFor
    <3>2. CASE s \in 1..Len(log)
      BY <1>15, <2>2, <2>3, <2>5, <3>2
    <3>3. CASE s \in Len(log) + 1..Len(log')
      <4>1. <<s, p>> \in J
        BY <1>8, <2>2, <3>1, <3>3
      <4>2. t = u
        BY <1>6, <3>1, <3>3
      <4> QED
        BY <1>8, <2>1, <2>2, <4>1, <4>2
    <3> QED
      BY <1>7, <3>1, <3>2, <3>3
  <2>6. c = tableOf'[p]
    BY <1>2, <2>1
  <2>7. /\ \A g \in Handlers : ~Folding(g, tableOf[p], t)'
        /\ \A q \in Rebuilders : q # r => ~Rebuilding(q, tableOf[p], t)'
    BY <2>4, <2>6 DEF Folding, Rebuilding
  <2> QED
    BY <1>2, <1>15, <2>1, <2>3, <2>5, <2>7
<1>20. DoubtInv'
  <2>1. ASSUME NEW r \in Rebuilders, NEW p \in queue[r] \cup cur[r], doubt'[tableOf[p]][TenantOf[r]] = {}
        PROVE  doubt[tableOf[p]][TenantOf[r]] = {} /\ (p \in heals[r] => p \in heals'[r])
    <3>1. p \in Projections /\ tableOf[p] \in Tables /\ TenantOf[r] \in Tenants
      BY <1>13
    <3> QED
      BY <1>11, <1>12, <2>1, <3>1
  <2>2. \A r \in Rebuilders : \A p \in queue[r] :
          doubt'[tableOf[p]][TenantOf[r]] = {} => Shared(p) \/ p \in heals'[r]
    BY <2>1 DEF FInv, DoubtInv
  <2>3. \A r \in Rebuilders : \A p \in cur[r] :
          doubt'[tableOf[p]][TenantOf[r]] = {} => p \in heals'[r]
    BY <2>1 DEF FInv, DoubtInv
  <2>4. ASSUME NEW c \in Tables, NEW t \in Tenants, "crossed" \notin doubt'[c][t],
               NEW r \in Rebuilders, Rebuilding(r, c, t)'
        PROVE  /\ \A g \in Handlers : ~Folding(g, c, t)'
               /\ \A q \in Rebuilders : q # r => ~Rebuilding(q, c, t)'
    <3>1. "crossed" \notin doubt[c][t] /\ Rebuilding(r, c, t)
      BY <1>11, <1>14, <2>4
    <3>2. /\ \A g \in Handlers : ~Folding(g, c, t)
          /\ \A q \in Rebuilders : q # r => ~Rebuilding(q, c, t)
      BY <3>1 DEF FInv, DoubtInv
    <3>3. ~Folding(h, c, t)'
      BY <1>10, <1>11, <1>14, <2>4, <3>1
    <3> QED
      BY <1>14, <3>2, <3>3
  <2>5. ASSUME NEW c \in Tables, NEW t \in Tenants, doubt'[c][t] = {}, ~Counter(c),
               NEW f \in Handlers, NEW g \in Handlers, Folding(f, c, t)', Folding(g, c, t)'
        PROVE  f = g
    <3>1. doubt[c][t] = {}
      BY <1>11, <2>5
    <3>2. CASE f # h /\ g # h
      BY <1>14, <2>5, <3>1, <3>2 DEF FInv, DoubtInv
    <3>3. ASSUME NEW k \in Handlers, k # h, Folding(k, c, t)', Folding(h, c, t)'
          PROVE  FALSE
      BY <1>10, <1>11, <1>14, <2>5, <3>3
    <3> QED
      BY <2>5, <3>2, <3>3
  <2>6. tableOf' = tableOf /\ queue' = queue /\ cur' = cur
    BY <1>2
  <2> QED
    BY <1>15, <2>2, <2>3, <2>4, <2>5, <2>6 DEF DoubtInv
<1>21. \A m : m \in Missing' <=> m \in Missing \/ m \in J
  <2> SUFFICES ASSUME NEW m PROVE m \in Missing' <=> m \in Missing \/ m \in J
    OBVIOUS
  <2>1. (\E g \in Handlers : m \in todo'[g]) <=> m \in J \/ \E g \in Handlers : m \in todo[g]
    BY <1>2, <1>9
  <2>2. m \in (1..Len(log)) \X Projections \/ m \in J => m \in (1..Len(log')) \X Projections
    BY <1>7, <1>8
  <2>3. (\E g \in Handlers : m \in todo[g]) => m \in (1..Len(log)) \X Projections
    BY <1>13
  <2>4. m \in (1..Len(log')) \X Projections /\ (\E r \in Rebuilders : m[2] \in cur[r] /\ m[1] \in replay[r])
          => m \in (1..Len(log)) \X Projections
    BY <1>13
  <2> QED
    BY <1>2, <2>1, <2>2, <2>3, <2>4 DEF Missing
<1>22. ASSUME NEW c \in Tables, NEW t \in Tenants, NEW m \in AllAbout(c, t)', m \notin (1..Len(log)) \X Projections
       PROVE  m \in J /\ m[1] \in Len(log) + 1..Len(log')
  <2>1. /\ m \in (1..Len(log')) \X Projections /\ m[1] \in FoldedEvents(m[2], t)'
    BY DEF AllAbout
  <2>2. HasRule(m[2], log'[m[1]])
    BY <2>1 DEF FoldedEvents, HasRule, RuleFor
  <2>3. m[1] \in Len(log) + 1..Len(log')
    BY <1>7, <1>22, <2>1
  <2> QED
    BY <1>8, <2>1, <2>2, <2>3
<1>23. \A c \in Tables, t \in Tenants : \A m : m \in AllAbout(c, t)' /\ m \notin Missing' <=> m \in AllAbout(c, t) /\ m \notin Missing
  <2> SUFFICES ASSUME NEW c \in Tables, NEW t \in Tenants, NEW m
               PROVE  m \in AllAbout(c, t)' /\ m \notin Missing' <=> m \in AllAbout(c, t) /\ m \notin Missing
    OBVIOUS
  <2>1. CASE m \in (1..Len(log)) \X Projections
    <3>1. m \notin J
      BY <1>7, <1>8, <2>1
    <3> QED
      BY <1>15, <1>21, <2>1, <3>1
  <2>2. CASE m \notin (1..Len(log)) \X Projections
    <3>1. m \notin AllAbout(c, t)
      BY <2>2 DEF AllAbout
    <3> QED
      BY <1>21, <1>22, <2>2, <3>1
  <2> QED
    BY <2>1, <2>2
<1>24. \A c \in Tables, t \in Tenants, id \in Ids : Done(c, t, id)' = Done(c, t, id)
  <2> SUFFICES ASSUME NEW c \in Tables, NEW t \in Tenants, NEW id \in Ids, NEW m
               PROVE  m \in Done(c, t, id)' <=> m \in Done(c, t, id)
    OBVIOUS
  <2>1. ASSUME m \in About(c, t, id)'
        PROVE  m \in AllAbout(c, t)'
    <3>1. PICK p \in In(c)' : \E s \in FoldedEvents(p, t)' : m = <<s, p>>
      BY <2>1 DEF About
    <3>2. PICK s \in FoldedEvents(p, t)' : m = <<s, p>>
      BY <3>1
    <3> QED
      BY <3>1, <3>2 DEF AllAbout, In, FoldedEvents
  <2>2. m \in About(c, t, id) => m \in AllAbout(c, t)
    BY AboutIn DEF IInv
  <2>3. m \in AllAbout(c, t) => m \in (1..Len(log)) \X Projections
    BY DEF AllAbout
  <2> QED
    BY <1>15, <1>23, <2>1, <2>2, <2>3 DEF Done
<1>25. ASSUME NEW c \in Tables, NEW t \in Tenants, Trusted(c, t)'
       PROVE  Trusted(c, t)
  <2>1. CASE doubt'[c][t] = {}
    <3>1. doubt[c][t] = {}
      BY <1>11, <2>1
    <3> QED
      BY <3>1 DEF Trusted
  <2>2. CASE \E r \in Rebuilders : TenantOf[r] = t /\ \E p \in cur'[r] \cap heals'[r] : tableOf'[p] = c
    BY <1>2, <1>17, <2>2 DEF Trusted
  <2> QED
    BY <1>25, <2>1, <2>2 DEF Trusted
<1>26. \A c \in Tables, t \in Tenants, id \in Ids : Done(c, t, id) \in SUBSET AllAbout(c, t)
  BY AboutIn DEF Done, IInv
<1>27. ShownInv'
  <2> SUFFICES ASSUME NEW c \in Tables, NEW t \in Tenants, NEW id \in Ids, Trusted(c, t)'
               PROVE  view'[c][t][id] = RowOf(Done(c, t, id))'
    BY DEF ShownInv
  <2>1. view[c][t][id] = RowOf(Done(c, t, id))
    BY <1>25 DEF FInv, ShownInv
  <2>2. \A F : F = Done(c, t, id) => RowOf(F)' = RowOf(F)
    BY <1>15, <1>26
  <2> QED
    BY <1>2, <1>24, <2>1, <2>2
<1>28. OrderInv'
  <2> SUFFICES ASSUME NEW c \in Tables, NEW t \in Tenants, Trusted(c, t)', ~Counter(c)',
                      NEW d \in AllAbout(c, t)' \ Missing', NEW m \in AllAbout(c, t)' \cap Missing'
               PROVE  d[1] <= m[1]
    BY DEF OrderInv
  <2>1. d \in AllAbout(c, t) \ Missing /\ d[1] \in 1..Len(log)
    BY <1>23 DEF AllAbout
  <2>2. CASE m \in (1..Len(log)) \X Projections
    <3>1. m \notin J
      BY <1>7, <1>8, <2>2
    <3>2. m \in AllAbout(c, t) \cap Missing
      BY <1>15, <1>21, <2>2, <3>1
    <3> QED
      BY <1>15, <1>25, <2>1, <3>2 DEF FInv, OrderInv
  <2>3. CASE m \notin (1..Len(log)) \X Projections
    BY <1>7, <1>22, <2>1, <2>3
  <2> QED
    BY <2>2, <2>3
<1>29. TotalInv'
  <2> SUFFICES ASSUME NEW c \in Tables, NEW t \in Tenants, NEW id \in Ids, "crossed" \notin doubt'[c][t]
               PROVE  AddsUp(view[c][t][id].total, Upserts(Done(c, t, id)))'
    BY DEF TotalInv
  <2>1. AddsUp(view[c][t][id].total, Upserts(Done(c, t, id)))
    BY <1>11 DEF FInv, TotalInv
  <2>2. PICK F : F = Done(c, t, id)
    OBVIOUS
  <2>3. PICK counted \in SUBSET Upserts(F) : view[c][t][id].total = Sum(counted)
    BY <2>1, <2>2 DEF AddsUp
  <2>4. Upserts(F)' = Upserts(F) /\ Sum(counted)' = Sum(counted)
    BY <1>15, <1>26, <2>2, <2>3
  <2>5. Upserts(Done(c, t, id))' = Upserts(F)
    BY <1>24, <2>2, <2>4 DEF Upserts
  <2>6. \E G \in SUBSET (Upserts(Done(c, t, id))') : view'[c][t][id].total = Sum(G)'
    BY <1>2, <2>3, <2>4, <2>5
  <2> QED
    BY <2>6 DEF AddsUp
<1> QED
  BY <1>16, <1>19, <1>20, <1>27, <1>28, <1>29 DEF FInv

-----------------------------------------------------------------------------
(***************************************************************************)
(* The theorems.                                                           *)
(***************************************************************************)
LEMMA InitFolds == Init => FInv
<1> SUFFICES ASSUME Init PROVE FInv
  OBVIOUS
<1>1. /\ log = <<>> /\ \A b \in Tables, t \in Tenants, id \in Ids : view[b][t][id] = NoRow
      /\ todo = [h \in Handlers |-> {}] /\ queue = [r \in Rebuilders |-> {}]
      /\ cur = [r \in Rebuilders |-> {}]
  BY DEF Init
<1>2. \A h \in Handlers : \A b, t : ~Folding(h, b, t)
  BY <1>1 DEF Folding
<1>3. \A r \in Rebuilders : \A b, t : ~Rebuilding(r, b, t)
  BY <1>1 DEF Rebuilding
<1>4. JobInv /\ PeaceInv /\ DoubtInv
  BY <1>1, <1>2, <1>3 DEF JobInv, PeaceInv, DoubtInv
<1>5. \A b, t : AllAbout(b, t) = {}
  BY <1>1 DEF AllAbout
<1>6. \A b, t, id : Done(b, t, id) = {} /\ Upserts(Done(b, t, id)) = {}
  BY <1>5, AboutIn, InitInv DEF IInv, Done, Upserts
<1>7. ShownInv
  BY <1>1, <1>6, RowOfNone DEF ShownInv
<1>8. OrderInv
  BY <1>5 DEF OrderInv
<1>9. TotalInv
  <2>1. AddsUp(NoRow.total, {})
    BY AddsUpToNothing DEF NoRow
  <2> QED
    BY <1>1, <1>6, <2>1 DEF TotalInv
<1> QED
  BY <1>4, <1>7, <1>8, <1>9 DEF FInv

(* Every step keeps the rows the folds of what is done. *)
LEMMA NextFolds == IInv /\ FInv /\ [Next]_vars => FInv'
<1> SUFFICES ASSUME IInv, FInv, [Next]_vars PROVE FInv'
  OBVIOUS
<1>1. CASE UNCHANGED vars
  <2>1. UNCHANGED <<log, tableOf, view, todo, queue, cur, snap, replay, heals, doubt>>
    BY <1>1 DEF vars, rebuildVars
  <2>2. JobInv' /\ PeaceInv' /\ DoubtInv'
    <3>1. \A r \in Rebuilders : queue[r] \cap cur[r] = {}
      BY DEF FInv, JobInv
    <3> QED
      BY <2>1, <3>1, LessWork DEF FInv
  <2>3. ShownInv' /\ OrderInv' /\ TotalInv'
    <3>1. PICK N : N = Missing
      OBVIOUS
    <3>2. Missing' = N
      BY <2>1, <3>1 DEF Missing
    <3>3. ASSUME NEW b \in Tables, NEW t \in Tenants, Trusted(b, t)'
          PROVE  /\ \A id \in Ids : view'[b][t][id] = RowOf(About(b, t, id) \ N)
                 /\ ~Counter(b) => \A d \in AllAbout(b, t) \ N, m \in AllAbout(b, t) \cap N : d[1] <= m[1]
      <4>1. Trusted(b, t) /\ view' = view
        BY <2>1, <3>3 DEF Trusted
      <4> QED
        BY <3>1, <4>1, SameFolded
    <3>4. ASSUME NEW b \in Tables, NEW t \in Tenants, NEW id \in Ids, "crossed" \notin doubt'[b][t]
          PROVE  AddsUp(view'[b][t][id].total, Upserts(About(b, t, id) \ N))
      <4>1. view' = view /\ "crossed" \notin doubt[b][t]
        BY <2>1, <3>4
      <4> QED
        BY <3>1, <4>1, TotalWithMore DEF FInv
    <3> QED
      BY <2>1, <3>2, <3>3, <3>4, RowsNext
  <2> QED
    BY <2>2, <2>3 DEF FInv
<1> QED
  BY <1>1, AppendKeepsFolds, FoldKeepsFolds, StopKeepsFolds, StartKeepsFolds, WipeKeepsFolds,
     ReplayKeepsFolds, FinishKeepsFolds, RebuildFailsKeepsFolds, CrashKeepsFolds DEF Next

(* In every reachable state the invariant of the folds holds too: trusted  *)
(* rows are the fold, in log order, of the events that are not waiting for *)
(* an append handler or a rebuild.                                         *)
THEOREM ProjectorFoldInvariant == Spec => [](IInv /\ FInv)
<1>1. Init => IInv /\ FInv
  BY InitInv, InitFolds
<1>2. IInv /\ FInv /\ [Next]_vars => (IInv /\ FInv)'
  BY NextInv, NextFolds
<1> QED
  BY <1>1, <1>2, PTL DEF Spec

(* With nothing missing, trusted rows are current. *)
LEMMA NothingMissing ==
  ASSUME IInv, FInv, NEW b \in Tables, NEW t \in Tenants, Trusted(b, t),
         \A m \in AllAbout(b, t) : m \notin Missing
  PROVE  Current(b, t)
<1>1. \A id : Done(b, t, id) = About(b, t, id)
  BY AboutIn DEF IInv, Done
<1>2. \A id : Expected(b, t, id) = RowOf(About(b, t, id))
  BY DEF Expected, RowOf
<1> QED
  BY <1>1, <1>2 DEF FInv, ShownInv, Current

(* Once nobody is at work on a tenant's rows of a table, and unless an      *)
(* error, a crash, an overlap or a shared table put them in doubt, they are *)
(* what folding the whole log from scratch would show (Process, Rebuild).   *)
THEOREM ProjectorCurrentUnlessInDoubt == Spec => []CurrentUnlessInDoubt
<1>1. IInv /\ FInv => CurrentUnlessInDoubt
  <2> SUFFICES ASSUME IInv, FInv, NEW b \in Tables, NEW t \in Tenants, Settled(b, t), doubt[b][t] = {}
               PROVE  Current(b, t)
    BY DEF CurrentUnlessInDoubt
  <2>1. Trusted(b, t)
    BY DEF Trusted
  <2>2. \A m \in AllAbout(b, t) : m \notin Missing
    BY MissingFacts DEF Settled
  <2> QED
    BY <2>1, <2>2, NothingMissing
<1> QED
  BY <1>1, ProjectorFoldInvariant, PTL

(* A rebuild that met nobody, of a table no other definition fills, has  *)
(* repaired it when the last event is replayed, whatever state it found. *)
THEOREM ProjectorRebuildRepairs == Spec => []RebuildRepairs
<1>1. IInv /\ FInv => RebuildRepairs
  <2> SUFFICES ASSUME IInv, FInv, NEW r \in Rebuilders, NEW p \in cur[r] \cap heals[r], replay[r] = {}
               PROVE  Current(tableOf[p], TenantOf[r])
    BY DEF RebuildRepairs
  <2>1. PICK b, t : b = tableOf[p] /\ t = TenantOf[r]
    OBVIOUS
  <2>2. b \in Tables /\ t \in Tenants
    BY <2>1, ProjectorAssumption DEF IInv, DataInv, RebuildInv
  <2>3. Trusted(b, t)
    BY <2>1 DEF Trusted
  <2>4. /\ \A h \in Handlers : ~Folding(h, b, t)
        /\ \A q \in Rebuilders : q # r => ~Rebuilding(q, b, t)
    BY <2>1 DEF FInv, PeaceInv
  <2>5. \A m \in AllAbout(b, t) : m \notin Missing
    BY <2>2, <2>4, MissingFacts
  <2> QED
    BY <2>1, <2>2, <2>3, <2>5, NothingMissing
<1> QED
  BY <1>1, ProjectorFoldInvariant, PTL

(* Whatever fails, a row is there only if an event upserted it, and its total *)
(* is the sum of some of the events that upsert it, none of them twice,       *)
(* unless a rebuild overlapped other work on it.                              *)
THEOREM ProjectorNeverInventsUnlessCrossed == Spec => []NeverInventsUnlessCrossed
<1>1. IInv /\ FInv => NeverInventsUnlessCrossed
  <2> SUFFICES ASSUME IInv, FInv, NEW b \in Tables, NEW t \in Tenants, NEW id \in Ids, "crossed" \notin doubt[b][t]
               PROVE  LET added == {fold \in About(b, t, id) : Op(fold).op = "upsert"}
                      IN /\ view[b][t][id].live => added # {}
                         /\ AddsUp(view[b][t][id].total, added)
    BY DEF NeverInventsUnlessCrossed, Invented
  <2> DEFINE added == Upserts(About(b, t, id))
  <2>1. view[b][t][id].live => added # {}
    <3> SUFFICES ASSUME view[b][t][id].live PROVE added # {}
      OBVIOUS
    <3>1. PICK p \in Projections : \E s \in 1..Len(log) : Source(b, t, id, p, s)
      BY DEF IInv, RowsHaveSources, SourcedRow
    <3>2. PICK s \in 1..Len(log) : Source(b, t, id, p, s)
      BY <3>1
    <3>3. <<s, p>> \in About(b, t, id) /\ Op(<<s, p>>).op = "upsert"
      BY <3>2 DEF Source, About, Op
    <3> QED
      BY <3>3 DEF Upserts
  <2>2. AddsUp(view[b][t][id].total, added)
    <3>1. AddsUp(view[b][t][id].total, Upserts(About(b, t, id) \ {}))
      BY TotalWithMore DEF FInv
    <3>2. About(b, t, id) \ {} = About(b, t, id)
      OBVIOUS
    <3> QED
      BY <3>1, <3>2
  <2> QED
    BY <2>1, <2>2 DEF Upserts
<1> QED
  BY <1>1, ProjectorFoldInvariant, PTL

=============================================================================
