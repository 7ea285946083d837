----------------------------- MODULE Projector ------------------------------
(***************************************************************************)
(* The read models of foldbase (readmodel/projector.go and its callers in  *)
(* httpapi/router.go): append handlers fold the events they committed, and *)
(* rebuild handlers wipe a projection's rows of one tenant and replay a    *)
(* snapshot of the log.  Every row change is one SQL statement outside any *)
(* transaction, so folds and replays interleave between statements.        *)
(*                                                                         *)
(* The log is a sequence, globalSeq being the position (Store), and the    *)
(* registered definitions do not change (Registry is another component).   *)
(* Nothing keeps two definitions from naming one table (types.go, TableOf):*)
(* Layouts are the ways in which tables may be given to projections.       *)
(***************************************************************************)
EXTENDS Integers, Sequences, FiniteSets, FiniteSetsExt

CONSTANTS
  Handlers,      \* append handlers
  Rebuilders,    \* handlers of POST /admin/rebuild and PUT /v1/projections
  TenantOf,      \* TenantOf[r]: the tenant of the token r serves
  Projections, Tables, Tenants, Types,
  Layouts,       \* functions from projections to tables
  Ids, Absent,   \* row identities, and a payload field that is not there
  RuleOf,        \* RuleOf[p][y]: what projection p does with events of type y
  Batches,       \* the batches appended, sequences of events
  MaxEvents, MaxFailures   \* bounds

Rule  == [op: {"none", "upsert", "delete"}, keyed: BOOLEAN, set: BOOLEAN, inc: BOOLEAN]
Event == [tenant: Tenants, type: Types, stream: Ids, key: Ids \cup {Absent},
          amount: Int \cup {Absent}]   \* what inc adds: any number, or no number

(* ValidateProjection: a definition keys every rule or none. *)
Valid(rules) == \A x, y \in Types :
  rules[x].op # "none" /\ rules[y].op # "none" => rules[x].keyed = rules[y].keyed

ASSUME ProjectorAssumption ==
  /\ IsFiniteSet(Projections)
  /\ RuleOf \in [Projections -> [Types -> Rule]] /\ \A p \in Projections : Valid(RuleOf[p])
  /\ Absent \notin Ids \cup Int
  /\ TenantOf \in [Rebuilders -> Tenants]
  /\ Layouts \subseteq [Projections -> Tables]
  /\ \A p, q \in Projections, y \in Types :   \* else a shared row has no meaning
       RuleOf[p][y].op = "delete" /\ RuleOf[q][y].op = "upsert" => \A l \in Layouts : l[p] # l[q]
  /\ \A b \in Batches : b \in Seq(Event) /\ b # <<>> /\ \A j \in DOMAIN b : b[j].tenant = b[1].tenant
  /\ {MaxEvents, MaxFailures} \subseteq Nat

VARIABLES
  log,       \* the committed events, in globalSeq order
  tableOf,   \* tableOf[p]: the table of projection p
  view,      \* view[b][t]: the rows tenant t has in table b
  todo,      \* todo[h]: the <<event, projection>> pairs h has yet to fold
  queue,     \* queue[r]: the projections r has yet to wipe
  cur,       \* cur[r]: the projection r is replaying, as a set of one or none
  snap,      \* snap[r]: length of the log when r read it
  replay,    \* replay[r]: events of the snapshot r has yet to fold into cur[r]
  heals,     \* history: the projections r rebuilds with nobody else at work
  doubt,     \* history: doubt[b][t]: why the rows may differ from the log
  failures

rebuildVars == <<queue, cur, snap, replay>>
vars == <<log, tableOf, view, todo, rebuildVars, heals, doubt, failures>>

-----------------------------------------------------------------------------
(***************************************************************************)
(* Folding one event: applyTo.                                             *)
(***************************************************************************)
NoRow == [live |-> FALSE, last |-> 0, total |-> 0]
Row   == [live: BOOLEAN, last: Nat, total: Int]   \* last: the event a set wrote

RuleFor(p, e) == RuleOf[p][e.type]
HasRule(p, e) == RuleFor(p, e).op # "none"

(* resolveKey: without a key rule the row is the stream's. *)
RowId(p, e) == IF RuleFor(p, e).keyed THEN e.key ELSE e.stream

(* Otherwise applyTo returns a FoldError and has touched nothing. *)
Foldable(p, e) ==
  /\ RuleFor(p, e).keyed => e.key # Absent
  /\ RuleFor(p, e).op = "upsert" /\ RuleFor(p, e).inc => e.amount # Absent

(* INSERT ... ON CONFLICT DO UPDATE: only the columns of the rule change,    *)
(* a counter adds to the row there is.                                       *)
Upsert(rule, row, s, amount) ==
  [live  |-> TRUE,
   last  |-> IF rule.set THEN s ELSE row.last,
   total |-> IF rule.inc THEN row.total + amount ELSE row.total]

ApplyTo(p, rows, s) ==
  LET e == log[s]
  IN [rows EXCEPT ![RowId(p, e)] =
        IF RuleFor(p, e).op = "delete" THEN NoRow
        ELSE Upsert(RuleFor(p, e), @, s, e.amount)]

Applied(p, s) == [view EXCEPT ![tableOf[p]][log[s].tenant] = ApplyTo(p, @, s)]

(***************************************************************************)
(* What the rows should be, said without folding: a row shows what happened *)
(* to it since its last delete, of the events the definitions that share    *)
(* the table can fold.                                                      *)
(***************************************************************************)
In(b) == {p \in Projections : tableOf[p] = b}

FoldedEvents(p, t) ==
  {s \in 1..Len(log) : log[s].tenant = t /\ HasRule(p, log[s]) /\ Foldable(p, log[s])}
About(b, t, id) ==
  UNION {{<<s, p>> : s \in {d \in FoldedEvents(p, t) : RowId(p, log[d]) = id}} : p \in In(b)}

Op(fold)     == RuleFor(fold[2], log[fold[1]])
Latest(F)    == Max({fold[1] : fold \in F} \cup {0})
Sum(F)       == MapThenSumSet(LAMBDA fold : log[fold[1]].amount, {fold \in F : Op(fold).inc})

Expected(b, t, id) ==
  LET all     == About(b, t, id)
      deleted == Latest({fold \in all : Op(fold).op = "delete"})
      since   == {fold \in all : fold[1] > deleted}
  IN [live  |-> since # {},
      last  |-> Latest({fold \in since : Op(fold).set}),
      total |-> Sum(since)]

-----------------------------------------------------------------------------
(***************************************************************************)
(* Who is at work on which rows, and what that does to them.               *)
(***************************************************************************)
Folding(h, b, t) == \E job \in todo[h] : tableOf[job[2]] = b /\ log[job[1]].tenant = t
Rebuilding(r, b, t) == TenantOf[r] = t /\ \E p \in queue[r] \cup cur[r] : tableOf[p] = b
Settled(b, t) == /\ \A h \in Handlers : ~Folding(h, b, t)
                 /\ \A r \in Rebuilders : ~Rebuilding(r, b, t)

Shared(p) == In(tableOf[p]) # {p}

(* Tables whose projections only add: their folds may come in any order. *)
Counter(b) == \A p \in In(b), y \in Types :
  \/ RuleOf[p][y].op = "none"
  \/ RuleOf[p][y].op = "upsert" /\ ~RuleOf[p][y].set

TablesOf(P) == {tableOf[p] : p \in P}

(* The rows of the tables in B, for tenant t, are in doubt. *)
Doubt(B, t, why) ==
  doubt' = [b \in Tables |-> [doubt[b] EXCEPT ![t] = IF b \in B THEN @ \cup why ELSE @]]

(* The work left when a fold stops; unfoldable events would not be missed.   *)
Dropped(jobs) == {tableOf[job[2]] : job \in {j \in jobs : Foldable(j[2], log[j[1]])}}

Init ==
  /\ log = <<>>
  /\ tableOf \in Layouts
  /\ view = [b \in Tables |-> [t \in Tenants |-> [id \in Ids |-> NoRow]]]
  /\ todo = [h \in Handlers |-> {}]
  /\ queue = [r \in Rebuilders |-> {}]
  /\ cur = [r \in Rebuilders |-> {}]
  /\ snap = [r \in Rebuilders |-> 0]
  /\ replay = [r \in Rebuilders |-> {}]
  /\ heals = [r \in Rebuilders |-> {}]
  /\ doubt = [b \in Tables |-> [t \in Tenants |-> {}]]
  /\ failures = 0

-----------------------------------------------------------------------------
(***************************************************************************)
(* The append handlers: log first, then one statement per event and rule.  *)
(***************************************************************************)
AppendBatch(h) ==
  /\ todo[h] = {}
  /\ \E b \in Batches :
       LET t    == b[1].tenant
           jobs == {job \in (Len(log) + 1..Len(log) + Len(b)) \X Projections :
                      HasRule(job[2], b[job[1] - Len(log)])}
           B    == {tableOf[job[2]] : job \in jobs}
           Shuffled == {c \in B : ~Counter(c) /\ \E g \in Handlers : Folding(g, c, t)}
           Crossed  == {c \in B : \E r \in Rebuilders : Rebuilding(r, c, t)}
       IN /\ Len(log) + Len(b) <= MaxEvents
          /\ log' = log \o b
          /\ todo' = [todo EXCEPT ![h] = jobs]
          /\ doubt' = [c \in Tables |-> [doubt[c] EXCEPT ![t] =
               @ \cup (IF c \in Shuffled THEN {"shuffled"} ELSE {})
                 \cup (IF c \in Crossed THEN {"crossed"} ELSE {})]]
          /\ heals' = [r \in Rebuilders |->
               IF TenantOf[r] = t THEN {p \in heals[r] : tableOf[p] \notin Crossed} ELSE heals[r]]
  /\ UNCHANGED <<tableOf, view, rebuildVars, failures>>

(* The handler folds in order; the definitions of an event come as the       *)
(* SELECT that loaded them returned them.                                    *)
NextJobAnyOrder(h, job) == job \in todo[h]
NextJob(h, job) == job \in todo[h] /\ \A other \in todo[h] : job[1] <= other[1]

Fold(h) ==
  /\ \E job \in todo[h] :
       /\ NextJob(h, job) /\ Foldable(job[2], log[job[1]])
       /\ view' = Applied(job[2], job[1])
       /\ todo' = [todo EXCEPT ![h] = @ \ {job}]
  /\ UNCHANGED <<log, tableOf, rebuildVars, heals, doubt, failures>>

(* ApplyEvent stops at the first error, the handler at the first event that  *)
(* fails; it answers projected:false.                                        *)
StopFolding(h, job) ==
  /\ todo' = [todo EXCEPT ![h] = {}]
  /\ Doubt(Dropped(todo[h] \ {job}) \cup Dropped({job}), log[job[1]].tenant, {"stale"})
  /\ UNCHANGED <<log, tableOf, rebuildVars, heals>>

FoldErrors(h) ==
  /\ \E job \in todo[h] :
       NextJob(h, job) /\ ~Foldable(job[2], log[job[1]]) /\ StopFolding(h, job)
  /\ UNCHANGED <<view, failures>>

(* The statement fails; over a network it may have been executed.  *)
FoldFails(h) ==
  /\ failures < MaxFailures
  /\ failures' = failures + 1
  /\ \E job \in todo[h] :
       /\ NextJob(h, job) /\ Foldable(job[2], log[job[1]])
       /\ StopFolding(h, job)
       /\ view' \in {view, Applied(job[2], job[1])}

-----------------------------------------------------------------------------
(***************************************************************************)
(* The rebuild handlers.                                                   *)
(***************************************************************************)
(* ReadAll: one projection by name, or every registered one. *)
StartRebuild(r) ==
  /\ queue[r] = {} /\ cur[r] = {}
  /\ \E P \in {{p} : p \in Projections} \cup {Projections} :
       LET t == TenantOf[r]
           Crossed == {b \in TablesOf(P) : ~Settled(b, t)}
       IN /\ queue' = [queue EXCEPT ![r] = P]
          /\ snap' = [snap EXCEPT ![r] = Len(log)]
          /\ heals' = [q \in Rebuilders |->
               IF q = r THEN {p \in P : ~Shared(p) /\ tableOf[p] \notin Crossed}
               ELSE IF TenantOf[q] = t THEN {p \in heals[q] : tableOf[p] \notin Crossed} ELSE heals[q]]
          /\ Doubt(Crossed, t, {"crossed"})
  /\ UNCHANGED <<log, tableOf, view, todo, cur, replay, failures>>

ReplayUntilError(r, p) ==
  {s \in FoldedEvents(p, TenantOf[r]) : s <= snap[r] /\ \A d \in 1..s : Foldable(p, log[d])}
ReplayOf(r, p) == {s \in FoldedEvents(p, TenantOf[r]) : s <= snap[r]}

(* The loop over the snapshot has come to its end. *)
ReplayCut(r)  == TRUE
ReplayDone(r) == replay[r] = {}

(* DELETE the tenant's rows, those of other definitions with the same table  *)
(* too; events that cannot be folded will be skipped.                        *)
NotWiped(p, t) == view
Wiped(p, t)    == [view EXCEPT ![tableOf[p]][t] = [id \in Ids |-> NoRow]]

Wipe(r) ==
  /\ cur[r] = {}
  /\ \E p \in queue[r] :
       /\ view' = Wiped(p, TenantOf[r])
       /\ cur' = [cur EXCEPT ![r] = {p}]
       /\ queue' = [queue EXCEPT ![r] = @ \ {p}]
       /\ replay' = [replay EXCEPT ![r] = ReplayOf(r, p)]
       /\ Doubt({tableOf[p]}, TenantOf[r], IF Shared(p) THEN {"shared"} ELSE {})
  /\ UNCHANGED <<log, tableOf, todo, snap, heals, failures>>

First(S) == CHOOSE s \in S : \A d \in S : s <= d

Replay(r) ==
  /\ replay[r] # {}
  /\ \E p \in cur[r] : view' = Applied(p, First(replay[r]))
  /\ replay' = [replay EXCEPT ![r] = @ \ {First(replay[r])}]
  /\ UNCHANGED <<log, tableOf, todo, queue, cur, snap, heals, doubt, failures>>

(* The handler of the rebuild returns. *)
EndRebuild(r) ==
  /\ queue' = [queue EXCEPT ![r] = {}]
  /\ snap' = [snap EXCEPT ![r] = 0]

(* RebuildProjection returns: nobody doubts rows rebuilt in peace. *)
FinishProjection(r) ==
  /\ cur[r] # {} /\ ReplayDone(r)
  /\ cur' = [cur EXCEPT ![r] = {}]
  /\ doubt' = [b \in Tables |-> [doubt[b] EXCEPT ![TenantOf[r]] =
                 IF b \in TablesOf(cur[r] \cap heals[r]) THEN {} ELSE @]]
  /\ heals' = [heals EXCEPT ![r] = @ \ cur[r]]
  /\ IF queue[r] = {} THEN EndRebuild(r) ELSE UNCHANGED <<queue, snap>>
  /\ UNCHANGED <<log, tableOf, view, todo, replay, failures>>

(* A statement of the rebuild fails: 500, and the rest is not rebuilt. *)
RebuildFails(r) ==
  /\ failures < MaxFailures
  /\ failures' = failures + 1
  /\ \/ cur[r] = {} /\ \E p \in queue[r] :
          \/ view' = view /\ doubt' = doubt
          \/ view' = Wiped(p, TenantOf[r]) /\ Doubt({tableOf[p]}, TenantOf[r], {"stale"})
     \/ /\ replay[r] # {}
        /\ \E p \in cur[r] : view' \in {view, Applied(p, First(replay[r]))}
        /\ Doubt(TablesOf(cur[r]), TenantOf[r], {"stale"})
  /\ EndRebuild(r)
  /\ cur' = [cur EXCEPT ![r] = {}]
  /\ replay' = [replay EXCEPT ![r] = {}]
  /\ heals' = [heals EXCEPT ![r] = {}]
  /\ UNCHANGED <<log, tableOf, todo>>

(* The server dies between statements: folds and rebuilds stop for good. *)
Crash ==
  /\ failures < MaxFailures
  /\ failures' = failures + 1
  /\ (\E h \in Handlers : todo[h] # {}) \/ (\E r \in Rebuilders : queue[r] \cup cur[r] # {})
  /\ doubt' = [b \in Tables |-> [t \in Tenants |->
       IF \/ \E h \in Handlers : b \in Dropped({j \in todo[h] : log[j[1]].tenant = t})
          \/ \E r \in Rebuilders : TenantOf[r] = t /\ b \in TablesOf(cur[r])
       THEN doubt[b][t] \cup {"stale"} ELSE doubt[b][t]]]
  /\ todo' = [h \in Handlers |-> {}]
  /\ queue' = [r \in Rebuilders |-> {}]
  /\ cur' = [r \in Rebuilders |-> {}]
  /\ snap' = [r \in Rebuilders |-> 0]
  /\ replay' = [r \in Rebuilders |-> {}]
  /\ heals' = [r \in Rebuilders |-> {}]
  /\ UNCHANGED <<log, tableOf, view>>

-----------------------------------------------------------------------------
Next ==
  \/ \E h \in Handlers : AppendBatch(h) \/ Fold(h) \/ FoldErrors(h) \/ FoldFails(h)
  \/ \E r \in Rebuilders :
       StartRebuild(r) \/ Wipe(r) \/ Replay(r) \/ FinishProjection(r) \/ RebuildFails(r)
  \/ Crash

Spec == Init /\ [][Next]_vars

-----------------------------------------------------------------------------
(***************************************************************************)
(* Properties.                                                             *)
(***************************************************************************)
TypeOK ==
  /\ log \in Seq(Event) /\ Len(log) <= MaxEvents
  /\ tableOf \in Layouts
  /\ view \in [Tables -> [Tenants -> [Ids -> Row]]]
  /\ todo \in [Handlers -> SUBSET ((1..Len(log)) \X Projections)]
  /\ queue \in [Rebuilders -> SUBSET Projections]
  /\ cur \in [Rebuilders -> SUBSET Projections]
  /\ snap \in [Rebuilders -> 0..Len(log)]
  /\ replay \in [Rebuilders -> SUBSET (1..Len(log))]
  /\ \A r \in Rebuilders : Cardinality(cur[r]) <= 1 /\ (cur[r] = {} => replay[r] = {})
  /\ heals \in [Rebuilders -> SUBSET Projections]
  /\ doubt \in [Tables -> [Tenants -> SUBSET {"stale", "shuffled", "crossed", "shared"}]]
  /\ failures \in 0..MaxFailures

Current(b, t) == \A id \in Ids : view[b][t][id] = Expected(b, t, id)

(* A view is the fold of the log, once nobody is at work on it, unless       *)
(* something known went wrong: folds that did not run (projected:false, a    *)
(* 500 from a rebuild, a crash), folds of two appends that overlapped on     *)
(* rows where order matters, a rebuild that overlapped with a fold or with   *)
(* another rebuild.  Counters stay right however appends overlap, and a      *)
(* rebuild in peace clears every doubt.  Definitions that share a table fold *)
(* into it together, until one of them is rebuilt: that wipes the rows of    *)
(* the others, and no rebuild brings them back.                              *)
CurrentUnlessInDoubt ==
  \A b \in Tables, t \in Tenants :
     Settled(b, t) /\ doubt[b][t] = {} => Current(b, t)

(* The repair: whatever happened to the rows before, a rebuild that nobody   *)
(* disturbs ends with the fold of the log, events it cannot fold or not, if  *)
(* the projection has its table to itself.                                   *)
RebuildRepairs ==
  \A r \in Rebuilders : \A p \in cur[r] \cap heals[r] :
     replay[r] = {} => Current(tableOf[p], TenantOf[r])

(* Some of the folds in F, each taken once, add up to the total. *)
AddsUp(total, F) == \E counted \in SUBSET F : total = Sum(counted)

(* A row without an event that upserts it, or a total that is not the sum of *)
(* some of these events, each taken once: one was counted twice, or one of   *)
(* another row or tenant was.                                                *)
Invented(b, t) ==
  \E id \in Ids :
     LET added == {fold \in About(b, t, id) : Op(fold).op = "upsert"}
     IN \/ view[b][t][id].live /\ added = {}
        \/ ~AddsUp(view[b][t][id].total, added)

(* Never invented (README): a view shows nothing the log does not have.      *)
NeverInvents == \A b \in Tables, t \in Tenants : ~Invented(b, t)

(* A view may be behind, whatever fails, whichever appends overlap and       *)
(* whoever else has the table, but it counts no event twice and shows no row *)
(* the log does not have unless a rebuild was disturbed.  Amounts may be     *)
(* negative (inc), so a view that is behind may show more than the log adds  *)
(* up to; it never shows what no part of the log adds up to.                 *)
NeverInventsUnlessCrossed ==
  \A b \in Tables, t \in Tenants : Invented(b, t) => "crossed" \in doubt[b][t]
=============================================================================
