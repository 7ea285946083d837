# foldbase in TLA+

foldbase is an event store in one Go process: commands append events to streams,
registered projections fold them into SQL tables, browsers follow the log over
SSE. This directory holds TLA+ modules translated from its source, the TLC
configurations that check them, and theorems about them that TLAPS proves for
every value of the constants. `PROJECT.json` maps each definition to the lines it
stands for.

    tlc -workers 2 -config MCStorePostgres.cfg MCStore
    tlapm StoreProofs.tla

## 1. Inventory

Paths are relative to `src/`.

| Component | State | Operations | Hard behaviour | What makes it correct |
|---|---|---|---|---|
| Event log: `store.go`, `append` in `router.go` | table `events` with three UNIQUE constraints, `global_seq` sequence | `Append` (version check, type check, INSERTs, COMMIT, reread after a violation), `ReadStream`, `ReadAll` | transactions interleave, deadlocks, lost COMMIT answers, crashes | gapless versions, one winner, a 200 is durable, order of `globalSeq` |
| Bus: `bus.go` | subscribers, a channel of 256 events and an overflow signal each | `Subscribe`, `Unsubscribe`, `Publish` | full buffers, a subscriber that does not read | publishing never waits, overflow ends the session |
| Log reads: `readStream`, `byCorrelation`, `readAll` in `router.go`, `store.go` | the client's cursor | `ReadStream`, `ReadByCorrelation`, `ReadAll` with cursor, filter and limit | commits between two pages, torn batches, limits at their edges | in order, no gap, a short page is the last |
| SSE sessions: `subscribe` in `router.go` | dedup cursor, catch-up events | connect, catch-up, live tail, overflow, disconnect | overlap of catch-up and live tail, handlers that publish out of order | ordered, at most once, gap-free, own tenant |
| TypeScript client: `clients/ts/src/client.ts` | `lastId` | receive, reconnect with `Last-Event-ID` | lost connections | resumes where it stopped |
| Projector: `projector.go` | read-model tables | `ApplyEvent`, `RebuildProjection`, `RebuildTenant` | folds of overlapping appends, rebuild beside folds, errors half-way, crashes | a view is the fold of the log |
| Registry: `registry.go` | `_projections`, `_policies`, table columns, a copy in memory | save projection, save policy, reload, restart | overlapping reloads, shared tables, truncated reads | memory agrees with the tables, no definition without its columns |
| Flect binding: `flectdb.go` | manifest, pool lifetime, mutex | boot, `Connect`, renewal | tokens that expire in the pool, a slow or dead broker | no connection with an expired token, bounded waits |
| Query compiler: `query.go` | none | compile a query under row policies | two lookups beside reloads, pasted SQL, limits at the boundaries | no column and no row beyond the policy, no policy older than the definition |
| Authentication: `auth.go`, `jwt.go` | configuration | mode, token, tenant | tenant of token against header | a tenant per request, fail closed |
| Dialects, boot, Python client | none of their own | text, configuration, HTTP wrappers | - | - |

How they meet: `append` runs the log's transaction, then folds each event by the
registry's definitions, then publishes each event on the bus, then answers.
Nothing orders these three phases between two requests, and nothing but the log's
transaction is atomic. Sessions subscribe to the bus before they read the log.
`PUT /v1/projections` saves, reloads the registry and rebuilds. The Flect
binding stands below the whole of it, as the source of database connections.

The list of hazards, each at its line, is in `PROJECT.json`.

## 2. Plan

Order of the work: the log first, everything reads it; then delivery and
projection, the two consumers of the log; then the registry and the binding;
then the callers: who they are, and what they read and query.

| Module | Composition | Proofs |
|---|---|---|
| `EventLog` | abstract specification of the log | - |
| `Store` | implements `EventLog` | `StoreProofs` |
| `Delivery` | abstract specification of reading the log | `DeliveryProofs` |
| `Bus`, `Realtime` | `Realtime` extends `Bus`, implements `Delivery` | `RealtimeProofs` |
| `Access` | operators | within `ReadsProofs` |
| `LogReads` | extends `Access`, its writers take steps of `EventLog`, implements `Delivery` | `ReadsProofs` |
| `Projector` | takes the log as a sequence | `ProjectorProofs` |
| `Registry` | - | `RegistryProofs` |
| `Query` | extends `Registry` | within `RegistryProofs` |
| `Select`, `Answers` | `Answers` composes `Query` with the operators of `Select` | `AnswersProofs` |
| `FlectDB` | - | `FlectProofs` |

What would come next: a `Store` whose readers are those of
`LogReads` instead of the two joined by `EventLog`.

## 3. Modules and the code

### EventLog and Store

`EventLog` has one variable, the set of committed events, and one step: a
non-empty batch goes to the end of one stream, continuing its versions and
clashing with nothing.

`Store` is `Store.Append` inside its HTTP handler. `pc[h]` names the statement
that handler `h` executes next; a step is one statement, because that is where
the database can let somebody else go first. `tx[h]` is what the open
transaction has inserted, `events` what is committed. `req`, `cur`, `stype`,
`i`, `gs` are the locals of `Append`, `result` the answer.

| Code | Action |
|---|---|
| `db.Begin` | `Begin`; on SQLite it waits for the only connection (`ConnFree`) |
| `SELECT MAX(version), MAX(stream_type)` and the comparisons | `CheckConflict`, `CheckType`, `CheckPass` |
| `INSERT`, in two parts: the sequence gives a number, the indexes accept the row | `Reserve`, then `WriteRow` or `WriteDuplicate` |
| the UNIQUE violation's reread | `Reread`, `RereadFails` (the error is dropped and 0 answered) |
| `COMMIT` and the 200 | `Commit`, `Reply` |
| a failing statement, a failing COMMIT, a panic, a restart | `StatementFails`, `CommitFails`, `Crash` |

Postgres differs in four ways, all from the constant `Postgres`: transactions
interleave, an INSERT waits for an uncommitted row it clashes with, the database
breaks cycles of such waits, and the sequence never goes back. The version check under
read committed sees committed rows only, which is `events`.

### Bus and Realtime

`Bus` gives `Subscribe`, `Unsubscribe`, `Publish` and a receive as operators
over `reg`, `chan` and `over`; each holds the bus mutex, so each is atomic.
`Publish` is the `select` with `default`: room in the channel, or the signal. The
subscriber stays registered after the signal, as in the code.

`Realtime` has append handlers (`pend`: committed, not yet published), one
session goroutine per client and the client. `spc` is where the session is:
`joined` (subscribed, log not read), `catchup`, `live`. `lastSeq` is the session's
dedup cursor, `lastId` the client's. With an overflow signal pending, Go's
`select` tosses a coin between the channel and the signal; `luck` counts the
tosses the channel has won. `wire` is what was sent and not received; a `Drop`
loses it. In `CommitUnanswered` the answer to a COMMIT is lost: the handler answers 500
over events it never publishes. `got`, `raced` and `outrun` are history variables: `raced` says that two
appends overlapped between commit and publish, or that one never published, `outrun` that a session won more
tosses than it had events buffered when it overflowed.

The log is a sequence here, so commits appear in `globalSeq` order. That is
`CommitsInSeqOrder`, proved for SQLite in `StoreProofs` and false on Postgres.

### Delivery, LogReads and Access

`Delivery` has one variable for what is meant for each reader and one for what it
has. Commits add above what it has, a delivery hands over the oldest it has not.
`NoGap` is what that comes to. `Realtime` and `LogReads` both implement it:
`DeliversUnlessRaced` and `PagesDeliver`.

`Access` is `auth.Resolve` with its mode inference, its boot check and
`jwt.Verify`, as operators from a configuration and a request to a tenant, an
identity and two capabilities. A signature is a flag of the token. A
`FOLDBASE_AUTH` that names no mode counts as undeclared, except in the boot
check, which only asks if it is empty.

`LogReads` is a client that reads page after page. `After` is the WHERE clause of
the three queries, `IsPage` the ORDER BY and LIMIT, `ReadLimit` the clamping of
the parameter, `From` the dropped error of `ParseInt`. A read by correlation has
no cursor, so only its first page exists. `passed` is history: the events
that were committed below a reader's cursor, possible on Postgres only. Writers
take the steps of `EventLog`. The read handlers have no gate beyond
authentication, and neither has the model.

### Projector

A handler that has committed a batch holds `todo[h]`, the pairs of event and
projection it has to fold, and executes them in event order; the definitions of
one event come in the order of an unordered SELECT. `Upsert` and `ApplyTo` are
`applyTo` on a row of two columns, one set and one counted, chosen by a rule per
event type (`op`, `keyed`, `set`, `inc`). An amount is any integer, negative ones
included; an event without its key or its amount is a `FoldError`. A rebuild reads the log (`StartRebuild`), wipes a projection's
rows of its tenant (`Wipe`), folds the snapshot event by event (`Replay`),
skipping what it cannot fold, and goes on to the next projection. No transaction
surrounds any of it. A failing statement may have been executed or not. An append whose COMMIT
answer was lost leaves what `FoldFails` leaves: events nobody folds.

`Expected` is the reference: what the events since the row's last delete say,
without any order of execution. `Invented` asks less: that a total is the sum
of some of the events about the row, each taken once (`AddsUp`), which a view that is
merely behind always is, also when its amounts have both signs. `doubt` records why a view may differ from it:

- `stale`: a fold was abandoned (`projected:false`), a rebuild failed, a crash;
- `shuffled`: two appends overlapped on a projection where order matters;
- `crossed`: a rebuild overlapped with a fold or with another rebuild.

`heals[r]` holds the projections that rebuild `r` has had to itself; finishing one
of them clears its doubt.

`tableOf` gives each projection its table. Two may share one, which
`ValidateProjection` allows: both fold into it, and a rebuild of one wipes the
rows of the other (`doubt` is then `shared`, and no rebuild heals it). A table that
two definitions share also escapes the rule that a definition keys every rule
or none, as each is checked by itself.

### Registry

Each SQL statement of `ensureTable`, the upserts and the two reads of `Reload`
is a step; the installation of both maps under the lock is one. `snap` and
`polSnap` are what a reload has read. The catalogue (`exists`, `cols`) is
modelled because `ALTER TABLE` runs from an earlier look at it. `ReadCutShort` is
the loop over `rows.Next` whose `rows.Err` nobody asks. A policy is a number, its
edition. An upsert that is executed while its answer is lost is the step
`UpsertProjection` followed by `StatementFails`. Putting a projection ends in
`Rebuild`, where the definition is looked up again.

`doubt` and `alone` are history: `doubt` is set when saves and reloads overlap or
fail after a write, and cleared by a reload nobody overlapped or by a restart.

### Query, Select and Answers

A query in `Query` takes the registry's lock twice: `Lookup` for the definition,
`FindPolicy` for the role's policy or else the one for `*`, then `Execute`. Between these
steps the control plane is the whole of `Registry`. `since[d]` is history: the
policies that were stored when definition `d` first was. `cut` and `relapsed` name
the two ways in which memory can go back: a reload of the policies that was
cut short, and overlapping reloads.

`Select` is the rest of `ExecQuery`. SQL text is a disjunction of conjunctions of
factors, which is what precedence makes of it, so that pasting `AND` between two
unparenthesised texts binds as in SQL and an `OR` can break out of its fragment. A
factor knows at which place of the text its holes begin, and takes the arguments
of those places: pasting one text behind another moves its holes (`Shifted`), and
arguments appended in another order than the texts would end up in the wrong
comparison. `CompileUsing` binds `:auth_*`, `CompileWhere` is the filter tree,
`AllowedColumns`, `Shown`, `Limit`, `Offset` and `AsBool` are what their names say.
`ToInt` is Go's `int(f)`: a number above `IntMax` becomes `Overflow`, the largest int
on arm64 and the least on amd64, and the code clamps after the conversion. `Lenient` says
if the database takes negative limits and offsets, as SQLite does and Postgres does not. `Orders`
are the orders of the matching rows that an ORDER BY allows, by the `Rank` the
database gives to values; `Page` is what LIMIT and OFFSET leave of one.
The values columns and arguments can have (`Values`), the rows a table can hold
(`Rows`) and the filters clients can send (`Filters`) are constants. `Depth` says how
deep each filter is nested, which is all that `FilterAssumption` needs to make the
recursive functions over filters well defined.
`Answers` composes the two: it says what filter and policy mean
without SQL (`Meaning`, `Permits`), and its properties compare that with what the
SELECT finds for whatever a session is about to execute. `AnswersAssumption` says
that a policy's fragment has a `?` for each name it binds, which `replaceAuth`
sees to, that callers have a tenant, that bodies have a filter of `Filters` or none and a list to sort
by, and that the tables (`Contents`) are finite, with no more rows than an int can count.

### FlectDB

Time passes in ticks. A `Tick` is not possible at a moment when the code acts on
its own: a mutex that is free while somebody waits, a pause that is
over, a request that has timed out. `callers` are in `Connect`, and `holder` is the one that
keeps the mutex while it asks the broker. `sync.Mutex` gives a free mutex to a waiter or to a
newcomer that overtakes it, and turns to the waiters in order when one has starved; the
model gives it to any caller. `since` is the `now` that `current` reads before it asks the
broker, and by which it judges, after the answer, if the old credentials are `StillValid`.
`asked[c]` and `failed` are history: when a caller came, and when a renewal last failed.
`conn[c].kept` says that the credentials came from a failed renewal. The broker
answers at any moment until the timeout, with a manifest of any life in `Lives`,
or not at all. database/sql is external: it hands out a connection
until `born + life` and closes it whenever it likes.

## 4. Runs

| Run | Question | Bounds |
|---|---|---|
| `store_sqlite` | Are answers true and given, with one connection? | 2 handlers, 3 requests, 1 failing statement, 1 crash |
| `store_postgres` | Does the log keep its shape when transactions interleave, and is it an `EventLog`? | the same |
| `store_postgres_order` | Do commits appear in `globalSeq` order on Postgres? **No.** | 2 handlers, no fault |
| `store_duplicate_id` | Does a 409 tell the caller anything new? **Not for a duplicate id.** | 2 handlers, no fault |
| `reads` | Does a reader get its own tenant's log, all of it, in order? | 1 reader of every kind on every server that boots, 2 streams, 3 numbers, batches of 2, a limit of 1 by default and 2 at most |
| `realtime` | Is delivery ordered, at most once, gap-free and in the end complete? | 2 clients (one may stall), 2 writers, 3 events, 1 failure |
| `realtime_race` | Is it gap-free when appends overlap? **No.** | no failure |
| `projector` | When is a view the fold of the log, and does a rebuild repair it? | 2 append handlers, 1 rebuilder, 2 projections with tables of their own or one, 3 events, 1 failure |
| `projector_rebuild` | Does a view show only what the log has? **Not when a rebuild meets a fold.** | 2 events, no failure |
| `registry` | What can memory and tables disagree about? | 2 handlers, 4 requests, 1 failure, 4 definitions over 2 tables |
| `query` | Can a query miss its policy, and is its answer just what tenant, policy and filter mean? | 1 query, 2 handlers, 4 requests, 1 failure, 43 bodies, 48 rows, tables of up to 4 rows, a limit of 2 by default and 3 at most, 8 as the largest int |
| `flect` | How long do tokens and callers live? | 2 callers, 18 ticks, lives of 12 and 7 |

Why the bounds are enough. Two handlers are the fewest that race, and each
hazard listed has two parties (rebuild and append, reload and reload, two
transactions); a third party in `projector` is the rebuilder. Three requests or
events are the fewest in which a stream has a past, a racing pair and a
consequence: an append to a non-empty stream that two others race for, an
overflow and a later event that passes it, a set, a delete and a rebuild. Batches of
two occur, so that half of one can fail. `BufferSize = 1` stands for 256 and
`WireSize = 1` for the network's buffers: both make "full" reachable, and the code
tells only full from not full. A session delivers an event beyond the one it
refused if it wins `BufferSize + 1` tosses of `select` against the overflow signal,
once in 2^257 overflows with the 256 of the code. `Luck = 2` makes that reachable
with a buffer of one, and `outrun` names it as the exception it is.
One fault and one crash, at every point. In `reads` a maximal limit of 2 and batches of 2 tear a
batch between two pages, three numbers let one be committed below a
cursor, and the callers are every combination of mode, token and header. In
`query` each branch of the compiler has a body, each branch of a policy an edition, and
a row's columns take every value the comparisons tell apart. The limits sent are those
around each threshold of `Limit`, and one tenant's matching rows are fewer than a page, a page,
or more; its sorts have ties in their first column. The registry needs four requests to
save two editions of a definition, and have a lone reload clear the doubt left by two
that overlapped. In `flect` life 12 makes a third and a quarter integral, 7 makes
them not so, and 18 ticks are longer than any token lives.

### What the violations say

Each is a disagreement of the code with its own documentation; `findings` in
`PROJECT.json` quotes both.

1. On Postgres, `globalSeq` order is not commit order. A reader whose cursor has
   passed a number never sees an event that commits later with a lower one.
2. An event id that exists already is answered `409` with the stream's version,
   which may be the version the caller expected. A retry after a lost answer that
   names its ids meets it, or a plain version conflict.
3. Append handlers publish after they commit, in any order. The session drops
   the event with the lower number as an overlap. `DeliversUnlessRaced` is what
   does hold.
4. A rebuild beside a fold counts an event twice.

Other weaknesses of the code are the conditions of properties that hold:

- Folds run after commits in any order too: a row can keep the older of two
  values for good while both requests were answered `projected:true`. Counters
  are safe, and `CurrentUnlessInDoubt` says when the rest is (`shuffled`).
- A rebuild of one of two projections that share a table wipes the other's rows
  (`shared`).
- Of two overlapping saves, the reload that read first may install last
  (`CurrentUnlessOverlapped`); a query between its two lookups can meet that
  (`relapsed` in `PolicyNotOlder`).
- A reload whose read of the policies is cut short installs a part of them
  (`cut` in `MemoryInStep`).
- A session whose signal has come can go on delivering (`outrun`).
- A `limit` of a query between 0 and 1 becomes `LIMIT 0` (`PagesAddUp`).
- A `limit` of a query of 2^63 or more becomes the least int on amd64, passes the clamp, and
  SQLite takes the negative LIMIT for none: every row is answered, where ADR-008
  (`docs/adr/008-stream-type.md:50`) and `TestLimitDefaultsAndClamp` name a maximum of 10000.
  Postgres refuses it. `PagesAddUp` is about limits an int can hold.
- A boolean column that holds a 2 from its life as a counter reads as false, and
  `eq: false` does not find it: `TrueIsWhatTheFilterSays` is about true only.
- A query without a sort, or with one that does not tell the rows apart, comes in an
  order that nothing fixes: its pages may repeat a row or leave one out. `PagesAddUp` is
  about the other sorts.
- The answer to a COMMIT can be lost: the events are then not published, and live sessions
  pass them over, for good once a later event has moved the client's cursor.
  `DeliversUnlessRaced` exempts it.
- ADR-013 (`docs/adr/013-flect-binding.md:39`) says that "no connection outlives its token". One made with
  credentials kept after a failed renewal does, and so does one whose manifest has a shorter
  life than that of the boot, or a life of three seconds or less. `NoneOutlivesItsToken` is what
  holds for the others; `OutlivesBriefly` bounds the time any of them can be used, by the pool
  lifetime and one broker timeout.

### Fairness

Only `store_sqlite`, `realtime` and `reads` check liveness. `Store!FairSpec` is weak
fairness of each handler's `Step`: a goroutine that can run is scheduled and the
database answers the statements it accepts. `Realtime!FairSpec` adds that
sessions run, that a client which is not in `Stalled` reads its socket and
reconnects (the client's `for` loop does, after a backoff). Nobody is obliged to
append, to fail or to crash, and a stalled client may never read again: the
liveness of the writers must not depend on it. `LogReads!FairSpec` is weak fairness of
each reader's `Page`: a reader that has begun goes on asking, and an answer to a read
waits for nobody. Weak fairness suffices
because a step once enabled stays enabled until it, or a failure, happens; the
coin of `select` is bounded by `Luck` instead of by strong fairness.

## 5. Theorems

All proofs are checked by `tlapm` with Z3, Zenon and LS4. They assume what the
`ASSUME`s of the modules say: requests are non-empty batches,
generated ids are no client's, definitions are well formed and finitely many
(the registry is a map in memory), lives are positive.

**`StoreProofs`**, either dialect, any number of handlers, faults and crashes.
`VersionsGapless` is not inductive: a COMMIT adds rows that were numbered when the
version was read, and others may have committed since. `IInv` therefore says what
an open transaction knows: its pending rows are the first events of its request
at the versions after `cur` (`Shape`); the versions up to `cur` are committed and
older than its rows (`Base`); its rows clash with no committed and no pending row
(`Apart`), which is what the unique index and the waiting provide; its sequence
number is nobody else's (`Reserved`); on SQLite there is one transaction
(`OneConn`); what a 200 said is in the log (`Acked`). `Apart` together with a gapless
log forces `cur` to be the stream's version at COMMIT, so the commit leaves no
hole. `StepKinds` groups the actions by what they do to the log, and each conjunct
has a lemma with a step per kind. From the invariant: `TypeOK`,
`VersionsGapless`, `IdentityUnique`, `OneTypePerStream`, `SeqFollowsVersion`, `AckedDurable`,
`OneWinner`, `CommitsInSeqOrder` for SQLite, and the refinement of `EventLog`.

`RaceLoserLearns` needs a second invariant about the handler that met the unique
index without naming ids (`Loser`): while it is about to reread, the log has an
event of its stream beyond the version it expected, and what a 409 has named stays
reached.

**`DeliveryProofs`**. `NoGap` is inductive for `Delivery`. Whoever implements it
inherits it.

**`ReadsProofs`**, either database, any callers, limits, batches. The cursor splits
what is meant for a reader (`Paging`): at or below it are the events it has, or that
have passed it, and above it is nothing it has. A page is the lowest part of what lies above, so its
last number is the new cursor. On SQLite numbers come in order, within a stream
versions do (`EventLog`), so nothing passes there: `OnlyPostgresLogsMiss`. From
it `PagesDeliver` and `ShortPageMeansEnd`. `ReadsItsTenant` and `CapabilitiesEarned`
follow from an invariant about who was let in (`Admitted`) and a case analysis
of `Resolve`.

**`RealtimeProofs`**, any writers, clients, tenants, filters, buffers and
faults. A client's numbers, those on the wire and those its session has yet to
send are in that order (`Order`), which is `OrderedOnce`. For `DeliversUnlessRaced` the
invariant says of each client that nothing it wants is missing (`Whole`): an event
is received, or on the wire, in the catch-up, in its channel, not
yet published, or it was refused by the full channel and then nothing above it is
sent. What keeps the last case in order is `Tossed`: a session that refused an event
has at least `BufferSize - luck` buffered events below it. `Lined` says that
the channel is in order and below all that is pending, as long as appends do not
overlap.

**`ProjectorProofs`**, any definitions over any tables, handlers, rebuilds and
failures. A handler's work and a rebuild's replay name only events of the log that
the projection has a rule for, and a replay only what it can fold (`FoldInv`,
`RebuildInv`), so no statement meets a missing key or amount. `RowsHaveSources`: a row is there,
shows a value or has counted only because of an event of its own tenant, about
that row, folded by a definition of that table. It holds without any of the
exceptions of the other properties, and is what keeps tenants apart in the
read models.

`CurrentUnlessInDoubt` is about tables nobody is at work on, so its invariant
(`FInv`) has to say what a table holds while somebody is. `Missing` are the folds
that wait in a handler's `todo` or a rebuild's `replay`; a row shows the fold of
all others about it (`ShownInv`), as long as the table is `Trusted`: without a
doubt, or under a rebuild that will lift the doubt. A wipe fits into this without an exception, as
it empties the rows and makes every fold of them missing again. Folding one more
event changes the row as it changes the fold only if the event is later than
every set and delete done before (`OrderInv`), unless the table only counts. One step keeps the order
because nobody else folds into a trusted table: `JobInv` (an event is one
handler's, a handler has one tenant), `PeaceInv` (a rebuild that heals is alone and has
the whole log in its snapshot) and `DoubtInv` (where two meet there is a doubt)
say who can be at work together. When nobody is, nothing is missing and the row is
`Expected`. `RebuildRepairs` is the same at the moment a rebuild's `replay` is empty.
`TotalInv` needs less, that no rebuild crosses a fold: then a row counts each
upsert that is done at most once, in whatever order, whatever was lost; hence
`NeverInventsUnlessCrossed`: the upserts counted so far are the ones that add up to the total.
TLC found all six parts of `FInv` true on the bounds of
`projector`, and with a second rebuild of the same tenant, before they were proved.

A row's total is a `MapThenSumSet`, a recursion over a set in an order that
`CHOOSE` decides, and the provers do no induction over it. `SumIsNet` shows that such
a sum is the balance of two sets of units, those the folds with a positive amount bring and
those the negative ones take, by exhibiting the function that the recursion defines; that one
more fold adds its amount, whatever its sign, is then a fact of `FiniteSetTheorems`.

**`RegistryProofs`**. Tables are never dropped and columns never removed, so what
was once true of a definition (`HasTable`) stays true: `GrowKeepsTable`. Every
definition that reaches the rows has passed `ensureTable` (`Prepared`), and
snapshots and memory copy rows (`Backed`), however stale. Hence
`RegisteredHasTable` under any overlap, failure or restart. `CInv` adds what a
reload knows that nobody has overlapped: what it has read is what the tables say (`Fresh`), and a
handler whose save succeeded finds its definition there (`Stored`). Hence
`CurrentUnlessOverlapped` and `RebuildFindsDefinition`.

Its second part is about `Query`, over the same registry. Every copy of the
definitions is accompanied by policies at least as new (`Dated`, `Ordered`): the rows are, a reload
reads the definitions first, and memory takes both at once. Between the two lookups of a query
memory only gets newer unless it relapsed (`Between`). Hence `MemoryInStep` and `PolicyNotOlder`.

**`AnswersProofs`**, any table, filters of any depth and length, policies, callers and bodies.
What a query is about to execute is one of `Cases` (`SessionsAreCases`): its definition, its
policy and its caller by `QInv`, and the edition because every stored edition
came with a request (`Counted`). The properties are then facts about every case:

- Each text is in `Texts(n)`: its factors' holes lie in its first `n` places. So
  what is pasted behind it leaves its arguments where they were (`AltKept`), and what is
  pasted is as it was, counted from there (`AltShifted`).
- `JoinAnd` holds for texts of one alternative only. That every fragment joined
  by AND has at most one, because it is parenthesised or a single factor, is
  what `PartsFor("and")` carries along; without the parentheses
  it is what fails. `JoinAllFacts`: joined parts fail if one fails, and else say what they
  say together.
- The recursive functions of the model (`JoinAll`, `CompileWhere`, `Meaning`, `Mentions`) have no
  induction rule that the provers could use. `RecursionExists` shows that a
  definition by recursion on a depth has a solution, from the well-foundedness of `<` on the
  naturals, and `DepthInduction` proves facts about it by a set that contains
  each filter which has all shallower ones.
- `FiltersFaithful`: a filter that compiles says what it means (`Meaning`), in rows whose
  boolean columns hold 0, 1 or NULL, mentions visible columns only, and cannot
  tell two rows apart that agree on those.
- `WhereFacts` puts tenant, policy and filter together: three conjuncts. Hence
  `AnswerIsConjunction` and `HiddenColumnsMakeNoDifference`;
  `TrueIsWhatTheFilterSays` is `CompileLeaf` beside `AsBool`.
- `PagesAddUp`: a sort that tells the matching rows apart allows one order only
  (`OneOrder`; two orders would differ first at some place, and `Precedes` decides between the
  rows there), so that every page is cut from the same one. The rest is arithmetic: every row
  has a page (`EveryRowHasAPage`), pages do not overlap (`PagesApart`), and a limit that an
  int can hold is clamped between 1 and the maximum (`LimitFacts`).

**`FlectProofs`**. A connection that was not kept was made with a third of its
token's life left, one that was kept with a token valid a timeout before
(`Made`); the renewal's clock is at most a timeout behind (`ClockInv`); three
pool lifetimes fit into the first manifest's life when that exceeds three seconds
(`LifetimeFits`). Hence `TypeOK`, `NoneOutlivesItsToken` and `OutlivesBriefly`. For
`WaitIsBounded`, `WaitInv` says two things of a caller. While the broker is asked, the request
began before the caller came, or as it came, or at the moment another one failed. While the
mutex is free, the caller came or saw a failure just now, or the credentials in hand will do for
everybody. A free mutex is taken before time passes, so that the order in which it is given does
not matter.

Only model-checked: liveness (`EveryRequestAnswered`, `WritersNeverWait`,
`EventuallyCurrent`, `EverythingRead`), which the prover does not reach.

## 6. Not modelled

- libsql and Flect databases as the SQLite dialect with several connections:
  `Postgres = FALSE` stands for the embedded database, whose pool has one.
- Collisions of generated UUIDs; an id is a client's or `Generated`.
- Of the query compiler: `like`, `gte` and `lt`, which are compiled as their
  neighbours are; claims other than the tenant and the user, and the e-mail
  address. A filter with an `and` key ignores its
  other keys in the code; a filter of the model has one kind.
- A filter value that is itself an array or an object, outside `in`: the driver
  refuses it. The model's values are scalars.
- Cryptography and the parsing of tokens: a token is signed or it is not.
- Heartbeats, response headers and the wording of answers; the validation of
  bodies and definitions, which are taken from the valid ones.
- Sums beyond 2^53, where a database's floating point rounds and the order of additions
  shows: amounts are integers.
- Column types and values beyond "which event set it" and "how much was added".
- Deletes in a table where another projection upserts the same rows: which of
  them wins is their order, and no definition says what it should be.
- A client's `onEvent` that throws: the cursor has moved on by then.
- How long the driver takes to connect once it has the credentials, which a websocket url
  spends in `Connect`; a caller that gives up before the broker's timeout (its renewal counts
  as failed, early).
- That Postgres resolves a deadlock, after its `deadlock_timeout`: it is assumed, and what is
  checked is what is left when it has. What a 409 says when its reread fails (0, the
  error being dropped): `RaceLoserLearns` exempts it.
- Connections that the driver refuses to make, and a token revoked before its
  expiry (ADR-013 names the latter as a known gap).
- Of the Python client and the TypeScript client, all but the reads and `subscribe`:
  they send a request and return its answer.
- Flags, listening and shutdown; the placeholder rewriting of the dialects (a `?`
  inside a quoted operator would be renumbered, no query of the code has one), which
  keep no state.
