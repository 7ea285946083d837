------------------------------ MODULE LogReads ------------------------------
(***************************************************************************)
(* Reading the log over HTTP (store.go: ReadStream, ReadByCorrelation,     *)
(* ReadAll; their handlers in httpapi/router.go; the calls of the two      *)
(* clients).  A client reads page after page: it asks for what comes after *)
(* its cursor, and moves the cursor to the last event of the answer.       *)
(*                                                                         *)
(* Writers take the steps of EventLog, which Store is shown to implement,  *)
(* on SQLite in the order of their numbers (Store's CommitsInSeqOrder), on *)
(* Postgres in any order that keeps each stream's.                         *)
(***************************************************************************)
EXTENDS Access, Integers, FiniteSets

CONSTANTS
  Streams, Types, Correlations,
  Any,                     \* no type filter, no correlation
  Generated,               \* event ids, see EventLog
  Dialects,                \* the databases considered, of {"sqlite", "postgres"}
  Configs,                 \* the servers considered, a subset of Config
  Bodies,                  \* what is appended, a subset of Body
  Readers,
  Calls,                   \* who reads what, a subset of Call
  Garbage,                 \* a number that is missing or malformed
  DefaultLimit, MaxLimit,  \* 1000 and 10000 in the code
  MaxBatch, MaxSeq         \* bounds

(* GET /v1/events, /v1/streams/{id} and /v1/events/by-correlation/{id}. *)
Read == [kind: {"all", "stream", "correlation"}, of: Types \cup Streams \cup Correlations \cup {Any},
         from: Int \cup {Garbage}, limit: Int \cup {Garbage}]
Call == [who: Request, read: Read]

Body == [tenant: Tenants, stream: Streams, stype: Types, corr: Correlations \cup {Any}]

ASSUME LogReadsAssumption ==
  /\ Dialects \subseteq {"sqlite", "postgres"}
  /\ Configs \subseteq Config /\ Calls \subseteq Call /\ Bodies \subseteq Body
  /\ {DefaultLimit, MaxLimit} \subseteq Nat \ {0} /\ DefaultLimit <= MaxLimit
  /\ {MaxBatch, MaxSeq} \subseteq Nat
  /\ Garbage \notin Int

VARIABLES
  log,      \* the committed events, as in EventLog, each with its corr
  dialect, cfg,
  who,      \* who[r]: the reader's request; None before its first
  read,     \* read[r]: what it reads
  cursor,   \* cursor[r]: the number it asks from
  got,      \* got[r]: the events it was handed
  passed    \* history: passed[r], events that were committed below its cursor

session == <<who, read, cursor, got>>
vars == <<log, dialect, cfg, session, passed>>

L == INSTANCE EventLog

-----------------------------------------------------------------------------
(***************************************************************************)
(* Writers.                                                                *)
(***************************************************************************)
(* A batch gets numbers above all there are: SQLite has one writer at a time *)
(* and AUTOINCREMENT.  A Postgres transaction draws them before it commits.  *)
NumberedAnyhow(N) == TRUE
NumberedInOrder(N) == dialect = "sqlite" => \A n \in N, e \in log : n > e.seq

Batch(b, N) ==
  LET old == Cardinality(L!StreamOf(log, b.tenant, b.stream))
  IN {[seq |-> n, id |-> Generated, tenant |-> b.tenant, stream |-> b.stream,
       stype |-> b.stype, corr |-> b.corr,
       version |-> old + Cardinality({m \in N : m <= n})] : n \in N}

-----------------------------------------------------------------------------
(***************************************************************************)
(* Readers.                                                                *)
(***************************************************************************)
(* ParseInt's error is dropped: what is no number reads as 0.  A number beyond *)
(* 64 bits reads as the nearest of them, which the log leaves as far behind. *)
FromRaw(raw) == raw
From(raw) == IF raw = Garbage THEN 0 ELSE raw

(* A limit that is no number, or a number beyond 64 bits, is refused by       *)
(* ParseInt: it is Garbage.                                                  *)
ReadLimitOrDefault(raw) ==
  IF raw = Garbage \/ raw \notin 1..MaxLimit THEN DefaultLimit ELSE raw
ReadLimit(raw) ==
  CASE raw = Garbage -> DefaultLimit
    [] raw # Garbage /\ raw < 1 -> DefaultLimit
    [] raw # Garbage /\ raw > MaxLimit -> MaxLimit
    [] OTHER -> raw

TenantOf(r) == Resolve(cfg, who[r]).tenant

(* The WHERE clause without its cursor, and the ORDER BY column. *)
Selects(r, e) ==
  /\ e.tenant = TenantOf(r)
  /\ CASE read[r].kind = "all"         -> read[r].of \in {Any, e.stype}
       [] read[r].kind = "stream"      -> read[r].of = e.stream
       [] read[r].kind = "correlation" -> read[r].of = e.corr
Number(r, e) == IF read[r].kind = "stream" THEN e.version ELSE e.seq

(* A read by correlation takes no cursor. *)
Paged(r) == who[r] # None /\ read[r].kind # "correlation"

AfterInclusive(r) == {e \in log : Selects(r, e) /\ (Paged(r) => Number(r, e) >= cursor[r])}
After(r) == {e \in log : Selects(r, e) /\ (Paged(r) => Number(r, e) > cursor[r])}

(* What the reader asked for, as far as it is committed. *)
Meant(r) == {e \in log : Selects(r, e) /\ Number(r, e) > From(read[r].from)}

(* LIMIT: the first events in the order of their numbers. *)
IsPageAny(r, P)   == Cardinality(P) = ReadLimit(read[r].limit) \/ P = After(r)
IsPage(r, P) ==
  /\ \A e \in P, d \in After(r) \ P : Number(r, e) < Number(r, d)
  /\ Cardinality(P) <= ReadLimit(read[r].limit)
  /\ P # After(r) => Cardinality(P) = ReadLimit(read[r].limit)

(* The cursor of the next read: the number of the page's last event. *)
NextFrom(r, P) ==
  IF P = {} THEN {cursor[r]} ELSE {n \in {Number(r, e) : e \in P} : \A e \in P : Number(r, e) <= n}

-----------------------------------------------------------------------------
Init ==
  /\ log = {}
  /\ dialect \in Dialects
  /\ cfg \in {c \in Configs : Boots(c)}
  /\ who = [r \in Readers |-> None]
  /\ read = [r \in Readers |-> None]
  /\ cursor = [r \in Readers |-> 0]
  /\ got = [r \in Readers |-> {}]
  /\ passed = [r \in Readers |-> {}]

Commit ==
  \E b \in Bodies, N \in SUBSET (1..MaxSeq) :
    /\ N # {} /\ Cardinality(N) <= MaxBatch
    /\ NumberedInOrder(N)
    /\ LET new == Batch(b, N)
       IN /\ log' = log \cup new /\ L!Append(b.tenant, b.stream)
          /\ passed' = [r \in Readers |-> passed[r] \cup
                          {e \in log' \ log : /\ Paged(r) /\ Selects(r, e)
                                              /\ From(read[r].from) < Number(r, e)
                                              /\ Number(r, e) <= cursor[r]}]
    /\ UNCHANGED <<dialect, cfg, session>>

(* A caller withAuth lets through begins to read. *)
Open(r) ==
  /\ who[r] = None
  /\ \E c \in Calls :
       /\ Resolve(cfg, c.who).status = 200
       /\ who' = [who EXCEPT ![r] = c.who]
       /\ read' = [read EXCEPT ![r] = c.read]
       /\ cursor' = [cursor EXCEPT ![r] = From(c.read.from)]
  /\ UNCHANGED <<log, dialect, cfg, got, passed>>

Page(r) ==
  /\ who[r] # None
  /\ \E P \in SUBSET After(r) :
       /\ IsPage(r, P)
       /\ got' = [got EXCEPT ![r] = @ \cup P]
       /\ \E n \in NextFrom(r, P) : cursor' = [cursor EXCEPT ![r] = n]
  /\ UNCHANGED <<log, dialect, cfg, who, read, passed>>

Next == Commit \/ \E r \in Readers : Open(r) \/ Page(r)

Spec == Init /\ [][Next]_vars

(* Clients go on reading, and the server answers a read by itself. *)
FairSpec == Spec /\ \A r \in Readers : WF_vars(Page(r))

-----------------------------------------------------------------------------
(***************************************************************************)
(* Properties.                                                             *)
(***************************************************************************)
TypeOK ==
  /\ dialect \in Dialects /\ cfg \in Configs
  /\ who \in [Readers -> Request \cup {None}] /\ read \in [Readers -> Read \cup {None}]
  /\ \A r \in Readers : who[r] # None => [who |-> who[r], read |-> read[r]] \in Calls
  /\ cursor \in [Readers -> Int]
  /\ got \in [Readers -> SUBSET log] /\ passed \in [Readers -> SUBSET log]
  /\ \A e \in log : e.seq \in Nat /\ e.version \in Nat

Numbers(r, es) == {Number(r, e) : e \in es}
DueTo(r) == IF Paged(r) THEN Numbers(r, Meant(r) \ passed[r]) ELSE {}
HasGot(r) == IF Paged(r) THEN Numbers(r, got[r]) ELSE {}

D == INSTANCE Delivery WITH due <- [r \in Readers |-> DueTo(r)],
                            got <- [r \in Readers |-> HasGot(r)]

(* Paging promises what Delivery says of all events that were not committed  *)
(* below the reader's cursor: whatever the limits, the batches that are torn *)
(* between pages and the commits between two reads, no page leaves out or    *)
(* reorders one.                                                             *)
PagesDeliver == D!Spec

(* The only reads that can miss an event are those of the tenant's log on    *)
(* Postgres, where a number may be committed after a higher one.  A stream's *)
(* history, and every read on SQLite, misses nothing.                        *)
OnlyPostgresLogsMiss ==
  \A r \in Readers : passed[r] # {} => dialect = "postgres" /\ read[r].kind = "all"

(* The contract of the limit (openapi.yaml): 1 to 10000, 1000 if there is    *)
(* none.  A page that leaves something behind is as long as was asked for,   *)
(* so a shorter one tells the client that it has caught up; asking for more  *)
(* than the maximum gets the maximum, never fewer.  A number beyond 64 bits  *)
(* is Garbage, and gets the default.                                         *)
Asked(raw) == IF raw \in 1..MaxLimit THEN raw ELSE IF raw \in Int /\ raw > MaxLimit
              THEN MaxLimit ELSE DefaultLimit
ShortPageMeansEnd ==
  [][\A r \in Readers :
       Paged(r) /\ got'[r] # got[r] /\ (Meant(r) \ passed[r]) \ got'[r] # {}
       => Cardinality(got'[r] \ got[r]) = Asked(read[r].limit)]_vars

(* A reader that keeps paging is handed every event it asked for, also those *)
(* committed while it reads.                                                 *)
EverythingRead ==
  \A r \in Readers, n \in 1..MaxSeq : n \in DueTo(r) ~> n \in HasGot(r)

(* The token decides (ADR-002, ADR-004).  On a server that verifies tokens   *)
(* nobody reads without a valid one; a user and a pinned service read their  *)
(* token's tenant whatever the headers say, and only a service that is not   *)
(* pinned picks one.                                                         *)
Proven(q) == q.bearer \in Token /\ q.bearer.signed /\ (q.bearer.exp \in Nat => q.bearer.exp >= Now)
Unverified(c) == c.auth = "none" \/ (c.auth \in {"unset", "unknown"} /\ ~c.secret)
Entitled(c, q) ==
  {t \in Tenants :
     \/ Unverified(c) /\ t = q.tenant
     \/ /\ ~Unverified(c) /\ Proven(q)
        /\ \/ t = q.bearer.org
           \/ q.bearer.org = None /\ q.bearer.type = "service" /\ t = q.tenant}
ReadsItsTenant ==
  \A r \in Readers : \A e \in got[r] : e.tenant \in Entitled(cfg, who[r])

(* Capabilities and identities are earned: where tokens are verified only a  *)
(* service gets to write or to the control plane, and the identity of a user *)
(* is that of its token; in production a server is open only if its          *)
(* FOLDBASE_AUTH is set.                                                     *)
CapabilitiesEarned ==
  \A r \in Readers : who[r] # None =>
     LET a == Resolve(cfg, who[r])
         b == who[r].bearer
     IN \/ /\ Proven(who[r])
           /\ IF b.type = "service" THEN a.write /\ a.control
              ELSE ~a.write /\ ~a.control /\ a.uid = b.sub /\ a.role = b.role
        \/ /\ CurrentMode(cfg) = "none" /\ (cfg.production => cfg.auth # "unset")
           /\ a.control => ~cfg.admin \/ b = AdminToken
=============================================================================
