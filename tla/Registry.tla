------------------------------ MODULE Registry ------------------------------
(***************************************************************************)
(* The registry of definitions (readmodel/registry.go and the control      *)
(* plane handlers of httpapi/router.go): projections and policies are rows *)
(* of two tables, every process keeps a copy of them in memory, and the    *)
(* copy is what appends fold by and queries are answered from.             *)
(*                                                                         *)
(* PUT /v1/projections: create -> columns -> alter -> upsert -> reload ->  *)
(* rebuild.  PUT /v1/policies: upsert -> reload.  POST /admin/reload:      *)
(* reload.  A reload is three steps: it reads one table, then the other,   *)
(* and installs both under the lock.  Each step is one SQL statement.      *)
(***************************************************************************)
EXTENDS Naturals, FiniteSets

CONSTANTS
  Handlers,      \* handlers of the control plane
  Names, Tables, Columns,
  Policies,      \* what identifies a policy: its name and role
  Definitions,   \* the valid definitions that are sent, a subset of Definition
  NoDef,         \* no row, no entry
  MaxRequests, MaxFaults   \* bounds

Definition == [name: Names, table: Tables, cols: SUBSET Columns]

ASSUME RegistryAssumption ==
  /\ Definitions \subseteq Definition /\ NoDef \notin Definition
  /\ {MaxRequests, MaxFaults} \subseteq Nat

VARIABLES
  rows,      \* rows[n]: the definition stored in _projections
  polRows,   \* polRows[k]: the edition of the policy stored in _policies, 0 if none
  exists,    \* the read-model tables there are
  cols,      \* cols[b]: the columns of table b
  mem,       \* r.projections
  polMem,    \* r.policies
  pc,        \* pc[h]: what handler h does next
  def,       \* def[h]: the definition in hand
  missing,   \* missing[h]: columns h has yet to add
  snap,      \* snap[h]: the projections its reload has read
  polSnap,   \* polSnap[h]: the policies its reload has read
  alone,     \* history: alone[h], nobody saved or reloaded beside h's reload
  doubt,     \* history: memory may differ from the tables
  served, faults

storeVars == <<rows, polRows>>
tableVars == <<exists, cols>>
memVars   == <<mem, polMem>>
snapVars  == <<snap, polSnap>>
vars == <<storeVars, tableVars, memVars, pc, def, missing, snapVars, alone, doubt,
          served, faults>>

NoRows == [n \in Names |-> NoDef]
NoPols == [k \in Policies |-> 0]

Init ==
  /\ rows = NoRows /\ polRows = NoPols
  /\ exists = {} /\ cols = [b \in Tables |-> {}]
  /\ mem = NoRows /\ polMem = NoPols
  /\ pc = [h \in Handlers |-> "idle"]
  /\ def = [h \in Handlers |-> NoDef]
  /\ missing = [h \in Handlers |-> {}]
  /\ snap = [h \in Handlers |-> NoRows]
  /\ polSnap = [h \in Handlers |-> NoPols]
  /\ alone = [h \in Handlers |-> FALSE]
  /\ doubt = FALSE
  /\ served = 0 /\ faults = 0

Goto(h, label) == pc' = [pc EXCEPT ![h] = label]

(* Handlers between their write and the end of their reload. *)
Reloading(h) == pc[h] \in {"read", "policies", "install"}
OthersReloading(h) == \E g \in Handlers \ {h} : Reloading(g)

(* h is about to save or reload: reloads beside it are not alone any more.   *)
Enters(h) ==
  /\ alone' = [g \in Handlers |-> g = h /\ ~OthersReloading(h)]
  /\ doubt' = (doubt \/ OthersReloading(h))

-----------------------------------------------------------------------------
(***************************************************************************)
(* Requests.                                                               *)
(***************************************************************************)
Arrives(h) ==
  /\ pc[h] = "idle" /\ served < MaxRequests
  /\ served' = served + 1
  /\ UNCHANGED <<storeVars, tableVars, memVars, missing, snapVars, faults>>

PutProjection(h) ==
  /\ Arrives(h)
  /\ \E d \in Definitions : def' = [def EXCEPT ![h] = d]
  /\ Goto(h, "create")
  /\ UNCHANGED <<alone, doubt>>

PutPolicy(h) ==
  /\ Arrives(h)
  /\ Goto(h, "policy")
  /\ UNCHANGED <<def, alone, doubt>>

AdminReload(h) ==
  /\ Arrives(h)
  /\ Enters(h)
  /\ Goto(h, "read")
  /\ UNCHANGED def

-----------------------------------------------------------------------------
(***************************************************************************)
(* ensureTable.                                                            *)
(***************************************************************************)
(* CREATE TABLE IF NOT EXISTS: an existing table stays as it is. *)
CreateTable(h) ==
  /\ pc[h] = "create"
  /\ exists' = exists \cup {def[h].table}
  /\ cols' = [cols EXCEPT ![def[h].table] = IF def[h].table \in exists THEN @ ELSE def[h].cols]
  /\ Goto(h, "columns")
  /\ UNCHANGED <<storeVars, memVars, def, missing, snapVars, alone, doubt, served, faults>>

(* The declared columns that ExistingColumns did not list. *)
MissingNone(d) == {}
Missing(d)     == d.cols \ cols[d.table]

ReadColumns(h) ==
  /\ pc[h] = "columns"
  /\ missing' = [missing EXCEPT ![h] = Missing(def[h])]
  /\ Goto(h, "alter")
  /\ UNCHANGED <<storeVars, tableVars, memVars, def, snapVars, alone, doubt, served, faults>>

AddColumn(h) ==
  /\ pc[h] = "alter"
  /\ \E c \in missing[h] \ cols[def[h].table] :
       /\ cols' = [cols EXCEPT ![def[h].table] = @ \cup {c}]
       /\ missing' = [missing EXCEPT ![h] = @ \ {c}]
  /\ UNCHANGED <<storeVars, exists, memVars, pc, def, snapVars, alone, doubt, served, faults>>

(* A save that returns an error: the handler answers 500. *)
Fails(h) ==
  /\ Goto(h, "idle")
  /\ def' = [def EXCEPT ![h] = NoDef]
  /\ missing' = [missing EXCEPT ![h] = {}]
  /\ snap' = [snap EXCEPT ![h] = NoRows]
  /\ polSnap' = [polSnap EXCEPT ![h] = NoPols]
  /\ UNCHANGED <<storeVars, tableVars, memVars, served>>

(* Somebody else has added the column in between. *)
DuplicateColumn(h) ==
  /\ pc[h] = "alter" /\ missing[h] \cap cols[def[h].table] # {}
  /\ Fails(h)
  /\ UNCHANGED <<alone, doubt, faults>>

-----------------------------------------------------------------------------
(***************************************************************************)
(* The upserts, the reload and the rebuild.                                *)
(***************************************************************************)
UpsertProjection(h) ==
  /\ pc[h] = "alter" /\ missing[h] = {}
  /\ rows' = [rows EXCEPT ![def[h].name] = def[h]]
  /\ Enters(h)
  /\ Goto(h, "read")
  /\ UNCHANGED <<polRows, tableVars, memVars, def, missing, snapVars, served, faults>>

UpsertPolicy(h) ==
  /\ pc[h] = "policy"
  /\ \E k \in Policies : polRows' = [polRows EXCEPT ![k] = @ + 1]
  /\ Enters(h)
  /\ Goto(h, "read")
  /\ UNCHANGED <<rows, tableVars, memVars, def, missing, snapVars, served, faults>>

ReadProjections(h) ==
  /\ pc[h] = "read"
  /\ snap' = [snap EXCEPT ![h] = rows]
  /\ Goto(h, "policies")
  /\ UNCHANGED <<storeVars, tableVars, memVars, def, missing, polSnap, alone, doubt,
                 served, faults>>

ReadPolicies(h) ==
  /\ pc[h] = "policies"
  /\ polSnap' = [polSnap EXCEPT ![h] = polRows]
  /\ Goto(h, "install")
  /\ UNCHANGED <<storeVars, tableVars, memVars, def, missing, snap, alone, doubt,
                 served, faults>>

(* Both maps change under the lock; what was read when does not matter. *)
InstalledAdding(h) ==
  /\ mem' = [n \in Names |-> IF mem[n] = NoDef THEN snap[h][n] ELSE mem[n]]
  /\ polMem' = polSnap[h]
InstalledRowsOfNow(h) == mem' = rows /\ polMem' = polSnap[h]
InstalledPoliciesOnly(h) == mem' = mem /\ polMem' = polSnap[h]
Installed(h) == mem' = snap[h] /\ polMem' = polSnap[h]

(* A save that registered a projection goes on to rebuild it. *)
AlwaysRebuild(h) == "rebuild"
AfterReload(h)   == IF def[h] = NoDef THEN "idle" ELSE "rebuild"

Install(h) ==
  /\ pc[h] = "install"
  /\ Installed(h)
  /\ Goto(h, AfterReload(h))
  /\ doubt' = (doubt /\ ~alone[h])
  /\ snap' = [snap EXCEPT ![h] = NoRows]
  /\ polSnap' = [polSnap EXCEPT ![h] = NoPols]
  /\ UNCHANGED <<storeVars, tableVars, def, missing, alone, served, faults>>

(* putProjection looks its definition up again and replays the log by it; a  *)
(* name that is not registered is skipped without an error.                  *)
Rebuild(h) ==
  /\ pc[h] = "rebuild"
  /\ def' = [def EXCEPT ![h] = NoDef]
  /\ Goto(h, "idle")
  /\ UNCHANGED <<storeVars, tableVars, memVars, missing, snapVars, alone, doubt,
                 served, faults>>

-----------------------------------------------------------------------------
(***************************************************************************)
(* Failing statements and restarts.                                        *)
(***************************************************************************)
StatementFails(h) ==
  /\ pc[h] \in {"create", "columns", "alter", "policy", "read", "policies"}
  /\ faults < MaxFaults /\ faults' = faults + 1
  /\ Fails(h)
  /\ doubt' = (doubt \/ Reloading(h))
  /\ UNCHANGED alone

(* The connection breaks under rows.Next: the loop ends early as if the rows *)
(* were all read, since nobody asks rows.Err.                                *)
ReadCutShort(h) ==
  /\ pc[h] = "read"
  /\ faults < MaxFaults /\ faults' = faults + 1
  /\ \E S \in SUBSET Names :
       snap' = [snap EXCEPT ![h] = [n \in Names |-> IF n \in S THEN rows[n] ELSE NoDef]]
  /\ alone' = [alone EXCEPT ![h] = FALSE]
  /\ doubt' = TRUE
  /\ Goto(h, "policies")
  /\ UNCHANGED <<storeVars, tableVars, memVars, def, missing, polSnap, served>>

PoliciesCutShort(h) ==
  /\ pc[h] = "policies"
  /\ faults < MaxFaults /\ faults' = faults + 1
  /\ \E S \in SUBSET Policies :
       polSnap' = [polSnap EXCEPT ![h] = [k \in Policies |-> IF k \in S THEN polRows[k] ELSE 0]]
  /\ alone' = [alone EXCEPT ![h] = FALSE]
  /\ doubt' = TRUE
  /\ Goto(h, "install")
  /\ UNCHANGED <<storeVars, tableVars, memVars, def, missing, snap, served>>

(* The server dies; Init loads the definitions before it serves again. *)
Restart ==
  /\ faults < MaxFaults /\ faults' = faults + 1
  /\ mem' = rows /\ polMem' = polRows
  /\ pc' = [h \in Handlers |-> "idle"]
  /\ def' = [h \in Handlers |-> NoDef]
  /\ missing' = [h \in Handlers |-> {}]
  /\ snap' = [h \in Handlers |-> NoRows]
  /\ polSnap' = [h \in Handlers |-> NoPols]
  /\ doubt' = FALSE
  /\ UNCHANGED <<storeVars, tableVars, alone, served>>

Quiet == \A h \in Handlers : pc[h] = "idle"
Rest  == served = MaxRequests /\ Quiet /\ UNCHANGED vars

Control ==
  \E h \in Handlers :
       \/ PutProjection(h) \/ PutPolicy(h) \/ AdminReload(h)
       \/ CreateTable(h) \/ ReadColumns(h) \/ AddColumn(h) \/ DuplicateColumn(h)
       \/ UpsertProjection(h) \/ UpsertPolicy(h)
       \/ ReadProjections(h) \/ ReadPolicies(h) \/ Install(h) \/ Rebuild(h)
       \/ StatementFails(h) \/ ReadCutShort(h) \/ PoliciesCutShort(h)

Next == Control \/ Restart \/ Rest

Spec == Init /\ [][Next]_vars

-----------------------------------------------------------------------------
(***************************************************************************)
(* Properties.                                                             *)
(***************************************************************************)
Entries == [Names -> Definition \cup {NoDef}]
Labels  == {"idle", "create", "columns", "alter", "policy", "read", "policies",
            "install", "rebuild"}

TypeOK ==
  /\ rows \in Entries /\ mem \in Entries /\ snap \in [Handlers -> Entries]
  /\ polRows \in [Policies -> Nat] /\ polMem \in [Policies -> Nat]
  /\ polSnap \in [Handlers -> [Policies -> Nat]]
  /\ exists \subseteq Tables /\ cols \in [Tables -> SUBSET Columns]
  /\ pc \in [Handlers -> Labels]
  /\ def \in [Handlers -> Definition \cup {NoDef}]
  /\ missing \in [Handlers -> SUBSET Columns]
  /\ \A h \in Handlers : pc[h] \in {"create", "columns", "alter", "rebuild"} => def[h] # NoDef
  /\ alone \in [Handlers -> BOOLEAN] /\ doubt \in BOOLEAN
  /\ served \in Nat /\ faults \in Nat

HasTable(d) == d.table \in exists /\ d.cols \subseteq cols[d.table]

(* Whatever a fold, a query or a rebuild takes from memory has its table and *)
(* every declared column there: saves that overlap, share a table or fail    *)
(* half-way, stale reloads and restarts never register a definition whose    *)
(* statements would not run.                                                 *)
RegisteredHasTable == \A n \in Names : mem[n] # NoDef => HasTable(mem[n])

(* Memory is what the tables say once nobody saves or reloads, unless saves  *)
(* and reloads overlapped, or one failed, since the last reload that was on  *)
(* its own.                                                                  *)
CurrentUnlessOverlapped == Quiet /\ ~doubt => mem = rows /\ polMem = polRows

(* The rebuild that ends a registration finds its definition: it is skipped *)
(* in silence after overlapping saves or failures only.                      *)
RebuildFindsDefinition ==
  \A h \in Handlers : pc[h] = "rebuild" /\ mem[def[h].name] = NoDef => doubt
=============================================================================
