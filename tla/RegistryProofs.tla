--------------------------- MODULE RegistryProofs ---------------------------
(***************************************************************************)
(* Theorems about Registry and about Query, for every set of handlers,     *)
(* sessions, names, tables, columns and definitions. What memory holds can *)
(* be executed: the invariant follows a definition from the handler that   *)
(* makes its table to the row, the snapshots and memory, and holds because *)
(* tables only ever grow. What a query uses is no older than its           *)
(* definition.                                                             *)
(***************************************************************************)
EXTENDS Query, FiniteSetTheorems, TLAPS

(* Definitions that somebody may install or has installed have their table. *)
Backed(entries) == \A n \in Names : entries[n] # NoDef => HasTable(entries[n])

(* What a save knows of its table on the way to the upsert. *)
Prepared(h) ==
  /\ pc[h] \in {"columns", "alter"} => def[h].table \in exists
  /\ pc[h] = "alter" => def[h].cols \ cols[def[h].table] \subseteq missing[h]

IInv ==
  /\ TypeOK
  /\ Backed(rows) /\ Backed(mem)
  /\ \A h \in Handlers : Backed(snap[h]) /\ Prepared(h)

-----------------------------------------------------------------------------
(* Tables are never dropped and never lose a column. *)
TablesGrow ==
  exists \subseteq exists' /\ \A b \in exists : cols[b] \subseteq cols'[b]

LEMMA GrowKeepsTable ==
  ASSUME TablesGrow, NEW d, HasTable(d)
  PROVE  HasTable(d)'
BY DEF TablesGrow, HasTable

LEMMA StepGrowsTables ==
  ASSUME TypeOK, [Next]_vars
  PROVE  TablesGrow
<1>1. CASE \E h \in Handlers : CreateTable(h)
  <2> PICK h \in Handlers : CreateTable(h)
    BY <1>1
  <2> def[h].table \in Tables
    BY DEF CreateTable, TypeOK, Definition
  <2> QED
    BY DEF CreateTable, TypeOK, TablesGrow
<1>2. CASE \E h \in Handlers : AddColumn(h)
  BY <1>2 DEF AddColumn, TypeOK, TablesGrow
<1>3. CASE UNCHANGED tableVars
  BY <1>3 DEF tableVars, TablesGrow
<1>4. CASE UNCHANGED vars
  BY <1>3, <1>4 DEF vars, tableVars
<1> QED
  BY <1>1, <1>2, <1>3, <1>4
  DEF Next, Control, PutProjection, PutPolicy, AdminReload, Arrives, ReadColumns, DuplicateColumn, Fails,
      UpsertProjection, UpsertPolicy, ReadProjections, ReadPolicies, Install, Rebuild,
      StatementFails, ReadCutShort, PoliciesCutShort, Restart, Rest

LEMMA InitInv == Init => IInv
<1> SUFFICES ASSUME Init PROVE IInv
  OBVIOUS
<1>1. TypeOK
  BY RegistryAssumption DEF Init, TypeOK, Entries, Labels, NoRows, NoPols
<1>2. QED
  BY <1>1 DEF Init, IInv, Backed, Prepared, NoRows

-----------------------------------------------------------------------------
(* The history variables and counters, whatever the step. *)
LEMMA EntersType ==
  ASSUME TypeOK, NEW h \in Handlers, Enters(h)
  PROVE  alone' \in [Handlers -> BOOLEAN] /\ doubt' \in BOOLEAN
<1>1. alone' \in [Handlers -> BOOLEAN]
  BY ZenonT(30) DEF Enters
<1>2. doubt' \in BOOLEAN
  BY ZenonT(30) DEF Enters, TypeOK
<1> QED
  BY <1>1, <1>2

LEMMA FailsType ==
  ASSUME TypeOK, NEW h \in Handlers, Fails(h),
         alone' \in [Handlers -> BOOLEAN], doubt' \in BOOLEAN, faults' \in Nat
  PROVE  TypeOK'
BY DEF Fails, Goto, TypeOK, Entries, Labels, NoRows, NoPols, storeVars, tableVars, memVars

LEMMA TypeStep ==
  ASSUME TypeOK, [Next]_vars
  PROVE  TypeOK'
<1> USE DEF Goto, storeVars, tableVars, memVars, snapVars
<1>1. ASSUME NEW h \in Handlers, PutProjection(h) PROVE TypeOK'
  BY <1>1, RegistryAssumption DEF PutProjection, Arrives, TypeOK, Labels, Definition
<1>2. ASSUME NEW h \in Handlers, PutPolicy(h) PROVE TypeOK'
  BY <1>2 DEF PutPolicy, Arrives, TypeOK, Labels
<1>3. ASSUME NEW h \in Handlers, AdminReload(h) PROVE TypeOK'
  BY <1>3, EntersType DEF AdminReload, Arrives, TypeOK, Labels
<1>4. ASSUME NEW h \in Handlers, CreateTable(h) PROVE TypeOK'
  <2>1. def[h] \in Definition
    BY <1>4 DEF CreateTable, TypeOK
  <2>2. exists' \subseteq Tables /\ cols' \in [Tables -> SUBSET Columns]
    BY <1>4, <2>1 DEF CreateTable, TypeOK, Definition
  <2> QED
    BY <1>4, <2>2 DEF CreateTable, TypeOK, Labels
<1>5. ASSUME NEW h \in Handlers, ReadColumns(h) PROVE TypeOK'
  <2>1. Missing(def[h]) \in SUBSET Columns
    BY <1>5 DEF ReadColumns, TypeOK, Definition, Missing
  <2> QED
    BY <1>5, <2>1 DEF ReadColumns, TypeOK, Labels
<1>6. ASSUME NEW h \in Handlers, AddColumn(h) PROVE TypeOK'
  <2>1. PICK c \in missing[h] \ cols[def[h].table] :
           /\ cols' = [cols EXCEPT ![def[h].table] = @ \cup {c}]
           /\ missing' = [missing EXCEPT ![h] = @ \ {c}]
    BY <1>6 DEF AddColumn
  <2>2. c \in Columns
    BY <2>1 DEF TypeOK
  <2>3. cols' \in [Tables -> SUBSET Columns]
    BY <2>1, <2>2 DEF TypeOK
  <2>4. missing' \in [Handlers -> SUBSET Columns]
    BY <2>1 DEF TypeOK
  <2> QED
    BY <1>6, <2>3, <2>4 DEF AddColumn, TypeOK
<1>7. ASSUME NEW h \in Handlers, DuplicateColumn(h) PROVE TypeOK'
  BY <1>7, FailsType DEF DuplicateColumn, TypeOK
<1>8. ASSUME NEW h \in Handlers, UpsertProjection(h) PROVE TypeOK'
  <2>1. def[h] \in Definition
    BY <1>8 DEF UpsertProjection, TypeOK
  <2>2. rows' \in Entries
    BY <1>8, <2>1 DEF UpsertProjection, TypeOK, Entries
  <2> QED
    BY <1>8, <2>2, EntersType DEF UpsertProjection, TypeOK, Labels
<1>9. ASSUME NEW h \in Handlers, UpsertPolicy(h) PROVE TypeOK'
  BY <1>9, EntersType DEF UpsertPolicy, TypeOK, Labels
<1>10. ASSUME NEW h \in Handlers, ReadProjections(h) PROVE TypeOK'
  BY <1>10 DEF ReadProjections, TypeOK, Labels
<1>11. ASSUME NEW h \in Handlers, ReadPolicies(h) PROVE TypeOK'
  BY <1>11 DEF ReadPolicies, TypeOK, Labels
<1>12. ASSUME NEW h \in Handlers, Install(h) PROVE TypeOK'
  <2>1. doubt' \in BOOLEAN /\ alone' = alone
    BY <1>12, ZenonT(30) DEF Install, TypeOK
  <2> QED
    BY <1>12, <2>1 DEF Install, Installed, AfterReload, TypeOK, Labels, Entries, NoRows, NoPols
<1>13. ASSUME NEW h \in Handlers, Rebuild(h) PROVE TypeOK'
  BY <1>13 DEF Rebuild, TypeOK, Labels
<1>14. ASSUME NEW h \in Handlers, StatementFails(h) PROVE TypeOK'
  <2>1. doubt' \in BOOLEAN
    BY <1>14, ZenonT(30) DEF StatementFails, TypeOK
  <2> QED
    BY <1>14, <2>1, FailsType DEF StatementFails, TypeOK
<1>15. ASSUME NEW h \in Handlers, ReadCutShort(h) PROVE TypeOK'
  <2>1. snap' \in [Handlers -> Entries]
    <3>1. PICK S \in SUBSET Names :
             snap' = [snap EXCEPT ![h] = [n \in Names |-> IF n \in S THEN rows[n] ELSE NoDef]]
      BY <1>15 DEF ReadCutShort
    <3>2. [n \in Names |-> IF n \in S THEN rows[n] ELSE NoDef] \in Entries
      BY DEF TypeOK, Entries
    <3> QED
      BY <3>1, <3>2 DEF TypeOK
  <2>2. alone' \in [Handlers -> BOOLEAN] /\ doubt' \in BOOLEAN
    BY <1>15 DEF ReadCutShort, TypeOK
  <2> QED
    BY <1>15, <2>1, <2>2 DEF ReadCutShort, TypeOK, Labels
<1>16. CASE Restart
  <2>1. /\ mem' \in Entries /\ snap' \in [Handlers -> Entries] /\ rows' \in Entries
        /\ def' \in [Handlers -> Definition \cup {NoDef}]
    BY <1>16 DEF Restart, TypeOK, Entries, NoRows
  <2>2. /\ polMem' \in [Policies -> Nat] /\ polSnap' \in [Handlers -> [Policies -> Nat]]
        /\ polRows' \in [Policies -> Nat]
    BY <1>16 DEF Restart, TypeOK, NoPols
  <2>3. /\ pc' \in [Handlers -> Labels] /\ missing' \in [Handlers -> SUBSET Columns]
        /\ \A h \in Handlers :
             pc'[h] \in {"create", "columns", "alter", "rebuild"} => def'[h] # NoDef
    BY <1>16 DEF Restart, Labels
  <2>4. /\ exists' \subseteq Tables /\ cols' \in [Tables -> SUBSET Columns]
        /\ served' \in Nat /\ faults' \in Nat
    BY <1>16 DEF Restart, TypeOK
  <2>5. alone' \in [Handlers -> BOOLEAN] /\ doubt' \in BOOLEAN
    BY <1>16, ZenonT(30) DEF Restart, TypeOK
  <2> QED
    BY <2>1, <2>2, <2>3, <2>4, <2>5 DEF TypeOK
<1>17. ASSUME NEW h \in Handlers, PoliciesCutShort(h) PROVE TypeOK'
  <2>1. polSnap' \in [Handlers -> [Policies -> Nat]]
    <3>1. PICK S \in SUBSET Policies :
             polSnap' = [polSnap EXCEPT ![h] = [k \in Policies |-> IF k \in S THEN polRows[k] ELSE 0]]
      BY <1>17 DEF PoliciesCutShort
    <3>2. [k \in Policies |-> IF k \in S THEN polRows[k] ELSE 0] \in [Policies -> Nat]
      BY DEF TypeOK
    <3> QED
      BY <3>1, <3>2 DEF TypeOK
  <2>2. alone' \in [Handlers -> BOOLEAN] /\ doubt' \in BOOLEAN
    BY <1>17 DEF PoliciesCutShort, TypeOK
  <2> QED
    BY <1>17, <2>1, <2>2 DEF PoliciesCutShort, TypeOK, Labels
<1>18. CASE Rest \/ UNCHANGED vars
  BY <1>18 DEF Rest, vars, TypeOK
<1> QED
  BY <1>1, <1>2, <1>3, <1>4, <1>5, <1>6, <1>7, <1>8, <1>9, <1>10, <1>11, <1>12, <1>13,
     <1>14, <1>15, <1>16, <1>17, <1>18 DEF Next, Control

-----------------------------------------------------------------------------
(* Rows, memory and snapshots hold what was there before or what a prepared  *)
(* save wrote.                                                               *)
LEMMA BackedStep ==
  ASSUME IInv, [Next]_vars
  PROVE  /\ Backed(rows)' /\ Backed(mem)'
         /\ \A g \in Handlers : Backed(snap[g])'
<1> USE DEF Goto, storeVars, tableVars, memVars, snapVars
<1>1. TablesGrow
  BY StepGrowsTables DEF IInv
<1>2. \A d : HasTable(d) => HasTable(d)'
  BY <1>1, GrowKeepsTable
<1> DEFINE Old(d) == HasTable(d) \/ d = NoDef
<1>3. /\ \A n \in Names : Old(rows[n]) /\ Old(mem[n]) /\ Old(NoRows[n])
      /\ \A g \in Handlers, n \in Names : Old(snap[g][n])
  BY DEF IInv, Backed, NoRows
<1>4. SUFFICES /\ \A n \in Names : Old(rows'[n]) /\ Old(mem'[n])
               /\ \A g \in Handlers, n \in Names : Old(snap'[g][n])
  BY <1>2 DEF Backed
<1>5. ASSUME NEW h \in Handlers, UpsertProjection(h)
      PROVE  \A n \in Names : Old(rows'[n])
  <2>1. HasTable(def[h])
    BY <1>5 DEF UpsertProjection, IInv, Prepared, HasTable
  <2> QED
    BY <1>3, <1>5, <2>1 DEF UpsertProjection, IInv, TypeOK, Entries
<1>6. \A n \in Names : Old(rows'[n])
  BY <1>3, <1>5 DEF Next, Control, vars, PutProjection, PutPolicy, AdminReload, Arrives, CreateTable,
     ReadColumns, AddColumn, DuplicateColumn, Fails, UpsertPolicy, ReadProjections,
     ReadPolicies, Install, Rebuild, StatementFails, ReadCutShort, PoliciesCutShort, Restart, Rest
<1>7. \A n \in Names : Old(mem'[n])
  BY <1>3 DEF Next, Control, vars, PutProjection, PutPolicy, AdminReload, Arrives, CreateTable,
     ReadColumns, AddColumn, DuplicateColumn, Fails, UpsertProjection, UpsertPolicy,
     ReadProjections, ReadPolicies, Install, Installed, Rebuild, StatementFails,
     ReadCutShort, PoliciesCutShort, Restart, Rest
<1>8. ASSUME NEW h \in Handlers,
             \E s : (\A n \in Names : Old(s[n])) /\ snap' = [snap EXCEPT ![h] = s]
      PROVE  \A g \in Handlers, n \in Names : Old(snap'[g][n])
  BY <1>3, <1>8 DEF IInv, TypeOK
<1>9. \A g \in Handlers, n \in Names : Old(snap'[g][n])
  <2>1. ASSUME NEW h \in Handlers, Fails(h) \/ Install(h) \/ ReadProjections(h)
        PROVE  \A g \in Handlers, n \in Names : Old(snap'[g][n])
    BY <1>3, <1>8, <2>1 DEF Fails, Install, ReadProjections
  <2>2. ASSUME NEW h \in Handlers, ReadCutShort(h)
        PROVE  \A g \in Handlers, n \in Names : Old(snap'[g][n])
    BY <1>3, <1>8, <2>2 DEF ReadCutShort
  <2>3. CASE Restart
    BY <1>3, <2>3 DEF Restart
  <2>4. CASE UNCHANGED snap
    BY <1>3, <2>4
  <2> QED
    BY <2>1, <2>2, <2>3, <2>4 DEF Next, Control, vars, PutProjection, PutPolicy, AdminReload, Arrives,
       CreateTable, ReadColumns, AddColumn, DuplicateColumn, UpsertProjection, UpsertPolicy,
       ReadPolicies, Rebuild, StatementFails, PoliciesCutShort, Rest
<1> QED
  BY <1>6, <1>7, <1>9

(* A save keeps what it knows of its table while others work on it. *)
LEMMA PreparedStep ==
  ASSUME IInv, [Next]_vars, NEW g \in Handlers
  PROVE  Prepared(g)'
<1> USE DEF Goto, storeVars, tableVars, memVars, snapVars
<1>1. TablesGrow
  BY StepGrowsTables DEF IInv
<1>2. CASE UNCHANGED <<pc[g], def[g], missing[g]>>
  BY <1>1, <1>2 DEF IInv, Prepared, TablesGrow
<1>3. CASE pc'[g] \notin {"columns", "alter"}
  BY <1>3 DEF Prepared
<1>4. CASE CreateTable(g)
  BY <1>4 DEF CreateTable, Prepared, IInv, TypeOK
<1>5. CASE ReadColumns(g)
  BY <1>5 DEF ReadColumns, Missing, Prepared, IInv, TypeOK
<1>6. CASE AddColumn(g)
  <2>1. def[g] \in Definition /\ def[g].table \in Tables
    BY <1>6 DEF AddColumn, IInv, TypeOK, Definition
  <2> QED
    BY <1>6, <2>1 DEF AddColumn, Prepared, IInv, TypeOK
<1>7. ASSUME NEW h \in Handlers, h # g,
             \/ PutProjection(h) \/ PutPolicy(h) \/ AdminReload(h)
             \/ CreateTable(h) \/ ReadColumns(h) \/ AddColumn(h) \/ DuplicateColumn(h)
             \/ UpsertProjection(h) \/ UpsertPolicy(h)
             \/ ReadProjections(h) \/ ReadPolicies(h) \/ Install(h) \/ Rebuild(h)
             \/ StatementFails(h) \/ ReadCutShort(h) \/ PoliciesCutShort(h)
      PROVE  UNCHANGED <<pc[g], def[g], missing[g]>>
  BY <1>7 DEF IInv, TypeOK, PutProjection, PutPolicy, AdminReload, Arrives, CreateTable,
     ReadColumns, AddColumn, DuplicateColumn, Fails, UpsertProjection, UpsertPolicy,
     ReadProjections, ReadPolicies, Install, Rebuild, StatementFails, ReadCutShort,
     PoliciesCutShort
<1>8. CASE \/ PutProjection(g) \/ PutPolicy(g) \/ AdminReload(g) \/ DuplicateColumn(g)
           \/ UpsertProjection(g) \/ UpsertPolicy(g)
           \/ ReadProjections(g) \/ ReadPolicies(g) \/ Install(g) \/ Rebuild(g)
           \/ StatementFails(g) \/ ReadCutShort(g) \/ PoliciesCutShort(g)
  <2>1. pc'[g] \notin {"columns", "alter"}
    BY <1>8 DEF IInv, TypeOK, PutProjection, PutPolicy, AdminReload, Arrives,
       DuplicateColumn, Fails, UpsertProjection, UpsertPolicy, ReadProjections, ReadPolicies,
       Install, AfterReload, Rebuild, StatementFails, ReadCutShort, PoliciesCutShort
  <2> QED
    BY <1>3, <2>1
<1>9. CASE Restart
  BY <1>9 DEF Restart, Prepared
<1>10. CASE Rest \/ UNCHANGED vars
  BY <1>2, <1>10 DEF Rest, vars
<1> QED
  BY <1>2, <1>4, <1>5, <1>6, <1>7, <1>8, <1>9, <1>10 DEF Next, Control

-----------------------------------------------------------------------------
(* The inductive invariant of the registry holds in every reachable state.   *)
THEOREM RegistryInvariant == Spec => []IInv
<1>1. IInv /\ [Next]_vars => IInv'
  BY TypeStep, BackedStep, PreparedStep DEF IInv
<1> QED
  BY InitInv, <1>1, PTL DEF Spec

(* Every reachable state of the registry is well typed. *)
THEOREM RegistryTypeOK == Spec => []TypeOK
<1>1. IInv => TypeOK
  BY DEF IInv
<1> QED
  BY RegistryInvariant, <1>1, PTL

(* A definition that appends fold by, or queries are answered from, always   *)
(* has its table and its columns, however saves overlap, fail or restart.    *)
THEOREM RegisteredAlwaysHasTable == Spec => []RegisteredHasTable
<1>1. IInv => RegisteredHasTable
  BY DEF IInv, Backed, RegisteredHasTable
<1> QED
  BY RegistryInvariant, <1>1, PTL

-----------------------------------------------------------------------------
(***************************************************************************)
(* Memory against the tables.  A reload that is alone has read what the    *)
(* tables still say; a reload that is not alone makes the state doubtful.  *)
(***************************************************************************)
Fresh(h) ==
  alone[h] /\ Reloading(h) =>
    /\ ~OthersReloading(h)
    /\ pc[h] \in {"policies", "install"} => snap[h] = rows
    /\ pc[h] = "install" => polSnap[h] = polRows

(* A registration has stored its definition before it reloads. *)
Stored(h) ==
  /\ pc[h] \in {"idle", "policy"} => def[h] = NoDef
  /\ def[h] # NoDef /\ pc[h] \in {"read", "policies", "install", "rebuild"}
       => rows[def[h].name] # NoDef

CInv ==
  /\ \A h \in Handlers : Fresh(h)
  /\ ~doubt => \A h \in Handlers : Reloading(h) => alone[h]
  /\ ~doubt /\ (\A h \in Handlers : ~Reloading(h)) => mem = rows /\ polMem = polRows
  /\ \A h \in Handlers : Stored(h)
  /\ RebuildFindsDefinition

(* Steps that touch neither rows, memory nor any reload. *)
LEMMA CInvKept ==
  ASSUME CInv, UNCHANGED <<storeVars, memVars, snap, polSnap, alone, doubt>>,
         \A g \in Handlers :
           /\ (~Reloading(g) /\ ~Reloading(g)') \/ pc'[g] = pc[g]
           /\ Stored(g)'
           /\ pc'[g] = "rebuild" => pc[g] = "rebuild" /\ def'[g] = def[g]
  PROVE  CInv'
<1>1. \A g \in Handlers : Reloading(g)' = Reloading(g) /\ OthersReloading(g)' = OthersReloading(g)
  BY DEF Reloading, OthersReloading
<1>2. \A g \in Handlers : Fresh(g)'
  BY <1>1 DEF CInv, Fresh, Reloading, storeVars
<1> QED
  BY <1>1, <1>2 DEF CInv, storeVars, memVars, RebuildFindsDefinition

(* A step by which h begins to reload. *)
LEMMA CInvEnters ==
  ASSUME TypeOK, CInv, NEW h \in Handlers, Enters(h), ~Reloading(h),
         pc' = [pc EXCEPT ![h] = "read"], UNCHANGED <<memVars, def>>,
         Stored(h)', \A n \in Names : rows[n] # NoDef => rows'[n] # NoDef
  PROVE  CInv'
<1>1. /\ pc'[h] = "read" /\ Reloading(h)'
      /\ \A g \in Handlers \ {h} : pc'[g] = pc[g] /\ Reloading(g)' = Reloading(g)
  BY DEF TypeOK, Reloading
<1>2. \A g \in Handlers : alone'[g] <=> g = h /\ ~OthersReloading(h)
  BY ZenonT(30) DEF Enters
<1>3. OthersReloading(h)' = OthersReloading(h)
  BY <1>1 DEF OthersReloading
<1>4. \A g \in Handlers : Fresh(g)'
  BY <1>1, <1>2, <1>3 DEF Fresh
<1>5. ~doubt' => ~doubt /\ ~OthersReloading(h)
  BY ZenonT(30) DEF Enters
<1>6. ~doubt' => \A g \in Handlers : Reloading(g)' => alone'[g]
  BY <1>1, <1>2, <1>5 DEF OthersReloading
<1>7. \A g \in Handlers : Stored(g)'
  <2> SUFFICES ASSUME NEW g \in Handlers, g # h PROVE Stored(g)'
    OBVIOUS
  <2>1. def[g] # NoDef => def[g].name \in Names
    BY DEF TypeOK, Definition
  <2> QED
    BY <1>1, <2>1 DEF CInv, Stored
<1>8. RebuildFindsDefinition'
  BY <1>1, <1>5 DEF CInv, RebuildFindsDefinition, memVars
<1> QED
  BY <1>1, <1>4, <1>6, <1>7, <1>8 DEF CInv

LEMMA CInvStep ==
  ASSUME TypeOK, CInv, [Next]_vars
  PROVE  CInv'
<1> USE DEF Goto, storeVars, tableVars, memVars, snapVars
<1>1. ASSUME NEW h \in Handlers,
             \/ PutProjection(h) \/ PutPolicy(h) \/ CreateTable(h) \/ ReadColumns(h) \/ AddColumn(h)
             \/ Rebuild(h)
      PROVE  CInv'
  <2>1. UNCHANGED <<storeVars, memVars, snap, polSnap, alone, doubt>>
    BY <1>1 DEF PutProjection, PutPolicy, Arrives, CreateTable, ReadColumns, AddColumn, Rebuild
  <2>2. \A g \in Handlers \ {h} : pc'[g] = pc[g] /\ def'[g] = def[g]
    BY <1>1 DEF PutProjection, PutPolicy, Arrives, CreateTable, ReadColumns, AddColumn, Rebuild, TypeOK
  <2>3. ~Reloading(h) /\ ~Reloading(h)' /\ pc'[h] # "rebuild" /\ Stored(h)'
    BY <1>1 DEF PutProjection, PutPolicy, Arrives, CreateTable, ReadColumns, AddColumn, Rebuild,
       TypeOK, Reloading, Stored, CInv
  <2> QED
    BY <2>1, <2>2, <2>3, CInvKept DEF CInv, Stored
<1>2. ASSUME NEW h \in Handlers, AdminReload(h) PROVE CInv'
  <2>1. Stored(h)' /\ ~Reloading(h)
    BY <1>2 DEF AdminReload, Arrives, Reloading, CInv, Stored
  <2> QED
    BY <1>2, <2>1, CInvEnters DEF AdminReload, Arrives
<1>3. ASSUME NEW h \in Handlers, UpsertProjection(h) PROVE CInv'
  <2>1. def[h] \in Definition /\ def[h].name \in Names /\ def[h] # NoDef
    BY <1>3 DEF UpsertProjection, TypeOK, Definition
  <2>2. rows'[def[h].name] = def[h] /\ \A n \in Names : rows[n] # NoDef => rows'[n] # NoDef
    BY <1>3, <2>1 DEF UpsertProjection, TypeOK, Entries
  <2>3. Stored(h)' /\ ~Reloading(h)
    BY <1>3, <2>1, <2>2 DEF UpsertProjection, Reloading, Stored, TypeOK
  <2> QED
    BY <1>3, <2>2, <2>3, CInvEnters DEF UpsertProjection
<1>4. ASSUME NEW h \in Handlers, UpsertPolicy(h) PROVE CInv'
  <2>1. Stored(h)' /\ ~Reloading(h)
    BY <1>4 DEF UpsertPolicy, Reloading, CInv, Stored
  <2> QED
    BY <1>4, <2>1, CInvEnters DEF UpsertPolicy
<1>5. ASSUME NEW h \in Handlers,
             ReadProjections(h) \/ ReadPolicies(h) \/ ReadCutShort(h) \/ PoliciesCutShort(h)
      PROVE  CInv'
  <2>1. UNCHANGED <<rows, polRows, mem, polMem, def>>
    BY <1>5 DEF ReadProjections, ReadPolicies, ReadCutShort, PoliciesCutShort
  <2>2. /\ Reloading(h) /\ Reloading(h)' /\ pc'[h] # "rebuild"
        /\ \A g \in Handlers \ {h} : pc'[g] = pc[g] /\ snap'[g] = snap[g] /\ polSnap'[g] = polSnap[g]
    BY <1>5 DEF ReadProjections, ReadPolicies, ReadCutShort, PoliciesCutShort, Reloading, TypeOK
  <2>3. \A g \in Handlers : Reloading(g)' = Reloading(g) /\ OthersReloading(g)' = OthersReloading(g)
    BY <2>2 DEF Reloading, OthersReloading
  <2>4. /\ \A g \in Handlers \ {h} : alone'[g] = alone[g]
        /\ \/ alone'[h] = alone[h] /\ doubt' = doubt
           \/ ~alone'[h] /\ doubt'
    BY <1>5 DEF ReadProjections, ReadPolicies, ReadCutShort, PoliciesCutShort, TypeOK
  <2>5. Fresh(h)'
    BY <1>5, <2>1, <2>3 DEF ReadProjections, ReadPolicies, ReadCutShort, PoliciesCutShort,
       TypeOK, Fresh, CInv
  <2>6. \A g \in Handlers : Fresh(g)'
    BY <2>1, <2>2, <2>3, <2>4, <2>5 DEF Fresh, CInv
  <2>7. \A g \in Handlers : Stored(g)'
    BY <1>5, <2>1, <2>2 DEF Stored, CInv, Reloading
  <2>8. RebuildFindsDefinition'
    BY <2>1, <2>2, <2>4 DEF CInv, RebuildFindsDefinition
  <2> QED
    BY <2>1, <2>2, <2>3, <2>4, <2>6, <2>7, <2>8 DEF CInv
<1>6. ASSUME NEW h \in Handlers, Install(h) PROVE CInv'
  <2>1. /\ UNCHANGED <<rows, polRows, def, alone>>
        /\ mem' = snap[h] /\ polMem' = polSnap[h]
        /\ pc[h] = "install" /\ Reloading(h)
    BY <1>6 DEF Install, Installed, Reloading
  <2>2. /\ ~Reloading(h)' /\ (pc'[h] = "idle" => def[h] = NoDef) /\ pc'[h] \in {"idle", "rebuild"}
        /\ \A g \in Handlers \ {h} : /\ pc'[g] = pc[g] /\ snap'[g] = snap[g] /\ polSnap'[g] = polSnap[g]
                                     /\ Reloading(g)' = Reloading(g)
    BY <1>6 DEF Install, AfterReload, Reloading, TypeOK
  <2>3. \A g \in Handlers : Stored(g)'
    BY <2>1, <2>2 DEF Stored, CInv
  <2>4. doubt' <=> doubt /\ ~alone[h]
    BY <1>6, ZenonT(30) DEF Install
  <2>5. \A g \in Handlers : OthersReloading(g)' => OthersReloading(g)
    BY <2>2 DEF OthersReloading
  <2>6. \A g \in Handlers : Fresh(g)'
    BY <2>1, <2>2, <2>5 DEF Fresh, CInv, Reloading
  <2>7. ~doubt' => alone[h]
    BY <2>1, <2>4 DEF CInv
  <2>8. alone[h] => /\ mem' = rows /\ polMem' = polRows
                    /\ \A g \in Handlers : ~Reloading(g)'
    BY <2>1, <2>2 DEF CInv, Fresh, OthersReloading
  <2>9. RebuildFindsDefinition'
    <3> SUFFICES ASSUME NEW g \in Handlers, pc'[g] = "rebuild", ~doubt'
                 PROVE  mem'[def'[g].name] # NoDef
      BY DEF RebuildFindsDefinition
    <3>1. def[g] # NoDef
      BY <1>6, <2>1, <2>2 DEF TypeOK, Install, AfterReload
    <3> QED
      BY <2>1, <2>2, <2>3, <2>7, <2>8, <3>1 DEF Stored
  <2> QED
    BY <2>1, <2>3, <2>6, <2>7, <2>8, <2>9 DEF CInv
<1>7. ASSUME NEW h \in Handlers, DuplicateColumn(h) \/ StatementFails(h) PROVE CInv'
  <2>1. Fails(h) /\ UNCHANGED <<rows, polRows, mem, polMem, alone>>
    BY <1>7 DEF DuplicateColumn, StatementFails, Fails
  <2>2. /\ pc'[h] = "idle" /\ def'[h] = NoDef /\ ~Reloading(h)'
        /\ \A g \in Handlers \ {h} : /\ pc'[g] = pc[g] /\ snap'[g] = snap[g] /\ polSnap'[g] = polSnap[g]
                                     /\ def'[g] = def[g] /\ Reloading(g)' = Reloading(g)
    BY <2>1 DEF Fails, Reloading, TypeOK
  <2>3. \A g \in Handlers : Stored(g)'
    BY <2>1, <2>2 DEF Stored, CInv
  <2>4. ~doubt' => ~doubt /\ ~Reloading(h)
    BY <1>7, ZenonT(30) DEF StatementFails, DuplicateColumn, Reloading
  <2>5. \A g \in Handlers : OthersReloading(g)' => OthersReloading(g)
    BY <2>2 DEF OthersReloading
  <2>6. \A g \in Handlers : Fresh(g)'
    BY <2>1, <2>2, <2>5 DEF Fresh, CInv
  <2>7. RebuildFindsDefinition'
    BY <2>1, <2>2, <2>4 DEF CInv, RebuildFindsDefinition
  <2> QED
    BY <2>1, <2>2, <2>3, <2>4, <2>6, <2>7 DEF CInv
<1>8. CASE Restart
  <2>1. /\ UNCHANGED <<rows, polRows>> /\ mem' = rows /\ polMem' = polRows
        /\ \A g \in Handlers : pc'[g] = "idle" /\ def'[g] = NoDef
    BY <1>8 DEF Restart
  <2>2. \A g \in Handlers : ~Reloading(g)'
    BY <2>1 DEF Reloading
  <2> QED
    BY <2>1, <2>2 DEF CInv, Fresh, Stored, RebuildFindsDefinition
<1>9. CASE Rest \/ UNCHANGED vars
  <2>1. UNCHANGED vars
    BY <1>9 DEF Rest
  <2>2. \A g \in Handlers : Reloading(g)' = Reloading(g) /\ Stored(g)' = Stored(g)
    BY <2>1 DEF vars, Reloading, Stored
  <2> QED
    BY <2>1, <2>2, CInvKept DEF vars, CInv
<1> QED
  BY <1>1, <1>2, <1>3, <1>4, <1>5, <1>6, <1>7, <1>8, <1>9 DEF Next, Control

LEMMA CInvInit == Init => CInv
BY DEF Init, CInv, Fresh, Stored, Reloading, RebuildFindsDefinition, memVars, storeVars

(* The inductive invariant of reloads: one that nobody overlaps knows what   *)
(* the tables say.                                                           *)
THEOREM RegistryCurrency == Spec => []CInv
<1>1. TypeOK /\ CInv /\ [Next]_vars => CInv'
  BY CInvStep
<1> QED
  BY CInvInit, <1>1, RegistryTypeOK, PTL DEF Spec

(* Once nobody saves or reloads, memory is what the tables say, unless saves *)
(* and reloads overlapped or failed since the last reload on its own.        *)
THEOREM RegistryCurrentUnlessOverlapped == Spec => []CurrentUnlessOverlapped
<1>1. CInv => CurrentUnlessOverlapped
  BY DEF CInv, CurrentUnlessOverlapped, Quiet, Reloading
<1> QED
  BY RegistryCurrency, <1>1, PTL

(* The rebuild at the end of a registration finds what was registered.       *)
THEOREM RegistryRebuildFinds == Spec => []RebuildFindsDefinition
<1>1. CInv => RebuildFindsDefinition
  BY DEF CInv
<1> QED
  BY RegistryCurrency, <1>1, PTL

-----------------------------------------------------------------------------
(***************************************************************************)
(* How many editions a policy may have: as many as there were requests.    *)
(* The invariant counts the handlers on their way to store one.            *)
(***************************************************************************)
(* Every stored edition came with a request, and so will those on their way. *)
Waiting == {h \in Handlers : pc[h] = "policy"}
Counted ==
  /\ IsFiniteSet(Waiting) /\ served <= MaxRequests
  /\ \A k \in Policies : polRows[k] + Cardinality(Waiting) <= served
  /\ \A k \in Policies : polMem[k] <= MaxRequests /\ \A h \in Handlers : polSnap[h][k] <= MaxRequests

LEMMA CountedInit == Init => Counted
<1> SUFFICES ASSUME Init PROVE Counted
  OBVIOUS
<1>1. Waiting = {}
  BY DEF Init, Waiting
<1>2. IsFiniteSet({}) /\ Cardinality({}) = 0
  BY FS_EmptySet
<1> QED
  BY <1>1, <1>2, RegistryAssumption DEF Init, Counted, NoPols

LEMMA PolRowsBounded ==
  ASSUME TypeOK, Counted
  PROVE  \A k \in Policies : polRows[k] \in Nat /\ polRows[k] <= MaxRequests
<1>1. Cardinality(Waiting) \in Nat
  BY FS_CardinalityType DEF Counted
<1> QED
  BY <1>1, RegistryAssumption DEF Counted, TypeOK

(* Fewer waiting, and as many editions. *)
LEMMA CountedLess ==
  ASSUME TypeOK, Counted, Waiting' \subseteq Waiting, UNCHANGED polRows,
         served' \in {served, served + 1}, served' <= MaxRequests
  PROVE  /\ IsFiniteSet(Waiting') /\ served' <= MaxRequests
         /\ \A k \in Policies : polRows'[k] + Cardinality(Waiting') <= served'
<1>1. /\ IsFiniteSet(Waiting') /\ Cardinality(Waiting') <= Cardinality(Waiting)
      /\ Cardinality(Waiting') \in Nat /\ Cardinality(Waiting) \in Nat
  BY FS_Subset, FS_CardinalityType DEF Counted
<1> DEFINE m == Cardinality(Waiting')
           n == Cardinality(Waiting)
<1>2. m \in Nat /\ n \in Nat /\ m <= n /\ \A k \in Policies : polRows[k] \in Nat /\ polRows[k] + n <= served
  BY <1>1 DEF Counted, TypeOK
<1> HIDE DEF m, n
<1>3. \A k \in Policies : polRows[k] + m <= served'
  BY <1>2 DEF TypeOK
<1> QED
  BY <1>1, <1>3 DEF m

LEMMA CountedStep ==
  ASSUME TypeOK, TypeOK', Counted, [Next]_vars
  PROVE  Counted'
<1> USE RegistryAssumption DEF storeVars, memVars, snapVars, Goto
<1>1. ASSUME NEW h \in Handlers, PutPolicy(h)
      PROVE  Counted'
  <2>1. /\ Waiting' = Waiting \cup {h} /\ h \notin Waiting
        /\ UNCHANGED <<polRows, polMem, polSnap>> /\ served < MaxRequests /\ served' = served + 1
    BY <1>1 DEF PutPolicy, Arrives, TypeOK, Waiting
  <2>2. IsFiniteSet(Waiting') /\ Cardinality(Waiting') = Cardinality(Waiting) + 1 /\ Cardinality(Waiting) \in Nat
    BY <2>1, FS_AddElement, FS_CardinalityType DEF Counted
  <2> DEFINE m == Cardinality(Waiting')
             n == Cardinality(Waiting)
  <2>3. m = n + 1 /\ n \in Nat /\ \A k \in Policies : polRows[k] \in Nat /\ polRows[k] + n <= served
    BY <2>2 DEF Counted, TypeOK
  <2> HIDE DEF m, n
  <2>4. \A k \in Policies : polRows[k] + m <= served + 1
    BY <2>3 DEF TypeOK
  <2>5. served + 1 <= MaxRequests
    BY <2>1 DEF TypeOK
  <2> QED
    BY <2>1, <2>2, <2>4, <2>5 DEF Counted, m
<1>2. ASSUME NEW h \in Handlers, UpsertPolicy(h)
      PROVE  Counted'
  <2>1. PICK p \in Policies : polRows' = [polRows EXCEPT ![p] = @ + 1]
    BY <1>2 DEF UpsertPolicy
  <2>2. /\ Waiting' = Waiting \ {h} /\ h \in Waiting
        /\ UNCHANGED <<polMem, polSnap, served>>
    BY <1>2 DEF UpsertPolicy, TypeOK, Waiting
  <2>3. IsFiniteSet(Waiting') /\ Cardinality(Waiting') = Cardinality(Waiting) - 1 /\ Cardinality(Waiting) \in Nat
    BY <2>2, FS_RemoveElement, FS_CardinalityType DEF Counted
  <2> DEFINE m == Cardinality(Waiting')
             n == Cardinality(Waiting)
  <2>4. m = n - 1 /\ n \in Nat /\ \A k \in Policies : polRows[k] \in Nat /\ polRows[k] + n <= served
    BY <2>3 DEF Counted, TypeOK
  <2>5. \A k \in Policies : polRows'[k] \in {polRows[k], polRows[k] + 1}
    BY <2>1 DEF TypeOK
  <2> HIDE DEF m, n
  <2>6. \A k \in Policies : polRows'[k] + m <= served
    BY <2>4, <2>5 DEF TypeOK
  <2> QED
    BY <2>2, <2>3, <2>6 DEF Counted, m
<1>3. ASSUME Waiting' \subseteq Waiting, UNCHANGED polRows,
             served' \in {served, served + 1}, served' <= MaxRequests,
             \A k \in Policies : polMem'[k] <= MaxRequests /\ \A h \in Handlers : polSnap'[h][k] <= MaxRequests
      PROVE  Counted'
  BY <1>3, CountedLess DEF Counted
<1>4. \A k \in Policies :
        /\ 0 <= MaxRequests /\ polRows[k] <= MaxRequests /\ polMem[k] <= MaxRequests
        /\ NoPols[k] <= MaxRequests /\ \A h \in Handlers : polSnap[h][k] <= MaxRequests
  BY PolRowsBounded DEF Counted, NoPols
<1>5. served <= MaxRequests /\ (served < MaxRequests => served + 1 <= MaxRequests)
  BY DEF Counted, TypeOK
<1>6. ASSUME NEW h \in Handlers, PutProjection(h) \/ AdminReload(h)
      PROVE  Counted'
  <2>1. /\ served < MaxRequests /\ served' = served + 1 /\ UNCHANGED <<polRows, polMem, polSnap>>
        /\ Waiting' \subseteq Waiting
    BY <1>6 DEF PutProjection, AdminReload, Arrives, TypeOK, Waiting
  <2> QED
    BY <1>3, <1>4, <1>5, <2>1
<1>7. ASSUME NEW h \in Handlers, Fails(h)
      PROVE  Counted'
  <2>1. /\ UNCHANGED <<polRows, polMem, served>> /\ Waiting' \subseteq Waiting
        /\ polSnap' = [polSnap EXCEPT ![h] = NoPols]
    BY <1>7 DEF Fails, TypeOK, Waiting
  <2>2. \A k \in Policies, g \in Handlers : polSnap'[g][k] <= MaxRequests
    BY <1>4, <2>1 DEF TypeOK
  <2> QED
    BY <1>3, <1>4, <1>5, <2>1, <2>2
<1>8. ASSUME NEW h \in Handlers, ReadPolicies(h) \/ PoliciesCutShort(h)
      PROVE  Counted'
  <2>1. UNCHANGED <<polRows, polMem, served>> /\ Waiting' \subseteq Waiting
    BY <1>8 DEF ReadPolicies, PoliciesCutShort, TypeOK, Waiting
  <2>2. PICK S \in SUBSET Policies :
          polSnap' = [polSnap EXCEPT ![h] = [k \in Policies |-> IF k \in S THEN polRows[k] ELSE 0]]
    <3>1. CASE ReadPolicies(h)
      <4>1. polSnap' = [polSnap EXCEPT ![h] = polRows]
        BY <3>1 DEF ReadPolicies
      <4>2. polRows = [k \in Policies |-> IF k \in Policies THEN polRows[k] ELSE 0]
        BY DEF TypeOK
      <4> QED
        BY <4>1, <4>2
    <3>2. CASE PoliciesCutShort(h)
      BY <3>2 DEF PoliciesCutShort
    <3> QED
      BY <1>8, <3>1, <3>2
  <2>3. \A k \in Policies, g \in Handlers : polSnap'[g][k] <= MaxRequests
    BY <1>4, <2>2 DEF TypeOK
  <2> QED
    BY <1>3, <1>4, <1>5, <2>1, <2>3
<1>9. ASSUME NEW h \in Handlers, Install(h)
      PROVE  Counted'
  <2>1. /\ UNCHANGED <<polRows, served>> /\ Waiting' \subseteq Waiting
        /\ polMem' = polSnap[h] /\ polSnap' = [polSnap EXCEPT ![h] = NoPols]
    BY <1>9 DEF Install, Installed, AfterReload, TypeOK, Waiting
  <2>2. \A k \in Policies : polMem'[k] <= MaxRequests /\ \A g \in Handlers : polSnap'[g][k] <= MaxRequests
    BY <1>4, <2>1 DEF TypeOK
  <2> QED
    BY <1>3, <1>4, <1>5, <2>1, <2>2
<1>10. CASE Restart
  <2>1. /\ UNCHANGED <<polRows, served>> /\ Waiting' \subseteq Waiting
        /\ polMem' = polRows /\ \A h \in Handlers : polSnap'[h] = NoPols
    BY <1>10 DEF Restart, Waiting
  <2> QED
    BY <1>3, <1>4, <1>5, <2>1
<1>11. CASE UNCHANGED vars
  BY <1>3, <1>4, <1>5, <1>11 DEF vars, Waiting
<1>12. ASSUME NEW h \in Handlers,
              \/ CreateTable(h) \/ ReadColumns(h) \/ AddColumn(h) \/ UpsertProjection(h)
              \/ ReadProjections(h) \/ Rebuild(h) \/ ReadCutShort(h)
       PROVE  Counted'
  <2>1. UNCHANGED <<polRows, polMem, polSnap, served>> /\ Waiting' \subseteq Waiting
    BY <1>12 DEF CreateTable, ReadColumns, AddColumn, UpsertProjection, ReadProjections, Rebuild,
       ReadCutShort, TypeOK, Waiting
  <2> QED
    BY <1>3, <1>4, <1>5, <2>1
<1>13. \A h \in Handlers : DuplicateColumn(h) \/ StatementFails(h) => Fails(h)
  BY DEF DuplicateColumn, StatementFails
<1> QED
  BY <1>1, <1>2, <1>6, <1>7, <1>8, <1>9, <1>10, <1>11, <1>12, <1>13 DEF Next, Control, Rest

-----------------------------------------------------------------------------
(***************************************************************************)
(* Query: a query and the policy it runs under, beside any number of       *)
(* saves, reloads, failures and restarts.                                  *)
(***************************************************************************)
Set(d)    == since[d] # NoDef
Sent(entries) == \A n \in Names : entries[n] # NoDef => entries[n] \in Definitions /\ Set(entries[n])

(* Every definition that is stored, read or installed was sent by somebody,  *)
(* and it is known which policies there were when it was first stored.       *)
Dated ==
  /\ \A d \in Definitions : Set(d) => \A k \in Policies : since[d][k] <= polRows[k]
  /\ \A h \in Handlers : def[h] # NoDef => def[h] \in Definitions
  /\ Sent(rows) /\ Sent(mem) /\ \A h \in Handlers : Sent(snap[h])

(* A reload that has read both tables has policies at least as new as its    *)
(* definitions, since it read the policies last.                             *)
Ordered ==
  ~cut => \A h \in Handlers : pc[h] = "install" =>
            \A n \in Names : snap[h][n] # NoDef => NotOlder(polSnap[h], snap[h][n])

(* A query between its lookups. *)
Between(q) ==
  /\ qpc[q] \in {"policy", "execute"} => found[q] \in Definitions /\ Set(found[q])
  /\ qpc[q] = "policy" /\ ~relapsed[q] /\ ~cut => NotOlder(polMem, found[q])
  /\ qpc[q] = "idle" => ~relapsed[q]

QInv ==
  /\ QTypeOK /\ Dated /\ Ordered /\ MemoryInStep
  /\ \A q \in Sessions : Between(q)
  /\ PolicyNotOlder

USE RegistryAssumption, QueryAssumption

-----------------------------------------------------------------------------
LEMMA QInitQInv == QInit => QInv
<1> SUFFICES ASSUME QInit PROVE QInv
  OBVIOUS
<1>1. QTypeOK
  BY DEF QInit, QTypeOK
<1>2. Dated /\ Ordered /\ MemoryInStep
  BY DEF QInit, Init, Dated, Ordered, MemoryInStep, Set, Sent, NoRows
<1>3. (\A q \in Sessions : Between(q)) /\ PolicyNotOlder
  BY DEF QInit, Between, PolicyNotOlder
<1> QED
  BY <1>1, <1>2, <1>3 DEF QInv

(* Editions only grow. *)
LEMMA PoliciesGrow ==
  ASSUME TypeOK, Control \/ Restart \/ Rest
  PROVE  \A k \in Policies : polRows[k] <= polRows'[k]
<1>1. CASE \E h \in Handlers : UpsertPolicy(h)
  BY <1>1 DEF UpsertPolicy, TypeOK
<1>2. CASE polRows' = polRows
  BY <1>2 DEF TypeOK
<1> QED
  BY <1>1, <1>2 DEF Control, PutProjection, PutPolicy, AdminReload, Arrives, CreateTable, ReadColumns,
     AddColumn, DuplicateColumn, Fails, UpsertProjection, ReadProjections, ReadPolicies, Install,
     Rebuild, StatementFails, ReadCutShort, PoliciesCutShort, Restart, Rest, storeVars, vars

(* What Manage does to the history. *)
LEMMA ManageDates ==
  ASSUME TypeOK, TypeOK', QInv, Manage
  PROVE  /\ since' \in [Definitions -> [Policies -> Nat] \cup {NoDef}]
         /\ \A d \in Definitions : Set(d) => since'[d] = since[d]
         /\ \A d \in Definitions : ~Set(d) /\ since'[d] # NoDef => since'[d] = polRows'
         /\ \A d \in Definitions, n \in Names : rows'[n] = d => since'[d] # NoDef
<1>1. since' = [d \in Definitions |->
                 IF since[d] = NoDef /\ \E n \in Names : rows'[n] = d THEN polRows' ELSE since[d]]
  BY DEF Manage
<1>2. polRows' \in [Policies -> Nat]
  BY DEF TypeOK
<1>3. polRows' # NoDef
  BY <1>2
<1>4. since' \in [Definitions -> [Policies -> Nat] \cup {NoDef}]
  BY <1>1, <1>2 DEF QInv, QTypeOK
<1> QED
  BY <1>1, <1>3, <1>4 DEF Set

-----------------------------------------------------------------------------
(* The control plane keeps the history in order. *)
LEMMA ManageDated ==
  ASSUME IInv, TypeOK', QInv, Manage
  PROVE  Dated'
<1> USE DEF Goto, storeVars, tableVars, memVars, snapVars
<1>0. TypeOK /\ Dated /\ Control
  BY DEF IInv, QInv, Manage
<1>1. \A d \in Definitions : since'[d] # NoDef => \A k \in Policies : since'[d][k] <= polRows'[k]
  <2> SUFFICES ASSUME NEW d \in Definitions, since'[d] # NoDef, NEW k \in Policies
               PROVE  since'[d][k] <= polRows'[k]
    OBVIOUS
  <2>1. polRows[k] \in Nat /\ polRows'[k] \in Nat /\ polRows[k] <= polRows'[k]
    BY <1>0, PoliciesGrow DEF TypeOK
  <2>2. CASE Set(d)
    <3>1. since'[d] = since[d] /\ since[d][k] <= polRows[k]
      BY <1>0, <2>2, ManageDates DEF Dated
    <3>2. since[d][k] \in Nat
      BY <2>2 DEF QInv, QTypeOK, Set
    <3> QED
      BY <2>1, <3>1, <3>2
  <2>3. CASE ~Set(d)
    BY <1>0, <2>1, <2>3, ManageDates
  <2> QED
    BY <2>2, <2>3
<1>2. \A h \in Handlers : def'[h] # NoDef => def'[h] \in Definitions
  BY <1>0 DEF Dated, Control, TypeOK, PutProjection, PutPolicy, AdminReload, Arrives, CreateTable,
     ReadColumns, AddColumn, DuplicateColumn, Fails, UpsertProjection, UpsertPolicy, ReadProjections,
     ReadPolicies, Install, Rebuild, StatementFails, ReadCutShort, PoliciesCutShort
<1> DEFINE Old(d) == d # NoDef => d \in Definitions /\ since'[d] # NoDef
<1>3. /\ \A n \in Names : Old(rows[n]) /\ Old(mem[n]) /\ Old(NoRows[n])
      /\ \A g \in Handlers, n \in Names : Old(snap[g][n])
  BY <1>0, ManageDates DEF Dated, Sent, Set, NoRows
<1>4. \A n \in Names : rows'[n] # NoDef => rows'[n] \in Definitions
  <2>1. ASSUME NEW h \in Handlers, UpsertProjection(h)
        PROVE  \A n \in Names : rows'[n] # NoDef => rows'[n] \in Definitions
    <3>1. def[h] \in Definitions
      BY <1>0, <2>1 DEF UpsertProjection, TypeOK, Dated
    <3> QED
      BY <1>0, <2>1, <3>1 DEF UpsertProjection, TypeOK, Entries, Dated, Sent
  <2>2. CASE rows' = rows
    BY <1>0, <2>2 DEF Dated, Sent
  <2> QED
    BY <1>0, <2>1, <2>2 DEF Control, PutProjection, PutPolicy, AdminReload, Arrives, CreateTable,
       ReadColumns, AddColumn, DuplicateColumn, Fails, UpsertPolicy, ReadProjections, ReadPolicies,
       Install, Rebuild, StatementFails, ReadCutShort, PoliciesCutShort
<1>5. \A n \in Names : Old(rows'[n])
  <2> SUFFICES ASSUME NEW n \in Names, rows'[n] # NoDef PROVE Old(rows'[n])
    OBVIOUS
  <2>1. rows'[n] \in Definitions
    BY <1>4
  <2> QED
    BY <1>0, <2>1, ManageDates
<1>6. \A n \in Names : Old(mem'[n])
  BY <1>0, <1>3 DEF Control, PutProjection, PutPolicy, AdminReload, Arrives, CreateTable,
     ReadColumns, AddColumn, DuplicateColumn, Fails, UpsertProjection, UpsertPolicy,
     ReadProjections, ReadPolicies, Install, Installed, Rebuild, StatementFails,
     ReadCutShort, PoliciesCutShort
<1>7. ASSUME NEW h \in Handlers,
             \E s : (\A n \in Names : Old(s[n])) /\ snap' = [snap EXCEPT ![h] = s]
      PROVE  \A g \in Handlers, n \in Names : Old(snap'[g][n])
  BY <1>0, <1>3, <1>7 DEF TypeOK
<1>8. \A g \in Handlers, n \in Names : Old(snap'[g][n])
  <2>1. ASSUME NEW h \in Handlers, Fails(h) \/ Install(h) \/ ReadProjections(h)
        PROVE  \A g \in Handlers, n \in Names : Old(snap'[g][n])
    BY <1>3, <1>7, <2>1 DEF Fails, Install, ReadProjections
  <2>2. ASSUME NEW h \in Handlers, ReadCutShort(h)
        PROVE  \A g \in Handlers, n \in Names : Old(snap'[g][n])
    BY <1>3, <1>7, <2>2 DEF ReadCutShort
  <2>3. CASE UNCHANGED snap
    BY <1>3, <2>3
  <2> QED
    BY <1>0, <2>1, <2>2, <2>3 DEF Control, PutProjection, PutPolicy, AdminReload, Arrives,
       CreateTable, ReadColumns, AddColumn, DuplicateColumn, UpsertProjection, UpsertPolicy,
       ReadPolicies, Rebuild, StatementFails, PoliciesCutShort
<1> QED
  BY <1>1, <1>2, <1>5, <1>6, <1>8 DEF Dated, Sent, Set

LEMMA ManageOrdered ==
  ASSUME IInv, TypeOK', QInv, Manage
  PROVE  Ordered' /\ MemoryInStep'
<1> USE DEF Goto, storeVars, tableVars, memVars, snapVars
<1>0. TypeOK /\ Dated /\ Control /\ (~cut' => ~cut)
  BY ZenonT(30) DEF IInv, QInv, Manage
<1>1. \A d \in Definitions : Set(d) => since'[d] = since[d]
  BY <1>0, ManageDates
<1>2. ASSUME ~cut', NEW h \in Handlers, pc'[h] = "install", NEW n \in Names, snap'[h][n] # NoDef,
             NEW k \in Policies
      PROVE  since'[snap'[h][n]][k] <= polSnap'[h][k]
  <2>1. CASE ReadPolicies(h)
    <3>1. snap'[h] = snap[h] /\ polSnap'[h] = polRows
      BY <1>0, <2>1 DEF ReadPolicies, TypeOK
    <3> QED
      BY <1>0, <1>1, <1>2, <3>1 DEF Dated, Sent
  <2>2. CASE ~ReadPolicies(h)
    <3>1. pc[h] = "install" /\ snap'[h] = snap[h] /\ polSnap'[h] = polSnap[h]
      <4>1. ~\E g \in Handlers : PoliciesCutShort(g)
        BY <1>2, ZenonT(30) DEF Manage
      <4> QED
        BY <1>0, <1>2, <2>2, <4>1 DEF Control, TypeOK, PutProjection, PutPolicy, AdminReload, Arrives,
           CreateTable, ReadColumns, AddColumn, DuplicateColumn, Fails, UpsertProjection, UpsertPolicy,
           ReadProjections, ReadPolicies, Install, AfterReload, Rebuild, StatementFails, ReadCutShort
    <3> QED
      BY <1>0, <1>1, <1>2, <3>1 DEF QInv, Ordered, NotOlder, Dated, Sent
  <2> QED
    BY <2>1, <2>2
<1>3. ASSUME ~cut', NEW n \in Names, mem'[n] # NoDef, NEW k \in Policies
      PROVE  since'[mem'[n]][k] <= polMem'[k]
  <2>1. ASSUME NEW h \in Handlers, Install(h)
        PROVE  since'[mem'[n]][k] <= polMem'[k]
    BY <1>0, <1>1, <1>3, <2>1 DEF Install, Installed, QInv, Ordered, NotOlder, Dated, Sent
  <2>2. CASE mem' = mem /\ polMem' = polMem
    BY <1>0, <1>1, <1>3, <2>2 DEF QInv, MemoryInStep, NotOlder, Dated, Sent
  <2> QED
    BY <1>0, <2>1, <2>2 DEF Control, PutProjection, PutPolicy, AdminReload, Arrives,
       CreateTable, ReadColumns, AddColumn, DuplicateColumn, Fails, UpsertProjection, UpsertPolicy,
       ReadProjections, ReadPolicies, Rebuild, StatementFails, ReadCutShort, PoliciesCutShort
<1> QED
  BY <1>2, <1>3 DEF Ordered, MemoryInStep, NotOlder

LEMMA ManageSessions ==
  ASSUME IInv, TypeOK', QInv, Manage
  PROVE  (\A q \in Sessions : Between(q)') /\ PolicyNotOlder'
<1>0. TypeOK /\ (~cut' => ~cut) /\ UNCHANGED <<qpc, caller, found, policy, edition>>
  BY ZenonT(30) DEF IInv, QInv, Manage
<1>1. \A d \in Definitions : Set(d) => since'[d] = since[d] /\ since'[d] # NoDef
  BY <1>0, ManageDates DEF Set
<1>2. ASSUME NEW q \in Sessions
      PROVE  /\ qpc[q] = "idle" => ~relapsed'[q]
             /\ qpc[q] = "policy" /\ ~relapsed'[q] => ~relapsed[q] /\ ~Relapse
             /\ qpc[q] = "execute" /\ ~relapsed'[q] => ~relapsed[q]
  <2>1. relapsed'[q] <=> qpc[q] # "idle" /\ (relapsed[q] \/ (qpc[q] = "policy" /\ Relapse))
    BY ZenonT(30) DEF Manage
  <2> QED
    BY <2>1
<1>3. ASSUME NEW q \in Sessions PROVE Between(q)'
  <2>1. Between(q)
    BY DEF QInv
  <2>2. ASSUME qpc[q] = "policy", ~relapsed'[q], ~cut', NEW k \in Policies
        PROVE  since'[found[q]][k] <= polMem'[k]
    <3>1. found[q] \in Definitions /\ Set(found[q]) /\ since[found[q]][k] <= polMem[k]
      BY <1>0, <1>2, <2>1, <2>2 DEF Between, NotOlder
    <3>2. polMem[k] <= polMem'[k]
      BY <1>0, <1>2, <2>2 DEF Relapse, TypeOK
    <3>3. since[found[q]][k] \in Nat /\ polMem[k] \in Nat /\ polMem'[k] \in Nat
      BY <1>0, <3>1 DEF QInv, QTypeOK, Set, TypeOK
    <3> QED
      BY <1>1, <3>1, <3>2, <3>3
  <2> QED
    BY <1>0, <1>1, <1>2, <2>1, <2>2 DEF Between, NotOlder, Set
<1>4. PolicyNotOlder'
  <2> SUFFICES ASSUME NEW q \in Sessions, qpc[q] = "execute", ~relapsed'[q], ~cut'
               PROVE  LET then == since'[found[q]]
                          own  == Key(found[q].name, caller[q].role)
                      IN /\ then[policy[q]] <= edition[q]
                         /\ caller[q].role # NoRole /\ own \in Policies /\ then[own] > 0 => policy[q] = own
    BY <1>0 DEF PolicyNotOlder
  <2>1. since'[found[q]] = since[found[q]]
    BY <1>1 DEF QInv, Between
  <2> QED
    BY <1>0, <1>2, <2>1 DEF QInv, PolicyNotOlder
<1> QED
  BY <1>3, <1>4

LEMMA ManageQInv ==
  ASSUME IInv, TypeOK', QInv, Manage
  PROVE  QInv'
<1>1. QTypeOK'
  <2>1. TypeOK /\ QTypeOK /\ UNCHANGED <<qpc, caller, found, policy, edition>>
    BY DEF IInv, QInv, Manage
  <2>2. relapsed' \in [Sessions -> BOOLEAN]
    BY ZenonT(30) DEF Manage
  <2>3. cut' \in BOOLEAN
    BY <2>1, ZenonT(30) DEF Manage, QTypeOK
  <2>4. since' \in [Definitions -> [Policies -> Nat] \cup {NoDef}]
    BY <2>1, ManageDates
  <2> QED
    BY <2>1, <2>2, <2>3, <2>4 DEF QTypeOK
<1> QED
  BY <1>1, ManageDated, ManageOrdered, ManageSessions DEF QInv

LEMMA RestartQInv ==
  ASSUME IInv, QInv, QRestart
  PROVE  QInv'
<1>1. /\ UNCHANGED <<rows, polRows, since>> /\ mem' = rows /\ polMem' = polRows
      /\ cut' = cut
      /\ \A h \in Handlers : pc'[h] = "idle" /\ def'[h] = NoDef /\ snap'[h] = NoRows
  BY DEF QRestart, Restart, storeVars, histVars
<1>2. /\ qpc' = [q \in Sessions |-> "idle"] /\ relapsed' = [q \in Sessions |-> FALSE]
      /\ caller' = [q \in Sessions |-> NoDef] /\ found' = [q \in Sessions |-> NoDef]
      /\ policy' = [q \in Sessions |-> NoDef] /\ edition' = [q \in Sessions |-> 0]
  BY DEF QRestart
<1>3. QTypeOK'
  <2>1. qpc' \in [Sessions -> {"idle", "policy", "execute"}] /\ relapsed' \in [Sessions -> BOOLEAN]
    BY <1>2
  <2>2. /\ caller' \in [Sessions -> Callers \cup {NoDef}] /\ edition' \in [Sessions -> Nat]
        /\ found' \in [Sessions -> Definition \cup {NoDef}]
        /\ policy' \in [Sessions -> Policies \cup {NoDef}]
    BY <1>2
  <2>3. cut' \in BOOLEAN /\ since' \in [Definitions -> [Policies -> Nat] \cup {NoDef}]
    BY <1>1 DEF QInv, QTypeOK
  <2>4. \A q \in Sessions : qpc'[q] = "idle"
    BY <1>2
  <2> QED
    BY <2>1, <2>2, <2>3, <2>4 DEF QTypeOK
<1>4. Dated' /\ Ordered' /\ MemoryInStep'
  BY <1>1 DEF QInv, Dated, Sent, Set, Ordered, MemoryInStep, NotOlder, NoRows
<1>5. (\A q \in Sessions : Between(q)') /\ PolicyNotOlder'
  BY <1>2 DEF Between, PolicyNotOlder
<1> QED
  BY <1>3, <1>4, <1>5 DEF QInv

(* A query's own step, or a step that touches nothing, leaves the registry   *)
(* and the history.                                                          *)
LEMMA StillQInv ==
  ASSUME QInv, UNCHANGED <<vars, histVars>>
  PROVE  Dated' /\ Ordered' /\ MemoryInStep'
BY DEF QInv, vars, histVars, storeVars, tableVars, memVars, snapVars, Dated, Sent, Set, Ordered,
   MemoryInStep, NotOlder

LEMMA SessionQInv ==
  ASSUME IInv, QInv, NEW q \in Sessions, Lookup(q) \/ FindPolicy(q) \/ Forbidden(q) \/ Execute(q)
  PROVE  QInv'
<1>0. TypeOK /\ QTypeOK /\ Dated /\ MemoryInStep /\ Between(q)
  BY DEF IInv, QInv
<1>1. UNCHANGED <<vars, histVars>>
  BY DEF Lookup, FindPolicy, Forbidden, Execute
<1>2. UNCHANGED <<polMem, since, cut>>
  BY <1>1 DEF vars, histVars, memVars
<1>3. \A p \in Sessions \ {q} :
         /\ qpc'[p] = qpc[p] /\ caller'[p] = caller[p] /\ found'[p] = found[p]
         /\ policy'[p] = policy[p] /\ edition'[p] = edition[p] /\ relapsed'[p] = relapsed[p]
  BY <1>0 DEF QTypeOK, Lookup, FindPolicy, Forbidden, Execute, Leaves
<1>4. SUFFICES QTypeOK' /\ Between(q)' /\ (qpc'[q] = "execute" =>
                 /\ ~relapsed'[q] /\ ~cut =>
                      LET then == since[found'[q]]
                          own  == Key(found'[q].name, caller'[q].role)
                      IN /\ then[policy'[q]] <= edition'[q]
                         /\ caller'[q].role # NoRole /\ own \in Policies /\ then[own] > 0
                              => policy'[q] = own)
  <2>1. \A p \in Sessions : Between(p)'
    BY <1>2, <1>3, <1>4 DEF QInv, Between, Set, NotOlder
  <2>2. PolicyNotOlder'
    BY <1>2, <1>3, <1>4 DEF QInv, PolicyNotOlder
  <2> QED
    BY <1>1, <1>4, <2>1, <2>2, StillQInv DEF QInv
<1>5. CASE Lookup(q)
  <2>1. PICK n \in Names, c \in Callers :
          /\ mem[n] # NoDef
          /\ caller' = [caller EXCEPT ![q] = c]
          /\ found' = [found EXCEPT ![q] = mem[n]]
    BY <1>5 DEF Lookup
  <2>2. /\ qpc[q] = "idle" /\ qpc' = [qpc EXCEPT ![q] = "policy"]
        /\ UNCHANGED <<policy, edition, relapsed>>
    BY <1>5 DEF Lookup
  <2>3. /\ mem[n] \in Definition /\ mem[n] \in Definitions /\ Set(mem[n])
    BY <1>0, <2>1 DEF Dated, Sent
  <2>4. c # NoDef
    BY <2>1
  <2>5. QTypeOK'
    BY <1>0, <1>2, <2>1, <2>2, <2>3, <2>4 DEF QTypeOK
  <2>6. Between(q)'
    BY <1>0, <1>2, <2>1, <2>2, <2>3 DEF QTypeOK, Between, Set, NotOlder, MemoryInStep
  <2> QED
    BY <1>0, <2>2, <2>5, <2>6 DEF QTypeOK
<1>6. CASE FindPolicy(q)
  <2> DEFINE k == PolicyFor(found[q].name, caller[q].role)
  <2>1. /\ qpc[q] = "policy" /\ polMem[k] > 0
        /\ policy' = [policy EXCEPT ![q] = k] /\ edition' = [edition EXCEPT ![q] = polMem[k]]
        /\ qpc' = [qpc EXCEPT ![q] = "execute"] /\ UNCHANGED <<caller, found, relapsed>>
    BY <1>6 DEF FindPolicy
  <2>2. found[q] \in Definition /\ found[q].name \in Names
    BY <1>0, <2>1 DEF QTypeOK, Definition
  <2>3. k \in Policies
    BY <2>2 DEF PolicyFor
  <2>4. polMem[k] \in Nat
    BY <1>0, <2>3 DEF TypeOK
  <2>5. k # NoDef
    BY <2>3
  <2>6. QTypeOK'
    BY <1>0, <1>2, <2>1, <2>3, <2>4, <2>5 DEF QTypeOK
  <2>7. Between(q)'
    BY <1>0, <1>2, <2>1 DEF QTypeOK, Between, Set
  <2>8. ASSUME ~relapsed[q], ~cut
        PROVE  LET then == since[found[q]]
                   own  == Key(found[q].name, caller[q].role)
               IN /\ then[k] <= polMem[k]
                  /\ caller[q].role # NoRole /\ own \in Policies /\ then[own] > 0 => k = own
    <3>1. \A p \in Policies : since[found[q]][p] <= polMem[p]
      BY <1>0, <2>1, <2>8 DEF Between, NotOlder
    <3>2. \A p \in Policies : since[found[q]][p] \in Nat /\ polMem[p] \in Nat
      BY <1>0, <2>1 DEF Between, Set, QTypeOK, TypeOK
    <3> QED
      BY <2>3, <3>1, <3>2 DEF PolicyFor
  <2> QED
    BY <1>0, <1>2, <2>1, <2>6, <2>7, <2>8 DEF QTypeOK
<1>7. CASE Forbidden(q) \/ Execute(q)
  <2>1. Leaves(q)
    BY <1>7 DEF Forbidden, Execute
  <2>2. relapsed' \in [Sessions -> BOOLEAN] /\ ~relapsed'[q]
    BY <1>0, <2>1 DEF Leaves, QTypeOK
  <2>3. qpc'[q] = "idle"
    BY <1>0, <2>1 DEF Leaves, QTypeOK
  <2>4. QTypeOK'
    BY <1>0, <1>2, <2>1, <2>2 DEF Leaves, QTypeOK
  <2> QED
    BY <2>2, <2>3, <2>4 DEF Between
<1> QED
  BY <1>5, <1>6, <1>7

-----------------------------------------------------------------------------
LEMMA QStepIsStep == [QNext]_qvars => [Next]_vars
<1>1. Manage => Control
  BY DEF Manage
<1>2. QRestart => Restart
  BY DEF QRestart
<1>3. \A q \in Sessions : Lookup(q) \/ FindPolicy(q) \/ Forbidden(q) \/ Execute(q) => UNCHANGED vars
  BY DEF Lookup, FindPolicy, Forbidden, Execute
<1>4. UNCHANGED qvars => UNCHANGED vars
  BY DEF qvars
<1> QED
  BY <1>1, <1>2, <1>3, <1>4 DEF QNext, Next

LEMMA IdleQInv ==
  ASSUME QInv, UNCHANGED <<vars, sessionVars, histVars>>
  PROVE  QInv'
<1>1. UNCHANGED <<qpc, caller, found, policy, edition, relapsed, polMem, since, cut>>
  BY DEF sessionVars, histVars, vars, memVars
<1>2. QTypeOK'
  BY <1>1 DEF QInv, QTypeOK
<1>3. (\A q \in Sessions : Between(q)') /\ PolicyNotOlder'
  BY <1>1 DEF QInv, Between, Set, NotOlder, PolicyNotOlder
<1> QED
  BY <1>2, <1>3, StillQInv DEF QInv

LEMMA QStep == IInv /\ QInv /\ [QNext]_qvars => IInv' /\ QInv'
<1> SUFFICES ASSUME IInv, QInv, [QNext]_qvars PROVE IInv' /\ QInv'
  OBVIOUS
<1>1. IInv'
  BY QStepIsStep, TypeStep, BackedStep, PreparedStep DEF IInv
<1>2. CASE Manage
  BY <1>1, <1>2, ManageQInv DEF IInv
<1>3. CASE QRestart
  BY <1>1, <1>3, RestartQInv
<1>4. CASE (Rest /\ UNCHANGED <<sessionVars, histVars>>) \/ UNCHANGED qvars
  BY <1>1, <1>4, IdleQInv DEF Rest, qvars
<1>5. CASE \E q \in Sessions : Lookup(q) \/ FindPolicy(q) \/ Forbidden(q) \/ Execute(q)
  BY <1>1, <1>5, SessionQInv
<1> QED
  BY <1>1, <1>2, <1>3, <1>4, <1>5 DEF QNext

(* The inductive invariant of queries beside the control plane. *)
THEOREM QueryInvariant == QSpec => [](IInv /\ QInv)
<1>1. QInit => IInv /\ QInv
  BY InitInv, QInitQInv DEF QInit
<1> QED
  BY <1>1, QStep, PTL DEF QSpec

(* Sessions are well typed, and none executes without a policy. *)
THEOREM QueryTypeOK == QSpec => []QTypeOK
<1>1. QInv => QTypeOK
  BY DEF QInv
<1> QED
  BY QueryInvariant, <1>1, PTL

(* Memory never pairs a definition with an older edition of a policy than    *)
(* was stored before it.                                                     *)
THEOREM QueryMemoryInStep == QSpec => []MemoryInStep
<1>1. QInv => MemoryInStep
  BY DEF QInv
<1> QED
  BY QueryInvariant, <1>1, PTL

(* No query runs a definition under such an edition, or under "*" where its  *)
(* role had a policy by then, unless memory went back between its lookups.   *)
THEOREM QueryPolicyNotOlder == QSpec => []PolicyNotOlder
<1>1. QInv => PolicyNotOlder
  BY DEF QInv
<1> QED
  BY QueryInvariant, <1>1, PTL
=============================================================================
