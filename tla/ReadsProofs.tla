---------------------------- MODULE ReadsProofs -----------------------------
(***************************************************************************)
(* Theorems about LogReads, for every set of readers, requests, bodies and *)
(* servers, both dialects and all limits.                                  *)
(***************************************************************************)
EXTENDS LogReads, TLAPS

(* Only callers that were let in have read anything. *)
Admitted ==
  /\ Boots(cfg)
  /\ \A r \in Readers :
       IF who[r] = None THEN got[r] = {} /\ passed[r] = {}
       ELSE Resolve(cfg, who[r]).status = 200

(* Every reader has what its WHERE clause selects. *)
Chosen == \A r \in Readers : \A e \in got[r] : Selects(r, e)

(* A cursor is where the reader began, or the number of an event. *)
CursorOf(r) ==
  /\ From(read[r].from) <= cursor[r]
  /\ \/ cursor[r] = From(read[r].from)
     \/ \E d \in log : Selects(r, d) /\ Number(r, d) = cursor[r]

(* Below its cursor lie the events it has and those that came too late. *)
Split(r) ==
  /\ got[r] \subseteq Meant(r) /\ passed[r] \subseteq Meant(r)
  /\ got[r] \cap passed[r] = {}
  /\ \A e \in Meant(r) : Number(r, e) <= cursor[r] <=> e \in got[r] \cup passed[r]

Paging == \A r \in Readers : Paged(r) => CursorOf(r) /\ Split(r)

IInv == TypeOK /\ Admitted /\ Chosen /\ Paging /\ OnlyPostgresLogsMiss

USE LogReadsAssumption, AccessAssumption

-----------------------------------------------------------------------------
LEMMA ReadTyped ==
  ASSUME TypeOK, NEW r \in Readers, who[r] # None
  PROVE  /\ read[r] \in Read
         /\ From(read[r].from) \in Int
         /\ \A e \in log : Number(r, e) \in Int
         /\ cursor[r] \in Int
  <1>1. [who |-> who[r], read |-> read[r]] \in Call
    BY DEF TypeOK
  <1>2. read[r] \in Read
    BY <1>1 DEF Call
  <1>3. read[r].from \in Int \cup {Garbage}
    BY <1>2 DEF Read
  <1>4. From(read[r].from) \in Int
    BY <1>3 DEF From
  <1>5. \A e \in log : Number(r, e) \in Int
    BY DEF TypeOK, Number
  <1> QED BY <1>2, <1>4, <1>5 DEF TypeOK

(* What a commit adds: events with numbers, above those of their stream and, *)
(* on SQLite, above all others.                                              *)
LEMMA CommitAdds ==
  ASSUME TypeOK, Commit
  PROVE  /\ log \subseteq log'
         /\ \A e \in log' \ log : e.seq \in Nat /\ e.version \in Nat
         /\ \A e \in log' \ log, d \in log :
              /\ dialect = "sqlite" => d.seq < e.seq
              /\ d.tenant = e.tenant /\ d.stream = e.stream => d.version < e.version
         /\ \A r \in Readers :
              passed'[r] = passed[r] \cup
                {e \in log' \ log : /\ Paged(r) /\ Selects(r, e)
                                    /\ From(read[r].from) < Number(r, e)
                                    /\ Number(r, e) <= cursor[r]}
  <1>1. PICK b \in Bodies, N \in SUBSET (1..MaxSeq) :
          /\ NumberedInOrder(N)
          /\ log' = log \cup Batch(b, N)
          /\ L!Append(b.tenant, b.stream)
          /\ passed' = [r \in Readers |-> passed[r] \cup
                {e \in log' \ log : /\ Paged(r) /\ Selects(r, e)
                                    /\ From(read[r].from) < Number(r, e)
                                    /\ Number(r, e) <= cursor[r]}]
    BY DEF Commit
  <1>2. \A e \in log' \ log : e.seq \in N
    <2> DEFINE Version(n) == Cardinality(L!StreamOf(log, b.tenant, b.stream))
                             + Cardinality({m \in N : m <= n})
               Event(n) == [seq |-> n, id |-> Generated, tenant |-> b.tenant, stream |-> b.stream,
                            stype |-> b.stype, corr |-> b.corr, version |-> Version(n)]
    <2>1. Batch(b, N) = {Event(n) : n \in N}
      BY DEF Batch
    <2> HIDE DEF Version
    <2> QED BY <1>1, <2>1
  <1>3. \A n \in N : n \in Nat
    BY <1>1
  <1>4. \A e \in log' \ log : e.seq \in Nat
    BY <1>2, <1>3
  <1>5. \A e \in log' \ log, d \in log : dialect = "sqlite" => d.seq < e.seq
    <2> SUFFICES ASSUME NEW e \in log' \ log, NEW d \in log, dialect = "sqlite"
                 PROVE  d.seq < e.seq
      OBVIOUS
    <2>1. e.seq > d.seq
      BY <1>1, <1>2 DEF NumberedInOrder
    <2>2. e.seq \in Nat /\ d.seq \in Nat
      BY <1>4 DEF TypeOK
    <2> QED BY <2>1, <2>2
  <1>6. PICK n \in {0} \cup L!VersionsOf(L!StreamOf(log, b.tenant, b.stream)),
             m \in L!VersionsOf(log' \ log) :
          /\ L!VersionsOf(L!StreamOf(log, b.tenant, b.stream)) = 1..n
          /\ L!VersionsOf(log' \ log) = (n + 1)..m
    BY <1>1 DEF L!Append
  <1>7. n \in Nat
    BY <1>6 DEF TypeOK, L!VersionsOf, L!StreamOf
  <1>8. \A e \in log' \ log : e.version \in (n + 1)..m
    BY <1>6 DEF L!VersionsOf
  <1>9. m \in Int
    BY <1>6
  <1>10. \A e \in log' \ log : e.version \in Nat /\ e.version > n
    BY <1>7, <1>8, <1>9
  <1>11. \A e \in log' \ log, d \in log :
           d.tenant = e.tenant /\ d.stream = e.stream => d.version < e.version
    <2> SUFFICES ASSUME NEW e \in log' \ log, NEW d \in log,
                        d.tenant = e.tenant, d.stream = e.stream
                 PROVE  d.version < e.version
      OBVIOUS
    <2>1. e.tenant = b.tenant /\ e.stream = b.stream
      BY <1>1 DEF L!Append, L!StreamOf
    <2>2. d.version \in 1..n
      BY <1>6, <2>1 DEF L!VersionsOf, L!StreamOf
    <2> QED BY <1>7, <1>10, <2>2
  <1> QED BY <1>1, <1>4, <1>5, <1>10, <1>11

-----------------------------------------------------------------------------
LEMMA InitIInv == Init => IInv
  <1> SUFFICES ASSUME Init PROVE IInv
    OBVIOUS
  <1>1. TypeOK
    BY DEF Init, TypeOK
  <1>2. Admitted /\ Chosen /\ Paging /\ OnlyPostgresLogsMiss
    BY DEF Init, Admitted, Chosen, Paging, Paged, OnlyPostgresLogsMiss
  <1> QED BY <1>1, <1>2 DEF IInv

LEMMA CommitIInv ==
  ASSUME IInv, Commit
  PROVE  IInv'
  <1> USE DEF IInv
  <1>0. UNCHANGED <<dialect, cfg, who, read, cursor, got>>
    BY DEF Commit, session
  <1>1. TypeOK'
    <2>1. passed' \in [Readers -> SUBSET log']
      <3>1. DOMAIN passed' = Readers /\ passed' = [r \in Readers |-> passed'[r]]
        BY DEF Commit
      <3>2. \A r \in Readers : passed'[r] \subseteq log'
        BY CommitAdds DEF TypeOK
      <3> QED BY <3>1, <3>2
    <2>2. \A e \in log' : e.seq \in Nat /\ e.version \in Nat
      BY CommitAdds DEF TypeOK
    <2>3. got' \in [Readers -> SUBSET log']
      BY <1>0, CommitAdds DEF TypeOK
    <2> QED BY <1>0, <2>1, <2>2, <2>3 DEF TypeOK
  <1>2. \A r \in Readers : \A e : Selects(r, e)' = Selects(r, e) /\ Number(r, e)' = Number(r, e)
    BY <1>0 DEF Selects, Number, TenantOf
  <1>3. \A r \in Readers : Paged(r)' = Paged(r)
    BY <1>0 DEF Paged
  <1>4. Admitted'
    BY <1>0, CommitAdds DEF Admitted, Paged
  <1>5. Chosen'
    BY <1>0, <1>2 DEF Chosen
  <1>6. Paging'
    <2> SUFFICES ASSUME NEW r \in Readers, Paged(r)
                 PROVE  CursorOf(r)' /\ Split(r)'
      BY <1>3 DEF Paging
    <2>0. who[r] # None
      BY DEF Paged
    <2>1. CursorOf(r)'
      BY <1>0, <1>2, CommitAdds DEF CursorOf, Paging
    <2>2. Meant(r) \subseteq Meant(r)' /\ Meant(r)' \ Meant(r) \subseteq log' \ log
      BY <1>0, <1>2, CommitAdds DEF Meant
    <2>3. Split(r)
      BY DEF Paging
    <2>4. \A e \in Meant(r)' \ Meant(r) :
            /\ e \notin got[r] \cup passed[r]
            /\ e \in passed'[r] <=> Number(r, e) <= cursor[r]
      BY <1>0, <1>2, <2>2, <2>3, CommitAdds DEF Meant, Split
    <2>5. \A e \in passed'[r] \ passed[r] : e \in Meant(r)' \ Meant(r)
      BY <1>0, <1>2, CommitAdds DEF Meant
    <2> QED BY <1>0, <1>2, <2>1, <2>2, <2>3, <2>4, <2>5, CommitAdds DEF Split
  <1>7. OnlyPostgresLogsMiss'
    <2> SUFFICES ASSUME NEW r \in Readers, NEW e \in passed'[r]
                 PROVE  dialect = "postgres" /\ read[r].kind = "all"
      BY <1>0 DEF OnlyPostgresLogsMiss
    <2>1. CASE e \in passed[r]
      BY <2>1 DEF OnlyPostgresLogsMiss
    <2>2. CASE e \notin passed[r]
      <3>1. /\ e \in log' \ log /\ Paged(r) /\ Selects(r, e)
            /\ From(read[r].from) < Number(r, e) /\ Number(r, e) <= cursor[r]
        BY <2>2, CommitAdds
      <3>2. who[r] # None /\ read[r].kind # "correlation" /\ CursorOf(r)
        BY <3>1 DEF Paged, Paging
      <3>3. read[r] \in Read /\ From(read[r].from) \in Int /\ cursor[r] \in Int
        BY <3>2, ReadTyped
      <3>4. Number(r, e) \in Int
        BY <3>1, CommitAdds DEF Number
      <3>5. PICK d \in log : Selects(r, d) /\ Number(r, d) = cursor[r]
        BY <3>1, <3>2, <3>3, <3>4 DEF CursorOf
      <3>6. ~(Number(r, d) < Number(r, e))
        BY <3>1, <3>3, <3>4, <3>5
      <3>7. read[r].kind \in {"all", "stream"}
        BY <3>2, <3>3 DEF Read
      <3>8. read[r].kind # "stream"
        <4> SUFFICES ASSUME read[r].kind = "stream" PROVE FALSE
          OBVIOUS
        <4>1. d.tenant = e.tenant /\ d.stream = e.stream
          BY <3>1, <3>5 DEF Selects
        <4> QED BY <3>1, <3>6, <4>1, CommitAdds DEF Number
      <3>9. dialect # "sqlite"
        BY <3>1, <3>6, <3>7, <3>8, CommitAdds DEF Number
      <3>10. dialect \in {"sqlite", "postgres"}
        BY DEF TypeOK
      <3> QED BY <3>7, <3>8, <3>9, <3>10
    <2> QED BY <2>1, <2>2
  <1> QED BY <1>1, <1>4, <1>5, <1>6, <1>7

LEMMA OpenIInv ==
  ASSUME IInv, NEW r \in Readers, Open(r)
  PROVE  IInv'
  <1> USE DEF IInv
  <1>1. PICK c \in Calls :
          /\ Resolve(cfg, c.who).status = 200
          /\ who' = [who EXCEPT ![r] = c.who]
          /\ read' = [read EXCEPT ![r] = c.read]
          /\ cursor' = [cursor EXCEPT ![r] = From(c.read.from)]
    BY DEF Open
  <1>2. who[r] = None /\ UNCHANGED <<log, dialect, cfg, got, passed>>
    BY DEF Open
  <1>3. c.who \in Request /\ c.read \in Read /\ c = [who |-> c.who, read |-> c.read]
    BY DEF Call
  <1>4. From(c.read.from) \in Int
    BY <1>3 DEF From, Read
  <1>5. \A q \in Readers \ {r} :
          who'[q] = who[q] /\ read'[q] = read[q] /\ cursor'[q] = cursor[q]
    BY <1>1 DEF TypeOK
  <1>6. got[r] = {} /\ passed[r] = {}
    BY <1>2 DEF Admitted
  <1>7. TypeOK'
    <2>1. who' \in [Readers -> Request \cup {None}] /\ cursor' \in [Readers -> Int]
      BY <1>1, <1>3, <1>4 DEF TypeOK
    <2>2. \A q \in Readers : who'[q] # None => [who |-> who'[q], read |-> read'[q]] \in Calls
      BY <1>1, <1>3, <1>5 DEF TypeOK
    <2>3. read' \in [Readers -> Read \cup {None}]
      BY <1>1, <1>3 DEF TypeOK
    <2> QED BY <1>2, <2>1, <2>2, <2>3 DEF TypeOK
  <1>8. Admitted'
    BY <1>1, <1>2, <1>5, <1>6 DEF Admitted, TypeOK
  <1>9. \A q \in Readers \ {r} : \A e : /\ Selects(q, e)' = Selects(q, e)
                                         /\ Number(q, e)' = Number(q, e)
    BY <1>2, <1>5 DEF Selects, Number, TenantOf
  <1>10. Chosen'
    BY <1>2, <1>6, <1>9 DEF Chosen
  <1>11. Paging'
    <2> SUFFICES ASSUME NEW q \in Readers, Paged(q)'
                 PROVE  CursorOf(q)' /\ Split(q)'
      BY DEF Paging
    <2>1. CASE q = r
      <3>1. read'[r] = c.read /\ cursor'[r] = From(c.read.from)
        BY <1>1 DEF TypeOK, Open
      <3>2. \A e \in log : Number(r, e)' \in Int
        BY DEF TypeOK, Number
      <3> QED BY <1>2, <1>4, <1>6, <2>1, <3>1, <3>2 DEF CursorOf, Split, Meant
    <2>2. CASE q # r
      <3>1. CursorOf(q) /\ Split(q)
        BY <1>5, <2>2 DEF Paging, Paged
      <3>2. Meant(q)' = Meant(q)
        BY <1>2, <1>5, <1>9, <2>2 DEF Meant
      <3> QED BY <1>2, <1>5, <1>9, <2>2, <3>1, <3>2 DEF CursorOf, Split
    <2> QED BY <2>1, <2>2
  <1>12. OnlyPostgresLogsMiss'
    BY <1>2, <1>5, <1>6 DEF OnlyPostgresLogsMiss
  <1> QED BY <1>7, <1>8, <1>10, <1>11, <1>12

(* A page moves the cursor to its last event. *)
LEMMA PageStep ==
  ASSUME IInv, NEW r \in Readers, Page(r)
  PROVE  /\ UNCHANGED <<log, dialect, cfg, who, read, passed>>
         /\ who[r] # None
         /\ \A q \in Readers \ {r} : got'[q] = got[q] /\ cursor'[q] = cursor[q]
         /\ \E P \in SUBSET After(r) :
              /\ IsPage(r, P)
              /\ got' \in [Readers -> SUBSET log] /\ got'[r] = got[r] \cup P
              /\ cursor' \in [Readers -> Int]
              /\ P = {} => cursor'[r] = cursor[r]
              /\ P # {} => /\ \E d \in P : cursor'[r] = Number(r, d)
                           /\ \A e \in P : Number(r, e) <= cursor'[r]
  <1> USE DEF IInv
  <1>1. PICK P \in SUBSET After(r) :
          /\ IsPage(r, P)
          /\ got' = [got EXCEPT ![r] = got[r] \cup P]
          /\ \E n \in NextFrom(r, P) : cursor' = [cursor EXCEPT ![r] = n]
    BY DEF Page
  <1>2. PICK n \in NextFrom(r, P) : cursor' = [cursor EXCEPT ![r] = n]
    BY <1>1
  <1>3. who[r] # None /\ UNCHANGED <<log, dialect, cfg, who, read, passed>>
    BY DEF Page
  <1>4. P \subseteq log
    BY DEF After
  <1>5. /\ P = {} => n = cursor[r]
        /\ P # {} => (\E d \in P : n = Number(r, d)) /\ (\A e \in P : Number(r, e) <= n)
    BY DEF NextFrom
  <1>6. n \in Int
    BY <1>3, <1>4, <1>5, ReadTyped
  <1>7. cursor' \in [Readers -> Int] /\ cursor'[r] = n
    BY <1>2, <1>6 DEF TypeOK
  <1>8. got' \in [Readers -> SUBSET log] /\ got'[r] = got[r] \cup P
    BY <1>1, <1>4 DEF TypeOK
  <1>9. \A q \in Readers \ {r} : got'[q] = got[q] /\ cursor'[q] = cursor[q]
    BY <1>1, <1>2 DEF TypeOK
  <1> QED BY <1>1, <1>3, <1>5, <1>7, <1>8, <1>9

LEMMA PageIInv ==
  ASSUME IInv, NEW r \in Readers, Page(r)
  PROVE  IInv'
  <1> USE DEF IInv
  <1>1. /\ UNCHANGED <<log, dialect, cfg, who, read, passed>>
        /\ who[r] # None
        /\ \A q \in Readers \ {r} : got'[q] = got[q] /\ cursor'[q] = cursor[q]
    BY PageStep
  <1>2. PICK P \in SUBSET After(r) :
          /\ IsPage(r, P)
          /\ got' \in [Readers -> SUBSET log] /\ got'[r] = got[r] \cup P
          /\ cursor' \in [Readers -> Int]
          /\ P = {} => cursor'[r] = cursor[r]
          /\ P # {} => /\ \E d \in P : cursor'[r] = Number(r, d)
                       /\ \A e \in P : Number(r, e) <= cursor'[r]
    BY PageStep
  <1>3. TypeOK'
    BY <1>1, <1>2 DEF TypeOK
  <1>4. Admitted'
    BY <1>1, <1>2 DEF Admitted
  <1>5. \A q \in Readers : \A e : /\ Selects(q, e)' = Selects(q, e)
                                   /\ Number(q, e)' = Number(q, e)
    BY <1>1 DEF Selects, Number, TenantOf
  <1>6. \A q \in Readers : Meant(q)' = Meant(q)
    BY <1>1, <1>5 DEF Meant
  <1>7. Chosen'
    BY <1>1, <1>2, <1>5 DEF Chosen, After
  <1>8. Paging'
    <2> SUFFICES ASSUME NEW q \in Readers, Paged(q)
                 PROVE  CursorOf(q)' /\ Split(q)'
      BY <1>1 DEF Paging, Paged
    <2>1. CASE q # r
      BY <1>1, <1>5, <1>6, <2>1 DEF Paging, CursorOf, Split
    <2>2. CASE q = r
      <3>1. /\ From(read[r].from) \in Int /\ cursor[r] \in Int /\ cursor'[r] \in Int
            /\ \A e \in log : Number(r, e) \in Int
        BY <1>1, <1>2, ReadTyped
      <3>2. /\ P \subseteq log
            /\ \A e \in P : Selects(r, e) /\ cursor[r] < Number(r, e)
        BY <2>2, <3>1 DEF After
      <3>3. CursorOf(r) /\ Split(r)
        BY <2>2 DEF Paging
      <3>4. P \subseteq Meant(r)
        BY <3>1, <3>2, <3>3 DEF CursorOf, Meant
      <3>5. cursor[r] <= cursor'[r]
        BY <1>2, <3>1, <3>2
      <3>6. CursorOf(r)'
        BY <1>1, <1>2, <1>5, <3>1, <3>2, <3>3, <3>5 DEF CursorOf
      <3>7. \A e \in Meant(r) : Number(r, e) <= cursor'[r] <=> e \in got[r] \cup passed[r] \cup P
        <4> SUFFICES ASSUME NEW e \in Meant(r)
                     PROVE  Number(r, e) <= cursor'[r] <=> e \in got[r] \cup passed[r] \cup P
          OBVIOUS
        <4>1. e \in log /\ Selects(r, e) /\ Number(r, e) \in Int
          BY <3>1 DEF Meant
        <4>2. CASE Number(r, e) <= cursor[r]
          BY <3>1, <3>3, <3>5, <4>1, <4>2 DEF Split
        <4>3. CASE ~(Number(r, e) <= cursor[r])
          <5>1. e \in After(r) /\ e \notin got[r] \cup passed[r]
            BY <3>1, <3>3, <4>1, <4>3 DEF After, Split
          <5>2. P # {} /\ e \notin P => cursor'[r] < Number(r, e)
            BY <1>2, <5>1 DEF IsPage
          <5> QED BY <1>2, <3>1, <4>1, <4>3, <5>1, <5>2
        <4> QED BY <4>2, <4>3
      <3>8. P \cap passed[r] = {}
        BY <3>1, <3>2, <3>3 DEF Split, Meant
      <3> QED BY <1>1, <1>2, <1>5, <1>6, <2>2, <3>3, <3>4, <3>6, <3>7, <3>8 DEF Split
    <2> QED BY <2>1, <2>2
  <1>9. OnlyPostgresLogsMiss'
    BY <1>1 DEF OnlyPostgresLogsMiss
  <1> QED BY <1>3, <1>4, <1>7, <1>8, <1>9

(* The inductive invariant. *)
THEOREM ReadsInvariant == Spec => []IInv
  <1>1. ASSUME IInv, UNCHANGED vars PROVE IInv'
    <2>0. UNCHANGED <<log, dialect, cfg, who, read, cursor, got, passed>>
      BY <1>1 DEF vars, session
    <2>1. \A q \in Readers : \A e : /\ Selects(q, e)' = Selects(q, e)
                                     /\ Number(q, e)' = Number(q, e)
      BY <2>0 DEF Selects, Number, TenantOf
    <2>2. \A q \in Readers : Meant(q)' = Meant(q) /\ Paged(q)' = Paged(q)
      BY <2>0, <2>1 DEF Meant, Paged
    <2>3. Chosen' /\ Paging'
      BY <1>1, <2>0, <2>1, <2>2 DEF IInv, Chosen, Paging, CursorOf, Split
    <2>4. TypeOK' /\ Admitted' /\ OnlyPostgresLogsMiss'
      BY <1>1, <2>0 DEF IInv, TypeOK, Admitted, OnlyPostgresLogsMiss
    <2> QED BY <2>3, <2>4 DEF IInv
  <1>2. IInv /\ [Next]_vars => IInv'
    BY <1>1, CommitIInv, OpenIInv, PageIInv DEF Next
  <1> QED BY <1>2, InitIInv, PTL DEF Spec

(* Types: cursors are numbers, what a reader has is in the log. *)
THEOREM ReadsTypeOK == Spec => []TypeOK
  BY ReadsInvariant, PTL DEF IInv

(* Only the tenant's log on Postgres has events that appear below a cursor. *)
THEOREM ReadsOnlyPostgresLogsMiss == Spec => []OnlyPostgresLogsMiss
  BY ReadsInvariant, PTL DEF IInv

-----------------------------------------------------------------------------
(***************************************************************************)
(* Whom a request speaks for.                                              *)
(***************************************************************************)
LEMMA TenantProven ==
  ASSUME NEW c \in Config, NEW q \in Request, Resolve(c, q).status = 200
  PROVE  Resolve(c, q).tenant \in Entitled(c, q)
  <1> DEFINE b == q.bearer
  <1>1. c.auth \in Modes \cup {"unset", "unknown"} /\ c.secret \in BOOLEAN
    BY DEF Config
  <1>2. b \in Token \cup {None, AdminToken} /\ q.tenant \in Tenants \cup {None}
    BY DEF Request
  <1>3. CASE CurrentMode(c) = "none"
    <2>0. Resolve(c, q) = ResolveOpen(c, q)
      BY <1>3 DEF Resolve
    <2>1. q.tenant # None /\ Resolve(c, q).tenant = q.tenant
      BY <2>0 DEF ResolveOpen, Denied, Accepted
    <2>2. Unverified(c)
      BY <1>1, <1>3 DEF CurrentMode, Modes, Unverified
    <2> QED BY <1>2, <2>1, <2>2 DEF Entitled
  <1>4. CASE CurrentMode(c) # "none"
    <2>1. ~Unverified(c)
      BY <1>1, <1>4 DEF CurrentMode, Modes, Unverified
    <2>2. Verified(b)
      BY <1>4 DEF Resolve, Denied
    <2>3. Proven(q)
      BY <1>2, <2>2 DEF Verified, Proven, Token
    <2>. b.org \in Tenants \cup {None}
      BY <2>3 DEF Proven, Token
    <2>4. CASE b.type = "service"
      <3>1. Resolve(c, q) = ResolveService(c, q)
        BY <1>4, <2>2, <2>4 DEF Resolve, Denied
      <3>2. CASE b.org = None
        <4>1. q.tenant # None /\ Resolve(c, q).tenant = q.tenant
          BY <3>1, <3>2 DEF ResolveService, Denied, Accepted
        <4> QED BY <1>2, <2>1, <2>3, <2>4, <3>2, <4>1 DEF Entitled
      <3>3. CASE b.org # None
        <4>1. Resolve(c, q).tenant = b.org
          BY <3>1, <3>3 DEF ResolveService, Denied, Accepted
        <4> QED BY <2>1, <2>3, <3>3, <4>1 DEF Entitled
      <3> QED BY <3>2, <3>3
    <2>5. CASE b.type # "service"
      <3>1. Resolve(c, q) = ResolveUser(c, q)
        BY <1>4, <2>2, <2>5 DEF Resolve, Denied
      <3> QED BY <2>1, <2>3, <2>5, <3>1 DEF ResolveUser, Denied, Accepted, Entitled
    <2> QED BY <2>4, <2>5
  <1> QED BY <1>3, <1>4

LEMMA CapabilityProven ==
  ASSUME NEW c \in Config, NEW q \in Request, Boots(c), Resolve(c, q).status = 200
  PROVE  LET a == Resolve(c, q)
             b == q.bearer
         IN \/ /\ Proven(q)
               /\ IF b.type = "service" THEN a.write /\ a.control
                  ELSE ~a.write /\ ~a.control /\ a.uid = b.sub /\ a.role = b.role
            \/ /\ CurrentMode(c) = "none" /\ (c.production => c.auth # "unset")
               /\ a.control => ~c.admin \/ b = AdminToken
  <1> DEFINE b == q.bearer
  <1>2. b \in Token \cup {None, AdminToken}
    BY DEF Request
  <1>3. CASE CurrentMode(c) = "none"
    <2>1. Resolve(c, q) = ResolveOpen(c, q)
      BY <1>3 DEF Resolve
    <2>2. q.tenant # None
      <3>1. q.tenant = None => Resolve(c, q) = Denied(400)
        BY <2>1, Zenon DEF ResolveOpen
      <3> QED BY <3>1 DEF Denied
    <2>3. Resolve(c, q) = Accepted(q.tenant, q.uid, q.role, TRUE, AdminOK(c, q))
      BY <2>1, <2>2, Zenon DEF ResolveOpen
    <2>4. c.admin /\ b # AdminToken => ~Resolve(c, q).control
      <3> SUFFICES ASSUME c.admin, b # AdminToken PROVE ~Resolve(c, q).control
        OBVIOUS
      <3>1. AdminOK(c, q) = FALSE
        BY DEF AdminOK
      <3>2. Resolve(c, q) = Accepted(q.tenant, q.uid, q.role, TRUE, FALSE)
        BY <2>3, <3>1, Zenon
      <3> QED BY <3>2 DEF Accepted
    <2> QED BY <1>3, <2>4 DEF Boots
  <1>4. CASE CurrentMode(c) # "none"
    <2>1. Verified(b)
      BY <1>4 DEF Resolve, Denied
    <2>2. Proven(q)
      BY <1>2, <2>1 DEF Verified, Proven, Token
    <2>3. CASE b.type = "service"
      <3>1. Resolve(c, q) = ResolveService(c, q)
        BY <1>4, <2>1, <2>3 DEF Resolve, Denied
      <3>2. Resolve(c, q).write /\ Resolve(c, q).control
        BY <3>1 DEF ResolveService, Denied, Accepted
      <3> QED BY <2>2, <2>3, <3>2
    <2>4. CASE b.type # "service"
      <3>1. Resolve(c, q) = ResolveUser(c, q)
        BY <1>4, <2>1, <2>4 DEF Resolve, Denied
      <3>2. LET a == Resolve(c, q)
            IN ~a.write /\ ~a.control /\ a.uid = b.sub /\ a.role = b.role
        BY <3>1 DEF ResolveUser, Denied, Accepted
      <3> QED BY <2>2, <2>4, <3>2
    <2> QED BY <2>3, <2>4
  <1> QED BY <1>3, <1>4

(* Every event a reader was ever handed is of the tenant its token entitles  *)
(* it to, or of its header's where that is what the server trusts.           *)
THEOREM ReadsTheirTenant == Spec => []ReadsItsTenant
  <1>1. IInv => ReadsItsTenant
    <2> SUFFICES ASSUME IInv, NEW r \in Readers, NEW e \in got[r]
                 PROVE  e.tenant \in Entitled(cfg, who[r])
      BY DEF ReadsItsTenant
    <2>1. who[r] # None /\ Resolve(cfg, who[r]).status = 200
      BY DEF IInv, Admitted
    <2>2. cfg \in Config /\ who[r] \in Request
      BY <2>1 DEF IInv, TypeOK
    <2>3. e.tenant = Resolve(cfg, who[r]).tenant
      BY DEF IInv, Chosen, Selects, TenantOf
    <2> QED BY <2>1, <2>2, <2>3, TenantProven
  <1> QED BY <1>1, ReadsInvariant, PTL

(* Only a service token gives the right to write or to manage where tokens   *)
(* are verified, and a user is who its token says.                           *)
THEOREM ReadsCapabilitiesEarned == Spec => []CapabilitiesEarned
  <1>1. IInv => CapabilitiesEarned
    <2> SUFFICES ASSUME IInv, NEW r \in Readers, who[r] # None
                 PROVE  LET a == Resolve(cfg, who[r])
                            b == who[r].bearer
                        IN \/ /\ Proven(who[r])
                              /\ IF b.type = "service" THEN a.write /\ a.control
                                 ELSE ~a.write /\ ~a.control /\ a.uid = b.sub /\ a.role = b.role
                           \/ /\ CurrentMode(cfg) = "none" /\ (cfg.production => cfg.auth # "unset")
                              /\ a.control => ~cfg.admin \/ b = AdminToken
      BY DEF CapabilitiesEarned
    <2>1. Boots(cfg) /\ Resolve(cfg, who[r]).status = 200
      BY DEF IInv, Admitted
    <2>2. cfg \in Config /\ who[r] \in Request
      BY DEF IInv, TypeOK
    <2> QED BY <2>1, <2>2, CapabilityProven
  <1> QED BY <1>1, ReadsInvariant, PTL

-----------------------------------------------------------------------------
(***************************************************************************)
(* Pages.                                                                  *)
(***************************************************************************)
LEMMA LimitMeant ==
  ASSUME NEW raw \in Int \cup {Garbage}
  PROVE  ReadLimit(raw) = Asked(raw)
  <1>1. CASE raw = Garbage
    BY <1>1 DEF ReadLimit, Asked
  <1>2. CASE raw \in Int
    BY <1>2 DEF ReadLimit, Asked
  <1> QED BY <1>1, <1>2

(* A page that is not the reader's last is as long as was asked for. *)
THEOREM ReadsShortPageMeansEnd == Spec => ShortPageMeansEnd
  <1> DEFINE Full(r) == Paged(r) /\ got'[r] # got[r] /\ (Meant(r) \ passed[r]) \ got'[r] # {}
                        => Cardinality(got'[r] \ got[r]) = Asked(read[r].limit)
  <1>1. IInv /\ [Next]_vars => [\A r \in Readers : Full(r)]_vars
    <2> SUFFICES ASSUME IInv, Next, NEW r \in Readers, Paged(r), got'[r] # got[r],
                        NEW e \in (Meant(r) \ passed[r]) \ got'[r]
                 PROVE  Cardinality(got'[r] \ got[r]) = Asked(read[r].limit)
      OBVIOUS
    <2>1. PICK q \in Readers : Page(q)
      BY DEF Next, Commit, Open, session
    <2>2. q = r /\ who[r] # None
      BY <2>1, PageStep DEF Paged
    <2>3. PICK P \in SUBSET After(r) : IsPage(r, P) /\ got'[r] = got[r] \cup P
      BY <2>1, <2>2, PageStep
    <2>4. /\ read[r] \in Read /\ cursor[r] \in Int
          /\ \A d \in log : Number(r, d) \in Int
      BY <2>2, ReadTyped DEF IInv
    <2>5. Split(r)
      BY DEF IInv, Paging
    <2>6. P \cap got[r] = {}
      BY <2>4, <2>5 DEF After, Split, Meant
    <2>7. e \in After(r) \ P
      BY <2>3, <2>4, <2>5 DEF After, Split, Meant
    <2>8. Cardinality(P) = ReadLimit(read[r].limit)
      BY <2>3, <2>7 DEF IsPage
    <2>9. got'[r] \ got[r] = P
      BY <2>3, <2>6
    <2>10. read[r].limit \in Int \cup {Garbage}
      BY <2>4 DEF Read
    <2> QED BY <2>8, <2>9, <2>10, LimitMeant
  <1>2. Spec => [][\A r \in Readers : Full(r)]_vars
    BY <1>1, ReadsInvariant, PTL DEF Spec
  <1> QED BY <1>2 DEF ShortPageMeansEnd

-----------------------------------------------------------------------------
(***************************************************************************)
(* LogReads implements Delivery.                                           *)
(***************************************************************************)
LEMMA OpenDelivers ==
  ASSUME IInv, NEW r \in Readers, Open(r)
  PROVE  D!Grow
  <1>1. who[r] = None /\ got[r] = {} /\ UNCHANGED <<log, dialect, cfg, got, passed>>
    BY DEF Open, IInv, Admitted
  <1>2. \A q \in Readers \ {r} : who'[q] = who[q] /\ read'[q] = read[q]
    BY DEF Open, IInv, TypeOK
  <1>3. ASSUME NEW q \in Readers \ {r}
        PROVE  DueTo(q)' = DueTo(q) /\ HasGot(q)' = HasGot(q)
    <2>1. \A e : Selects(q, e)' = Selects(q, e) /\ Number(q, e)' = Number(q, e)
      BY <1>1, <1>2 DEF Selects, Number, TenantOf
    <2>2. Paged(q)' = Paged(q) /\ Meant(q)' = Meant(q)
      BY <1>1, <1>2, <2>1 DEF Paged, Meant
    <2> QED BY <1>1, <2>1, <2>2 DEF DueTo, HasGot, Numbers
  <1>4. DueTo(r) = {} /\ HasGot(r) = {} /\ HasGot(r)' = {}
    BY <1>1 DEF DueTo, HasGot, Paged, Numbers
  <1> QED BY <1>3, <1>4 DEF D!Grow, D!Above

LEMMA CommitDelivers ==
  ASSUME IInv, Commit
  PROVE  D!Grow
  <1>0. UNCHANGED <<dialect, cfg, who, read, cursor, got>>
    BY DEF Commit, session
  <1>1. \A r \in Readers : \A e : Selects(r, e)' = Selects(r, e) /\ Number(r, e)' = Number(r, e)
    BY <1>0 DEF Selects, Number, TenantOf
  <1>2. \A r \in Readers : Paged(r)' = Paged(r)
    BY <1>0 DEF Paged
  <1>3. \A r \in Readers : HasGot(r)' = HasGot(r)
    BY <1>0, <1>1, <1>2 DEF HasGot, Numbers
  <1>4. ASSUME NEW r \in Readers
        PROVE  DueTo(r) \subseteq DueTo(r)' /\ D!Above(DueTo(r)' \ DueTo(r), HasGot(r))
    <2>1. CASE ~Paged(r)
      BY <1>2, <2>1 DEF DueTo, D!Above
    <2>2. CASE Paged(r)
      <3>1. /\ From(read[r].from) \in Int /\ cursor[r] \in Int
            /\ \A e \in log : Number(r, e) \in Int
        BY <2>2, ReadTyped DEF Paged, IInv
      <3>2. Split(r)
        BY <2>2 DEF IInv, Paging
      <3>3. /\ log \subseteq log'
            /\ passed'[r] = passed[r] \cup
                 {e \in log' \ log : /\ Paged(r) /\ Selects(r, e)
                                     /\ From(read[r].from) < Number(r, e)
                                     /\ Number(r, e) <= cursor[r]}
            /\ \A e \in log' \ log : Number(r, e) \in Int
        BY CommitAdds DEF IInv, Number
      <3>4. DueTo(r) = Numbers(r, Meant(r) \ passed[r]) /\ HasGot(r) = Numbers(r, got[r])
        BY <2>2 DEF DueTo, HasGot
      <3>5. DueTo(r)' = {Number(r, e) : e \in Meant(r)' \ passed'[r]}
        BY <1>1, <1>2, <2>2 DEF DueTo, Numbers
      <3>6. Meant(r) \ passed[r] \subseteq Meant(r)' \ passed'[r]
        BY <1>0, <1>1, <3>3 DEF Meant
      <3>7. DueTo(r) \subseteq DueTo(r)'
        BY <3>4, <3>5, <3>6 DEF Numbers
      <3>8. ASSUME NEW m \in DueTo(r)' \ DueTo(r), NEW n \in HasGot(r)
            PROVE  m > n
        <4>1. PICK e \in Meant(r)' \ passed'[r] : m = Number(r, e)
          BY <3>5
        <4>2. PICK d \in got[r] : n = Number(r, d)
          BY <3>4 DEF Numbers
        <4>3. e \notin Meant(r) \ passed[r]
          BY <3>4, <4>1 DEF Numbers
        <4>4. e \in log' \ log /\ Selects(r, e) /\ Number(r, e) > From(read[r].from)
          BY <1>0, <1>1, <3>3, <4>1, <4>3 DEF Meant
        <4>5. ~(Number(r, e) <= cursor[r])
          BY <2>2, <3>1, <3>3, <4>1, <4>4
        <4>6. d \in log /\ Number(r, d) <= cursor[r]
          BY <3>2 DEF Split, Meant
        <4> QED BY <3>1, <3>3, <4>1, <4>2, <4>4, <4>5, <4>6
      <3> QED BY <3>7, <3>8 DEF D!Above
    <2> QED BY <2>1, <2>2
  <1> QED BY <1>3, <1>4 DEF D!Grow

LEMMA PageDelivers ==
  ASSUME IInv, NEW r \in Readers, Page(r)
  PROVE  D!Deliver(r)
  <1>1. /\ UNCHANGED <<log, dialect, cfg, who, read, passed>>
        /\ who[r] # None
        /\ \A q \in Readers \ {r} : got'[q] = got[q]
    BY PageStep
  <1>2. PICK P \in SUBSET After(r) : IsPage(r, P) /\ got'[r] = got[r] \cup P
    BY PageStep
  <1>3. \A q \in Readers : \A e : /\ Selects(q, e)' = Selects(q, e)
                                   /\ Number(q, e)' = Number(q, e)
    BY <1>1 DEF Selects, Number, TenantOf
  <1>4. \A q \in Readers : DueTo(q)' = DueTo(q)
    <2>1. \A q \in Readers : Paged(q)' = Paged(q) /\ Meant(q)' = Meant(q)
      BY <1>1, <1>3 DEF Paged, Meant
    <2> QED BY <1>1, <1>3, <2>1 DEF DueTo, Numbers
  <1>5. \A q \in Readers \ {r} : HasGot(q)' = HasGot(q)
    BY <1>1, <1>3 DEF HasGot, Paged, Numbers
  <1>6. /\ HasGot(r) \subseteq HasGot(r)' /\ HasGot(r)' \subseteq DueTo(r)
        /\ D!Above(DueTo(r) \ HasGot(r)', HasGot(r)')
    <2>1. CASE ~Paged(r)
      BY <1>1, <2>1 DEF HasGot, DueTo, Paged, D!Above
    <2>2. CASE Paged(r)
      <3>1. /\ From(read[r].from) \in Int /\ cursor[r] \in Int
            /\ \A e \in log : Number(r, e) \in Int
        BY <2>2, ReadTyped DEF Paged, IInv
      <3>2. CursorOf(r) /\ Split(r)
        BY <2>2 DEF IInv, Paging
      <3>3. /\ DueTo(r) = Numbers(r, Meant(r) \ passed[r]) /\ HasGot(r) = Numbers(r, got[r])
            /\ HasGot(r)' = Numbers(r, got[r] \cup P)
        BY <1>1, <1>2, <1>3, <2>2 DEF DueTo, HasGot, Paged, Numbers
      <3>4. \A e \in P : e \in log /\ Selects(r, e) /\ Number(r, e) > cursor[r]
        BY <2>2 DEF After
      <3>5. got[r] \cup P \subseteq Meant(r) \ passed[r]
        BY <3>1, <3>2, <3>4 DEF CursorOf, Split, Meant
      <3>6. ASSUME NEW e \in (Meant(r) \ passed[r]) \ (got[r] \cup P), NEW d \in got[r] \cup P
            PROVE  Number(r, e) > Number(r, d)
        <4>1. e \in log /\ d \in log
          BY <3>5 DEF Meant
        <4>2. e \in After(r) \ P /\ Number(r, e) > cursor[r]
          BY <3>1, <3>2 DEF After, Split, Meant
        <4>3. CASE d \in P
          BY <1>2, <3>1, <4>1, <4>2, <4>3 DEF IsPage
        <4>4. CASE d \in got[r]
          BY <3>1, <3>2, <4>1, <4>2, <4>4 DEF Split
        <4> QED BY <4>3, <4>4
      <3>7. D!Above(DueTo(r) \ HasGot(r)', HasGot(r)')
        BY <3>3, <3>6 DEF Numbers, D!Above
      <3> QED BY <3>3, <3>5, <3>7 DEF Numbers
    <2> QED BY <2>1, <2>2
  <1> QED BY <1>4, <1>5, <1>6 DEF D!Deliver

(* Reading page by page implements Delivery: for every limit, every tearing  *)
(* of batches between pages and every commit between two reads.              *)
THEOREM ReadsDeliver == Spec => PagesDeliver
  <1>1. Init => D!Init
    BY DEF Init, D!Init, DueTo, HasGot, Paged
  <1>2. ASSUME IInv, UNCHANGED vars
        PROVE  UNCHANGED <<[r \in Readers |-> DueTo(r)], [r \in Readers |-> HasGot(r)]>>
    BY <1>2 DEF vars, session, DueTo, HasGot, Paged, Numbers, Number, Meant, Selects, TenantOf
  <1>3. IInv /\ [Next]_vars
        => [D!Next]_<<[r \in Readers |-> DueTo(r)], [r \in Readers |-> HasGot(r)]>>
    BY <1>2, OpenDelivers, CommitDelivers, PageDelivers DEF Next, D!Next
  <1> QED BY <1>1, <1>3, ReadsInvariant, PTL DEF Spec, PagesDeliver, D!Spec
=============================================================================
