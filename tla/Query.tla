-------------------------------- MODULE Query --------------------------------
(***************************************************************************)
(* Queries beside the control plane: POST /v1/query/{name} (router.go) and *)
(* the two lookups ExecQuery starts with (query.go, registry.go).  A query *)
(* takes the registry's lock twice, for the definition and then for the    *)
(* policy, and runs its SELECT after both: definitions and policies may be *)
(* replaced in between.  What the SELECT answers is in Answers.            *)
(***************************************************************************)
EXTENDS Registry

CONSTANTS
  Sessions,   \* queries in the server
  Callers,    \* who they speak for (see Access), records with a role
  NoRole,     \* the empty role
  AnyRole     \* "*"

(* Registry's policies are identified by name and role. *)
Key(n, role) == [name |-> n, role |-> role]

ASSUME QueryAssumption ==
  /\ \A n \in Names : Key(n, AnyRole) \in Policies
  /\ \A k \in Policies : k \in [name: Names, role: {k.role}]
  /\ NoRole # AnyRole
  /\ NoDef \notin Callers \cup Policies /\ NoDef \notin [Policies -> Nat]

VARIABLES
  qpc,      \* qpc[q]: what query q does next
  caller,   \* caller[q]: who asks
  found,    \* found[q]: the definition it works with
  policy,   \* policy[q]: the key of its policy
  edition,  \* edition[q]: the policy's edition
  since,    \* history: since[d], the policies stored when d was first saved
  cut,      \* history: a reload was cut short while it read the policies
  relapsed  \* history: relapsed[q], between q's lookups memory went back to
            \* an older edition of some policy

sessionVars == <<qpc, caller, found, policy, edition, relapsed>>
histVars == <<since, cut>>
qvars == <<vars, sessionVars, histVars>>

QInit ==
  /\ Init
  /\ qpc = [q \in Sessions |-> "idle"]
  /\ caller = [q \in Sessions |-> NoDef] /\ found = [q \in Sessions |-> NoDef]
  /\ policy = [q \in Sessions |-> NoDef] /\ edition = [q \in Sessions |-> 0]
  /\ relapsed = [q \in Sessions |-> FALSE]
  /\ since = [d \in Definitions |-> NoDef] /\ cut = FALSE

(* The session is over, with an answer or without. *)
Leaves(q) ==
  /\ qpc' = [qpc EXCEPT ![q] = "idle"]
  /\ caller' = [caller EXCEPT ![q] = NoDef] /\ found' = [found EXCEPT ![q] = NoDef]
  /\ policy' = [policy EXCEPT ![q] = NoDef] /\ edition' = [edition EXCEPT ![q] = 0]
  /\ relapsed' = [relapsed EXCEPT ![q] = FALSE]

-----------------------------------------------------------------------------
(* GetProjection, under the read lock. *)
Lookup(q) ==
  /\ qpc[q] = "idle"
  /\ \E n \in Names, c \in Callers :
       /\ mem[n] # NoDef
       /\ caller' = [caller EXCEPT ![q] = c]
       /\ found' = [found EXCEPT ![q] = mem[n]]
  /\ qpc' = [qpc EXCEPT ![q] = "policy"]
  /\ UNCHANGED <<vars, histVars, policy, edition, relapsed>>

(* GetPolicy, under the read lock taken anew: the role's own, else "*". *)
PolicyAny(n, role) == Key(n, AnyRole)
PolicyFor(n, role) ==
  IF role # NoRole /\ Key(n, role) \in Policies /\ polMem[Key(n, role)] > 0
  THEN Key(n, role) ELSE Key(n, AnyRole)

FindPolicyUnasked(q) ==
  /\ qpc[q] = "policy"
  /\ LET k == PolicyFor(found[q].name, caller[q].role)
     IN /\ policy' = [policy EXCEPT ![q] = k]
        /\ edition' = [edition EXCEPT ![q] = polMem[k]]
  /\ qpc' = [qpc EXCEPT ![q] = "execute"]
  /\ UNCHANGED <<vars, histVars, caller, found, relapsed>>
FindPolicy(q) ==
  /\ qpc[q] = "policy"
  /\ LET k == PolicyFor(found[q].name, caller[q].role)
     IN /\ polMem[k] > 0
        /\ policy' = [policy EXCEPT ![q] = k]
        /\ edition' = [edition EXCEPT ![q] = polMem[k]]
  /\ qpc' = [qpc EXCEPT ![q] = "execute"]
  /\ UNCHANGED <<vars, histVars, caller, found, relapsed>>

(* No policy: 403. *)
Forbidden(q) ==
  /\ qpc[q] = "policy"
  /\ polMem[PolicyFor(found[q].name, caller[q].role)] = 0
  /\ Leaves(q)
  /\ UNCHANGED <<vars, histVars>>

Execute(q) == qpc[q] = "execute" /\ Leaves(q) /\ UNCHANGED <<vars, histVars>>

-----------------------------------------------------------------------------
(* What the control plane does, and what it means for the history. *)
Relapse == \E k \in Policies : polMem'[k] < polMem[k]

Manage ==
  /\ Control
  /\ since' = [d \in Definitions |->
                 IF since[d] = NoDef /\ \E n \in Names : rows'[n] = d THEN polRows' ELSE since[d]]
  /\ cut' = (cut \/ \E h \in Handlers : PoliciesCutShort(h))
  /\ relapsed' = [q \in Sessions |-> qpc[q] # "idle" /\ (relapsed[q] \/ (qpc[q] = "policy" /\ Relapse))]
  /\ UNCHANGED <<qpc, caller, found, policy, edition>>

QRestart ==
  /\ Restart
  /\ qpc' = [q \in Sessions |-> "idle"]
  /\ caller' = [q \in Sessions |-> NoDef] /\ found' = [q \in Sessions |-> NoDef]
  /\ policy' = [q \in Sessions |-> NoDef] /\ edition' = [q \in Sessions |-> 0]
  /\ relapsed' = [q \in Sessions |-> FALSE]
  /\ UNCHANGED histVars

QNext ==
  \/ Manage \/ QRestart
  \/ Rest /\ UNCHANGED <<sessionVars, histVars>>
  \/ \E q \in Sessions : Lookup(q) \/ FindPolicy(q) \/ Forbidden(q) \/ Execute(q)

QSpec == QInit /\ [][QNext]_qvars

-----------------------------------------------------------------------------
(***************************************************************************)
(* Properties.                                                             *)
(***************************************************************************)
(* Sessions are well formed. *)
QTypeOK ==
  /\ qpc \in [Sessions -> {"idle", "policy", "execute"}]
  /\ caller \in [Sessions -> Callers \cup {NoDef}]
  /\ found \in [Sessions -> Definition \cup {NoDef}]
  /\ policy \in [Sessions -> Policies \cup {NoDef}]
  /\ edition \in [Sessions -> Nat]
  /\ relapsed \in [Sessions -> BOOLEAN] /\ cut \in BOOLEAN
  /\ since \in [Definitions -> [Policies -> Nat] \cup {NoDef}]
  /\ \A q \in Sessions : /\ qpc[q] # "idle" => caller[q] # NoDef /\ found[q] # NoDef
                         /\ qpc[q] = "execute" => policy[q] # NoDef /\ edition[q] > 0

(* Rolling out: an operator stores a policy and then the definition whose    *)
(* columns it restricts.  Whatever saves and reloads overlap, fail or        *)
(* restart, memory never holds the definition with an older edition of a     *)
(* policy.  It rests on a reload reading the projections first, so that the  *)
(* policies it reads are at least as new; reading either table to the end is *)
(* assumed.                                                                  *)
NotOlder(pols, d) == \A k \in Policies : since[d][k] <= pols[k]
MemoryInStep == ~cut => \A n \in Names : mem[n] # NoDef => NotOlder(polMem, mem[n])

(* The same for what a query uses: it never runs a definition under an older *)
(* edition, nor under "*" where the role had a policy by then.  It rests on  *)
(* the definition being looked up first; only overlapping reloads that take  *)
(* memory back between its two lookups spoil it.                             *)
PolicyNotOlder ==
  \A q \in Sessions : qpc[q] = "execute" /\ ~relapsed[q] /\ ~cut =>
     LET then == since[found[q]]
         own  == Key(found[q].name, caller[q].role)
     IN /\ then[policy[q]] <= edition[q]
        /\ caller[q].role # NoRole /\ own \in Policies /\ then[own] > 0 => policy[q] = own
=============================================================================
