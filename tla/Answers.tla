------------------------------ MODULE Answers ------------------------------
(***************************************************************************)
(* Query and Select composed: what the SELECT of a query answers, for the  *)
(* definition, the policy and the caller its session has taken, whatever   *)
(* the body says and whatever the table holds.                             *)
(***************************************************************************)
EXTENDS Query, Select

CONSTANTS
  PolicyOf,   \* PolicyOf[k][e]: what edition e of policy k says
  Bodies,     \* the bodies clients send
  Contents    \* sets of rows that the table may hold

(* A placeholder for each name of a policy, a caller with a tenant.          *)
IsTrue(col) == [kind |-> "leaf", list |-> << [col |-> col, op |-> "eq", value |-> True, list |-> NotList] >>]
ASSUME AnswersAssumption ==
  /\ \A k \in Policies, e \in 1..MaxRequests :
       LET u == PolicyOf[k][e].using
       IN u # Null /\ u.single =>
            /\ u.names \in Seq(STRING) /\ u.text.holes = Len(u.names)
            /\ \A by \in Callers, i \in DOMAIN u.names : by[u.names[i]] \in Values
  /\ \A by \in Callers : by.tenant \in Values \ {Null}
  /\ \A b \in Bodies : b.where = Null \/ b.where \in Filters
  /\ \A col \in Booleans : IsTrue(col) \in Filters
  /\ \A T \in Contents : T \subseteq Rows /\ IsFiniteSet(T) /\ Cardinality(T) <= IntMax
  /\ \A row \in Rows, d \in Definitions : \A col \in Spine \cup d.cols : row[col] \in Values
  /\ \A b \in Bodies : b.sort \in Seq(ToSet(b.sort))

(* What a session may be about to execute, and more. *)
Cases == {[def |-> d, policy |-> k, edition |-> e, caller |-> by] :
            d \in Definitions, k \in Policies, e \in 1..MaxRequests, by \in Callers}
CaseOf(q) == [def |-> found[q], policy |-> policy[q], edition |-> edition[q], caller |-> caller[q]]
TextOf(c) == PolicyOf[c.policy][c.edition]

Succeeds(c, b)     == Status(c.def, TextOf(c), c.caller, b) = 200
Selected(c, b)     == Matches(c.def, TextOf(c), c.caller, b, Rows)

-----------------------------------------------------------------------------
(***************************************************************************)
(* What a filter and a policy mean, without SQL.                           *)
(***************************************************************************)
Test(f, row) ==
  LET v == row[f.col]
      Is(w) == v # Null /\ (IF f.col \in Booleans THEN w \in {v, Value(f.col, row)} ELSE v = Normalize(w))
  IN CASE f.value = Null /\ f.op = "eq" -> v = Null
       [] f.value = Null /\ f.op = "ne" -> v # Null
       [] f.value = Null /\ f.op \notin {"eq", "ne"} -> TRUE
       [] f.value # Null /\ f.op = "eq" -> Is(f.value)
       [] f.value # Null /\ f.op = "ne" -> v # Null /\ ~Is(f.value)
       [] f.value # Null /\ f.op = "in" -> \E i \in DOMAIN f.list : Is(f.list[i])
       [] f.value # Null /\ f.op = "gt" -> v # Null /\ v > Normalize(f.value)
       [] f.value # Null /\ f.op = "lte" -> v # Null /\ v <= Normalize(f.value)

(* What a group contains. *)
Members(node) == IF Group(node) /\ node.list # NotList THEN node.list ELSE <<>>

Meaning(filter, row) ==
  LET Means[node \in Filters] ==
        CASE node.kind = "and"  -> \A i \in DOMAIN Members(node) : Means[Members(node)[i]]
          [] node.kind = "or"   -> \E i \in DOMAIN Members(node) : Means[Members(node)[i]]
          [] node.kind = "leaf" -> \A i \in DOMAIN node.list : Test(node.list[i], row)
          [] OTHER -> TRUE
  IN Means[filter]

(* The columns it mentions. *)
Mentions(filter) ==
  LET Cited[node \in Filters] ==
        IF node.kind = "leaf" THEN {node.list[i].col : i \in DOMAIN node.list}
        ELSE UNION {Cited[Members(node)[i]] : i \in DOMAIN Members(node)}
  IN Cited[filter]

Written(row) == \A c \in Booleans : row[c] \in {0, 1, Null}

Permits(c, row) ==
  LET u == TextOf(c).using
  IN u # Null => /\ \A i \in DOMAIN u.names : c.caller[u.names[i]] # Null
                 /\ Holds(u.text, [i \in DOMAIN u.names |-> c.caller[u.names[i]]], row)

(* The columns a policy leaves to the reader. *)
Readable(c) == {x \in Spine \cup c.def.cols :
                  /\ TextOf(c).allow = {} \/ x \in TextOf(c).allow \/ x = "id"
                  /\ x \notin TextOf(c).deny}

-----------------------------------------------------------------------------
(* A query answers the rows that are the caller's tenant's, that the policy  *)
(* permits to the caller and that the filter means: each condition on its    *)
(* own, whatever OR the fragments hold, and each argument at its place.  A   *)
(* policy that needs an identity the caller has not answers nothing.         *)
Conjunctive[c \in Cases] == \A b \in Bodies : Succeeds(c, b) =>
  {row \in Selected(c, b) : Written(row)} =
    {row \in Rows : /\ Written(row)
                    /\ row["tenant"] = c.caller.tenant
                    /\ Permits(c, row)
                    /\ b.where # Null => Meaning(b.where, row)}
AnswerIsConjunction ==
  \A q \in Sessions : qpc[q] = "execute" => Conjunctive[CaseOf(q)]

(* A column the policy hides makes no difference: neither shown, selected,   *)
(* filtered nor sorted by; two rows that differ in hidden columns alone are  *)
(* answered alike, unless the policy itself looks at the difference.         *)
Visible(c, row) == <<row["tenant"], Permits(c, row), [col \in Readable(c) |-> row[col]]>>
Blind[c \in Cases] == \A b \in Bodies : Succeeds(c, b) =>
  /\ Shown(c.def, TextOf(c), b) \cup SortColumns(b) \subseteq Readable(c)
  /\ b.where # Null => Mentions(b.where) \subseteq Readable(c)
  /\ LET answered == Selected(c, b)
         accounts == {<<Visible(c, row), row \in answered, Answer(c.def, TextOf(c), b, row)>> : row \in Rows}
     IN \A x, y \in accounts : x[1] = y[1] => x = y
HiddenColumnsMakeNoDifference ==
  \A q \in Sessions : qpc[q] = "execute" => Blind[CaseOf(q)]

(* A boolean column reads as true in just the rows the filter `eq: true`     *)
(* answers, also in a row that holds a number from its life as a counter.    *)
Agreeing[c \in Cases] == \A col \in Booleans \cap Readable(c) :
  LET b == [select |-> <<>>, where |-> IsTrue(col), sort |-> <<>>, limit |-> Null, offset |-> Null]
  IN Succeeds(c, b) =>
       \A row \in Rows : row["tenant"] = c.caller.tenant /\ Permits(c, row)
         => (row \in Selected(c, b) <=> Answer(c.def, TextOf(c), b, row)[col] = True)
TrueIsWhatTheFilterSays ==
  \A q \in Sessions : qpc[q] = "execute" => Agreeing[CaseOf(q)]

(* Pages add up: a client that sends any limit an int can hold, and goes on   *)
(* by the limit the answer reports until a page comes short, reads every      *)
(* matching row on one page and no row on two, if the columns of the sort     *)
(* tell the rows apart.  It does so whichever order the database picks for    *)
(* each page.  Zero, negative, missing and excessive limits page on with one  *)
(* between 1 and the maximum.  The exceptions are a fraction below 1, and a   *)
(* limit of 2^63 or more, which on amd64 turns negative and is not clamped.   *)
InRange(raw) == raw # Tiny /\ (raw \in Int => raw <= IntMax)
TellsApart(sort, S) == \A x, y \in S : x # y => Differ(sort, x, y) # {}
Asked(limit, n) == {k \in 0..n : k * limit <= n}
OnOnePage(row, orders, limit, n) ==
  \E k \in Asked(limit, n) : \A m \in Asked(limit, n), order \in orders :
    row \in Page(order, limit, Offset(m * limit)) <=> m = k
Paging[c \in Cases] == \A b \in Bodies : Succeeds(c, b) /\ InRange(b.limit) =>
  LET limit == Limit(b.limit)
  IN /\ limit \in 1..MaxRows
     /\ b.limit \in 1..MaxRows => limit = b.limit
     /\ \A T \in Contents :
          LET S      == Matches(c.def, TextOf(c), c.caller, b, T)
              orders == Orders(b.sort, S)
          IN TellsApart(b.sort, S) => \A row \in S : OnOnePage(row, orders, limit, Cardinality(S))
PagesAddUp ==
  \A q \in Sessions : qpc[q] = "execute" => Paging[CaseOf(q)]
=============================================================================
