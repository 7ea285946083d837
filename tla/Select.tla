------------------------------- MODULE Select -------------------------------
(***************************************************************************)
(* The answer to a query once its definition and its policy are known      *)
(* (readmodel/query.go, ExecQuery from the columns on), as operators from  *)
(* the definition, the policy, the caller and the body.                    *)
(*                                                                         *)
(* SQL text is what the precedence of its connectives makes of it: a       *)
(* sequence, joined by OR, of sequences, joined by AND, of factors; a      *)
(* parenthesised text is one factor.  Pasting " AND " between two texts    *)
(* that are not parenthesised therefore joins their nearest conjuncts.     *)
(* A factor has holes, the `?`, from some place in the text on, which take *)
(* the arguments of those places.  No text negates, so what SQL leaves     *)
(* NULL counts as false.                                                   *)
(***************************************************************************)
EXTENDS Integers, Sequences, FiniteSets, SequencesExt

CONSTANTS
  Null, True, False,   \* JSON null and booleans; SQL's NULL
  Tiny,                \* a JSON number between 0 and 1
  NotList,             \* stands for the elements of a JSON value that is no array
  Values,              \* JSON scalars and what columns and arguments hold
  Booleans,            \* the columns declared boolean; they hold 0, 1 or NULL
  Rows,                \* the rows a table may hold
  Rank,                \* how the database orders values, NULL among them
  Filters, Depth,      \* the filters there are, and how deep each is nested
  DefaultRows, MaxRows,\* defaultLimit and maxLimit, 1000 and 10000 in the code
  IntMax, Overflow,    \* the largest int, and what int() makes of a number beyond it
  Lenient              \* LIMIT and OFFSET may be negative (SQLite), or not (Postgres)

Group(node) == node.kind \in {"and", "or"}

ASSUME SelectAssumption ==
  /\ {DefaultRows, MaxRows, IntMax} \subseteq Nat \ {0} /\ DefaultRows <= MaxRows /\ MaxRows <= IntMax
  /\ Overflow \in {IntMax, -IntMax - 1}   \* arm64 stops at the largest, amd64 turns negative
  /\ Lenient \in BOOLEAN
  /\ Rank \in [Values -> Int] /\ \A v, w \in Values : Rank[v] = Rank[w] => v = w
  /\ {0, 1, Null, True, False} \subseteq Values
  /\ Null \notin {0, 1, True, False} /\ True \notin {0, 1, False} /\ False \notin {0, 1}

(* A filter is a tree: what a group contains is nested less deep than it. *)
ASSUME FilterAssumption ==
  /\ Depth \in [Filters -> Nat] /\ Null \notin Filters
  /\ \A node \in Filters :
       /\ node.kind \in {"other", "leaf", "and", "or"}
       /\ Group(node) /\ node.list # NotList =>
            /\ node.list \in Seq(Filters)
            /\ \A i \in DOMAIN node.list : Depth[node.list[i]] < Depth[node]
       /\ node.kind = "leaf" =>
            /\ node.list \in Seq(ToSet(node.list))
            /\ \A i \in DOMAIN node.list :
                 LET c == node.list[i]
                 IN IF c.op = "in" THEN c.value # Null /\ c.list # NotList => c.list \in Seq(Values)
                    ELSE c.value \in Values

Spine == {"id", "updated_at"}

(* What a database makes of a column's value and the arguments. *)
Satisfies(op, v, args) ==
  CASE op = "1=1" -> TRUE
    [] op = "1=0" -> FALSE
    [] op = "IS NULL" -> v = Null
    [] op = "IS NOT NULL" -> v # Null
    [] op = "IN" -> v # Null /\ \E k \in DOMAIN args : v = args[k]
    [] OTHER -> /\ v # Null /\ args[1] # Null
                /\ CASE op = "=" -> v = args[1]
                     [] op = "!=" -> v # args[1]
                     [] op = ">" -> v > args[1]
                     [] op = "<=" -> v <= args[1]

(* A factor: where its holes are, and the rows it holds for, by what fills   *)
(* them.  A text: its alternatives, and how many holes it has.               *)
Given(f, args) == [k \in 1..f.holes |-> args[f.at + k]]
Holds(text, args, row) ==
  \E i \in DOMAIN text.alts : \A j \in DOMAIN text.alts[i] :
    text.alts[i][j].holds[Given(text.alts[i][j], args)][row]

Alone(n, holds) == [alts |-> << << [at |-> 0, holes |-> n, holds |-> holds] >> >>, holes |-> n]
Factor(col, op, n) ==
  Alone(n, [args \in [1..n -> Values] |-> [row \in Rows |-> Satisfies(op, row[col], args)]])
Constantly(b) == Factor("tenant", IF b THEN "1=1" ELSE "1=0", 0)
Bare(text)    == text
Parens(text)  ==
  Alone(text.holes, [args \in [1..text.holes -> Values] |-> [row \in Rows |-> Holds(text, args, row)]])

(* Two texts with " AND " or " OR " between them; the second one's holes     *)
(* come after those of the first.                                            *)
Shifted(alts, n) ==
  [i \in DOMAIN alts |-> [j \in DOMAIN alts[i] |->
     [at |-> alts[i][j].at + n, holes |-> alts[i][j].holes, holds |-> alts[i][j].holds]]]
Join(sep, x, y) ==
  LET rest == Shifted(y.alts, x.holes)
  IN [alts  |-> IF sep = "or" THEN x.alts \o rest
                ELSE Front(x.alts) \o << Last(x.alts) \o Head(rest) >> \o Tail(rest),
      holes |-> x.holes + y.holes]

-----------------------------------------------------------------------------
Empty            == [alts |-> <<>>, holes |-> 0]
Bad(code)        == [status |-> code, text |-> Empty, args |-> <<>>]
Good(text, args) == [status |-> 200, text |-> text, args |-> args]
Nothing          == Good(Empty, <<>>)
Blank(part)      == part.text.alts = <<>>

(* The columns a policy leaves visible. *)
AllowedColumnsDenyFirst(d, p) ==
  LET visible == (Spine \cup d.cols) \ p.deny
  IN IF p.allow = {} THEN visible ELSE (Spine \cup d.cols) \cap (p.allow \cup {"id"})
AllowedColumns(d, p) ==
  LET visible == Spine \cup d.cols
  IN (IF p.allow = {} THEN visible ELSE visible \cap (p.allow \cup {"id"})) \ p.deny

(* compileUsing: the fragment as it stands, its :auth_* names bound. *)
CompileUsing(using, by) ==
  CASE ~using.single -> Bad(400)
    [] using.single /\ (\E i \in DOMAIN using.names : by[using.names[i]] = Null) -> Bad(403)
    [] OTHER -> Good(using.text, [i \in DOMAIN using.names |-> by[using.names[i]]])

Normalize(v) == CASE v = True -> 1 [] v = False -> 0 [] OTHER -> v

SqlOp == [gt |-> ">", lte |-> "<="]

(* One column, one operator, one value of a filter, or its elements. *)
CompileOp(c) ==
  CASE c.value = Null /\ c.op = "eq" -> Good(Factor(c.col, "IS NULL", 0), <<>>)
    [] c.value = Null /\ c.op = "ne" -> Good(Factor(c.col, "IS NOT NULL", 0), <<>>)
    [] c.value = Null /\ c.op \notin {"eq", "ne"} -> Nothing
    [] c.value # Null /\ c.op = "in" ->
         CASE c.list = NotList -> Bad(400)
           [] c.list # NotList /\ c.list = <<>> -> Good(Constantly(FALSE), <<>>)
           [] OTHER -> Good(Factor(c.col, "IN", Len(c.list)),
                            [i \in DOMAIN c.list |-> Normalize(c.list[i])])
    [] c.value # Null /\ c.op \in {"eq", "ne"} \cup DOMAIN SqlOp ->
         Good(Factor(c.col, CASE c.op = "eq" -> "=" [] c.op = "ne" -> "!=" [] OTHER -> SqlOp[c.op], 1),
              << Normalize(c.value) >>)
    [] OTHER -> Bad(400)

(* Fragments joined one after the other; a fragment that failed fails all. *)
Joined(sep, x, y) ==
  CASE x.status # 200 -> x
    [] x.status = 200 /\ y.status # 200 -> y
    [] OTHER -> Good(CASE Blank(x) -> y.text
                       [] ~Blank(x) /\ Blank(y) -> x.text
                       [] OTHER -> Join(sep, x.text, y.text), x.args \o y.args)
JoinAll(sep, parts) ==
  LET First[n \in 0..Len(parts)] ==
        IF n = 0 THEN Nothing ELSE Joined(sep, First[n - 1], parts[n])
  IN First[Len(parts)]

Closed(part) == IF part.status = 200 THEN Good(Parens(part.text), part.args) ELSE part

(* compileWhere: a node is a list of column filters or a group of nodes. *)
OrTrue(part) ==
  IF part.status = 200 /\ Blank(part) THEN Good(Constantly(TRUE), <<>>) ELSE Closed(part)
CompileLeaf(list, visible) ==
  OrTrue(JoinAll("and", [i \in DOMAIN list |->
           IF list[i].col \in visible THEN CompileOp(list[i]) ELSE Bad(400)]))

CompileGroup(kind, parts) ==
  CASE parts = <<>> -> Good(Constantly(kind = "and"), <<>>)
    [] OTHER -> Closed(JoinAll(kind, parts))

CompileWhere(node, visible) ==
  LET Compile[n \in Filters] ==
        CASE n.kind = "other" -> Good(Constantly(TRUE), <<>>)
          [] n.kind = "leaf" -> CompileLeaf(n.list, visible)
          [] OTHER -> IF n.list = NotList THEN Bad(400)
                      ELSE CompileGroup(n.kind, [i \in DOMAIN n.list |-> Compile[n.list[i]]])
  IN Compile[node]

(* The tenant, the policy and the filter, each a conjunct. *)
TenantPart(by) == Good(Factor("tenant", "=", 1), <<by.tenant>>)
UsingPart(p, by) ==
  IF p.using = Null THEN Nothing ELSE Closed(CompileUsing(p.using, by))
FilterPart(d, p, body) ==
  IF body.where = Null THEN Nothing ELSE CompileWhere(body.where, AllowedColumns(d, p))

Where(d, p, by, body) ==
  JoinAll("and", <<TenantPart(by), UsingPart(p, by), FilterPart(d, p, body)>>)

(* The columns of the answer, and the values a row gives them. *)
Shown(d, p, body) ==
  IF body.select = <<>> THEN AllowedColumns(d, p) ELSE ToSet(body.select)

AsBoolNonZero(v) == CASE v = Null -> Null [] v = 0 -> False [] OTHER -> True
AsBool(v) == CASE v = Null -> Null [] v = 1 -> True [] OTHER -> False
Value(c, row) == IF c \in Booleans THEN AsBool(row[c]) ELSE row[c]

(* limit and offset: JSON numbers, made an int.  Go leaves open what becomes  *)
(* of a number that no int can hold.                                         *)
ToInt(raw) == IF raw <= IntMax THEN raw ELSE Overflow
Limit(raw) ==
  CASE raw \in Int /\ raw > 0 -> IF ToInt(raw) > MaxRows THEN MaxRows ELSE ToInt(raw)
    [] raw = Tiny -> 0
    [] OTHER -> DefaultRows
Offset(raw) == IF raw \in Nat THEN ToInt(raw) ELSE 0

(* The answer over the rows T of the table.  An empty list of columns is a   *)
(* syntax error of the database.                                             *)
SortColumns(body) == {body.sort[i].col : i \in DOMAIN body.sort}
Refused(body) == ~Lenient /\ (Limit(body.limit) < 0 \/ Offset(body.offset) < 0)

Status(d, p, by, body) ==
  LET visible  == AllowedColumns(d, p)
      where == Where(d, p, by, body)
  IN CASE ~(ToSet(body.select) \subseteq visible) -> 400
       [] ToSet(body.select) \subseteq visible /\ where.status # 200 -> where.status
       [] OTHER -> IF ~(SortColumns(body) \subseteq visible) THEN 400
                   ELSE IF Shown(d, p, body) = {} \/ Refused(body) THEN 500 ELSE 200

Matches(d, p, by, body, T) ==
  LET where == Where(d, p, by, body) IN {row \in T : Holds(where.text, where.args, row)}

(* ORDER BY: the first column that differs decides.  Rows that differ in no   *)
(* column of the sort come in any order, which the next query may change.    *)
Differ(sort, x, y) == {i \in DOMAIN sort : x[sort[i].col] # y[sort[i].col]}
Less(entry, x, y)  == IF entry.desc THEN Rank[y[entry.col]] < Rank[x[entry.col]]
                      ELSE Rank[x[entry.col]] < Rank[y[entry.col]]
PrecedesByFirst(sort, x, y) == sort # <<>> /\ Less(sort[1], x, y)
Precedes(sort, x, y) ==
  \E i \in Differ(sort, x, y) : Less(sort[i], x, y) /\ \A j \in Differ(sort, x, y) : i <= j
Orders(sort, S) ==
  {order \in Bijection(1..Cardinality(S), S) :
     \A i, j \in 1..Cardinality(S) : Precedes(sort, order[i], order[j]) => i < j}

(* LIMIT and OFFSET: the places of n rows they leave.  A negative limit is   *)
(* none, a negative offset is 0.                                             *)
Places(limit, offset, n) ==
  {i \in 1..n : offset < i /\ (limit < 0 \/ i <= limit + IF offset < 0 THEN 0 ELSE offset)}
Page(order, limit, offset) == {order[i] : i \in Places(limit, offset, Cardinality(DOMAIN order))}

Answer(d, p, body, row) ==
  [c \in Shown(d, p, body) |-> Value(c, row)]
=============================================================================
