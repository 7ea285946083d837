------------------------------ MODULE MCQuery ------------------------------
(***************************************************************************)
(* Query and Answers for TLC: a definition and its next edition with one   *)
(* more column, a role's policy and the fallback with a text for each      *)
(* edition, three callers, and bodies for every branch of the compiler.    *)
(***************************************************************************)
EXTENDS Answers, TLC

CONSTANTS h1, h2, q1, board, tasks, owner, done, points, user, anyone, t1, t2, alice, bob, none, null

MCHandlers == {h1, h2}
Symmetry   == Permutations(MCHandlers)
MCPolicies == {Key(board, user), Key(board, anyone)}
MCDefinitions == {[name |-> board, table |-> tasks, cols |-> {owner, done}],
                  [name |-> board, table |-> tasks, cols |-> {owner, done, points}]}
MCCallers == {[tenant |-> t1, uid |-> alice, role |-> user],
              [tenant |-> t1, uid |-> Null, role |-> user],
              [tenant |-> t2, uid |-> bob, role |-> Null]}

(* owner = :auth_uid OR owner IS NULL; tenant = :auth_tenant AND owner = :auth_uid. *)
Using(single, text, names) == [single |-> single, text |-> text, names |-> names]
OwnOrFree == Using(TRUE, Join("or", Factor(owner, "=", 1), Factor(owner, "IS NULL", 0)), <<"uid">>)
OwnHere   == Using(TRUE, Join("and", Factor("tenant", "=", 1), Factor(owner, "=", 1)), <<"tenant", "uid">>)
TwoParts  == Using(FALSE, Empty, <<>>)

Says(using, allow, deny) == [using |-> using, allow |-> allow, deny |-> deny]
MCPolicyOf == [k \in MCPolicies |->
  IF k.role = user
  THEN << Says(OwnOrFree, {}, {points}), Says(OwnHere, {}, {}),
          Says(OwnOrFree, {done, points}, {"id", points}), Says(OwnHere, {points}, {}) >>
  ELSE << Says(Null, {}, {owner}), Says(TwoParts, {}, {}),
          Says(Null, {points}, {"id", points}), Says(OwnOrFree, {}, {owner}) >>]

F(col, op, value) == [col |-> col, op |-> op, value |-> value, list |-> NotList]
In(col, list) == [col |-> col, op |-> "in", value |-> NotList, list |-> list]
Leaf(list) == [kind |-> "leaf", list |-> list]
All(list)  == [kind |-> "and", list |-> list]
Some(list) == [kind |-> "or", list |-> list]
IsDone     == Leaf(<<F(done, "eq", True)>>)
IsBobs     == Leaf(<<F(owner, "eq", bob)>>)
IsAlices   == Leaf(<<F(owner, "eq", alice)>>)
IsMany     == Leaf(<<F(points, "gt", 1)>>)
IsUpdated  == Leaf(<<F("updated_at", "eq", 1)>>)
IsEither   == Leaf(<<In(done, <<False, 1>>)>>)
DoneOrBobs == Some(<<IsDone, IsBobs>>)
DoneAlices == All(<<IsDone, IsAlices>>)
MCFilters ==
  {Leaf(<<>>), [kind |-> "other"], All(<<>>), Some(<<>>), All(NotList), IsDone,
   Leaf(<<F(done, "ne", True)>>), Leaf(<<F(done, "eq", False)>>), Leaf(<<F(owner, "eq", Null)>>),
   Leaf(<<F(owner, "ne", Null), F(points, "lte", 1)>>), Leaf(<<F(points, "gt", Null)>>),
   Leaf(<<In(owner, <<alice, Null>>)>>), Leaf(<<In(done, <<>>)>>),
   Leaf(<<In(done, NotList)>>), Leaf(<<F(done, "between", 1)>>), Leaf(<<F("id", "eq", 1)>>),
   IsBobs, IsAlices, IsMany, IsUpdated, IsEither, Leaf(<<F(points, "eq", True)>>),
   Some(<<IsDone, IsMany>>), DoneOrBobs, DoneAlices, All(<<DoneOrBobs, IsUpdated>>),
   Some(<<DoneAlices, IsEither>>)}
RECURSIVE Nested(_)
Nested(node) ==
  IF node.kind \in {"and", "or"} /\ node.list # NotList
  THEN 1 + Max({0} \cup {Nested(node.list[i]) : i \in DOMAIN node.list})
  ELSE 0
MCDepth  == [node \in MCFilters |-> Nested(node)]
MCValues == {Null, True, False, Tiny, -1, 0, 1, 2, 3, 4, 5, 9, alice, bob, t1, t2, user}

MCIntMax   == 8
MCOverflow == -MCIntMax - 1   \* as on amd64
MCRank == [v \in MCValues |->
  CASE v = Null -> -2 [] v \in Int -> v [] OTHER -> 10 + CHOOSE i \in 1..9 :
    v = <<True, False, Tiny, alice, bob, t1, t2, user, Tiny>>[i]]

By(col, desc) == [col |-> col, desc |-> desc]
Plain == [select |-> <<>>, where |-> Null, sort |-> <<>>, limit |-> Null, offset |-> Null]
MCBodies ==
  {[Plain EXCEPT !.where = w] : w \in MCFilters}
    \cup {[Plain EXCEPT !.select = <<c>>, !.where = IsDone] : c \in {"id", done, points}}
    \cup {[Plain EXCEPT !.sort = <<By(c, FALSE)>>] : c \in {owner, points}}
    \cup {[Plain EXCEPT !.limit = n, !.sort = <<By(done, TRUE), By("updated_at", FALSE)>>] :
             n \in {Null, -1, 0, Tiny, 1, 2, 3, 4, MCIntMax + 1}}
    \cup {[Plain EXCEPT !.offset = n] : n \in {1, MCIntMax + 1}}

Number == [o \in {alice, bob, Null} |-> CASE o = alice -> 0 [] o = bob -> 1 [] o = Null -> 2]
MCRows == {[c \in {"tenant", "id", "updated_at", owner, done, points} |->
             CASE c = "tenant" -> t [] c = owner -> o [] c = done -> d [] c = points -> p
               [] c = "id" -> Number[o] + IF p = 1 THEN 0 ELSE 3
               [] c = "updated_at" -> 3 - Number[o]] :
             t \in {t1, t2}, o \in {alice, bob, Null}, d \in {0, 1, 2, Null}, p \in {1, 5}}
Busy == {row \in MCRows : row["id"] <= 3 /\ row[done] = IF row[points] = 1 THEN 1 ELSE Null}
MCContents == {Busy, {row \in Busy : row["tenant"] = t2}, {}}
=============================================================================
