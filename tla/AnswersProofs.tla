--------------------------- MODULE AnswersProofs ----------------------------
(***************************************************************************)
(* Theorems about Answers, for every table, filter, body, policy and       *)
(* caller: what the SELECT of a query answers.  A text is followed through *)
(* every join with the places of its holes: what is pasted behind it       *)
(* leaves its arguments alone, and what is parenthesised stays one         *)
(* conjunct.  By induction on how deep a filter is nested, what it         *)
(* compiles to says what it means, in visible columns only; the tenant,    *)
(* the policy and the filter are then three conjuncts of the WHERE.        *)
(***************************************************************************)
EXTENDS Answers, RegistryProofs, SequenceTheorems, WellFoundedInduction

-----------------------------------------------------------------------------
(***************************************************************************)
(* Recursion on a depth.                                                   *)
(***************************************************************************)
(* Of what there is, something is nested least deep. *)
LEMMA LeastDeep ==
  ASSUME NEW S, NEW D \in [S -> Nat], NEW T \in SUBSET S, T # {}
  PROVE  \E x \in T : \A y \in T : ~(D[y] < D[x])
<1> DEFINE W == {D[x] : x \in T}
           R == OpToRel(<, Nat)
<1>1. IsWellFoundedOn(R, Nat)
  BY NatLessThanWellFounded
<1>2. W \subseteq Nat /\ W # {}
  OBVIOUS
<1>3. PICK d \in W : \A e \in W : ~ (<<e, d>> \in R)
  <2> HIDE DEF R, W
  <2> QED
    BY <1>1, <1>2, WFMin
<1>4. \A e \in W : ~(e < d)
  BY <1>2, <1>3 DEF OpToRel
<1>5. PICK x \in T : d = D[x]
  OBVIOUS
<1> QED
  BY <1>4, <1>5

(* What is so of each n when it is so of all that is less deep, is so of all. *)
LEMMA DepthInduction ==
  ASSUME NEW S, NEW D \in [S -> Nat], NEW T,
         \A n \in S : (\A m \in S : D[m] < D[n] => m \in T) => n \in T
  PROVE  S \subseteq T
<1> DEFINE W == S \ T
<1>1. SUFFICES ASSUME W # {} PROVE FALSE
  OBVIOUS
<1>2. PICK n \in W : \A m \in W : ~(D[m] < D[n])
  <2>1. W \in SUBSET S
    OBVIOUS
  <2> HIDE DEF W
  <2> QED
    BY <1>1, <2>1, LeastDeep
<1> QED
  BY <1>2

(* What is so of 0, and of n when it is so of n - 1, is so up to N. *)
LEMMA Climb ==
  ASSUME NEW N \in Nat, NEW T, 0 \in T, \A n \in 1..N : n - 1 \in T => n \in T
  PROVE  \A n \in 0..N : n \in T
<1> DEFINE S == 0..N
           D == [n \in S |-> n]
<1>1. D \in [S -> Nat]
  OBVIOUS
<1>2. ASSUME NEW n \in S, \A m \in S : D[m] < D[n] => m \in T
      PROVE  n \in T
  <2>1. CASE n = 0
    BY <2>1
  <2>2. CASE n # 0
    <3>1. n \in 1..N /\ n - 1 \in S /\ n - 1 < n
      BY <2>2
    <3> QED
      BY <1>2, <3>1
  <2> QED
    BY <2>1, <2>2
<1>3. S \subseteq T
  <2> HIDE DEF S, D
  <2> QED
    BY <1>1, <1>2, DepthInduction
<1> QED
  BY <1>3

(* A definition by recursion on the depth has a solution.  step says what    *)
(* the value at n is, from the values at what is less deep than n.           *)
Descends(S, D, X, step) ==
  /\ step \in [[S -> X] \X S -> X]
  /\ \A f \in [S -> X], g \in [S -> X], n \in S :
       (\A m \in S : D[m] < D[n] => f[m] = g[m]) => step[<<f, n>>] = step[<<g, n>>]

Obeys(S, step, f) == \A n \in S : f[n] = step[<<f, n>>]

(* Such a definition has a solution. *)
LEMMA RecursionExists ==
  ASSUME NEW S, NEW D \in [S -> Nat], NEW X, X # {}, NEW step, Descends(S, D, X, step)
  PROVE  \E f \in [S -> X] : Obeys(S, step, f)
<1>0. /\ step \in [[S -> X] \X S -> X]
      /\ \A f \in [S -> X], g \in [S -> X], n \in S :
           (\A m \in S : D[m] < D[n] => f[m] = g[m]) => step[<<f, n>>] = step[<<g, n>>]
  BY DEF Descends
<1> USE <1>0
<1> DEFINE Solves(f, d) == \A n \in S : D[n] < d => f[n] = step[<<f, n>>]
<1>1. \A d \in Nat : \E f \in [S -> X] : Solves(f, d)
  <2> DEFINE W == {d \in Nat : ~\E f \in [S -> X] : Solves(f, d)}
             id == [d \in Nat |-> d]
  <2>1. SUFFICES ASSUME W # {} PROVE FALSE
    OBVIOUS
  <2>2. PICK d \in W : \A e \in W : ~(e < d)
    <3>1. id \in [Nat -> Nat] /\ W \in SUBSET Nat
      OBVIOUS
    <3> HIDE DEF W, id
    <3>2. PICK x \in W : \A y \in W : ~(id[y] < id[x])
      BY <2>1, <3>1, LeastDeep
    <3> QED
      BY <3>1, <3>2 DEF id
  <2>3. CASE d = 0
    <3>1. PICK x : x \in X
      OBVIOUS
    <3>2. [n \in S |-> x] \in [S -> X]
      BY <3>1
    <3>3. Solves([n \in S |-> x], 0)
      <4>1. \A n \in S : ~(D[n] < 0)
        OBVIOUS
      <4> QED
        BY <4>1
    <3> HIDE DEF Solves
    <3> QED
      BY <2>3, <3>2, <3>3
  <2>4. CASE d # 0
    <3>1. d - 1 \in Nat /\ d - 1 < d /\ d - 1 \notin W
      <4>1. d \in Nat
        OBVIOUS
      <4> HIDE DEF W
      <4> QED
        BY <2>2, <2>4, <4>1
    <3>2. PICK f \in [S -> X] : Solves(f, d - 1)
      <4> HIDE DEF Solves
      <4> QED
        BY <3>1
    <3> DEFINE g == [n \in S |-> step[<<f, n>>]]
    <3>3. g \in [S -> X]
      OBVIOUS
    <3>4. ASSUME NEW n \in S, D[n] < d
          PROVE  g[n] = step[<<g, n>>]
      <4>1. ASSUME NEW m \in S, D[m] < D[n]
            PROVE  f[m] = g[m]
        <5>1. D[m] < d - 1
          BY <3>4, <4>1
        <5> QED
          BY <3>2, <5>1
      <4>2. step[<<f, n>>] = step[<<g, n>>]
        <5> HIDE DEF g
        <5> QED
          BY <3>3, <4>1
      <4> QED
        BY <4>2
    <3>5. Solves(g, d)
      BY <3>4
    <3> QED
      BY <3>3, <3>5
  <2> QED
    BY <2>3, <2>4
<1>2. ASSUME NEW f \in [S -> X], NEW g \in [S -> X], NEW d \in Nat, Solves(f, d), Solves(g, d),
             NEW n \in S, D[n] < d
      PROVE  f[n] = g[n]
  <2> DEFINE T == {m \in S : D[m] < d /\ f[m] # g[m]}
  <2>1. SUFFICES ASSUME T # {} PROVE FALSE
    BY <1>2
  <2>2. PICK m \in T : \A k \in T : ~(D[k] < D[m])
    <3>1. T \in SUBSET S
      OBVIOUS
    <3> HIDE DEF T
    <3> QED
      BY <2>1, <3>1, LeastDeep
  <2>3. \A k \in S : D[k] < D[m] => f[k] = g[k]
    BY <2>2
  <2>4. step[<<f, m>>] = step[<<g, m>>]
    BY <2>3
  <2> QED
    BY <1>2, <2>4
<1> DEFINE Chosen(n) == CHOOSE f \in [S -> X] : Solves(f, D[n] + 1)
           h == [n \in S |-> Chosen(n)[n]]
<1>3. ASSUME NEW n \in S
      PROVE  Chosen(n) \in [S -> X] /\ Solves(Chosen(n), D[n] + 1)
  <2>1. D[n] + 1 \in Nat
    OBVIOUS
  <2>2. \E f \in [S -> X] : Solves(f, D[n] + 1)
    BY <1>1, <2>1
  <2> HIDE DEF Solves
  <2> QED
    BY <2>2
<1>4. h \in [S -> X]
  <2>1. \A n \in S : Chosen(n)[n] \in X
    BY <1>3
  <2> HIDE DEF Chosen
  <2> QED
    BY <2>1
<1>5. ASSUME NEW n \in S
      PROVE  h[n] = step[<<h, n>>]
  <2> DEFINE f == Chosen(n)
  <2>1. f \in [S -> X] /\ Solves(f, D[n] + 1)
    BY <1>3
  <2>2. f[n] = step[<<f, n>>]
    <3>1. D[n] < D[n] + 1
      OBVIOUS
    <3> HIDE DEF f
    <3> QED
      BY <2>1, <3>1
  <2>3. ASSUME NEW m \in S, D[m] < D[n]
        PROVE  f[m] = h[m]
    <3> DEFINE g == Chosen(m)
    <3>1. g \in [S -> X] /\ Solves(g, D[m] + 1)
      BY <1>3
    <3> HIDE DEF f, g
    <3>2. Solves(f, D[m] + 1)
      BY <2>1, <2>3
    <3>3. D[m] + 1 \in Nat /\ D[m] < D[m] + 1
      OBVIOUS
    <3>4. f[m] = g[m]
      <4> HIDE DEF Solves
      <4> QED
        BY <1>2, <2>1, <3>1, <3>2, <3>3
    <3> QED
      BY <3>4 DEF g
  <2>4. h[n] = f[n]
    OBVIOUS
  <2>5. step[<<f, n>>] = step[<<h, n>>]
    <3> HIDE DEF f, h
    <3> QED
      BY <1>4, <2>1, <2>3
  <2> QED
    BY <2>2, <2>4, <2>5
<1> HIDE DEF h
<1> QED
  BY <1>4, <1>5 DEF Obeys

-----------------------------------------------------------------------------
(***************************************************************************)
(* Texts and the places of their holes.                                    *)
(***************************************************************************)
(* The factors of a text with n holes, and such texts. *)
Pieces   == UNION {[at: Nat, holes: {k}, holds: [[1..k -> Values] -> [Rows -> BOOLEAN]]] : k \in Nat}
Fits(n)  == {f \in Pieces : f.at + f.holes <= n}
Texts(n) == {t \in [alts: Seq(Seq(Fits(n))), holes: {n}] : t.alts = <<>> => n = 0}

(* What one alternative says. *)
AltHolds(alt, args, row) == \A j \in DOMAIN alt : alt[j].holds[Given(alt[j], args)][row]
ShiftAlt(alt, n) ==
  [j \in DOMAIN alt |-> [at |-> alt[j].at + n, holes |-> alt[j].holes, holds |-> alt[j].holds]]

(* A text holds when one of its alternatives does, *)
LEMMA HoldsAlts ==
  ASSUME NEW text, NEW args, NEW row
  PROVE  Holds(text, args, row) <=> \E i \in DOMAIN text.alts : AltHolds(text.alts[i], args, row)
BY DEF Holds, AltHolds

(* and is shifted one alternative at a time. *)
LEMMA ShiftedAlts ==
  ASSUME NEW alts, NEW n
  PROVE  Shifted(alts, n) = [i \in DOMAIN alts |-> ShiftAlt(alts[i], n)]
BY DEF Shifted, ShiftAlt

(* Arguments are a sequence. *)
LEMMA ArgsAdd ==
  ASSUME NEW n \in Nat, NEW m \in Nat, NEW a \in [1..n -> Values], NEW b \in [1..m -> Values]
  PROVE  /\ a \o b \in [1..(n + m) -> Values]
         /\ \A k \in 1..n : (a \o b)[k] = a[k]
         /\ \A k \in 1..m : (a \o b)[n + k] = b[k]
<1>1. a \in Seq(Values) /\ b \in Seq(Values) /\ Len(a) = n /\ Len(b) = m
  BY SeqDef, LenProperties
<1>2. /\ a \o b \in Seq(Values) /\ Len(a \o b) = n + m
      /\ \A i \in 1 .. n + m : (a \o b)[i] = IF i <= n THEN a[i] ELSE b[i - n]
  BY <1>1, ConcatProperties
<1>3. a \o b \in [1..(n + m) -> Values]
  BY <1>2, LenProperties
<1>4. \A k \in 1..n : (a \o b)[k] = a[k]
  BY <1>2
<1>5. \A k \in 1..m : (a \o b)[n + k] = b[k]
  BY <1>2
<1> QED
  BY <1>3, <1>4, <1>5

(* What a factor is made of, *)
LEMMA PieceFacts ==
  ASSUME NEW f \in Pieces
  PROVE  /\ f.at \in Nat /\ f.holes \in Nat
         /\ f.holds \in [[1..f.holes -> Values] -> [Rows -> BOOLEAN]]
         /\ f = [at |-> f.at, holes |-> f.holes, holds |-> f.holds]
<1>1. PICK k \in Nat : f \in [at: Nat, holes: {k}, holds: [[1..k -> Values] -> [Rows -> BOOLEAN]]]
  BY DEF Pieces
<1> QED
  BY <1>1

(* and what makes one. *)
LEMMA IsPiece ==
  ASSUME NEW at \in Nat, NEW k \in Nat, NEW holds \in [[1..k -> Values] -> [Rows -> BOOLEAN]]
  PROVE  [at |-> at, holes |-> k, holds |-> holds] \in Pieces
<1> DEFINE Of(j) == [at: Nat, holes: {j}, holds: [[1..j -> Values] -> [Rows -> BOOLEAN]]]
<1>1. [at |-> at, holes |-> k, holds |-> holds] \in Of(k)
  OBVIOUS
<1> HIDE DEF Of
<1>2. [at |-> at, holes |-> k, holds |-> holds] \in UNION {Of(j) : j \in Nat}
  BY <1>1
<1> QED
  BY <1>2 DEF Of, Pieces

(* What is pasted behind a text leaves the text as it was, *)
LEMMA AltKept ==
  ASSUME NEW n \in Nat, NEW m \in Nat, NEW a \in [1..n -> Values], NEW b \in [1..m -> Values],
         NEW alt \in Seq(Fits(n)), NEW row
  PROVE  AltHolds(alt, a \o b, row) <=> AltHolds(alt, a, row)
<1>1. ASSUME NEW j \in DOMAIN alt
      PROVE  Given(alt[j], a \o b) = Given(alt[j], a)
  <2> DEFINE f == alt[j]
  <2>1. f \in Fits(n)
    BY LenProperties
  <2> HIDE DEF f
  <2>2. f.at \in Nat /\ f.holes \in Nat /\ f.at + f.holes <= n
    BY <2>1, PieceFacts DEF Fits
  <2>3. \A k \in 1..f.holes : (a \o b)[f.at + k] = a[f.at + k]
    BY <2>2, ArgsAdd
  <2>4. Given(f, a \o b) = Given(f, a)
    BY <2>3 DEF Given
  <2> QED
    BY <2>4 DEF f
<1> QED
  BY <1>1 DEF AltHolds

(* and what is pasted behind it is as it was, its holes counted from there. *)
LEMMA AltShifted ==
  ASSUME NEW n \in Nat, NEW m \in Nat, NEW a \in [1..n -> Values], NEW b \in [1..m -> Values],
         NEW alt \in Seq(Fits(m)), NEW row
  PROVE  /\ AltHolds(ShiftAlt(alt, n), a \o b, row) <=> AltHolds(alt, b, row)
         /\ ShiftAlt(alt, n) \in Seq(Fits(n + m))
         /\ Len(ShiftAlt(alt, n)) = Len(alt) /\ DOMAIN ShiftAlt(alt, n) = DOMAIN alt
<1> DEFINE new == ShiftAlt(alt, n)
<1>1. DOMAIN new = DOMAIN alt /\ DOMAIN alt = 1..Len(alt) /\ Len(alt) \in Nat
  BY LenProperties DEF ShiftAlt
<1>2. ASSUME NEW j \in DOMAIN alt
      PROVE  /\ new[j] \in Fits(n + m)
             /\ Given(new[j], a \o b) = Given(alt[j], b) /\ new[j].holds = alt[j].holds
  <2> DEFINE f == alt[j]
             g == [at |-> f.at + n, holes |-> f.holes, holds |-> f.holds]
  <2>1. f \in Fits(m)
    BY LenProperties
  <2>2. new[j] = g
    BY DEF ShiftAlt
  <2> HIDE DEF f
  <2>3. /\ f.at \in Nat /\ f.holes \in Nat /\ f.at + f.holes <= m
        /\ f.holds \in [[1..f.holes -> Values] -> [Rows -> BOOLEAN]]
    BY <2>1, PieceFacts DEF Fits
  <2>4. g \in Pieces
    <3>1. f.at + n \in Nat
      BY <2>3
    <3> QED
      BY <2>3, <3>1, IsPiece
  <2>5. g \in Fits(n + m)
    BY <2>3, <2>4 DEF Fits
  <2>6. \A k \in 1..f.holes : (a \o b)[f.at + n + k] = b[f.at + k]
    <3> SUFFICES ASSUME NEW k \in 1..f.holes PROVE (a \o b)[f.at + n + k] = b[f.at + k]
      OBVIOUS
    <3>1. f.at + k \in 1..m /\ f.at + n + k = n + (f.at + k)
      <4> DEFINE i == f.at
                 h == f.holes
      <4>1. i \in Nat /\ h \in Nat /\ i + h <= m /\ k \in 1..h
        BY <2>3
      <4> HIDE DEF i, h
      <4>2. i + k \in 1..m /\ i + n + k = n + (i + k)
        BY <4>1
      <4> QED
        BY <4>2 DEF i
    <3>2. (a \o b)[n + (f.at + k)] = b[f.at + k]
      BY <3>1, ArgsAdd
    <3> QED
      BY <3>1, <3>2
  <2>7. Given(g, a \o b) = Given(f, b)
    BY <2>6 DEF Given
  <2> HIDE DEF new
  <2> QED
    BY <2>2, <2>5, <2>7 DEF f
<1>3. AltHolds(new, a \o b, row) <=> AltHolds(alt, b, row)
  <2> HIDE DEF new
  <2> QED
    BY <1>1, <1>2 DEF AltHolds
<1>4. new \in [1..Len(alt) -> Fits(n + m)]
  <2>1. new = [j \in 1..Len(alt) |-> new[j]]
    BY <1>1 DEF ShiftAlt
  <2> HIDE DEF new
  <2> QED
    BY <1>1, <1>2, <2>1
<1>5. new \in Seq(Fits(n + m))
  <2> HIDE DEF new
  <2> QED
    BY <1>1, <1>4, SeqDef
<1>6. Len(new) = Len(alt)
  <2> HIDE DEF new
  <2> QED
    BY <1>1, <1>5, LenProperties
<1> QED
  BY <1>1, <1>3, <1>5, <1>6

(* A factor that fits n holes fits more. *)
LEMMA FitsMore ==
  ASSUME NEW n \in Nat, NEW m \in Nat
  PROVE  Fits(n) \subseteq Fits(n + m) /\ Seq(Fits(n)) \subseteq Seq(Fits(n + m))
<1>1. ASSUME NEW f \in Fits(n) PROVE f \in Fits(n + m)
  <2>1. f \in Pieces /\ f.at + f.holes <= n /\ f.at \in Nat /\ f.holes \in Nat
    BY PieceFacts DEF Fits
  <2>2. f.at + f.holes <= n + m
    BY <2>1
  <2> QED
    BY <2>1, <2>2 DEF Fits
<1>2. Fits(n) \subseteq Fits(n + m)
  BY <1>1
<1>3. ASSUME NEW s \in Seq(Fits(n)) PROVE s \in Seq(Fits(n + m))
  BY <1>2, SeqMonotonic
<1> QED
  BY <1>2, <1>3

(* One sequence behind another. *)
LEMMA Behind ==
  ASSUME NEW S, NEW s \in Seq(S), NEW t \in Seq(S)
  PROVE  /\ s \o t \in Seq(S) /\ Len(s \o t) = Len(s) + Len(t)
         /\ Len(s) \in Nat /\ Len(t) \in Nat /\ DOMAIN s = 1..Len(s) /\ DOMAIN t = 1..Len(t)
         /\ DOMAIN (s \o t) = 1..Len(s) + Len(t)
         /\ \A i \in 1..Len(s) : (s \o t)[i] = s[i]
         /\ \A i \in 1..Len(t) : (s \o t)[Len(s) + i] = t[i]
<1> DEFINE N == Len(s)
           M == Len(t)
           u == s \o t
<1>1. N \in Nat /\ M \in Nat /\ DOMAIN s = 1..N /\ DOMAIN t = 1..M
  BY LenProperties
<1>2. u \in Seq(S) /\ Len(u) = N + M /\ \A i \in 1..N + M : u[i] = IF i <= N THEN s[i] ELSE t[i - N]
  BY ConcatProperties
<1>3. DOMAIN u = 1..N + M
  <2> HIDE DEF u
  <2> QED
    BY <1>2, LenProperties
<1> HIDE DEF u, N, M
<1>4. \A i \in 1..N : u[i] = s[i]
  BY <1>1, <1>2
<1>5. ASSUME NEW i \in 1..M
      PROVE  u[N + i] = t[i]
  <2>1. PICK k \in 1..N + M : k = N + i
    BY <1>1
  <2>2. ~(k <= N) /\ k - N = i
    BY <1>1, <2>1
  <2>3. u[k] = t[k - N]
    BY <1>2, <2>2
  <2> QED
    BY <2>1, <2>2, <2>3
<1> QED
  BY <1>1, <1>2, <1>3, <1>4, <1>5 DEF u, N, M

(* The alternatives of the text pasted behind. *)
LEMMA ShiftedFacts ==
  ASSUME NEW n \in Nat, NEW m \in Nat, NEW a \in [1..n -> Values], NEW b \in [1..m -> Values],
         NEW alts \in Seq(Seq(Fits(m)))
  PROVE  /\ Shifted(alts, n) \in Seq(Seq(Fits(n + m)))
         /\ Len(Shifted(alts, n)) = Len(alts)
         /\ \A i \in 1..Len(alts) : \A row : AltHolds(Shifted(alts, n)[i], a \o b, row) <=> AltHolds(alts[i], b, row)
<1> DEFINE new == Shifted(alts, n)
<1>1. Len(alts) \in Nat /\ DOMAIN alts = 1..Len(alts)
  BY LenProperties
<1>2. new = [i \in 1..Len(alts) |-> ShiftAlt(alts[i], n)]
  BY <1>1, ShiftedAlts
<1> HIDE DEF new
<1>3. ASSUME NEW i \in 1..Len(alts)
      PROVE  /\ new[i] \in Seq(Fits(n + m))
             /\ \A row : AltHolds(new[i], a \o b, row) <=> AltHolds(alts[i], b, row)
  <2>1. alts[i] \in Seq(Fits(m))
    BY ElementOfSeq
  <2>2. new[i] = ShiftAlt(alts[i], n)
    BY <1>2
  <2>3. ASSUME NEW row
        PROVE  /\ AltHolds(new[i], a \o b, row) <=> AltHolds(alts[i], b, row)
               /\ new[i] \in Seq(Fits(n + m))
    <3> DEFINE alt == alts[i]
    <3> HIDE DEF alt
    <3>1. /\ AltHolds(ShiftAlt(alt, n), a \o b, row) <=> AltHolds(alt, b, row)
          /\ ShiftAlt(alt, n) \in Seq(Fits(n + m))
      BY <2>1, AltShifted DEF alt
    <3> QED
      BY <2>2, <3>1 DEF alt
  <2> QED
    BY <2>3
<1> DEFINE S == Seq(Fits(n + m))
<1>4. new \in [1..Len(alts) -> S]
  BY <1>2, <1>3
<1>5. new \in Seq(S) /\ Len(new) = Len(alts)
  <2> HIDE DEF S
  <2>1. PICK l \in Nat : l = Len(alts)
    BY <1>1
  <2>2. new \in [1..l -> S]
    BY <1>4, <2>1
  <2>3. new \in Seq(S)
    BY <2>2, SeqDef
  <2> QED
    BY <2>1, <2>2, <2>3, LenProperties
<1> QED
  BY <1>3, <1>5 DEF new

(* What a text is made of, *)
LEMMA TextFacts ==
  ASSUME NEW n \in Nat, NEW t \in Texts(n)
  PROVE  /\ t.alts \in Seq(Seq(Fits(n))) /\ t.holes = n
         /\ Len(t.alts) \in Nat /\ DOMAIN t.alts = 1..Len(t.alts)
         /\ t.alts = <<>> => n = 0
         /\ t.alts = <<>> <=> Len(t.alts) = 0
<1>1. t.alts \in Seq(Seq(Fits(n))) /\ t.holes = n /\ (t.alts = <<>> => n = 0)
  BY DEF Texts
<1> QED
  BY <1>1, LenProperties, EmptySeq

(* and what makes one. *)
LEMMA IsText ==
  ASSUME NEW n \in Nat, NEW alts \in Seq(Seq(Fits(n))), alts # <<>> \/ n = 0
  PROVE  [alts |-> alts, holes |-> n] \in Texts(n)
BY DEF Texts

(* Texts joined by OR hold where one of them does. *)
LEMMA JoinOr ==
  ASSUME NEW n \in Nat, NEW m \in Nat, NEW a \in [1..n -> Values], NEW b \in [1..m -> Values],
         NEW x \in Texts(n), NEW y \in Texts(m), x.alts # <<>>
  PROVE  /\ Join("or", x, y) \in Texts(n + m) /\ Join("or", x, y).alts # <<>>
         /\ \A row : Holds(Join("or", x, y), a \o b, row) <=> Holds(x, a, row) \/ Holds(y, b, row)
<1> DEFINE xs == x.alts
           ys == y.alts
           rest == Shifted(ys, n)
           both == xs \o rest
           S == Seq(Fits(n + m))
           N == Len(xs)
           M == Len(ys)
           joined == Join("or", x, y)
<1>1. /\ xs \in Seq(Seq(Fits(n))) /\ x.holes = n /\ DOMAIN xs = 1..N /\ xs # <<>>
      /\ ys \in Seq(Seq(Fits(m))) /\ y.holes = m /\ DOMAIN ys = 1..M
      /\ N \in Nat /\ M \in Nat /\ N # 0
  BY TextFacts
<1>2. joined = [alts |-> both, holes |-> n + m]
  BY <1>1 DEF Join
<1>3. \A args, row : /\ Holds(x, args, row) <=> \E i \in 1..N : AltHolds(xs[i], args, row)
                     /\ Holds(y, args, row) <=> \E i \in 1..M : AltHolds(ys[i], args, row)
  <2> SUFFICES ASSUME NEW args, NEW row
               PROVE  /\ Holds(x, args, row) <=> \E i \in 1..N : AltHolds(xs[i], args, row)
                      /\ Holds(y, args, row) <=> \E i \in 1..M : AltHolds(ys[i], args, row)
    OBVIOUS
  <2> QED
    BY <1>1, HoldsAlts
<1>4. joined.alts = both
  <2> HIDE DEF both, joined
  <2> QED
    BY <1>2
<1> HIDE DEF xs, ys, joined
<1>5. /\ rest \in Seq(S) /\ Len(rest) = M
      /\ \A i \in 1..M : \A row : AltHolds(rest[i], a \o b, row) <=> AltHolds(ys[i], b, row)
  <2> HIDE DEF S
  <2>1. /\ rest \in Seq(S) /\ Len(rest) = Len(ys)
        /\ \A i \in 1..Len(ys) : \A row : AltHolds(rest[i], a \o b, row) <=> AltHolds(ys[i], b, row)
    <3>1. /\ Shifted(ys, n) \in Seq(Seq(Fits(n + m))) /\ Len(Shifted(ys, n)) = Len(ys)
          /\ \A i \in 1..Len(ys) : \A row : AltHolds(Shifted(ys, n)[i], a \o b, row) <=> AltHolds(ys[i], b, row)
      <4> HIDE DEF rest, N, M
      <4>1. ys \in Seq(Seq(Fits(m)))
        BY <1>1
      <4> QED
        BY <4>1, ShiftedFacts
    <3> QED
      BY <3>1 DEF S
  <2> QED
    BY <2>1
<1>6. xs \in Seq(S)
  <2>1. Seq(Fits(n)) \subseteq S
    BY FitsMore
  <2> HIDE DEF S
  <2> QED
    BY <1>1, <2>1, SeqMonotonic
<1>7. ASSUME NEW i \in 1..N, NEW row
      PROVE  AltHolds(xs[i], a \o b, row) <=> AltHolds(xs[i], a, row)
  <2>1. xs[i] \in Seq(Fits(n))
    BY <1>1, ElementOfSeq
  <2> QED
    BY <2>1, AltKept
<1> HIDE DEF rest, S
<1>8. /\ both \in Seq(S) /\ Len(both) = N + M /\ DOMAIN both = 1..N + M
      /\ \A i \in 1..N : both[i] = xs[i]
      /\ \A i \in 1..M : both[N + i] = rest[i]
  <2>1. /\ both \in Seq(S) /\ Len(both) = Len(xs) + Len(rest) /\ DOMAIN both = 1..Len(xs) + Len(rest)
        /\ \A i \in 1..Len(xs) : both[i] = xs[i]
        /\ \A i \in 1..Len(rest) : both[Len(xs) + i] = rest[i]
    <3>1. xs \in Seq(S) /\ rest \in Seq(S)
      BY <1>5, <1>6
    <3> HIDE DEF N, M
    <3> QED
      BY <3>1, Behind
  <2> HIDE DEF both
  <2> QED
    BY <1>5, <2>1
<1> HIDE DEF both, N, M
<1>9. both # <<>>
  BY <1>1, <1>8
<1>10. joined \in Texts(n + m)
  <2>1. n + m \in Nat
    OBVIOUS
  <2> QED
    BY <1>2, <1>8, <1>9, <2>1, IsText DEF S
<1>11. ASSUME NEW row
       PROVE  Holds(joined, a \o b, row) <=> Holds(x, a, row) \/ Holds(y, b, row)
  <2> DEFINE P(i) == AltHolds(both[i], a \o b, row)
  <2>1. Holds(joined, a \o b, row) <=> \E i \in 1..N + M : P(i)
    BY <1>4, <1>8, HoldsAlts
  <2>2. \A i \in 1..N : P(i) <=> AltHolds(xs[i], a, row)
    BY <1>7, <1>8
  <2>3. \A i \in 1..M : P(N + i) <=> AltHolds(ys[i], b, row)
    BY <1>5, <1>8
  <2> HIDE DEF P
  <2>4. \A i \in 1..N + M : i \in 1..N \/ (i - N \in 1..M /\ i = N + (i - N))
    BY <1>1
  <2>5. (\A i \in 1..N : i \in 1..N + M) /\ (\A i \in 1..M : N + i \in 1..N + M)
    BY <1>1
  <2>6. ASSUME NEW i \in 1..N + M, P(i)
        PROVE  Holds(x, a, row) \/ Holds(y, b, row)
    BY <1>3, <2>2, <2>3, <2>4, <2>6
  <2>7. ASSUME Holds(x, a, row) \/ Holds(y, b, row)
        PROVE  \E i \in 1..N + M : P(i)
    BY <1>3, <2>2, <2>3, <2>5, <2>7
  <2> QED
    BY <2>1, <2>6, <2>7
<1> QED
  BY <1>4, <1>9, <1>10, <1>11 DEF joined

(* The only alternative of a text. *)
LEMMA OnlyAlt ==
  ASSUME NEW n \in Nat, NEW t \in Texts(n), Len(t.alts) = 1
  PROVE  /\ t.alts = <<t.alts[1]>> /\ t.alts[1] \in Seq(Fits(n))
         /\ \A args, row : Holds(t, args, row) <=> AltHolds(t.alts[1], args, row)
<1>1. /\ t.alts \in Seq(Seq(Fits(n))) /\ DOMAIN t.alts = 1..1
  BY TextFacts
<1>2. t.alts[1] \in Seq(Fits(n))
  BY <1>1, ElementOfSeq
<1>3. t.alts = <<t.alts[1]>>
  BY <1>1, LenProperties
<1>4. ASSUME NEW args, NEW row
      PROVE  Holds(t, args, row) <=> AltHolds(t.alts[1], args, row)
  <2>1. \A i : i \in DOMAIN t.alts <=> i = 1
    BY <1>1
  <2> QED
    BY <2>1, HoldsAlts
<1> QED
  BY <1>2, <1>3, <1>4

(* Texts of one alternative each, joined by AND, hold where both do. *)
LEMMA JoinAnd ==
  ASSUME NEW n \in Nat, NEW m \in Nat, NEW a \in [1..n -> Values], NEW b \in [1..m -> Values],
         NEW x \in Texts(n), NEW y \in Texts(m), Len(x.alts) = 1, Len(y.alts) = 1
  PROVE  /\ Join("and", x, y) \in Texts(n + m) /\ Len(Join("and", x, y).alts) = 1
         /\ \A row : Holds(Join("and", x, y), a \o b, row) <=> Holds(x, a, row) /\ Holds(y, b, row)
<1> DEFINE ys == y.alts
           rest == Shifted(ys, n)
           left == x.alts[1]
           right == rest[1]
           both == left \o right
           S == Fits(n + m)
           t == [alts |-> <<both>>, holes |-> n + m]
<1>1. /\ x.alts = <<left>> /\ left \in Seq(Fits(n)) /\ ys[1] \in Seq(Fits(m))
      /\ x.holes = n /\ y.holes = m /\ ys \in Seq(Seq(Fits(m))) /\ Len(ys) = 1
  BY OnlyAlt, TextFacts
<1>2. /\ rest \in Seq(Seq(S)) /\ Len(rest) = 1
      /\ \A row : AltHolds(right, a \o b, row) <=> AltHolds(ys[1], b, row)
  <2> HIDE DEF ys
  <2>1. /\ rest \in Seq(Seq(S)) /\ Len(rest) = Len(ys)
        /\ \A i \in 1..Len(ys) : \A row : AltHolds(rest[i], a \o b, row) <=> AltHolds(ys[i], b, row)
    <3>1. /\ Shifted(ys, n) \in Seq(Seq(Fits(n + m))) /\ Len(Shifted(ys, n)) = Len(ys)
          /\ \A i \in 1..Len(ys) : \A row : AltHolds(Shifted(ys, n)[i], a \o b, row) <=> AltHolds(ys[i], b, row)
      <4> HIDE DEF rest, right, both, t
      <4>1. ys \in Seq(Seq(Fits(m)))
        BY <1>1
      <4> QED
        BY <4>1, ShiftedFacts
    <3> QED
      BY <3>1 DEF S
  <2> HIDE DEF rest
  <2>2. 1 \in 1..Len(ys)
    BY <1>1
  <2> QED
    BY <1>1, <2>1, <2>2
<1>3. left \in Seq(S) /\ right \in Seq(S)
  <2> HIDE DEF rest, left
  <2>1. 1 \in 1..Len(rest)
    BY <1>2
  <2>2. right \in Seq(S)
    <3> DEFINE Q == Seq(S)
    <3> HIDE DEF Q
    <3> QED
      BY <1>2, <2>1, ElementOfSeq DEF Q
  <2> QED
    BY <1>1, <2>2, FitsMore
<1>4. Join("and", x, y) = t
  <2> HIDE DEF rest
  <2>1. rest = <<right>>
    BY <1>2, LenProperties
  <2>2. Front(x.alts) = <<>> /\ Last(x.alts) = left
    <3> HIDE DEF left
    <3>1. Len(<<left>>) = 1
      OBVIOUS
    <3>2. SubSeq(<<left>>, 1, 0) = <<>>
      BY SubSeqEmpty
    <3> QED
      BY <1>1, <3>1, <3>2 DEF Front, Last
  <2>3. Head(rest) = right /\ Tail(rest) = <<>>
    <3> DEFINE r == right
    <3> HIDE DEF r
    <3>1. Head(<<r>>) = r /\ Tail(<<r>>) = <<>>
      OBVIOUS
    <3> QED
      BY <2>1, <3>1 DEF r
  <2>4. <<>> \o <<both>> \o <<>> = <<both>>
    <3>1. <<both>> \in Seq({both})
      OBVIOUS
    <3> HIDE DEF both
    <3> QED
      BY <3>1, ConcatEmptySeq
  <2>5. Join("and", x, y) = [alts |-> Front(x.alts) \o << Last(x.alts) \o Head(rest) >> \o Tail(rest),
                             holes |-> x.holes + y.holes]
    BY <1>1 DEF Join, rest
  <2> QED
    BY <1>1, <2>2, <2>3, <2>4, <2>5
<1> DEFINE N == Len(left)
           M == Len(right)
<1> HIDE DEF ys, rest, left, right, S
<1>5. /\ both \in Seq(S) /\ N \in Nat /\ M \in Nat
      /\ DOMAIN left = 1..N /\ DOMAIN right = 1..M /\ DOMAIN both = 1..N + M
      /\ \A i \in 1..N : both[i] = left[i]
      /\ \A i \in 1..M : both[N + i] = right[i]
  BY <1>3, Behind
<1> HIDE DEF both, N, M
<1>6. <<both>> \in Seq(Seq(S)) /\ Len(<<both>>) = 1 /\ <<both>> # <<>>
  BY <1>5
<1>7. n + m \in Nat
  OBVIOUS
<1>8. t \in Texts(n + m)
  BY <1>6, <1>7, IsText DEF S
<1>9. ASSUME NEW row
       PROVE  AltHolds(both, a \o b, row) <=> AltHolds(left, a \o b, row) /\ AltHolds(right, a \o b, row)
  <2> DEFINE P(f) == f.holds[Given(f, a \o b)][row]
  <2>1. \A i \in 1..N + M : i \in 1..N \/ (i - N \in 1..M /\ i = N + (i - N))
    BY <1>5
  <2>2. (\A i \in 1..N : i \in 1..N + M) /\ (\A i \in 1..M : N + i \in 1..N + M)
    BY <1>5
  <2>3. /\ AltHolds(both, a \o b, row) <=> \A i \in 1..N + M : P(both[i])
        /\ AltHolds(left, a \o b, row) <=> \A i \in 1..N : P(left[i])
        /\ AltHolds(right, a \o b, row) <=> \A i \in 1..M : P(right[i])
    BY <1>5 DEF AltHolds
  <2> HIDE DEF P
  <2>4. ASSUME \A i \in 1..N : P(left[i]), \A i \in 1..M : P(right[i]), NEW i \in 1..N + M
        PROVE  P(both[i])
    BY <1>5, <2>1, <2>4
  <2>5. ASSUME \A i \in 1..N + M : P(both[i])
        PROVE  (\A i \in 1..N : P(left[i])) /\ (\A i \in 1..M : P(right[i]))
    BY <1>5, <2>2, <2>5
  <2> QED
    BY <2>3, <2>4, <2>5
<1>10. ASSUME NEW row
       PROVE  Holds(t, a \o b, row) <=> Holds(x, a, row) /\ Holds(y, b, row)
  <2>1. Len(t.alts) = 1 /\ t.alts[1] = both
    OBVIOUS
  <2> HIDE DEF t
  <2>2. Holds(t, a \o b, row) <=> AltHolds(both, a \o b, row)
    BY <1>7, <1>8, <2>1, OnlyAlt
  <2>3. Holds(x, a, row) <=> AltHolds(left, a, row)
    BY OnlyAlt DEF left
  <2>4. Holds(y, b, row) <=> AltHolds(ys[1], b, row)
    BY OnlyAlt DEF ys
  <2>5. AltHolds(left, a \o b, row) <=> AltHolds(left, a, row)
    BY <1>1, AltKept
  <2> QED
    BY <1>2, <1>9, <2>2, <2>3, <2>4, <2>5
<1> QED
  BY <1>4, <1>6, <1>8, <1>10

-----------------------------------------------------------------------------
(***************************************************************************)
(* Parts: what compiling gives, and joining them.                          *)
(***************************************************************************)
(* What compiling may give: a text with its arguments, or an error.  Some    *)
(* parts are one alternative at most.                                        *)
Goods == UNION {[status: {200}, text: Texts(n), args: [1..n -> Values]] : n \in Nat}
Parts == Goods \cup {Bad(400), Bad(403)}
PartsFor(sep) == {x \in Parts : sep = "and" => Len(x.text.alts) <= 1}

(* What it says of a row, where nothing said is true, or where it is false. *)
Requires(part, row) == Blank(part) \/ Holds(part.text, part.args, row)
Offers(part, row)   == Holds(part.text, part.args, row)

(* A part without an error has an argument for each hole, *)
LEMMA GoodFacts ==
  ASSUME NEW x \in Parts, x.status = 200
  PROVE  \E n \in Nat : x.text \in Texts(n) /\ x.args \in [1..n -> Values] /\ x = Good(x.text, x.args)
<1>1. Bad(400).status = 400 /\ Bad(403).status = 403
  BY DEF Bad
<1>2. x \in Goods
  BY <1>1 DEF Parts
<1>3. PICK n \in Nat : x \in [status: {200}, text: Texts(n), args: [1..n -> Values]]
  BY <1>2 DEF Goods
<1>4. x = [status |-> 200, text |-> x.text, args |-> x.args]
  BY <1>3
<1> QED
  BY <1>3, <1>4 DEF Good

(* and that is all it takes. *)
LEMMA IsGood ==
  ASSUME NEW n \in Nat, NEW t \in Texts(n), NEW a \in [1..n -> Values]
  PROVE  /\ Good(t, a) \in Parts
         /\ Good(t, a).status = 200 /\ Good(t, a).text = t /\ Good(t, a).args = a
<1> DEFINE Of(k) == [status: {200}, text: Texts(k), args: [1..k -> Values]]
<1>1. Good(t, a) \in Of(n)
  BY DEF Good
<1> HIDE DEF Of
<1>2. Good(t, a) \in UNION {Of(k) : k \in Nat}
  BY <1>1
<1>3. Good(t, a) \in Goods
  BY <1>2 DEF Of, Goods
<1> QED
  BY <1>3 DEF Good, Parts

(* The empty text is a text. *)
LEMMA EmptyText == Empty \in Texts(0) /\ Empty.alts = <<>> /\ Len(Empty.alts) = 0
<1>1. <<>> \in Seq(Seq(Fits(0))) /\ Len(<<>>) = 0
  BY EmptySeq
<1> QED
  BY <1>1 DEF Empty, Texts

(* A part that says nothing. *)
LEMMA NothingFacts ==
  /\ Nothing \in Parts /\ Nothing.status = 200 /\ Blank(Nothing) /\ Len(Nothing.text.alts) = 0
  /\ \A row : ~Offers(Nothing, row)
<1>1. <<>> \in [1..0 -> Values]
  BY SeqDef, EmptySeq
<1>2. Nothing \in Parts /\ Nothing.status = 200 /\ Nothing.text = Empty
  <2> DEFINE none == <<>>
  <2>1. PICK n \in Nat : n = 0
    OBVIOUS
  <2>2. none \in [1..n -> Values] /\ Empty \in Texts(n)
    BY <1>1, <2>1, EmptyText
  <2> HIDE DEF none
  <2>3. LET g == Good(Empty, none) IN g \in Parts /\ g.status = 200 /\ g.text = Empty
    BY <2>2, IsGood
  <2> QED
    BY <2>3 DEF Nothing, none
<1>3. DOMAIN Empty.alts = {}
  BY EmptyText
<1> QED
  BY <1>2, <1>3, EmptyText DEF Blank, Offers, Holds

(* An error is a part, *)
LEMMA BadFacts ==
  ASSUME NEW code \in {400, 403}
  PROVE  /\ Bad(code) \in Parts /\ Bad(code).status # 200
         /\ Len(Bad(code).text.alts) = 0
BY EmptyText DEF Bad, Parts

(* and a part that is none of the good ones is an error. *)
LEMMA StatusFacts ==
  ASSUME NEW x \in Parts, x.status # 200
  PROVE  x \in {Bad(400), Bad(403)} /\ Len(x.text.alts) = 0
<1>1. ASSUME x \in Goods PROVE FALSE
  BY <1>1 DEF Goods
<1>2. x \in {Bad(400), Bad(403)}
  BY <1>1 DEF Parts
<1> QED
  BY <1>2, EmptyText DEF Bad

(* Two fragments joined. *)
LEMMA JoinedFacts ==
  ASSUME NEW sep \in {"and", "or"}, NEW x \in PartsFor(sep), NEW y \in PartsFor(sep)
  PROVE  LET z == Joined(sep, x, y)
         IN /\ z \in PartsFor(sep)
            /\ z.status = 200 <=> x.status = 200 /\ y.status = 200
            /\ z.status = 200 =>
                 /\ Blank(z) <=> Blank(x) /\ Blank(y)
                 /\ \A row : /\ sep = "and" => (Requires(z, row) <=> Requires(x, row) /\ Requires(y, row))
                             /\ sep = "or" => (Offers(z, row) <=> Offers(x, row) \/ Offers(y, row))
<1> DEFINE z == Joined(sep, x, y)
<1>0. x \in Parts /\ y \in Parts
  BY DEF PartsFor
<1>1. CASE x.status # 200
  <2>1. z = x
    BY <1>1 DEF Joined
  <2> QED
    BY <1>1, <2>1
<1>2. CASE x.status = 200 /\ y.status # 200
  <2>1. z = y
    BY <1>2 DEF Joined
  <2> QED
    BY <1>2, <2>1
<1>3. CASE x.status = 200 /\ y.status = 200
  <2> DEFINE s == x.text
             t == y.text
             a == x.args
             b == y.args
             text == CASE Blank(x) -> t [] ~Blank(x) /\ Blank(y) -> s [] OTHER -> Join(sep, s, t)
  <2>1. z = Good(text, a \o b)
    BY <1>3 DEF Joined
  <2> HIDE DEF z
  <2>2. PICK n \in Nat : s \in Texts(n) /\ a \in [1..n -> Values]
    BY <1>0, <1>3, GoodFacts
  <2>3. PICK m \in Nat : t \in Texts(m) /\ b \in [1..m -> Values]
    BY <1>0, <1>3, GoodFacts
  <2>4. /\ Blank(x) <=> s.alts = <<>>
        /\ Blank(y) <=> t.alts = <<>>
        /\ \A row : /\ Requires(x, row) <=> s.alts = <<>> \/ Holds(s, a, row)
                    /\ Requires(y, row) <=> t.alts = <<>> \/ Holds(t, b, row)
                    /\ Offers(x, row) <=> Holds(s, a, row)
                    /\ Offers(y, row) <=> Holds(t, b, row)
    BY DEF Blank, Requires, Offers
  <2>5. (sep = "and" => Len(s.alts) <= 1 /\ Len(t.alts) <= 1)
    BY DEF PartsFor
  <2>6. a \in Seq(Values) /\ b \in Seq(Values) /\ n + m \in Nat /\ a \o b \in [1..(n + m) -> Values]
    <3>1. a \in Seq(Values) /\ b \in Seq(Values)
      BY <2>2, <2>3, SeqDef
    <3> HIDE DEF a, b
    <3> QED
      BY <2>2, <2>3, <3>1, ArgsAdd
  <2>7. ASSUME NEW k \in Nat, NEW u \in Texts(k), NEW c \in [1..k -> Values], z = Good(u, c),
               sep = "and" => Len(u.alts) <= 1
        PROVE  /\ z \in PartsFor(sep) /\ z.status = 200
               /\ Blank(z) <=> u.alts = <<>>
               /\ \A row : /\ Requires(z, row) <=> u.alts = <<>> \/ Holds(u, c, row)
                           /\ Offers(z, row) <=> Holds(u, c, row)
    <3>1. z \in Parts /\ z.status = 200 /\ z.text = u /\ z.args = c
      BY <2>7, IsGood
    <3> QED
      BY <2>7, <3>1 DEF PartsFor, Blank, Requires, Offers
  <2> HIDE DEF s, t, a, b
  <2>8. /\ s.alts = <<>> => n = 0 /\ a = <<>> /\ \A c, row : ~Holds(s, c, row)
        /\ t.alts = <<>> => m = 0 /\ b = <<>> /\ \A c, row : ~Holds(t, c, row)
    <3>1. ASSUME NEW k \in Nat, NEW u \in Texts(k), NEW c \in [1..k -> Values], u.alts = <<>>
          PROVE  k = 0 /\ c = <<>> /\ \A d, row : ~Holds(u, d, row)
      <4>1. k = 0 /\ DOMAIN u.alts = {}
        BY <3>1, TextFacts
      <4>2. c \in [1..0 -> Values]
        BY <4>1
      <4>3. c \in Seq(Values) /\ Len(c) = 0
        BY <4>2, SeqDef, LenProperties
      <4>4. c = <<>>
        BY <4>3, EmptySeq
      <4> QED
        BY <4>1, <4>4 DEF Holds
    <3> QED
      BY <2>2, <2>3, <3>1
  <2>9. CASE s.alts = <<>>
    <3>1. a \o b = b /\ n = 0
      BY <2>6, <2>8, <2>9, ConcatEmptySeq
    <3>2. z = Good(t, b)
      BY <2>1, <2>4, <2>9, <3>1
    <3>3. /\ z \in PartsFor(sep) /\ z.status = 200
          /\ Blank(z) <=> t.alts = <<>>
          /\ \A row : /\ Requires(z, row) <=> t.alts = <<>> \/ Holds(t, b, row)
                      /\ Offers(z, row) <=> Holds(t, b, row)
      BY <2>3, <2>5, <2>7, <3>2
    <3> QED
      BY <1>3, <2>4, <2>8, <2>9, <3>3 DEF z
  <2>10. CASE s.alts # <<>> /\ t.alts = <<>>
    <3>1. a \o b = a /\ m = 0
      BY <2>6, <2>8, <2>10, ConcatEmptySeq
    <3>2. z = Good(s, a)
      BY <2>1, <2>4, <2>10, <3>1
    <3>3. /\ z \in PartsFor(sep) /\ z.status = 200
          /\ Blank(z) <=> s.alts = <<>>
          /\ \A row : /\ Requires(z, row) <=> s.alts = <<>> \/ Holds(s, a, row)
                      /\ Offers(z, row) <=> Holds(s, a, row)
      BY <2>2, <2>5, <2>7, <3>2
    <3> QED
      BY <1>3, <2>4, <2>8, <2>10, <3>3 DEF z
  <2>11. CASE s.alts # <<>> /\ t.alts # <<>>
    <3> DEFINE u == Join(sep, s, t)
               c == a \o b
    <3>1. z = Good(u, c)
      BY <2>1, <2>4, <2>11
    <3>2. /\ u \in Texts(n + m) /\ u.alts # <<>> /\ (sep = "and" => Len(u.alts) <= 1)
          /\ \A row : /\ sep = "and" => (Holds(u, c, row) <=> Holds(s, a, row) /\ Holds(t, b, row))
                      /\ sep = "or" => (Holds(u, c, row) <=> Holds(s, a, row) \/ Holds(t, b, row))
      <4>1. CASE sep = "or"
        BY <2>2, <2>3, <2>11, <4>1, JoinOr
      <4>2. CASE sep = "and"
        <5>1. Len(s.alts) = 1 /\ Len(t.alts) = 1
          <6>1. Len(s.alts) \in Nat /\ Len(s.alts) # 0
            BY <2>2, <2>11, TextFacts
          <6>2. Len(t.alts) \in Nat /\ Len(t.alts) # 0
            BY <2>3, <2>11, TextFacts
          <6>3. Len(s.alts) <= 1 /\ Len(t.alts) <= 1
            BY <2>5, <4>2
          <6>4. \A l \in Nat : l # 0 /\ l <= 1 => l = 1
            OBVIOUS
          <6> QED
            BY <6>1, <6>2, <6>3, <6>4, Zenon
        <5>2. /\ u \in Texts(n + m) /\ Len(u.alts) = 1
              /\ \A row : Holds(u, c, row) <=> Holds(s, a, row) /\ Holds(t, b, row)
          BY <2>2, <2>3, <4>2, <5>1, JoinAnd
        <5> HIDE DEF u
        <5>3. u.alts # <<>>
          BY <5>2, EmptySeq
        <5> QED
          BY <4>2, <5>2, <5>3
      <4> QED
        BY <4>1, <4>2
    <3> HIDE DEF u, c
    <3>3. /\ z \in PartsFor(sep) /\ z.status = 200
          /\ Blank(z) <=> u.alts = <<>>
          /\ \A row : /\ Requires(z, row) <=> u.alts = <<>> \/ Holds(u, c, row)
                      /\ Offers(z, row) <=> Holds(u, c, row)
      <4>1. PICK k \in Nat : k = n + m
        BY <2>6
      <4>2. c \in [1..k -> Values] /\ u \in Texts(k)
        BY <2>6, <3>2, <4>1 DEF c
      <4> QED
        BY <2>7, <3>1, <3>2, <4>2
    <3> QED
      BY <1>3, <2>4, <2>11, <3>2, <3>3 DEF z
  <2> QED
    BY <2>9, <2>10, <2>11
<1> QED
  BY <1>1, <1>2, <1>3

(* x is what the first n of the parts make. *)
Agrees(sep, parts, n, x) ==
  /\ x \in PartsFor(sep)
  /\ x.status = 200 <=> \A i \in 1..n : parts[i].status = 200
  /\ x.status = 200 =>
       /\ Blank(x) <=> \A i \in 1..n : Blank(parts[i])
       /\ \A row : /\ sep = "and" => (Requires(x, row) <=> \A i \in 1..n : Requires(parts[i], row))
                   /\ sep = "or" => (Offers(x, row) <=> \E i \in 1..n : Offers(parts[i], row))

(* No parts make nothing, *)
LEMMA AgreesWithNone ==
  ASSUME NEW sep \in {"and", "or"}, NEW parts
  PROVE  Agrees(sep, parts, 0, Nothing)
<1>1. Nothing \in PartsFor(sep)
  BY NothingFacts DEF PartsFor
<1>2. \A i : i \notin 1..0
  OBVIOUS
<1> QED
  BY <1>1, <1>2, NothingFacts DEF Agrees, Requires

(* one more part is joined to what the others make, *)
LEMMA AgreesWithOneMore ==
  ASSUME NEW sep \in {"and", "or"}, NEW parts, NEW n \in Nat \ {0},
         parts[n] \in PartsFor(sep), NEW x, Agrees(sep, parts, n - 1, x)
  PROVE  Agrees(sep, parts, n, Joined(sep, x, parts[n]))
<1> DEFINE y == parts[n]
           z == Joined(sep, x, y)
<1>1. /\ z \in PartsFor(sep)
      /\ z.status = 200 <=> x.status = 200 /\ y.status = 200
      /\ z.status = 200 =>
           /\ Blank(z) <=> Blank(x) /\ Blank(y)
           /\ \A row : /\ sep = "and" => (Requires(z, row) <=> Requires(x, row) /\ Requires(y, row))
                       /\ sep = "or" => (Offers(z, row) <=> Offers(x, row) \/ Offers(y, row))
  <2>1. x \in PartsFor(sep)
    BY DEF Agrees
  <2> HIDE DEF y
  <2> QED
    BY <2>1, JoinedFacts DEF y
<1>2. \A i : i \in 1..n <=> i \in 1..(n - 1) \/ i = n
  OBVIOUS
<1> HIDE DEF z
<1>3. z.status = 200 <=> \A i \in 1..n : parts[i].status = 200
  BY <1>1, <1>2 DEF Agrees
<1>4. ASSUME z.status = 200
      PROVE  /\ Blank(z) <=> \A i \in 1..n : Blank(parts[i])
             /\ \A row : /\ sep = "and" => (Requires(z, row) <=> \A i \in 1..n : Requires(parts[i], row))
                         /\ sep = "or" => (Offers(z, row) <=> \E i \in 1..n : Offers(parts[i], row))
  <2>1. Blank(z) <=> \A i \in 1..n : Blank(parts[i])
    BY <1>1, <1>2, <1>4 DEF Agrees
  <2>2. ASSUME NEW row, sep = "and"
        PROVE  Requires(z, row) <=> \A i \in 1..n : Requires(parts[i], row)
    BY <1>1, <1>2, <1>4, <2>2 DEF Agrees
  <2>3. ASSUME NEW row, sep = "or"
        PROVE  Offers(z, row) <=> \E i \in 1..n : Offers(parts[i], row)
    BY <1>1, <1>2, <1>4, <2>3 DEF Agrees
  <2> QED
    BY <2>1, <2>2, <2>3
<1> QED
  BY <1>1, <1>3, <1>4 DEF Agrees, z

(* JoinAll is the last of the fragments that grow by one part after another. *)
Grows(sep, parts, f) ==
  f = [n \in 0..Len(parts) |-> IF n = 0 THEN Nothing ELSE Joined(sep, f[n - 1], parts[n])]

(* so there is a fragment for every number of parts, *)
LEMMA GrowsExists ==
  ASSUME NEW sep \in {"and", "or"}, NEW parts, Len(parts) \in Nat,
         \A i \in 1..Len(parts) : parts[i] \in PartsFor(sep)
  PROVE  \E f : Grows(sep, parts, f)
<1> DEFINE S == 0..Len(parts)
           D == [n \in S |-> n]
           X == PartsFor(sep)
           Step(f, n) == IF n = 0 THEN Nothing ELSE Joined(sep, f[n - 1], parts[n])
           step == [p \in [S -> X] \X S |-> Step(p[1], p[2])]
<1>1. D \in [S -> Nat]
  OBVIOUS
<1>2. Nothing \in X
  BY NothingFacts DEF PartsFor
<1>3. \A n \in S : n = 0 \/ (n \in 1..Len(parts) /\ n - 1 \in S /\ n - 1 < n)
  OBVIOUS
<1>4. ASSUME NEW f \in [S -> X], NEW n \in S
      PROVE  Step(f, n) \in X
  <2>1. CASE n = 0
    BY <1>2, <2>1
  <2>2. CASE n # 0
    <3>1. f[n - 1] \in X /\ parts[n] \in X
      BY <1>3, <2>2
    <3>2. Joined(sep, f[n - 1], parts[n]) \in X
      BY <3>1, JoinedFacts
    <3> QED
      BY <2>2, <3>2
  <2> QED
    BY <2>1, <2>2
<1>5. ASSUME NEW f \in [S -> X], NEW g \in [S -> X], NEW n \in S,
             \A m \in S : D[m] < D[n] => f[m] = g[m]
      PROVE  Step(f, n) = Step(g, n)
  <2>1. CASE n = 0
    BY <2>1
  <2>2. CASE n # 0
    <3>1. f[n - 1] = g[n - 1]
      BY <1>3, <1>5, <2>2
    <3> QED
      BY <2>2, <3>1
  <2> QED
    BY <2>1, <2>2
<1> HIDE DEF S, D, X, Step
<1>6. step \in [[S -> X] \X S -> X]
  BY <1>4
<1>7. \A f \in [S -> X], n \in S : step[<<f, n>>] = Step(f, n)
  OBVIOUS
<1> HIDE DEF step
<1>8. Descends(S, D, X, step)
  BY <1>5, <1>6, <1>7 DEF Descends
<1>9. PICK f \in [S -> X] : Obeys(S, step, f)
  <2>1. X # {}
    BY <1>2
  <2> QED
    BY <1>1, <1>8, <2>1, RecursionExists
<1>10. f = [n \in S |-> Step(f, n)]
  BY <1>7, <1>9 DEF Obeys
<1> QED
  BY <1>10 DEF Grows, S, Step

(* and JoinAll is what all of them make. *)
LEMMA JoinAllFacts ==
  ASSUME NEW sep \in {"and", "or"}, NEW parts, Len(parts) \in Nat,
         \A i \in 1..Len(parts) : parts[i] \in PartsFor(sep)
  PROVE  Agrees(sep, parts, Len(parts), JoinAll(sep, parts))
<1> DEFINE N == Len(parts)
           f == CHOOSE f : Grows(sep, parts, f)
           T == {n \in 0..N : Agrees(sep, parts, n, f[n])}
<1>1. Grows(sep, parts, f)
  BY GrowsExists
<1>2. JoinAll(sep, parts) = f[N]
  BY DEF JoinAll, Grows
<1> HIDE DEF f
<1>3. \A n \in 0..N : f[n] = IF n = 0 THEN Nothing ELSE Joined(sep, f[n - 1], parts[n])
  BY <1>1, Zenon DEF Grows
<1>4. 0 \in T
  BY <1>3, AgreesWithNone
<1>5. ASSUME NEW n \in 1..N, n - 1 \in T
      PROVE  n \in T
  <2>1. n \in Nat \ {0} /\ n \in 0..N /\ n # 0 /\ parts[n] \in PartsFor(sep)
    OBVIOUS
  <2>2. f[n] = Joined(sep, f[n - 1], parts[n])
    BY <1>3, <2>1
  <2>3. Agrees(sep, parts, n - 1, f[n - 1])
    BY <1>5
  <2>4. Agrees(sep, parts, n, Joined(sep, f[n - 1], parts[n]))
    BY <2>1, <2>3, AgreesWithOneMore
  <2> QED
    BY <2>1, <2>2, <2>4
<1>6. \A n \in 0..N : n \in T
  <2> HIDE DEF T
  <2> QED
    BY <1>4, <1>5, Climb
<1>7. N \in 0..N
  OBVIOUS
<1> QED
  BY <1>2, <1>6, <1>7

-----------------------------------------------------------------------------
(***************************************************************************)
(* Clauses: parts of one alternative.                                      *)
(***************************************************************************)
(* What compiling a filter may give: one alternative, or an error. *)
Clauses == {x \in Parts : x.status = 200 => Len(x.text.alts) = 1}

(* A clause may be joined by AND and by OR. *)
LEMMA ClauseFacts ==
  ASSUME NEW x \in Clauses
  PROVE  /\ \A sep : x \in PartsFor(sep)
         /\ x.status = 200 => ~Blank(x) /\ \A row : Requires(x, row) <=> Offers(x, row)
<1>1. x \in Parts /\ (x.status = 200 => Len(x.text.alts) = 1)
  BY DEF Clauses
<1>2. x \in Parts /\ Len(x.text.alts) <= 1
  <2>1. x.status # 200 => Len(x.text.alts) = 0
    BY <1>1, StatusFacts
  <2>2. Len(x.text.alts) \in {0, 1}
    BY <1>1, <2>1
  <2>3. \A l \in {0, 1} : l <= 1
    OBVIOUS
  <2> QED
    BY <1>1, <2>2, <2>3, Zenon
<1>3. x.status = 200 => x.text.alts # <<>>
  BY <1>1, EmptySeq
<1> QED
  BY <1>2, <1>3 DEF PartsFor, Blank, Requires, Offers

(* A text of one alternative with its arguments is a clause, *)
LEMMA IsClause ==
  ASSUME NEW n \in Nat, NEW t \in Texts(n), NEW a \in [1..n -> Values], Len(t.alts) = 1
  PROVE  /\ Good(t, a) \in Clauses /\ Good(t, a).status = 200
         /\ \A row : Requires(Good(t, a), row) <=> Holds(t, a, row)
<1> DEFINE x == Good(t, a)
<1>1. x \in Parts /\ x.status = 200 /\ x.text = t /\ x.args = a
  BY IsGood
<1> HIDE DEF x
<1>2. x \in Clauses
  BY <1>1 DEF Clauses
<1>3. \A row : Requires(x, row) <=> Holds(t, a, row)
  BY <1>1, <1>2, ClauseFacts DEF Offers
<1> QED
  BY <1>1, <1>2, <1>3 DEF x

(* and so is an error. *)
LEMMA BadClause ==
  ASSUME NEW code \in {400, 403}
  PROVE  Bad(code) \in Clauses /\ Bad(code).status # 200
BY BadFacts DEF Clauses

(* A factor on its own. *)
LEMMA ParenClauses ==
  ASSUME NEW n \in Nat, NEW h \in [[1..n -> Values] -> [Rows -> BOOLEAN]]
  PROVE  /\ Alone(n, h) \in Texts(n) /\ Len(Alone(n, h).alts) = 1
         /\ \A a \in [1..n -> Values] : \A row : Holds(Alone(n, h), a, row) <=> h[a][row]
<1> DEFINE f == [at |-> 0, holes |-> n, holds |-> h]
           t == [alts |-> << <<f>> >>, holes |-> n]
<1>1. f \in Fits(n)
  <2>1. f \in Pieces
    BY IsPiece
  <2> QED
    BY <2>1 DEF Fits
<1>2. f.at = 0 /\ f.holes = n /\ f.holds = h
  OBVIOUS
<1>3. Alone(n, h) = t
  BY DEF Alone
<1> HIDE DEF f
<1>4. << <<f>> >> \in Seq(Seq(Fits(n))) /\ << <<f>> >> # <<>> /\ Len(<< <<f>> >>) = 1
  BY <1>1
<1>5. t \in Texts(n)
  BY <1>4, IsText
<1>6. ASSUME NEW a \in [1..n -> Values], NEW row
      PROVE  Holds(t, a, row) <=> h[a][row]
  <2>1. Given(f, a) = a
    BY <1>2 DEF Given
  <2>2. Len(t.alts) = 1 /\ t.alts[1] = <<f>>
    OBVIOUS
  <2> HIDE DEF t
  <2>3. Holds(t, a, row) <=> AltHolds(<<f>>, a, row)
    BY <1>5, <2>2, OnlyAlt
  <2>4. AltHolds(<<f>>, a, row) <=> f.holds[Given(f, a)][row]
    BY DEF AltHolds
  <2> QED
    BY <1>2, <2>1, <2>3, <2>4
<1> QED
  BY <1>3, <1>4, <1>5, <1>6

(* A column compared. *)
LEMMA FactorFacts ==
  ASSUME NEW col, NEW op, NEW n \in Nat
  PROVE  /\ Factor(col, op, n) \in Texts(n) /\ Len(Factor(col, op, n).alts) = 1
         /\ \A a \in [1..n -> Values], row \in Rows :
              Holds(Factor(col, op, n), a, row) <=> Satisfies(op, row[col], a)
<1> DEFINE h == [args \in [1..n -> Values] |-> [row \in Rows |-> Satisfies(op, row[col], args)]]
<1>1. \A v, args : Satisfies(op, v, args) \in BOOLEAN
  BY DEF Satisfies
<1>2. h \in [[1..n -> Values] -> [Rows -> BOOLEAN]]
  BY <1>1
<1>3. \A a \in [1..n -> Values], row \in Rows : h[a][row] = Satisfies(op, row[col], a)
  OBVIOUS
<1>4. Factor(col, op, n) = Alone(n, h)
  BY DEF Factor
<1> HIDE DEF h
<1>5. /\ Alone(n, h) \in Texts(n) /\ Len(Alone(n, h).alts) = 1
      /\ \A a \in [1..n -> Values] : \A row : Holds(Alone(n, h), a, row) <=> h[a][row]
  BY <1>2, ParenClauses
<1> QED
  BY <1>3, <1>4, <1>5

(* A text in parentheses says what it says without. *)
LEMMA ParensFacts ==
  ASSUME NEW n \in Nat, NEW t, t.holes = n
  PROVE  /\ Parens(t) \in Texts(n) /\ Len(Parens(t).alts) = 1
         /\ \A a \in [1..n -> Values], row \in Rows : Holds(Parens(t), a, row) <=> Holds(t, a, row)
<1> DEFINE h == [args \in [1..n -> Values] |-> [row \in Rows |-> Holds(t, args, row)]]
<1>1. \A args, row : Holds(t, args, row) \in BOOLEAN
  BY DEF Holds
<1>2. h \in [[1..n -> Values] -> [Rows -> BOOLEAN]]
  BY <1>1
<1>3. \A a \in [1..n -> Values], row \in Rows : h[a][row] = Holds(t, a, row)
  OBVIOUS
<1>4. Parens(t) = Alone(n, h)
  BY DEF Parens
<1> HIDE DEF h
<1>5. /\ Alone(n, h) \in Texts(n) /\ Len(Alone(n, h).alts) = 1
      /\ \A a \in [1..n -> Values] : \A row : Holds(Alone(n, h), a, row) <=> h[a][row]
  BY <1>2, ParenClauses
<1> QED
  BY <1>3, <1>4, <1>5

(* The empty sequence is the arguments of a text without holes. *)
LEMMA NoArgs == <<>> \in [1..0 -> Values]
BY SeqDef, EmptySeq

(* 1=1 and 1=0 say what they look like. *)
LEMMA ConstantlyFacts ==
  ASSUME NEW b \in BOOLEAN
  PROVE  LET x == Good(Constantly(b), <<>>)
         IN x \in Clauses /\ x.status = 200 /\ \A row \in Rows : Requires(x, row) <=> b
<1> DEFINE op == IF b THEN "1=1" ELSE "1=0"
           t == Factor("tenant", op, 0)
           none == <<>>
           x == Good(t, none)
<1>0. x = Good(Constantly(b), <<>>)
  BY DEF Constantly
<1>1. PICK n \in Nat : n = 0
  OBVIOUS
<1>2. none \in [1..n -> Values]
  BY <1>1, NoArgs
<1>3. \A v, args : Satisfies(op, v, args) <=> b
  BY DEF Satisfies
<1> HIDE DEF op, none
<1>4. /\ t \in Texts(n) /\ Len(t.alts) = 1
      /\ \A row \in Rows : Holds(t, none, row) <=> Satisfies(op, row["tenant"], none)
  BY <1>1, <1>2, FactorFacts
<1> HIDE DEF t
<1>5. x \in Clauses /\ x.status = 200 /\ \A row : Requires(x, row) <=> Holds(t, none, row)
  BY <1>2, <1>4, IsClause
<1> HIDE DEF x
<1>6. x \in Clauses /\ x.status = 200 /\ \A row \in Rows : Requires(x, row) <=> b
  BY <1>3, <1>4, <1>5
<1> QED
  BY <1>0, <1>6

(* A part in parentheses. *)
LEMMA ClosedFacts ==
  ASSUME NEW x \in Parts
  PROVE  /\ Closed(x) \in Clauses /\ (Closed(x).status = 200 <=> x.status = 200)
         /\ x.status = 200 => \A row \in Rows : Requires(Closed(x), row) <=> Offers(x, row)
<1>1. CASE x.status # 200
  <2>1. Closed(x) = x
    BY <1>1 DEF Closed
  <2> QED
    BY <1>1, <2>1 DEF Clauses
<1>2. CASE x.status = 200
  <2> DEFINE t == x.text
             a == x.args
             c == Good(Parens(t), a)
  <2>1. Closed(x) = c
    BY <1>2 DEF Closed
  <2>2. PICK n \in Nat : t \in Texts(n) /\ a \in [1..n -> Values]
    BY <1>2, GoodFacts
  <2>3. \A row : Offers(x, row) <=> Holds(t, a, row)
    BY DEF Offers
  <2> HIDE DEF t, a
  <2>4. t.holes = n
    BY <2>2, TextFacts
  <2>5. /\ Parens(t) \in Texts(n) /\ Len(Parens(t).alts) = 1
        /\ \A row \in Rows : Holds(Parens(t), a, row) <=> Holds(t, a, row)
    BY <2>2, <2>4, ParensFacts
  <2>6. c \in Clauses /\ c.status = 200 /\ \A row : Requires(c, row) <=> Holds(Parens(t), a, row)
    BY <2>2, <2>5, IsClause
  <2> HIDE DEF c
  <2> QED
    BY <1>2, <2>1, <2>3, <2>5, <2>6
<1> QED
  BY <1>1, <1>2

-----------------------------------------------------------------------------
(***************************************************************************)
(* The conditions of a filter, their lists and their groups.               *)
(***************************************************************************)
(* A condition of a filter, as filters have them. *)
Proper(c) ==
  IF c.op = "in" THEN c.value # Null /\ c.list # NotList => c.list \in Seq(Values)
  ELSE c.value \in Values

(* What a condition compiles to says of a column's value v. *)
Passes(c, v) ==
  CASE c.value = Null /\ c.op = "eq" -> v = Null
    [] c.value = Null /\ c.op = "ne" -> v # Null
    [] c.value = Null /\ c.op \notin {"eq", "ne"} -> TRUE
    [] c.value # Null /\ c.op = "in" -> v # Null /\ \E i \in DOMAIN c.list : v = Normalize(c.list[i])
    [] c.value # Null /\ c.op = "eq" -> v # Null /\ v = Normalize(c.value)
    [] c.value # Null /\ c.op = "ne" -> v # Null /\ v # Normalize(c.value)
    [] c.value # Null /\ c.op = "gt" -> v # Null /\ v > Normalize(c.value)
    [] c.value # Null /\ c.op = "lte" -> v # Null /\ v <= Normalize(c.value)

(* The values the compiler tells apart. *)
LEMMA Distinct ==
  /\ 0 \in Values /\ 1 \in Values /\ Null \in Values
  /\ Null # 0 /\ Null # 1 /\ Null # True /\ Null # False
  /\ True # 0 /\ True # 1 /\ True # False /\ False # 0 /\ False # 1
BY SelectAssumption

(* normalize sends the JSON booleans to the integers they are stored as. *)
LEMMA NormalizeFacts ==
  ASSUME NEW v
  PROVE  /\ v \in Values => Normalize(v) \in Values
         /\ v # Null => Normalize(v) # Null
         /\ v = True => Normalize(v) = 1
         /\ v = False => Normalize(v) = 0
         /\ v # True /\ v # False => Normalize(v) = v
BY Distinct DEF Normalize

(* A column compared, as a part. *)
LEMMA FactorClause ==
  ASSUME NEW col, NEW op, NEW n \in Nat, NEW a \in [1..n -> Values]
  PROVE  LET x == Good(Factor(col, op, n), a)
         IN x \in Clauses /\ x.status = 200 /\ \A row \in Rows : Requires(x, row) <=> Satisfies(op, row[col], a)
<1> DEFINE t == Factor(col, op, n)
           x == Good(t, a)
<1>1. /\ t \in Texts(n) /\ Len(t.alts) = 1
      /\ \A row \in Rows : Holds(t, a, row) <=> Satisfies(op, row[col], a)
  BY FactorFacts
<1> HIDE DEF t
<1>2. x \in Clauses /\ x.status = 200 /\ \A row : Requires(x, row) <=> Holds(t, a, row)
  BY <1>1, IsClause
<1> HIDE DEF x
<1>3. x \in Clauses /\ x.status = 200 /\ \A row \in Rows : Requires(x, row) <=> Satisfies(op, row[col], a)
  BY <1>1, <1>2
<1> QED
  BY <1>3 DEF x, t

(* The same for a comparison without an argument, *)
LEMMA NoHoles ==
  ASSUME NEW col, NEW op
  PROVE  LET x == Good(Factor(col, op, 0), <<>>)
         IN x \in Clauses /\ x.status = 200 /\ \A row \in Rows : Requires(x, row) <=> Satisfies(op, row[col], <<>>)
<1> DEFINE none == <<>>
<1>1. PICK n \in Nat : n = 0
  OBVIOUS
<1>2. none \in [1..n -> Values]
  BY <1>1, NoArgs
<1> HIDE DEF none
<1>3. LET x == Good(Factor(col, op, n), none)
      IN x \in Clauses /\ x.status = 200 /\ \A row \in Rows : Requires(x, row) <=> Satisfies(op, row[col], none)
  BY <1>2, FactorClause
<1> QED
  BY <1>1, <1>3 DEF none

(* and with one. *)
LEMMA OneHole ==
  ASSUME NEW col, NEW op, NEW v \in Values
  PROVE  LET x == Good(Factor(col, op, 1), <<v>>)
         IN x \in Clauses /\ x.status = 200 /\ \A row \in Rows : Requires(x, row) <=> Satisfies(op, row[col], <<v>>)
<1> DEFINE a == <<v>>
<1>1. PICK n \in Nat : n = 1
  OBVIOUS
<1>2. a \in [1..n -> Values]
  BY <1>1
<1> HIDE DEF a
<1>3. LET x == Good(Factor(col, op, n), a)
      IN x \in Clauses /\ x.status = 200 /\ \A row \in Rows : Requires(x, row) <=> Satisfies(op, row[col], a)
  BY <1>2, FactorClause
<1> QED
  BY <1>1, <1>3 DEF a

(* An operator there is not is an error. *)
LEMMA UnknownOp ==
  ASSUME NEW c, c.value # Null, c.op \notin {"in", "eq", "ne", "gt", "lte"}
  PROVE  CompileOp(c) = Bad(400)
<1>1. DOMAIN SqlOp = {"gt", "lte"}
  BY DEF SqlOp
<1> QED
  BY <1>1 DEF CompileOp

(* Conditions are compiled to what they say. *)
LEMMA CompileOpFacts ==
  ASSUME NEW c, Proper(c)
  PROVE  LET x == CompileOp(c)
         IN /\ x \in PartsFor("and")
            /\ x.status = 200 => \A row \in Rows : Requires(x, row) <=> Passes(c, row[c.col])
<1> DEFINE x == CompileOp(c)
           w == Normalize(c.value)
           Right(y) == /\ y \in PartsFor("and")
                       /\ y.status = 200 => \A row \in Rows : Requires(y, row) <=> Passes(c, row[c.col])
<1>1. SUFFICES Right(x)
  OBVIOUS
<1>0. DOMAIN SqlOp = {"gt", "lte"} /\ SqlOp["gt"] = ">" /\ SqlOp["lte"] = "<="
  BY DEF SqlOp
<1>2. ASSUME NEW op, x = Good(Factor(c.col, op, 0), <<>>),
             \A v : Satisfies(op, v, <<>>) <=> Passes(c, v)
      PROVE  Right(x)
  <2> DEFINE y == Good(Factor(c.col, op, 0), <<>>)
  <2>1. y \in Clauses /\ \A row \in Rows : Requires(y, row) <=> Satisfies(op, row[c.col], <<>>)
    BY NoHoles
  <2> HIDE DEF y
  <2> QED
    BY <1>2, <2>1, ClauseFacts DEF y
<1>3. CASE c.value = Null /\ c.op = "eq"
  <2>1. x = Good(Factor(c.col, "IS NULL", 0), <<>>)
    BY <1>3 DEF CompileOp
  <2>2. \A v : Satisfies("IS NULL", v, <<>>) <=> Passes(c, v)
    BY <1>3 DEF Satisfies, Passes
  <2> HIDE DEF x, Right
  <2> QED
    BY <1>2, <2>1, <2>2
<1>4. CASE c.value = Null /\ c.op = "ne"
  <2>1. x = Good(Factor(c.col, "IS NOT NULL", 0), <<>>)
    BY <1>4 DEF CompileOp
  <2>2. \A v : Satisfies("IS NOT NULL", v, <<>>) <=> Passes(c, v)
    BY <1>4 DEF Satisfies, Passes
  <2> HIDE DEF x, Right
  <2> QED
    BY <1>2, <2>1, <2>2
<1>5. CASE c.value = Null /\ c.op \notin {"eq", "ne"}
  <2>1. x = Nothing
    BY <1>5 DEF CompileOp
  <2>2. \A v : Passes(c, v)
    BY <1>5 DEF Passes
  <2>3. Nothing \in PartsFor("and")
    BY NothingFacts DEF PartsFor
  <2> QED
    BY <2>1, <2>2, <2>3, NothingFacts DEF Requires
<1>6. CASE c.value # Null /\ c.op = "in"
  <2>1. CASE c.list = NotList
    <3>1. x = Bad(400)
      BY <1>0, <1>6, <2>1 DEF CompileOp
    <3> QED
      BY <3>1, BadClause, ClauseFacts
  <2>2. CASE c.list # NotList /\ c.list = <<>>
    <3>1. x = Good(Constantly(FALSE), <<>>)
      BY <1>0, <1>6, <2>2 DEF CompileOp
    <3>2. \A v : ~Passes(c, v)
      BY <1>6, <2>2 DEF Passes
    <3>3. x \in Clauses /\ \A row \in Rows : ~Requires(x, row)
      BY <3>1, ConstantlyFacts
    <3> QED
      BY <3>2, <3>3, ClauseFacts
  <2>3. CASE c.list # NotList /\ c.list # <<>>
    <3> DEFINE n == Len(c.list)
               a == [i \in DOMAIN c.list |-> Normalize(c.list[i])]
               y == Good(Factor(c.col, "IN", n), a)
    <3>1. x = y
      BY <1>0, <1>6, <2>3 DEF CompileOp
    <3>2. n \in Nat /\ DOMAIN c.list = 1..n /\ \A i \in 1..n : c.list[i] \in Values
      BY <1>6, <2>3, LenProperties DEF Proper
    <3> HIDE DEF n
    <3>3. a \in [1..n -> Values]
      BY <3>2, NormalizeFacts
    <3>4. \A v : Satisfies("IN", v, a) <=> Passes(c, v)
      <4>1. \A v : Satisfies("IN", v, a) <=> v # Null /\ \E i \in DOMAIN a : v = a[i]
        BY DEF Satisfies
      <4>2. \A v : Passes(c, v) <=> v # Null /\ \E i \in DOMAIN c.list : v = Normalize(c.list[i])
        BY <1>6 DEF Passes
      <4> QED
        BY <4>1, <4>2
    <3> HIDE DEF a
    <3>5. y \in Clauses /\ \A row \in Rows : Requires(y, row) <=> Satisfies("IN", row[c.col], a)
      BY <3>2, <3>3, FactorClause
    <3> QED
      BY <3>1, <3>4, <3>5, ClauseFacts
  <2> QED
    BY <2>1, <2>2, <2>3
<1>7. ASSUME NEW op \in {"=", "!=", ">", "<="}, x = Good(Factor(c.col, op, 1), <<w>>), w \in Values,
             \A v : Satisfies(op, v, <<w>>) <=> Passes(c, v)
      PROVE  Right(x)
  <2> DEFINE y == Good(Factor(c.col, op, 1), <<w>>)
  <2>1. y \in Clauses /\ \A row \in Rows : Requires(y, row) <=> Satisfies(op, row[c.col], <<w>>)
    BY <1>7, OneHole
  <2> HIDE DEF y
  <2> QED
    BY <1>7, <2>1, ClauseFacts DEF y
<1>8. CASE c.value # Null /\ c.op \in {"eq", "ne", "gt", "lte"}
  <2>1. w \in Values /\ w # Null
    BY <1>8, NormalizeFacts DEF Proper
  <2>2. CASE c.op = "eq"
    <3>1. x = Good(Factor(c.col, "=", 1), <<w>>)
      BY <1>8, <2>2 DEF CompileOp, SqlOp
    <3>2. \A v : Satisfies("=", v, <<w>>) <=> Passes(c, v)
      BY <1>8, <2>1, <2>2 DEF Satisfies, Passes
    <3> QED
      BY <1>7, <2>1, <3>1, <3>2
  <2>3. CASE c.op = "ne"
    <3>1. x = Good(Factor(c.col, "!=", 1), <<w>>)
      BY <1>8, <2>3 DEF CompileOp, SqlOp
    <3>2. \A v : Satisfies("!=", v, <<w>>) <=> Passes(c, v)
      BY <1>8, <2>1, <2>3 DEF Satisfies, Passes
    <3> QED
      BY <1>7, <2>1, <3>1, <3>2
  <2>4. CASE c.op = "gt"
    <3>1. x = Good(Factor(c.col, ">", 1), <<w>>)
      BY <1>8, <2>4 DEF CompileOp, SqlOp
    <3>2. \A v : Satisfies(">", v, <<w>>) <=> Passes(c, v)
      BY <1>8, <2>1, <2>4 DEF Satisfies, Passes
    <3> QED
      BY <1>7, <2>1, <3>1, <3>2
  <2>5. CASE c.op = "lte"
    <3>1. x = Good(Factor(c.col, "<=", 1), <<w>>)
      BY <1>8, <2>5 DEF CompileOp, SqlOp
    <3>2. \A v : Satisfies("<=", v, <<w>>) <=> Passes(c, v)
      BY <1>8, <2>1, <2>5 DEF Satisfies, Passes
    <3> QED
      BY <1>7, <2>1, <3>1, <3>2
  <2> QED
    BY <1>8, <2>2, <2>3, <2>4, <2>5
<1>9. CASE c.value # Null /\ c.op \notin {"in", "eq", "ne", "gt", "lte"}
  <2>1. x = Bad(400)
    BY <1>9, UnknownOp
  <2> QED
    BY <2>1, BadClause, ClauseFacts
<1> QED
  BY <1>3, <1>4, <1>5, <1>6, <1>8, <1>9

(* In rows that were written as declared, they say what they mean. *)
LEMMA PassesTest ==
  ASSUME NEW c, Proper(c), CompileOp(c).status = 200, NEW row \in Rows, Written(row)
  PROVE  Passes(c, row[c.col]) <=> Test(c, row)
<1> DEFINE v == row[c.col]
           Is(w) == v # Null /\ (IF c.col \in Booleans THEN w \in {v, Value(c.col, row)} ELSE v = Normalize(w))
<1>1. ASSUME NEW w
      PROVE  Is(w) <=> v # Null /\ v = Normalize(w)
  <2>1. CASE c.col \in Booleans
    <3>1. v \in {0, 1, Null}
      BY <2>1 DEF Written
    <3>2. Value(c.col, row) = AsBool(v)
      BY <2>1 DEF Value
    <3>3. Is(w) <=> v # Null /\ (w = v \/ w = AsBool(v))
      BY <2>1, <3>2
    <3>4. AsBool(0) = False /\ AsBool(1) = True
      BY Distinct DEF AsBool
    <3> HIDE DEF v, Is
    <3>5. CASE v = 0
      BY <3>3, <3>4, <3>5, Distinct, NormalizeFacts
    <3>6. CASE v = 1
      BY <3>3, <3>4, <3>6, Distinct, NormalizeFacts
    <3>7. CASE v = Null
      BY <3>3, <3>7
    <3> QED
      BY <3>1, <3>5, <3>6, <3>7
  <2>2. CASE c.col \notin Booleans
    BY <2>2
  <2> QED
    BY <2>1, <2>2
<1>2. CASE c.value = Null
  BY <1>2 DEF Passes, Test
<1>3. CASE c.value # Null /\ c.op = "in"
  <2>1. c.list # NotList
    <3>1. SUFFICES ASSUME c.list = NotList PROVE FALSE
      OBVIOUS
    <3>2. CompileOp(c) = Bad(400)
      BY <1>3, <3>1 DEF CompileOp, SqlOp
    <3> QED
      BY <3>2, BadClause
  <2>2. Test(c, row) <=> \E i \in DOMAIN c.list : Is(c.list[i])
    BY <1>3 DEF Test
  <2>3. Passes(c, v) <=> v # Null /\ \E i \in DOMAIN c.list : v = Normalize(c.list[i])
    BY <1>3 DEF Passes
  <2> QED
    BY <1>1, <2>2, <2>3
<1>4. CASE c.value # Null /\ c.op = "eq"
  <2>1. Test(c, row) <=> Is(c.value)
    BY <1>4 DEF Test
  <2>2. Passes(c, v) <=> v # Null /\ v = Normalize(c.value)
    BY <1>4 DEF Passes
  <2> QED
    BY <1>1, <1>4, <2>1, <2>2
<1>5. CASE c.value # Null /\ c.op = "ne"
  <2>1. Test(c, row) <=> v # Null /\ ~Is(c.value)
    BY <1>5 DEF Test
  <2>2. Passes(c, v) <=> v # Null /\ v # Normalize(c.value)
    BY <1>5 DEF Passes
  <2> QED
    BY <1>1, <1>5, <2>1, <2>2
<1>6. CASE c.value # Null /\ c.op = "gt"
  <2>1. Test(c, row) <=> v # Null /\ v > Normalize(c.value)
    BY <1>6 DEF Test
  <2>2. Passes(c, v) <=> v # Null /\ v > Normalize(c.value)
    BY <1>6 DEF Passes
  <2> QED
    BY <2>1, <2>2
<1>7. CASE c.value # Null /\ c.op = "lte"
  <2>1. Test(c, row) <=> v # Null /\ v <= Normalize(c.value)
    BY <1>7 DEF Test
  <2>2. Passes(c, v) <=> v # Null /\ v <= Normalize(c.value)
    BY <1>7 DEF Passes
  <2> QED
    BY <2>1, <2>2
<1>8. CASE c.value # Null /\ c.op \notin {"in", "eq", "ne", "gt", "lte"}
  <2>1. CompileOp(c) = Bad(400)
    BY <1>8, UnknownOp
  <2> QED
    BY <2>1, BadClause
<1> QED
  BY <1>2, <1>3, <1>4, <1>5, <1>6, <1>7, <1>8

(* A function from 1..n is a sequence. *)
LEMMA IsSeq ==
  ASSUME NEW S, NEW n \in Nat, NEW s \in [1..n -> S]
  PROVE  s \in Seq(S) /\ Len(s) = n
BY SeqDef, LenProperties

(* A list of conditions holds for the rows that pass them all. *)
LEMMA LeafFacts ==
  ASSUME NEW list, list \in Seq(ToSet(list)), \A i \in DOMAIN list : Proper(list[i]), NEW visible
  PROVE  LET x == CompileLeaf(list, visible)
         IN /\ x \in Clauses
            /\ x.status = 200 =>
                 /\ \A i \in DOMAIN list : list[i].col \in visible /\ CompileOp(list[i]).status = 200
                 /\ \A row \in Rows :
                      Requires(x, row) <=> \A i \in DOMAIN list : Passes(list[i], row[list[i].col])
<1> DEFINE n == Len(list)
           Part(i) == IF list[i].col \in visible THEN CompileOp(list[i]) ELSE Bad(400)
           parts == [i \in DOMAIN list |-> Part(i)]
           all == JoinAll("and", parts)
           x == OrTrue(all)
<1>1. n \in Nat /\ DOMAIN list = 1..n
  BY LenProperties
<1>2. CompileLeaf(list, visible) = x
  BY DEF CompileLeaf
<1>3. ASSUME NEW i \in 1..n
      PROVE  /\ Part(i) \in PartsFor("and")
             /\ Part(i).status = 200 =>
                  /\ list[i].col \in visible /\ CompileOp(list[i]).status = 200
                  /\ \A row \in Rows : Requires(Part(i), row) <=> Passes(list[i], row[list[i].col])
  <2>1. Proper(list[i])
    BY <1>1
  <2>2. CASE list[i].col \in visible
    <3>1. Part(i) = CompileOp(list[i])
      BY <2>2
    <3> HIDE DEF Part
    <3> QED
      BY <2>1, <2>2, <3>1, CompileOpFacts
  <2>3. CASE list[i].col \notin visible
    <3>1. Part(i) = Bad(400)
      BY <2>3
    <3> HIDE DEF Part
    <3> QED
      BY <3>1, BadClause, ClauseFacts
  <2> QED
    BY <2>2, <2>3
<1> HIDE DEF n, Part
<1>4. parts \in [1..n -> PartsFor("and")] /\ \A i \in 1..n : parts[i] = Part(i)
  BY <1>1, <1>3
<1> HIDE DEF parts
<1>5. Len(parts) = n
  BY <1>1, <1>4, IsSeq
<1>6. Agrees("and", parts, n, all)
  <2>1. Len(parts) \in Nat /\ \A i \in 1..Len(parts) : parts[i] \in PartsFor("and")
    BY <1>1, <1>4, <1>5
  <2> QED
    BY <1>5, <2>1, JoinAllFacts
<1> HIDE DEF all
<1>7. all \in Parts
  BY <1>6 DEF Agrees, PartsFor
<1>8. all.status = 200 =>
        /\ \A i \in 1..n : list[i].col \in visible /\ CompileOp(list[i]).status = 200
        /\ \A row \in Rows : Requires(all, row) <=> \A i \in 1..n : Passes(list[i], row[list[i].col])
  BY <1>3, <1>4, <1>6 DEF Agrees
<1>9. /\ x \in Clauses /\ (x.status = 200 <=> all.status = 200)
      /\ all.status = 200 => \A row \in Rows : Requires(x, row) <=> Requires(all, row)
  <2>1. CASE all.status = 200 /\ Blank(all)
    <3>1. x = Good(Constantly(TRUE), <<>>)
      BY <2>1 DEF OrTrue
    <3>2. \A row : Requires(all, row)
      BY <2>1 DEF Requires
    <3> HIDE DEF x
    <3> QED
      BY <2>1, <3>1, <3>2, ConstantlyFacts
  <2>2. CASE ~(all.status = 200 /\ Blank(all))
    <3>1. x = Closed(all)
      BY <2>2 DEF OrTrue
    <3>2. all.status = 200 => \A row : Requires(all, row) <=> Offers(all, row)
      BY <2>2 DEF Requires, Offers
    <3> HIDE DEF x
    <3> QED
      BY <1>7, <3>1, <3>2, ClosedFacts
  <2> QED
    BY <2>1, <2>2
<1> HIDE DEF x
<1> QED
  BY <1>1, <1>2, <1>8, <1>9

(* A group holds for the rows that all, or some, of its nodes hold for. *)
LEMMA GroupFacts ==
  ASSUME NEW kind \in {"and", "or"}, NEW n \in Nat, NEW parts \in [1..n -> Clauses]
  PROVE  LET x == CompileGroup(kind, parts)
         IN /\ x \in Clauses
            /\ x.status = 200 =>
                 /\ \A i \in 1..n : parts[i].status = 200
                 /\ \A row \in Rows :
                      Requires(x, row) <=> IF kind = "and" THEN \A i \in 1..n : Requires(parts[i], row)
                                           ELSE \E i \in 1..n : Requires(parts[i], row)
<1> DEFINE x == CompileGroup(kind, parts)
           all == JoinAll(kind, parts)
<1>1. parts \in Seq(Clauses) /\ Len(parts) = n
  BY IsSeq
<1>2. CASE parts = <<>>
  <2>1. n = 0
    BY <1>1, <1>2, EmptySeq
  <2>2. x = Good(Constantly(kind = "and"), <<>>)
    BY <1>2 DEF CompileGroup
  <2>3. x \in Clauses /\ \A row \in Rows : Requires(x, row) <=> kind = "and"
    BY <2>2, ConstantlyFacts
  <2>4. \A i : i \notin 1..n
    BY <2>1
  <2> HIDE DEF x
  <2>5. CASE kind = "and"
    BY <2>3, <2>4, <2>5 DEF x
  <2>6. CASE kind = "or"
    BY <2>3, <2>4, <2>6 DEF x
  <2> QED
    BY <2>5, <2>6
<1>3. CASE parts # <<>>
  <2>1. n # 0
    BY <1>1, <1>3, EmptySeq
  <2>2. x = Closed(all)
    BY <1>3 DEF CompileGroup
  <2>3. \A i \in 1..n : parts[i] \in PartsFor(kind)
    BY ClauseFacts
  <2>4. Agrees(kind, parts, n, all)
    <3>1. Len(parts) \in Nat /\ \A i \in 1..Len(parts) : parts[i] \in PartsFor(kind)
      BY <1>1, <2>3
    <3> QED
      BY <1>1, <3>1, JoinAllFacts
  <2> HIDE DEF all, x
  <2>5. all \in Parts
    BY <2>4 DEF Agrees, PartsFor
  <2>6. /\ x \in Clauses /\ (x.status = 200 <=> all.status = 200)
        /\ all.status = 200 => \A row \in Rows : Requires(x, row) <=> Offers(all, row)
    BY <2>2, <2>5, ClosedFacts
  <2>7. ASSUME all.status = 200
        PROVE  /\ \A i \in 1..n : parts[i].status = 200
               /\ ~Blank(all)
               /\ \A i \in 1..n, row \in Rows : Requires(parts[i], row) <=> Offers(parts[i], row)
    <3>1. \A i \in 1..n : parts[i].status = 200
      BY <2>4, <2>7 DEF Agrees
    <3>2. \A i \in 1..n : ~Blank(parts[i])
      BY <3>1, ClauseFacts
    <3>3. 1 \in 1..n
      BY <2>1
    <3>4. ~Blank(all)
      BY <2>4, <2>7, <3>2, <3>3 DEF Agrees
    <3> QED
      BY <3>1, <3>2, <3>4 DEF Requires, Offers
  <2>8. ASSUME all.status = 200, kind = "and", NEW row \in Rows
        PROVE  Requires(x, row) <=> \A i \in 1..n : Requires(parts[i], row)
    <3>1. Requires(all, row) <=> Offers(all, row)
      BY <2>7, <2>8 DEF Requires, Offers
    <3> QED
      BY <2>4, <2>6, <2>8, <3>1 DEF Agrees
  <2>9. ASSUME all.status = 200, kind = "or", NEW row \in Rows
        PROVE  Requires(x, row) <=> \E i \in 1..n : Requires(parts[i], row)
    <3>1. Offers(all, row) <=> \E i \in 1..n : Offers(parts[i], row)
      BY <2>4, <2>9 DEF Agrees
    <3> QED
      BY <2>6, <2>7, <2>9, <3>1
  <2>10. CASE kind = "and"
    BY <2>6, <2>7, <2>8, <2>10 DEF x
  <2>11. CASE kind = "or"
    BY <2>6, <2>7, <2>9, <2>11 DEF x
  <2> QED
    BY <2>10, <2>11
<1> QED
  BY <1>2, <1>3

-----------------------------------------------------------------------------
(***************************************************************************)
(* Filters: what they compile to, mean and mention.                        *)
(***************************************************************************)
(* The nodes of a group are filters, nested less deep. *)
LEMMA NodeFacts ==
  ASSUME NEW node \in Filters
  PROVE  /\ node.kind \in {"other", "leaf", "and", "or"}
         /\ Members(node) \in Seq(Filters) /\ Len(Members(node)) \in Nat
         /\ DOMAIN Members(node) = 1..Len(Members(node))
         /\ \A i \in DOMAIN Members(node) :
              Members(node)[i] \in Filters /\ Depth[Members(node)[i]] < Depth[node]
         /\ Group(node) /\ node.list # NotList => Members(node) = node.list
         /\ node.kind = "leaf" =>
              /\ node.list \in Seq(ToSet(node.list))
              /\ \A i \in DOMAIN node.list : Proper(node.list[i])
<1>1. node.kind \in {"other", "leaf", "and", "or"}
  BY FilterAssumption
<1>2. node.kind = "leaf" => node.list \in Seq(ToSet(node.list)) /\ \A i \in DOMAIN node.list : Proper(node.list[i])
  BY FilterAssumption DEF Proper
<1>3. CASE Group(node) /\ node.list # NotList
  <2>1. Members(node) = node.list
    BY <1>3 DEF Members
  <2>2. /\ node.list \in Seq(Filters)
        /\ \A i \in DOMAIN node.list : Depth[node.list[i]] < Depth[node]
    BY <1>3, FilterAssumption
  <2>3. Len(node.list) \in Nat /\ DOMAIN node.list = 1..Len(node.list)
        /\ \A i \in DOMAIN node.list : node.list[i] \in Filters
    BY <2>2, LenProperties
  <2> QED
    BY <1>1, <1>2, <2>1, <2>2, <2>3
<1>4. CASE ~(Group(node) /\ node.list # NotList)
  <2>1. Members(node) = <<>>
    BY <1>4 DEF Members
  <2>2. <<>> \in Seq(Filters) /\ Len(<<>>) = 0
    BY EmptySeq
  <2>3. DOMAIN <<>> = {} /\ 1..0 = {}
    OBVIOUS
  <2> QED
    BY <1>1, <1>2, <1>4, <2>1, <2>2, <2>3
<1> QED
  BY <1>3, <1>4

(* Depth measures the filters, so what is so of a group when it is so of its *)
(* nodes is so of all.                                                       *)
LEMMA FiltersDeep == Depth \in [Filters -> Nat]
BY FilterAssumption

-----------------------------------------------------------------------------
(* The compiler, one node at a time. *)
CompileNode(f, n, visible) ==
  CASE n.kind = "other" -> Good(Constantly(TRUE), <<>>)
    [] n.kind = "leaf" -> CompileLeaf(n.list, visible)
    [] OTHER -> IF n.list = NotList THEN Bad(400)
                ELSE CompileGroup(n.kind, [i \in DOMAIN n.list |-> f[n.list[i]]])

(* A node compiles to a clause when what it contains does, *)
LEMMA CompileNodeClause ==
  ASSUME NEW n \in Filters, NEW visible, NEW f,
         \A i \in DOMAIN Members(n) : f[Members(n)[i]] \in Clauses
  PROVE  CompileNode(f, n, visible) \in Clauses
<1>1. CASE n.kind = "other"
  <2>1. CompileNode(f, n, visible) = Good(Constantly(TRUE), <<>>)
    BY <1>1 DEF CompileNode
  <2> QED
    BY <2>1, ConstantlyFacts
<1>2. CASE n.kind = "leaf"
  <2>1. CompileNode(f, n, visible) = CompileLeaf(n.list, visible)
    BY <1>2 DEF CompileNode
  <2> QED
    BY <1>2, <2>1, NodeFacts, LeafFacts
<1>3. CASE Group(n)
  <2>1. CASE n.list = NotList
    <3>1. CompileNode(f, n, visible) = Bad(400)
      BY <1>3, <2>1 DEF CompileNode, Group
    <3> QED
      BY <3>1, BadClause
  <2>2. CASE n.list # NotList
    <3> DEFINE parts == [i \in DOMAIN n.list |-> f[n.list[i]]]
    <3>1. CompileNode(f, n, visible) = CompileGroup(n.kind, parts)
      BY <1>3, <2>2 DEF CompileNode, Group
    <3>2. PICK l \in Nat : DOMAIN n.list = 1..l
      BY <1>3, <2>2, NodeFacts
    <3>3. \A i \in DOMAIN n.list : f[n.list[i]] \in Clauses
      BY <1>3, <2>2, NodeFacts
    <3>4. parts \in [1..l -> Clauses]
      BY <3>2, <3>3
    <3> HIDE DEF parts
    <3>5. n.kind \in {"and", "or"}
      BY <1>3 DEF Group
    <3> QED
      BY <3>1, <3>4, <3>5, GroupFacts
  <2> QED
    BY <2>1, <2>2
<1> QED
  BY <1>1, <1>2, <1>3, NodeFacts DEF Group

(* and depends on what it contains alone, *)
LEMMA CompileNodeSame ==
  ASSUME NEW n \in Filters, NEW visible, NEW f, NEW g,
         \A i \in DOMAIN Members(n) : f[Members(n)[i]] = g[Members(n)[i]]
  PROVE  CompileNode(f, n, visible) = CompileNode(g, n, visible)
<1>1. CASE Group(n) /\ n.list # NotList
  <2>1. Members(n) = n.list
    BY <1>1, NodeFacts
  <2>2. [i \in DOMAIN n.list |-> f[n.list[i]]] = [i \in DOMAIN n.list |-> g[n.list[i]]]
    BY <2>1
  <2> QED
    BY <2>2, Zenon DEF CompileNode
<1>2. CASE n.kind \in {"other", "leaf"}
  BY <1>2 DEF CompileNode
<1>3. CASE Group(n) /\ n.list = NotList
  BY <1>3 DEF CompileNode, Group
<1> QED
  BY <1>1, <1>2, <1>3, NodeFacts DEF Group

Compiles(visible, f) == f = [n \in Filters |-> CompileNode(f, n, visible)]

(* so the recursion has a solution. *)
LEMMA CompilesExists ==
  ASSUME NEW visible
  PROVE  \E f : Compiles(visible, f)
<1> DEFINE step == [p \in [Filters -> Clauses] \X Filters |-> CompileNode(p[1], p[2], visible)]
<1>1. ASSUME NEW f \in [Filters -> Clauses], NEW n \in Filters
      PROVE  CompileNode(f, n, visible) \in Clauses
  BY CompileNodeClause, NodeFacts
<1>2. step \in [[Filters -> Clauses] \X Filters -> Clauses]
  BY <1>1
<1>3. \A f \in [Filters -> Clauses], n \in Filters : step[<<f, n>>] = CompileNode(f, n, visible)
  OBVIOUS
<1> HIDE DEF step
<1>4. ASSUME NEW f \in [Filters -> Clauses], NEW g \in [Filters -> Clauses], NEW n \in Filters,
             \A m \in Filters : Depth[m] < Depth[n] => f[m] = g[m]
      PROVE  step[<<f, n>>] = step[<<g, n>>]
  <2>1. \A i \in DOMAIN Members(n) : f[Members(n)[i]] = g[Members(n)[i]]
    BY <1>4, NodeFacts
  <2>2. CompileNode(f, n, visible) = CompileNode(g, n, visible)
    BY <2>1, CompileNodeSame
  <2> QED
    BY <1>3, <2>2
<1>5. Descends(Filters, Depth, Clauses, step)
  BY <1>2, <1>4 DEF Descends
<1>6. Clauses # {}
  BY BadClause
<1>7. PICK f \in [Filters -> Clauses] : Obeys(Filters, step, f)
  BY <1>5, <1>6, FiltersDeep, RecursionExists
<1>8. f = [n \in Filters |-> CompileNode(f, n, visible)]
  BY <1>3, <1>7 DEF Obeys
<1> QED
  BY <1>8 DEF Compiles

(* What a filter compiles to is an error or one alternative, made of what    *)
(* its nodes compile to.                                                     *)
LEMMA CompileWhereFacts ==
  ASSUME NEW visible
  PROVE  /\ \A n \in Filters : CompileWhere(n, visible) \in Clauses
         /\ \A n \in Filters :
              CompileWhere(n, visible) = CompileNode([m \in Filters |-> CompileWhere(m, visible)], n, visible)
<1> DEFINE f == CHOOSE f : Compiles(visible, f)
           g == [m \in Filters |-> CompileWhere(m, visible)]
           T == {n \in Filters : f[n] \in Clauses}
<1>1. Compiles(visible, f)
  BY CompilesExists
<1>2. \A n \in Filters : CompileWhere(n, visible) = f[n]
  BY DEF CompileWhere, Compiles, CompileNode
<1> HIDE DEF f
<1>3. \A n \in Filters : f[n] = CompileNode(f, n, visible)
  BY <1>1, Zenon DEF Compiles
<1>4. ASSUME NEW n \in Filters, \A m \in Filters : Depth[m] < Depth[n] => m \in T
      PROVE  n \in T
  <2>1. \A i \in DOMAIN Members(n) : f[Members(n)[i]] \in Clauses
    BY <1>4, NodeFacts
  <2>2. CompileNode(f, n, visible) \in Clauses
    BY <2>1, CompileNodeClause
  <2> QED
    BY <1>3, <2>2
<1>5. Filters \subseteq T
  <2> HIDE DEF T
  <2> QED
    BY <1>4, FiltersDeep, DepthInduction
<1>6. ASSUME NEW n \in Filters
      PROVE  CompileNode(f, n, visible) = CompileNode(g, n, visible)
  <2>1. \A i \in DOMAIN Members(n) : f[Members(n)[i]] = g[Members(n)[i]]
    BY <1>2, NodeFacts
  <2> HIDE DEF g
  <2> QED
    BY <2>1, CompileNodeSame
<1> QED
  BY <1>2, <1>3, <1>5, <1>6

(* What a filter means, one node at a time. *)
MeansNode(f, n, row) ==
  CASE n.kind = "and"  -> \A i \in DOMAIN Members(n) : f[Members(n)[i]]
    [] n.kind = "or"   -> \E i \in DOMAIN Members(n) : f[Members(n)[i]]
    [] n.kind = "leaf" -> \A i \in DOMAIN n.list : Test(n.list[i], row)
    [] OTHER -> TRUE

(* It depends on what the node contains alone, *)
LEMMA MeansNodeSame ==
  ASSUME NEW n \in Filters, NEW row, NEW f, NEW g,
         \A i \in DOMAIN Members(n) : f[Members(n)[i]] = g[Members(n)[i]]
  PROVE  MeansNode(f, n, row) = MeansNode(g, n, row)
<1>1. CASE n.kind = "and"
  BY <1>1 DEF MeansNode
<1>2. CASE n.kind = "or"
  BY <1>2 DEF MeansNode
<1>3. CASE n.kind = "leaf"
  BY <1>3 DEF MeansNode
<1>4. CASE n.kind = "other"
  BY <1>4 DEF MeansNode
<1> QED
  BY <1>1, <1>2, <1>3, <1>4, NodeFacts

Means(row, f) == f = [n \in Filters |-> MeansNode(f, n, row)]

(* so this recursion has a solution, *)
LEMMA MeansExists ==
  ASSUME NEW row
  PROVE  \E f : Means(row, f)
<1> DEFINE step == [p \in [Filters -> BOOLEAN] \X Filters |-> MeansNode(p[1], p[2], row)]
<1>1. ASSUME NEW f, NEW n
      PROVE  MeansNode(f, n, row) \in BOOLEAN
  BY DEF MeansNode
<1>2. step \in [[Filters -> BOOLEAN] \X Filters -> BOOLEAN]
  BY <1>1
<1>3. \A f \in [Filters -> BOOLEAN], n \in Filters : step[<<f, n>>] = MeansNode(f, n, row)
  OBVIOUS
<1> HIDE DEF step
<1>4. ASSUME NEW f \in [Filters -> BOOLEAN], NEW g \in [Filters -> BOOLEAN], NEW n \in Filters,
             \A m \in Filters : Depth[m] < Depth[n] => f[m] = g[m]
      PROVE  step[<<f, n>>] = step[<<g, n>>]
  <2>1. \A i \in DOMAIN Members(n) : f[Members(n)[i]] = g[Members(n)[i]]
    BY <1>4, NodeFacts
  <2>2. MeansNode(f, n, row) = MeansNode(g, n, row)
    BY <2>1, MeansNodeSame
  <2> QED
    BY <1>3, <2>2
<1>5. Descends(Filters, Depth, BOOLEAN, step)
  BY <1>2, <1>4 DEF Descends
<1>7. PICK f \in [Filters -> BOOLEAN] : Obeys(Filters, step, f)
  BY <1>5, FiltersDeep, RecursionExists
<1>8. f = [n \in Filters |-> MeansNode(f, n, row)]
  BY <1>3, <1>7 DEF Obeys
<1> QED
  BY <1>8 DEF Means

(* and Meaning is it. *)
LEMMA MeaningFacts ==
  ASSUME NEW row, NEW n \in Filters
  PROVE  /\ n.kind = "and"  => (Meaning(n, row) <=> \A i \in DOMAIN Members(n) : Meaning(Members(n)[i], row))
         /\ n.kind = "or"   => (Meaning(n, row) <=> \E i \in DOMAIN Members(n) : Meaning(Members(n)[i], row))
         /\ n.kind = "leaf" => (Meaning(n, row) <=> \A i \in DOMAIN n.list : Test(n.list[i], row))
         /\ n.kind = "other" => Meaning(n, row)
<1> DEFINE f == CHOOSE f : Means(row, f)
<1>1. Means(row, f)
  BY MeansExists
<1>2. \A m : Meaning(m, row) = f[m]
  BY DEF Meaning, Means, MeansNode
<1> HIDE DEF f
<1>3. f[n] = MeansNode(f, n, row)
  BY <1>1, Zenon DEF Means
<1>4. \A i \in DOMAIN Members(n) : Meaning(Members(n)[i], row) = f[Members(n)[i]]
  BY <1>2
<1>5. Meaning(n, row) = MeansNode(f, n, row)
  BY <1>2, <1>3
<1> QED
  BY <1>4, <1>5 DEF MeansNode

-----------------------------------------------------------------------------
(* The columns it mentions, one node at a time. *)
Citable == UNION {{node.list[i].col : i \in DOMAIN node.list} : node \in Filters}
CitedNode(f, n) ==
  IF n.kind = "leaf" THEN {n.list[i].col : i \in DOMAIN n.list}
  ELSE UNION {f[Members(n)[i]] : i \in DOMAIN Members(n)}

(* They depend on what the node contains alone, *)
LEMMA CitedNodeSame ==
  ASSUME NEW n, NEW f, NEW g, \A i \in DOMAIN Members(n) : f[Members(n)[i]] = g[Members(n)[i]]
  PROVE  CitedNode(f, n) = CitedNode(g, n)
<1>1. {f[Members(n)[i]] : i \in DOMAIN Members(n)} = {g[Members(n)[i]] : i \in DOMAIN Members(n)}
  OBVIOUS
<1> QED
  BY <1>1, Zenon DEF CitedNode

Cites(f) == f = [n \in Filters |-> CitedNode(f, n)]

(* so this recursion has a solution, *)
LEMMA CitesExists == \E f : Cites(f)
<1> DEFINE X == SUBSET Citable
           step == [p \in [Filters -> X] \X Filters |-> CitedNode(p[1], p[2])]
<1>1. ASSUME NEW f \in [Filters -> X], NEW n \in Filters
      PROVE  CitedNode(f, n) \in X
  <2>1. CASE n.kind = "leaf"
    <3>1. CitedNode(f, n) = {n.list[i].col : i \in DOMAIN n.list}
      BY <2>1 DEF CitedNode
    <3> QED
      BY <3>1 DEF Citable
  <2>2. CASE n.kind # "leaf"
    <3>1. CitedNode(f, n) = UNION {f[Members(n)[i]] : i \in DOMAIN Members(n)}
      BY <2>2 DEF CitedNode
    <3>2. \A i \in DOMAIN Members(n) : f[Members(n)[i]] \in SUBSET Citable
      BY NodeFacts
    <3> QED
      BY <3>1, <3>2
  <2> QED
    BY <2>1, <2>2
<1>2. step \in [[Filters -> X] \X Filters -> X]
  BY <1>1
<1>3. \A f \in [Filters -> X], n \in Filters : step[<<f, n>>] = CitedNode(f, n)
  OBVIOUS
<1> HIDE DEF step
<1>4. ASSUME NEW f \in [Filters -> X], NEW g \in [Filters -> X], NEW n \in Filters,
             \A m \in Filters : Depth[m] < Depth[n] => f[m] = g[m]
      PROVE  step[<<f, n>>] = step[<<g, n>>]
  <2>1. \A i \in DOMAIN Members(n) : f[Members(n)[i]] = g[Members(n)[i]]
    BY <1>4, NodeFacts
  <2>2. CitedNode(f, n) = CitedNode(g, n)
    BY <2>1, CitedNodeSame
  <2> QED
    BY <1>3, <2>2
<1>5. Descends(Filters, Depth, X, step)
  BY <1>2, <1>4 DEF Descends
<1>6. X # {}
  OBVIOUS
<1> HIDE DEF X
<1>7. PICK f \in [Filters -> X] : Obeys(Filters, step, f)
  BY <1>5, <1>6, FiltersDeep, RecursionExists
<1>8. f = [n \in Filters |-> CitedNode(f, n)]
  BY <1>3, <1>7 DEF Obeys
<1> QED
  BY <1>8 DEF Cites

(* and Mentions is it. *)
LEMMA MentionsFacts ==
  ASSUME NEW n \in Filters
  PROVE  /\ n.kind = "leaf" => Mentions(n) = {n.list[i].col : i \in DOMAIN n.list}
         /\ n.kind # "leaf" => Mentions(n) = UNION {Mentions(Members(n)[i]) : i \in DOMAIN Members(n)}
<1> DEFINE f == CHOOSE f : Cites(f)
<1>1. Cites(f)
  BY CitesExists
<1>2. \A m : Mentions(m) = f[m]
  BY DEF Mentions, Cites, CitedNode
<1> HIDE DEF f
<1>3. f[n] = CitedNode(f, n)
  BY <1>1, Zenon DEF Cites
<1>4. {Mentions(Members(n)[i]) : i \in DOMAIN Members(n)} = {f[Members(n)[i]] : i \in DOMAIN Members(n)}
  BY <1>2
<1> QED
  BY <1>2, <1>3, <1>4 DEF CitedNode

(* A filter that compiles says what it means, and of visible columns only. *)
SameIn(visible, r, s) == \A col \in visible : r[col] = s[col]
Faithful(n, visible) ==
  LET x == CompileWhere(n, visible)
  IN x.status = 200 =>
       /\ \A row \in Rows : Written(row) => (Requires(x, row) <=> Meaning(n, row))
       /\ Mentions(n) \subseteq visible
       /\ \A r, s \in Rows : SameIn(visible, r, s) => (Requires(x, r) <=> Requires(x, s))

(* A list of conditions is faithful, *)
LEMMA LeafFaithful ==
  ASSUME NEW n \in Filters, NEW visible, n.kind = "leaf"
  PROVE  Faithful(n, visible)
<1> DEFINE x == CompileLeaf(n.list, visible)
<1>1. CompileWhere(n, visible) = x
  BY CompileWhereFacts DEF CompileNode
<1>2. x.status = 200 =>
        /\ \A i \in DOMAIN n.list : n.list[i].col \in visible /\ CompileOp(n.list[i]).status = 200
        /\ \A row \in Rows :
             Requires(x, row) <=> \A i \in DOMAIN n.list : Passes(n.list[i], row[n.list[i].col])
  BY NodeFacts, LeafFacts
<1> HIDE DEF x
<1>3. SUFFICES ASSUME x.status = 200
      PROVE  /\ \A row \in Rows : Written(row) => (Requires(x, row) <=> Meaning(n, row))
             /\ Mentions(n) \subseteq visible
             /\ \A r, s \in Rows : SameIn(visible, r, s) => (Requires(x, r) <=> Requires(x, s))
  BY <1>1 DEF Faithful
<1>4. ASSUME NEW row \in Rows, Written(row)
      PROVE  Requires(x, row) <=> Meaning(n, row)
  <2>1. \A i \in DOMAIN n.list : Passes(n.list[i], row[n.list[i].col]) <=> Test(n.list[i], row)
    BY <1>2, <1>3, <1>4, NodeFacts, PassesTest
  <2> QED
    BY <1>2, <1>3, <2>1, MeaningFacts
<1>5. Mentions(n) \subseteq visible
  BY <1>2, <1>3, MentionsFacts
<1>6. ASSUME NEW r \in Rows, NEW s \in Rows, SameIn(visible, r, s)
      PROVE  Requires(x, r) <=> Requires(x, s)
  <2>1. \A i \in DOMAIN n.list : r[n.list[i].col] = s[n.list[i].col]
    BY <1>2, <1>3, <1>6 DEF SameIn
  <2> QED
    BY <1>2, <1>3, <2>1
<1> QED
  BY <1>4, <1>5, <1>6

(* and so is a group whose nodes are. *)
LEMMA GroupFaithful ==
  ASSUME NEW n \in Filters, NEW visible, Group(n),
         \A i \in DOMAIN Members(n) : Faithful(Members(n)[i], visible)
  PROVE  Faithful(n, visible)
<1> DEFINE parts == [i \in DOMAIN n.list |-> CompileWhere(n.list[i], visible)]
           x == CompileWhere(n, visible)
<1>1. CASE n.list = NotList
  <2>1. x = Bad(400)
    BY <1>1, CompileWhereFacts DEF CompileNode, Group
  <2> HIDE DEF x
  <2>2. x.status # 200
    BY <2>1, BadClause
  <2> QED
    BY <2>2 DEF Faithful, x
<1>2. CASE n.list # NotList
  <2>1. Members(n) = n.list /\ \A i \in DOMAIN n.list : n.list[i] \in Filters
    BY <1>2, NodeFacts
  <2>2. PICK l \in Nat : DOMAIN n.list = 1..l
    BY <2>1, NodeFacts
  <2>3. x = CompileGroup(n.kind, parts)
    <3>1. [i \in DOMAIN n.list |-> [m \in Filters |-> CompileWhere(m, visible)][n.list[i]]] = parts
      BY <2>1
    <3>2. x = CompileGroup(n.kind, [i \in DOMAIN n.list |-> [m \in Filters |-> CompileWhere(m, visible)][n.list[i]]])
      BY <1>2, CompileWhereFacts DEF CompileNode, Group
    <3> QED
      BY <3>1, <3>2
  <2>4. parts \in [1..l -> Clauses]
    BY <2>1, <2>2, CompileWhereFacts
  <2>5. n.kind \in {"and", "or"}
    BY DEF Group
  <2>6. \A i \in 1..l : parts[i] = CompileWhere(n.list[i], visible)
    BY <2>2
  <2> HIDE DEF parts, x
  <2>7. x.status = 200 =>
          /\ \A i \in 1..l : parts[i].status = 200
          /\ \A row \in Rows :
               Requires(x, row) <=> IF n.kind = "and" THEN \A i \in 1..l : Requires(parts[i], row)
                                    ELSE \E i \in 1..l : Requires(parts[i], row)
    BY <2>3, <2>4, <2>5, GroupFacts
  <2>8. SUFFICES ASSUME x.status = 200
        PROVE  /\ \A row \in Rows : Written(row) => (Requires(x, row) <=> Meaning(n, row))
               /\ Mentions(n) \subseteq visible
               /\ \A r, s \in Rows : SameIn(visible, r, s) => (Requires(x, r) <=> Requires(x, s))
    BY DEF Faithful, x
  <2>9. ASSUME NEW i \in 1..l
        PROVE  /\ \A row \in Rows : Written(row) => (Requires(parts[i], row) <=> Meaning(n.list[i], row))
               /\ Mentions(n.list[i]) \subseteq visible
               /\ \A r, s \in Rows : SameIn(visible, r, s) => (Requires(parts[i], r) <=> Requires(parts[i], s))
    BY <2>1, <2>2, <2>6, <2>7, <2>8 DEF Faithful
  <2>10. ASSUME NEW row \in Rows, Written(row)
         PROVE  Requires(x, row) <=> Meaning(n, row)
    <3>1. \A i \in 1..l : Requires(parts[i], row) <=> Meaning(n.list[i], row)
      BY <2>9, <2>10
    <3>2. CASE n.kind = "and"
      BY <2>1, <2>2, <2>7, <2>8, <3>1, <3>2, MeaningFacts
    <3>3. CASE n.kind = "or"
      BY <2>1, <2>2, <2>7, <2>8, <3>1, <3>3, MeaningFacts
    <3> QED
      BY <2>5, <3>2, <3>3
  <2>11. Mentions(n) \subseteq visible
    <3>1. Mentions(n) = UNION {Mentions(n.list[i]) : i \in DOMAIN n.list}
      BY <2>1, <2>5, MentionsFacts
    <3> QED
      BY <2>2, <2>9, <3>1
  <2>12. ASSUME NEW r \in Rows, NEW s \in Rows, SameIn(visible, r, s)
         PROVE  Requires(x, r) <=> Requires(x, s)
    <3>1. \A i \in 1..l : Requires(parts[i], r) <=> Requires(parts[i], s)
      BY <2>9, <2>12
    <3> QED
      BY <2>7, <2>8, <3>1
  <2> QED
    BY <2>10, <2>11, <2>12
<1> QED
  BY <1>1, <1>2

(* Every filter is faithful: in rows written as declared it holds where it   *)
(* is meant to, and what it says depends on visible columns alone.           *)
THEOREM FiltersFaithful ==
  ASSUME NEW visible
  PROVE  \A n \in Filters : Faithful(n, visible)
<1> DEFINE T == {n \in Filters : Faithful(n, visible)}
<1>1. ASSUME NEW n \in Filters, \A m \in Filters : Depth[m] < Depth[n] => m \in T
      PROVE  n \in T
  <2>1. CASE n.kind = "other"
    <3>1. CompileWhere(n, visible) = Good(Constantly(TRUE), <<>>)
      BY <2>1, CompileWhereFacts DEF CompileNode
    <3>2. \A row \in Rows : Requires(CompileWhere(n, visible), row)
      BY <3>1, ConstantlyFacts
    <3>3. Members(n) = <<>> /\ DOMAIN <<>> = {}
      BY <2>1 DEF Members, Group
    <3>4. Mentions(n) = {}
      BY <2>1, <3>3, MentionsFacts
    <3>5. \A row \in Rows : Meaning(n, row)
      BY <2>1, MeaningFacts
    <3> QED
      BY <3>2, <3>4, <3>5 DEF Faithful
  <2>2. CASE n.kind = "leaf"
    BY <2>2, LeafFaithful
  <2>3. CASE Group(n)
    <3>1. \A i \in DOMAIN Members(n) : Faithful(Members(n)[i], visible)
      BY <1>1, NodeFacts
    <3> QED
      BY <2>3, <3>1, GroupFaithful
  <2> QED
    BY <2>1, <2>2, <2>3, NodeFacts DEF Group
<1> HIDE DEF T
<1>2. Filters \subseteq T
  BY <1>1, FiltersDeep, DepthInduction
<1> QED
  BY <1>2 DEF T

-----------------------------------------------------------------------------
(***************************************************************************)
(* The WHERE of a query.                                                   *)
(***************************************************************************)
(* The tenant is compared as a conjunct of its own. *)
LEMMA TenantFacts ==
  ASSUME NEW by \in Callers
  PROVE  LET x == TenantPart(by)
         IN x \in Clauses /\ x.status = 200 /\ \A row \in Rows : Requires(x, row) <=> row["tenant"] = by.tenant
<1> DEFINE x == TenantPart(by)
<1>1. by.tenant \in Values /\ by.tenant # Null
  BY AnswersAssumption
<1>2. x = Good(Factor("tenant", "=", 1), <<by.tenant>>)
  BY DEF TenantPart
<1>3. x \in Clauses /\ x.status = 200
      /\ \A row \in Rows : Requires(x, row) <=> Satisfies("=", row["tenant"], <<by.tenant>>)
  BY <1>1, <1>2, OneHole
<1>4. \A v : Satisfies("=", v, <<by.tenant>>) <=> v = by.tenant
  BY <1>1 DEF Satisfies
<1> HIDE DEF x
<1>5. x \in Clauses /\ x.status = 200 /\ \A row \in Rows : Requires(x, row) <=> row["tenant"] = by.tenant
  BY <1>3, <1>4
<1> QED
  BY <1>5 DEF x

(* The policy's fragment is one, in its parentheses. *)
LEMMA UsingFacts ==
  ASSUME NEW c \in Cases
  PROVE  LET x == UsingPart(TextOf(c), c.caller)
         IN /\ x \in PartsFor("and")
            /\ x.status = 200 => \A row \in Rows : Requires(x, row) <=> Permits(c, row)
<1> DEFINE u == TextOf(c).using
           by == c.caller
           x == UsingPart(TextOf(c), by)
           v == CompileUsing(u, by)
<1>0. c.policy \in Policies /\ c.edition \in 1..MaxRequests /\ by \in Callers
  BY DEF Cases
<1>1. u # Null /\ u.single =>
        /\ u.names \in Seq(STRING) /\ u.text.holes = Len(u.names)
        /\ \A i \in DOMAIN u.names : by[u.names[i]] \in Values
  BY <1>0, AnswersAssumption DEF TextOf
<1>2. CASE u = Null
  <2>1. x = Nothing
    BY <1>2 DEF UsingPart
  <2>2. \A row : Permits(c, row)
    BY <1>2 DEF Permits
  <2> HIDE DEF x
  <2>3. x \in PartsFor("and") /\ \A row : Requires(x, row)
    BY <2>1, NothingFacts DEF PartsFor, Requires
  <2> QED
    BY <2>2, <2>3 DEF x
<1>3. CASE u # Null
  <2>1. x = Closed(v)
    BY <1>3 DEF UsingPart
  <2>2. ASSUME NEW code \in {400, 403}, v = Bad(code)
        PROVE  x \in PartsFor("and") /\ x.status # 200
    <3>1. v.status # 200
      BY <2>2, BadFacts
    <3>2. x = Bad(code)
      BY <2>1, <2>2, <3>1 DEF Closed
    <3> HIDE DEF x
    <3> QED
      BY <3>2, BadFacts, BadClause, ClauseFacts
  <2>3. CASE ~u.single
    <3>1. v = Bad(400)
      BY <2>3 DEF CompileUsing
    <3> QED
      BY <2>2, <3>1
  <2>4. CASE u.single /\ \E i \in DOMAIN u.names : by[u.names[i]] = Null
    <3>1. v = Bad(403)
      BY <2>4 DEF CompileUsing
    <3> QED
      BY <2>2, <3>1
  <2>5. CASE u.single /\ ~\E i \in DOMAIN u.names : by[u.names[i]] = Null
    <3> DEFINE a == [i \in DOMAIN u.names |-> by[u.names[i]]]
               t == u.text
               y == Good(Parens(t), a)
    <3>1. v = Good(t, a)
      BY <2>5 DEF CompileUsing
    <3>2. x = y
      BY <2>1, <3>1 DEF Closed, Good
    <3>3. PICK n \in Nat : n = Len(u.names) /\ DOMAIN u.names = 1..n
      BY <1>1, <1>3, <2>5, LenProperties
    <3>4. a \in [1..n -> Values] /\ t.holes = n
      BY <1>1, <1>3, <2>5, <3>3
    <3>5. \A row : Permits(c, row) <=> Holds(t, a, row)
      BY <1>3, <2>5 DEF Permits
    <3> HIDE DEF a, t
    <3>6. /\ Parens(t) \in Texts(n) /\ Len(Parens(t).alts) = 1
          /\ \A row \in Rows : Holds(Parens(t), a, row) <=> Holds(t, a, row)
      BY <3>4, ParensFacts
    <3>7. y \in Clauses /\ \A row : Requires(y, row) <=> Holds(Parens(t), a, row)
      BY <3>4, <3>6, IsClause
    <3> HIDE DEF x, y
    <3>8. x \in PartsFor("and") /\ \A row \in Rows : Requires(x, row) <=> Permits(c, row)
      BY <3>2, <3>5, <3>6, <3>7, ClauseFacts
    <3> QED
      BY <3>8 DEF x
  <2> QED
    BY <2>2, <2>3, <2>4, <2>5
<1> QED
  BY <1>2, <1>3

(* What is visible is what the policy leaves to the reader. *)
LEMMA ReadableFacts ==
  ASSUME NEW c
  PROVE  AllowedColumns(c.def, TextOf(c)) = Readable(c)
BY DEF AllowedColumns, Readable, Spine

(* The whole WHERE, as its three conditions. *)
Filter(c, b) == CompileWhere(b.where, Readable(c))
(* The clause holds for the rows that pass the three of them. *)
LEMMA WhereFacts ==
  ASSUME NEW c \in Cases, NEW b, b.where = Null \/ b.where \in Filters
  PROVE  LET x == Where(c.def, TextOf(c), c.caller, b)
         IN x.status = 200 =>
              /\ b.where # Null => Filter(c, b).status = 200
              /\ \A row \in Rows : Holds(x.text, x.args, row) <=>
                   /\ row["tenant"] = c.caller.tenant
                   /\ Permits(c, row)
                   /\ b.where # Null => Requires(Filter(c, b), row)
<1> DEFINE p1 == TenantPart(c.caller)
           p2 == UsingPart(TextOf(c), c.caller)
           p3 == FilterPart(c.def, TextOf(c), b)
           parts == <<p1, p2, p3>>
           x == JoinAll("and", parts)
<1>0. c.caller \in Callers
  BY DEF Cases
<1>1. p1 \in PartsFor("and") /\ p1.status = 200 /\ ~Blank(p1)
      /\ \A row \in Rows : Requires(p1, row) <=> row["tenant"] = c.caller.tenant
  <2>1. p1 \in Clauses /\ p1.status = 200
        /\ \A row \in Rows : Requires(p1, row) <=> row["tenant"] = c.caller.tenant
    BY <1>0, TenantFacts
  <2> HIDE DEF p1
  <2> QED
    BY <2>1, ClauseFacts
<1>2. /\ p2 \in PartsFor("and")
      /\ p2.status = 200 => \A row \in Rows : Requires(p2, row) <=> Permits(c, row)
  BY UsingFacts
<1>3. /\ p3 \in PartsFor("and")
      /\ b.where # Null => p3 = Filter(c, b)
      /\ b.where = Null => \A row : Requires(p3, row)
  <2>1. CASE b.where = Null
    <3>1. p3 = Nothing
      BY <2>1 DEF FilterPart
    <3> HIDE DEF p3
    <3> QED
      BY <2>1, <3>1, NothingFacts DEF PartsFor, Requires
  <2>2. CASE b.where # Null
    <3>1. p3 = Filter(c, b)
      BY <2>2, ReadableFacts DEF FilterPart, Filter
    <3>2. Filter(c, b) \in Clauses
      BY <2>2, CompileWhereFacts DEF Filter
    <3> HIDE DEF p3
    <3> QED
      BY <2>2, <3>1, <3>2, ClauseFacts
  <2> QED
    BY <2>1, <2>2
<1>4. Where(c.def, TextOf(c), c.caller, b) = x
  BY DEF Where
<1> HIDE DEF p1, p2, p3
<1>5. Len(parts) = 3 /\ parts[1] = p1 /\ parts[2] = p2 /\ parts[3] = p3
  OBVIOUS
<1> HIDE DEF parts
<1>6. \A i : i \in 1..3 <=> i = 1 \/ i = 2 \/ i = 3
  OBVIOUS
<1>7. Agrees("and", parts, 3, x)
  <2>1. Len(parts) \in Nat /\ \A i \in 1..Len(parts) : parts[i] \in PartsFor("and")
    BY <1>1, <1>2, <1>3, <1>5, <1>6
  <2> HIDE DEF x
  <2>2. Agrees("and", parts, Len(parts), JoinAll("and", parts))
    BY <2>1, JoinAllFacts
  <2> QED
    BY <1>5, <2>2 DEF x
<1> HIDE DEF x
<1>8. SUFFICES ASSUME x.status = 200
      PROVE  /\ b.where # Null => Filter(c, b).status = 200
             /\ \A row \in Rows : Holds(x.text, x.args, row) <=>
                  /\ row["tenant"] = c.caller.tenant
                  /\ Permits(c, row)
                  /\ b.where # Null => Requires(Filter(c, b), row)
  BY <1>4
<1>9. \A i \in 1..3 : parts[i].status = 200
  BY <1>7, <1>8 DEF Agrees
<1>10. p2.status = 200 /\ p3.status = 200
  BY <1>5, <1>6, <1>9
<1>11. ~Blank(x)
  <2>1. ~Blank(parts[1]) /\ 1 \in 1..3
    BY <1>1, <1>5, <1>6
  <2> QED
    BY <1>7, <1>8, <2>1 DEF Agrees
<1>12. ASSUME NEW row \in Rows
       PROVE  Holds(x.text, x.args, row) <=> Requires(p1, row) /\ Requires(p2, row) /\ Requires(p3, row)
  <2>1. Requires(x, row) <=> \A i \in 1..3 : Requires(parts[i], row)
    BY <1>7, <1>8 DEF Agrees
  <2>2. Requires(x, row) <=> Holds(x.text, x.args, row)
    BY <1>11 DEF Requires
  <2> QED
    BY <1>5, <1>6, <2>1, <2>2
<1> QED
  BY <1>1, <1>2, <1>3, <1>10, <1>12

-----------------------------------------------------------------------------
(***************************************************************************)
(* Answers.                                                                *)
(***************************************************************************)
(* A query that succeeds mentions visible columns only. *)
LEMMA SucceedsFacts ==
  ASSUME NEW c, NEW b, Succeeds(c, b)
  PROVE  /\ Where(c.def, TextOf(c), c.caller, b).status = 200
         /\ ToSet(b.select) \subseteq Readable(c) /\ SortColumns(b) \subseteq Readable(c)
         /\ Shown(c.def, TextOf(c), b) \subseteq Readable(c)
<1> DEFINE visible == AllowedColumns(c.def, TextOf(c))
           where == Where(c.def, TextOf(c), c.caller, b)
           s == Status(c.def, TextOf(c), c.caller, b)
<1>1. s = 200
  BY DEF Succeeds
<1>2. s = CASE ~(ToSet(b.select) \subseteq visible) -> 400
            [] ToSet(b.select) \subseteq visible /\ where.status # 200 -> where.status
            [] OTHER -> IF ~(SortColumns(b) \subseteq visible) THEN 400
                        ELSE IF Shown(c.def, TextOf(c), b) = {} \/ Refused(b) THEN 500 ELSE 200
  BY DEF Status
<1>3. visible = Readable(c)
  BY ReadableFacts
<1> HIDE DEF visible, where, s
<1>4. ToSet(b.select) \subseteq visible /\ where.status = 200 /\ SortColumns(b) \subseteq visible
  BY <1>1, <1>2
<1>5. Shown(c.def, TextOf(c), b) \subseteq visible
  BY <1>4 DEF Shown, visible
<1> QED
  BY <1>3, <1>4, <1>5 DEF where

(* So do the rows a query selects. *)
LEMMA SelectedFacts ==
  ASSUME NEW c \in Cases, NEW b, b.where = Null \/ b.where \in Filters, Succeeds(c, b)
  PROVE  /\ b.where # Null => Filter(c, b).status = 200
         /\ Selected(c, b) = {row \in Rows : /\ row["tenant"] = c.caller.tenant
                                             /\ Permits(c, row)
                                             /\ b.where # Null => Requires(Filter(c, b), row)}
<1> DEFINE x == Where(c.def, TextOf(c), c.caller, b)
<1>1. x.status = 200
  BY SucceedsFacts
<1>2. /\ b.where # Null => Filter(c, b).status = 200
      /\ \A row \in Rows : Holds(x.text, x.args, row) <=>
           /\ row["tenant"] = c.caller.tenant
           /\ Permits(c, row)
           /\ b.where # Null => Requires(Filter(c, b), row)
  BY <1>1, WhereFacts
<1>3. Selected(c, b) = {row \in Rows : Holds(x.text, x.args, row)}
  BY DEF Selected, Matches
<1> HIDE DEF x
<1> QED
  BY <1>2, <1>3

(* The filter of a body is faithful to the columns the policy leaves. *)
LEMMA FilterFaithful ==
  ASSUME NEW c, NEW b, b.where \in Filters, Filter(c, b).status = 200
  PROVE  /\ \A row \in Rows : Written(row) => (Requires(Filter(c, b), row) <=> Meaning(b.where, row))
         /\ Mentions(b.where) \subseteq Readable(c)
         /\ \A r, s \in Rows : SameIn(Readable(c), r, s) => (Requires(Filter(c, b), r) <=> Requires(Filter(c, b), s))
<1>1. Faithful(b.where, Readable(c))
  BY FiltersFaithful
<1> QED
  BY <1>1 DEF Faithful, Filter

(* A body has a filter or none. *)
LEMMA BodyFacts == \A b \in Bodies : b.where = Null \/ b.where \in Filters
BY AnswersAssumption

-----------------------------------------------------------------------------
(* For every definition, policy, caller and body, the answer is the          *)
(* conjunction,                                                              *)
LEMMA AlwaysConjunctive == \A c \in Cases : Conjunctive[c]
<1> SUFFICES ASSUME NEW c \in Cases, NEW b \in Bodies, Succeeds(c, b)
             PROVE  {row \in Selected(c, b) : Written(row)} =
                      {row \in Rows : /\ Written(row)
                                      /\ row["tenant"] = c.caller.tenant
                                      /\ Permits(c, row)
                                      /\ b.where # Null => Meaning(b.where, row)}
  BY DEF Conjunctive
<1>1. /\ b.where # Null => Filter(c, b).status = 200
      /\ Selected(c, b) = {row \in Rows : /\ row["tenant"] = c.caller.tenant
                                          /\ Permits(c, row)
                                          /\ b.where # Null => Requires(Filter(c, b), row)}
  BY BodyFacts, SelectedFacts
<1>2. b.where # Null =>
        \A row \in Rows : Written(row) => (Requires(Filter(c, b), row) <=> Meaning(b.where, row))
  BY <1>1, BodyFacts, FilterFaithful
<1> QED
  BY <1>1, <1>2

(* hidden columns make no difference, *)
LEMMA AlwaysBlind == \A c \in Cases : Blind[c]
<1> SUFFICES ASSUME NEW c \in Cases, NEW b \in Bodies, Succeeds(c, b)
             PROVE  /\ Shown(c.def, TextOf(c), b) \cup SortColumns(b) \subseteq Readable(c)
                    /\ b.where # Null => Mentions(b.where) \subseteq Readable(c)
                    /\ LET answered == Selected(c, b)
                           accounts == {<<Visible(c, row), row \in answered, Answer(c.def, TextOf(c), b, row)>> : row \in Rows}
                       IN \A x, y \in accounts : x[1] = y[1] => x = y
  BY DEF Blind
<1>1. /\ b.where # Null => Filter(c, b).status = 200
      /\ Selected(c, b) = {row \in Rows : /\ row["tenant"] = c.caller.tenant
                                          /\ Permits(c, row)
                                          /\ b.where # Null => Requires(Filter(c, b), row)}
  BY BodyFacts, SelectedFacts
<1>2. Shown(c.def, TextOf(c), b) \subseteq Readable(c) /\ SortColumns(b) \subseteq Readable(c)
  BY SucceedsFacts
<1>3. b.where # Null =>
        /\ Mentions(b.where) \subseteq Readable(c)
        /\ \A r, s \in Rows : SameIn(Readable(c), r, s) => (Requires(Filter(c, b), r) <=> Requires(Filter(c, b), s))
  BY <1>1, BodyFacts, FilterFaithful
<1> DEFINE answered == Selected(c, b)
           Shows(row) == Answer(c.def, TextOf(c), b, row)
           Account(row) == <<Visible(c, row), row \in answered, Shows(row)>>
<1>4. ASSUME NEW r \in Rows, NEW s \in Rows, Visible(c, r) = Visible(c, s)
      PROVE  Account(r) = Account(s)
  <2>1. /\ r["tenant"] = s["tenant"] /\ (Permits(c, r) <=> Permits(c, s))
        /\ [col \in Readable(c) |-> r[col]] = [col \in Readable(c) |-> s[col]]
    BY <1>4 DEF Visible
  <2>2. \A col \in Readable(c) : r[col] = s[col]
    BY <2>1
  <2>3. r \in answered <=> s \in answered
    BY <1>1, <1>3, <2>1, <2>2 DEF SameIn
  <2>4. \A col \in Shown(c.def, TextOf(c), b) : Value(col, r) = Value(col, s)
    BY <1>2, <2>2 DEF Value
  <2>5. Shows(r) = Shows(s)
    BY <2>4, Zenon DEF Answer
  <2> HIDE DEF answered, Shows
  <2> QED
    BY <1>4, <2>3, <2>5
<1>5. \A x, y \in {Account(row) : row \in Rows} : x[1] = y[1] => x = y
  <2> SUFFICES ASSUME NEW r \in Rows, NEW s \in Rows, Account(r)[1] = Account(s)[1]
               PROVE  Account(r) = Account(s)
    OBVIOUS
  <2>1. \A row : Account(row)[1] = Visible(c, row)
    OBVIOUS
  <2> HIDE DEF Account
  <2> QED
    BY <1>4, <2>1
<1> QED
  BY <1>2, <1>3, <1>5

(* a boolean reads as true where the column holds 1, *)
LEMMA AsBoolTrue ==
  ASSUME NEW v
  PROVE  AsBool(v) = True <=> v = 1
BY Distinct DEF AsBool

(* and the filter `eq: true` answers just the rows that read so. *)
LEMMA AlwaysAgreeing == \A c \in Cases : Agreeing[c]
<1> SUFFICES ASSUME NEW c \in Cases, NEW col \in Booleans \cap Readable(c)
             PROVE  LET b == [select |-> <<>>, where |-> IsTrue(col), sort |-> <<>>, limit |-> Null, offset |-> Null]
                    IN Succeeds(c, b) =>
                         \A row \in Rows : row["tenant"] = c.caller.tenant /\ Permits(c, row)
                           => (row \in Selected(c, b) <=> Answer(c.def, TextOf(c), b, row)[col] = True)
  BY DEF Agreeing
<1> DEFINE b == [select |-> <<>>, where |-> IsTrue(col), sort |-> <<>>, limit |-> Null, offset |-> Null]
           f == [col |-> col, op |-> "eq", value |-> True, list |-> NotList]
           n == IsTrue(col)
<1>1. n \in Filters /\ b.where = n /\ b.select = <<>>
  BY AnswersAssumption
<1>2. n.kind = "leaf" /\ n.list = <<f>>
  BY DEF IsTrue
<1> HIDE DEF b, n
<1> SUFFICES ASSUME Succeeds(c, b), NEW row \in Rows, row["tenant"] = c.caller.tenant, Permits(c, row)
             PROVE  row \in Selected(c, b) <=> Answer(c.def, TextOf(c), b, row)[col] = True
  BY DEF b, n
<1>3. b.where = Null \/ b.where \in Filters
  BY <1>1
<1>4. /\ b.where # Null => Filter(c, b).status = 200
      /\ row \in Selected(c, b) <=> (b.where # Null => Requires(Filter(c, b), row))
  BY <1>3, SelectedFacts
<1>5. Answer(c.def, TextOf(c), b, row)[col] = True <=> row[col] = 1
  <2>1. Shown(c.def, TextOf(c), b) = Readable(c)
    BY <1>1, ReadableFacts DEF Shown
  <2>2. Answer(c.def, TextOf(c), b, row)[col] = Value(col, row)
    BY <2>1 DEF Answer
  <2>3. Value(col, row) = AsBool(row[col])
    BY DEF Value
  <2> QED
    BY <2>2, <2>3, AsBoolTrue
<1>6. b.where # Null
  BY <1>1, FilterAssumption
<1>7. Requires(Filter(c, b), row) <=> row[col] = 1
  <2> DEFINE x == CompileLeaf(n.list, Readable(c))
  <2>1. Filter(c, b) = x
    BY <1>1, <1>2, CompileWhereFacts DEF CompileNode, Filter
  <2>2. x.status = 200 =>
           (Requires(x, row) <=> \A i \in DOMAIN n.list : Passes(n.list[i], row[n.list[i].col]))
    BY <1>1, <1>2, NodeFacts, LeafFacts
  <2> HIDE DEF x
  <2>3. f.col = col /\ f.op = "eq" /\ f.value = True
    OBVIOUS
  <2> HIDE DEF f
  <2>4. DOMAIN n.list = {1} /\ n.list[1] = f
    BY <1>2
  <2>5. Passes(f, row[col]) <=> row[col] # Null /\ row[col] = Normalize(True)
    BY <2>3, Distinct DEF Passes
  <2> QED
    BY <1>4, <1>6, <2>1, <2>2, <2>3, <2>4, <2>5, Distinct, NormalizeFacts
<1> QED
  BY <1>4, <1>5, <1>6, <1>7

-----------------------------------------------------------------------------
(***************************************************************************)
(* Pages.                                                                  *)
(***************************************************************************)
(* What lies before a page ends where the page before it ends. *)
LEMMA PagesApart ==
  ASSUME NEW L \in Nat \ {0}, NEW a \in Nat, NEW b \in Nat, a < b
  PROVE  a * L \in Nat /\ b * L \in Nat /\ a * L + L <= b * L
<1>1. PICK d \in Nat : b = a + 1 + d
  <2>1. b - a - 1 \in Nat /\ b = a + 1 + (b - a - 1)
    OBVIOUS
  <2> QED
    BY <2>1
<1>2. \A x, y, z \in Nat : (x + 1 + y) * z = x * z + z + y * z /\ x * z \in Nat
  OBVIOUS
<1>3. b * L = a * L + L + d * L /\ a * L \in Nat /\ d * L \in Nat /\ b * L \in Nat
  BY <1>1, <1>2
<1> DEFINE p == a * L
           q == d * L
<1>4. p \in Nat /\ q \in Nat /\ b * L = p + L + q
  BY <1>3
<1> HIDE DEF p, q
<1>5. p + L <= p + L + q
  BY <1>4
<1> QED
  BY <1>3, <1>4, <1>5 DEF p

(* Every row is on a page: i rows before it are k whole pages and some rest. *)
LEMMA EveryRowHasAPage ==
  ASSUME NEW L \in Nat \ {0}, NEW n \in Nat
  PROVE  \A i \in 0..n : \E k \in 0..i : k * L <= i /\ i < k * L + L
<1> DEFINE On(i, k) == k * L <= i /\ i < k * L + L
           T == {i \in 0..n : \E k \in 0..i : On(i, k)}
<1>1. 0 \in T
  <2>1. On(0, 0) /\ 0 \in 0..0 /\ 0 \in 0..n
    <3>1. 0 * L = 0
      OBVIOUS
    <3> QED
      BY <3>1
  <2> HIDE DEF On
  <2> QED
    BY <2>1
<1>2. ASSUME NEW i \in 1..n, i - 1 \in T
      PROVE  i \in T
  <2>1. PICK k \in 0..(i - 1) : On(i - 1, k)
    BY <1>2
  <2> DEFINE p == k * L
  <2>2. p \in Nat /\ (k + 1) * L = p + L
    <3>1. \A x, z \in Nat : (x + 1) * z = x * z + z /\ x * z \in Nat
      OBVIOUS
    <3> QED
      BY <3>1
  <2>3. p <= i - 1 /\ i - 1 < p + L
    BY <2>1
  <2> HIDE DEF p
  <2>4. CASE i < p + L
    <3>1. p <= i
      BY <2>2, <2>3
    <3>2. On(i, k)
      BY <2>4, <3>1 DEF p
    <3> QED
      BY <3>2
  <2>5. CASE ~(i < p + L)
    <3>1. p + L <= i /\ i < p + L + L
      BY <2>2, <2>3, <2>5
    <3>2. On(i, k + 1)
      BY <2>2, <3>1
    <3> HIDE DEF On
    <3>3. k + 1 \in 0..i /\ i \in 0..n
      OBVIOUS
    <3> QED
      BY <3>2, <3>3
  <2> QED
    BY <2>4, <2>5
<1> HIDE DEF T
<1>3. \A i \in 0..n : i \in T
  BY <1>1, <1>2, Climb
<1> QED
  BY <1>3 DEF T

(* The limit is between 1 and the maximum, if an int holds what was sent. *)
LEMMA LimitFacts ==
  ASSUME NEW raw, InRange(raw)
  PROVE  /\ Limit(raw) \in 1..MaxRows
         /\ raw \in 1..MaxRows => Limit(raw) = raw
<1>1. DefaultRows \in 1..MaxRows /\ MaxRows \in 1..MaxRows /\ MaxRows \in Nat \ {0}
  BY SelectAssumption
<1>2. CASE raw \in Int /\ raw > 0
  <2>0. raw <= IntMax
    BY <1>2 DEF InRange
  <2>1. ToInt(raw) = raw
    BY <2>0, Zenon DEF ToInt
  <2>2. Limit(raw) = IF raw > MaxRows THEN MaxRows ELSE raw
    BY <1>2, <2>1 DEF Limit, InRange
  <2> QED
    BY <1>1, <1>2, <2>2
<1>3. CASE ~(raw \in Int /\ raw > 0)
  <2>1. Limit(raw) = DefaultRows
    BY <1>3 DEF Limit, InRange
  <2>2. raw \notin 1..MaxRows
    BY <1>1, <1>3
  <2> QED
    BY <1>1, <2>1, <2>2
<1> QED
  BY <1>2, <1>3

(* Where the columns of the sort differ, one row precedes the other. *)
LEMMA SortedApart ==
  ASSUME NEW sort, sort \in Seq(ToSet(sort)), NEW x, NEW y, Differ(sort, x, y) # {},
         \A i \in DOMAIN sort : x[sort[i].col] \in Values /\ y[sort[i].col] \in Values
  PROVE  Precedes(sort, x, y) \/ Precedes(sort, y, x)
<1> DEFINE S == DOMAIN sort
           D == [i \in S |-> i]
<1>1. D \in [S -> Nat] /\ Differ(sort, x, y) \in SUBSET S
  <2>1. DOMAIN sort \subseteq Nat
    BY LenProperties
  <2> QED
    BY <2>1 DEF Differ
<1>2. PICK i \in Differ(sort, x, y) : \A j \in Differ(sort, x, y) : ~(D[j] < D[i])
  <2> HIDE DEF S, D
  <2> QED
    BY <1>1, LeastDeep
<1>3. i \in Nat /\ \A j \in Differ(sort, x, y) : j \in Nat /\ i <= j
  <2>1. \A j \in Differ(sort, x, y) : j \in S /\ D[j] = j /\ D[j] \in Nat
    BY <1>1
  <2> HIDE DEF S, D
  <2>2. \A j \in Differ(sort, x, y) : j \in Nat /\ ~(j < i)
    BY <1>2, <2>1
  <2> QED
    BY <2>2
<1>4. Differ(sort, y, x) = Differ(sort, x, y)
  BY DEF Differ
<1>5. PICK e : e = sort[i]
  OBVIOUS
<1>6. x[e.col] \in Values /\ y[e.col] \in Values /\ x[e.col] # y[e.col]
  BY <1>5 DEF Differ
<1>7. PICK v, w : v = Rank[x[e.col]] /\ w = Rank[y[e.col]]
  OBVIOUS
<1>8. v \in Int /\ w \in Int /\ v # w
  BY <1>6, <1>7, SelectAssumption
<1>9. v < w \/ w < v
  BY <1>8
<1>10. Less(e, x, y) \/ Less(e, y, x)
  BY <1>7, <1>9 DEF Less
<1> QED
  BY <1>3, <1>4, <1>5, <1>10 DEF Precedes

(* What an order is. *)
LEMMA OrderFacts ==
  ASSUME NEW sort, NEW S, NEW order \in Orders(sort, S)
  PROVE  LET n == Cardinality(S)
         IN /\ order \in [1..n -> S]
            /\ \A i, j \in 1..n : order[i] = order[j] => i = j
            /\ \A row \in S : \E i \in 1..n : order[i] = row
            /\ \A i, j \in 1..n : Precedes(sort, order[i], order[j]) => i < j
<1> DEFINE n == Cardinality(S)
<1>1. /\ order \in Bijection(1..n, S)
      /\ \A i, j \in 1..n : Precedes(sort, order[i], order[j]) => i < j
  BY DEF Orders
<1> HIDE DEF n
<1>2. order \in [1..n -> S] /\ \A i, j \in 1..n : order[i] = order[j] => i = j
  BY <1>1 DEF Bijection, Injection, IsInjective
<1>3. \A row \in S : \E i \in 1..n : order[i] = row
  BY <1>1 DEF Bijection, Surjection
<1> QED
  BY <1>1, <1>2, <1>3 DEF n

(* If one of any two rows precedes the other, there is one order of them. *)
LEMMA OneOrder ==
  ASSUME NEW sort, NEW S, Cardinality(S) \in Nat,
         \A x, y \in S : x # y => Precedes(sort, x, y) \/ Precedes(sort, y, x),
         NEW f \in Orders(sort, S), NEW g \in Orders(sort, S)
  PROVE  f = g
<1>1. PICK n : n = Cardinality(S)
  OBVIOUS
<1>2. /\ n \in Nat /\ f \in [1..n -> S] /\ g \in [1..n -> S]
      /\ \A i, j \in 1..n : (f[i] = f[j] => i = j) /\ (g[i] = g[j] => i = j)
      /\ \A row \in S : (\E i \in 1..n : f[i] = row) /\ (\E i \in 1..n : g[i] = row)
      /\ \A i, j \in 1..n : Precedes(sort, f[i], f[j]) => i < j
      /\ \A i, j \in 1..n : Precedes(sort, g[i], g[j]) => i < j
  BY <1>1, OrderFacts
<1> DEFINE T == {i \in 1..n : f[i] # g[i]}
           D == [i \in 1..n |-> i]
<1>3. SUFFICES ASSUME T # {} PROVE FALSE
  <2>1. T = {} => \A i \in 1..n : f[i] = g[i]
    OBVIOUS
  <2>2. f = [i \in 1..n |-> f[i]] /\ g = [i \in 1..n |-> g[i]]
    BY <1>2
  <2>3. ASSUME \A i \in 1..n : f[i] = g[i]
        PROVE  f = g
    <3>1. [i \in 1..n |-> f[i]] = [i \in 1..n |-> g[i]]
      BY <2>3
    <3> QED
      BY <2>2, <3>1, Zenon
  <2> HIDE DEF T
  <2> QED
    BY <1>3, <2>1, <2>3
<1>4. PICK i \in T : \A j \in T : ~(D[j] < D[i])
  <2>1. D \in [1..n -> Nat] /\ T \in SUBSET (1..n)
    OBVIOUS
  <2> HIDE DEF T, D
  <2> QED
    BY <1>3, <2>1, LeastDeep
<1>5. i \in 1..n /\ f[i] # g[i] /\ \A j \in 1..n : j < i => f[j] = g[j]
  BY <1>4
<1>6. ASSUME Precedes(sort, f[i], g[i]) PROVE FALSE
  <2>1. PICK j \in 1..n : g[j] = f[i]
    BY <1>2, <1>5
  <2>2. j < i
    <3>1. Precedes(sort, g[j], g[i])
      BY <1>6, <2>1, Zenon
    <3>2. \A k, l \in 1..n : Precedes(sort, g[k], g[l]) => k < l
      BY <1>2
    <3> QED
      BY <1>5, <3>1, <3>2, Zenon
  <2> QED
    BY <1>2, <1>5, <2>1, <2>2
<1>7. ASSUME Precedes(sort, g[i], f[i]) PROVE FALSE
  <2>1. PICK j \in 1..n : f[j] = g[i]
    BY <1>2, <1>5
  <2>2. j < i
    <3>1. Precedes(sort, f[j], f[i])
      BY <1>7, <2>1, Zenon
    <3>2. \A k, l \in 1..n : Precedes(sort, f[k], f[l]) => k < l
      BY <1>2
    <3> QED
      BY <1>5, <3>1, <3>2, Zenon
  <2> QED
    BY <1>2, <1>5, <2>1, <2>2
<1>8. f[i] \in S /\ g[i] \in S
  BY <1>2, <1>5
<1> QED
  BY <1>5, <1>6, <1>7, <1>8

(* What is on page k. *)
LEMMA PageFacts ==
  ASSUME NEW sort, NEW S, NEW order \in Orders(sort, S), NEW n \in Nat, n = Cardinality(S), n <= IntMax,
         NEW L \in Nat \ {0}, NEW k \in Nat, k * L <= n, NEW i \in 1..n
  PROVE  order[i] \in Page(order, L, Offset(k * L)) <=> k * L < i /\ i <= k * L + L
<1> DEFINE o == k * L
<1>1. o \in Nat /\ o <= n
  OBVIOUS
<1> HIDE DEF o
<1>2. Offset(o) = o
  <2>1. o <= IntMax
    BY <1>1, SelectAssumption
  <2> QED
    BY <1>1, <2>1 DEF Offset, ToInt
<1>3. /\ order \in [1..n -> S]
      /\ \A a, b \in 1..n : order[a] = order[b] => a = b
  BY OrderFacts
<1>4. Cardinality(DOMAIN order) = n
  <2>1. DOMAIN order = 1..n
    BY <1>3
  <2>2. Cardinality(1..n) = n
    BY FS_Interval
  <2> QED
    BY <2>1, <2>2
<1>5. i \in Places(L, o, n) <=> o < i /\ i <= o + L
  BY <1>1 DEF Places
<1>6. Page(order, L, o) = {order[a] : a \in Places(L, o, n)} /\ Places(L, o, n) \subseteq 1..n
  BY <1>4 DEF Page, Places
<1>7. order[i] \in Page(order, L, o) <=> i \in Places(L, o, n)
  BY <1>3, <1>6
<1> QED
  BY <1>2, <1>5, <1>7 DEF o

(* Every row is on one page. *)
LEMMA OnePage ==
  ASSUME NEW L \in Nat \ {0}, NEW n \in Nat, NEW i \in 1..n
  PROVE  \E k \in Asked(L, n) : \A m \in Asked(L, n) : (m * L < i /\ i <= m * L + L) <=> m = k
<1>1. i - 1 \in 0..n
  OBVIOUS
<1>2. PICK k \in 0..(i - 1) : k * L <= i - 1 /\ i - 1 < k * L + L
  BY <1>1, EveryRowHasAPage
<1>3. k \in Asked(L, n) /\ k \in Nat
  <2> DEFINE p == k * L
  <2>1. p \in Nat /\ p <= i - 1 /\ k \in 0..n
    BY <1>2
  <2> HIDE DEF p
  <2>2. p <= n
    BY <2>1
  <2> QED
    BY <2>1, <2>2 DEF Asked, p
<1>4. ASSUME NEW m \in Asked(L, n)
      PROVE  (m * L < i /\ i <= m * L + L) <=> m = k
  <2> DEFINE p == k * L
             q == m * L
  <2>1. m \in Nat /\ p \in Nat /\ q \in Nat
    BY <1>3 DEF Asked
  <2>2. (m < k => q + L <= p) /\ (k < m => p + L <= q)
    BY <1>3, <2>1, PagesApart
  <2>3. p <= i - 1 /\ i - 1 < p + L /\ (m = k => p = q)
    BY <1>2
  <2> HIDE DEF p, q
  <2>4. (q < i /\ i <= q + L) <=> m = k
    BY <1>3, <2>1, <2>2, <2>3
  <2> QED
    BY <2>4 DEF q
<1> QED
  BY <1>3, <1>4

(* Rows that the sort tells apart are each on one page. *)
LEMMA OnePageOfOrders ==
  ASSUME NEW sort, NEW S, NEW n \in Nat, n = Cardinality(S), n <= IntMax, NEW L \in Nat \ {0},
         \A x, y \in S : x # y => Precedes(sort, x, y) \/ Precedes(sort, y, x), NEW row \in S
  PROVE  OnOnePage(row, Orders(sort, S), L, n)
<1>1. CASE Orders(sort, S) = {}
  <2>1. 0 * L = 0
    OBVIOUS
  <2>2. 0 \in Asked(L, n)
    BY <2>1 DEF Asked
  <2> QED
    BY <1>1, <2>2 DEF OnOnePage
<1>2. CASE Orders(sort, S) # {}
  <2>1. PICK f : f \in Orders(sort, S)
    BY <1>2
  <2>2. \A g \in Orders(sort, S) : g = f
    BY <2>1, OneOrder
  <2>3. PICK i \in 1..n : f[i] = row
    BY <2>1, OrderFacts
  <2>4. PICK k \in Asked(L, n) : \A m \in Asked(L, n) : (m * L < i /\ i <= m * L + L) <=> m = k
    BY OnePage
  <2>5. ASSUME NEW m \in Asked(L, n)
        PROVE  row \in Page(f, L, Offset(m * L)) <=> m = k
    <3>1. m \in Nat /\ m * L <= n
      BY DEF Asked
    <3>2. f[i] \in Page(f, L, Offset(m * L)) <=> m * L < i /\ i <= m * L + L
      BY <2>1, <3>1, PageFacts
    <3> QED
      BY <2>3, <2>4, <3>2
  <2> QED
    BY <2>2, <2>4, <2>5 DEF OnOnePage
<1> QED
  BY <1>1, <1>2

(* pages add up. *)
LEMMA AlwaysPaging == \A c \in Cases : Paging[c]
<1> SUFFICES ASSUME NEW c \in Cases, NEW b \in Bodies, Succeeds(c, b), InRange(b.limit)
             PROVE  LET limit == Limit(b.limit)
                    IN /\ limit \in 1..MaxRows
                       /\ b.limit \in 1..MaxRows => limit = b.limit
                       /\ \A T \in Contents :
                            LET S      == Matches(c.def, TextOf(c), c.caller, b, T)
                                orders == Orders(b.sort, S)
                            IN TellsApart(b.sort, S) =>
                                 \A row \in S : OnOnePage(row, orders, limit, Cardinality(S))
  BY DEF Paging
<1>1. /\ Limit(b.limit) \in 1..MaxRows
      /\ b.limit \in 1..MaxRows => Limit(b.limit) = b.limit
  BY LimitFacts
<1>2. PICK L : L = Limit(b.limit)
  OBVIOUS
<1>3. L \in Nat \ {0}
  BY <1>1, <1>2, SelectAssumption
<1>4. b.sort \in Seq(ToSet(b.sort))
  BY AnswersAssumption
<1>5. \A row \in Rows : \A i \in DOMAIN b.sort : row[b.sort[i].col] \in Values
  <2>1. SortColumns(b) \subseteq Readable(c)
    BY SucceedsFacts
  <2>2. \A i \in DOMAIN b.sort : b.sort[i].col \in Spine \cup c.def.cols
    BY <2>1 DEF SortColumns, Readable
  <2>3. c.def \in Definitions
    BY DEF Cases
  <2> QED
    BY <2>2, <2>3, AnswersAssumption
<1>6. ASSUME NEW T \in Contents, NEW S, S = Matches(c.def, TextOf(c), c.caller, b, T),
             TellsApart(b.sort, S), NEW row \in S
      PROVE  OnOnePage(row, Orders(b.sort, S), L, Cardinality(S))
  <2>1. T \subseteq Rows /\ IsFiniteSet(T) /\ Cardinality(T) <= IntMax
    BY AnswersAssumption
  <2>2. S \subseteq T
    BY <1>6 DEF Matches
  <2>3. IsFiniteSet(S) /\ Cardinality(S) <= Cardinality(T)
    BY <2>1, <2>2, FS_Subset
  <2>4. PICK n, t : n = Cardinality(S) /\ t = Cardinality(T)
    OBVIOUS
  <2>5. n \in Nat /\ t \in Nat /\ n <= IntMax
    <3>1. n \in Nat /\ t \in Nat
      BY <2>1, <2>3, <2>4, FS_CardinalityType
    <3> QED
      BY <2>1, <2>3, <2>4, <3>1, SelectAssumption
  <2>6. ASSUME NEW x \in S, NEW y \in S, x # y
        PROVE  Precedes(b.sort, x, y) \/ Precedes(b.sort, y, x)
    <3>1. Differ(b.sort, x, y) # {}
      BY <1>6, <2>6 DEF TellsApart
    <3>2. x \in Rows /\ y \in Rows
      BY <2>1, <2>2
    <3> QED
      BY <1>4, <1>5, <3>1, <3>2, SortedApart
  <2> QED
    BY <1>3, <2>4, <2>5, <2>6, OnePageOfOrders
<1> QED
  BY <1>1, <1>2, <1>6

-----------------------------------------------------------------------------
(* A query works with an edition that somebody stored. *)
Editioned == \A q \in Sessions : edition[q] <= MaxRequests

(* No step of a query or of the control plane changes that. *)
LEMMA EditionedStep ==
  ASSUME IInv, QInv, Counted, Editioned, [QNext]_qvars
  PROVE  Editioned'
<1>0. TypeOK /\ QTypeOK /\ 0 <= MaxRequests
  BY RegistryAssumption DEF IInv, QInv
<1>1. CASE Manage \/ (Rest /\ UNCHANGED <<sessionVars, histVars>>) \/ UNCHANGED qvars
  BY <1>1 DEF Manage, sessionVars, qvars, Editioned
<1>2. CASE QRestart
  BY <1>0, <1>2 DEF QRestart, Editioned
<1>3. ASSUME NEW q \in Sessions, Lookup(q)
      PROVE  Editioned'
  BY <1>3 DEF Lookup, Editioned
<1>4. ASSUME NEW q \in Sessions, FindPolicy(q)
      PROVE  Editioned'
  <2> DEFINE k == PolicyFor(found[q].name, caller[q].role)
  <2>1. k \in Policies
    <3>1. found[q] \in Definition /\ found[q].name \in Names
      BY <1>0, <1>4 DEF FindPolicy, QTypeOK, Definition
    <3> QED
      BY <3>1, QueryAssumption DEF PolicyFor
  <2>2. edition' = [edition EXCEPT ![q] = polMem[k]]
    BY <1>4 DEF FindPolicy
  <2>3. polMem[k] <= MaxRequests
    BY <2>1 DEF Counted
  <2> QED
    BY <1>0, <2>2, <2>3 DEF Editioned, QTypeOK
<1>5. ASSUME NEW q \in Sessions, Forbidden(q) \/ Execute(q)
      PROVE  Editioned'
  <2>1. edition' = [edition EXCEPT ![q] = 0]
    BY <1>5 DEF Forbidden, Execute, Leaves
  <2> QED
    BY <1>0, <2>1 DEF Editioned, QTypeOK
<1> QED
  BY <1>1, <1>2, <1>3, <1>4, <1>5 DEF QNext

(* Whatever a query is about to execute is one of the cases. *)
CasesAreAll == \A q \in Sessions : qpc[q] = "execute" => CaseOf(q) \in Cases

(* It found its definition, its policy and an edition of it. *)
LEMMA SessionsAreCases ==
  ASSUME QInv, Editioned
  PROVE  CasesAreAll
<1> SUFFICES ASSUME NEW q \in Sessions, qpc[q] = "execute"
             PROVE  CaseOf(q) \in Cases
  BY DEF CasesAreAll
<1>1. found[q] \in Definitions
  BY DEF QInv, Between
<1>2. policy[q] \in Policies /\ caller[q] \in Callers
  BY DEF QInv, QTypeOK
<1>3. edition[q] \in 1..MaxRequests
  BY RegistryAssumption DEF QInv, QTypeOK, Editioned
<1> QED
  BY <1>1, <1>2, <1>3 DEF CaseOf, Cases

(* At every step. *)
LEMMA AlwaysCases == QSpec => []CasesAreAll
<1>1. QInit => IInv /\ QInv /\ Counted /\ Editioned
  BY InitInv, QInitQInv, CountedInit, RegistryAssumption DEF QInit, Editioned
<1>2. (IInv /\ QInv /\ Counted /\ Editioned) /\ [QNext]_qvars => (IInv /\ QInv /\ Counted /\ Editioned)'
  <2> SUFFICES ASSUME IInv, QInv, Counted, Editioned, [QNext]_qvars
               PROVE  IInv' /\ QInv' /\ Counted' /\ Editioned'
    OBVIOUS
  <2>1. IInv' /\ QInv'
    BY QStep
  <2>2. Counted'
    BY <2>1, QStepIsStep, CountedStep DEF IInv
  <2> QED
    BY <2>1, <2>2, EditionedStep
<1>3. IInv /\ QInv /\ Counted /\ Editioned => CasesAreAll
  BY SessionsAreCases
<1> QED
  BY <1>1, <1>2, <1>3, PTL DEF QSpec

-----------------------------------------------------------------------------
(* The rows of an answer are the tenant's, permitted and meant: three        *)
(* conjuncts, whatever fragments they are pasted together from.              *)
THEOREM QueryAnswerIsConjunction == QSpec => []AnswerIsConjunction
<1>1. CasesAreAll => AnswerIsConjunction
  BY AlwaysConjunctive DEF CasesAreAll, AnswerIsConjunction
<1> QED
  BY AlwaysCases, <1>1, PTL

(* A column the policy hides is not in the answer and makes no difference to *)
(* it.                                                                       *)
THEOREM QueryHiddenColumns == QSpec => []HiddenColumnsMakeNoDifference
<1>1. CasesAreAll => HiddenColumnsMakeNoDifference
  BY AlwaysBlind DEF CasesAreAll, HiddenColumnsMakeNoDifference
<1> QED
  BY AlwaysCases, <1>1, PTL

(* What reads as true is what the filter `eq: true` answers.                 *)
THEOREM QueryTrueIsWhatTheFilterSays == QSpec => []TrueIsWhatTheFilterSays
<1>1. CasesAreAll => TrueIsWhatTheFilterSays
  BY AlwaysAgreeing DEF CasesAreAll, TrueIsWhatTheFilterSays
<1> QED
  BY AlwaysCases, <1>1, PTL

(* Paging by the limit the answer reports, for any limit an int can hold and *)
(* a sort that tells the matching rows apart, reads every one of them on one *)
(* page, whichever order the database picks for each page.                   *)
THEOREM QueryPagesAddUp == QSpec => []PagesAddUp
<1>1. CasesAreAll => PagesAddUp
  BY AlwaysPaging DEF CasesAreAll, PagesAddUp
<1> QED
  BY AlwaysCases, <1>1, PTL
=============================================================================
