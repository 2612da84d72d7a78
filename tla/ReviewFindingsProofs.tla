------------------------ MODULE ReviewFindingsProofs ------------------------
(***************************************************************************)
(* Theorems about ReviewFindings for any questions, candidates, limits and *)
(* answers of the models.  First the calls discovery makes: what packing   *)
(* does with any evidence, by induction over it.  Induction and recursion  *)
(* are stated for sets and functions (UpTo, Recursion), not for operators. *)
(* Then the run.  Each proposal carries what was said of it, so            *)
(* most of the argument is about one record at a time (Right); what        *)
(* relates proposals to each other is where the run is (ByStage) and the   *)
(* quota of proposals asked about again (Quota).                           *)
(***************************************************************************)
EXTENDS ReviewFindings, FiniteSetTheorems, SequenceTheorems, WellFoundedInduction,
        TLAPS

-----------------------------------------------------------------------------
(* Induction and recursion, for sets and functions.                         *)

\* Some number of a set of numbers is the least.
LEMMA LeastNat ==
  ASSUME NEW T \in SUBSET Nat, T # {}
  PROVE  \E x \in T : \A y \in T : x <= y
<1>1. PICK x \in T : \A y \in T : ~(<<y, x>> \in OpToRel(<, Nat))
  BY NatLessThanWellFounded, WFMin
<1>2. \A y \in T : ~(y < x)
  BY <1>1 DEF OpToRel
<1> QED BY <1>2

\* Induction up to n, for a set of numbers.
LEMMA UpTo ==
  ASSUME NEW n \in Nat, NEW T, 0 \in T,
         \A k \in 1..n : k - 1 \in T => k \in T
  PROVE  \A k \in 0..n : k \in T
<1> DEFINE missing == {k \in 0..n : k \notin T}
<1> SUFFICES ASSUME missing # {} PROVE FALSE
  OBVIOUS
<1>1. missing \in SUBSET Nat
  OBVIOUS
<1>2. PICK x \in missing : \A y \in missing : x <= y
  BY <1>1, LeastNat
<1>3. x # 0 /\ x \in 1..n /\ x - 1 \in 0..n
  BY <1>2
<1>4. x - 1 \notin missing
  BY <1>2, <1>3
<1> QED BY <1>2, <1>3, <1>4

\* f is what g makes of a, step by step.
Solves(f, S, a, n, g) ==
  /\ f \in [0..n -> S] /\ f[0] = a
  /\ \A k \in 1..n : f[k] = g[<<k, f[k - 1]>>]
\* A recursion over 1..n has a solution.
LEMMA Recursion ==
  ASSUME NEW S, NEW a \in S, NEW n \in Nat, NEW g \in [(1..n) \X S -> S]
  PROVE  \E f : Solves(f, S, a, n, g)
<1> DEFINE T == {m \in 0..n : \E f : Solves(f, S, a, m, g)}
<1>1. 0 \in T
  <2> DEFINE h == [k \in 0..0 |-> a]
  <2>1. h \in [0..0 -> S] /\ h[0] = a
    OBVIOUS
  <2> HIDE DEF h
  <2>2. Solves(h, S, a, 0, g)
    BY <2>1 DEF Solves
  <2> QED BY <2>2
<1>2. ASSUME NEW m \in 1..n, m - 1 \in T PROVE m \in T
  <2>0. PICK f : Solves(f, S, a, m - 1, g)
    BY <1>2
  <2>1. /\ f \in [0..(m - 1) -> S] /\ f[0] = a
        /\ \A k \in 1..(m - 1) : f[k] = g[<<k, f[k - 1]>>]
    BY <2>0 DEF Solves
  <2> DEFINE h == [k \in 0..m |-> IF k = m THEN g[<<m, f[m - 1]>>] ELSE f[k]]
  <2>2. f[m - 1] \in S /\ <<m, f[m - 1]>> \in (1..n) \X S
    BY <2>1
  <2>3. g[<<m, f[m - 1]>>] \in S
    BY <2>2
  <2>4. h \in [0..m -> S]
    BY <2>1, <2>3
  <2>5. \A k \in 0..m : h[k] = IF k = m THEN g[<<m, f[m - 1]>>] ELSE f[k]
    OBVIOUS
  <2> HIDE DEF h
  <2>6. h[0] = a
    BY <2>1, <2>5
  <2>7. ASSUME NEW k \in 1..m PROVE h[k] = g[<<k, h[k - 1]>>]
    <3>1. h[k - 1] = f[k - 1]
      BY <2>5
    <3>2. CASE k = m
      BY <2>5, <3>1, <3>2
    <3>3. CASE k # m
      BY <2>1, <2>5, <3>1, <3>3
    <3> QED BY <3>2, <3>3
  <2>8. Solves(h, S, a, m, g)
    BY <2>4, <2>6, <2>7 DEF Solves
  <2> QED BY <2>8
<1> HIDE DEF T
<1>3. n \in T
  BY <1>1, <1>2, UpTo
<1> QED BY <1>3 DEF T

-----------------------------------------------------------------------------
(* discovery_batches: the tokens of a piece are the sum over its parts.    *)

\* Addition may be bracketed either way.
LEMMA AddAssociates ==
  ASSUME NEW a \in Nat, NEW b \in Nat, NEW c \in Nat
  PROVE  a + (b + c) = (a + b) + c
OBVIOUS

\* f sums up piece.
Sums(f, piece) ==
  /\ f \in [0..Len(piece) -> Nat] /\ f[0] = 0
  /\ \A k \in 1..Len(piece) : f[k] = f[k - 1] + piece[k]

\* Such a function exists, ...
LEMMA SumExists ==
  ASSUME NEW piece \in Seq(Nat)
  PROVE  \E f : Sums(f, piece)
<1>1. PICK n \in Nat : n = Len(piece) /\ piece \in [1..n -> Nat]
  BY LenProperties
<1> DEFINE g == [x \in (1..n) \X Nat |-> x[2] + piece[x[1]]]
<1>2. g \in [(1..n) \X Nat -> Nat]
  BY <1>1
<1>3. \A k \in 1..n, v \in Nat : g[<<k, v>>] = v + piece[k]
  BY <1>1
<1> HIDE DEF g
<1>4. PICK f : Solves(f, Nat, 0, n, g)
  BY <1>2, Recursion
<1>5. /\ f \in [0..n -> Nat] /\ f[0] = 0
      /\ \A k \in 1..n : f[k] = g[<<k, f[k - 1]>>]
  BY <1>4 DEF Solves
<1>6. ASSUME NEW k \in 1..n PROVE f[k] = f[k - 1] + piece[k]
  <2>1. k - 1 \in 0..n
    OBVIOUS
  <2>2. f[k - 1] \in Nat
    BY <1>5, <2>1
  <2> QED BY <1>3, <1>5, <2>2
<1> QED BY <1>1, <1>6, <1>5 DEF Sums

\* ... and Tokens is what it ends with, ...
LEMMA TokensSum ==
  ASSUME NEW piece \in Seq(Nat), NEW f, Sums(f, piece)
  PROVE  Tokens(piece) = f[Len(piece)]
<1>1. PICK n \in Nat : n = Len(piece)
  BY LenProperties
<1> DEFINE Eq(g) == g = [k \in 0..n |-> IF k = 0 THEN 0 ELSE g[k - 1] + piece[k]]
           sum == CHOOSE g : Eq(g)
<1>2. Eq(f)
  BY <1>1 DEF Sums
<1>3. Eq(sum)
  <2> HIDE DEF Eq
  <2> QED BY <1>2
<1>4. Tokens(piece) = sum[n]
  BY <1>1 DEF Tokens
<1> HIDE DEF sum
<1>5. \A k \in 0..n : sum[k] = IF k = 0 THEN 0 ELSE sum[k - 1] + piece[k]
  BY <1>3
<1> HIDE DEF Eq
<1> DEFINE T == {k \in 0..n : sum[k] = f[k]}
<1>6. 0 \in T
  BY <1>1, <1>5 DEF Sums
<1>7. ASSUME NEW k \in 1..n, k - 1 \in T PROVE k \in T
  BY <1>1, <1>5, <1>7 DEF Sums
<1> HIDE DEF T
<1>8. \A k \in 0..n : k \in T
  BY <1>6, <1>7, UpTo
<1>9. n \in T
  BY <1>8
<1> QED BY <1>1, <1>4, <1>9 DEF T

\* ... a number, ...
LEMMA TokensNat ==
  ASSUME NEW piece \in Seq(Nat)
  PROVE  Tokens(piece) \in Nat
<1>1. PICK f : Sums(f, piece)
  BY SumExists
<1>2. Len(piece) \in 0..Len(piece)
  OBVIOUS
<1> QED BY <1>1, <1>2, TokensSum DEF Sums

\* ... that adds up over two pieces.
LEMMA TokensConcat ==
  ASSUME NEW s \in Seq(Nat), NEW t \in Seq(Nat)
  PROVE  Tokens(s \o t) = Tokens(s) + Tokens(t)
<1>1. PICK m \in Nat, n \in Nat :
        /\ m = Len(s) /\ n = Len(t)
        /\ s \in [1..m -> Nat] /\ t \in [1..n -> Nat]
  BY LenProperties
<1>2. PICK f : Sums(f, s)
  BY SumExists
<1>3. PICK h : Sums(h, t)
  BY SumExists
<1>4. /\ f \in [0..m -> Nat] /\ f[0] = 0 /\ \A k \in 1..m : f[k] = f[k - 1] + s[k]
      /\ h \in [0..n -> Nat] /\ h[0] = 0 /\ \A k \in 1..n : h[k] = h[k - 1] + t[k]
  BY <1>1, <1>2, <1>3 DEF Sums
<1>5. PICK st \in Seq(Nat) :
        /\ st = s \o t /\ Len(st) = m + n
        /\ \A i \in 1..(m + n) : st[i] = IF i <= m THEN s[i] ELSE t[i - m]
  <2>1. /\ s \o t \in Seq(Nat) /\ Len(s \o t) = m + n
        /\ \A i \in 1..(m + n) : (s \o t)[i] = IF i <= m THEN s[i] ELSE t[i - m]
    BY <1>1, ConcatProperties
  <2> QED BY <2>1, Zenon
<1> DEFINE F == [k \in 0..(m + n) |-> IF k <= m THEN f[k] ELSE f[m] + h[k - m]]
<1>6. \A k \in 0..(m + n) : F[k] = IF k <= m THEN f[k] ELSE f[m] + h[k - m]
  OBVIOUS
<1>7. ASSUME NEW k \in 0..(m + n)
      PROVE  (IF k <= m THEN f[k] ELSE f[m] + h[k - m]) \in Nat
  <2>1. CASE k <= m
    BY <1>4, <2>1
  <2>2. CASE k > m
    <3>1. k - m \in 0..n /\ m \in 0..m
      BY <2>2
    <3>2. h[k - m] \in Nat /\ f[m] \in Nat
      BY <1>4, <3>1
    <3> QED BY <2>2, <3>2
  <2> QED BY <2>1, <2>2
<1>8. F \in [0..(m + n) -> Nat]
  BY <1>7
<1> HIDE DEF F
<1>9. F[0] = 0
  BY <1>4, <1>6
<1>10. ASSUME NEW k \in 1..(m + n) PROVE F[k] = F[k - 1] + st[k]
  <2>1. k \in 0..(m + n) /\ k - 1 \in 0..(m + n)
    OBVIOUS
  <2>2. CASE k <= m
    <3>1. F[k] = f[k] /\ st[k] = s[k]
      BY <1>5, <1>6, <2>1, <2>2
    <3>2. F[k - 1] = f[k - 1]
      BY <1>6, <2>1, <2>2
    <3> QED BY <1>4, <2>2, <3>1, <3>2
  <2>3. CASE k > m
    <3>1. k - m \in 1..n /\ (k - m) - 1 \in 0..n /\ m \in 0..m
      BY <2>3
    <3>2. F[k] = f[m] + h[k - m] /\ st[k] = t[k - m]
      BY <1>5, <1>6, <2>1, <2>3
    <3>3. F[k - 1] = f[m] + h[(k - m) - 1]
      <4>1. CASE k - 1 = m
        <5>1. F[k - 1] = f[m] /\ (k - m) - 1 = 0
          BY <1>6, <2>1, <4>1
        <5>2. f[m] \in Nat
          BY <1>4, <3>1
        <5> QED BY <1>4, <5>1, <5>2
      <4>2. CASE k - 1 > m
        <5>1. F[k - 1] = f[m] + h[(k - 1) - m] /\ (k - 1) - m = (k - m) - 1
          BY <1>6, <2>1, <4>2
        <5> QED BY <5>1
      <4> QED BY <2>3, <4>1, <4>2
    <3>4. h[k - m] = h[(k - m) - 1] + t[k - m]
      BY <1>4, <3>1
    <3>5. t[k - m] \in Nat /\ f[m] \in Nat /\ h[(k - m) - 1] \in Nat
      BY <1>1, <1>4, <3>1
    <3> HIDE DEF F
    <3>6. f[m] + (h[(k - m) - 1] + t[k - m]) = (f[m] + h[(k - m) - 1]) + t[k - m]
      BY <3>5, AddAssociates
    <3> QED BY <3>2, <3>3, <3>4, <3>6, Zenon
  <2> QED BY <2>2, <2>3
<1>11. Sums(F, st)
  BY <1>5, <1>8, <1>9, <1>10 DEF Sums
<1>12. Tokens(st) = F[m + n] /\ Tokens(s) = f[m] /\ Tokens(t) = h[n]
  BY <1>1, <1>2, <1>3, <1>5, <1>11, TokensSum
<1>13. F[m + n] = f[m] + h[n]
  <2>1. m + n \in 0..(m + n) /\ f[m] \in Nat
    BY <1>4
  <2>2. CASE n = 0
    BY <1>4, <1>6, <2>1, <2>2
  <2>3. CASE n > 0
    <3>1. (m + n) - m = n
      OBVIOUS
    <3> QED BY <1>6, <2>1, <2>3, <3>1
  <2> QED BY <2>2, <2>3
<1> QED BY <1>5, <1>12, <1>13

-----------------------------------------------------------------------------
(* Sequences of sequences, flattened.                                      *)

\* Concatenation, as a name for the provers.
Cat(s, t) == s \o t

LEMMA CatLaws ==
  ASSUME NEW E
  PROVE  /\ \A s, t \in Seq(E) : Cat(s, t) \in Seq(E)
         /\ \A s \in Seq(E) : Cat(s, <<>>) = s /\ Cat(<<>>, s) = s
         /\ \A s, t, u \in Seq(E) : Cat(Cat(s, t), u) = Cat(s, Cat(t, u))
<1>1. \A s, t \in Seq(E) : Cat(s, t) \in Seq(E)
  BY ConcatProperties DEF Cat
<1>2. \A s \in Seq(E) : Cat(s, <<>>) = s /\ Cat(<<>>, s) = s
  BY ConcatEmptySeq DEF Cat
<1>3. \A s, t, u \in Seq(E) : Cat(Cat(s, t), u) = Cat(s, Cat(t, u))
  BY ConcatAssociative DEF Cat
<1> QED BY <1>1, <1>2, <1>3

\* f flattens ss.
Flattens(f, ss, E) ==
  /\ f \in [0..Len(ss) -> Seq(E)] /\ f[0] = <<>>
  /\ \A k \in 1..Len(ss) : f[k] = Cat(f[k - 1], ss[k])

\* Such a function exists, ...
LEMMA FlattenExists ==
  ASSUME NEW E, NEW ss \in Seq(Seq(E))
  PROVE  \E f : Flattens(f, ss, E)
<1>1. PICK n \in Nat : n = Len(ss) /\ ss \in [1..n -> Seq(E)]
  BY LenProperties
<1> DEFINE g == [x \in (1..n) \X Seq(E) |-> Cat(x[2], ss[x[1]])]
<1>2. g \in [(1..n) \X Seq(E) -> Seq(E)]
  <2>1. ASSUME NEW x \in (1..n) \X Seq(E) PROVE Cat(x[2], ss[x[1]]) \in Seq(E)
    <3>1. x[2] \in Seq(E) /\ ss[x[1]] \in Seq(E)
      BY <1>1
    <3> QED BY <3>1, CatLaws
  <2> QED BY <2>1
<1>3. \A k \in 1..n, v \in Seq(E) : g[<<k, v>>] = Cat(v, ss[k])
  BY <1>1
<1> HIDE DEF g
<1>4. <<>> \in Seq(E)
  OBVIOUS
<1>5. PICK f : Solves(f, Seq(E), <<>>, n, g)
  BY <1>2, <1>4, Recursion
<1>6. /\ f \in [0..n -> Seq(E)] /\ f[0] = <<>>
      /\ \A k \in 1..n : f[k] = g[<<k, f[k - 1]>>]
  BY <1>5 DEF Solves
<1>7. ASSUME NEW k \in 1..n PROVE f[k] = Cat(f[k - 1], ss[k])
  <2>1. k - 1 \in 0..n
    OBVIOUS
  <2>2. f[k - 1] \in Seq(E)
    BY <1>6, <2>1
  <2> QED BY <1>3, <1>6, <2>2
<1> QED BY <1>1, <1>6, <1>7 DEF Flattens

\* ... and FlattenSeq is what it ends with, ...
LEMMA FlattenIs ==
  ASSUME NEW E, NEW ss \in Seq(Seq(E)), NEW f, Flattens(f, ss, E)
  PROVE  FlattenSeq(ss) = f[Len(ss)]
<1>1. PICK n \in Nat : n = Len(ss) /\ ss \in [1..n -> Seq(E)]
  BY LenProperties
<1>2. /\ f \in [0..n -> Seq(E)] /\ f[0] = <<>>
      /\ \A k \in 1..n : f[k] = Cat(f[k - 1], ss[k])
  BY <1>1 DEF Flattens
<1>3. CASE n = 0
  <2>1. ss = <<>>
    BY <1>1, <1>3, EmptySeq
  <2>2. FlattenSeq(ss) = ss
    BY <1>1, <1>3 DEF FlattenSeq
  <2> QED BY <1>1, <1>2, <1>3, <2>1, <2>2
<1>4. CASE n # 0
  <2> DEFINE Eq(h) == h = [i \in 1..n |-> IF i = 1 THEN ss[i] ELSE Cat(h[i - 1], ss[i])]
             flatten == CHOOSE h : Eq(h)
             r == [i \in 1..n |-> f[i]]
  <2>1. FlattenSeq(ss) = flatten[n]
    BY <1>1, <1>4 DEF FlattenSeq, Cat
  <2>2. ASSUME NEW i \in 1..n
        PROVE  f[i] = IF i = 1 THEN ss[i] ELSE Cat(r[i - 1], ss[i])
    <3>1. CASE i = 1
      <4>1. f[1] = Cat(f[0], ss[1]) /\ ss[1] \in Seq(E)
        BY <1>1, <1>2, <3>1
      <4> QED BY <1>2, <3>1, <4>1, CatLaws
    <3>2. CASE i # 1
      <4>1. i - 1 \in 1..n
        BY <3>2
      <4>2. r[i - 1] = f[i - 1]
        BY <4>1
      <4> QED BY <1>2, <3>2, <4>2
    <3> QED BY <3>1, <3>2
  <2>3. Eq(r)
    BY <2>2
  <2>4. Eq(flatten)
    <3> HIDE DEF Eq, r
    <3> QED BY <2>3
  <2> HIDE DEF flatten
  <2>5. \A i \in 1..n : flatten[i] = IF i = 1 THEN ss[i] ELSE Cat(flatten[i - 1], ss[i])
    BY <2>4
  <2>6. \A i \in 1..n : r[i] = f[i]
    OBVIOUS
  <2> HIDE DEF Eq, r
  <2> DEFINE T == {0} \cup {k \in 1..n : flatten[k] = f[k]}
  <2>7. 0 \in T
    OBVIOUS
  <2>8. ASSUME NEW k \in 1..n, k - 1 \in T PROVE k \in T
    <3>1. f[k] = IF k = 1 THEN ss[k] ELSE Cat(r[k - 1], ss[k])
      BY <2>2
    <3>2. flatten[k] = IF k = 1 THEN ss[k] ELSE Cat(flatten[k - 1], ss[k])
      BY <2>5
    <3>3. CASE k = 1
      BY <3>1, <3>2, <3>3
    <3>4. CASE k # 1
      <4>1. k - 1 \in 1..n
        BY <3>4
      <4>2. flatten[k - 1] = r[k - 1]
        BY <2>6, <2>8, <4>1
      <4>3. flatten[k] = f[k]
        BY <3>1, <3>2, <3>4, <4>2
      <4> QED BY <4>3
    <3> QED BY <3>3, <3>4
  <2> HIDE DEF T
  <2>9. \A k \in 0..n : k \in T
    BY <2>7, <2>8, UpTo
  <2>10. n \in T
    BY <2>9
  <2>11. flatten[n] = f[n]
    BY <1>4, <2>10 DEF T
  <2> QED BY <1>1, <2>1, <2>11
<1> QED BY <1>3, <1>4

\* ... a sequence of what the sequences hold; ...
LEMMA FlattenType ==
  ASSUME NEW E, NEW ss \in Seq(Seq(E))
  PROVE  FlattenSeq(ss) \in Seq(E)
<1>1. PICK f : Flattens(f, ss, E)
  BY FlattenExists
<1>2. Len(ss) \in 0..Len(ss)
  BY LenProperties
<1>3. f[Len(ss)] \in Seq(E)
  BY <1>1, <1>2 DEF Flattens
<1> QED BY <1>1, <1>3, FlattenIs

\* ... flattened in two parts it is the same, ...
LEMMA FlattenConcat ==
  ASSUME NEW E, NEW s \in Seq(Seq(E)), NEW t \in Seq(Seq(E))
  PROVE  FlattenSeq(s \o t) = FlattenSeq(s) \o FlattenSeq(t)
<1>1. PICK m \in Nat, n \in Nat :
        /\ m = Len(s) /\ n = Len(t)
        /\ s \in [1..m -> Seq(E)] /\ t \in [1..n -> Seq(E)]
  BY LenProperties
<1>2. PICK f : Flattens(f, s, E)
  BY FlattenExists
<1>3. PICK h : Flattens(h, t, E)
  BY FlattenExists
<1>4. /\ f \in [0..m -> Seq(E)] /\ f[0] = <<>>
      /\ \A k \in 1..m : f[k] = Cat(f[k - 1], s[k])
      /\ h \in [0..n -> Seq(E)] /\ h[0] = <<>>
      /\ \A k \in 1..n : h[k] = Cat(h[k - 1], t[k])
  BY <1>1, <1>2, <1>3 DEF Flattens
<1>5. PICK st \in Seq(Seq(E)) :
        /\ st = s \o t /\ Len(st) = m + n
        /\ \A i \in 1..(m + n) : st[i] = IF i <= m THEN s[i] ELSE t[i - m]
  <2>1. /\ s \o t \in Seq(Seq(E)) /\ Len(s \o t) = m + n
        /\ \A i \in 1..(m + n) : (s \o t)[i] = IF i <= m THEN s[i] ELSE t[i - m]
    BY <1>1, ConcatProperties
  <2> QED BY <2>1, Zenon
<1> DEFINE F == [k \in 0..(m + n) |-> IF k <= m THEN f[k] ELSE Cat(f[m], h[k - m])]
<1>6. \A k \in 0..(m + n) : F[k] = IF k <= m THEN f[k] ELSE Cat(f[m], h[k - m])
  OBVIOUS
<1>14. f[m] \in Seq(E) /\ h[n] \in Seq(E)
  BY <1>4
<1>15. /\ \A x, y \in Seq(E) : Cat(x, y) \in Seq(E)
      /\ \A x, y, z \in Seq(E) : Cat(Cat(x, y), z) = Cat(x, Cat(y, z))
  BY CatLaws
<1>7. ASSUME NEW k \in 0..(m + n)
      PROVE  (IF k <= m THEN f[k] ELSE Cat(f[m], h[k - m])) \in Seq(E)
  <2>1. CASE k <= m
    BY <1>4, <2>1
  <2>2. CASE k > m
    <3>1. k - m \in 0..n
      BY <2>2
    <3>2. h[k - m] \in Seq(E)
      BY <1>4, <3>1
    <3>3. Cat(f[m], h[k - m]) \in Seq(E)
      BY <1>14, <1>15, <3>2
    <3> QED BY <2>2, <3>3
  <2> QED BY <2>1, <2>2
<1>8. F \in [0..(m + n) -> Seq(E)]
  BY <1>7
<1> HIDE DEF F
<1>9. F[0] = <<>>
  <2>1. F[0] = f[0]
    BY <1>6
  <2> QED BY <1>4, <2>1
<1>10. ASSUME NEW k \in 1..(m + n) PROVE F[k] = Cat(F[k - 1], st[k])
  <2>1. k \in 0..(m + n) /\ k - 1 \in 0..(m + n)
    OBVIOUS
  <2>2. CASE k <= m
    <3>1. F[k] = f[k] /\ F[k - 1] = f[k - 1]
      BY <1>6, <2>1, <2>2
    <3>2. st[k] = s[k]
      BY <1>5, <2>2
    <3> QED BY <1>4, <2>2, <3>1, <3>2
  <2>3. CASE k > m
    <3>1. k - m \in 1..n /\ (k - m) - 1 \in 0..n
      BY <2>3
    <3>2. F[k] = Cat(f[m], h[k - m]) /\ st[k] = t[k - m]
      BY <1>5, <1>6, <2>1, <2>3
    <3>3. F[k - 1] = Cat(f[m], h[(k - m) - 1])
      <4>1. CASE k - 1 = m
        <5>1. F[k - 1] = f[m] /\ (k - m) - 1 = 0
          BY <1>6, <2>1, <4>1
        <5> QED BY <1>4, <1>14, <5>1, CatLaws
      <4>2. CASE k - 1 > m
        <5>1. F[k - 1] = Cat(f[m], h[(k - 1) - m]) /\ (k - 1) - m = (k - m) - 1
          BY <1>6, <2>1, <4>2
        <5> QED BY <5>1
      <4> QED BY <2>3, <4>1, <4>2
    <3>4. h[k - m] = Cat(h[(k - m) - 1], t[k - m])
      BY <1>4, <3>1
    <3>5. t[k - m] \in Seq(E) /\ h[(k - m) - 1] \in Seq(E)
      BY <1>1, <1>4, <3>1
    <3>6. Cat(f[m], Cat(h[(k - m) - 1], t[k - m])) = Cat(Cat(f[m], h[(k - m) - 1]), t[k - m])
      BY <1>14, <1>15, <3>5
    <3> QED BY <3>2, <3>3, <3>4, <3>6
  <2> QED BY <2>2, <2>3
<1>11. Flattens(F, st, E)
  BY <1>5, <1>8, <1>9, <1>10 DEF Flattens
<1>12. FlattenSeq(st) = F[m + n] /\ FlattenSeq(s) = f[m] /\ FlattenSeq(t) = h[n]
  BY <1>1, <1>2, <1>3, <1>5, <1>11, FlattenIs
<1>13. F[m + n] = Cat(f[m], h[n])
  <2>1. m + n \in 0..(m + n)
    OBVIOUS
  <2>2. CASE n = 0
    <3>1. F[m + n] = f[m]
      BY <1>6, <2>1, <2>2
    <3> QED BY <1>4, <1>14, <2>2, <3>1, CatLaws
  <2>3. CASE n > 0
    <3>1. (m + n) - m = n
      OBVIOUS
    <3> QED BY <1>6, <2>1, <2>3, <3>1
  <2> QED BY <2>2, <2>3
<1> QED BY <1>5, <1>12, <1>13 DEF Cat

\* ... also when one of them is a single sequence.
LEMMA FlattenOne ==
  ASSUME NEW E, NEW p \in Seq(E)
  PROVE  FlattenSeq(<<p>>) = p
<1>1. <<p>> \in Seq(Seq(E)) /\ Len(<<p>>) = 1 /\ <<p>>[1] = p
  OBVIOUS
<1>2. PICK f : Flattens(f, <<p>>, E)
  BY <1>1, FlattenExists
<1>3. f[0] = <<>> /\ f[1] = Cat(f[0], p)
  BY <1>1, <1>2 DEF Flattens
<1>4. FlattenSeq(<<p>>) = f[1]
  BY <1>1, <1>2, FlattenIs
<1> QED BY <1>3, <1>4, CatLaws

LEMMA FlattenAppend ==
  ASSUME NEW E, NEW s \in Seq(Seq(E)), NEW p \in Seq(E)
  PROVE  FlattenSeq(Append(s, p)) = FlattenSeq(s) \o p
<1>1. Append(s, p) = s \o <<p>>
  BY AppendIsConcat
<1>2. <<p>> \in Seq(Seq(E))
  OBVIOUS
<1>3. FlattenSeq(s \o <<p>>) = FlattenSeq(s) \o FlattenSeq(<<p>>)
  BY <1>2, FlattenConcat
<1> QED BY <1>1, <1>3, FlattenOne, Zenon

-----------------------------------------------------------------------------
(* Parts joined into calls.                                                *)

\* Evidence that goes into one call.
Parts == Seq(Nat) \ {<<>>}
Fits(part) == Tokens(part) <= Capacity \/ Len(part) = 1
FitParts == {part \in Parts : Fits(part)}
Packed(calls) ==
  /\ calls \in Seq(FitParts)
  /\ \A i \in 1..(Len(calls) - 1) : Tokens(calls[i]) + Tokens(calls[i + 1]) > Capacity

\* One more part keeps the calls packed, and is at their end.
LEMMA JoinPacks ==
  ASSUME NEW calls, Packed(calls), NEW part \in FitParts
  PROVE  /\ Packed(Join(calls, part))
         /\ Join(calls, part) # <<>>
         /\ FlattenSeq(Join(calls, part)) = FlattenSeq(calls) \o part
<1>1. PICK m \in Nat :
        /\ m = Len(calls) /\ calls \in [1..m -> FitParts]
        /\ calls \in Seq(FitParts)
        /\ \A i \in 1..(m - 1) : Tokens(calls[i]) + Tokens(calls[i + 1]) > Capacity
  BY LenProperties DEF Packed
<1>2. Capacity \in Nat
  BY ReviewAssumption
<1>3. \A p \in FitParts : p \in Seq(Nat) /\ p # <<>> /\ Fits(p) /\ Tokens(p) \in Nat
  BY TokensNat DEF FitParts, Parts
<1>4. calls \in Seq(Seq(Nat))
  BY <1>1, <1>3, SeqMonotonic
<1>5. ASSUME m > 0, Tokens(calls[m]) + Tokens(part) <= Capacity
      PROVE  /\ Packed(Append(Front(calls), calls[m] \o part))
             /\ Append(Front(calls), calls[m] \o part) # <<>>
             /\ FlattenSeq(Append(Front(calls), calls[m] \o part))
                  = FlattenSeq(calls) \o part
  <2>1. PICK last \in FitParts : last = calls[m]
    BY <1>1, <1>5
  <2>2. PICK both \in FitParts :
          both = last \o part /\ Tokens(both) = Tokens(last) + Tokens(part)
    <3>1. last \o part \in Seq(Nat) /\ last \o part # <<>>
      BY <1>3, <2>1, ConcatProperties, ConcatEqualIffEmpty
    <3>2. Tokens(last \o part) = Tokens(last) + Tokens(part)
      BY <1>3, TokensConcat
    <3>3. last \o part \in FitParts
      BY <1>5, <2>1, <3>1, <3>2 DEF FitParts, Parts, Fits
    <3> QED BY <3>2, <3>3
  <2>3. PICK front \in Seq(FitParts) :
          /\ front = Front(calls) /\ Len(front) = m - 1
          /\ \A i \in 1..(m - 1) : front[i] = calls[i]
    <3>1. \A i \in 1..(m - 1) : calls[i] \in FitParts
      BY <1>1
    <3>2. /\ SubSeq(calls, 1, m - 1) \in Seq(FitParts)
          /\ Len(SubSeq(calls, 1, m - 1)) = IF 1 <= m - 1 THEN (m - 1) - 1 + 1 ELSE 0
          /\ \A i \in 1..((m - 1) - 1 + 1) : SubSeq(calls, 1, m - 1)[i] = calls[1 + i - 1]
      BY <3>1, SubSeqProperties
    <3>3. /\ Front(calls) \in Seq(FitParts) /\ Len(Front(calls)) = m - 1
          /\ \A i \in 1..(m - 1) : Front(calls)[i] = calls[i]
      BY <1>1, <1>5, <3>2 DEF Front
    <3> QED BY <3>3, Zenon
  <2>4. PICK new \in Seq(FitParts) :
          /\ new = Append(front, both) /\ new # <<>> /\ Len(new) = m
          /\ \A i \in 1..(m - 1) : new[i] = calls[i]
          /\ new[m] = both
    <3>1. /\ Append(front, both) \in Seq(FitParts) /\ Append(front, both) # <<>>
          /\ Len(Append(front, both)) = m
          /\ \A i \in 1..(m - 1) : Append(front, both)[i] = calls[i]
          /\ Append(front, both)[m] = both
      BY <2>3, AppendProperties
    <3> QED BY <3>1, Zenon
  <2>5. ASSUME NEW i \in 1..(m - 1) PROVE Tokens(new[i]) + Tokens(new[i + 1]) > Capacity
    <3>1. /\ Tokens(calls[i]) + Tokens(calls[i + 1]) > Capacity
          /\ new[i] = calls[i] /\ calls[i] \in FitParts
      BY <1>1, <2>4
    <3>2. CASE i + 1 \in 1..(m - 1)
      BY <2>4, <3>1, <3>2
    <3>3. CASE i + 1 = m
      <4>1. new[i + 1] = both /\ calls[i + 1] = last
        BY <2>1, <2>4, <3>3
      <4>2. Tokens(last) \in Nat /\ Tokens(part) \in Nat /\ Tokens(calls[i]) \in Nat
        BY <1>3, <3>1
      <4> QED BY <1>2, <2>2, <3>1, <4>1, <4>2
    <3> QED BY <3>2, <3>3
  <2>6. Packed(new)
    BY <2>4, <2>5 DEF Packed
  <2>7. calls = Append(front, last)
    <3>1. /\ Append(front, last) \in Seq(FitParts) /\ Len(Append(front, last)) = m
          /\ \A i \in 1..(m - 1) : Append(front, last)[i] = calls[i]
          /\ Append(front, last)[m] = last
      BY <2>3, AppendProperties
    <3>2. \A i \in 1..Len(calls) : calls[i] = Append(front, last)[i]
      BY <1>1, <2>1, <3>1
    <3> QED BY <1>1, <3>1, <3>2, SeqEqual
  <2>8. /\ front \in Seq(Seq(Nat)) /\ last \in Seq(Nat) /\ part \in Seq(Nat)
        /\ both \in Seq(Nat)
    BY <1>3, <2>3, SeqMonotonic
  <2>9. PICK flat \in Seq(Nat) : flat = FlattenSeq(front)
    BY <2>8, FlattenType
  <2>10. FlattenSeq(calls) = flat \o last /\ FlattenSeq(new) = flat \o both
    BY <2>4, <2>7, <2>8, <2>9, FlattenAppend
  <2>11. FlattenSeq(new) = FlattenSeq(calls) \o part
    <3>1. Cat(Cat(flat, last), part) = Cat(flat, Cat(last, part))
      BY <2>8, <2>9, CatLaws
    <3>2. /\ FlattenSeq(calls) = Cat(flat, last) /\ FlattenSeq(new) = Cat(flat, both)
          /\ both = Cat(last, part)
      BY <2>2, <2>10, Zenon DEF Cat
    <3>3. FlattenSeq(new) = Cat(FlattenSeq(calls), part)
      BY <3>1, <3>2, Zenon
    <3> QED BY <3>3, Zenon DEF Cat
  <2> QED BY <2>1, <2>2, <2>3, <2>4, <2>6, <2>11
<1>6. ASSUME m = 0 \/ ~(Tokens(calls[m]) + Tokens(part) <= Capacity)
      PROVE  /\ Packed(Append(calls, part)) /\ Append(calls, part) # <<>>
             /\ FlattenSeq(Append(calls, part)) = FlattenSeq(calls) \o part
  <2>1. PICK new \in Seq(FitParts) :
          /\ new = Append(calls, part) /\ new # <<>> /\ Len(new) = m + 1
          /\ \A i \in 1..m : new[i] = calls[i]
          /\ new[m + 1] = part
    <3>1. /\ Append(calls, part) \in Seq(FitParts) /\ Append(calls, part) # <<>>
          /\ Len(Append(calls, part)) = m + 1
          /\ \A i \in 1..m : Append(calls, part)[i] = calls[i]
          /\ Append(calls, part)[m + 1] = part
      BY <1>1, AppendProperties
    <3> QED BY <3>1, Zenon
  <2>2. ASSUME NEW i \in 1..m PROVE Tokens(new[i]) + Tokens(new[i + 1]) > Capacity
    <3>1. new[i] = calls[i] /\ calls[i] \in FitParts
      BY <1>1, <2>1
    <3>2. CASE i = m
      <4>1. new[i + 1] = part /\ Tokens(part) \in Nat /\ Tokens(calls[i]) \in Nat
        BY <1>3, <2>1, <3>1, <3>2
      <4> QED BY <1>2, <1>6, <3>1, <3>2, <4>1
    <3>3. CASE i # m
      <4>1. i \in 1..(m - 1) /\ i + 1 \in 1..m
        BY <3>3
      <4> QED BY <1>1, <2>1, <4>1
    <3> QED BY <3>2, <3>3
  <2>3. Packed(new)
    BY <2>1, <2>2 DEF Packed
  <2>4. FlattenSeq(Append(calls, part)) = FlattenSeq(calls) \o part
    BY <1>3, <1>4, FlattenAppend
  <2> QED BY <2>1, <2>3, <2>4
<1>7. calls # <<>> <=> m > 0
  BY <1>1, EmptySeq
<1>8. Last(calls) = calls[m]
  BY <1>1 DEF Last
<1>9. CASE m > 0 /\ Tokens(calls[m]) + Tokens(part) <= Capacity
  <2>1. Join(calls, part) = Append(Front(calls), calls[m] \o part)
    BY <1>7, <1>8, <1>9, Zenon DEF Join
  <2> QED BY <1>5, <1>9, <2>1, Zenon
<1>10. CASE ~(m > 0 /\ Tokens(calls[m]) + Tokens(part) <= Capacity)
  <2>1. Join(calls, part) = Append(calls, part)
    BY <1>7, <1>8, <1>10, Zenon DEF Join
  <2>2. m = 0 \/ ~(Tokens(calls[m]) + Tokens(part) <= Capacity)
    BY <1>10
  <2> QED BY <1>6, <2>1, <2>2, Zenon
<1> QED BY <1>9, <1>10

\* f joins parts.
Joins(f, parts) ==
  /\ f \in [0..Len(parts) -> {calls \in Seq(FitParts) : Packed(calls)}]
  /\ f[0] = <<>>
  /\ \A k \in 1..Len(parts) : f[k] = Join(f[k - 1], parts[k])

\* Such a function exists, ...
LEMMA JoinExists ==
  ASSUME NEW parts \in Seq(FitParts)
  PROVE  \E f : Joins(f, parts)
<1>1. PICK n \in Nat : n = Len(parts) /\ parts \in [1..n -> FitParts]
  BY LenProperties
<1> DEFINE P == {calls \in Seq(FitParts) : Packed(calls)}
           g == [x \in (1..n) \X P |-> Join(x[2], parts[x[1]])]
<1>2. ASSUME NEW k \in 1..n, NEW v \in P PROVE Join(v, parts[k]) \in P
  <2>1. Packed(Join(v, parts[k]))
    BY <1>1, JoinPacks
  <2> QED BY <2>1 DEF Packed
<1>3. <<>> \in P
  BY DEF Packed
<1> HIDE DEF P
<1>4. g \in [(1..n) \X P -> P]
  BY <1>2
<1>5. \A k \in 1..n, v \in P : g[<<k, v>>] = Join(v, parts[k])
  OBVIOUS
<1> HIDE DEF g
<1>6. PICK f : Solves(f, P, <<>>, n, g)
  BY <1>3, <1>4, Recursion
<1>7. /\ f \in [0..n -> P] /\ f[0] = <<>>
      /\ \A k \in 1..n : f[k] = g[<<k, f[k - 1]>>]
  BY <1>6 DEF Solves
<1>8. ASSUME NEW k \in 1..n PROVE f[k] = Join(f[k - 1], parts[k])
  <2>1. k - 1 \in 0..n
    OBVIOUS
  <2>2. f[k - 1] \in P
    BY <1>7, <2>1
  <2> QED BY <1>5, <1>7, <2>2
<1> QED BY <1>1, <1>7, <1>8 DEF Joins, P

\* ... and Joined is what it ends with.
LEMMA JoinedIs ==
  ASSUME NEW parts \in Seq(FitParts), NEW f, Joins(f, parts)
  PROVE  Joined(parts) = f[Len(parts)]
<1>1. PICK n \in Nat : n = Len(parts)
  BY LenProperties
<1>2. /\ f = [k \in 0..n |-> f[k]] /\ f[0] = <<>>
      /\ \A k \in 1..n : f[k] = Join(f[k - 1], parts[k])
  BY <1>1 DEF Joins
<1> DEFINE Eq(g) == g = [k \in 0..n |-> IF k = 0 THEN <<>> ELSE Join(g[k - 1], parts[k])]
           joined == CHOOSE g : Eq(g)
<1>3. Eq(f)
  <2>1. ASSUME NEW k \in 0..n
        PROVE  f[k] = IF k = 0 THEN <<>> ELSE Join(f[k - 1], parts[k])
    <3>1. CASE k = 0
      BY <1>2, <3>1
    <3>2. CASE k # 0
      <4>1. k \in 1..n
        BY <3>2
      <4> QED BY <1>2, <3>2, <4>1, Zenon
    <3> QED BY <3>1, <3>2
  <2> QED BY <1>2, <2>1, Zenon
<1>4. Eq(joined)
  <2> HIDE DEF Eq
  <2> QED BY <1>3
<1>5. Joined(parts) = joined[n]
  BY <1>1 DEF Joined
<1> HIDE DEF joined
<1>6. \A k \in 0..n : joined[k] = IF k = 0 THEN <<>> ELSE Join(joined[k - 1], parts[k])
  BY <1>4
<1> HIDE DEF Eq
<1> DEFINE T == {k \in 0..n : joined[k] = f[k]}
<1>7. 0 \in T
  BY <1>2, <1>6
<1>8. ASSUME NEW k \in 1..n, k - 1 \in T PROVE k \in T
  <2>1. k \in 0..n /\ k # 0
    OBVIOUS
  <2>2. joined[k] = Join(joined[k - 1], parts[k])
    BY <1>6, <2>1
  <2>3. joined[k - 1] = f[k - 1] /\ f[k] = Join(f[k - 1], parts[k])
    BY <1>2, <1>8
  <2>4. joined[k] = f[k]
    BY <2>2, <2>3
  <2> QED BY <2>1, <2>4
<1> HIDE DEF T
<1>9. \A k \in 0..n : k \in T
  BY <1>7, <1>8, UpTo
<1>10. n \in T
  BY <1>9
<1> QED BY <1>1, <1>5, <1>10 DEF T

\* Joining packs what it is given, and keeps all of it in order.
LEMMA JoinedPacks ==
  ASSUME NEW parts \in Seq(FitParts)
  PROVE  Packed(Joined(parts)) /\ FlattenSeq(Joined(parts)) = FlattenSeq(parts)
<1>1. PICK n \in Nat : n = Len(parts) /\ parts \in [1..n -> FitParts]
  BY LenProperties
<1>2. PICK f : Joins(f, parts)
  BY JoinExists
<1>3. /\ \A k \in 0..n : Packed(f[k])
      /\ f[0] = <<>> /\ \A k \in 1..n : f[k] = Join(f[k - 1], parts[k])
  BY <1>1, <1>2 DEF Joins
<1>4. Joined(parts) = f[n]
  BY <1>1, <1>2, JoinedIs
<1>5. FitParts \subseteq Seq(Nat) /\ parts \in Seq(Seq(Nat))
  BY SeqMonotonic DEF FitParts, Parts
<1>6. PICK h : Flattens(h, parts, Nat)
  BY <1>5, FlattenExists
<1>7. h[0] = <<>> /\ \A k \in 1..n : h[k] = Cat(h[k - 1], parts[k])
  BY <1>1, <1>6 DEF Flattens
<1>8. FlattenSeq(parts) = h[n]
  BY <1>1, <1>5, <1>6, FlattenIs
<1> DEFINE T == {k \in 0..n : FlattenSeq(f[k]) = h[k]}
<1>9. 0 \in T
  <2>1. FlattenSeq(<<>>) = <<>>
    BY DEF FlattenSeq
  <2> QED BY <1>3, <1>7, <2>1
<1>10. ASSUME NEW k \in 1..n, k - 1 \in T PROVE k \in T
  <2>1. k - 1 \in 0..n
    OBVIOUS
  <2>2. FlattenSeq(Join(f[k - 1], parts[k])) = Cat(FlattenSeq(f[k - 1]), parts[k])
    BY <1>1, <1>3, <2>1, JoinPacks DEF Cat
  <2> QED BY <1>3, <1>7, <1>10, <2>2
<1> HIDE DEF T
<1>11. \A k \in 0..n : k \in T
  BY <1>9, <1>10, UpTo
<1>12. n \in T /\ Packed(f[n])
  BY <1>3, <1>11
<1> QED BY <1>4, <1>8, <1>12 DEF T

\* A page is cut into pieces that fit, and is their sequence.
LEMMA PiecesFit ==
  ASSUME NEW page \in Seq(Nat)
  PROVE  /\ Packed(PiecesOf(page))
         /\ FlattenSeq(PiecesOf(page)) = page
<1>1. PICK n \in Nat : n = Len(page) /\ page \in [1..n -> Nat] /\ DOMAIN page = 1..n
  BY LenProperties
<1> DEFINE ones == [i \in 1..n |-> <<page[i]>>]
<1>2. ASSUME NEW i \in 1..n PROVE <<page[i]>> \in FitParts
  BY <1>1 DEF FitParts, Parts, Fits
<1>3. ones \in Seq(FitParts) /\ Len(ones) = n
  BY <1>2
<1>4. PiecesOf(page) = Joined(ones)
  BY <1>1 DEF PiecesOf
<1>5. \A i \in 1..n : ones[i] = <<page[i]>>
  OBVIOUS
<1> HIDE DEF ones
<1>6. ones \in Seq(Seq(Nat))
  BY <1>3, SeqMonotonic DEF FitParts, Parts
<1> DEFINE f == [k \in 0..n |-> SubSeq(page, 1, k)]
<1>7. ASSUME NEW k \in 0..n PROVE SubSeq(page, 1, k) \in Seq(Nat)
  <2>1. \A i \in 1..k : page[i] \in Nat
    BY <1>1
  <2> QED BY <2>1, SubSeqProperties
<1>8. ASSUME NEW k \in 1..n
      PROVE  SubSeq(page, 1, k) = Cat(SubSeq(page, 1, k - 1), <<page[k]>>)
  BY <1>1, SubSeqRecursiveSecond DEF Cat
<1>9. \A k \in 0..n : f[k] = SubSeq(page, 1, k)
  OBVIOUS
<1>10. f \in [0..n -> Seq(Nat)]
  BY <1>7
<1> HIDE DEF f
<1>11. f[0] = <<>>
  BY <1>9, SubSeqEmpty
<1>12. ASSUME NEW k \in 1..n PROVE f[k] = Cat(f[k - 1], ones[k])
  <2>1. k \in 0..n /\ k - 1 \in 0..n
    OBVIOUS
  <2> QED BY <1>5, <1>8, <1>9, <2>1
<1>13. Flattens(f, ones, Nat)
  BY <1>3, <1>10, <1>11, <1>12 DEF Flattens
<1>14. FlattenSeq(ones) = f[n]
  BY <1>3, <1>6, <1>13, FlattenIs
<1>15. f[n] = page
  <2>1. n \in 0..n
    OBVIOUS
  <2> QED BY <1>1, <1>9, <2>1, SubSeqFull
<1> QED BY <1>3, <1>4, <1>14, <1>15, JoinedPacks

\* The calls are packed, and are the evidence in order; some evidence is a call.
LEMMA CallsPack ==
  ASSUME NEW pages \in Seq(Seq(Nat))
  PROVE  Packed(Calls(pages)) /\ FlattenSeq(Calls(pages)) = FlattenSeq(pages)
<1>1. PICK n \in Nat :
        /\ n = Len(pages) /\ pages \in [1..n -> Seq(Nat)] /\ DOMAIN pages = 1..n
  BY LenProperties
<1> DEFINE cut == [i \in 1..n |-> PiecesOf(pages[i])]
<1>2. ASSUME NEW i \in 1..n
      PROVE  /\ PiecesOf(pages[i]) \in Seq(FitParts)
             /\ FlattenSeq(PiecesOf(pages[i])) = pages[i]
  BY <1>1, PiecesFit DEF Packed
<1>3. cut \in Seq(Seq(FitParts)) /\ Len(cut) = n
  BY <1>2
<1>4. Calls(pages) = Joined(FlattenSeq(cut))
  BY <1>1 DEF Calls
<1>5. \A i \in 1..n : cut[i] = PiecesOf(pages[i])
  OBVIOUS
<1> HIDE DEF cut
<1>6. FlattenSeq(cut) \in Seq(FitParts)
  BY <1>3, FlattenType
<1>7. Packed(Calls(pages)) /\ FlattenSeq(Calls(pages)) = FlattenSeq(FlattenSeq(cut))
  BY <1>4, <1>6, JoinedPacks
<1>8. PICK f : Flattens(f, cut, FitParts)
  BY <1>3, FlattenExists
<1>9. PICK h : Flattens(h, pages, Nat)
  BY FlattenExists
<1>10. /\ f \in [0..n -> Seq(FitParts)] /\ f[0] = <<>>
       /\ \A k \in 1..n : f[k] = Cat(f[k - 1], cut[k])
       /\ h[0] = <<>> /\ \A k \in 1..n : h[k] = Cat(h[k - 1], pages[k])
  BY <1>1, <1>3, <1>8, <1>9 DEF Flattens
<1>11. FlattenSeq(cut) = f[n] /\ FlattenSeq(pages) = h[n]
  BY <1>1, <1>3, <1>8, <1>9, FlattenIs
<1>12. Seq(FitParts) \subseteq Seq(Seq(Nat))
  <2>1. FitParts \subseteq Seq(Nat)
    BY DEF FitParts, Parts
  <2> QED BY <2>1, SeqMonotonic
<1> DEFINE T == {k \in 0..n : FlattenSeq(f[k]) = h[k]}
<1>13. 0 \in T
  <2>1. FlattenSeq(<<>>) = <<>>
    BY DEF FlattenSeq
  <2> QED BY <1>10, <2>1
<1>14. ASSUME NEW k \in 1..n, k - 1 \in T PROVE k \in T
  <2>1. k - 1 \in 0..n
    OBVIOUS
  <2>2. f[k - 1] \in Seq(Seq(Nat)) /\ cut[k] \in Seq(Seq(Nat))
    BY <1>2, <1>5, <1>10, <1>12, <2>1
  <2>3. FlattenSeq(Cat(f[k - 1], cut[k])) = Cat(FlattenSeq(f[k - 1]), FlattenSeq(cut[k]))
    BY <2>2, FlattenConcat DEF Cat
  <2>4. FlattenSeq(cut[k]) = pages[k]
    BY <1>2, <1>5
  <2> QED BY <1>10, <1>14, <2>3, <2>4
<1> HIDE DEF T
<1>15. \A k \in 0..n : k \in T
  BY <1>13, <1>14, UpTo
<1>16. n \in T
  BY <1>15
<1> QED BY <1>7, <1>11, <1>16 DEF T

-----------------------------------------------------------------------------
(* A run, one proposal at a time.                                          *)

USE ReviewAssumption
Undecided == {"proposed", "verify", "recheck", "again"}

\* What a kept proposal may be after a rejection.
ModestEnough(p) ==
  p.first \in {"reject", "contested"} =>
    \/ p.sure = "low"
    \/ p.sure = "medium" /\ (p.again = "keep" \/ p.rule = "one_place")

\* A proposal as it may be, whatever the others are.
Right(p) ==
  /\ p.fate \in {"none", "proposed", "verify"} =>
       p.first = "none" /\ p.again = "none" /\ p.rule = "none"
  /\ p.fate \in {"recheck", "again"} =>
       p.first = "contested" /\ p.again = "none" /\ p.rule = "none"
  /\ p.fate = "kept" => ModestEnough(p)
  /\ p.fate = "aside" /\ p.rule = "rechecked" => p.again = "reject"
  /\ p.fate = "aside" /\ p.rule = "model" => p.again = "none"

\* What is known of the questions.
Hearing == [seen : SUBSET Questions, gaps : SUBSET Questions, apart : SUBSET Questions,
            cut : SUBSET Questions, past : SUBSET Questions]

Records ==
  /\ stage \in Stages
  /\ heard \in Hearing
  /\ nextId \in Nat
  /\ proposal \in [Slots -> Proposals]
  /\ \A s \in Slots : Right(proposal[s])

\* Which fates there can be at a stage.
FatesAt(st) ==
  CASE st = "settle" -> {"none", "proposed", "verify", "aside"}
    [] st = "verification" -> {"none", "verify", "aside"}
    [] st = "judging" -> {"none", "verify", "recheck", "kept", "aside"}
    [] st = "search" -> {"none", "recheck", "again", "kept", "aside"}
    [] st \in {"recheck", "rejudging"} -> {"none", "again", "kept", "aside"}
    [] st = "ready" -> {"none", "kept", "aside"}
    [] st = "save" -> IF stopped THEN Fates ELSE {"none", "kept", "aside"}
    [] st \in {"partial", "failed"} -> Fates
    [] OTHER -> {"none"}

Unasked == {"evidence", "discovery", "inventory", "spans", "reasoning", "settle",
            "verification", "judging", "search", "recheck"}

ByStage ==
  /\ \A s \in Slots : proposal[s].fate \in FatesAt(stage)
  /\ stage \in Unasked => \A s \in Slots : proposal[s].again = "none"
  /\ stopped => stage \in {"save", "partial"}
  /\ stage = "ready" => ~unread

GapsKnown ==
  \A s \in Slots : proposal[s].fate = "aside" /\ proposal[s].rule = "unresolved" =>
                     proposal[s].about \in heard.gaps

\* The proposals that were asked about again.
Again == {t \in Slots : \/ proposal[t].again # "none"
                        \/ proposal[t].fate \in {"recheck", "again"}}

Quota ==
  /\ Cardinality(Again) <= MaxElsewhere
  /\ stage = "judging" => \A t \in InFate("verify") : Again \subseteq 1..(t - 1)
  /\ \A s \in Slots :
       proposal[s].fate = "aside" /\ proposal[s].rule = "model"
         /\ proposal[s].first = "contested" =>
       Again \subseteq 1..(s - 1) /\ Cardinality(Again) = MaxElsewhere

Endings ==
  /\ stage \notin {"ready", "partial"} => outcome = [q \in Questions |-> "none"]
  /\ stage \in {"ready", "partial"} =>
       \A s \in Slots : proposal[s].fate = "kept" /\ proposal[s].about \in Library =>
                          proposal[s].sure # "high"
  /\ \A q \in Questions : outcome[q] = "complete_no_issue" =>
       /\ stage = "ready" /\ q \in heard.seen \ heard.gaps
       /\ \A s \in Slots : proposal[s].about = q => proposal[s].fate # "kept"

\* What was left out was left out by a cap that is full.
CapsFull ==
  /\ heard.past # {} => Proposed = Slots
  /\ heard.cut # {} => Slots \cap 1..MaxUnclaimed \subseteq Proposed

IInv == Records /\ ByStage /\ GapsKnown /\ CapsFull /\ Quota /\ Endings

USE DEF askVars

-----------------------------------------------------------------------------
(* One proposal at a time.                                                 *)

LEMMA SlotsFinite == IsFiniteSet(Slots) /\ \A T \in SUBSET Slots : IsFiniteSet(T)
<1>1. IsFiniteSet(Slots)
  BY FS_Interval DEF Slots
<1>. QED
  BY <1>1, FS_Subset

\* New evidence ids are numbers.
LEMMA CitesNumbers ==
  ASSUME nextId \in Nat, NEW n \in Nat, NEW p \in Proposals, NEW known,
         NEW kind \in Kinds
  PROVE  /\ p.cites \cup Citing(NewIds(n), kind) \in SUBSET (Nat \X Kinds)
         /\ p.cites \cup Citing({nextId}, kind) \in SUBSET (Nat \X Kinds)
         /\ p.cites \cup Citing(Callouts(known, n), kind) \in SUBSET (Nat \X Kinds)
<1>1. p.cites \in SUBSET (Nat \X Kinds)
  BY DEF Proposals
<1>2. NewIds(n) \subseteq Nat /\ Callouts(known, n) \subseteq Nat
  BY DEF NewIds, Callouts, Ids
<1>. QED
  BY <1>1, <1>2 DEF Citing

\* What accepting a kept verdict makes of a proposal.
Accepted(p, r) ==
  /\ r \in Proposals /\ Right(r)
  /\ r.fate \in {"kept", "aside"}
  /\ r.fate = "aside" => r.rule \in {"guard", "measured", "unresolved"}
  /\ r.about = p.about /\ r.again = p.again
  /\ r.fate = "aside" /\ r.rule = "unresolved" => r.about \in heard'.gaps

GapsGrow ==
  /\ heard' \in Hearing
  /\ heard.gaps \subseteq heard'.gaps
  /\ heard'.cut = heard.cut /\ heard'.past = heard.past

\* Setting a proposal aside changes its fate and its rule only.
SetAside(p, why) == [p EXCEPT !.fate = "aside", !.rule = why]

LEMMA AsideFields ==
  ASSUME NEW p \in Proposals,
         NEW why \in {"measured", "unresolved", "guard", "silent", "model", "rechecked"}
  PROVE  LET r == SetAside(p, why)
         IN /\ r \in Proposals /\ r.fate = "aside" /\ r.rule = why
            /\ r.about = p.about /\ r.again = p.again /\ r.first = p.first
<1>. DEFINE r == SetAside(p, why)
<1>. DEFINE Cites == SUBSET (Nat \X Kinds)
<1>. DEFINE With(cites) ==
       [fate : Fates, about : Questions, from : {"model", "values"}, sought : {"no", "yes"},
        first : {"none", "silent", "keep", "contested", "reject"},
        again : {"none", "keep", "placeless", "reject", "contested", "silent"},
        rule : {"none", "schedule", "measured", "unresolved", "guard", "silent", "model",
                "rechecked", "one_place"},
        sure : Confidences, cites : cites]
<1>1. Proposals = With(Cites)
  BY DEF Proposals
<1>2. "aside" \in Fates
  BY DEF Fates
<1>3. r \in Proposals
  <2>. HIDE DEF Cites
  <2>. QED
    BY <1>1, <1>2 DEF SetAside
<1>4. r.fate = "aside" /\ r.rule = why
      /\ r.about = p.about /\ r.again = p.again /\ r.first = p.first
  BY DEF Proposals, SetAside
<1>. QED
  BY <1>3, <1>4

LEMMA AcceptMakes ==
  ASSUME Records, NEW s \in Slots, NEW p \in Proposals, NEW known,
         p.rule \in {"none", "one_place"}, ModestEnough(p), Accept(s, p, known)
  PROVE  /\ \E r : Accepted(p, r) /\ proposal' = [proposal EXCEPT ![s] = r]
         /\ GapsGrow
<1>1. CASE Refused(s, p)
  <2>. DEFINE r == SetAside(p, "guard")
  <2>1. proposal' = [proposal EXCEPT ![s] = r] /\ heard' = heard
    BY <1>1 DEF Refused, Aside, SetAside
  <2>2. r \in Proposals /\ r.fate = "aside" /\ r.rule = "guard"
        /\ r.about = p.about /\ r.again = p.again
    BY AsideFields
  <2>3. Accepted(p, r)
    BY <2>2 DEF Accepted, Right
  <2>. QED
    BY <2>1, <2>3 DEF GapsGrow, Records
<1>2. CASE SettledByMeasure(s, p)
  <2>1. PICK why \in {"measured", "unresolved"} :
          /\ Aside(s, p, why)
          /\ \/ why = "measured" /\ heard' = heard
             \/ heard' = [heard EXCEPT !.gaps = @ \cup {p.about}]
    BY <1>2 DEF SettledByMeasure
  <2>. DEFINE r == SetAside(p, why)
  <2>2. proposal' = [proposal EXCEPT ![s] = r]
    BY <2>1 DEF Aside, SetAside
  <2>3. r \in Proposals /\ r.fate = "aside" /\ r.rule = why
        /\ r.about = p.about /\ r.again = p.again
    BY AsideFields
  <2>6. p.about \in Questions
    BY DEF Proposals
  <2>4. GapsGrow /\ (why = "unresolved" => p.about \in heard'.gaps)
    BY <2>1, <2>6 DEF GapsGrow, Records, Hearing
  <2>5. Accepted(p, r)
    BY <2>3, <2>4 DEF Accepted, Right
  <2>. QED
    BY <2>2, <2>4, <2>5
<1>3. CASE Keep(s, p, known)
  <2>1. PICK n \in 0..(IF Cardinality(Placed(known)) < MaxPlaced THEN MaxCallouts ELSE 0) :
          proposal' = [proposal EXCEPT ![s] =
            [p EXCEPT !.fate = "kept",
                      !.cites = @ \cup Citing(Callouts(known, n), "callout")]]
    BY <1>3 DEF Keep
  <2>2. n \in Nat /\ heard' = heard
    BY <1>3, <2>1 DEF Keep
  <2>. DEFINE r == [p EXCEPT !.fate = "kept",
                             !.cites = @ \cup Citing(Callouts(known, n), "callout")]
  <2>3. p.cites \cup Citing(Callouts(known, n), "callout") \in SUBSET (Nat \X Kinds)
    BY <2>2, CitesNumbers DEF Records, Kinds
  <2>4. r \in Proposals /\ r.fate = "kept" /\ r.about = p.about
        /\ r.again = p.again /\ r.first = p.first /\ r.sure = p.sure
        /\ r.rule = p.rule
    BY <2>3 DEF Proposals, Fates
  <2>5. Accepted(p, r)
    BY <2>4 DEF Accepted, Right, ModestEnough
  <2>. QED
    BY <2>1, <2>2, <2>5 DEF GapsGrow, Records
<1>. QED
  BY <1>1, <1>2, <1>3 DEF Accept

-----------------------------------------------------------------------------
(* What each part of the invariant needs of a step on one proposal.        *)

LEMMA RecordsStay ==
  ASSUME Records, NEW s \in Slots, NEW r \in Proposals, Right(r), GapsGrow,
         proposal' = [proposal EXCEPT ![s] = r], stage' \in Stages, nextId' \in Nat
  PROVE  Records'
  BY DEF Records, GapsGrow

LEMMA GapsStay ==
  ASSUME Records, GapsKnown, NEW s \in Slots, NEW r, GapsGrow,
         proposal' = [proposal EXCEPT ![s] = r],
         r.fate = "aside" /\ r.rule = "unresolved" => r.about \in heard'.gaps
  PROVE  GapsKnown'
  BY DEF Records, GapsKnown, GapsGrow

\* A cap that is full stays full.
LEMMA CapsStay ==
  ASSUME Records, CapsFull, NEW s \in Slots, NEW r, GapsGrow,
         proposal' = [proposal EXCEPT ![s] = r], r.fate # "none"
  PROVE  CapsFull'
<1>1. \A t \in Slots : proposal'[t] = IF t = s THEN r ELSE proposal[t]
  BY DEF Records
<1>2. Proposed \subseteq Proposed' /\ Proposed' \subseteq Slots
  BY <1>1 DEF Proposed
<1>. QED
  BY <1>2 DEF CapsFull, GapsGrow

\* The quota stands when the proposals asked about again stay the same.
LEMMA QuotaStays ==
  ASSUME Records, Quota, NEW s \in Slots, NEW r,
         proposal' = [proposal EXCEPT ![s] = r],
         (r.again # "none" \/ r.fate \in {"recheck", "again"}) <=> s \in Again,
         stage' = "judging" => stage = "judging" /\ r.fate # "verify",
         r.fate = "aside" => r.rule # "model"
  PROVE  Quota'
<1>1. \A t \in Slots : proposal'[t] = IF t = s THEN r ELSE proposal[t]
  BY DEF Records
<1>2. Again' = Again
  BY <1>1 DEF Again
<1>3. stage' = "judging" => InFate("verify")' \subseteq InFate("verify")
  BY <1>1 DEF InFate
<1>. QED
  BY <1>1, <1>2, <1>3 DEF Quota, InFate

\* Nothing is decided about a question while proposals are judged.
LEMMA EndingsStay ==
  ASSUME Endings, stage \notin {"ready", "partial"}, UNCHANGED outcome,
         stage' \notin {"ready", "partial"}
  PROVE  Endings'
  BY DEF Endings

\* A step that leaves the proposals alone.
LEMMA ProposalsStay ==
  ASSUME Records, Quota, GapsKnown, CapsFull, GapsGrow,
         UNCHANGED <<proposal, nextId>>,
         stage' \in Stages, stage' = "judging" => Again = {} \/ stage = "judging"
  PROVE  Records' /\ Quota' /\ GapsKnown' /\ CapsFull'
<1>1. Records' /\ GapsKnown'
  BY DEF Records, GapsKnown, GapsGrow
<1>2. Again' = Again /\ \A f : InFate(f)' = InFate(f)
  BY DEF Again, InFate
<1>3. CapsFull'
  BY DEF CapsFull, GapsGrow, Proposed
<1>. QED
  BY <1>1, <1>2, <1>3 DEF Quota

-----------------------------------------------------------------------------
(* The invariant holds.                                                    *)

LEMMA BlankIsProposal ==
  /\ NoProposal \in Proposals /\ NoProposal.fate = "none"
  /\ NoProposal.first = "none" /\ NoProposal.again = "none"
  /\ NoProposal.rule = "none"
<1>1. (CHOOSE q \in Questions : TRUE) \in Questions
  OBVIOUS
<1>. QED
  BY <1>1 DEF NoProposal, Proposals, Fates, Confidences

LEMMA InitHolds == Init => IInv
<1>. SUFFICES ASSUME Init PROVE IInv
  OBVIOUS
<1>1. \A s \in Slots : proposal[s] = NoProposal
  BY DEF Init
<1>9. \A s \in Slots : /\ proposal[s].fate = "none" /\ proposal[s].again = "none"
                       /\ proposal[s].first = "none" /\ proposal[s].rule = "none"
  BY <1>1, BlankIsProposal
<1>2. Records
  BY BlankIsProposal, <1>1, <1>9 DEF Init, Records, Right, Hearing, Stages
<1>3. ByStage
  BY <1>9 DEF Init, ByStage, FatesAt
<1>4. GapsKnown
  BY <1>9 DEF GapsKnown
<1>5. Again = {}
  BY <1>9 DEF Again
<1>6. Quota
  BY <1>9, <1>5, FS_EmptySet DEF Quota, Init
<1>7. Endings
  BY DEF Init, Endings
<1>8. CapsFull
  BY DEF Init, CapsFull
<1>. QED
  BY <1>2, <1>3, <1>4, <1>6, <1>7, <1>8 DEF IInv

LEMMA AskingHolds ==
  IInv /\ (Stop \/ CallFails \/ Unusable) => IInv'
<1>. SUFFICES ASSUME IInv, Stop \/ CallFails \/ Unusable PROVE IInv'
  OBVIOUS
<1>1. /\ stage \in Asking /\ UNCHANGED <<proposal, nextId, heard, outcome, unread>>
      /\ \/ stage' = stage /\ UNCHANGED stopped
         \/ FollowUp /\ stage' = AfterFollowUp /\ UNCHANGED stopped
         \/ stage' = "save" /\ stopped' = TRUE
         \/ stage' = "failed" /\ UNCHANGED stopped
  BY DEF Stop, CallFails, Unusable, GiveUp, Calling
<1>2. stage' \in Stages /\ stage' # "judging" /\ stage' \notin {"ready", "partial"}
      /\ stage \notin {"ready", "partial"}
  BY <1>1 DEF Asking, AfterFollowUp, Stages, IInv, Records
<1>3. GapsGrow
  BY <1>1 DEF GapsGrow, IInv, Records
<1>4. Records' /\ Quota' /\ GapsKnown' /\ CapsFull'
  BY <1>1, <1>2, <1>3, ProposalsStay DEF IInv
<1>5. ~stopped
  BY <1>1 DEF IInv, ByStage, Asking
<1>6. \A s \in Slots : proposal[s].fate \in Fates
  BY DEF IInv, Records, Proposals
<1>7. ByStage'
  BY <1>1, <1>5, <1>6
  DEF IInv, ByStage, FatesAt, FollowUp, AfterFollowUp, Asking, Unasked
<1>8. Endings'
  BY <1>1, <1>2, EndingsStay DEF IInv
<1>. QED
  BY <1>4, <1>7, <1>8 DEF IInv

LEMMA ObservingHolds ==
  IInv /\ (Pack \/ Discover \/ CompleteInventory \/ CompleteGridSpans
             \/ NothingObserved) => IInv'
<1>. SUFFICES ASSUME IInv, Pack \/ Discover \/ CompleteInventory
                             \/ CompleteGridSpans \/ NothingObserved
              PROVE  IInv'
  OBVIOUS
<1>1. /\ stage \in {"evidence", "discovery", "inventory", "spans", "reasoning"}
      /\ stage' \in {"discovery", "inventory", "spans", "reasoning", "save"}
      /\ UNCHANGED <<proposal, nextId, outcome, stopped>>
      /\ stage # "evidence" => UNCHANGED unread
  BY DEF Pack, Discover, CompleteInventory, CompleteGridSpans, NothingObserved, Answered
<1>2. heard' \in Hearing
      /\ (stage # "evidence" => heard.gaps \subseteq heard'.gaps)
      /\ heard'.cut = heard.cut /\ heard'.past = heard.past
  BY DEF IInv, Records, Hearing, Pack, Discover, CompleteInventory, CompleteGridSpans,
         NothingObserved, Answered
<1>3. \A s \in Slots : proposal[s].fate = "none" /\ proposal[s].again = "none"
  BY <1>1 DEF IInv, ByStage, FatesAt, Unasked
<1>4. Records'
  BY <1>1, <1>2 DEF IInv, Records, Stages, Asking
<1>5. GapsKnown'
  BY <1>1, <1>3 DEF GapsKnown
<1>6. Quota'
  <2>1. Again' = Again
    BY <1>1 DEF Again
  <2>. QED
    BY <2>1, <1>1 DEF IInv, Quota
<1>7. ByStage'
  BY <1>1, <1>3 DEF IInv, ByStage, FatesAt, Unasked
<1>8. Endings'
  BY <1>1, EndingsStay DEF IInv
<1>9. CapsFull'
  BY <1>1, <1>2 DEF IInv, CapsFull, Proposed
<1>. QED
  BY <1>4, <1>5, <1>6, <1>7, <1>8, <1>9 DEF IInv

LEMMA ReasonHolds == IInv /\ Reason => IInv'
<1>. SUFFICES ASSUME IInv, Reason PROVE IInv'
  OBVIOUS
<1>1. /\ stage = "reasoning" /\ stage' = "settle"
      /\ UNCHANGED <<nextId, outcome, stopped, unread>>
  BY DEF Reason, Answered
<1>9. heard' \in Hearing
  BY DEF Reason, IInv, Records, Hearing
<1>2. \A s \in Slots :
        /\ proposal'[s] \in Proposals
        /\ proposal'[s].fate \in {"none", "proposed"}
        /\ proposal'[s].first = "none" /\ proposal'[s].again = "none"
        /\ proposal'[s].rule = "none"
  <2>1. PICK last \in 0..MaxCandidates : \E about \in Candidates(last) :
          \E worded : proposal' = ToJudge(about, last, worded)
    BY DEF Reason
  <2>2. PICK about \in Candidates(last) :
          \E worded : proposal' = ToJudge(about, last, worded)
    BY <2>1
  <2>3. PICK worded : proposal' = ToJudge(about, last, worded)
    BY <2>2
  <2>4. NoProposal \in Proposals /\ NoProposal.fate = "none"
        /\ NoProposal.first = "none" /\ NoProposal.again = "none"
        /\ NoProposal.rule = "none"
    BY BlankIsProposal
  <2>. TAKE s \in Slots
  <2>5. CASE s <= last
    <3>1. about[s] \in Questions
      BY <2>5 DEF Candidates, Slots
    <3>2. {<<1, "drawing">>} \in SUBSET (Nat \X Kinds)
      BY DEF Kinds
    <3>3. proposal'[s] =
            [NoProposal EXCEPT !.fate = "proposed", !.about = about[s],
                               !.from = IF s <= worded THEN "model" ELSE "values",
                               !.cites = {<<1, "drawing">>}]
      BY <2>3, <2>5 DEF ToJudge
    <3>. QED
      BY <2>4, <3>1, <3>2, <3>3 DEF Proposals, Fates
  <2>6. CASE ~(s <= last)
    BY <2>3, <2>4, <2>6 DEF ToJudge
  <2>. QED
    BY <2>5, <2>6
<1>3. proposal' = [s \in Slots |-> proposal'[s]]
  BY DEF Reason, ToJudge
<1>4. Records'
  <2>1. \A s \in Slots : Right(proposal'[s])
    BY <1>2 DEF Right
  <2>. QED
    BY <1>1, <1>2, <1>3, <1>9, <2>1 DEF IInv, Records, Stages
<1>5. ByStage'
  BY <1>1, <1>2 DEF IInv, ByStage, FatesAt, Unasked
<1>6. GapsKnown'
  BY <1>2 DEF GapsKnown
<1>7. Quota'
  <2>1. Again' = {}
    BY <1>2 DEF Again
  <2>. QED
    BY <1>1, <1>2, <2>1, FS_EmptySet DEF Quota
<1>8. Endings'
  BY <1>1, EndingsStay DEF IInv
<1>10. CapsFull'
  <2>. DEFINE Body(last, about, n, k) ==
         /\ proposal' = ToJudge(about, last, n + k)
         /\ \E absences, proposals \in SUBSET Questions :
              /\ LeftOut(about, last, n, k, absences, proposals)
              /\ heard' = [heard EXCEPT !.cut = absences, !.past = proposals]
  <2>1. PICK last \in 0..MaxCandidates : \E about \in Candidates(last) :
          \E n \in 0..last : \E k \in 0..(last - n) : Body(last, about, n, k)
    BY Zenon DEF Reason
  <2>2. PICK about \in Candidates(last) :
          \E n \in 0..last : \E k \in 0..(last - n) : Body(last, about, n, k)
    BY <2>1, Zenon
  <2>3. PICK n \in 0..last : \E k \in 0..(last - n) : Body(last, about, n, k)
    BY <2>2, Zenon
  <2>4. PICK k \in 0..(last - n) : Body(last, about, n, k)
    BY <2>3, Zenon
  <2>5. k \in Nat /\ k <= last
    OBVIOUS
  <2>6. /\ heard'.cut # {} => k = MaxUnclaimed \/ last = MaxCandidates
        /\ heard'.past # {} => last = MaxCandidates
    BY <2>4, <2>5 DEF LeftOut, IInv, Records, Hearing
  <2>7. \A s \in Slots : s <= last => proposal'[s].fate = "proposed"
    BY <2>4 DEF ToJudge, NoProposal
  <2>. QED
    BY <2>5, <2>6, <2>7 DEF CapsFull, Proposed, Slots
<1>. QED
  BY <1>4, <1>5, <1>6, <1>7, <1>8, <1>10 DEF IInv

\* The steps that only move on to the next stage.
LEMMA MovingOnHolds ==
  IInv /\ (Settled \/ Verify \/ Judged \/ Recheck) => IInv'
<1>. SUFFICES ASSUME IInv, Settled \/ Verify \/ Judged \/ Recheck PROVE IInv'
  OBVIOUS
<1>1. /\ stage \in {"settle", "verification", "judging", "recheck"}
      /\ stage' \in {"save", "verification", "judging", "search", "rejudging"}
      /\ stage' = "judging" => stage = "verification"
      /\ UNCHANGED <<proposal, nextId, heard, outcome, stopped, unread>>
  BY DEF Settled, Verify, Judged, Recheck, Answered
<1>2. stage = "verification" => Again = {}
  BY DEF IInv, ByStage, FatesAt, Unasked, Again
<1>3. GapsGrow
  BY <1>1 DEF GapsGrow, IInv, Records
<1>4. Records' /\ Quota' /\ GapsKnown' /\ CapsFull'
  BY <1>1, <1>2, <1>3, ProposalsStay DEF IInv, Stages, Asking
<1>5. \A s \in Slots : proposal[s].fate \in FatesAt(stage)'
  BY <1>1 DEF IInv, ByStage, FatesAt, Settled, Verify, Judged, Recheck, InFate, Answered
<1>6. ByStage'
  BY <1>1, <1>5 DEF IInv, ByStage, Unasked
<1>7. Endings'
  BY <1>1, EndingsStay DEF IInv
<1>. QED
  BY <1>4, <1>6, <1>7 DEF IInv

\* The fates of the others stay what they were.
LEMMA FatesStay ==
  ASSUME IInv, NEW s \in Slots, NEW r, proposal' = [proposal EXCEPT ![s] = r],
         UNCHANGED <<stage, stopped, unread>>, r.fate \in FatesAt(stage),
         stage \in Unasked => r.again = "none"
  PROVE  ByStage'
<1>1. \A t \in Slots : proposal'[t] = IF t = s THEN r ELSE proposal[t]
  BY DEF IInv, Records
<1>2. FatesAt(stage)' = FatesAt(stage)
  BY DEF FatesAt
<1>. QED
  BY <1>1, <1>2 DEF IInv, ByStage

LEMMA SettleHolds == ASSUME IInv, NEW s \in Slots, Settle(s) PROVE IInv'
<1>0. PICK sought \in {"no", "yes"} : \E n \in 0..MaxHits :
        /\ IF sought = "yes"
             THEN Cardinality({t \in Slots : proposal[t].sought = "yes"}) < MaxSearches
             ELSE n = 0
        /\ Searched(n)
        /\ \E rule \in EarlyRules(proposal[s]) :
             proposal' = [proposal EXCEPT
               ![s].sought = sought, ![s].cites = @ \cup Citing(NewIds(n), "hit"),
               ![s].fate = IF rule = "none" THEN "verify" ELSE "aside",
               ![s].rule = rule]
  BY Zenon DEF Settle
<1>1. PICK n \in 0..MaxHits :
        /\ IF sought = "yes"
             THEN Cardinality({t \in Slots : proposal[t].sought = "yes"}) < MaxSearches
             ELSE n = 0
        /\ Searched(n)
        /\ \E rule \in EarlyRules(proposal[s]) :
             proposal' = [proposal EXCEPT
               ![s].sought = sought, ![s].cites = @ \cup Citing(NewIds(n), "hit"),
               ![s].fate = IF rule = "none" THEN "verify" ELSE "aside",
               ![s].rule = rule]
  BY <1>0, Zenon
<1>2. PICK rule \in EarlyRules(proposal[s]) :
        proposal' = [proposal EXCEPT
              ![s].sought = sought, ![s].cites = @ \cup Citing(NewIds(n), "hit"),
              ![s].fate = IF rule = "none" THEN "verify" ELSE "aside",
              ![s].rule = rule]
  BY <1>1
<1>3. /\ stage = "settle" /\ proposal[s].fate = "proposed"
      /\ UNCHANGED <<stage, heard, outcome, stopped, unread>>
      /\ nextId' = nextId + n
  BY <1>1 DEF Settle, IsNext, InFate, Searched
<1>. DEFINE r == [proposal[s] EXCEPT
               !.sought = sought, !.cites = @ \cup Citing(NewIds(n), "hit"),
               !.fate = IF rule = "none" THEN "verify" ELSE "aside",
               !.rule = rule]
<1>4. proposal \in [Slots -> Proposals] /\ Right(proposal[s]) /\ n \in Nat /\ nextId \in Nat
  BY DEF IInv, Records
<1>5. proposal' = [proposal EXCEPT ![s] = r]
  BY <1>2, <1>4
<1>6. /\ r \in Proposals /\ r.fate \in {"aside", "verify"}
      /\ r.fate = "aside" => r.rule \in {"schedule", "measured"}
      /\ r.fate = "verify" => r.rule = "none"
      /\ r.first = "none" /\ r.again = "none"
  <2>1. proposal[s].cites \cup Citing(NewIds(n), "hit") \in SUBSET (Nat \X Kinds)
    BY <1>4, CitesNumbers DEF Kinds
  <2>2. proposal[s].first = "none" /\ proposal[s].again = "none" /\ proposal[s] \in Proposals
    BY <1>3, <1>4 DEF Right
  <2>5. rule \in {"none", "schedule", "measured"}
    BY DEF EarlyRules
  <2>3. CASE rule # "none"
    <3>1. r = [proposal[s] EXCEPT
                 !.sought = sought, !.cites = @ \cup Citing(NewIds(n), "hit"),
                 !.fate = "aside", !.rule = rule]
      BY <2>3
    <3>. HIDE DEF r
    <3>. QED
      BY <2>3, <2>5, <2>1, <2>2, <3>1, <1>4 DEF Proposals, Fates
  <2>4. CASE rule = "none"
    <3>1. r = [proposal[s] EXCEPT
                 !.sought = sought, !.cites = @ \cup Citing(NewIds(n), "hit"),
                 !.fate = "verify", !.rule = "none"]
      BY <2>4
    <3>. HIDE DEF r
    <3>. QED
      BY <2>1, <2>2, <3>1, <1>4 DEF Proposals, Fates
  <2>. QED
    BY <2>3, <2>4
<1>. HIDE DEF r
<1>7. GapsGrow
  BY <1>3 DEF GapsGrow, IInv, Records
<1>8. Records'
  <2>1. Right(r)
    BY <1>6 DEF Right
  <2>2. nextId' \in Nat /\ stage' \in Stages /\ Records
    BY <1>3, <1>4 DEF IInv, Records
  <2>. QED
    BY <1>5, <1>6, <1>7, <2>1, <2>2, RecordsStay
<1>9. ByStage'
  BY <1>3, <1>5, <1>6, FatesStay DEF FatesAt
<1>10. GapsKnown'
  BY <1>5, <1>6, <1>7, GapsStay DEF IInv
<1>11. Quota'
  <2>1. s \notin Again
    BY <1>3, <1>4 DEF Again, Right
  <2>. QED
    BY <2>1, <1>3, <1>5, <1>6, QuotaStays DEF IInv
<1>12. Endings'
  BY <1>3, EndingsStay DEF IInv
<1>13. CapsFull'
  BY <1>5, <1>6, <1>7, CapsStay DEF IInv
<1>. QED
  BY <1>8, <1>9, <1>10, <1>11, <1>12, <1>13 DEF IInv

LEMMA LookElsewhereHolds == ASSUME IInv, NEW s \in Slots, LookElsewhere(s) PROVE IInv'
<1>1. PICK n \in 0..MaxHits :
        /\ Searched(n)
        /\ proposal' = [proposal EXCEPT ![s].fate = "again",
                                        ![s].cites = @ \cup Citing(NewIds(n), "hit")]
  BY DEF LookElsewhere
<1>2. /\ stage = "search" /\ proposal[s].fate = "recheck"
      /\ stage' = IF InFate("recheck") = {s} THEN "recheck" ELSE "search"
      /\ UNCHANGED <<heard, outcome, stopped, unread>>
      /\ nextId' = nextId + n
  BY <1>1 DEF LookElsewhere, IsNext, InFate, Searched
<1>. DEFINE r == [proposal[s] EXCEPT !.fate = "again",
                                     !.cites = @ \cup Citing(NewIds(n), "hit")]
<1>3. proposal \in [Slots -> Proposals] /\ Right(proposal[s]) /\ n \in Nat /\ nextId \in Nat
  BY DEF IInv, Records
<1>4. proposal' = [proposal EXCEPT ![s] = r]
  BY <1>1, <1>3
<1>5. /\ r \in Proposals /\ r.fate = "again" /\ r.first = "contested"
      /\ r.again = "none" /\ r.rule = "none"
  <2>1. proposal[s].cites \cup Citing(NewIds(n), "hit") \in SUBSET (Nat \X Kinds)
    BY <1>3, CitesNumbers DEF Kinds
  <2>2. proposal[s] \in Proposals
    BY <1>3
  <2>3. r \in Proposals
    BY ONLY <2>1, <2>2 DEF Proposals, Fates
  <2>4. r.fate = "again" /\ r.first = proposal[s].first
        /\ r.again = proposal[s].again /\ r.rule = proposal[s].rule
    BY ONLY <2>2 DEF Proposals
  <2>5. proposal[s].first = "contested" /\ proposal[s].again = "none"
        /\ proposal[s].rule = "none"
    BY <1>2, <1>3 DEF Right
  <2>. QED
    BY ONLY <2>3, <2>4, <2>5
<1>. HIDE DEF r
<1>6. GapsGrow
  BY <1>2 DEF GapsGrow, IInv, Records
<1>7. Records'
  <2>1. Right(r)
    BY <1>5 DEF Right
  <2>2. nextId' \in Nat /\ stage' \in Stages /\ Records
    BY <1>2, <1>3 DEF IInv, Stages, Asking
  <2>. QED
    BY <1>4, <1>5, <1>6, <2>1, <2>2, RecordsStay
<1>8. \A t \in Slots : proposal'[t] = IF t = s THEN r ELSE proposal[t]
  BY <1>3, <1>4
<1>9. ByStage'
  BY <1>2, <1>5, <1>8 DEF IInv, ByStage, FatesAt, Unasked, InFate
<1>10. GapsKnown'
  BY <1>4, <1>5, <1>6, GapsStay DEF IInv
<1>11. Quota'
  <2>1. s \in Again
    BY <1>2 DEF Again
  <2>. QED
    BY <2>1, <1>2, <1>4, <1>5, QuotaStays DEF IInv
<1>12. Endings'
  BY <1>2, EndingsStay DEF IInv
<1>13. CapsFull'
  BY <1>4, <1>5, <1>6, CapsStay DEF IInv
<1>. QED
  BY <1>7, <1>9, <1>10, <1>11, <1>12, <1>13 DEF IInv

-----------------------------------------------------------------------------
(* The verdicts.                                                           *)

\* Accepting keeps the invariant, while proposals are judged and judged again.
LEMMA AcceptHolds ==
  ASSUME IInv, NEW s \in Slots, NEW p \in Proposals, NEW known,
         Accept(s, p, known), p.rule \in {"none", "one_place"}, ModestEnough(p),
         \/ /\ stage = "judging" /\ stage' = "judging"
            /\ proposal[s].fate = "verify" /\ p.again = "none"
         \/ /\ stage = "rejudging" /\ proposal[s].fate = "again"
            /\ stage' = IF InFate("again") = {s} THEN "save" ELSE "rejudging"
            /\ p.again # "none",
         UNCHANGED <<outcome, stopped, unread>>, nextId' \in Nat
  PROVE  IInv'
<1>1. GapsGrow /\ \E r : Accepted(p, r) /\ proposal' = [proposal EXCEPT ![s] = r]
  BY AcceptMakes DEF IInv
<1>2. PICK r : Accepted(p, r) /\ proposal' = [proposal EXCEPT ![s] = r]
  BY <1>1
<1>3. proposal \in [Slots -> Proposals] /\ Right(proposal[s])
  BY DEF IInv, Records
<1>4. Records'
  BY <1>1, <1>2, RecordsStay DEF IInv, Accepted, Stages
<1>5. \A t \in Slots : proposal'[t] = IF t = s THEN r ELSE proposal[t]
  BY <1>2, <1>3
<1>6. ByStage'
  BY <1>2, <1>5 DEF IInv, ByStage, FatesAt, Unasked, InFate, Accepted
<1>7. GapsKnown'
  BY <1>1, <1>2, GapsStay DEF IInv, Accepted
<1>8. Quota'
  <2>1. (p.again # "none") <=> s \in Again
    BY <1>3 DEF Again, Right
  <2>2. (r.again # "none" \/ r.fate \in {"recheck", "again"}) <=> s \in Again
    BY <2>1, <1>2 DEF Accepted
  <2>3. r.fate = "aside" => r.rule # "model"
    BY <1>2 DEF Accepted
  <2>4. stage' = "judging" => stage = "judging" /\ r.fate # "verify"
    BY <1>2 DEF Accepted
  <2>. QED
    BY <2>2, <2>3, <2>4, <1>2, QuotaStays DEF IInv
<1>9. Endings'
  BY EndingsStay DEF IInv
<1>10. CapsFull'
  BY <1>1, <1>2, CapsStay DEF IInv, Accepted
<1>. QED
  BY <1>4, <1>6, <1>7, <1>8, <1>9, <1>10 DEF IInv

\* While proposals are judged, those asked about again are those put back, and
\* they come before the one in hand.
LEMMA AgainWhileJudging ==
  ASSUME IInv, stage = "judging", NEW s \in Slots, IsNext(s, "verify")
  PROVE  Again = InFate("recheck") /\ Again \subseteq 1..(s - 1) /\ s \notin Again
<1>1. Again = InFate("recheck")
  BY DEF IInv, ByStage, FatesAt, Unasked, Again, InFate
<1>2. Again \subseteq 1..(s - 1)
  BY DEF IInv, Quota, IsNext
<1>. QED
  BY <1>1, <1>2 DEF Slots

LEMMA AsideHolds ==
  ASSUME IInv, NEW s \in Slots, NEW p \in Proposals, NEW why \in {"silent", "rechecked", "model"},
         Aside(s, p, why),
         \/ /\ stage = "judging" /\ stage' = "judging" /\ IsNext(s, "verify")
            /\ p.again = "none" /\ why \in {"silent", "model"}
         \/ /\ stage = "rejudging" /\ IsNext(s, "again")
            /\ stage' = IF InFate("again") = {s} THEN "save" ELSE "rejudging"
            /\ p.again = "reject" /\ why = "rechecked",
         why = "model" /\ p.first = "contested" =>
           ~(Cardinality(InFate("recheck")) < MaxElsewhere),
         UNCHANGED <<heard, outcome, stopped, unread, nextId>>
  PROVE  IInv'
<1>. DEFINE r == SetAside(p, why)
<1>1. proposal' = [proposal EXCEPT ![s] = r]
  BY DEF Aside, SetAside
<1>2. r \in Proposals /\ r.fate = "aside" /\ r.rule = why /\ r.again = p.again
      /\ r.first = p.first
  BY AsideFields
<1>. HIDE DEF r
<1>3. proposal \in [Slots -> Proposals] /\ Right(proposal[s])
  BY DEF IInv, Records
<1>4. Right(r)
  BY <1>2 DEF Right
<1>5. GapsGrow
  BY DEF GapsGrow, IInv, Records
<1>6. Records'
  BY <1>1, <1>2, <1>4, <1>5, RecordsStay DEF IInv, Records, Stages
<1>7. \A t \in Slots : proposal'[t] = IF t = s THEN r ELSE proposal[t]
  BY <1>1, <1>3
<1>8. ByStage'
  BY <1>2, <1>7 DEF IInv, ByStage, FatesAt, Unasked, InFate
<1>9. GapsKnown'
  BY <1>1, <1>2, <1>5, GapsStay DEF IInv
<1>10. Endings'
  BY EndingsStay DEF IInv
<1>11. Quota'
  <2>1. (p.again # "none") <=> s \in Again
    BY <1>3 DEF Again, Right, IsNext, InFate
  <2>2. CASE why # "model"
    BY <2>1, <2>2, <1>1, <1>2, QuotaStays DEF IInv
  <2>3. CASE why = "model"
    <3>1. stage = "judging" /\ IsNext(s, "verify") /\ stage' = "judging"
      BY <2>3
    <3>2. Again = InFate("recheck") /\ Again \subseteq 1..(s - 1) /\ s \notin Again
      BY <3>1, AgainWhileJudging
    <3>3. Again' = Again
      BY <1>2, <1>7, <2>1, <3>2 DEF Again
    <3>4. p.first = "contested" => Cardinality(Again) = MaxElsewhere
      <4>1. Cardinality(Again) \in Nat
        BY SlotsFinite, FS_CardinalityType DEF Again
      <4>. QED
        BY <4>1, <2>3, <3>2 DEF IInv, Quota
    <3>5. InFate("verify")' \subseteq InFate("verify")
      BY <1>2, <1>7 DEF InFate
    <3>6. \A t \in Slots \ {s} : proposal'[t] = proposal[t]
      BY <1>7
    <3>7. \A t \in Slots :
            proposal'[t].fate = "aside" /\ proposal'[t].rule = "model"
              /\ proposal'[t].first = "contested" =>
            Again \subseteq 1..(t - 1) /\ Cardinality(Again) = MaxElsewhere
      BY <1>2, <1>7, <3>2, <3>4, <3>6 DEF IInv, Quota
    <3>. QED
      BY <3>1, <3>3, <3>5, <3>7 DEF IInv, Quota
  <2>. QED
    BY <2>2, <2>3
<1>12. CapsFull'
  BY <1>1, <1>2, <1>5, CapsStay DEF IInv
<1>. QED
  BY <1>6, <1>8, <1>9, <1>10, <1>11, <1>12 DEF IInv

\* A contested rejection put back adds one to those asked about again.
LEMMA PutBackHolds ==
  ASSUME IInv, NEW s \in Slots, NEW r \in Proposals,
         stage = "judging", IsNext(s, "verify"),
         proposal' = [proposal EXCEPT ![s] = r],
         r.fate = "recheck", r.first = "contested", r.again = "none", r.rule = "none",
         Cardinality(InFate("recheck")) < MaxElsewhere,
         UNCHANGED <<stage, heard, outcome, stopped, unread, nextId>>
  PROVE  IInv'
<1>1. proposal \in [Slots -> Proposals] /\ stage' \in Stages /\ nextId' \in Nat
  BY DEF IInv, Records
<1>2. Right(r)
  BY DEF Right
<1>3. GapsGrow
  BY DEF GapsGrow, IInv, Records
<1>4. Records'
  BY <1>1, <1>2, <1>3, RecordsStay DEF IInv
<1>5. \A t \in Slots : proposal'[t] = IF t = s THEN r ELSE proposal[t]
  BY <1>1
<1>6. ByStage'
  BY FatesStay DEF FatesAt
<1>7. GapsKnown'
  BY <1>3, GapsStay DEF IInv
<1>8. Endings'
  BY EndingsStay DEF IInv
<1>9. Again = InFate("recheck") /\ Again \subseteq 1..(s - 1) /\ s \notin Again
  BY AgainWhileJudging
<1>10. Again' = Again \cup {s}
  BY <1>5, <1>9 DEF Again
<1>11. IsFiniteSet(Again) /\ Cardinality(Again) \in Nat
  BY SlotsFinite, FS_CardinalityType DEF Again
<1>12. Cardinality(Again') = Cardinality(Again) + 1
  BY <1>9, <1>10, <1>11, FS_AddElement
<1>13. Quota'
  <2>1. Cardinality(Again') <= MaxElsewhere
    BY <1>9, <1>11, <1>12
  <2>2. \A t \in InFate("verify")' : t \in InFate("verify") /\ t # s
    BY <1>5 DEF InFate
  <2>3. \A t \in InFate("verify") : t # s => Again \cup {s} \subseteq 1..(t - 1)
    <3>. SUFFICES ASSUME NEW t \in InFate("verify"), t # s
                  PROVE  Again \cup {s} \subseteq 1..(t - 1)
      OBVIOUS
    <3>1. s <= t /\ s \in Nat /\ t \in Nat /\ 1 <= s
      BY DEF IsNext, InFate, Slots
    <3>2. Again \subseteq 1..(t - 1)
      BY DEF IInv, Quota
    <3>. QED
      BY <3>1, <3>2
  <2>4. \A t \in Slots : ~(/\ proposal'[t].fate = "aside" /\ proposal'[t].rule = "model"
                           /\ proposal'[t].first = "contested")
    <3>. SUFFICES ASSUME NEW t \in Slots, proposal'[t].fate = "aside",
                         proposal'[t].rule = "model", proposal'[t].first = "contested"
                  PROVE  FALSE
      OBVIOUS
    <3>1. proposal'[t] = proposal[t]
      BY <1>5
    <3>2. Cardinality(Again) = MaxElsewhere
      BY <3>1 DEF IInv, Quota
    <3>. QED
      BY <3>2, <1>9
  <2>. QED
    BY <2>1, <2>2, <2>3, <2>4, <1>10 DEF Quota
<1>14. CapsFull'
  BY <1>3, CapsStay DEF IInv
<1>. QED
  BY <1>4, <1>6, <1>7, <1>8, <1>13, <1>14 DEF IInv

LEMMA JudgeHolds == ASSUME IInv, NEW s \in Slots, Judge(s) PROVE IInv'
<1>. DEFINE p == proposal[s]
<1>1. /\ stage = "judging" /\ stage' = "judging" /\ IsNext(s, "verify")
      /\ UNCHANGED <<outcome, stopped, unread>>
  BY DEF Judge
<1>2. /\ p \in Proposals /\ p.fate = "verify" /\ p.first = "none"
      /\ p.again = "none" /\ p.rule = "none" /\ nextId \in Nat
  BY <1>1 DEF IInv, Records, Right, IsNext, InFate
<1>3. CASE NoVerdict(s)
  <2>. DEFINE q == [p EXCEPT !.first = "silent"]
  <2>1. q \in Proposals /\ q.again = "none" /\ q.first = "silent"
    BY <1>2 DEF Proposals
  <2>2. Aside(s, q, "silent") /\ UNCHANGED <<heard, nextId>>
    BY <1>3 DEF NoVerdict
  <2>. HIDE DEF q
  <2>. QED
    BY <1>1, <2>1, <2>2, AsideHolds
<1>4. CASE Kept(s)
  <2>1. PICK sure \in Confidences :
          Accept(s, [p EXCEPT !.first = "keep", !.sure = sure], evidence)
    <3>1. PICK sure \in Confidences, byOthers \in BOOLEAN :
            Accept(s, [p EXCEPT !.first = "keep",
                                !.sure = IF byOthers THEN KeptForCoordination ELSE sure],
                   evidence)
      BY <1>4 DEF Kept
    <3>2. (IF byOthers THEN KeptForCoordination ELSE sure) \in Confidences
      BY DEF KeptForCoordination, Confidences
    <3>. QED
      BY <3>1, <3>2
  <2>. DEFINE q == [p EXCEPT !.first = "keep", !.sure = sure]
  <2>2. q \in Proposals /\ q.again = "none" /\ q.first = "keep" /\ q.rule = "none"
    BY <1>2 DEF Proposals
  <2>3. Accept(s, q, evidence) /\ nextId' \in Nat
    BY <2>1, <1>2, <1>4 DEF Kept
  <2>. HIDE DEF q
  <2>4. ModestEnough(q)
    BY <2>2 DEF ModestEnough
  <2>. QED
    BY <1>1, <1>2, <2>2, <2>3, <2>4, AcceptHolds
<1>5. CASE Rejected(s)
  <2>1. PICK no \in Rejections(p) :
     LET r == [p EXCEPT !.first = IF "contested" \in no THEN "contested" ELSE "reject"]
         moved == [r EXCEPT !.rule = "one_place", !.sure = KeptAsOnePlace,
                            !.cites = @ \cup Citing({nextId}, "plan")]
         ruled == no \cap {"delegated", "one_place"} # {}
         again == "contested" \in no /\ Cardinality(InFate("recheck")) < MaxElsewhere
     IN \/ /\ "delegated" \in no
           /\ Accept(s, [r EXCEPT !.sure = KeptForCoordination], evidence)
           /\ UNCHANGED nextId
        \/ /\ "delegated" \notin no /\ "one_place" \in no
           /\ nextId' = nextId + 1
           /\ Accept(s, moved, Shown({nextId}, "plan"))
        \/ /\ ~ruled /\ again
           /\ proposal' = [proposal EXCEPT ![s] = [r EXCEPT !.fate = "recheck"]]
           /\ UNCHANGED <<heard, nextId, evidence>>
        \/ /\ ~ruled /\ ~again /\ "placeless" \in no
           /\ Accept(s, [r EXCEPT !.sure = KeptForPlacement], evidence)
           /\ UNCHANGED nextId
        \/ /\ ~ruled /\ ~again /\ "placeless" \notin no
           /\ Aside(s, r, "model")
           /\ UNCHANGED <<heard, nextId, evidence>>
    BY <1>5 DEF Rejected
  <2>. DEFINE r == [p EXCEPT !.first = IF "contested" \in no THEN "contested" ELSE "reject"]
  <2>. DEFINE moved == [r EXCEPT !.rule = "one_place", !.sure = KeptAsOnePlace,
                                 !.cites = @ \cup Citing({nextId}, "plan")]
  <2>. DEFINE low == [r EXCEPT !.sure = "low"]
  <2>. DEFINE back == [r EXCEPT !.fate = "recheck"]
  <2>2. /\ r \in Proposals /\ r.again = "none" /\ r.rule = "none"
        /\ r.first \in {"contested", "reject"}
        /\ r.first = "contested" <=> "contested" \in no
    BY <1>2 DEF Proposals
  <2>3. CASE /\ Accept(s, low, evidence)
             /\ UNCHANGED nextId
    <3>1. low \in Proposals /\ low.again = "none" /\ low.rule = "none" /\ low.sure = "low"
      BY <2>2 DEF Proposals, Confidences
    <3>2. ModestEnough(low)
      BY <3>1 DEF ModestEnough
    <3>. HIDE DEF low
    <3>. QED
      BY <1>1, <1>2, <2>3, <3>1, <3>2, AcceptHolds
  <2>4. CASE /\ nextId' = nextId + 1
             /\ Accept(s, moved, Shown({nextId}, "plan"))
    <3>1. r.cites \cup Citing({nextId}, "plan") \in SUBSET (Nat \X Kinds)
      BY <1>2, <2>2 DEF Proposals, Citing, Kinds
    <3>2. moved \in Proposals /\ moved.again = "none" /\ moved.rule = "one_place"
          /\ moved.sure = "medium"
      BY <2>2, <3>1 DEF Proposals, Confidences, KeptAsOnePlace
    <3>3. ModestEnough(moved)
      BY <3>2 DEF ModestEnough
    <3>4. nextId' \in Nat
      BY <1>2, <2>4
    <3>. HIDE DEF moved
    <3>. QED
      BY <1>1, <1>2, <2>4, <3>2, <3>3, <3>4, AcceptHolds
  <2>5. CASE /\ "contested" \in no /\ Cardinality(InFate("recheck")) < MaxElsewhere
             /\ proposal' = [proposal EXCEPT ![s] = back]
             /\ UNCHANGED <<heard, nextId, evidence>>
    <3>1. back \in Proposals /\ back.fate = "recheck" /\ back.first = "contested"
          /\ back.again = "none" /\ back.rule = "none"
      BY <2>2, <2>5 DEF Proposals, Fates
    <3>. HIDE DEF back
    <3>. QED
      BY <1>1, <2>5, <3>1, PutBackHolds
  <2>6. CASE /\ ~("contested" \in no /\ Cardinality(InFate("recheck")) < MaxElsewhere)
             /\ Aside(s, r, "model")
             /\ UNCHANGED <<heard, nextId, evidence>>
    <3>. HIDE DEF r
    <3>. QED
      BY <1>1, <2>2, <2>6, AsideHolds
  <2>. QED
    BY <2>1, <2>3, <2>4, <2>5, <2>6 DEF KeptForCoordination, KeptForPlacement
<1>. QED
  BY <1>3, <1>4, <1>5 DEF Judge

LEMMA RejudgeHolds == ASSUME IInv, NEW s \in Slots, Rejudge(s) PROVE IInv'
<1>. DEFINE p == proposal[s]
<1>1. /\ stage = "rejudging" /\ IsNext(s, "again")
      /\ stage' = IF InFate("again") = {s} THEN "save" ELSE "rejudging"
      /\ UNCHANGED <<outcome, stopped, unread, nextId>>
  BY DEF Rejudge
<1>2. /\ p \in Proposals /\ p.fate = "again" /\ p.first = "contested"
      /\ p.again = "none" /\ p.rule = "none" /\ nextId \in Nat
  BY <1>1 DEF IInv, Records, Right, IsNext, InFate
<1>3. ASSUME NEW word \in {"keep", "placeless", "contested", "silent"},
             NEW sure \in {"low", "medium"}, sure = "medium" => word = "keep",
             Accept(s, [p EXCEPT !.again = word, !.sure = sure], evidence)
      PROVE  IInv'
  <2>. DEFINE q == [p EXCEPT !.again = word, !.sure = sure]
  <2>1. q \in Proposals /\ q.again = word /\ q.sure = sure /\ q.rule = "none"
    BY <1>2 DEF Proposals, Confidences
  <2>2. Accept(s, q, evidence)
    BY <1>3
  <2>. HIDE DEF q
  <2>3. ModestEnough(q)
    BY <1>3, <2>1 DEF ModestEnough
  <2>. QED
    BY <1>1, <1>2, <2>1, <2>2, <2>3, AcceptHolds
<1>4. CASE Aside(s, [p EXCEPT !.again = "reject"], "rechecked") /\ UNCHANGED <<heard, evidence>>
  <2>. DEFINE q == [p EXCEPT !.again = "reject"]
  <2>1. q \in Proposals /\ q.again = "reject"
    BY <1>2 DEF Proposals
  <2>2. Aside(s, q, "rechecked")
    BY <1>4
  <2>. HIDE DEF q
  <2>. QED
    BY <1>1, <1>4, <2>1, <2>2, AsideHolds
<1>5. \A sure \in Confidences : /\ Modest(sure) \in {"low", "medium"}
  BY DEF Modest, Confidences
<1>. QED
  BY <1>3, <1>4, <1>5 DEF Rejudge, KeptForPlacement, Overruled

-----------------------------------------------------------------------------
(* Saving, and every step.                                                 *)

LEMMA SaveHolds == IInv /\ Save => IInv'
<1>. SUFFICES ASSUME IInv, Save PROVE IInv'
  OBVIOUS
<1>1. /\ stage = "save" /\ stage' = IF unread \/ stopped THEN "partial" ELSE "ready"
      /\ proposal' = [s \in Slots |-> Filed(proposal[s])]
      /\ UNCHANGED <<unread, stopped, heard, nextId>>
  BY DEF Save
<1>2. \A s \in Slots :
        /\ proposal'[s] \in Proposals
        /\ proposal'[s] = [proposal[s] EXCEPT !.sure = proposal'[s].sure]
        /\ proposal'[s].sure \in {proposal[s].sure, Modest(proposal[s].sure)}
        /\ proposal'[s].fate = "kept" /\ proposal'[s].about \in Library =>
             proposal'[s].sure # "high"
  <2>. SUFFICES ASSUME NEW s \in Slots
                PROVE  /\ Filed(proposal[s]) \in Proposals
                       /\ Filed(proposal[s]) =
                            [proposal[s] EXCEPT !.sure = Filed(proposal[s]).sure]
                       /\ Filed(proposal[s]).sure \in {proposal[s].sure, Modest(proposal[s].sure)}
                       /\ Filed(proposal[s]).fate = "kept" /\ Filed(proposal[s]).about \in Library =>
                            Filed(proposal[s]).sure # "high"
    BY <1>1
  <2>1. proposal[s] \in Proposals
    BY DEF IInv, Records
  <2>. QED
    BY <2>1 DEF Filed, Modest, Proposals, Confidences
<1>3. \A s \in Slots :
        /\ proposal'[s].fate = proposal[s].fate /\ proposal'[s].again = proposal[s].again
        /\ proposal'[s].first = proposal[s].first /\ proposal'[s].rule = proposal[s].rule
        /\ proposal'[s].about = proposal[s].about
  <2>. TAKE s \in Slots
  <2>1. proposal[s] \in Proposals
    BY DEF IInv, Records
  <2>2. \A x : LET r == [proposal[s] EXCEPT !.sure = x]
               IN /\ r.fate = proposal[s].fate /\ r.again = proposal[s].again
                  /\ r.first = proposal[s].first /\ r.rule = proposal[s].rule
                  /\ r.about = proposal[s].about
    BY ONLY <2>1 DEF Proposals
  <2>3. PICK x : proposal'[s] = [proposal[s] EXCEPT !.sure = x] \/ proposal'[s] = proposal[s]
    BY <1>2
  <2>. QED
    BY ONLY <2>2, <2>3
<1>4. Records'
  <2>1. \A s \in Slots : Right(proposal'[s])
    <3>. TAKE s \in Slots
    <3>1. Right(proposal[s]) /\ proposal[s].sure \in Confidences
      BY DEF IInv, Records, Proposals
    <3>2. proposal'[s].sure = proposal[s].sure
            \/ (proposal[s].sure = "high" /\ proposal'[s].sure = "medium")
      BY <1>2, <3>1 DEF Modest, Confidences
    <3>. QED
      BY <1>3, <3>1, <3>2 DEF Right, ModestEnough
  <2>2. proposal' \in [Slots -> Proposals] /\ stage' \in Stages
    BY <1>1, <1>2 DEF Stages
  <2>. QED
    BY <1>1, <2>1, <2>2 DEF IInv, Records
<1>5. \A s \in Slots : proposal[s].fate \in Fates /\ (~stopped => proposal[s].fate \in {"none", "kept", "aside"})
  BY <1>1 DEF IInv, ByStage, FatesAt, Records, Proposals
<1>6. ByStage'
  BY <1>1, <1>3, <1>5 DEF ByStage, FatesAt, Unasked
<1>7. GapsKnown'
  BY <1>1, <1>3 DEF IInv, GapsKnown
<1>8. Quota'
  <2>1. Again' = Again
    BY <1>3 DEF Again
  <2>. QED
    BY <1>1, <1>3, <2>1 DEF IInv, Quota
<1>9. Endings'
  <2>1. PICK exact \in SUBSET Questions, uncovered \in SUBSET Measured :
          outcome' = [q \in Questions |-> CheckResult(q, exact, heard.gaps \cup uncovered)]
    BY DEF Save
  <2>2. ASSUME NEW q \in Questions, outcome'[q] = "complete_no_issue"
        PROVE  /\ stage' = "ready" /\ q \in heard'.seen \ heard'.gaps
               /\ \A s \in Slots : proposal'[s].about = q => proposal'[s].fate # "kept"
    <3>1. CheckResult(q, exact, heard.gaps \cup uncovered) = "complete_no_issue"
      BY <2>1, <2>2
    <3>2. /\ q \notin exact \cup {proposal[s].about : s \in InFate("kept")}
          /\ ~stopped /\ q \notin heard.apart \ heard.seen
          /\ ~(q \in heard.gaps \cup uncovered \/ (q \in heard.seen /\ unread)
                 \/ q \notin heard.seen)
      BY <3>1 DEF CheckResult
    <3>. QED
      BY <1>1, <1>3, <3>2 DEF InFate
  <2>. QED
    BY <1>1, <1>2, <2>2 DEF Endings
<1>10. CapsFull'
  BY <1>1, <1>3 DEF IInv, CapsFull, Proposed
<1>. QED
  BY <1>4, <1>6, <1>7, <1>8, <1>9, <1>10 DEF IInv

LEMMA StutterHolds == IInv /\ UNCHANGED vars => IInv'
<1>. SUFFICES ASSUME IInv, UNCHANGED vars PROVE IInv'
  OBVIOUS
<1>1. Records' /\ GapsKnown' /\ CapsFull' /\ Endings'
  BY DEF vars, IInv, Records, GapsKnown, CapsFull, Proposed, Endings
<1>2. ByStage'
  BY DEF vars, IInv, ByStage, FatesAt
<1>3. Quota'
  <2>1. Again' = Again
    BY DEF vars, Again
  <2>. QED
    BY <2>1 DEF vars, IInv, Quota, InFate
<1>. QED
  BY <1>1, <1>2, <1>3 DEF IInv

LEMMA NextHolds == IInv /\ [Next]_vars => IInv'
<1>. SUFFICES ASSUME IInv, [Next]_vars PROVE IInv'
  OBVIOUS
<1>1. CASE Stop \/ CallFails \/ Unusable
  BY <1>1, AskingHolds
<1>2. CASE Pack \/ Discover \/ CompleteInventory \/ CompleteGridSpans \/ NothingObserved
  BY <1>2, ObservingHolds
<1>3. CASE Reason
  BY <1>3, ReasonHolds
<1>4. CASE Settled \/ Verify \/ Judged \/ Recheck
  BY <1>4, MovingOnHolds
<1>5. CASE Save
  BY <1>5, SaveHolds
<1>6. CASE Over \/ UNCHANGED vars
  BY <1>6, StutterHolds DEF Over
<1>7. ASSUME NEW s \in Slots, Settle(s) \/ Judge(s) \/ LookElsewhere(s) \/ Rejudge(s)
      PROVE  IInv'
  BY <1>7, SettleHolds, JudgeHolds, LookElsewhereHolds, RejudgeHolds
<1>. QED
  BY <1>1, <1>2, <1>3, <1>4, <1>5, <1>6, <1>7 DEF Next

LEMMA Invariant == Spec => []IInv
  BY InitHolds, NextHolds, PTL DEF Spec

-----------------------------------------------------------------------------
(* The theorems.                                                           *)

\* "No issue" is claimed only of a question that was observed and read in whole,
\* with every proposal taken up settled and the others left out by a full cap; and
\* a run is ready only with every proposal taken up on file or set aside.
THEOREM NoIssueClaims == Spec => []NoIssueIsEarned
<1>1. IInv => NoIssueIsEarned
  <2>. SUFFICES ASSUME IInv PROVE NoIssueIsEarned
    OBVIOUS
  <2>1. stage = "ready" => \A s \in Slots : proposal[s].fate \in {"none", "kept", "aside"}
    BY DEF IInv, ByStage, FatesAt
  <2>2. ASSUME NEW q \in Questions, outcome[q] = "complete_no_issue",
               NEW s \in Proposed, proposal[s].about = q
        PROVE  proposal[s].fate = "aside" /\ proposal[s].rule # "unresolved"
    <3>1. stage = "ready" /\ q \notin heard.gaps /\ proposal[s].fate # "kept"
      BY <2>2 DEF IInv, Endings, Proposed
    <3>2. proposal[s].fate = "aside"
      BY <2>1, <2>2, <3>1 DEF Proposed
    <3>. QED
      BY <2>2, <3>1, <3>2 DEF IInv, GapsKnown, Proposed
  <2>3. ASSUME NEW q \in Questions
        PROVE  /\ q \in heard.past => Proposed = Slots
               /\ q \in heard.cut => Slots \cap 1..MaxUnclaimed \subseteq Proposed
    BY DEF IInv, CapsFull
  <2>. QED
    BY <2>1, <2>2, <2>3 DEF NoIssueIsEarned, Proposed, IInv, Endings
<1>. QED
  BY <1>1, Invariant, PTL

\* "Another drawing gives this" sets a proposal aside only once it was shown, or
\* the quota of questions asked again was used by earlier proposals.
THEOREM ElsewhereShown == Spec => []ElsewhereIsShown
<1>1. IInv => ElsewhereIsShown
  <2>. SUFFICES ASSUME IInv, NEW s \in InFate("aside"),
                       proposal[s].first = "contested",
                       proposal[s].rule \in {"model", "rechecked"},
                       proposal[s].again # "reject"
                PROVE  Cardinality({t \in 1..(s - 1) : \/ proposal[t].again # "none"
                                                       \/ proposal[t].fate \in {"recheck", "again"}})
                         = MaxElsewhere
    BY DEF ElsewhereIsShown
  <2>1. s \in Slots /\ proposal[s].fate = "aside"
    BY DEF InFate
  <2>2. proposal[s].rule = "model"
    BY <2>1 DEF IInv, Records, Right
  <2>3. Again \subseteq 1..(s - 1) /\ Cardinality(Again) = MaxElsewhere
    BY <2>1, <2>2 DEF IInv, Quota
  <2>4. Again = {t \in 1..(s - 1) : \/ proposal[t].again # "none"
                                    \/ proposal[t].fate \in {"recheck", "again"}}
    BY <2>1, <2>3 DEF Again, Slots
  <2>. QED
    BY <2>3, <2>4
<1>. QED
  BY <1>1, Invariant, PTL

\* What verification rejected is filed at low confidence, or at medium on being
\* kept when asked again or shown to be one place; library questions never higher.
THEOREM PushedBackModest == Spec => []PushedBackIsModest
<1>1. IInv => PushedBackIsModest
  BY DEF IInv, PushedBackIsModest, Records, Right, ModestEnough, Endings, InFate
<1>. QED
  BY <1>1, Invariant, PTL

-----------------------------------------------------------------------------
(* Types: what is left of the calls, of the tries and of the evidence.     *)

Pageful == Seq(1..MaxTokens) \ {<<>>}

\* What InitHolds and NextHolds leave open of the types: discovery is the stage
\* only while there is a call to make.
Supplied ==
  /\ supply \in Seq(Seq(1..MaxTokens))
  /\ stage = "evidence" => supply \in Seq(Pageful)
Remaining ==
  /\ left \in 0..MaxBatches
  /\ stage = "discovery" => left > 0
Trying == ask \in [attempt : {1, 2}, tries : 0..(MaxTries - 1)]
Flags == ceiling \in BOOLEAN /\ unread \in BOOLEAN /\ stopped \in BOOLEAN
Registry == evidence \in [Ids -> Kinds] /\ outcome \in [Questions -> Outcomes]
Course == Supplied /\ Remaining /\ Trying /\ Flags /\ Registry

\* A call begins with its first attempt and all its tries.
LEMMA FreshTry == Fresh \in [attempt : {1, 2}, tries : 0..(MaxTries - 1)]
<1>1. MaxTries \in Nat \ {0}
  OBVIOUS
<1> QED BY <1>1 DEF Fresh

\* The run begins so, ...
LEMMA InitCourse == Init => Course
<1> SUFFICES ASSUME Init PROVE Course
  OBVIOUS
<1>1. PICK n \in 0..MaxPages : supply \in [1..n -> Pages]
  BY DEF Init
<1>2. \A page \in Pages : page \in Pageful
  <2> SUFFICES ASSUME NEW m \in 1..MaxItems, NEW page \in [1..m -> 1..MaxTokens]
               PROVE  page \in Pageful
    BY DEF Pages
  <2>1. m \in Nat /\ m > 0
    OBVIOUS
  <2>2. page \in Seq(1..MaxTokens)
    BY <2>1, SeqDef
  <2>3. 1 \in DOMAIN page /\ DOMAIN page = 1..Len(page)
    BY <2>1, <2>2, LenProperties
  <2>4. page # <<>>
    BY <2>2, <2>3, EmptySeq
  <2> QED BY <2>2, <2>4 DEF Pageful
<1>3. supply \in [1..n -> Pageful]
  BY <1>1, <1>2
<1>4. supply \in Seq(Pageful) /\ Len(supply) = n
  BY <1>3
<1>5. supply \in Seq(Seq(1..MaxTokens))
  BY <1>4, SeqMonotonic DEF Pageful
<1>6. Supplied
  BY <1>4, <1>5 DEF Supplied
<1>7. Remaining /\ Trying /\ Flags
  <2>1. MaxBatches \in Nat /\ left = 0 /\ stage = "evidence"
    BY DEF Init
  <2>2. Remaining
    BY <2>1 DEF Remaining
  <2>3. Trying /\ Flags
    BY FreshTry DEF Init, Trying, Flags
  <2> QED BY <2>2, <2>3
<1>8. Registry
  BY DEF Init, Registry, Kinds, Outcomes
<1> QED BY <1>6, <1>7, <1>8 DEF Course

\* ... packing makes MaxBatches calls at most, ...
LEMMA PackCourse ==
  ASSUME Course, Pack
  PROVE  Course'
<1>1. supply \in Seq(Seq(Nat))
  <2>1. Seq(1..MaxTokens) \subseteq Seq(Nat)
    <3>1. 1..MaxTokens \subseteq Nat
      OBVIOUS
    <3> QED BY <3>1, SeqMonotonic
  <2>2. supply \in Seq(Seq(1..MaxTokens))
    BY DEF Course, Supplied
  <2> QED BY <2>1, <2>2, SeqMonotonic
<1>2. Calls(supply) \in Seq(FitParts)
  BY <1>1, CallsPack DEF Packed
<1>3. Len(Calls(supply)) \in Nat
  BY <1>2
<1>4. Remaining'
  BY <1>3 DEF Pack, Remaining
<1>5. Supplied'
  BY DEF Pack, Supplied
<1>6. Trying' /\ Flags'
  BY DEF Pack, Course, Trying, Flags
<1>7. Registry'
  BY DEF Pack, Course, Registry
<1> QED BY <1>4, <1>5, <1>6, <1>7 DEF Course

\* ... a call takes one of what is left, or ends what is asked for, ...
LEMMA CallsCourse ==
  ASSUME Course, Stop \/ CallFails \/ Unusable \/ Discover
  PROVE  Course'
<1> USE FreshTry DEF Course, Asking, Calling, AfterFollowUp, FollowUp, Paid, GiveUp
<1>0. MaxTries \in Nat \ {0} /\ MaxBatches \in Nat
  OBVIOUS
<1>1. CASE Stop
  <2>1. Trying' /\ Flags' /\ Registry'
    BY <1>1 DEF Stop, Trying, Flags, Registry
  <2>2. Supplied' /\ Remaining'
    BY <1>1 DEF Stop, Supplied, Remaining
  <2> QED BY <2>1, <2>2
<1>2. CASE CallFails
  <2>1. Trying'
    BY <1>2 DEF CallFails, Trying
  <2>2. Supplied' /\ Remaining' /\ Flags' /\ Registry'
    BY <1>2 DEF CallFails, Supplied, Remaining, Flags, Registry
  <2> QED BY <2>1, <2>2
<1>3. CASE Unusable
  <2>1. Trying'
    BY <1>3 DEF Unusable, Trying
  <2>2. Supplied' /\ Remaining' /\ Flags' /\ Registry'
    BY <1>3 DEF Unusable, Supplied, Remaining, Flags, Registry
  <2> QED BY <2>1, <2>2
<1>4. CASE Discover
  <2>1. /\ stage = "discovery" /\ left' = left - 1
        /\ stage' = IF left = 1 THEN "inventory" ELSE "discovery"
        /\ UNCHANGED <<supply, unread, stopped, evidence, outcome>>
        /\ ask' = Fresh /\ ceiling' \in BOOLEAN
    BY <1>4 DEF Discover, Answered
  <2>2. left \in 1..MaxBatches
    BY <2>1, <1>0 DEF Remaining
  <2>3. Remaining'
    BY <2>1, <2>2, <1>0 DEF Remaining
  <2>4. Supplied' /\ Trying' /\ Flags' /\ Registry'
    BY <2>1 DEF Supplied, Trying, Flags, Registry
  <2> QED BY <2>3, <2>4
<1> QED BY <1>1, <1>2, <1>3, <1>4

\* ... the later calls and the steps between them leave it alone, ...
LEMMA MovingCourse ==
  ASSUME Course,
         \/ CompleteInventory \/ CompleteGridSpans \/ NothingObserved \/ Reason
         \/ Settled \/ Verify \/ Judged \/ Recheck \/ Over
  PROVE  Course'
<1> DEFINE Onward == /\ stage' = stage \/ stage' \notin {"evidence", "discovery"}
                     /\ UNCHANGED <<supply, left, unread, stopped, evidence, outcome>>
           Asked == \/ UNCHANGED <<ask, ceiling>>
                    \/ ask' = Fresh /\ ceiling' \in BOOLEAN
<1>1. ASSUME CompleteInventory \/ CompleteGridSpans PROVE Onward /\ Asked
  BY <1>1 DEF CompleteInventory, CompleteGridSpans, Answered, Paid
<1>2. ASSUME Reason PROVE Onward /\ Asked
  BY <1>2 DEF Reason, Answered, Paid
<1>3. ASSUME Verify \/ Recheck PROVE Onward /\ Asked
  BY <1>3 DEF Verify, Recheck, Answered, Paid
<1>4. ASSUME NothingObserved \/ Settled \/ Judged PROVE Onward /\ Asked
  BY <1>4 DEF NothingObserved, Settled, Judged, askVars
<1>5. ASSUME Over PROVE Onward /\ Asked
  BY <1>5 DEF Over, vars, askVars
<1>6. Onward /\ Asked
  BY <1>1, <1>2, <1>3, <1>4, <1>5
<1> HIDE DEF Asked
<1>7. Supplied' /\ Remaining' /\ Registry'
  BY <1>6 DEF Course, Supplied, Remaining, Registry
<1>8. Trying' /\ Flags'
  BY <1>6, FreshTry DEF Course, Trying, Flags, Asked
<1> QED BY <1>7, <1>8 DEF Course

\* ... and what is accepted is filed under a kind.
LEMMA AcceptFiles ==
  ASSUME NEW s, NEW p, NEW known \in [Ids -> Kinds], Accept(s, p, known)
  PROVE  evidence' \in [Ids -> Kinds]
<1>1. CASE evidence' = known
  BY <1>1
<1>2. CASE Keep(s, p, known)
  <2>1. PICK n : evidence' = [e \in Ids |-> IF e \in Callouts(known, n)
                                            THEN "callout" ELSE known[e]]
    BY <1>2 DEF Keep
  <2> QED BY <2>1 DEF Kinds
<1> QED BY <1>1, <1>2 DEF Accept

\* What is registered keeps its kind.
LEMMA ShownTyped ==
  ASSUME evidence \in [Ids -> Kinds], NEW ids, NEW kind \in Kinds
  PROVE  Shown(ids, kind) \in [Ids -> Kinds]
BY DEF Shown

\* Judging a proposal leaves the course of the run alone, ...
LEMMA JudgingCourse ==
  ASSUME Course, NEW s \in Slots,
         Settle(s) \/ Judge(s) \/ LookElsewhere(s) \/ Rejudge(s)
  PROVE  Course'
<1>1. evidence \in [Ids -> Kinds]
  BY DEF Course, Registry
<1>2. evidence' \in [Ids -> Kinds]
  <2>1. CASE Settle(s) \/ LookElsewhere(s)
    <3>1. PICK n : evidence' = Shown(NewIds(n), "hit")
      BY <2>1 DEF Settle, LookElsewhere, Searched
    <3> QED BY <1>1, <3>1, ShownTyped DEF Kinds
  <2>2. CASE Judge(s)
    <3>1. Shown({nextId}, "plan") \in [Ids -> Kinds]
      BY <1>1, ShownTyped DEF Kinds
    <3>2. \/ UNCHANGED evidence
          \/ \E p : Accept(s, p, evidence)
          \/ \E p : Accept(s, p, Shown({nextId}, "plan"))
      BY <2>2, Zenon DEF Judge, NoVerdict, Kept, Rejected
    <3> QED BY <1>1, <3>1, <3>2, AcceptFiles
  <2>3. CASE Rejudge(s)
    <3>1. UNCHANGED evidence \/ \E p : Accept(s, p, evidence)
      BY <2>3, Zenon DEF Rejudge
    <3> QED BY <1>1, <3>1, AcceptFiles
  <2> QED BY <2>1, <2>2, <2>3
<1>3. /\ stage' = stage \/ stage' \notin {"evidence", "discovery"}
      /\ UNCHANGED <<supply, left, ask, ceiling, unread, stopped, outcome>>
  BY DEF Settle, Judge, LookElsewhere, Rejudge, askVars
<1> QED BY <1>2, <1>3 DEF Course, Supplied, Remaining, Trying, Flags, Registry

\* ... and so does saving, which gives every question an outcome.
LEMMA SaveCourse ==
  ASSUME Course, Save
  PROVE  Course'
<1>1. outcome' \in [Questions -> Outcomes]
  <2>1. PICK exact, uncovered :
          outcome' = [q \in Questions |->
                        CheckResult(q, exact, heard.gaps \cup uncovered)]
    BY DEF Save
  <2>2. ASSUME NEW q, NEW gaps PROVE CheckResult(q, exact, gaps) \in Outcomes
    BY DEF CheckResult, Outcomes
  <2> QED BY <2>1, <2>2
<1>2. /\ stage' \notin {"evidence", "discovery"}
      /\ UNCHANGED <<supply, left, ask, ceiling, unread, stopped, evidence>>
  BY DEF Save, askVars
<1> QED BY <1>1, <1>2 DEF Course, Supplied, Remaining, Trying, Flags, Registry

\* So every step keeps it.
LEMMA NextCourse == Course /\ [Next]_vars => Course'
<1> SUFFICES ASSUME Course, [Next]_vars PROVE Course'
  OBVIOUS
<1>1. CASE UNCHANGED vars
  BY <1>1 DEF vars, askVars, Course, Supplied, Remaining, Trying, Flags, Registry
<1>2. CASE Next
  BY <1>2, PackCourse, CallsCourse, MovingCourse, JudgingCourse, SaveCourse
     DEF Next
<1> QED BY <1>1, <1>2

\* Every variable has its type throughout: in particular no more calls are made
\* than the depth allows, and none is counted below zero.
THEOREM TypesHold == Spec => []TypeOK
<1>1. IInv /\ Course => TypeOK
  <2> SUFFICES ASSUME IInv, Course PROVE TypeOK
    OBVIOUS
  <2>1. ask \in [attempt : {1, 2}, tries : 0..MaxTries]
    BY DEF Course, Trying
  <2> QED BY <2>1 DEF IInv, Records, Hearing, Course, Supplied, Remaining, Flags, Registry,
                      TypeOK
<1> QED BY <1>1, InitCourse, NextCourse, Invariant, PTL DEF Spec

\* Whatever the evidence and the limits: a call holds no more than it can take
\* unless it is one piece, no two neighbours could have been one call, and the
\* calls are the evidence, whole and in order (discovery_batches).
THEOREM CallsHold == Spec => []CallsFit
<1>1. Course => CallsFit
  <2> SUFFICES ASSUME Course, stage = "evidence",
                      NEW calls, calls = Calls(supply)
               PROVE  /\ \A i \in DOMAIN calls :
                           Tokens(calls[i]) <= Capacity \/ Len(calls[i]) = 1
                      /\ \A i \in 1..(Len(calls) - 1) :
                           Tokens(calls[i]) + Tokens(calls[i + 1]) > Capacity
                      /\ FlattenSeq(calls) = FlattenSeq(supply)
    BY DEF CallsFit
  <2>1. supply \in Seq(Seq(Nat))
    <3>1. Seq(1..MaxTokens) \subseteq Seq(Nat)
      <4>1. 1..MaxTokens \subseteq Nat
        OBVIOUS
      <4> QED BY <4>1, SeqMonotonic
    <3> QED BY <3>1, SeqMonotonic DEF Course, Supplied
  <2>2. Packed(calls) /\ FlattenSeq(calls) = FlattenSeq(supply)
    BY <2>1, CallsPack
  <2>3. calls \in Seq(FitParts) /\ DOMAIN calls = 1..Len(calls)
    BY <2>2, LenProperties DEF Packed
  <2>4. ASSUME NEW i \in DOMAIN calls
        PROVE  Tokens(calls[i]) <= Capacity \/ Len(calls[i]) = 1
    <3>1. calls[i] \in FitParts
      BY <2>3, ElementOfSeq
    <3> QED BY <3>1 DEF FitParts, Fits
  <2> QED BY <2>2, <2>4 DEF Packed
<1> QED BY <1>1, InitCourse, NextCourse, PTL DEF Spec
=============================================================================
