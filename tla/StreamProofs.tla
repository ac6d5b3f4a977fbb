---------------------------- MODULE StreamProofs ----------------------------
(***************************************************************************)
(* The two streams of bytes the program cuts up: the frames of the control *)
(* protocol (FrameStream.tla) and the output that is kept of cloudflared   *)
(* (RecentOutput.tla); and the facts about folds and sums that these and   *)
(* PartsProofs.tla rest on.                                                *)
(*                                                                         *)
(* The library's induction theorems take a predicate as a parameter; the   *)
(* proofs below need induction for sets of numbers only, which follows     *)
(* from the least element of a set.  A fold of the community modules is    *)
(* unrolled into the values it goes through, and what is true of a fold is *)
(* proved along these.                                                     *)
(***************************************************************************)
EXTENDS FrameStream, RecentOutput, Functions, WellFoundedInduction, SequenceTheorems,
        FiniteSetTheorems, TLAPS

(* Numbers and folds. *)

(* Every set of numbers has a least one. *)
LEMMA LeastElement ==
    ASSUME NEW S \in SUBSET Nat, S # {}
    PROVE  \E n \in S : \A m \in S : n <= m
<1> DEFINE R == OpToRel(<, Nat)
<1>1. \A m, n \in Nat : m < n => <<m, n>> \in R
  BY DEF OpToRel
<1>2. IsWellFoundedOn(R, Nat)
  BY NatLessThanWellFounded
<1> HIDE DEF R
<1>3. PICK n \in S : \A m \in S : ~ (<<m, n>> \in R)
  BY <1>2, WFMin
<1>4. ASSUME NEW m \in S PROVE n <= m
  <2>1. ~ (<<m, n>> \in R) /\ m \in Nat /\ n \in Nat
    BY <1>3
  <2>2. ~ (m < n)
    BY <1>1, <2>1
  <2> QED BY <2>1, <2>2
<1> QED BY <1>4

(* Induction, for a set of numbers in place of a predicate. *)
LEMMA InductionOverNat ==
    ASSUME NEW S, 0 \in S, \A n \in Nat : n \in S => n + 1 \in S
    PROVE  \A n \in Nat : n \in S
<1> SUFFICES ASSUME Nat \ S # {} PROVE FALSE
  OBVIOUS
<1>1. PICK n \in Nat \ S : \A m \in Nat \ S : n <= m
  BY LeastElement
<1>2. n # 0 /\ n - 1 \in Nat
  BY <1>1
<1>3. n - 1 \in S
  BY <1>1, <1>2
<1> QED BY <1>1, <1>2, <1>3

------------------------------------------------------------------------------
(* What FoldLeft is defined by: g folds seq from its first element on. *)
FoldsBy(g, V, F, base, seq) ==
    /\ g \in [SUBSET DOMAIN seq -> V]
    /\ \A s \in SUBSET DOMAIN seq :
          g[s] = IF s = {} THEN base ELSE F[<<g[s \ {Max(s)}], seq[Max(s)]>>]

(* The values a fold goes through. *)
Goes(t, V, F, base, seq) ==
    /\ t \in [0..Len(seq) -> V] /\ t[0] = base
    /\ \A k \in 1..Len(seq) : t[k] = F[<<t[k - 1], seq[k]>>]

(* The greatest of 1 to n and some of the numbers below it is n. *)
LEMMA MaxIsLast ==
    ASSUME NEW n \in Nat, NEW S \in SUBSET (1..n), n \in S
    PROVE  Max(S) = n
<1>1. \A y \in S : y \in Nat /\ n >= y
  OBVIOUS
<1>2. Max(S) \in S /\ \A y \in S : Max(S) >= y
  BY <1>1 DEF Max
<1>3. PICK m : m = Max(S)
  OBVIOUS
<1>4. m \in Nat /\ n >= m /\ m >= n
  BY <1>1, <1>2, <1>3
<1>5. m = n
  BY <1>4
<1> QED BY <1>3, <1>5

(* Max of the community modules finds the greatest of a finite set of numbers. *)
LEMMA MaxIsFound ==
    ASSUME NEW n \in Nat, NEW S \in SUBSET (0..n), S # {}
    PROVE  Max(S) \in S /\ \A x \in S : x <= Max(S)
<1> DEFINE Away == {n - x : x \in S}
<1>1. Away \in SUBSET Nat /\ Away # {}
  <2>1. \A x \in S : n - x \in Nat
    OBVIOUS
  <2> QED BY <2>1
<1>2. PICK d \in Away : \A e \in Away : d <= e
  BY <1>1, LeastElement
<1>3. PICK m \in S : d = n - m
  BY <1>2
<1>4. ASSUME NEW x \in S PROVE x <= m
  <2>1. n - x \in Away
    OBVIOUS
  <2> HIDE DEF Away
  <2>2. n - m <= n - x
    BY <1>2, <1>3, <2>1
  <2> QED BY <2>2
<1>5. m \in S /\ \A x \in S : m >= x
  BY <1>4
<1>6. Max(S) \in S /\ \A x \in S : Max(S) >= x
  BY <1>5 DEF Max
<1> QED BY <1>6

(* The same for indices of a sequence. *)
LEMMA MaxIsThere ==
    ASSUME NEW n \in Nat, NEW S \in SUBSET (1..n), S # {}
    PROVE  Max(S) \in S /\ \A x \in S : x <= Max(S)
<1>1. S \in SUBSET (0..n)
  OBVIOUS
<1> QED BY <1>1, MaxIsFound

(* A fold over any sequence has a value for every set of its indices. *)
LEMMA FoldExists ==
    ASSUME NEW V, NEW E, NEW F \in [V \X E -> V], NEW base \in V, NEW seq \in Seq(E)
    PROVE  \E g : FoldsBy(g, V, F, base, seq)
<1> DEFINE Fits(g, k) ==
       /\ g \in [SUBSET (1..k) -> V]
       /\ \A s \in SUBSET (1..k) :
             g[s] = IF s = {} THEN base ELSE F[<<g[s \ {Max(s)}], seq[Max(s)]>>]
<1> DEFINE Foldable == {k \in Nat : k <= Len(seq) => \E g : Fits(g, k)}
<1>1. 0 \in Foldable
  <2>1. SUBSET (1..0) = {{}}
    OBVIOUS
  <2>2. Fits([s \in SUBSET (1..0) |-> base], 0)
    BY <2>1
  <2> QED BY <2>2
<1>2. ASSUME NEW k \in Nat, k \in Foldable PROVE k + 1 \in Foldable
  <2> HIDE DEF Fits
  <2> SUFFICES ASSUME k + 1 <= Len(seq) PROVE \E g : Fits(g, k + 1)
    OBVIOUS
  <2>1. k <= Len(seq) /\ k + 1 \in 1..Len(seq)
    OBVIOUS
  <2>2. PICK h : Fits(h, k)
    BY <1>2, <2>1
  <2> USE DEF Fits
  <2>3. seq[k + 1] \in E
    BY <2>1
  <2> DEFINE g == [s \in SUBSET (1..k + 1) |->
                      IF k + 1 \in s THEN F[<<h[s \ {k + 1}], seq[k + 1]>>] ELSE h[s]]
  <2>4. \A s \in SUBSET (1..k + 1) :
           /\ s \ {k + 1} \in SUBSET (1..k)
           /\ k + 1 \notin s => s \in SUBSET (1..k)
    OBVIOUS
  <2>5. g \in [SUBSET (1..k + 1) -> V]
    <3>1. ASSUME NEW s \in SUBSET (1..k + 1) PROVE g[s] \in V
      <4>1. CASE k + 1 \in s
        <5>1. h[s \ {k + 1}] \in V
          BY <2>2, <2>4
        <5> QED BY <2>3, <4>1, <5>1
      <4>2. CASE k + 1 \notin s
        BY <2>2, <2>4, <4>2
      <4> QED BY <4>1, <4>2
    <3> QED BY <3>1
  <2>6. ASSUME NEW s \in SUBSET (1..k + 1)
        PROVE  g[s] = IF s = {} THEN base ELSE F[<<g[s \ {Max(s)}], seq[Max(s)]>>]
    <3>1. CASE k + 1 \in s
      <4>1. Max(s) = k + 1
        BY <3>1, MaxIsLast
      <4>2. s \ {k + 1} \in SUBSET (1..k + 1) /\ k + 1 \notin s \ {k + 1}
        OBVIOUS
      <4>3. g[s \ {k + 1}] = h[s \ {k + 1}]
        BY <4>2
      <4>4. g[s] = F[<<h[s \ {k + 1}], seq[k + 1]>>]
        BY <3>1
      <4> QED BY <3>1, <4>1, <4>3, <4>4
    <3>2. CASE k + 1 \notin s
      <4>1. s \in SUBSET (1..k) /\ g[s] = h[s]
        BY <2>4, <3>2
      <4>2. h[s] = IF s = {} THEN base ELSE F[<<h[s \ {Max(s)}], seq[Max(s)]>>]
        BY <2>2, <4>1
      <4>3. s \ {Max(s)} \in SUBSET (1..k + 1) /\ k + 1 \notin s \ {Max(s)}
        BY <3>2
      <4>4. g[s \ {Max(s)}] = h[s \ {Max(s)}]
        BY <4>3
      <4> QED BY <4>1, <4>2, <4>4
    <3> QED BY <3>1, <3>2
  <2> HIDE DEF g
  <2> QED BY <2>5, <2>6
<1> HIDE DEF Foldable, Fits
<1>3. Len(seq) \in Nat
  OBVIOUS
<1>4. Len(seq) \in Foldable
  BY <1>1, <1>2, <1>3, InductionOverNat
<1>5. PICK g : Fits(g, Len(seq))
  BY <1>3, <1>4 DEF Foldable
<1>6. DOMAIN seq = 1..Len(seq)
  OBVIOUS
<1> QED BY <1>5, <1>6 DEF FoldsBy, Fits

(* The greatest index of an initial segment is its last, and what is left is the segment before. *)
LEMMA Segment ==
    ASSUME NEW n \in Nat, NEW k \in 1..n
    PROVE  /\ Max(1..k) = k /\ (1..k) \ {k} = 1..(k - 1) /\ 1..k # {}
           /\ 1..k \in SUBSET (1..n) /\ 1..(k - 1) \in SUBSET (1..n)
<1>1. k \in Nat \ {0} /\ k \in 1..k
  OBVIOUS
<1>2. Max(1..k) = k
  BY <1>1, MaxIsLast
<1>3. \A x : x \in (1..k) \ {k} <=> x \in 1..(k - 1)
  BY <1>1
<1> QED BY <1>1, <1>2, <1>3

(* The values a fold goes through are those on the initial segments. *)
LEMMA FoldGoes ==
    ASSUME NEW V, NEW E, NEW F \in [V \X E -> V], NEW base \in V, NEW seq \in Seq(E)
    PROVE  \E t : Goes(t, V, F, base, seq)
<1>1. Len(seq) \in Nat /\ DOMAIN seq = 1..Len(seq)
  OBVIOUS
<1>2. PICK g : FoldsBy(g, V, F, base, seq)
  BY FoldExists
<1>3. \A k \in 0..Len(seq) : 1..k \in SUBSET DOMAIN seq
  BY <1>1
<1>4. g[1..0] = base
  <2>1. 1..0 = {}
    OBVIOUS
  <2> QED BY <1>1, <1>2, <1>3, <2>1 DEF FoldsBy
<1>5. ASSUME NEW k \in 1..Len(seq) PROVE g[1..k] = F[<<g[1..(k - 1)], seq[k]>>]
  BY <1>1, <1>2, Segment DEF FoldsBy
<1> DEFINE r == [k \in 0..Len(seq) |-> g[1..k]]
<1>6. r \in [0..Len(seq) -> V]
  BY <1>2, <1>3 DEF FoldsBy
<1>7. r[0] = base
  BY <1>1, <1>4
<1>8. ASSUME NEW k \in 1..Len(seq) PROVE r[k] = F[<<r[k - 1], seq[k]>>]
  <2>1. k \in 0..Len(seq) /\ k - 1 \in 0..Len(seq)
    BY <1>1
  <2> QED BY <1>5, <2>1
<1> HIDE DEF r
<1> QED BY <1>6, <1>7, <1>8 DEF Goes

(* F folds elements of E into values of V. *)
Folds(V, E, F, base, seq) == F \in [V \X E -> V] /\ base \in V /\ seq \in Seq(E)

(* g goes through the initial segments of seq the way the fold does. *)
Recurs(g, V, F, base, seq) ==
    /\ g[{}] = base
    /\ \A k \in 1..Len(seq) :
          g[1..(k - 1)] \in V => g[1..k] = F[<<g[1..(k - 1)], seq[k]>>]

(* A function that recurses on the initial segments as the fold does is the fold. *)
LEMMA SegmentsGo ==
    ASSUME NEW V, NEW E, NEW F, NEW base, NEW seq, NEW g, NEW t,
           Folds(V, E, F, base, seq), Recurs(g, V, F, base, seq), Goes(t, V, F, base, seq)
    PROVE  g[1..Len(seq)] = t[Len(seq)]
<1>1. Len(seq) \in Nat /\ seq \in Seq(E) /\ F \in [V \X E -> V] /\ base \in V
  BY DEF Folds
<1> DEFINE Same == {k \in Nat : k <= Len(seq) => g[1..k] = t[k]}
<1>2. 0 \in Same
  <2>1. 1..0 = {}
    OBVIOUS
  <2>2. t[0] = base
    BY DEF Goes
  <2> QED BY <2>1, <2>2 DEF Recurs
<1>3. ASSUME NEW k \in Nat, k \in Same PROVE k + 1 \in Same
  <2> SUFFICES ASSUME k + 1 <= Len(seq) PROVE g[1..(k + 1)] = t[k + 1]
    OBVIOUS
  <2>1. k + 1 \in 1..Len(seq) /\ (k + 1) - 1 = k /\ k \in 0..Len(seq)
    BY <1>1
  <2>2. g[1..k] = t[k]
    BY <1>1, <1>3, <2>1
  <2>3. t[k] \in V /\ t[k + 1] = F[<<t[k], seq[k + 1]>>]
    BY <2>1 DEF Goes
  <2>4. g[1..((k + 1) - 1)] = t[k]
    BY <2>1, <2>2
  <2> QED BY <2>1, <2>3, <2>4 DEF Recurs
<1> HIDE DEF Same
<1>4. Len(seq) \in Same
  BY <1>1, <1>2, <1>3, InductionOverNat
<1> QED BY <1>1, <1>4 DEF Same

------------------------------------------------------------------------------
(* Sums. *)

(* Total as a fold. *)
Plus == [p \in Nat \X Nat |-> p[1] + p[2]]

(* What a fold by Plus gives a set of indices of weights. *)
Weighs(g, weights) == FoldsBy(g, Nat, Plus, 0, weights)

(* The greatest index of a set is weighed last. *)
LEMMA WeightOf ==
    ASSUME NEW weights \in Seq(Nat), NEW g, Weighs(g, weights),
           NEW s \in SUBSET (1..Len(weights))
    PROVE  /\ g[s] \in Nat
           /\ s = {} => g[s] = 0
           /\ s # {} => Max(s) \in s /\ g[s] = g[s \ {Max(s)}] + weights[Max(s)]
<1>1. Len(weights) \in Nat /\ DOMAIN weights = 1..Len(weights)
  OBVIOUS
<1>2. g[s] \in Nat /\ (s = {} => g[s] = 0)
  BY <1>1 DEF Weighs, FoldsBy
<1>3. ASSUME s # {} PROVE Max(s) \in s /\ g[s] = g[s \ {Max(s)}] + weights[Max(s)]
  <2>1. Max(s) \in s
    BY <1>1, <1>3, MaxIsThere
  <2>2. s \ {Max(s)} \in SUBSET DOMAIN weights
    BY <1>1
  <2>5. PICK m, n : m = g[s \ {Max(s)}] /\ n = weights[Max(s)]
    OBVIOUS
  <2>7. s \in SUBSET DOMAIN weights
    BY <1>1
  <2>8. g[s] = IF s = {} THEN 0 ELSE Plus[<<g[s \ {Max(s)}], weights[Max(s)]>>]
    BY Zenon, <2>7 DEF Weighs, FoldsBy
  <2>9. g[s \ {Max(s)}] \in Nat
    BY <2>2 DEF Weighs, FoldsBy
  <2>10. g[s] = Plus[<<g[s \ {Max(s)}], weights[Max(s)]>>]
    BY Zenon, <1>3, <2>8
  <2>3. g[s] = Plus[<<m, n>>] /\ m \in Nat
    BY Zenon, <2>5, <2>9, <2>10
  <2>12. Max(s) \in 1..Len(weights)
    BY Zenon, <2>1
  <2>13. weights[Max(s)] \in Nat
    BY <2>12
  <2>4. n \in Nat
    BY Zenon, <2>5, <2>13
  <2>11. <<m, n>> \in Nat \X Nat /\ <<m, n>>[1] = m /\ <<m, n>>[2] = n
    BY <2>3, <2>4
  <2>6. Plus[<<m, n>>] = m + n
    BY Zenon, <2>11 DEF Plus
  <2> QED BY <2>1, <2>3, <2>5, <2>6
<1> QED BY <1>2, <1>3

(* Any index can be taken out first. *)
LEMMA AnyOrder ==
    ASSUME NEW weights \in Seq(Nat), NEW g, Weighs(g, weights)
    PROVE  \A s \in SUBSET (1..Len(weights)) : \A x \in s : g[s] = g[s \ {x}] + weights[x]
<1> DEFINE Orderless ==
       {n \in Nat : n <= Len(weights) =>
            \A s \in SUBSET (1..n) : \A x \in s : g[s] = g[s \ {x}] + weights[x]}
<1>1. Len(weights) \in Nat
  OBVIOUS
<1>2. 0 \in Orderless
  <2>1. 1..0 = {}
    OBVIOUS
  <2> QED BY <2>1
<1>3. ASSUME NEW n \in Nat, n \in Orderless PROVE n + 1 \in Orderless
  <2> HIDE DEF Orderless
  <2>0. ASSUME n + 1 <= Len(weights), NEW s \in SUBSET (1..(n + 1)), NEW x \in s
        PROVE  g[s] = g[s \ {x}] + weights[x]
    <3>1. n <= Len(weights) /\ 1..(n + 1) \in SUBSET (1..Len(weights)) /\ n + 1 \in Nat
      BY <1>1, <2>0
    <3>2. \A r \in SUBSET (1..n) : \A y \in r : g[r] = g[r \ {y}] + weights[y]
      BY <1>3, <3>1 DEF Orderless
    <3>3. s \in SUBSET (1..Len(weights)) /\ s \ {x} \in SUBSET (1..Len(weights))
      BY <3>1
    <3>4. CASE n + 1 \notin s
      <4>1. s \in SUBSET (1..n)
        BY <3>4
      <4> QED BY <3>2, <4>1
    <3>5. CASE n + 1 \in s /\ x = n + 1
      <4>1. Max(s) = n + 1
        BY <3>1, <3>5, MaxIsLast
      <4>2. s # {} /\ s \in SUBSET (1..Len(weights))
        BY <3>3, <3>5
      <4>3. g[s] = g[s \ {Max(s)}] + weights[Max(s)]
        BY <4>2, WeightOf
      <4> QED BY <3>5, <4>1, <4>3
    <3>6. CASE n + 1 \in s /\ x # n + 1
      <4>1. Max(s) = n + 1 /\ Max(s \ {x}) = n + 1
        BY <3>1, <3>6, MaxIsLast
      <4>2. PICK big, rest, both : /\ big = s \ {n + 1} /\ rest = s \ {x}
                                   /\ both = (s \ {n + 1}) \ {x}
        OBVIOUS
      <4>3. big \in SUBSET (1..n) /\ x \in big /\ big \ {x} = both
        BY <3>6, <4>2
      <4>4. g[big] = g[both] + weights[x]
        BY <3>2, <4>3
      <4>5. g[s] = g[big] + weights[n + 1]
        BY <3>3, <3>6, <4>1, <4>2, WeightOf
      <4>6. rest \ {n + 1} = both /\ n + 1 \in rest
        BY <3>6, <4>2
      <4>7. g[rest] = g[both] + weights[n + 1]
        <5>1. rest # {} /\ Max(rest) = n + 1 /\ rest \in SUBSET (1..Len(weights))
          BY <3>3, <4>1, <4>2, <4>6
        <5> QED BY <4>6, <5>1, WeightOf
      <4>8. /\ g[both] \in Nat /\ g[big] \in Nat /\ g[rest] \in Nat /\ g[s] \in Nat
            /\ weights[x] \in Nat /\ weights[n + 1] \in Nat
        <5>1. both \in SUBSET (1..Len(weights)) /\ big \in SUBSET (1..Len(weights))
              /\ rest \in SUBSET (1..Len(weights)) /\ x \in 1..Len(weights)
              /\ n + 1 \in 1..Len(weights)
          BY <3>3, <3>6, <4>2
        <5>2. weights[x] \in Nat /\ weights[n + 1] \in Nat
          BY <5>1
        <5>3. g[both] \in Nat /\ g[big] \in Nat /\ g[rest] \in Nat /\ g[s] \in Nat
          BY <3>3, <5>1, WeightOf
        <5> QED BY <5>2, <5>3
      <4>9. PICK a, b, c, e, u, v : /\ a = g[both] /\ b = g[big] /\ c = g[rest] /\ e = g[s]
                                    /\ u = weights[x] /\ v = weights[n + 1]
        OBVIOUS
      <4>10. a \in Nat /\ u \in Nat /\ v \in Nat /\ b = a + u /\ e = b + v /\ c = a + v
        BY <4>4, <4>5, <4>7, <4>8, <4>9
      <4>11. e = c + u
        BY <4>10
      <4> QED BY <4>2, <4>9, <4>11
    <3> QED BY <3>4, <3>5, <3>6
  <2>1. n + 1 <= Len(weights) =>
          \A s \in SUBSET (1..(n + 1)) : \A x \in s : g[s] = g[s \ {x}] + weights[x]
    BY Zenon, <2>0
  <2>2. n + 1 \in Nat
    OBVIOUS
  <2> QED BY Zenon, <2>1, <2>2 DEF Orderless
<1> HIDE DEF Orderless
<1>4. Len(weights) \in Orderless
  BY <1>1, <1>2, <1>3, InductionOverNat
<1>5. Len(weights) <= Len(weights)
  BY <1>1
<1> QED BY Zenon, <1>4, <1>5 DEF Orderless

(* The sum of a function's values is what its indices weigh. *)
LEMMA SumIsWeight ==
    ASSUME NEW weights \in Seq(Nat), NEW g, Weighs(g, weights),
           NEW S \in SUBSET (1..Len(weights)), NEW f, DOMAIN f = S,
           \A x \in S : f[x] = weights[x]
    PROVE  SumFunction(f) = g[S]
<1> DEFINE Rec(iter) == [s \in SUBSET S |->
                            IF s = {} THEN 0
                            ELSE LET x == CHOOSE x \in s : TRUE IN f[x] + iter[s \ {x}]]
<1>1. SumFunction(f) = (CHOOSE iter : iter = Rec(iter))[S]
  BY Zenon DEF SumFunction, SumFunctionOnSet, FoldFunctionOnSet, MapThenFoldSet
<1>2. Len(weights) \in Nat
  OBVIOUS
<1>3. ASSUME NEW s \in SUBSET S, NEW x \in s
      PROVE  g[s] = f[x] + g[s \ {x}] /\ s \ {x} \in SUBSET S
  <2>1. x \in S
    OBVIOUS
  <2>2. s \in SUBSET (1..Len(weights)) /\ s \ {x} \in SUBSET (1..Len(weights))
    OBVIOUS
  <2>3. g[s] = g[s \ {x}] + weights[x]
    BY <2>1, <2>2, AnyOrder
  <2>4. g[s \ {x}] \in Nat
    BY <2>2, WeightOf
  <2>5. weights[x] \in Nat /\ f[x] = weights[x]
    BY <2>1
  <2>6. s \ {x} \in SUBSET S
    OBVIOUS
  <2> QED BY <2>3, <2>4, <2>5, <2>6
<1> DEFINE h == [s \in SUBSET S |-> g[s]]
<1>4. h = Rec(h)
  <2>1. ASSUME NEW s \in SUBSET S
        PROVE  g[s] = IF s = {} THEN 0
                      ELSE f[CHOOSE y \in s : TRUE] + h[s \ {CHOOSE y \in s : TRUE}]
    <3>1. CASE s = {}
      <4>1. s \in SUBSET (1..Len(weights))
        OBVIOUS
      <4> QED BY <3>1, <4>1, WeightOf
    <3>2. CASE s # {}
      <4>1. PICK x : x = CHOOSE y \in s : TRUE
        OBVIOUS
      <4>4. x \in s
        BY <3>2, <4>1
      <4>2. g[s] = f[x] + g[s \ {x}] /\ s \ {x} \in SUBSET S
        BY Zenon, <1>3, <4>4
      <4>3. h[s \ {x}] = g[s \ {x}]
        BY <4>2
      <4> HIDE DEF h
      <4> QED BY <3>2, <4>1, <4>2, <4>3
    <3> QED BY <3>1, <3>2
  <2> QED BY <2>1
<1> DEFINE it == CHOOSE iter : iter = Rec(iter)
<1>13. PICK w : w = Rec(w)
  BY Zenon, <1>4
<1>5. it = Rec(it)
  <2> HIDE DEF Rec
  <2> QED BY Zenon, <1>13
<1> HIDE DEF it
<1>6. PICK r : r = it
  OBVIOUS
<1>7. ASSUME NEW s \in SUBSET S, NEW x, x = CHOOSE y \in s : TRUE
      PROVE  (s = {} => r[s] = 0) /\ (s # {} => r[s] = f[x] + r[s \ {x}])
  BY <1>5, <1>6, <1>7
<1> HIDE DEF Rec
<1> DEFINE Same == {n \in Nat : \A s \in SUBSET S : Cardinality(s) = n => r[s] = g[s]}
<1>8. IsFiniteSet(S) /\ \A s \in SUBSET S : IsFiniteSet(s) /\ Cardinality(s) \in Nat
  <2>1. IsFiniteSet(1..Len(weights))
    BY <1>2, FS_Interval
  <2>2. IsFiniteSet(S)
    BY <2>1, FS_Subset
  <2> QED BY <2>2, FS_Subset, FS_CardinalityType
<1>9. 0 \in Same
  <2> SUFFICES ASSUME NEW s \in SUBSET S, Cardinality(s) = 0 PROVE r[s] = g[s]
    OBVIOUS
  <2>1. s = {}
    BY <1>8, FS_EmptySet
  <2>2. s \in SUBSET (1..Len(weights))
    OBVIOUS
  <2> QED BY <1>7, <2>1, <2>2, WeightOf
<1>10. ASSUME NEW n \in Nat, n \in Same PROVE n + 1 \in Same
  <2>7. n + 1 \in Nat
    OBVIOUS
  <2> SUFFICES ASSUME NEW s \in SUBSET S, Cardinality(s) = n + 1 PROVE r[s] = g[s]
    BY Zenon, <2>7
  <2>1. s # {}
    <3>1. Cardinality({}) = 0
      BY FS_EmptySet
    <3>2. Cardinality(s) # 0
      OBVIOUS
    <3> QED BY Zenon, <3>1, <3>2
  <2>2. PICK x : x = CHOOSE y \in s : TRUE
    OBVIOUS
  <2>3. x \in s /\ g[s] = f[x] + g[s \ {x}] /\ s \ {x} \in SUBSET S
    BY <1>3, <2>1, <2>2
  <2>4. Cardinality(s \ {x}) = n
    <3>1. Cardinality(s \ {x}) = Cardinality(s) - 1
      BY <1>8, <2>3, FS_RemoveElement
    <3> QED BY <3>1
  <2>5. r[s \ {x}] = g[s \ {x}]
    BY <1>10, <2>3, <2>4
  <2>6. r[s] = f[x] + r[s \ {x}]
    BY <1>7, <2>1, <2>2
  <2> QED BY <2>3, <2>5, <2>6
<1> HIDE DEF Same
<1>11. Cardinality(S) \in Same
  <2>1. \A n \in Nat : n \in Same
    BY <1>9, <1>10, InductionOverNat
  <2> QED BY <1>8, <2>1
<1>12. r[S] = g[S]
  BY <1>11 DEF Same
<1> QED BY <1>1, <1>6, <1>12 DEF it

(* What SumFunction is, for a function on a set of numbers: any value can be taken out of the sum. *)
LEMMA SumSplits ==
    ASSUME NEW N \in Nat, NEW S \in SUBSET (1..N), NEW f \in [S -> Nat]
    PROVE  /\ SumFunction(f) \in Nat
           /\ S = {} => SumFunction(f) = 0
           /\ \A x \in S : SumFunction(f) = SumFunction([y \in S \ {x} |-> f[y]]) + f[x]
<1>1. PICK weights : weights = [i \in 1..N |-> IF i \in S THEN f[i] ELSE 0]
  OBVIOUS
<1>2. weights \in Seq(Nat) /\ Len(weights) = N
  <2>1. weights \in [1..N -> Nat]
    BY <1>1
  <2> QED BY <2>1
<1>3. \A x \in S : f[x] = weights[x]
  BY <1>1
<1>4. PICK g : Weighs(g, weights)
  <2>1. Plus \in [Nat \X Nat -> Nat] /\ 0 \in Nat
    BY DEF Plus
  <2> QED BY <1>2, <2>1, FoldExists DEF Weighs
<1>5. S \in SUBSET (1..Len(weights)) /\ DOMAIN f = S
  BY <1>2
<1>6. SumFunction(f) = g[S]
  BY <1>2, <1>3, <1>4, <1>5, SumIsWeight
<1>7. ASSUME NEW x \in S
      PROVE  SumFunction(f) = SumFunction([y \in S \ {x} |-> f[y]]) + f[x]
  <2>1. PICK less : less = [y \in S \ {x} |-> f[y]]
    OBVIOUS
  <2>2. PICK R : R = S \ {x}
    OBVIOUS
  <2>3. R \in SUBSET (1..Len(weights)) /\ DOMAIN less = R /\ \A y \in R : less[y] = weights[y]
    BY <1>3, <1>5, <2>1, <2>2
  <2>4. SumFunction(less) = g[R]
    BY <1>2, <1>4, <2>3, SumIsWeight
  <2>7. \A s \in SUBSET (1..Len(weights)) : \A y \in s : g[s] = g[s \ {y}] + weights[y]
    BY <1>2, <1>4, AnyOrder
  <2>5. g[S] = g[S \ {x}] + weights[x]
    BY Zenon, <1>5, <2>7
  <2>6. SumFunction(f) = g[R] + f[x]
    BY Zenon, <1>3, <1>6, <2>2, <2>5
  <2> QED BY Zenon, <2>1, <2>4, <2>6
<1>8. g[S] \in Nat /\ (S = {} => g[S] = 0)
  BY <1>2, <1>4, <1>5, WeightOf
<1> QED BY <1>6, <1>7, <1>8

------------------------------------------------------------------------------
(* FrameStream. *)

(* A byte of a frame, at its place there. *)
AnyByte == [value : Nat, frame : Nat, offset : Nat]

(* Where the byte after b belongs when frame f has a payload of length[f] bytes. *)
After(b, length) ==
    IF b.offset < HeaderBytes + length[b.frame] THEN <<b.frame, b.offset + 1>>
    ELSE <<b.frame + 1, 1>>

(* The place of a byte in the stream. *)
Place(b) == <<b.frame, b.offset>>

(* The bytes from one place of the stream to another, every one there and in order. *)
Runs(bytes, length, from, to) ==
    /\ bytes = <<>> => from = to
    /\ bytes # <<>> =>
          /\ Place(bytes[1]) = from
          /\ \A i \in 1..Len(bytes) - 1 : Place(bytes[i + 1]) = After(bytes[i], length)
          /\ After(bytes[Len(bytes)], length) = to

(* A byte that write_frame has written. *)
Good(b, length, last) ==
    /\ b.frame \in 1..last /\ b.offset \in 1..HeaderBytes + length[b.frame]
    /\ b.offset = 1 => b.value = length[b.frame] \div HeaderBase
    /\ b.offset = 2 => b.value = length[b.frame] % HeaderBase

(* Two runs that meet are one. *)
LEMMA RunsMeet ==
    ASSUME NEW length, NEW s \in Seq(AnyByte), NEW t \in Seq(AnyByte),
           NEW from, NEW via, NEW to, Runs(s, length, from, via), Runs(t, length, via, to)
    PROVE  Runs(s \o t, length, from, to)
<1>1. CASE s = <<>> \/ t = <<>>
  <2>1. s = <<>> => s \o t = t
    OBVIOUS
  <2>2. t = <<>> => s \o t = s
    OBVIOUS
  <2> QED BY <1>1, <2>1, <2>2 DEF Runs
<1>2. CASE s # <<>> /\ t # <<>>
  <2> DEFINE st == s \o t
  <2>1. Len(s) \in Nat \ {0} /\ Len(t) \in Nat \ {0}
    BY <1>2
  <2>2. st \in Seq(AnyByte) /\ Len(st) = Len(s) + Len(t)
    OBVIOUS
  <2>3. \A i \in 1..Len(s) : st[i] = s[i]
    OBVIOUS
  <2>4. \A i \in 1..Len(t) : st[Len(s) + i] = t[i]
    OBVIOUS
  <2> HIDE DEF st
  <2>5. st # <<>> /\ st[1] = s[1] /\ st[Len(st)] = t[Len(t)]
    BY <2>1, <2>2, <2>3, <2>4
  <2>6. ASSUME NEW i \in 1..Len(st) - 1 PROVE Place(st[i + 1]) = After(st[i], length)
    <3>1. CASE i < Len(s)
      <4>1. i \in 1..Len(s) - 1 /\ i \in 1..Len(s) /\ i + 1 \in 1..Len(s)
        BY <2>1, <2>2, <3>1
      <4>2. st[i] = s[i] /\ st[i + 1] = s[i + 1]
        BY <2>3, <4>1
      <4> QED BY <1>2, <4>1, <4>2 DEF Runs
    <3>2. CASE i = Len(s)
      <4>1. st[i] = s[Len(s)] /\ st[i + 1] = t[1]
        BY <2>1, <2>3, <2>4, <3>2
      <4> QED BY <1>2, <4>1 DEF Runs
    <3>3. CASE i > Len(s)
      <4>1. PICK j \in 1..Len(t) - 1 : i = Len(s) + j
        <5>1. i - Len(s) \in 1..Len(t) - 1 /\ i = Len(s) + (i - Len(s))
          BY <2>1, <2>2, <3>3
        <5> QED BY <5>1
      <4>2. st[i] = t[j] /\ st[i + 1] = t[j + 1]
        <5>1. j \in 1..Len(t) /\ j + 1 \in 1..Len(t) /\ i + 1 = Len(s) + (j + 1)
          BY <4>1, <2>1
        <5> QED BY <2>4, <4>1, <5>1
      <4> QED BY <1>2, <4>2 DEF Runs
    <3> QED BY <2>1, <3>1, <3>2, <3>3
  <2>7. Runs(st, length, from, to)
    BY <1>2, <2>5, <2>6 DEF Runs
  <2> QED BY <2>7 DEF st
<1> QED BY <1>1, <1>2

(* A run is cut into two that meet. *)
LEMMA RunsPart ==
    ASSUME NEW length, NEW s \in Seq(AnyByte), NEW t \in Seq(AnyByte), s # <<>>,
           NEW from, NEW to, Runs(s \o t, length, from, to)
    PROVE  /\ Runs(s, length, from, After(s[Len(s)], length))
           /\ Runs(t, length, After(s[Len(s)], length), to)
<1> DEFINE st == s \o t
<1>1. Len(s) \in Nat \ {0} /\ Len(t) \in Nat
  OBVIOUS
<1>2. st \in Seq(AnyByte) /\ Len(st) = Len(s) + Len(t)
  OBVIOUS
<1>3. \A i \in 1..Len(s) : st[i] = s[i]
  OBVIOUS
<1>4. \A i \in 1..Len(t) : st[Len(s) + i] = t[i]
  OBVIOUS
<1>5. Runs(st, length, from, to)
  OBVIOUS
<1> HIDE DEF st
<1>6. st # <<>>
  BY <1>1, <1>2
<1>7. Runs(s, length, from, After(s[Len(s)], length))
  BY <1>1, <1>2, <1>3, <1>5, <1>6 DEF Runs
<1>8. CASE t = <<>>
  <2>1. st[Len(st)] = s[Len(s)]
    BY <1>1, <1>2, <1>3, <1>8
  <2> QED BY <1>5, <1>6, <1>7, <1>8, <2>1 DEF Runs
<1>9. CASE t # <<>>
  <2>1. Len(t) \in Nat \ {0}
    BY <1>9
  <2>2. st[Len(s)] = s[Len(s)] /\ st[Len(s) + 1] = t[1] /\ st[Len(st)] = t[Len(t)]
    BY SMTT(60), <1>1, <1>2, <1>3, <1>4, <2>1
  <2>5. Len(s) \in 1..Len(st) - 1
    BY <1>1, <1>2, <2>1
  <2>6. Place(st[Len(s) + 1]) = After(st[Len(s)], length)
    BY Zenon, <1>5, <1>6, <2>5 DEF Runs
  <2>3. Place(t[1]) = After(s[Len(s)], length)
    BY Zenon, <2>2, <2>6
  <2>4. ASSUME NEW i \in 1..Len(t) - 1 PROVE Place(t[i + 1]) = After(t[i], length)
    <3>1. Len(s) + i \in 1..Len(st) - 1 /\ (Len(s) + i) + 1 = Len(s) + (i + 1)
      BY <1>1, <1>2, <2>1
    <3>3. i \in 1..Len(t) /\ i + 1 \in 1..Len(t)
      BY <2>1
    <3>2. st[Len(s) + i] = t[i] /\ st[Len(s) + (i + 1)] = t[i + 1]
      BY Zenon, <1>4, <3>3
    <3>4. Place(st[(Len(s) + i) + 1]) = After(st[Len(s) + i], length)
      BY Zenon, <1>5, <1>6, <3>1 DEF Runs
    <3> QED BY Zenon, <3>1, <3>2, <3>4
  <2> QED BY <1>5, <1>6, <1>7, <1>9, <2>2, <2>3, <2>4 DEF Runs
<1> QED BY <1>8, <1>9

(* In a run that begins in a frame and is no longer than its rest, every byte is of that frame. *)
LEMMA RunsInFrame ==
    ASSUME NEW length \in [Nat -> Nat], NEW s \in Seq(AnyByte), NEW f \in Nat, NEW o \in Nat,
           NEW to, Runs(s, length, <<f, o>>, to), o + Len(s) <= HeaderBytes + length[f] + 1
    PROVE  \A i \in 1..Len(s) : Place(s[i]) = <<f, o + i - 1>>
<1> DEFINE Placed == {n \in Nat : n \in 1..Len(s) => Place(s[n]) = <<f, o + n - 1>>}
<1>1. 0 \in Placed
  OBVIOUS
<1>2. ASSUME NEW n \in Nat, n \in Placed PROVE n + 1 \in Placed
  <2> SUFFICES ASSUME n + 1 \in 1..Len(s) PROVE Place(s[n + 1]) = <<f, o + (n + 1) - 1>>
    OBVIOUS
  <2>1. s # <<>> /\ Len(s) \in Nat
    OBVIOUS
  <2>2. CASE n = 0
    <3>1. Place(s[1]) = <<f, o>> /\ o + (n + 1) - 1 = o
      BY <2>1, <2>2 DEF Runs
    <3> QED BY <2>2, <3>1
  <2>3. CASE n # 0
    <3>1. n \in 1..Len(s) - 1 /\ n \in 1..Len(s)
      BY <2>1, <2>3
    <3>2. Place(s[n]) = <<f, o + n - 1>> /\ Place(s[n + 1]) = After(s[n], length)
      BY <1>2, <2>1, <3>1 DEF Runs
    <3>3. s[n].frame = f /\ s[n].offset = o + n - 1
      BY <3>2 DEF Place
    <3>5. length[f] \in Nat /\ Len(s) \in Nat /\ n + 1 <= Len(s)
      BY <2>1, <3>1
    <3>6. PICK at, rest : at = s[n].offset /\ rest = length[f]
      OBVIOUS
    <3>7. at = o + n - 1 /\ rest \in Nat /\ o + Len(s) <= 2 + rest + 1
      BY <3>3, <3>5, <3>6 DEF HeaderBytes
    <3>8. at < 2 + rest /\ at + 1 = o + (n + 1) - 1
      BY <3>5, <3>7
    <3>4. s[n].offset < HeaderBytes + length[f] /\ s[n].offset + 1 = o + (n + 1) - 1
      BY <3>6, <3>8, Zenon DEF HeaderBytes
    <3> QED BY <3>2, <3>3, <3>4 DEF After
  <2> QED BY <2>2, <2>3
<1> HIDE DEF Placed
<1>3. \A n \in Nat : n \in Placed
  BY <1>1, <1>2, InductionOverNat
<1> QED BY <1>3 DEF Placed

(* One sequence behind another. *)
Joined(s, t) == s \o t

(* The bytes that are still to be understood. *)
Ahead == Joined(Joined(reader.got, wire), unsent)

(* The bytes on their way, what was heard, and the reader. *)
FrameTypes ==
    /\ written \in Nat /\ unsent \in Seq(AnyByte) /\ wire \in Seq(AnyByte) /\ heard \in Seq(Nat)
    /\ reader \in [at : {"header", "payload", "protocol_error", "io_error"}, need : Nat,
                   got : Seq(AnyByte)]
    /\ reader.at = "header" => reader.need = HeaderBytes

(* Where the reader is: at the header of the frame after those heard, or behind it. *)
Here == <<Len(heard) + 1, IF reader.at = "header" THEN 1 ELSE HeaderBytes + 1>>

(* What is ahead runs from the reader's place to the end of the last frame written. *)
Flows(length) ==
    /\ length \in [Nat -> Nat] /\ \A f \in 1..written : length[f] \in 1..MaxPayload
    /\ \A i \in 1..Len(Ahead) : Good(Ahead[i], length, written)
    /\ Runs(Ahead, length, Here, <<written + 1, 1>>)
    /\ reader.need = IF reader.at = "header" THEN HeaderBytes ELSE length[Len(heard) + 1]
    /\ Len(reader.got) < reader.need

(* What was heard are the first frames, each once. *)
HeardInOrder == Len(heard) <= written /\ \A i \in DOMAIN heard : heard[i] = i

(* Until a write was cancelled inside a frame, every frame is heard in its turn, and while the     *)
(* reader reads, what is ahead flows on from its place.                                             *)
FrameInv ==
    /\ FrameTypes
    /\ cancelled # "in_a_frame" =>
          /\ reader.at # "protocol_error" /\ HeardInOrder
          /\ Reading => \E length : Flows(length)

(* The bytes of Encode are bytes. *)
LEMMA ByteHasType ==
    ASSUME NEW value \in Nat, NEW frame \in Nat, NEW offset \in Nat
    PROVE  [frame |-> frame, offset |-> offset, value |-> value] \in AnyByte
BY DEF AnyByte

(* The next frame begins behind the last byte of a payload. *)
LEMMA AfterLastByte ==
    ASSUME NEW b, NEW length, NEW f \in Nat, NEW n \in Nat, length[f] = n,
           b.frame = f, b.offset = HeaderBytes + n
    PROVE  After(b, length) = <<f + 1, 1>>
<1>1. ~ (HeaderBytes + n < HeaderBytes + n)
  BY DEF HeaderBytes
<1> QED BY <1>1 DEF After

(* A sequence of bytes and its two parts. *)
LEMMA Parting ==
    ASSUME NEW b \in Seq(AnyByte), NEW n \in 1..Len(b)
    PROVE  \E s, t \in Seq(AnyByte) :
              /\ s = SubSeq(b, 1, n) /\ t = SubSeq(b, n + 1, Len(b))
              /\ b = Joined(s, t) /\ s # <<>> /\ Len(s) = n
<1> DEFINE s == SubSeq(b, 1, n)  t == SubSeq(b, n + 1, Len(b))
<1>1. s \in Seq(AnyByte) /\ t \in Seq(AnyByte) /\ b = s \o t /\ s # <<>> /\ Len(s) = n
  OBVIOUS
<1> QED BY <1>1 DEF Joined

(* Bytes that move from one part to the next stay in order. *)
LEMMA PartsAssociate ==
    ASSUME NEW a \in Seq(AnyByte), NEW s \in Seq(AnyByte), NEW t \in Seq(AnyByte), NEW c \in Seq(AnyByte)
    PROVE  /\ Joined(a, s) \in Seq(AnyByte)
           /\ Joined(Joined(a, Joined(s, t)), c) = Joined(Joined(a, s), Joined(t, c))
           /\ Joined(Joined(a, Joined(s, t)), c) = Joined(Joined(Joined(a, s), t), c)
<1>1. a \o s \in Seq(AnyByte) /\ t \o c \in Seq(AnyByte)
  OBVIOUS
<1>2. (a \o s) \o t = a \o (s \o t)
  OBVIOUS
<1>3. ((a \o s) \o t) \o c = (a \o s) \o (t \o c)
  BY <1>1
<1> QED BY <1>1, <1>2, <1>3 DEF Joined

(* What ends with something is not empty. *)
LEMMA NonemptyParts ==
    ASSUME NEW a \in Seq(AnyByte), NEW s \in Seq(AnyByte), s # <<>>
    PROVE  Joined(a, s) # <<>> /\ Len(Joined(a, s)) \in Nat \ {0} /\ Len(Joined(a, s)) = Len(a) + Len(s)
<1>1. Len(s) \in Nat \ {0} /\ Len(a) \in Nat
  OBVIOUS
<1>2. Len(a \o s) = Len(a) + Len(s)
  OBVIOUS
<1>3. a \o s # <<>>
  BY <1>1, <1>2
<1> QED BY <1>1, <1>2, <1>3 DEF Joined

(* A run whose frames keep their lengths stays one. *)
LEMMA RunsStay ==
    ASSUME NEW length, NEW longer, NEW s \in Seq(AnyByte), NEW from, NEW to,
           Runs(s, length, from, to),
           \A i \in 1..Len(s) : longer[s[i].frame] = length[s[i].frame]
    PROVE  Runs(s, longer, from, to)
<1>1. \A i \in 1..Len(s) : After(s[i], longer) = After(s[i], length)
  BY DEF After
<1>2. Len(s) \in Nat /\ (s # <<>> => Len(s) \in 1..Len(s))
  OBVIOUS
<1> QED BY <1>1, <1>2 DEF Runs

(* A frame runs from its first byte to the next frame's. *)
LEMMA EncodeRuns ==
    ASSUME NEW f \in Nat, NEW n \in Nat \ {0}, NEW length \in [Nat -> Nat], length[f] = n,
           NEW last, f \in 1..last
    PROVE  /\ Encode(f, n) \in Seq(AnyByte)
           /\ Runs(Encode(f, n), length, <<f, 1>>, <<f + 1, 1>>)
           /\ \A i \in 1..Len(Encode(f, n)) : Good(Encode(f, n)[i], length, last)
<1> DEFINE e == Encode(f, n)
<1>1. n \div HeaderBase \in Nat /\ n % HeaderBase \in Nat /\ HeaderBase - 1 \in Nat
  BY FrameAssumption
<1> DEFINE v == [i \in 1..HeaderBytes + n |->
                  CASE i = 1 -> n \div HeaderBase [] i = 2 -> n % HeaderBase
                    [] OTHER -> HeaderBase - 1]
<1>2. \A i \in 1..HeaderBytes + n : v[i] \in Nat
  BY <1>1
<1>3. e = [i \in 1..HeaderBytes + n |-> [frame |-> f, offset |-> i, value |-> v[i]]]
  BY DEF Encode
<1>5. (1 \in 1..HeaderBytes + n => v[1] = n \div HeaderBase) /\ (2 \in 1..HeaderBytes + n => v[2] = n % HeaderBase)
  OBVIOUS
<1> HIDE DEF v
<1>4. /\ \A i \in 1..HeaderBytes + n : e[i].frame = f /\ e[i].offset = i /\ e[i].value = v[i]
      /\ e \in [1..HeaderBytes + n -> AnyByte]
  <2> HIDE DEF e
  <2>1. \A i \in 1..HeaderBytes + n : e[i] = [frame |-> f, offset |-> i, value |-> v[i]]
    BY <1>3
  <2>2. ASSUME NEW i \in 1..HeaderBytes + n PROVE e[i] \in AnyByte
    <3>1. i \in Nat /\ v[i] \in Nat
      BY <1>2 DEF HeaderBytes
    <3>2. [frame |-> f, offset |-> i, value |-> v[i]] \in AnyByte
      BY <3>1, ByteHasType
    <3> QED BY <2>1, <3>2
  <2> QED BY <1>3, <2>1, <2>2
<1> HIDE DEF e
<1>6. e \in Seq(AnyByte) /\ Len(e) = HeaderBytes + n
  BY <1>4 DEF HeaderBytes
<1>7. Runs(e, length, <<f, 1>>, <<f + 1, 1>>)
  <2>1. e # <<>> /\ Len(e) \in 1..HeaderBytes + n /\ 1 \in 1..HeaderBytes + n
    BY <1>6 DEF HeaderBytes
  <2>2. Place(e[1]) = <<f, 1>>
    BY <1>4, <2>1 DEF Place
  <2>3. After(e[Len(e)], length) = <<f + 1, 1>>
    <3>1. e[Len(e)].frame = f /\ e[Len(e)].offset = HeaderBytes + n
      BY <1>4, <1>6, <2>1
    <3>2. PICK b : b = e[Len(e)]
      OBVIOUS
    <3>3. n \in Nat /\ b.frame = f /\ b.offset = HeaderBytes + n
      BY <3>1, <3>2
    <3>4. After(b, length) = <<f + 1, 1>>
      BY <3>3, AfterLastByte
    <3> QED BY <3>2, <3>4
  <2>4. ASSUME NEW i \in 1..Len(e) - 1 PROVE Place(e[i + 1]) = After(e[i], length)
    <3>1. i \in 1..HeaderBytes + n /\ i + 1 \in 1..HeaderBytes + n /\ i < HeaderBytes + n
      BY <1>6 DEF HeaderBytes
    <3> QED BY <1>4, <3>1 DEF Place, After
  <2> QED BY <2>1, <2>2, <2>3, <2>4 DEF Runs
<1>8. ASSUME NEW i \in 1..Len(e) PROVE Good(e[i], length, last)
  <2>1. i \in 1..HeaderBytes + n
    BY <1>6
  <2>2. e[i].frame = f /\ e[i].offset = i /\ e[i].value = v[i]
    BY <1>4, <2>1
  <2>3. (i = 1 => v[i] = n \div HeaderBase) /\ (i = 2 => v[i] = n % HeaderBase)
    BY <1>5, <2>1
  <2> QED BY <2>1, <2>2, <2>3 DEF Good
<1> QED BY <1>6, <1>7, <1>8 DEF e

(* In the beginning nothing is ahead. *)
LEMMA FrameInit == ASSUME StreamInit PROVE FrameInv
<1> USE DEF StreamInit
<1>1. FrameTypes
  BY DEF FrameTypes, FreshRead, HeaderBytes
<1>2. reader.at # "protocol_error" /\ HeardInOrder
  BY DEF FreshRead, HeardInOrder
<1>3. Flows([f \in Nat |-> 0])
  <2>1. Ahead = <<>>
    BY DEF Ahead, Joined, FreshRead
  <2>2. Here = <<1, 1>> /\ written + 1 = 1
    BY DEF Here, FreshRead
  <2> QED BY <2>1, <2>2 DEF Flows, Runs, FreshRead, HeaderBytes
<1> QED BY <1>1, <1>2, <1>3 DEF FrameInv

(* A step that writes no byte and reads none. *)
LEMMA FrameStill ==
    ASSUME FrameInv, UNCHANGED <<written, unsent, wire, reader, heard, cancelled>>
    PROVE  FrameInv'
BY DEF FrameInv, FrameTypes, HeardInOrder, Reading, Flows, Ahead, Here, Good, Runs, Place, After

(* What is ahead is a sequence of bytes. *)
LEMMA AheadIsBytes ==
    ASSUME FrameTypes
    PROVE  /\ reader.got \in Seq(AnyByte) /\ wire \in Seq(AnyByte) /\ unsent \in Seq(AnyByte)
           /\ Ahead \in Seq(AnyByte)
<1>1. reader.got \in Seq(AnyByte) /\ wire \in Seq(AnyByte) /\ unsent \in Seq(AnyByte)
  BY DEF FrameTypes
<1>2. \A x, y, z \in Seq(AnyByte) : (x \o y) \o z \in Seq(AnyByte)
  OBVIOUS
<1>3. \A x, y, z \in Seq(AnyByte) : Joined(Joined(x, y), z) \in Seq(AnyByte)
  BY <1>2 DEF Joined
<1> QED BY <1>1, <1>3 DEF Ahead

(* A reader in a payload is in the payload of a frame that was written. *)
LEMMA PayloadIsOfAFrame ==
    ASSUME FrameTypes, NEW length, Flows(length), reader.at = "payload"
    PROVE  Len(heard) + 1 \in 1..written
<1>1. Ahead \in Seq(AnyByte)
  BY AheadIsBytes
<1>2. Ahead # <<>>
  BY DEF Flows, Runs, Here, HeaderBytes
<1>3. Place(Ahead[1]) = Here
  BY <1>2 DEF Flows, Runs
<1>4. 1 \in 1..Len(Ahead)
  BY <1>1, <1>2
<1>5. Ahead[1].frame \in 1..written
  BY <1>4 DEF Flows, Good
<1> QED BY <1>3, <1>5 DEF Place, Here

(* write_frame: a frame goes behind everything that is ahead, and only if its payload is not too   *)
(* long.                                                                                           *)
LEMMA FrameWritten ==
    ASSUME FrameInv, WriteFrame
    PROVE  FrameInv'
<1>1. PICK n \in PayloadLengths :
         IF ValidLength(n)
         THEN /\ written' = written + 1 /\ unsent' = Encode(written + 1, n)
              /\ UNCHANGED writerEnd
         ELSE writerEnd' = "refused" /\ UNCHANGED <<written, unsent>>
  BY DEF WriteFrame
<1>2. UNCHANGED <<wire, reader, heard, cancelled>> /\ unsent = <<>>
  BY DEF WriteFrame
<1>3. CASE ~ ValidLength(n)
  BY <1>1, <1>2, <1>3, FrameStill
<1>4. CASE ValidLength(n)
  <2>0. written \in Nat
    BY DEF FrameInv, FrameTypes
  <2> PICK f \in Nat : f = written + 1
    BY <2>0
  <2>1. n \in Nat \ {0} /\ n <= MaxPayload /\ MaxPayload \in Nat
    BY <1>4, FrameAssumption DEF ValidLength
  <2> PICK more : more = Encode(f, n)
    OBVIOUS
  <2>2. written' = f /\ unsent' = more /\ written = f - 1 /\ f \in 1..f
    BY <1>1, <1>4, <2>0
  <2>3. more \in Seq(AnyByte)
    <3>1. [m \in Nat |-> n] \in [Nat -> Nat] /\ [m \in Nat |-> n][f] = n
      BY <2>1
    <3> QED BY <2>1, <2>2, <3>1, EncodeRuns
  <2>4. FrameTypes'
    BY <1>2, <2>2, <2>3 DEF FrameInv, FrameTypes
  <2>5. ASSUME cancelled' # "in_a_frame", Reading' PROVE \E length : Flows(length)'
    <3>1. PICK length : Flows(length)
      BY <1>2, <2>5 DEF FrameInv, Reading
    <3> DEFINE longer == [length EXCEPT ![f] = n]
    <3>2. length \in [Nat -> Nat] /\ \A m \in 1..written : length[m] \in 1..MaxPayload
      BY <3>1 DEF Flows
    <3>3. /\ longer \in [Nat -> Nat] /\ longer[f] = n
          /\ \A m \in Nat : m # f => longer[m] = length[m]
      BY <2>1, <2>2, <3>2
    <3> HIDE DEF longer
    <3>4. \A m \in 1..f : longer[m] \in 1..MaxPayload
      <4> SUFFICES ASSUME NEW m \in 1..f PROVE longer[m] \in 1..MaxPayload
        OBVIOUS
      <4>1. m = f \/ (m \in 1..written /\ m # f)
        BY <2>2
      <4> QED BY <2>1, <3>2, <3>3, <4>1
    <3>5. Ahead \in Seq(AnyByte) /\ Ahead' = Ahead \o more
      <4>1. reader.got \in Seq(AnyByte) /\ wire \in Seq(AnyByte)
        BY DEF FrameInv, FrameTypes
      <4>2. Ahead = reader.got \o wire /\ Ahead \in Seq(AnyByte)
        BY <1>2, <4>1 DEF Ahead, Joined
      <4> QED BY <1>2, <2>2, <4>2 DEF Ahead, Joined
    <3>6. /\ Runs(more, longer, <<f, 1>>, <<f + 1, 1>>)
          /\ \A i \in 1..Len(more) : Good(more[i], longer, f)
      BY <2>1, <2>2, <3>3, EncodeRuns
    <3>8. ASSUME NEW i \in 1..Len(Ahead)
          PROVE  longer[Ahead[i].frame] = length[Ahead[i].frame] /\ Good(Ahead[i], longer, f)
      <4>1. Good(Ahead[i], length, written)
        BY <3>1 DEF Flows
      <4>2. Ahead[i].frame \in 1..written
        BY <4>1 DEF Good
      <4>3. Ahead[i].frame # f /\ Ahead[i].frame \in Nat /\ Ahead[i].frame \in 1..f
        BY <2>2, <4>2
      <4>4. longer[Ahead[i].frame] = length[Ahead[i].frame]
        BY <3>3, <4>3
      <4> QED BY <4>1, <4>3, <4>4 DEF Good
    <3>9. Runs(Ahead, longer, Here, <<f, 1>>)
      <4>1. Runs(Ahead, length, Here, <<f, 1>>)
        BY <2>2, <3>1 DEF Flows
      <4>2. \A i \in 1..Len(Ahead) : longer[Ahead[i].frame] = length[Ahead[i].frame]
        BY <3>8
      <4> PICK bytes, from : bytes = Ahead /\ from = Here /\ bytes \in Seq(AnyByte)
        BY <3>5
      <4>3. Runs(bytes, longer, from, <<f, 1>>)
        BY <4>1, <4>2, RunsStay
      <4> QED BY <4>3
    <3>10. Runs(Ahead \o more, longer, Here, <<f + 1, 1>>)
      BY <2>3, <3>5, <3>6, <3>9, RunsMeet
    <3>11. Here' = Here
      BY <1>2 DEF Here
    <3>12. Runs(Ahead', longer, Here', <<written' + 1, 1>>)
      BY <2>2, <3>5, <3>10, <3>11
    <3>13. ASSUME NEW i \in 1..Len(Ahead') PROVE Good(Ahead'[i], longer, f)
      <4>1. Len(Ahead) \in Nat /\ Len(more) \in Nat /\ Len(Ahead') = Len(Ahead) + Len(more)
        BY <2>3, <3>5
      <4>2. CASE i \in 1..Len(Ahead)
        <5>1. Ahead'[i] = Ahead[i]
          BY <2>3, <3>5, <4>2
        <5> QED BY <3>8, <4>2, <5>1
      <4>3. CASE i \notin 1..Len(Ahead)
        <5>1. PICK j \in 1..Len(more) : i = Len(Ahead) + j
          <6>1. i - Len(Ahead) \in 1..Len(more) /\ i = Len(Ahead) + (i - Len(Ahead))
            BY <4>1, <4>3
          <6> QED BY <6>1
        <5>2. Ahead'[i] = more[j]
          BY <2>3, <3>5, <5>1
        <5> QED BY <3>6, <5>2
      <4> QED BY <4>2, <4>3
    <3>14. reader'.need = IF reader'.at = "header" THEN HeaderBytes ELSE longer[Len(heard') + 1]
      <4>1. CASE reader.at = "header"
        BY <1>2, <3>1, <4>1 DEF Flows
      <4>2. CASE reader.at = "payload"
        <5>1. Len(heard) + 1 \in 1..written
          BY <3>1, <4>2, PayloadIsOfAFrame DEF FrameInv
        <5>3. Len(heard) + 1 \in Nat /\ Len(heard) + 1 # f
          BY <2>0, <2>2, <5>1
        <5>2. longer[Len(heard) + 1] = length[Len(heard) + 1]
          BY <3>3, <5>3
        <5> QED BY <1>2, <3>1, <4>2, <5>2 DEF Flows
      <4> QED BY <1>2, <2>5, <4>1, <4>2 DEF Reading
    <3>15. Len(reader'.got) < reader'.need
      BY <1>2, <3>1 DEF Flows
    <3> QED BY <2>2, <3>3, <3>4, <3>12, <3>13, <3>14, <3>15 DEF Flows
  <2>6. cancelled' # "in_a_frame" => reader'.at # "protocol_error" /\ HeardInOrder'
    <3> SUFFICES ASSUME cancelled' # "in_a_frame"
                 PROVE  reader'.at # "protocol_error" /\ HeardInOrder'
      OBVIOUS
    <3>1. reader.at # "protocol_error" /\ HeardInOrder
      BY <1>2 DEF FrameInv
    <3>2. heard \in Seq(Nat)
      BY DEF FrameInv, FrameTypes
    <3>3. Len(heard) \in Nat
      BY <3>2
    <3>4. Len(heard) <= f
      BY <2>0, <3>1, <3>3 DEF HeardInOrder
    <3> QED BY <1>2, <2>2, <3>1, <3>4 DEF HeardInOrder
  <2> QED BY <2>4, <2>5, <2>6 DEF FrameInv
<1> QED BY <1>3, <1>4

(* Bytes leave the writer for the wire; none is lost or overtaken. *)
LEMMA FrameSent ==
    ASSUME FrameInv, WriteSome
    PROVE  FrameInv'
<1>1. PICK n \in 1..Len(unsent) :
         /\ wire' = wire \o SubSeq(unsent, 1, n)
         /\ unsent' = SubSeq(unsent, n + 1, Len(unsent))
  BY DEF WriteSome
<1>2. UNCHANGED <<written, reader, heard, cancelled>>
  BY DEF WriteSome
<1>3. reader.got \in Seq(AnyByte) /\ wire \in Seq(AnyByte) /\ unsent \in Seq(AnyByte)
  BY AheadIsBytes DEF FrameInv
<1>4. wire' \in Seq(AnyByte) /\ unsent' \in Seq(AnyByte) /\ Ahead' = Ahead
  <2>1. PICK s, t \in Seq(AnyByte) :
           /\ s = SubSeq(unsent, 1, n) /\ t = SubSeq(unsent, n + 1, Len(unsent))
           /\ unsent = Joined(s, t) /\ s # <<>> /\ Len(s) = n
    BY <1>3, Parting
  <2>2. wire' = Joined(wire, s) /\ unsent' = t /\ reader'.got = reader.got
    BY <1>1, <1>2, <2>1 DEF Joined
  <2>3. PICK a \in Seq(AnyByte), b \in Seq(AnyByte) : a = reader.got /\ b = wire
    BY <1>3
  <2>4. Joined(b, s) \in Seq(AnyByte)
    BY PartsAssociate
  <2>5. Joined(Joined(a, Joined(b, s)), t) = Joined(Joined(a, b), Joined(s, t))
    BY PartsAssociate
  <2>6. Ahead = Joined(Joined(a, b), Joined(s, t)) /\ Ahead' = Joined(Joined(a, Joined(b, s)), t)
    BY <2>1, <2>2, <2>3, Zenon DEF Ahead
  <2> QED BY <2>2, <2>3, <2>4, <2>5, <2>6, Zenon
<1>5. FrameTypes'
  BY <1>2, <1>4 DEF FrameInv, FrameTypes
<1>6. ASSUME NEW length, Flows(length) PROVE Flows(length)'
  <2>1. UNCHANGED <<Ahead, Here, written, reader, heard>>
    BY <1>2, <1>4 DEF Here
  <2> QED BY <1>6, <2>1 DEF Flows
<1> QED BY <1>2, <1>5, <1>6 DEF FrameInv, HeardInOrder, Reading

(* A length is its quotient and its remainder by the base of the header. *)
LEMMA DivMod ==
    ASSUME NEW n \in Nat, NEW base \in Nat \ {0}
    PROVE  n = ((n \div base) * base) + (n % base)
OBVIOUS

(* A header that is a written frame's tells its length. *)
LEMMA HeaderIsRead ==
    ASSUME NEW length \in [Nat -> Nat], NEW f \in 1..written, NEW s \in Seq(AnyByte),
           written \in Nat, length[f] \in 1..MaxPayload, Len(s) = HeaderBytes,
           \A i \in 1..Len(s) : Good(s[i], length, written),
           NEW to, Runs(s, length, <<f, 1>>, to)
    PROVE  /\ ValidLength(Declared(s)) /\ Declared(s) = length[f]
           /\ After(s[Len(s)], length) = <<f, HeaderBytes + 1>>
<1>1. f \in Nat /\ length[f] \in Nat /\ Len(s) = 2 /\ 1 \in 1..Len(s) /\ 2 \in 1..Len(s)
  BY DEF HeaderBytes
<1>2. 1 + Len(s) <= HeaderBytes + length[f] + 1
  BY <1>1 DEF HeaderBytes
<1>3. \A i \in 1..Len(s) : Place(s[i]) = <<f, 1 + i - 1>>
  <2> PICK o \in Nat : o = 1
    OBVIOUS
  <2>1. \A i \in 1..Len(s) : Place(s[i]) = <<f, o + i - 1>>
    BY <1>1, <1>2, RunsInFrame
  <2> QED BY <2>1
<1>4. s[1].frame = f /\ s[1].offset = 1 /\ s[2].frame = f /\ s[2].offset = 2
  <2>1. Place(s[1]) = <<f, 1 + 1 - 1>> /\ Place(s[2]) = <<f, 1 + 2 - 1>>
    BY <1>1, <1>3
  <2> QED BY <2>1 DEF Place
<1>5. s[1].value = length[f] \div HeaderBase /\ s[2].value = length[f] % HeaderBase
  BY <1>1, <1>4 DEF Good
<1>6. PICK n \in Nat : n = length[f]
  BY <1>1
<1>7. n = ((n \div HeaderBase) * HeaderBase) + (n % HeaderBase)
  <2>1. HeaderBase \in Nat \ {0}
    BY FrameAssumption
  <2> QED BY <2>1, DivMod
<1>8. Declared(s) = ((n \div HeaderBase) * HeaderBase) + (n % HeaderBase)
  BY <1>5, <1>6 DEF Declared
<1>9. ValidLength(n)
  BY <1>6, FrameAssumption DEF ValidLength
<1>10. After(s[2], length) = <<f, 2 + 1>>
  <2>1. 2 < HeaderBytes + length[f]
    BY DEF HeaderBytes
  <2> QED BY <1>4, <2>1 DEF After
<1> QED BY <1>1, <1>6, <1>7, <1>8, <1>9, <1>10 DEF HeaderBytes

(* The bytes behind a header are its payload. *)
LEMMA PayloadIsRead ==
    ASSUME NEW length \in [Nat -> Nat], NEW f \in Nat, NEW s \in Seq(AnyByte), s # <<>>,
           Len(s) = length[f], NEW to, Runs(s, length, <<f, HeaderBytes + 1>>, to)
    PROVE  /\ IsPayload(s) /\ s[1].frame = f
           /\ After(s[Len(s)], length) = <<f + 1, 1>>
<1>1. Len(s) \in Nat \ {0} /\ 1 \in 1..Len(s) /\ Len(s) \in 1..Len(s) /\ length[f] \in Nat
  <2>1. PICK n : n = Len(s)
    OBVIOUS
  <2>2. n \in Nat /\ n # 0
    BY <2>1
  <2>3. 1 \in 1..n /\ n \in 1..n
    BY <2>2
  <2>4. length[f] \in Nat
    OBVIOUS
  <2> QED BY <2>1, <2>2, <2>3, <2>4
<1>2. HeaderBytes + 1 \in Nat /\ (HeaderBytes + 1) + Len(s) <= HeaderBytes + length[f] + 1
  BY <1>1 DEF HeaderBytes
<1>3. \A i \in 1..Len(s) : Place(s[i]) = <<f, (HeaderBytes + 1) + i - 1>>
  BY <1>2, RunsInFrame
<1>4. \A i \in 1..Len(s) : s[i].frame = f /\ s[i].offset = HeaderBytes + i
  BY <1>1, <1>3 DEF Place, HeaderBytes
<1>5. IsPayload(s)
  <2>1. DOMAIN s = 1..Len(s)
    OBVIOUS
  <2> QED BY <1>1, <1>4, <2>1 DEF IsPayload
<1>6. s[Len(s)].frame = f /\ s[Len(s)].offset = HeaderBytes + length[f]
  BY <1>1, <1>4
<1>7. After(s[Len(s)], length) = <<f + 1, 1>>
  <2>1. PICK b, n : b = s[Len(s)] /\ n = length[f]
    OBVIOUS
  <2>2. n \in Nat /\ b.frame = f /\ b.offset = HeaderBytes + n
    BY <1>1, <1>6, <2>1
  <2>3. After(b, length) = <<f + 1, 1>>
    BY <2>1, <2>2, AfterLastByte
  <2> QED BY <2>1, <2>3
<1> QED BY <1>1, <1>4, <1>5, <1>7

(* What ReadSome does to the flow: rest is behind the bytes it has read. *)
LEMMA FlowsApart ==
    ASSUME NEW length, Flows(length), NEW bytes \in Seq(AnyByte), NEW rest \in Seq(AnyByte),
           bytes # <<>>, Ahead = Joined(bytes, rest)
    PROVE  /\ \A i \in 1..Len(bytes) : Good(bytes[i], length, written)
           /\ \A i \in 1..Len(rest) : Good(rest[i], length, written)
           /\ Runs(bytes, length, Here, After(bytes[Len(bytes)], length))
           /\ Runs(rest, length, After(bytes[Len(bytes)], length), <<written + 1, 1>>)
<1> DEFINE all == bytes \o rest
<1>1. /\ Len(bytes) \in Nat /\ Len(rest) \in Nat /\ Len(all) = Len(bytes) + Len(rest)
      /\ \A i \in 1..Len(bytes) : all[i] = bytes[i]
      /\ \A i \in 1..Len(rest) : all[Len(bytes) + i] = rest[i]
  OBVIOUS
<1>2. Runs(all, length, Here, <<written + 1, 1>>)
  BY DEF Flows, Joined
<1>3. \A i \in 1..Len(all) : Good(all[i], length, written)
  BY DEF Flows, Joined
<1>4. /\ Runs(bytes, length, Here, After(bytes[Len(bytes)], length))
      /\ Runs(rest, length, After(bytes[Len(bytes)], length), <<written + 1, 1>>)
  <2>1. PICK from, to : from = Here /\ to = <<written + 1, 1>>
    OBVIOUS
  <2>2. Runs(all, length, from, to)
    BY <1>2, <2>1
  <2>3. /\ Runs(bytes, length, from, After(bytes[Len(bytes)], length))
        /\ Runs(rest, length, After(bytes[Len(bytes)], length), to)
    BY <2>2, RunsPart
  <2> QED BY <2>1, <2>3
<1> HIDE DEF all
<1>5. ASSUME NEW i \in 1..Len(bytes) PROVE Good(bytes[i], length, written)
  <2>1. i \in 1..Len(all) /\ all[i] = bytes[i]
    BY <1>1
  <2> QED BY <1>3, <2>1
<1>6. ASSUME NEW i \in 1..Len(rest) PROVE Good(rest[i], length, written)
  <2>1. Len(bytes) + i \in 1..Len(all) /\ all[Len(bytes) + i] = rest[i]
    BY <1>1
  <2> QED BY <1>3, <2>1
<1> QED BY <1>4, <1>5, <1>6

(* What a header can say is a number. *)
LEMMA DeclaredIsNat ==
    ASSUME NEW high \in Nat, NEW base \in Nat, NEW low \in Nat
    PROVE  high * base + low \in Nat
<1>1. high * base \in Nat
  OBVIOUS
<1> QED BY <1>1

(* read_exact takes what it finds; with its last byte a header becomes the length of its payload,  *)
(* and a payload a frame that is heard.                                                            *)
LEMMA FrameRead ==
    ASSUME FrameInv, ReadSome
    PROVE  FrameInv'
<1>1. PICK n \in 1..Len(wire) :
         /\ n <= reader.need - Len(reader.got)
         /\ TakeBytes(reader.got \o SubSeq(wire, 1, n))
         /\ wire' = SubSeq(wire, n + 1, Len(wire))
  BY DEF ReadSome
<1>2. Reading /\ UNCHANGED <<written, unsent, writerEnd, cancelled>>
  BY DEF ReadSome
<1>3. /\ reader.got \in Seq(AnyByte) /\ wire \in Seq(AnyByte) /\ unsent \in Seq(AnyByte)
      /\ heard \in Seq(Nat) /\ reader.need \in Nat /\ written \in Nat
  BY AheadIsBytes DEF FrameInv, FrameTypes
<1>4. PICK s, t \in Seq(AnyByte) :
         /\ s = SubSeq(wire, 1, n) /\ t = SubSeq(wire, n + 1, Len(wire))
         /\ wire = Joined(s, t) /\ s # <<>> /\ Len(s) = n
  BY <1>3, Parting
<1>5. PICK a \in Seq(AnyByte), c \in Seq(AnyByte) : a = reader.got /\ c = unsent
  BY <1>3
<1>6. PICK bytes : bytes = Joined(a, s)
  OBVIOUS
<1>7. bytes \in Seq(AnyByte) /\ bytes # <<>> /\ Len(bytes) \in Nat \ {0}
  <2>1. Joined(a, s) \in Seq(AnyByte) /\ Joined(a, s) # <<>> /\ Len(Joined(a, s)) \in Nat \ {0}
    BY <1>4, NonemptyParts, PartsAssociate
  <2> QED BY <1>6, <2>1
<1>8. TakeBytes(bytes) /\ wire' = t
  BY <1>1, <1>4, <1>5, <1>6 DEF Joined
<1>9. /\ Ahead = Joined(bytes, Joined(t, c)) /\ Ahead = Joined(Joined(bytes, t), c)
      /\ Joined(t, c) \in Seq(AnyByte)
  <2>1. Joined(t, c) \in Seq(AnyByte)
    BY PartsAssociate
  <2>2. /\ Joined(Joined(a, Joined(s, t)), c) = Joined(Joined(a, s), Joined(t, c))
        /\ Joined(Joined(a, Joined(s, t)), c) = Joined(Joined(Joined(a, s), t), c)
    BY PartsAssociate
  <2>3. Ahead = Joined(Joined(a, Joined(s, t)), c)
    BY <1>4, <1>5, Zenon DEF Ahead
  <2> QED BY <1>6, <2>1, <2>2, <2>3, Zenon
<1>10. Len(bytes) <= reader.need
  <2>1. Len(a) \in Nat
    OBVIOUS
  <2>2. Len(Joined(a, s)) = Len(a) + Len(s)
    BY <1>4, NonemptyParts
  <2>3. Len(s) = n /\ n <= reader.need - Len(a) /\ n \in Nat
    BY <1>1, <1>3, <1>4, <1>5
  <2>4. Len(Joined(a, s)) <= reader.need
    BY <1>3, <2>1, <2>2, <2>3
  <2> QED BY <1>6, <2>4
<1>11. reader.at \in {"header", "payload"} /\ unsent' = c /\ written' = written /\ cancelled' = cancelled
  BY <1>2, <1>5 DEF Reading
<1>12. CASE Len(bytes) < reader.need
  <2>1. reader' = [reader EXCEPT !.got = bytes] /\ heard' = heard
    BY <1>3, <1>7, <1>8, <1>12 DEF TakeBytes
  <2>2. reader'.at = reader.at /\ reader'.need = reader.need /\ reader'.got = bytes
    BY <2>1 DEF FrameInv, FrameTypes
  <2>3. FrameTypes'
    BY <1>3, <1>7, <1>8, <1>11, <2>1 DEF FrameInv, FrameTypes
  <2>4. Ahead' = Ahead /\ Here' = Here
    BY <1>8, <1>9, <1>11, <2>1, <2>2, Zenon DEF Ahead, Here
  <2>5. ASSUME NEW length, Flows(length) PROVE Flows(length)'
    BY <1>11, <1>12, <2>1, <2>2, <2>4, <2>5 DEF Flows
  <2> QED BY <1>2, <1>11, <2>1, <2>2, <2>3, <2>5 DEF FrameInv, HeardInOrder
<1>13. ASSUME NEW length, Flows(length)
       PROVE  /\ length \in [Nat -> Nat] /\ \A m \in 1..written : length[m] \in 1..MaxPayload
              /\ Len(heard) \in Nat /\ Len(heard) + 1 \in 1..written
              /\ \A i \in 1..Len(bytes) : Good(bytes[i], length, written)
              /\ \A i \in 1..Len(Joined(t, c)) : Good(Joined(t, c)[i], length, written)
              /\ Runs(bytes, length, Here, After(bytes[Len(bytes)], length))
              /\ Runs(Joined(t, c), length, After(bytes[Len(bytes)], length), <<written + 1, 1>>)
              /\ reader.need = IF reader.at = "header" THEN HeaderBytes ELSE length[Len(heard) + 1]
  <2>1. /\ length \in [Nat -> Nat] /\ \A m \in 1..written : length[m] \in 1..MaxPayload
        /\ reader.need = IF reader.at = "header" THEN HeaderBytes ELSE length[Len(heard) + 1]
    BY <1>13 DEF Flows
  <2>2. /\ \A i \in 1..Len(bytes) : Good(bytes[i], length, written)
        /\ \A i \in 1..Len(Joined(t, c)) : Good(Joined(t, c)[i], length, written)
        /\ Runs(bytes, length, Here, After(bytes[Len(bytes)], length))
        /\ Runs(Joined(t, c), length, After(bytes[Len(bytes)], length), <<written + 1, 1>>)
    <3>1. PICK rest \in Seq(AnyByte) : rest = Joined(t, c)
      BY <1>9
    <3>2. Ahead = Joined(bytes, rest)
      BY <1>9, <3>1
    <3>3. /\ \A i \in 1..Len(bytes) : Good(bytes[i], length, written)
          /\ \A i \in 1..Len(rest) : Good(rest[i], length, written)
          /\ Runs(bytes, length, Here, After(bytes[Len(bytes)], length))
          /\ Runs(rest, length, After(bytes[Len(bytes)], length), <<written + 1, 1>>)
      BY <1>7, <1>13, <3>2, FlowsApart
    <3> QED BY <3>1, <3>3
  <2>3. 1 \in 1..Len(bytes)
    BY <1>7
  <2>4. Place(bytes[1]) = Here /\ bytes[1].frame \in 1..written
    BY <1>7, <2>2, <2>3 DEF Runs, Good
  <2>5. Len(heard) \in Nat
    BY <1>3
  <2> QED BY <2>1, <2>2, <2>4, <2>5 DEF Place, Here
<1>14. CASE Len(bytes) = reader.need /\ reader.at = "header"
  <2>1. /\ heard' = heard
        /\ reader' = IF ValidLength(Declared(bytes))
                     THEN [at |-> "payload", need |-> Declared(bytes), got |-> <<>>]
                     ELSE [FreshRead EXCEPT !.at = "protocol_error"]
    BY <1>8, <1>14 DEF TakeBytes
  <2>2. Len(bytes) = HeaderBytes /\ 1 \in 1..Len(bytes) /\ 2 \in 1..Len(bytes)
    BY <1>14 DEF FrameInv, FrameTypes, HeaderBytes
  <2>3. Declared(bytes) \in Nat
    <3>1. bytes[1] \in AnyByte /\ bytes[2] \in AnyByte
      BY <1>7, <2>2
    <3>2. bytes[1].value \in Nat /\ bytes[2].value \in Nat /\ HeaderBase \in Nat
      BY <3>1, FrameAssumption DEF AnyByte
    <3> QED BY <3>2, DeclaredIsNat DEF Declared
  <2>4. FrameTypes'
    <3>1. <<>> \in Seq(AnyByte) /\ HeaderBytes \in Nat
      BY DEF HeaderBytes
    <3> QED BY <1>3, <1>8, <1>11, <2>1, <2>3, <3>1 DEF FrameTypes, FreshRead
  <2>5. ASSUME cancelled' # "in_a_frame"
        PROVE  reader'.at # "protocol_error" /\ HeardInOrder' /\ \E length : Flows(length)'
    <3>1. PICK length : Flows(length)
      BY <1>2, <2>5 DEF FrameInv
    <3>2. HeardInOrder
      BY <1>2, <2>5 DEF FrameInv
    <3>3. PICK f \in 1..written : f = Len(heard) + 1
      BY <1>13, <3>1
    <3>4. /\ length \in [Nat -> Nat] /\ \A m \in 1..written : length[m] \in 1..MaxPayload
          /\ \A i \in 1..Len(bytes) : Good(bytes[i], length, written)
          /\ \A i \in 1..Len(Joined(t, c)) : Good(Joined(t, c)[i], length, written)
          /\ Runs(bytes, length, <<f, 1>>, After(bytes[Len(bytes)], length))
          /\ Runs(Joined(t, c), length, After(bytes[Len(bytes)], length), <<written + 1, 1>>)
      BY <1>13, <1>14, <3>1, <3>3 DEF Here
    <3>5. /\ ValidLength(Declared(bytes)) /\ Declared(bytes) = length[f]
          /\ After(bytes[Len(bytes)], length) = <<f, HeaderBytes + 1>>
      BY <1>3, <1>7, <2>2, <3>4, HeaderIsRead
    <3>6. reader' = [at |-> "payload", need |-> length[f], got |-> <<>>]
      BY <2>1, <3>5
    <3>7. Ahead' = Joined(t, c)
      <4>1. reader'.got = <<>>
        BY <3>6
      <4>2. <<>> \o t = t
        OBVIOUS
      <4>3. Joined(<<>>, t) = t
        BY <4>2 DEF Joined
      <4> QED BY <1>8, <1>11, <4>1, <4>3, Zenon DEF Ahead
    <3>8. Here' = <<f, HeaderBytes + 1>>
      BY <2>1, <3>3, <3>6 DEF Here
    <3>9. reader'.need = length[Len(heard') + 1] /\ Len(reader'.got) < reader'.need
      <4>1. length[f] \in 1..MaxPayload /\ length[f] \in Nat
        BY <1>3, <3>4
      <4>2. length[f] > 0 /\ Len(<<>>) = 0
        BY <4>1, FrameAssumption
      <4> QED BY <2>1, <3>3, <3>6, <4>1, <4>2
    <3>10. Flows(length)'
      BY <1>11, <3>4, <3>5, <3>6, <3>7, <3>8, <3>9 DEF Flows
    <3> QED BY <1>11, <2>1, <3>2, <3>6, <3>10 DEF HeardInOrder
  <2> QED BY <2>4, <2>5 DEF FrameInv
<1>15. CASE Len(bytes) = reader.need /\ reader.at = "payload"
  <2>1. IF IsPayload(bytes)
        THEN reader' = FreshRead /\ heard' = Append(heard, bytes[1].frame)
        ELSE reader' = [FreshRead EXCEPT !.at = "protocol_error"] /\ UNCHANGED heard
    BY <1>8, <1>15 DEF TakeBytes
  <2>2. bytes[1].frame \in Nat
    <3>1. 1 \in 1..Len(bytes)
      BY <1>7
    <3>2. bytes[1] \in AnyByte
      BY <1>7, <3>1
    <3> QED BY <3>2 DEF AnyByte
  <2>3. FrameTypes'
    <3>1. <<>> \in Seq(AnyByte) /\ HeaderBytes \in Nat
      BY DEF HeaderBytes
    <3>2. heard' \in Seq(Nat)
      <4>1. heard' = heard \/ heard' = Append(heard, bytes[1].frame)
        BY <2>1
      <4>2. \A f \in Nat : Append(heard, f) \in Seq(Nat)
        BY <1>3
      <4> QED BY <1>3, <2>2, <4>1, <4>2
    <3>3. reader' = FreshRead \/ reader' = [FreshRead EXCEPT !.at = "protocol_error"]
      BY <2>1
    <3>4. /\ reader' \in [at : {"header", "payload", "protocol_error", "io_error"}, need : Nat,
                          got : Seq(AnyByte)]
          /\ reader'.need = HeaderBytes
      <4>1. PICK empty \in Seq(AnyByte) : empty = <<>>
        BY <3>1
      <4>2. \/ reader' = [at |-> "header", need |-> HeaderBytes, got |-> empty]
            \/ reader' = [at |-> "protocol_error", need |-> HeaderBytes, got |-> empty]
        BY <3>3, <4>1 DEF FreshRead
      <4> QED BY <3>1, <4>2
    <3>5. written' \in Nat /\ unsent' \in Seq(AnyByte) /\ wire' \in Seq(AnyByte)
      BY <1>3, <1>8, <1>11
    <3> QED BY <3>2, <3>4, <3>5 DEF FrameTypes
  <2>4. ASSUME cancelled' # "in_a_frame"
        PROVE  reader'.at # "protocol_error" /\ HeardInOrder' /\ \E length : Flows(length)'
    <3>1. PICK length : Flows(length)
      BY <1>2, <2>4 DEF FrameInv
    <3>2. HeardInOrder
      BY <1>2, <2>4 DEF FrameInv
    <3>3. PICK f \in 1..written : f = Len(heard) + 1
      BY <1>13, <3>1
    <3>4. /\ length \in [Nat -> Nat] /\ \A m \in 1..written : length[m] \in 1..MaxPayload
          /\ \A i \in 1..Len(Joined(t, c)) : Good(Joined(t, c)[i], length, written)
          /\ Runs(bytes, length, <<f, HeaderBytes + 1>>, After(bytes[Len(bytes)], length))
          /\ Runs(Joined(t, c), length, After(bytes[Len(bytes)], length), <<written + 1, 1>>)
          /\ Len(bytes) = length[f]
      BY <1>13, <1>15, <3>1, <3>3 DEF Here
    <3>5. /\ IsPayload(bytes) /\ bytes[1].frame = f
          /\ After(bytes[Len(bytes)], length) = <<f + 1, 1>>
      <4>1. f \in Nat
        BY <1>3
      <4>2. PICK to : to = After(bytes[Len(bytes)], length)
        OBVIOUS
      <4>3. Runs(bytes, length, <<f, HeaderBytes + 1>>, to)
        BY <3>4, <4>2
      <4> QED BY <1>7, <3>4, <4>1, <4>3, PayloadIsRead
    <3>6. reader' = FreshRead /\ heard' = Append(heard, f)
      BY <2>1, <3>5
    <3>7. Ahead' = Joined(t, c)
      <4>1. reader'.got = <<>>
        BY <3>6 DEF FreshRead
      <4>2. <<>> \o t = t
        OBVIOUS
      <4>3. Joined(<<>>, t) = t
        BY <4>2 DEF Joined
      <4> QED BY <1>8, <1>11, <4>1, <4>3, Zenon DEF Ahead
    <3>8. f \in Nat /\ Len(heard') = f
      BY <1>3, <3>3, <3>6
    <3>9. Here' = <<f + 1, 1>>
      BY <3>6, <3>8 DEF Here, FreshRead
    <3>10. HeardInOrder'
      <4>1. f <= written
        BY <1>3, <3>3
      <4>2. ASSUME NEW i \in DOMAIN heard' PROVE heard'[i] = i
        <5>1. i \in 1..f /\ DOMAIN heard = 1..Len(heard)
          BY <1>3, <3>3, <3>6
        <5>2. i = f \/ (i \in 1..Len(heard) /\ heard'[i] = heard[i])
          BY <1>3, <3>3, <3>6, <5>1
        <5>3. heard'[f] = f
          BY <1>3, <3>3, <3>6
        <5> QED BY <3>2, <5>1, <5>2, <5>3 DEF HeardInOrder
      <4> QED BY <1>11, <3>8, <4>1, <4>2 DEF HeardInOrder
    <3>11. Flows(length)'
      <4>1. reader'.at = "header" /\ reader'.need = HeaderBytes /\ reader'.got = <<>>
        BY <3>6 DEF FreshRead
      <4>2. Len(reader'.got) < reader'.need
        BY <4>1 DEF HeaderBytes
      <4>3. Runs(Ahead', length, Here', <<written' + 1, 1>>)
        BY <1>11, <3>4, <3>5, <3>7, <3>9
      <4>4. \A i \in 1..Len(Ahead') : Good(Ahead'[i], length, written')
        BY <1>11, <3>4, <3>7
      <4> QED BY <1>11, <3>4, <4>1, <4>2, <4>3, <4>4 DEF Flows
    <3> QED BY <3>6, <3>10, <3>11 DEF FreshRead
  <2> QED BY <2>3, <2>4 DEF FrameInv
<1> QED BY <1>3, <1>7, <1>10, <1>11, <1>12, <1>14, <1>15

(* At the end of the stream the reader stops. *)
LEMMA FrameReadEnd ==
    ASSUME FrameInv, ReadEnd
    PROVE  FrameInv'
<1>1. /\ Reading /\ reader' = [reader EXCEPT !.at = "io_error"]
      /\ UNCHANGED <<written, unsent, wire, writerEnd, heard, cancelled>>
  BY DEF ReadEnd
<1>2. FrameTypes'
  BY <1>1 DEF FrameInv, FrameTypes
<1>3. reader'.at = "io_error"
  BY <1>1 DEF FrameInv, FrameTypes
<1>4. cancelled' # "in_a_frame" => HeardInOrder'
  BY <1>1 DEF FrameInv, HeardInOrder
<1> QED BY <1>2, <1>3, <1>4 DEF FrameInv, Reading

(* A cancelled read leaves the stream as it was, or has lost bytes of a frame. *)
LEMMA FrameCancelled ==
    ASSUME FrameInv, CancelRead
    PROVE  FrameInv'
<1>1. /\ cancelled' = (IF reader = FreshRead THEN "between_frames" ELSE "in_a_frame")
      /\ cancelled = "no" /\ reader' = FreshRead
      /\ UNCHANGED <<written, unsent, wire, writerEnd, heard>>
  BY DEF CancelRead
<1>2. FrameTypes'
  <2>1. <<>> \in Seq(AnyByte) /\ HeaderBytes \in Nat
    BY DEF HeaderBytes
  <2> QED BY <1>1, <2>1 DEF FrameInv, FrameTypes, FreshRead
<1>3. CASE reader = FreshRead
  <2>1. reader' = reader
    BY <1>1, <1>3
  <2>2. UNCHANGED <<Ahead, Here, written, reader, heard>>
    BY <1>1, <2>1 DEF Ahead, Here
  <2>3. ASSUME NEW length, Flows(length) PROVE Flows(length)'
    BY <2>2, <2>3 DEF Flows
  <2> QED BY <1>1, <1>2, <2>2, <2>3 DEF FrameInv, HeardInOrder, Reading
<1>4. CASE reader # FreshRead
  BY <1>1, <1>2, <1>4 DEF FrameInv
<1> QED BY <1>3, <1>4

(* framing.rs read_frame and write_frame, whatever the stream does between them: the reader takes   *)
(* the frames for what they are, in order, unless main.rs has dropped a read in the middle of one.  *)
THEOREM FramesArrive == StreamSafety => []FramesArriveWhole
<1>1. StreamInit => FrameInv
  BY FrameInit
<1>2. FrameInv /\ [StreamNext]_frameVars => FrameInv'
  <2> SUFFICES ASSUME FrameInv, [StreamNext]_frameVars PROVE FrameInv'
    OBVIOUS
  <2>1. CASE WriteFrame
    BY <2>1, FrameWritten
  <2>2. CASE WriteSome
    BY <2>2, FrameSent
  <2>3. CASE WriterCloses
    BY <2>3, FrameStill DEF WriterCloses
  <2>4. CASE ReadSome
    BY <2>4, FrameRead
  <2>5. CASE ReadEnd
    BY <2>5, FrameReadEnd
  <2>6. CASE CancelRead
    BY <2>6, FrameCancelled
  <2>7. CASE UNCHANGED frameVars
    BY <2>7, FrameStill DEF frameVars
  <2> QED BY <2>1, <2>2, <2>3, <2>4, <2>5, <2>6, <2>7 DEF StreamNext
<1>3. FrameInv => FramesArriveWhole
  BY DEF FrameInv, HeardInOrder, FramesArriveWhole
<1> QED BY <1>1, <1>2, <1>3, PTL DEF StreamSafety

------------------------------------------------------------------------------
(* RecentOutput. *)

(* Total is what the fold of Plus over the lines comes to. *)
LEMMA TotalGoes ==
    ASSUME NEW lines \in Seq(Nat)
    PROVE  /\ \E t : Goes(t, Nat, Plus, 0, lines)
           /\ \A t : Goes(t, Nat, Plus, 0, lines) => Total(lines) = t[Len(lines)]
<1> DEFINE D == DOMAIN lines
           Rec(iter) == [s \in SUBSET D |-> IF s = {} THEN 0 ELSE iter[s \ {Max(s)}] + lines[Max(s)]]
<1>1. Total(lines) = (CHOOSE iter : iter = Rec(iter))[D]
  BY Zenon DEF Total, FoldLeft, MapThenFoldSet
<1>2. Plus \in [Nat \X Nat -> Nat] /\ \A m, n \in Nat : Plus[<<m, n>>] = m + n
  BY DEF Plus
<1>3. Len(lines) \in Nat /\ D = 1..Len(lines)
  OBVIOUS
<1>4. ASSUME NEW s \in SUBSET D, s # {}
      PROVE  Max(s) \in s /\ s \ {Max(s)} \in SUBSET D /\ lines[Max(s)] \in Nat
  <2>1. Max(s) \in s
    BY <1>3, <1>4, MaxIsThere
  <2> QED BY <1>3, <2>1
<1>5. ASSUME NEW g, g \in [SUBSET D -> Nat]
      PROVE  \A s \in SUBSET D :
                (IF s = {} THEN 0 ELSE g[s \ {Max(s)}] + lines[Max(s)])
                  = IF s = {} THEN 0 ELSE Plus[<<g[s \ {Max(s)}], lines[Max(s)]>>]
  BY <1>2, <1>4, <1>5
<1>6. PICK g : FoldsBy(g, Nat, Plus, 0, lines)
  BY <1>2, FoldExists
<1>7. g = Rec(g)
  BY <1>5, <1>6 DEF FoldsBy
<1> DEFINE it == CHOOSE iter : iter = Rec(iter)
<1>8. it = Rec(it)
  BY <1>7
<1> HIDE DEF it
<1>9. it[{}] = 0
  BY <1>8
<1> HIDE DEF it
<1>a. \A s \in SUBSET D : it[s] = IF s = {} THEN 0 ELSE it[s \ {Max(s)}] + lines[Max(s)]
  BY <1>8
<1>10. ASSUME NEW k \in 1..Len(lines), it[1..(k - 1)] \in Nat
       PROVE  it[1..k] = Plus[<<it[1..(k - 1)], lines[k]>>]
  <2>1. /\ Max(1..k) = k /\ (1..k) \ {k} = 1..(k - 1) /\ 1..k # {}
        /\ 1..k \in SUBSET D
    BY <1>3, Segment
  <2>2. it[1..k] = it[(1..k) \ {Max(1..k)}] + lines[Max(1..k)]
    BY <1>a, <2>1
  <2>3. it[1..k] = it[1..(k - 1)] + lines[k]
    BY <2>1, <2>2
  <2>4. lines[k] \in Nat
    OBVIOUS
  <2> QED BY <1>2, <1>10, <2>3, <2>4
<1>b. \A k \in 1..Len(lines) :
         it[1..(k - 1)] \in Nat => it[1..k] = Plus[<<it[1..(k - 1)], lines[k]>>]
  BY <1>10
<1>c. PICK f : f = it
  OBVIOUS
<1>d. Recurs(f, Nat, Plus, 0, lines)
  BY <1>9, <1>b, <1>c DEF Recurs
<1>11. ASSUME NEW t, Goes(t, Nat, Plus, 0, lines) PROVE f[D] = t[Len(lines)]
  <2>1. Plus \in [Nat \X Nat -> Nat] /\ 0 \in Nat
    BY <1>2
  <2> HIDE DEF Plus
  <2>2. Folds(Nat, Nat, Plus, 0, lines)
    BY <2>1 DEF Folds
  <2>3. f[1..Len(lines)] = t[Len(lines)]
    BY <1>d, <1>11, <2>2, SegmentsGo
  <2> QED BY <1>3, <2>3
<1>12. \E t : Goes(t, Nat, Plus, 0, lines)
  <2>1. Plus \in [Nat \X Nat -> Nat] /\ 0 \in Nat
    BY <1>2
  <2> HIDE DEF Plus
  <2> QED BY <2>1, FoldGoes
<1>13. Total(lines) = f[D]
  BY <1>1, <1>c DEF it
<1> QED BY <1>11, <1>12, <1>13

(* The sums of the first numbers of a list. *)
Sums(t, lines) ==
    /\ t \in [0..Len(lines) -> Nat] /\ t[0] = 0
    /\ \A k \in 1..Len(lines) : t[k] = t[k - 1] + lines[k]

(* A sum of numbers is one. *)
LEMMA SumsAreNat ==
    ASSUME NEW lines \in Seq(Nat), NEW t, Sums(t, lines), NEW i \in 0..Len(lines)
    PROVE  t[i] \in Nat
BY DEF Sums

(* The sums are what the fold goes through. *)
LEMMA SumsAreGoes ==
    ASSUME NEW lines \in Seq(Nat), NEW t
    PROVE  Goes(t, Nat, Plus, 0, lines) <=> Sums(t, lines)
<1>1. \A m, n \in Nat : Plus[<<m, n>>] = m + n
  BY DEF Plus
<1>2. Len(lines) \in Nat
  OBVIOUS
<1>3. ASSUME t \in [0..Len(lines) -> Nat], NEW k \in 1..Len(lines)
      PROVE  Plus[<<t[k - 1], lines[k]>>] = t[k - 1] + lines[k]
  <2>1. k - 1 \in 0..Len(lines) /\ lines[k] \in Nat
    BY <1>2
  <2>2. t[k - 1] \in Nat
    BY <1>3, <2>1
  <2> QED BY <1>1, <2>1, <2>2
<1> QED BY <1>3 DEF Goes, Sums

(* Total is the last of the sums. *)
LEMMA TotalIsSum ==
    ASSUME NEW lines \in Seq(Nat)
    PROVE  /\ \E t : Sums(t, lines) /\ Total(lines) = t[Len(lines)]
           /\ \A t : Sums(t, lines) => Total(lines) = t[Len(lines)]
           /\ Total(lines) \in Nat
<1>1. PICK t : Goes(t, Nat, Plus, 0, lines)
  BY TotalGoes
<1>2. \A s : Sums(s, lines) => Total(lines) = s[Len(lines)]
  BY TotalGoes, SumsAreGoes
<1>3. Sums(t, lines)
  BY <1>1, SumsAreGoes
<1>4. Len(lines) \in 0..Len(lines)
  <2>1. Len(lines) \in Nat
    OBVIOUS
  <2> QED BY <2>1
<1>5. Total(lines) = t[Len(lines)]
  BY <1>2, <1>3
<1>6. t[Len(lines)] \in Nat
  BY <1>3, <1>4 DEF Sums
<1> QED BY <1>2, <1>3, <1>5, <1>6

(* No lines, no bytes. *)
LEMMA TotalEmpty == Total(<<>>) = 0
<1>1. <<>> \in Seq(Nat) /\ Len(<<>>) = 0
  OBVIOUS
<1>2. PICK t : Sums(t, <<>>) /\ Total(<<>>) = t[Len(<<>>)]
  BY <1>1, TotalIsSum
<1> QED BY <1>1, <1>2 DEF Sums

(* Sums grow. *)
LEMMA SumsGrow ==
    ASSUME NEW lines \in Seq(Nat), NEW t, Sums(t, lines), NEW n \in 0..Len(lines)
    PROVE  \A m \in n..Len(lines) : t[n] <= t[m]
<1>1. Len(lines) \in Nat /\ n \in Nat
  OBVIOUS
<1> DEFINE Larger == {j \in Nat : n + j <= Len(lines) => t[n] <= t[n + j]}
<1>2. 0 \in Larger
  <2>1. t[n] \in Nat
    BY DEF Sums
  <2> QED BY <1>1, <2>1
<1>3. ASSUME NEW j \in Nat, j \in Larger PROVE j + 1 \in Larger
  <2> SUFFICES ASSUME n + (j + 1) <= Len(lines) PROVE t[n] <= t[n + (j + 1)]
    OBVIOUS
  <2>1. /\ n + (j + 1) \in 1..Len(lines) /\ (n + (j + 1)) - 1 = n + j
        /\ n + j \in 0..Len(lines) /\ n + j <= Len(lines)
    BY <1>1
  <2>2. t[n] <= t[n + j]
    BY <1>3, <2>1
  <2>3. t[n + (j + 1)] = t[n + j] + lines[n + (j + 1)]
    BY <2>1 DEF Sums
  <2>4. t[n] \in Nat /\ t[n + j] \in Nat
    BY <2>1, SumsAreNat
  <2>5. lines[n + (j + 1)] \in Nat
    BY <2>1
  <2> QED BY <2>2, <2>3, <2>4, <2>5
<1> HIDE DEF Larger
<1>4. \A j \in Nat : j \in Larger
  BY <1>2, <1>3, InductionOverNat
<1>5. ASSUME NEW m \in n..Len(lines) PROVE t[n] <= t[m]
  <2>1. m - n \in Nat /\ n + (m - n) = m /\ m <= Len(lines)
    BY <1>1
  <2> QED BY <1>4, <2>1 DEF Larger
<1> QED BY <1>5

(* A list cut in two: the sum of the front is the sum of the first numbers, that of the back the   *)
(* rest.                                                                                           *)
LEMMA TotalOfFront ==
    ASSUME NEW lines \in Seq(Nat), NEW t, Sums(t, lines), NEW n \in 0..Len(lines)
    PROVE  Total(SubSeq(lines, 1, n)) = t[n]
<1>1. Len(lines) \in Nat /\ n \in Nat
  OBVIOUS
<1>2. PICK front : front = SubSeq(lines, 1, n)
  OBVIOUS
<1>3. front \in Seq(Nat) /\ Len(front) = n /\ \A i \in 1..n : front[i] = lines[i]
  BY <1>1, <1>2
<1> DEFINE r == [k \in 0..n |-> t[k]]
<1>4. Sums(r, front)
  <2>1. \A k \in 0..n : t[k] \in Nat
    <3>1. \A k \in 0..n : k \in 0..Len(lines)
      BY <1>1
    <3> QED BY <3>1, SumsAreNat
  <2>2. r \in [0..n -> Nat]
    BY <2>1
  <2>3. r[0] = 0
    BY <1>1 DEF Sums
  <2>4. ASSUME NEW k \in 1..n PROVE r[k] = r[k - 1] + front[k]
    <3>1. k \in 0..n /\ k - 1 \in 0..n /\ k \in 1..Len(lines)
      BY <1>1
    <3> QED BY <1>3, <3>1 DEF Sums
  <2> HIDE DEF r
  <2> QED BY <1>3, <2>2, <2>3, <2>4 DEF Sums
<1>5. r[n] = t[n]
  BY <1>1
<1> HIDE DEF r
<1>6. Total(front) = r[n]
  BY <1>3, <1>4, TotalIsSum
<1> QED BY <1>2, <1>5, <1>6

(* The bytes of the last lines are all bytes less those before. *)
LEMMA TotalOfBack ==
    ASSUME NEW lines \in Seq(Nat), NEW t, Sums(t, lines), NEW n \in 0..Len(lines)
    PROVE  Total(SubSeq(lines, n + 1, Len(lines))) = t[Len(lines)] - t[n]
<1>1. Len(lines) \in Nat /\ n \in Nat
  OBVIOUS
<1>2. PICK back : back = SubSeq(lines, n + 1, Len(lines))
  OBVIOUS
<1>3. /\ back \in Seq(Nat) /\ Len(back) = Len(lines) - n
      /\ \A i \in 1..(Len(lines) - n) : back[i] = lines[n + i]
  BY <1>1, <1>2
<1> DEFINE r == [k \in 0..(Len(lines) - n) |-> t[n + k] - t[n]]
<1>4. Sums(r, back)
  <2>1. ASSUME NEW k \in 0..(Len(lines) - n)
        PROVE  n + k \in n..Len(lines) /\ t[n + k] \in Nat /\ t[n] \in Nat
    <3>1. n + k \in 0..Len(lines) /\ n + k \in n..Len(lines)
      BY <1>1
    <3> QED BY <3>1 DEF Sums
  <2>2. r \in [0..(Len(lines) - n) -> Nat]
    <3>1. ASSUME NEW k \in 0..(Len(lines) - n) PROVE t[n + k] - t[n] \in Nat
      <4>1. PICK x, y : x = t[n] /\ y = t[n + k]
        OBVIOUS
      <4>2. x <= y
        BY <2>1, <4>1, SumsGrow
      <4>3. x \in Nat /\ y \in Nat
        BY <2>1, <4>1
      <4>4. y - x \in Nat
        BY <4>2, <4>3
      <4> QED BY <4>1, <4>4
    <3> QED BY <3>1
  <2>3. r[0] = 0
    <3>1. 0 \in 0..(Len(lines) - n) /\ n + 0 = n /\ t[n] \in Nat
      BY <1>1 DEF Sums
    <3> QED BY <3>1
  <2>4. ASSUME NEW k \in 1..(Len(lines) - n) PROVE r[k] = r[k - 1] + back[k]
    <3>1. /\ k \in 0..(Len(lines) - n) /\ k - 1 \in 0..(Len(lines) - n)
          /\ n + k \in 1..Len(lines) /\ (n + k) - 1 = n + (k - 1)
      BY <1>1
    <3>2. t[n + k] = t[n + (k - 1)] + lines[n + k]
      BY <3>1 DEF Sums
    <3>3. t[n + (k - 1)] \in Nat /\ t[n] \in Nat
      BY <2>1, <3>1
    <3>5. lines[n + k] \in Nat
      BY <3>1
    <3>4. r[k] = t[n + k] - t[n] /\ r[k - 1] = t[n + (k - 1)] - t[n]
      BY <3>1
    <3>6. PICK x, y, b, l : /\ x = t[n + (k - 1)] /\ y = t[n + k]
                           /\ b = t[n] /\ l = lines[n + k]
      OBVIOUS
    <3>7. x \in Nat /\ b \in Nat /\ l \in Nat /\ y = x + l
      BY <3>2, <3>3, <3>5, <3>6, Zenon
    <3>8. y - b = (x - b) + l
      BY <3>7
    <3>9. r[k] = y - b /\ r[k - 1] = x - b
      BY <3>4, <3>6, Zenon
    <3>10. back[k] = l
      BY <1>3, <3>6, Zenon
    <3> HIDE DEF r
    <3> QED BY <3>8, <3>9, <3>10, Zenon
  <2> HIDE DEF r
  <2> QED BY <1>3, <2>2, <2>3, <2>4 DEF Sums
<1>5. r[Len(lines) - n] = t[Len(lines)] - t[n]
  <2>1. Len(lines) - n \in 0..(Len(lines) - n) /\ n + (Len(lines) - n) = Len(lines)
    BY <1>1
  <2> QED BY <2>1
<1> HIDE DEF r
<1>6. Total(back) = r[Len(lines) - n]
  BY <1>3, <1>4, TotalIsSum
<1> QED BY <1>2, <1>5, <1>6

(* Another line adds its bytes. *)
LEMMA TotalOfAppend ==
    ASSUME NEW lines \in Seq(Nat), NEW line \in Nat
    PROVE  Total(Append(lines, line)) = Total(lines) + line
<1>1. PICK all : all = Append(lines, line)
  OBVIOUS
<1>2. /\ Len(lines) \in Nat /\ all \in Seq(Nat) /\ Len(all) = Len(lines) + 1
      /\ all[Len(lines) + 1] = line /\ SubSeq(all, 1, Len(lines)) = lines
  BY <1>1
<1>3. PICK t : Sums(t, all) /\ Total(all) = t[Len(all)]
  BY <1>2, TotalIsSum
<1>4. Len(lines) \in 0..Len(all) /\ Len(all) \in 1..Len(all) /\ Len(all) - 1 = Len(lines)
  BY <1>2
<1>5. Total(SubSeq(all, 1, Len(lines))) = t[Len(lines)]
  BY <1>2, <1>3, <1>4, TotalOfFront
<1>6. t[Len(all)] = t[Len(lines)] + line
  BY <1>2, <1>3, <1>4 DEF Sums
<1> QED BY <1>1, <1>2, <1>3, <1>5, <1>6

(* Min of the community modules finds the least of a set of numbers. *)
LEMMA MinIsThere ==
    ASSUME NEW S \in SUBSET Nat, S # {}
    PROVE  Min(S) \in S /\ \A m \in S : Min(S) <= m
<1>1. \E n \in S : \A m \in S : n <= m
  BY LeastElement
<1> QED BY <1>1 DEF Min

(* What trim_end leaves is text. *)
LEMMA TextIsTrimmed ==
    ASSUME NEW text \in Seq(Byte)
    PROVE  TrimEnd(text) \in Seq(Byte)
<1> DEFINE S == {0} \cup {i \in DOMAIN text : text[i] # "newline"}
<1>1. Len(text) \in Nat /\ DOMAIN text = 1..Len(text)
  OBVIOUS
<1>2. S \in SUBSET (0..Len(text)) /\ S # {}
  BY <1>1
<1>3. PICK m : m = Max(S)
  OBVIOUS
<1>4. m \in 0..Len(text)
  BY <1>1, <1>2, <1>3, MaxIsFound
<1> HIDE DEF S
<1>5. SubSeq(text, 1, m) \in Seq(Byte)
  BY <1>1, <1>4
<1> QED BY <1>3, <1>5 DEF TrimEnd, S

(* What follows a place of a text is text. *)
LEMMA FromIsText ==
    ASSUME NEW T, NEW text \in Seq(T), NEW i \in 1..Len(text) + 1
    PROVE  From(text, i) \in Seq(T) /\ Len(From(text, i)) = Len(text) - i + 1
<1>1. Len(text) \in Nat
  OBVIOUS
<1> QED BY <1>1 DEF From

(* The bytes a text has once its bad bytes are replaced. *)
LEMMA WidthIsNat ==
    ASSUME NEW text \in Seq(Byte)
    PROVE  Width(text) \in Nat /\ (Len(text) = 0 => Width(text) = 0)
<1>1. Len(text) \in Nat /\ DOMAIN text = 1..Len(text)
  OBVIOUS
<1>2. PICK widths : widths = [i \in DOMAIN text |-> IF text[i] = "bad" THEN 3 ELSE 1]
  OBVIOUS
<1>3. widths \in Seq(Nat) /\ Len(widths) = Len(text)
  BY <1>1, <1>2
<1>4. Total(widths) \in Nat
  BY <1>3, TotalIsSum
<1>5. Len(text) = 0 => widths = <<>>
  BY <1>3
<1> QED BY <1>2, <1>4, <1>5, TotalEmpty DEF Width

(* A line fits the list, whatever was read. *)
LEMMA LinesFit ==
    ASSUME NEW raw \in Seq(Byte)
    PROVE  LineBytes(raw) \in Nat /\ LineBytes(raw) <= MaxOutputBytes
<1> DEFINE payload == MaxOutputBytes - (PrefixBytes + 1)
           first == IF Len(raw) > payload THEN Len(raw) - payload + 1 ELSE 1
           text == TrimEnd(From(raw, first))
           starts == {i \in 1..Len(text) + 1 : Width(From(text, i)) <= payload}
           start == Min(starts)
<1>1. payload \in Nat /\ PrefixBytes \in Nat /\ MaxOutputBytes \in Nat
  BY OutputAssumption
<1>2. first \in 1..Len(raw) + 1
  <2>1. Len(raw) \in Nat
    OBVIOUS
  <2> QED BY <1>1, <2>1
<1>3. LineBytes(raw) = PrefixBytes + Width(From(text, start)) + 1
  BY DEF LineBytes
<1> HIDE DEF first
<1>4. From(raw, first) \in Seq(Byte)
  BY <1>2, FromIsText
<1>5. text \in Seq(Byte) /\ Len(text) \in Nat
  BY <1>4, TextIsTrimmed
<1> HIDE DEF text
<1>6. Len(text) + 1 \in starts
  <2>1. Len(text) + 1 \in 1..Len(text) + 1 /\ Len(text) - (Len(text) + 1) + 1 = 0
    BY <1>5
  <2>2. From(text, Len(text) + 1) \in Seq(Byte) /\ Len(From(text, Len(text) + 1)) = 0
    BY <1>5, <2>1, FromIsText
  <2>3. Width(From(text, Len(text) + 1)) = 0
    BY <2>2, WidthIsNat
  <2>4. 0 <= payload
    BY <1>1
  <2> HIDE DEF payload
  <2> QED BY <2>1, <2>3, <2>4
<1>7. starts \in SUBSET Nat
  BY <1>5
<1>8. start \in starts
  <2> HIDE DEF starts
  <2> QED BY <1>6, <1>7, MinIsThere
<1> HIDE DEF start
<1>9. start \in 1..Len(text) + 1 /\ Width(From(text, start)) <= payload
  BY <1>8
<1>10. PICK w : w = Width(From(text, start))
  OBVIOUS
<1>11. w \in Nat
  <2>1. From(text, start) \in Seq(Byte)
    BY <1>5, <1>9, FromIsText
  <2> QED BY <1>10, <2>1, WidthIsNat
<1> QED BY <1>1, <1>3, <1>9, <1>10, <1>11

(* What a push leaves. *)
Leaves(pushed, kept, n) ==
    /\ kept.lines = From(pushed, n + 1)
    /\ kept.bytes = Total(kept.lines)
    /\ Len(kept.lines) <= MaxOutputLines /\ kept.bytes <= MaxOutputBytes
    /\ n > 0 => \/ Len(kept.lines) >= MaxOutputLines
                \/ pushed[n] + Total(kept.lines) > MaxOutputBytes

(* The two loops of push take lines from the front until what is left fits (cloudflared.rs         *)
(* RecentOutput).                                                                                  *)
LEMMA OldestAreEvicted ==
    ASSUME NEW lines \in Seq(Nat), NEW line \in Nat, line <= MaxOutputBytes
    PROVE  \E n \in 0..Len(lines) :
              Leaves(Append(lines, line), EvictOldest(Append(lines, line), Total(lines) + line), n)
<1>1. PICK all : all = Append(lines, line)
  OBVIOUS
<1>2. /\ Len(lines) \in Nat /\ all \in Seq(Nat) /\ Len(all) = Len(lines) + 1
      /\ all[Len(lines) + 1] = line
  BY <1>1
<1>3. PICK t : Sums(t, all) /\ Total(all) = t[Len(all)]
  BY <1>2, TotalIsSum
<1>4. Total(all) = Total(lines) + line
  BY <1>1, TotalOfAppend
<1>5. PICK bytes : bytes = Total(all)
  OBVIOUS
<1>6. /\ MaxOutputLines \in Nat \ {0} /\ MaxOutputBytes \in Nat
      /\ \A n \in 0..Len(all) : t[n] \in Nat
  BY <1>2, <1>3, OutputAssumption, SumsAreNat
<1> DEFINE kept == {n \in 0..Len(all) : /\ Len(all) - n <= MaxOutputLines
                                        /\ bytes - Total(SubSeq(all, 1, n)) <= MaxOutputBytes}
<1>7. \A n \in 0..Len(all) : Total(SubSeq(all, 1, n)) = t[n]
  BY <1>2, <1>3, TotalOfFront
<1>8. \A n \in 0..Len(all) : Total(From(all, n + 1)) = t[Len(all)] - t[n]
  BY <1>2, <1>3, TotalOfBack DEF From
<1>9. \A n : n \in kept <=> /\ n \in 0..Len(all) /\ Len(all) - n <= MaxOutputLines
                            /\ bytes - t[n] <= MaxOutputBytes
  BY <1>7
<1> HIDE DEF kept
<1>10. Len(lines) \in kept
  <2>1. /\ Len(lines) \in 0..Len(all) /\ Len(all) \in 1..Len(all) /\ Len(all) - 1 = Len(lines)
        /\ Len(all) - Len(lines) = 1 /\ Len(all) \in 0..Len(all)
    BY <1>2
  <2>2. t[Len(all)] = t[Len(lines)] + line
    BY <1>2, <1>3, <2>1 DEF Sums
  <2>3. t[Len(lines)] \in Nat
    BY <1>6, <2>1
  <2>4. bytes - t[Len(lines)] = line
    BY <1>3, <1>5, <2>2, <2>3
  <2> QED BY <1>6, <1>9, <2>1, <2>4
<1>11. kept \in SUBSET Nat /\ kept # {}
  BY <1>2, <1>9, <1>10
<1>12. PICK n : n = Min(kept)
  OBVIOUS
<1>13. n \in kept /\ n \in Nat /\ \A m \in kept : n <= m
  BY <1>11, <1>12, MinIsThere
<1>14. n \in 0..Len(lines) /\ n \in 0..Len(all)
  BY <1>2, <1>10, <1>13
<1>15. PICK out : out = EvictOldest(all, bytes)
  OBVIOUS
<1>16. out = [lines |-> From(all, n + 1), bytes |-> bytes - Total(SubSeq(all, 1, n))]
  BY <1>12, <1>15 DEF EvictOldest, kept
<1>17. out.lines = From(all, n + 1) /\ out.bytes = bytes - t[n]
  BY <1>7, <1>14, <1>16
<1>18. out.bytes = Total(out.lines)
  BY <1>3, <1>5, <1>8, <1>14, <1>17
<1>19. Len(out.lines) = Len(all) - n
  <2>1. n + 1 \in 1..Len(all) + 1 /\ Len(all) - (n + 1) + 1 = Len(all) - n
    BY <1>2, <1>14
  <2> QED BY <1>2, <1>17, <2>1, FromIsText
<1>20. Len(out.lines) <= MaxOutputLines /\ out.bytes <= MaxOutputBytes
  BY <1>9, <1>13, <1>17, <1>19
<1>21. ASSUME n > 0
       PROVE  Len(out.lines) >= MaxOutputLines \/ all[n] + Total(out.lines) > MaxOutputBytes
  <2>1. n - 1 \in 0..Len(all) /\ n \in 1..Len(all) /\ ~ (n <= n - 1)
    BY <1>2, <1>14, <1>21
  <2>2. n - 1 \notin kept
    BY <1>13, <2>1
  <2>3. ~ (Len(all) - (n - 1) <= MaxOutputLines) \/ ~ (bytes - t[n - 1] <= MaxOutputBytes)
    BY <1>9, <2>1, <2>2
  <2>4. t[n] = t[n - 1] + all[n]
    BY <1>3, <2>1 DEF Sums
  <2>5. t[n] \in Nat /\ t[n - 1] \in Nat /\ t[Len(all)] \in Nat
    BY <1>2, <1>6, <1>14, <2>1
  <2>6. all[n] \in Nat
    BY <1>2, <2>1
  <2>7. PICK a, b, x : a = t[n] /\ b = t[n - 1] /\ x = all[n]
    OBVIOUS
  <2>8. Total(out.lines) = bytes - a
    BY <1>17, <1>18, <2>7
  <2>9. a = b + x /\ a \in Nat /\ b \in Nat /\ x \in Nat /\ bytes \in Nat
    BY <1>3, <1>5, <2>4, <2>5, <2>6, <2>7
  <2>10. ~ (Len(all) - (n - 1) <= MaxOutputLines) => Len(out.lines) >= MaxOutputLines
    BY <1>2, <1>6, <1>13, <1>19
  <2>11. ~ (bytes - b <= MaxOutputBytes) => x + (bytes - a) > MaxOutputBytes
    BY <1>6, <2>9
  <2> QED BY <2>3, <2>7, <2>8, <2>10, <2>11
<1>22. Leaves(all, out, n)
  BY <1>17, <1>18, <1>20, <1>21 DEF Leaves
<1> QED BY <1>1, <1>4, <1>5, <1>14, <1>15, <1>22

(* Lists with the same members are the same. *)
LEMMA SameNumbers ==
    ASSUME NEW s \in Seq(Nat), NEW t \in Seq(Nat), Len(s) = Len(t),
           \A i \in 1..Len(s) : s[i] = t[i]
    PROVE  s = t
OBVIOUS

(* Two texts in one. *)
LEMMA TextsJoin ==
    ASSUME NEW T, NEW s \in Seq(T), NEW t \in Seq(T)
    PROVE  s \o t \in Seq(T) /\ Len(s \o t) = Len(s) + Len(t)
OBVIOUS

(* The changes of a stream make a stream. *)
LEMMA CaptureChanges ==
    ASSUME NEW A, NEW P, NEW r \in [at : A, pending : P, reads : Nat], NEW at, NEW pending
    PROVE  [[r EXCEPT !.at = at] EXCEPT !.pending = pending]
             = [at |-> at, pending |-> pending, reads |-> r.reads]
<1>1. r = [at |-> r.at, pending |-> r.pending, reads |-> r.reads]
  OBVIOUS
<1>2. PICK a, b, c : a = r.at /\ b = r.pending /\ c = r.reads
  OBVIOUS
<1>3. PICK q : q = [at |-> a, pending |-> b, reads |-> c]
  OBVIOUS
<1>4. [q EXCEPT !.at = at] = [at |-> at, pending |-> b, reads |-> c]
  BY <1>3
<1>5. [[at |-> at, pending |-> b, reads |-> c] EXCEPT !.pending = pending]
         = [at |-> at, pending |-> pending, reads |-> c]
  OBVIOUS
<1>6. q = r
  BY <1>1, <1>2, <1>3
<1> QED BY Zenon, <1>2, <1>4, <1>5, <1>6

Capture == [at : {"reading", "cutting", "ended"}, pending : Seq(Byte), reads : Nat]

(* What is noted of the kept lines is true, and what waits for the end of a line is short. *)
OutputInv ==
    /\ streams \in [Stream -> Capture]
    /\ \A s \in Stream :
          Len(streams[s].pending) < (IF streams[s].at = "cutting" THEN 3 ELSE 2) * ReadChunk
    /\ output.lines \in Seq(Nat) /\ output.bytes = Total(output.lines)
    /\ Len(output.lines) <= MaxOutputLines /\ output.bytes <= MaxOutputBytes

(* The invariant holds before anything is read. *)
LEMMA OutputInvInit == OutputInit => OutputInv
<1> SUFFICES ASSUME OutputInit PROVE OutputInv
  OBVIOUS
<1>1. ReadChunk \in Nat \ {0} /\ MaxOutputLines \in Nat \ {0} /\ MaxOutputBytes \in Nat
  BY OutputAssumption
<1>2. <<>> \in Seq(Byte) /\ <<>> \in Seq(Nat) /\ Len(<<>>) = 0
  OBVIOUS
<1>3. streams \in [Stream -> Capture]
  BY <1>2 DEF OutputInit, Capture
<1>4. \A s \in Stream : streams[s].pending = <<>> /\ streams[s].at = "reading"
  BY DEF OutputInit
<1>5. \A s \in Stream :
         Len(streams[s].pending) < (IF streams[s].at = "cutting" THEN 3 ELSE 2) * ReadChunk
  BY <1>1, <1>2, <1>4
<1>6. output.lines = <<>> /\ output.bytes = 0
  BY DEF OutputInit
<1> QED BY <1>1, <1>2, <1>3, <1>5, <1>6, TotalEmpty DEF OutputInv

(* What a push does to the list: Leaves holds of it. *)
Pushed(lines, kept) ==
    \E line \in Nat, n \in 0..Len(lines) : Leaves(Append(lines, line), kept, n)

(* push: some number of the oldest lines gives way for the new one. *)
LEMMA PushKeeps ==
    ASSUME OutputInv, NEW raw \in Seq(Byte), Push(raw)
    PROVE  Pushed(output.lines, output')
<1>1. LineBytes(raw) \in Nat /\ LineBytes(raw) <= MaxOutputBytes
  BY LinesFit
<1>2. PICK lines, line : lines = output.lines /\ line = LineBytes(raw)
  OBVIOUS
<1>3. lines \in Seq(Nat) /\ line \in Nat /\ line <= MaxOutputBytes
  BY <1>1, <1>2 DEF OutputInv
<1>4. output' = EvictOldest(Append(lines, line), Total(lines) + line)
  BY <1>2 DEF Push, OutputInv
<1>5. \E n \in 0..Len(lines) :
         Leaves(Append(lines, line), EvictOldest(Append(lines, line), Total(lines) + line), n)
  BY <1>3, OldestAreEvicted
<1> QED BY <1>2, <1>3, <1>4, <1>5 DEF Pushed

(* What Leaves gives. *)
LEMMA WhatIsLeft ==
    ASSUME NEW lines \in Seq(Nat), NEW kept, NEW line \in Nat, NEW n \in 0..Len(lines),
           Leaves(Append(lines, line), kept, n)
    PROVE  /\ kept.lines \in Seq(Nat) /\ kept.bytes = Total(kept.lines)
           /\ Len(kept.lines) <= MaxOutputLines /\ kept.bytes <= MaxOutputBytes
           /\ Len(kept.lines) = Len(lines) + 1 - n
           /\ Front(kept.lines) = From(lines, n + 1)
           /\ n > 0 => \/ Len(kept.lines) = MaxOutputLines
                       \/ lines[n] + Total(kept.lines) > MaxOutputBytes
<1>1. Len(lines) \in Nat /\ n \in Nat /\ MaxOutputLines \in Nat
  BY OutputAssumption
<1>2. PICK all : all = Append(lines, line)
  OBVIOUS
<1>3. /\ all \in Seq(Nat) /\ Len(all) = Len(lines) + 1
      /\ \A i \in 1..Len(lines) : all[i] = lines[i]
  BY <1>2
<1>4. PICK new : new = kept.lines
  OBVIOUS
<1>5. new = SubSeq(all, n + 1, Len(lines) + 1)
  BY <1>2, <1>3, <1>4 DEF Leaves, From
<1>6. new \in Seq(Nat) /\ Len(new) = Len(lines) + 1 - n
  BY <1>1, <1>3, <1>5
<1>7. Front(new) = From(lines, n + 1)
  <2>1. PICK front : front = SubSeq(new, 1, Len(new) - 1)
    OBVIOUS
  <2>2. PICK back : back = SubSeq(lines, n + 1, Len(lines))
    OBVIOUS
  <2>3. /\ front \in Seq(Nat) /\ Len(front) = Len(lines) - n
        /\ \A i \in 1..(Len(lines) - n) : front[i] = new[i]
    BY SMTT(60), <1>1, <1>6, <2>1
  <2>4. /\ back \in Seq(Nat) /\ Len(back) = Len(lines) - n
        /\ \A i \in 1..(Len(lines) - n) : back[i] = lines[n + i]
    <3>1. n + 1 \in 1..(Len(lines) + 1)
      BY <1>1
    <3>2. back \in Seq(Nat) /\ Len(back) = Len(lines) - n
      BY <1>1, <2>2, <3>1
    <3>3. \A i \in 1..(Len(lines) - n) : back[i] = lines[n + i]
      BY <1>1, <2>2, <3>1
    <3> QED BY <3>2, <3>3
  <2>5. \A i \in 1..(Len(lines) - n) : new[i] = all[n + i] /\ n + i \in 1..Len(lines)
    BY <1>1, <1>3, <1>5
  <2>6. \A i \in 1..(Len(lines) - n) : front[i] = back[i]
    BY <1>3, <2>3, <2>4, <2>5
  <2>7. front = back
    <3>1. Len(front) = Len(back) /\ \A i \in 1..Len(front) : front[i] = back[i]
      BY <2>3, <2>4, <2>6
    <3> QED BY <2>3, <2>4, <3>1, SameNumbers
  <2> QED BY <2>1, <2>2, <2>7 DEF Front, From
<1>8. n > 0 => all[n] = lines[n]
  BY <1>1, <1>3
<1> QED BY <1>1, <1>2, <1>4, <1>6, <1>7, <1>8 DEF Leaves

(* The bounds hold after a push. *)
LEMMA OutputAfterPush ==
    ASSUME OutputInv, NEW kept, Pushed(output.lines, kept)
    PROVE  /\ kept.lines \in Seq(Nat) /\ kept.bytes = Total(kept.lines)
           /\ Len(kept.lines) <= MaxOutputLines /\ kept.bytes <= MaxOutputBytes
<1>1. PICK lines : lines = output.lines
  OBVIOUS
<1>2. lines \in Seq(Nat)
  BY <1>1 DEF OutputInv
<1>3. PICK line \in Nat, n \in 0..Len(lines) : Leaves(Append(lines, line), kept, n)
  BY <1>1 DEF Pushed
<1> QED BY <1>2, <1>3, WhatIsLeft

(* A step is a push, or leaves the list; and it moves one task. *)
Moves(s, at, pending, reads) ==
    /\ at \in {"reading", "cutting", "ended"} /\ pending \in Seq(Byte) /\ reads \in Nat
    /\ Len(pending) < (IF at = "cutting" THEN 3 ELSE 2) * ReadChunk
    /\ streams' = [streams EXCEPT ![s] = [at |-> at, pending |-> pending, reads |-> reads]]

(* A change of one stream by Captures is a move of it. *)
LEMMA CapturesMoves ==
    ASSUME OutputInv, NEW s \in Stream, NEW at \in {"reading", "cutting", "ended"},
           NEW pending \in Seq(Byte),
           Len(pending) < (IF at = "cutting" THEN 3 ELSE 2) * ReadChunk,
           Captures(s, at, pending)
    PROVE  Moves(s, at, pending, streams[s].reads)
<1>1. streams \in [Stream -> Capture]
  BY DEF OutputInv
<1>2. streams[s] \in Capture
  BY <1>1
<1>3. /\ streams[s].reads \in Nat
      /\ [[streams[s] EXCEPT !.at = at] EXCEPT !.pending = pending]
           = [at |-> at, pending |-> pending, reads |-> streams[s].reads]
  <2>1. streams[s].reads \in Nat
    BY <1>2 DEF Capture
  <2>2. PICK r : r = streams[s]
    OBVIOUS
  <2>3. r \in [at : {"reading", "cutting", "ended"}, pending : Seq(Byte), reads : Nat]
    BY <1>2, <2>2 DEF Capture
  <2>4. [[r EXCEPT !.at = at] EXCEPT !.pending = pending]
           = [at |-> at, pending |-> pending, reads |-> r.reads]
    BY <2>3, CaptureChanges
  <2> QED BY <2>1, <2>2, <2>4
<1>4. streams' = [[streams EXCEPT ![s].at = at] EXCEPT ![s].pending = pending]
  BY DEF Captures
<1>5. streams' = [streams EXCEPT ![s] =
                     [[streams[s] EXCEPT !.at = at] EXCEPT !.pending = pending]]
  BY <1>1, <1>4
<1> QED BY <1>3, <1>5 DEF Moves

(* The invariant survives any move of one stream within its bounds. *)
LEMMA OutputInvMoves ==
    ASSUME OutputInv, NEW s \in Stream, NEW at, NEW pending, NEW reads,
           Moves(s, at, pending, reads), Pushed(output.lines, output') \/ UNCHANGED output
    PROVE  OutputInv'
<1>1. streams \in [Stream -> Capture]
  BY DEF OutputInv
<1>2. [at |-> at, pending |-> pending, reads |-> reads] \in Capture
  BY DEF Moves, Capture
<1>3. streams' \in [Stream -> Capture]
  BY <1>1, <1>2 DEF Moves
<1>4. ASSUME NEW o \in Stream
      PROVE  Len(streams'[o].pending)
               < (IF streams'[o].at = "cutting" THEN 3 ELSE 2) * ReadChunk
  <2>1. CASE o = s
    <3>1. streams'[o] = [at |-> at, pending |-> pending, reads |-> reads]
      BY <1>1, <2>1 DEF Moves
    <3> QED BY <3>1 DEF Moves
  <2>2. CASE o # s
    <3>1. streams'[o] = streams[o]
      BY <1>1, <2>2 DEF Moves
    <3> QED BY <3>1 DEF OutputInv
  <2> QED BY <2>1, <2>2
<1>5. /\ output'.lines \in Seq(Nat) /\ output'.bytes = Total(output'.lines)
      /\ Len(output'.lines) <= MaxOutputLines /\ output'.bytes <= MaxOutputBytes
  <2>1. CASE Pushed(output.lines, output')
    BY <2>1, OutputAfterPush
  <2>2. CASE UNCHANGED output
    BY <2>2 DEF OutputInv
  <2> QED BY <2>1, <2>2
<1> QED BY <1>3, <1>4, <1>5 DEF OutputInv

(* What every step does. *)
StepMoves ==
    \E s \in Stream : \E at, pending, reads :
       /\ Moves(s, at, pending, reads)
       /\ Pushed(output.lines, output') \/ UNCHANGED output

(* A chunk that was read goes behind what is pending, which leaves room for it. *)
LEMMA ReadMoves ==
    ASSUME OutputInv, NEW s \in Stream, ReadOutput(s)
    PROVE  StepMoves
<1>1. streams \in [Stream -> Capture] /\ streams[s] \in Capture
  BY DEF OutputInv
<1>2. PICK n \in 1..ReadChunk : \E chunk \in [1..n -> Byte] :
         streams' = [streams EXCEPT
            ![s] = [at |-> "cutting", pending |-> @.pending \o chunk, reads |-> @.reads + 1]]
  BY DEF ReadOutput
<1>3. PICK chunk \in [1..n -> Byte] :
         streams' = [streams EXCEPT
            ![s] = [at |-> "cutting", pending |-> @.pending \o chunk, reads |-> @.reads + 1]]
  BY <1>2
<1>4. ReadChunk \in Nat \ {0} /\ n \in Nat /\ n <= ReadChunk
  BY OutputAssumption
<1>5. chunk \in Seq(Byte) /\ Len(chunk) = n
  BY <1>4
<1>6. PICK old, reads : old = streams[s].pending /\ reads = streams[s].reads + 1
  OBVIOUS
<1>7. old \in Seq(Byte) /\ reads \in Nat /\ Len(old) < 2 * ReadChunk
  <2>1. streams[s].pending \in Seq(Byte) /\ streams[s].reads \in Nat
    BY <1>1 DEF Capture
  <2>2. streams[s].at = "reading"
    BY DEF ReadOutput
  <2>3. Len(streams[s].pending) < 2 * ReadChunk
    BY <2>2 DEF OutputInv
  <2> QED BY <1>6, <2>1, <2>3
<1>8. PICK new : new = old \o chunk
  OBVIOUS
<1>9. new \in Seq(Byte) /\ Len(new) = Len(old) + n
  <2>1. old \in Seq(Byte) /\ chunk \in Seq(Byte)
    BY <1>5, <1>7
  <2>2. old \o chunk \in Seq(Byte) /\ Len(old \o chunk) = Len(old) + Len(chunk)
    BY <2>1, TextsJoin
  <2> QED BY Zenon, <1>5, <1>8, <2>2
<1>10. Len(new) < 3 * ReadChunk
  <2>1. Len(old) \in Nat
    BY <1>7
  <2> QED BY <1>4, <1>7, <1>9, <2>1
<1>11. streams' = [streams EXCEPT ![s] = [at |-> "cutting", pending |-> new, reads |-> reads]]
  BY <1>1, <1>3, <1>6, <1>8
<1>12. Moves(s, "cutting", new, reads)
  BY <1>7, <1>9, <1>10, <1>11 DEF Moves
<1>13. UNCHANGED output
  BY DEF ReadOutput
<1> QED BY <1>12, <1>13 DEF StepMoves

(* The cut of a line takes it and its end away from what is pending. *)
LEMMA CutMoves ==
    ASSUME OutputInv, NEW s \in Stream, streams[s].at = "cutting",
           NEW at \in {"reading", "cutting"}, NEW n \in 1..Len(streams[s].pending),
           Len(streams[s].pending) - n < (IF at = "cutting" THEN 3 ELSE 2) * ReadChunk,
           Cut(s, at, n)
    PROVE  StepMoves
<1>1. PICK old : old = streams[s].pending
  OBVIOUS
<1>2. old \in Seq(Byte) /\ Len(old) \in Nat /\ n \in 1..Len(old)
  <2>1. streams[s] \in Capture
    BY DEF OutputInv
  <2>2. streams[s].pending \in Seq(Byte)
    BY <2>1 DEF Capture
  <2> QED BY <1>1, <2>2
<1>3. SubSeq(old, 1, n) \in Seq(Byte)
  BY <1>2
<1>4. Pushed(output.lines, output')
  <2>1. Push(SubSeq(old, 1, n))
    BY <1>1 DEF Cut
  <2> QED BY <1>3, <2>1, PushKeeps
<1>5. PICK rest : rest = From(old, n + 1)
  OBVIOUS
<1>6. n + 1 \in 1..Len(old) + 1 /\ Len(old) - (n + 1) + 1 = Len(old) - n
  BY <1>2
<1>7. rest \in Seq(Byte) /\ Len(rest) = Len(old) - n
  BY <1>2, <1>5, <1>6, FromIsText
<1>8. Captures(s, at, rest)
  BY <1>1, <1>5 DEF Cut
<1>9. Len(rest) < (IF at = "cutting" THEN 3 ELSE 2) * ReadChunk
  BY <1>1, <1>7
<1>10. Moves(s, at, rest, streams[s].reads)
  BY <1>7, <1>8, <1>9, CapturesMoves
<1> QED BY <1>4, <1>10 DEF StepMoves

(* A line that has ended is pushed. *)
LEMMA CutLineMoves ==
    ASSUME OutputInv, NEW s \in Stream, CutLine(s)
    PROVE  StepMoves
<1>1. streams[s].at = "cutting" /\ Newlines(s) # {} /\ Cut(s, "cutting", Min(Newlines(s)))
  BY DEF CutLine
<1>2. PICK n : n = Min(Newlines(s))
  OBVIOUS
<1>3. PICK old : old = streams[s].pending
  OBVIOUS
<1>4. old \in Seq(Byte) /\ Len(old) \in Nat /\ DOMAIN old = 1..Len(old)
  <2>1. streams[s] \in Capture
    BY DEF OutputInv
  <2>2. streams[s].pending \in Seq(Byte)
    BY <2>1 DEF Capture
  <2> QED BY <1>3, <2>2
<1>5. Newlines(s) \in SUBSET (1..Len(old))
  BY <1>3, <1>4 DEF Newlines
<1>6. n \in 1..Len(old)
  <2>1. Newlines(s) \in SUBSET Nat
    BY <1>4, <1>5
  <2>2. n \in Newlines(s)
    BY <1>1, <1>2, <2>1, MinIsThere
  <2> QED BY <1>5, <2>2
<1>7. Len(old) < 3 * ReadChunk
  BY <1>1, <1>3 DEF OutputInv
<1>8. ReadChunk \in Nat
  BY OutputAssumption
<1>9. Len(old) - n < 3 * ReadChunk
  BY <1>4, <1>6, <1>7, <1>8
<1> QED BY <1>1, <1>2, <1>3, <1>6, <1>9, CutMoves

(* A line that is too long is pushed in parts. *)
LEMMA CutChunkMoves ==
    ASSUME OutputInv, NEW s \in Stream, CutChunk(s)
    PROVE  StepMoves
<1>1. streams[s].at = "cutting"
  BY DEF CutChunk
<1>2. PICK old : old = streams[s].pending
  OBVIOUS
<1>3. old \in Seq(Byte) /\ Len(old) \in Nat
  <2>1. streams[s] \in Capture
    BY DEF OutputInv
  <2>2. streams[s].pending \in Seq(Byte)
    BY <2>1 DEF Capture
  <2> QED BY <1>2, <2>2
<1>4. Len(old) < 3 * ReadChunk
  BY <1>1, <1>2 DEF OutputInv
<1>5. ReadChunk \in Nat \ {0}
  BY OutputAssumption
<1>6. CASE Len(old) >= 2 * ReadChunk
  <2>1. Cut(s, "reading", ReadChunk)
    BY <1>2, <1>6 DEF CutChunk
  <2>2. ReadChunk \in 1..Len(old) /\ Len(old) - ReadChunk < 2 * ReadChunk
    BY <1>3, <1>4, <1>5, <1>6
  <2> QED BY <1>1, <1>2, <2>1, <2>2, CutMoves
<1>7. CASE ~ (Len(old) >= 2 * ReadChunk)
  <2>1. Captures(s, "reading", old) /\ UNCHANGED output
    BY <1>2, <1>7 DEF CutChunk
  <2>2. Len(old) < 2 * ReadChunk
    BY <1>3, <1>5, <1>7
  <2>3. Moves(s, "reading", old, streams[s].reads)
    BY <1>3, <2>1, <2>2, CapturesMoves
  <2> QED BY <2>1, <2>3 DEF StepMoves
<1> QED BY <1>6, <1>7

(* The end of a stream pushes what is pending, or drops it when a read has failed. *)
LEMMA StreamEndMoves ==
    ASSUME OutputInv, NEW s \in Stream, StreamEnds(s) \/ ReadFails(s)
    PROVE  StepMoves
<1>1. PICK old : old = streams[s].pending
  OBVIOUS
<1>2. old \in Seq(Byte)
  <2>1. streams[s] \in Capture
    BY DEF OutputInv
  <2> QED BY <1>1, <2>1 DEF Capture
<1>3. Captures(s, "ended", <<>>)
  BY DEF StreamEnds, ReadFails
<1>4. <<>> \in Seq(Byte) /\ Len(<<>>) < 2 * ReadChunk
  BY OutputAssumption
<1>5. Moves(s, "ended", <<>>, streams[s].reads)
  BY <1>3, <1>4, CapturesMoves
<1>6. Push(old) \/ UNCHANGED output
  BY <1>1 DEF StreamEnds, ReadFails
<1>7. Pushed(output.lines, output') \/ UNCHANGED output
  BY <1>2, <1>6, PushKeeps
<1> QED BY <1>5, <1>7 DEF StepMoves

(* Every step is a move of one stream. *)
LEMMA OutputSteps ==
    ASSUME OutputInv, OutputNext
    PROVE  StepMoves
<1>1. PICK s \in Stream :
          ReadOutput(s) \/ CutLine(s) \/ CutChunk(s) \/ StreamEnds(s) \/ ReadFails(s)
  BY DEF OutputNext
<1> QED BY <1>1, ReadMoves, CutLineMoves, CutChunkMoves, StreamEndMoves

(* The invariant is inductive. *)
LEMMA OutputInvNext == OutputInv /\ [OutputNext]_outputVars => OutputInv'
<1> SUFFICES ASSUME OutputInv, [OutputNext]_outputVars PROVE OutputInv'
  OBVIOUS
<1>1. CASE OutputNext
  BY <1>1, OutputSteps, OutputInvMoves DEF StepMoves
<1>2. CASE UNCHANGED outputVars
  <2>1. streams' = streams /\ output' = output
    BY <1>2 DEF outputVars
  <2> QED BY <2>1 DEF OutputInv
<1> QED BY <1>1, <1>2

(* It holds in every behaviour. *)
LEMMA OutputAlways == OutputSafety => []OutputInv
BY OutputInvInit, OutputInvNext, PTL DEF OutputSafety

(* In every behaviour what is kept of cloudflared's output has as many bytes as is noted, within   *)
(* both limits of its lines and its bytes, and what waits for the end of a line is bounded too     *)
(* (cloudflared.rs capture_output, RecentOutput::push).                                            *)
THEOREM OutputStaysBounded == OutputSafety => []OutputIsBounded
<1>1. OutputInv => OutputIsBounded
  <2> SUFFICES ASSUME OutputInv PROVE OutputIsBounded
    OBVIOUS
  <2>1. \A s \in Stream : streams[s].at # "cutting" => Len(streams[s].pending) < 2 * ReadChunk
    BY DEF OutputInv
  <2> QED BY <2>1 DEF OutputInv, OutputIsBounded
<1> QED BY <1>1, OutputAlways, PTL

(* NewestOutputIsKept, of one step. *)
NewestIsKept ==
    output' # output =>
        LET new == output'.lines
            dropped == Len(output.lines) + 1 - Len(new)
        IN  /\ new # <<>> /\ Front(new) = From(output.lines, dropped + 1)
            /\ dropped > 0 =>
                  \/ Len(new) = MaxOutputLines
                  \/ output.lines[dropped] + Total(new) > MaxOutputBytes

(* The oldest lines give way, and no more of them than must. *)
LEMMA NewestAfterPush ==
    ASSUME NEW lines \in Seq(Nat), NEW kept, Pushed(lines, kept)
    PROVE  /\ kept.lines # <<>>
           /\ Front(kept.lines) = From(lines, Len(lines) + 1 - Len(kept.lines) + 1)
           /\ Len(lines) + 1 - Len(kept.lines) > 0 =>
                \/ Len(kept.lines) = MaxOutputLines
                \/ lines[Len(lines) + 1 - Len(kept.lines)] + Total(kept.lines) > MaxOutputBytes
<1>1. PICK line \in Nat, n \in 0..Len(lines) : Leaves(Append(lines, line), kept, n)
  BY DEF Pushed
<1>2. /\ Len(kept.lines) = Len(lines) + 1 - n
      /\ Front(kept.lines) = From(lines, n + 1)
      /\ n > 0 => \/ Len(kept.lines) = MaxOutputLines
                  \/ lines[n] + Total(kept.lines) > MaxOutputBytes
  BY <1>1, WhatIsLeft
<1>3. PICK len : len = Len(kept.lines)
  OBVIOUS
<1>4. Len(lines) \in Nat /\ n \in Nat
  OBVIOUS
<1>5. Len(lines) + 1 - len = n /\ len # 0
  BY <1>2, <1>3, <1>4
<1>6. kept.lines # <<>>
  BY <1>3, <1>5
<1> QED BY <1>2, <1>3, <1>5, <1>6

(* In every behaviour a push keeps the newest lines, in their order, and drops a line only when it *)
(* would not fit any more (cloudflared.rs RecentOutput::push).                                     *)
THEOREM NewestOutputStays == OutputSafety => NewestOutputIsKept
<1>1. OutputInv /\ [OutputNext]_outputVars => [NewestIsKept]_outputVars
  <2> SUFFICES ASSUME OutputInv, OutputNext, output' # output PROVE NewestIsKept
    BY DEF NewestIsKept, outputVars
  <2>1. Pushed(output.lines, output')
    BY OutputSteps DEF StepMoves
  <2>2. PICK lines, kept : lines = output.lines /\ kept = output'
    OBVIOUS
  <2>3. lines \in Seq(Nat) /\ Pushed(lines, kept)
    BY <2>1, <2>2 DEF OutputInv
  <2> QED BY <2>2, <2>3, NewestAfterPush DEF NewestIsKept
<1> QED BY <1>1, OutputAlways, PTL DEF OutputSafety, NewestOutputIsKept, NewestIsKept
==============================================================================
