---------------------------- MODULE Lists_proofs ----------------------------
(***************************************************************************)
(* Facts about numbers, sequences and folds that the proofs about mail      *)
(* going in and out rest on.  The induction theorems of the library take a  *)
(* predicate as a parameter; here its place is taken by the set of the       *)
(* numbers that have the property.                                          *)
(***************************************************************************)
EXTENDS Naturals, Sequences, FiniteSets, SequencesExt, SequenceTheorems,
        FiniteSetTheorems, WellFoundedInduction, TLAPS

-----------------------------------------------------------------------------
(* Numbers *)

(* A set of naturals that is not empty has a least element. *)
LEMMA LeastOf ==
  ASSUME NEW T, T \subseteq Nat, T # {}
  PROVE  \E x \in T : \A y \in T : x <= y
<1> DEFINE less == OpToRel(<, Nat)
<1>1. PICK x \in T : \A y \in T : ~(<<y, x>> \in less)
  <2> HIDE DEF less
  <2>1. IsWellFoundedOn(less, Nat)
    BY NatLessThanWellFounded, Zenon DEF less
  <2> QED
    BY <2>1, WFMin
<1>2. \A y \in T : ~(y < x)
  BY <1>1 DEF OpToRel
<1> QED
  BY <1>2

(* One below a bound has a greatest. *)
LEMMA GreatestOf ==
  ASSUME NEW n \in Nat, NEW T, T \subseteq 0..n, T # {}
  PROVE  \E x \in T : \A y \in T : y <= x
<1> DEFINE rest == {n - x : x \in T}
<1>0. PICK y \in T : TRUE
  OBVIOUS
<1>1. rest \subseteq Nat /\ n - y \in rest
  OBVIOUS
<1>2. PICK z \in rest : \A v \in rest : z <= v
  <2>1. rest # {}
    BY <1>1
  <2> HIDE DEF rest
  <2> QED
    BY <1>1, <2>1, LeastOf
<1>3. PICK x \in T : z = n - x
  OBVIOUS
<1>4. \A v \in T : n - x <= n - v
  BY <1>2, <1>3
<1> QED
  BY <1>4

LEMMA MinIs ==
  ASSUME NEW T, T \subseteq Nat, T # {}
  PROVE  Min(T) \in T /\ \A y \in T : Min(T) <= y
BY LeastOf DEF Min

LEMMA MaxIs ==
  ASSUME NEW n \in Nat, NEW T, T \subseteq 0..n, T # {}
  PROVE  Max(T) \in T /\ \A y \in T : y <= Max(T)
BY GreatestOf DEF Max

(* What holds of 0 and passes on to the next number holds of all up to n. *)
LEMMA Induct ==
  ASSUME NEW n \in Nat, NEW T, 0 \in T, \A i \in 0..(n - 1) : i \in T => i + 1 \in T
  PROVE  0..n \subseteq T
<1> DEFINE bad == (0..n) \ T
<1> SUFFICES ASSUME bad # {} PROVE FALSE
  OBVIOUS
<1>1. PICK x \in bad : \A y \in bad : x <= y
  <2>1. bad \subseteq Nat
    OBVIOUS
  <2> HIDE DEF bad
  <2> QED
    BY <2>1, LeastOf
<1>2. x # 0 /\ x - 1 \in 0..(n - 1)
  BY <1>1
<1>3. x - 1 \in T
  BY <1>1, <1>2
<1>4. (x - 1) + 1 \in T
  BY <1>2, <1>3
<1> QED
  BY <1>1, <1>4

-----------------------------------------------------------------------------
(* Sequences *)

(* x is in the sequence q. *)
Holds(q, x) == \E i \in DOMAIN q : q[i] = x

(* Putting sequences together puts together what they hold. *)
LEMMA ConcatHolds ==
  ASSUME NEW S, NEW a \in Seq(S), NEW c \in Seq(S)
  PROVE  \A x : Holds(a \o c, x) <=> Holds(a, x) \/ Holds(c, x)
<1>1. Len(a) \in Nat /\ Len(c) \in Nat /\ DOMAIN a = 1..Len(a) /\ DOMAIN c = 1..Len(c)
  OBVIOUS
<1>2. DOMAIN (a \o c) = 1..(Len(a) + Len(c))
  BY DEF Holds
<1>3. \A i \in 1..(Len(a) + Len(c)) :
        (a \o c)[i] = IF i <= Len(a) THEN a[i] ELSE c[i - Len(a)]
  BY DEF Holds
<1>4. ASSUME NEW x, Holds(a \o c, x) PROVE Holds(a, x) \/ Holds(c, x)
  <2>1. PICK i \in 1..(Len(a) + Len(c)) : (a \o c)[i] = x
    BY <1>2, <1>4 DEF Holds
  <2>2. CASE i <= Len(a)
    BY <1>1, <1>3, <2>1, <2>2 DEF Holds
  <2>3. CASE ~(i <= Len(a))
    <3>1. i - Len(a) \in 1..Len(c)
      BY <1>1, <2>1, <2>3
    <3> QED
      BY <1>1, <1>3, <2>1, <2>3, <3>1 DEF Holds
  <2> QED
    BY <2>2, <2>3
<1>5. ASSUME NEW x, Holds(a, x) PROVE Holds(a \o c, x)
  <2>1. PICK i \in 1..Len(a) : a[i] = x
    BY <1>1, <1>5 DEF Holds
  <2>2. i \in 1..(Len(a) + Len(c)) /\ i <= Len(a)
    BY <1>1
  <2> QED
    BY <1>2, <1>3, <2>1, <2>2 DEF Holds
<1>6. ASSUME NEW x, Holds(c, x) PROVE Holds(a \o c, x)
  <2>1. PICK i \in 1..Len(c) : c[i] = x
    BY <1>1, <1>6 DEF Holds
  <2>2. i + Len(a) \in 1..(Len(a) + Len(c)) /\ ~(i + Len(a) <= Len(a))
          /\ (i + Len(a)) - Len(a) = i
    BY <1>1
  <2> QED
    BY <1>2, <1>3, <2>1, <2>2 DEF Holds
<1> QED
  BY <1>4, <1>5, <1>6

LEMMA AppendHolds ==
  ASSUME NEW S, NEW a \in Seq(S), NEW y \in S
  PROVE  /\ Append(a, y) \in Seq(S)
         /\ \A x : Holds(Append(a, y), x) <=> Holds(a, x) \/ x = y
<1> DEFINE c == Append(a, y)
<1>1. c \in Seq(S) /\ Len(c) = Len(a) + 1 /\ Len(a) \in Nat /\ DOMAIN a = 1..Len(a)
  OBVIOUS
<1>2. DOMAIN c = 1..(Len(a) + 1) /\ c[Len(a) + 1] = y /\ \A i \in 1..Len(a) : c[i] = a[i]
  OBVIOUS
<1> HIDE DEF c
<1>3. \A i : i \in DOMAIN c <=> i \in DOMAIN a \/ i = Len(a) + 1
  BY <1>1, <1>2
<1>4. \A x : Holds(c, x) <=> Holds(a, x) \/ x = y
  BY <1>1, <1>2, <1>3 DEF Holds
<1> QED
  BY <1>1, <1>4 DEF c

-----------------------------------------------------------------------------
(* Folds *)

(* f is what a fold computes that starts from b and takes step[i] at place i.  *)
Unfolds(f, n, b, step) ==
  \A t \in SUBSET (1..n) : f[t] = IF t = {} THEN b ELSE step[Max(t)][f[t \ {Max(t)}]]

(* The recursion a fold is defined by has a solution. *)
LEMMA FoldFound ==
  ASSUME NEW n \in Nat, NEW Y, NEW b \in Y, NEW step \in [1..n -> [Y -> Y]]
  PROVE  \E f \in [SUBSET (1..n) -> Y] : Unfolds(f, n, b, step)
<1> DEFINE Folds(k, f) == \A t \in SUBSET (1..k) :
                           f[t] = IF t = {} THEN b ELSE step[Max(t)][f[t \ {Max(t)}]]
           T == {k \in 0..n : \E f \in [SUBSET (1..k) -> Y] : Folds(k, f)}
<1>1. 0 \in T
  <2> DEFINE f == [t \in SUBSET (1..0) |-> b]
  <2>1. 1..0 = {}
    OBVIOUS
  <2>2. f \in [SUBSET (1..0) -> Y] /\ Folds(0, f)
    BY <2>1
  <2>3. \E h \in [SUBSET (1..0) -> Y] : Folds(0, h)
    <3> HIDE DEF f, Folds
    <3> QED
      BY <2>2
  <2>4. 0 \in 0..n
    OBVIOUS
  <2> HIDE DEF Folds, f
  <2> QED
    BY <2>3, <2>4
<1>2. ASSUME NEW k \in 0..(n - 1), k \in T PROVE k + 1 \in T
  <2>1. PICK f \in [SUBSET (1..k) -> Y] : Folds(k, f)
    BY <1>2
  <2> DEFINE g == [t \in SUBSET (1..(k + 1)) |->
                     IF k + 1 \in t THEN step[k + 1][f[t \ {k + 1}]] ELSE f[t]]
  <2> HIDE DEF Folds
  <2>2. \A t \in SUBSET (1..(k + 1)) : t \ {k + 1} \in SUBSET (1..k)
    OBVIOUS
  <2>3. \A t \in SUBSET (1..(k + 1)) : k + 1 \notin t => t \in SUBSET (1..k)
    OBVIOUS
  <2>4. \A t \in SUBSET (1..k) : t \in SUBSET (1..(k + 1)) /\ k + 1 \notin t
    OBVIOUS
  <2>5. k + 1 \in 1..n
    OBVIOUS
  <2>6. g \in [SUBSET (1..(k + 1)) -> Y]
    BY <2>2, <2>3, <2>5
  <2>7. \A t \in SUBSET (1..k) : g[t] = f[t]
    BY <2>4
  <2>8. ASSUME NEW t \in SUBSET (1..(k + 1))
        PROVE  g[t] = IF t = {} THEN b ELSE step[Max(t)][g[t \ {Max(t)}]]
    <3>1. CASE k + 1 \in t
      <4>1. Max(t) = k + 1
        <5>1. t \subseteq 0..(k + 1) /\ t # {} /\ k + 1 \in Nat
          BY <3>1
        <5>2. Max(t) \in t /\ \A y \in t : y <= Max(t)
          BY <5>1, MaxIs
        <5>3. k + 1 <= Max(t)
          BY <5>2, <3>1
        <5>4. Max(t) \in 1..(k + 1)
          BY <5>2
        <5> QED
          BY <5>3, <5>4
      <4>2. g[t] = step[k + 1][f[t \ {k + 1}]] /\ t # {}
        BY <3>1
      <4>3. g[t \ {k + 1}] = f[t \ {k + 1}]
        BY <2>2, <2>7
      <4> HIDE DEF g
      <4> QED
        BY <4>1, <4>2, <4>3
    <3>2. CASE k + 1 \notin t
      <4>1. t \in SUBSET (1..k) /\ t \ {Max(t)} \in SUBSET (1..k)
        BY <2>3, <3>2
      <4>2. g[t] = f[t] /\ g[t \ {Max(t)}] = f[t \ {Max(t)}]
        BY <2>7, <4>1
      <4> HIDE DEF g
      <4> QED
        BY <2>1, <4>1, <4>2 DEF Folds
    <3> QED
      BY <3>1, <3>2
  <2> HIDE DEF g
  <2>9. Folds(k + 1, g)
    BY <2>8 DEF Folds
  <2> QED
    BY <2>6, <2>9
<1>3. n \in T
  <2>1. n \in 0..n
    OBVIOUS
  <2> HIDE DEF T
  <2> QED
    BY <1>1, <1>2, <2>1, Induct
<1> QED
  BY <1>3 DEF Unfolds

(* The sets a fold passes on its way are the ranges from 1 on. *)
LEMMA RangesFrom1 ==
  ASSUME NEW n \in Nat, NEW i \in 1..n
  PROVE  /\ (1..i) \in SUBSET (1..n) /\ (1..i) # {}
         /\ Max(1..i) = i /\ (1..i) \ {Max(1..i)} = 1..(i - 1)
<1>1. (1..i) \subseteq 0..n /\ i \in 1..i
  OBVIOUS
<1>2. Max(1..i) \in 1..i /\ \A y \in 1..i : y <= Max(1..i)
  <2>1. 1..i # {}
    BY <1>1
  <2> QED
    BY <1>1, <2>1, MaxIs
<1>3. i <= Max(1..i)
  BY <1>1, <1>2
<1>4. Max(1..i) = i
  BY <1>2, <1>3
<1>5. (1..i) \in SUBSET (1..n)
  OBVIOUS
<1>6. (1..i) \ {i} = 1..(i - 1)
  OBVIOUS
<1>7. (1..i) \ {Max(1..i)} = 1..(i - 1)
  BY <1>4, <1>6, Zenon
<1>8. 1..i # {}
  BY <1>1
<1> QED
  BY <1>4, <1>5, <1>7, <1>8, Zenon

-----------------------------------------------------------------------------
(* Lists of lists *)

(* What a list of lists holds when it is taken apart: the elements of the    *)
(* lists, and nothing else.                                                 *)
LEMMA FlattenFound ==
  ASSUME NEW S, NEW ss \in Seq(Seq(S))
  PROVE  \E f \in [1..Len(ss) -> Seq(S)] :
           f = [i \in 1..Len(ss) |-> IF i = 1 THEN ss[i] ELSE f[i - 1] \o ss[i]]
<1> DEFINE n == Len(ss)
           T == {k \in 0..n : \E f \in [1..k -> Seq(S)] :
                    \A i \in 1..k : f[i] = IF i = 1 THEN ss[i] ELSE f[i - 1] \o ss[i]}
<1>0. n \in Nat /\ \A i \in 1..n : ss[i] \in Seq(S)
  OBVIOUS
<1> HIDE DEF n
<1>1. 0 \in T
  <2>1. 1..0 = {} /\ 0 \in 0..n
    BY <1>0
  <2>2. [i \in 1..0 |-> <<>>] \in [1..0 -> Seq(S)]
    OBVIOUS
  <2> QED
    BY <2>1, <2>2
<1>2. ASSUME NEW k \in 0..(n - 1), k \in T PROVE k + 1 \in T
  <2>1. PICK f \in [1..k -> Seq(S)] :
          \A i \in 1..k : f[i] = IF i = 1 THEN ss[i] ELSE f[i - 1] \o ss[i]
    BY <1>2
  <2> DEFINE new == IF k + 1 = 1 THEN ss[k + 1] ELSE f[(k + 1) - 1] \o ss[k + 1]
             g == [i \in 1..(k + 1) |-> IF i = k + 1 THEN new ELSE f[i]]
  <2>2. k + 1 \in 1..n /\ k + 1 \in 0..n
    BY <1>0
  <2>3. new \in Seq(S)
    <3>1. CASE k = 0
      BY <1>0, <2>2, <3>1
    <3>2. CASE k # 0
      <4>1. (k + 1) - 1 \in 1..k
        BY <3>2
      <4>2. f[(k + 1) - 1] \in Seq(S) /\ ss[k + 1] \in Seq(S)
        BY <1>0, <2>2, <4>1
      <4> QED
        BY <3>2, <4>2
    <3> QED
      BY <3>1, <3>2
  <2>4. /\ g \in [1..(k + 1) -> Seq(S)]
        /\ g[k + 1] = new
        /\ \A i \in 1..k : g[i] = f[i]
    <3> HIDE DEF new
    <3> QED
      BY <2>3
  <2> HIDE DEF g
  <2>5. ASSUME NEW i \in 1..(k + 1)
        PROVE  g[i] = IF i = 1 THEN ss[i] ELSE g[i - 1] \o ss[i]
    <3>1. CASE i = k + 1
      <4>1. CASE k = 0
        BY <2>4, <3>1, <4>1
      <4>2. CASE k # 0
        <5>1. k \in 1..k /\ (k + 1) - 1 = k /\ k + 1 # 1
          BY <4>2
        <5> QED
          BY <2>4, <3>1, <5>1
      <4> QED
        BY <4>1, <4>2
    <3>2. CASE i # k + 1
      <4>1. i \in 1..k /\ (i # 1 => i - 1 \in 1..k)
        BY <3>2
      <4> QED
        BY <2>1, <2>4, <4>1
    <3> QED
      BY <3>1, <3>2
  <2> QED
    BY <2>2, <2>4, <2>5
<1>3. n \in T
  <2> HIDE DEF T
  <2>1. n \in 0..n
    BY <1>0
  <2> QED
    BY <1>0, <1>1, <1>2, <2>1, Induct
<1>4. PICK f \in [1..n -> Seq(S)] :
        \A i \in 1..n : f[i] = IF i = 1 THEN ss[i] ELSE f[i - 1] \o ss[i]
  BY <1>3
<1>5. f = [i \in 1..n |-> IF i = 1 THEN ss[i] ELSE f[i - 1] \o ss[i]]
  BY <1>4
<1> QED
  BY <1>5 DEF n

LEMMA FlattenElements ==
  ASSUME NEW S, NEW ss \in Seq(Seq(S))
  PROVE  /\ FlattenSeq(ss) \in Seq(S)
         /\ \A x : (\E i \in DOMAIN FlattenSeq(ss) : FlattenSeq(ss)[i] = x)
                     <=> \E j \in DOMAIN ss : \E i \in DOMAIN ss[j] : ss[j][i] = x
<1> DEFINE n == Len(ss)
           Sum(f) == [i \in 1..n |-> IF i = 1 THEN ss[i] ELSE f[i - 1] \o ss[i]]
           g == CHOOSE f : f = Sum(f)
           Within(j, x) == \E i \in DOMAIN ss[j] : ss[j][i] = x
           Of(q, x) == \E i \in DOMAIN q : q[i] = x
           T == {k \in 0..n : k # 0 => /\ g[k] \in Seq(S)
                                       /\ \A x : Of(g[k], x) <=> \E j \in 1..k : Within(j, x)}
<1>0. n \in Nat /\ DOMAIN ss = 1..n /\ \A i \in 1..n : ss[i] \in Seq(S)
  OBVIOUS
<1>1. CASE n = 0
  <2>1. ss = <<>>
    BY <1>1
  <2>2. FlattenSeq(ss) = ss
    BY <1>1, Zenon DEF FlattenSeq
  <2>3. DOMAIN ss = {}
    BY <1>0, <1>1
  <2>4. ss \in Seq(S)
    BY <2>1
  <2> QED
    BY <2>2, <2>3, <2>4, Zenon
<1>2. CASE n # 0
  <2>1. FlattenSeq(ss) = g[n]
    <3>1. Len(ss) # 0
      BY <1>2
    <3> QED
      BY <3>1, Zenon DEF FlattenSeq
  <2>2. g = Sum(g)
    <3>1. \E f : f = Sum(f)
      <4>1. \E f \in [1..Len(ss) -> Seq(S)] :
              f = [i \in 1..Len(ss) |-> IF i = 1 THEN ss[i] ELSE f[i - 1] \o ss[i]]
        BY FlattenFound
      <4> QED
        BY <4>1
    <3> HIDE DEF Sum
    <3> QED
      BY <3>1, Zenon
  <2> HIDE DEF g, n
  <2>3. \A i \in 1..n : g[i] = IF i = 1 THEN ss[i] ELSE g[i - 1] \o ss[i]
    BY <2>2
  <2>4. ASSUME NEW k \in 0..(n - 1), k \in T PROVE k + 1 \in T
    <3>1. k + 1 \in 1..n /\ k + 1 \in 0..n /\ ss[k + 1] \in Seq(S)
      BY <1>0
    <3>2. CASE k = 0
      <4>1. k + 1 = 1 /\ 1 \in 1..n
        BY <3>1, <3>2
      <4>2. g[1] = ss[1]
        BY <2>3, <4>1
      <4>3. \A j : j \in 1..1 <=> j = 1
        OBVIOUS
      <4>4. \A x : Of(g[1], x) <=> \E j \in 1..1 : Within(j, x)
        BY <4>2, <4>3
      <4> HIDE DEF Of, Within
      <4> QED
        BY <3>1, <4>1, <4>2, <4>4
    <3>3. CASE k # 0
      <4>1. g[k] \in Seq(S) /\ \A x : Of(g[k], x) <=> \E j \in 1..k : Within(j, x)
        BY <2>4, <3>3
      <4>2. g[k + 1] = g[k] \o ss[k + 1]
        <5>1. k + 1 # 1 /\ (k + 1) - 1 = k
          BY <3>3
        <5> QED
          BY <2>3, <3>1, <5>1
      <4>3. g[k + 1] \in Seq(S)
        BY <3>1, <4>1, <4>2
      <4>4. \A x : Of(g[k + 1], x) <=> Of(g[k], x) \/ Within(k + 1, x)
        <5> DEFINE a == g[k]
                   c == ss[k + 1]
        <5>1. a \in Seq(S) /\ c \in Seq(S)
          BY <3>1, <4>1
        <5> HIDE DEF a, c
        <5>2. \A x : Holds(a \o c, x) <=> Holds(a, x) \/ Holds(c, x)
          BY <5>1, ConcatHolds
        <5> QED
          BY <4>2, <5>2 DEF a, c, Holds
      <4>5. \A x : (\E j \in 1..(k + 1) : Within(j, x))
                     <=> (\E j \in 1..k : Within(j, x)) \/ Within(k + 1, x)
        <5> HIDE DEF Within
        <5>1. \A j : j \in 1..(k + 1) <=> j \in 1..k \/ j = k + 1
          OBVIOUS
        <5> QED
          BY <5>1
      <4> HIDE DEF Of, Within
      <4> QED
        BY <3>1, <4>1, <4>3, <4>4, <4>5
    <3> QED
      BY <3>2, <3>3
  <2>5. n \in T
    <3>1. 0 \in T /\ n \in 0..n /\ n \in Nat
      BY <1>0
    <3> HIDE DEF T
    <3> QED
      BY <2>4, <3>1, Induct
  <2> QED
    BY <1>0, <1>2, <2>1, <2>5
<1> QED
  BY <1>1, <1>2
-----------------------------------------------------------------------------
(* Finite sets *)

(* A finite set has a largest value of every measure. *)
LEMMA FiniteBound ==
  ASSUME NEW S, IsFiniteSet(S), NEW g, \A x \in S : g[x] \in Nat
  PROVE  \E b \in Nat : \A x \in S : g[x] <= b
<1> DEFINE n == Cardinality(S)
<1>1. n \in Nat /\ ExistsBijection(1..n, S)
  BY FS_CardinalityType
<1> HIDE DEF n
<1>2. PICK f \in [1..n -> S] : \A x \in S : \E i \in 1..n : f[i] = x
  BY <1>1 DEF ExistsBijection, Bijection, Surjection, Injection
<1> DEFINE T == {k \in 0..n : \E b \in Nat : \A i \in 1..k : g[f[i]] <= b}
<1>3. 0 \in T
  <2>1. 1..0 = {} /\ 0 \in 0..n /\ 0 \in Nat
    BY <1>1
  <2> QED
    BY <2>1
<1>4. ASSUME NEW k \in 0..(n - 1), k \in T PROVE k + 1 \in T
  <2>1. PICK b \in Nat : \A i \in 1..k : g[f[i]] <= b
    BY <1>4
  <2>2. k + 1 \in 1..n /\ k + 1 \in 0..n /\ 1..(k + 1) = 1..k \cup {k + 1} /\ 1..k \subseteq 1..n
    BY <1>1
  <2>3. g[f[k + 1]] \in Nat /\ \A i \in 1..k : g[f[i]] \in Nat
    BY <1>2, <2>2
  <2> DEFINE m == g[f[k + 1]]
  <2>4. m \in Nat
    BY <2>3
  <2>5. b + m \in Nat /\ \A i \in 1..k : g[f[i]] <= b + m
    <3> HIDE DEF m
    <3> QED
      BY <2>1, <2>3, <2>4
  <2>6. m <= b + m
    <3> HIDE DEF m
    <3> QED
      BY <2>4
  <2>7. \A i \in 1..(k + 1) : g[f[i]] <= b + m
    BY <2>2, <2>5, <2>6
  <2> HIDE DEF m
  <2> QED
    BY <2>2, <2>5, <2>7
<1>5. n \in T
  <2> HIDE DEF T
  <2>1. 0..n \subseteq T
    BY <1>1, <1>3, <1>4, Induct
  <2> QED
    BY <1>1, <2>1
<1>6. PICK b \in Nat : \A i \in 1..n : g[f[i]] <= b
  BY <1>5
<1> QED
  BY <1>2, <1>6

=============================================================================
