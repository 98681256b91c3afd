--------------------------- MODULE SequenceLemmas ---------------------------
(***************************************************************************)
(* Facts about sequences, for the proof modules: used as queues and as     *)
(* histories; folded or flattened, with the induction that takes; and      *)
(* found as a part of a longer one.                                        *)
(***************************************************************************)
EXTENDS Integers, SequencesExt, SequenceTheorems, WellFoundedInduction, TLAPS

(* Appending adds one element to what a sequence holds.                    *)
LEMMA RangeAppend ==
  ASSUME NEW S, NEW s \in Seq(S), NEW e \in S
  PROVE  Range(Append(s, e)) = Range(s) \cup {e}
<1>1. Range(<<e>>) = {e}
  BY DEF Range
<1>2. <<e>> \in Seq(S)
  OBVIOUS
<1>3. Append(s, e) = s \o <<e>>
  BY AppendIsConcat
<1>4. Range(s \o <<e>>) = Range(s) \cup Range(<<e>>)
  BY <1>2, RangeConcatenation
<1> QED BY <1>1, <1>3, <1>4

(* Appending what is not there keeps a sequence free of repetitions.       *)
LEMMA InjectiveAppend ==
  ASSUME NEW S, NEW s \in Seq(S), NEW e \in S, IsInjective(s), e \notin Range(s)
  PROVE  IsInjective(Append(s, e))
<1>1. \A i \in 1..Len(s) : s[i] # e
  BY DEF Range
<1> QED BY <1>1, AppendProperties DEF IsInjective

(* Where the elements of two sequences are when they are put together.     *)
Joins(S, s, t, u) ==
  /\ u \in Seq(S) /\ Len(u) = Len(s) + Len(t)
  /\ \A i \in 1..Len(s) : u[i] = s[i]
  /\ \A i \in 1..Len(t) : u[Len(s) + i] = t[i]

LEMMA Joined ==
  ASSUME NEW S, NEW s \in Seq(S), NEW t \in Seq(S)
  PROVE  Joins(S, s, t, s \o t)
<1>1. s \o t \in Seq(S) /\ Len(s \o t) = Len(s) + Len(t)
  BY ConcatProperties
<1>2. \A i \in 1..(Len(s) + Len(t)) : (s \o t)[i] = IF i <= Len(s) THEN s[i] ELSE t[i - Len(s)]
  BY ConcatProperties
<1>3. Len(s) \in Nat /\ Len(t) \in Nat
  BY LenProperties
<1>4. \A i \in 1..Len(s) : (s \o t)[i] = s[i]
  BY <1>2, <1>3
<1>5. ASSUME NEW i \in 1..Len(t) PROVE (s \o t)[Len(s) + i] = t[i]
  <2>1. Len(s) + i \in 1..(Len(s) + Len(t)) /\ ~(Len(s) + i <= Len(s)) /\ Len(s) + i - Len(s) = i
    BY <1>3
  <2> QED BY <1>2, <2>1
<1> QED BY <1>1, <1>4, <1>5 DEF Joins

(* Three sequences put together do not depend on which two come first.     *)
Regroups(s, t, u) == (s \o t) \o u = s \o (t \o u)

LEMMA Regrouped ==
  ASSUME NEW S, NEW s \in Seq(S), NEW t \in Seq(S), NEW u \in Seq(S)
  PROVE  Regroups(s, t, u)
<1>1. PICK a, b : a = s \o t /\ b = t \o u
  OBVIOUS
<1>2. Joins(S, s, t, a) /\ Joins(S, t, u, b)
  BY <1>1, Joined
<1>3. a \in Seq(S) /\ b \in Seq(S)
  BY <1>2 DEF Joins
<1>4. PICK v, w : v = a \o u /\ w = s \o b
  OBVIOUS
<1>5. Joins(S, a, u, v) /\ Joins(S, s, b, w)
  BY <1>3, <1>4, Joined
<1>6. PICK k, m, n : k = Len(s) /\ m = Len(t) /\ n = Len(u)
  OBVIOUS
<1>7. k \in Nat /\ m \in Nat /\ n \in Nat
  BY <1>6, LenProperties
<1>8. /\ \A i \in 1..k : a[i] = s[i]
      /\ \A i \in 1..m : a[k + i] = t[i] /\ b[i] = t[i]
      /\ \A i \in 1..n : b[m + i] = u[i]
      /\ Len(a) = k + m /\ Len(b) = m + n
  BY <1>2, <1>6 DEF Joins
<1>9. /\ \A i \in 1..(k + m) : v[i] = a[i]
      /\ \A i \in 1..n : v[(k + m) + i] = u[i]
      /\ \A i \in 1..k : w[i] = s[i]
      /\ \A i \in 1..(m + n) : w[k + i] = b[i]
      /\ v \in Seq(S) /\ w \in Seq(S) /\ Len(v) = (k + m) + n /\ Len(w) = k + (m + n)
  BY <1>5, <1>6, <1>8 DEF Joins
<1>10. ASSUME NEW i \in 1..((k + m) + n) PROVE v[i] = w[i]
  <2>1. CASE i \in 1..k
    <3>1. i \in 1..(k + m)
      BY <1>7, <2>1
    <3> QED BY <1>8, <1>9, <2>1, <3>1
  <2>2. CASE i - k \in 1..m
    <3>1. PICK j \in 1..m : i = k + j
      BY <1>7, <2>2
    <3>2. k + j \in 1..(k + m) /\ j \in 1..(m + n)
      BY <1>7
    <3>3. v[k + j] = t[j] /\ w[k + j] = t[j]
      BY <1>8, <1>9, <3>2
    <3> QED BY <3>1, <3>3
  <2>3. CASE i - (k + m) \in 1..n
    <3>1. PICK j \in 1..n : i = (k + m) + j
      BY <1>7, <2>3
    <3>2. m + j \in 1..(m + n) /\ (k + m) + j = k + (m + j)
      BY <1>7
    <3>3. v[(k + m) + j] = u[j] /\ w[k + (m + j)] = u[j]
      BY <1>8, <1>9, <3>2
    <3> QED BY <3>1, <3>2, <3>3
  <2> QED BY <1>7, <2>1, <2>2, <2>3
<1>11. Len(v) = (k + m) + n /\ Len(w) = (k + m) + n
  BY <1>7, <1>9
<1>12. v = w
  BY <1>9, <1>10, <1>11, SeqEqual
<1> QED BY <1>1, <1>4, <1>12 DEF Regroups

(* Moving the head of the list q to the end of f keeps f followed by q.    *)
LEMMA HeadMoves ==
  ASSUME NEW S, NEW f \in Seq(S), NEW q \in Seq(S), q # <<>>
  PROVE  Append(f, Head(q)) \o Tail(q) = f \o q
<1>1. Head(q) \in S /\ Tail(q) \in Seq(S) /\ <<Head(q)>> \in Seq(S)
  BY HeadTailProperties
<1>2. q = <<Head(q)>> \o Tail(q)
  OBVIOUS
<1>3. Append(f, Head(q)) = f \o <<Head(q)>>
  BY <1>1, AppendIsConcat
<1>4. Regroups(f, <<Head(q)>>, Tail(q))
  BY <1>1, Regrouped
<1> QED BY <1>2, <1>3, <1>4 DEF Regroups

(* Appending to the list appends to what was ever put.                     *)
LEMMA AppendRight ==
  ASSUME NEW S, NEW f \in Seq(S), NEW q \in Seq(S), NEW e \in S,
         NEW a \in Seq(S), a = f \o q
  PROVE  Append(a, e) = f \o Append(q, e)
<1>1. <<e>> \in Seq(S)
  OBVIOUS
<1>2. Append(a, e) = (f \o q) \o <<e>>
  BY AppendIsConcat
<1>3. Append(q, e) = q \o <<e>>
  BY AppendIsConcat
<1>4. Regroups(f, q, <<e>>)
  BY <1>1, Regrouped
<1> QED BY <1>2, <1>3, <1>4 DEF Regroups

(* The head of the list was not fetched before.                            *)
LEMMA HeadIsFresh ==
  ASSUME NEW S, NEW f \in Seq(S), NEW q \in Seq(S), q # <<>>, IsInjective(f \o q)
  PROVE  Head(q) \notin Range(f)
<1>1. SUFFICES ASSUME NEW i \in 1..Len(f), f[i] = Head(q) PROVE FALSE
  BY DEF Range
<1>2. Len(f) \in Nat /\ Len(q) \in Nat \ {0} /\ Head(q) = q[1]
  BY EmptySeq, LenProperties
<1>3. (f \o q)[i] = f[i] /\ (f \o q)[Len(f) + 1] = q[1]
  BY <1>2, ConcatProperties
<1>4. i \in DOMAIN (f \o q) /\ Len(f) + 1 \in DOMAIN (f \o q)
  BY <1>2, ConcatProperties, LenProperties
<1> QED BY <1>1, <1>2, <1>3, <1>4 DEF IsInjective

(* Taking the head of a queue without repetitions removes just that.       *)
LEMMA TailInjective ==
  ASSUME NEW S, NEW q \in Seq(S), q # <<>>
  PROVE  /\ Range(q) = Range(Tail(q)) \cup {Head(q)}
         /\ IsInjective(q) => IsInjective(Tail(q)) /\ Head(q) \notin Range(Tail(q))
<1>1. /\ Len(q) \in Nat \ {0} /\ DOMAIN q = 1..Len(q) /\ Head(q) = q[1]
      /\ Tail(q) \in Seq(S) /\ Len(Tail(q)) = Len(q) - 1
      /\ \A i \in 1..Len(Tail(q)) : Tail(q)[i] = q[i + 1]
  BY HeadTailProperties, EmptySeq, LenProperties
<1>2. DOMAIN Tail(q) = 1..(Len(q) - 1)
  BY <1>1, LenProperties
<1>3. ASSUME NEW x PROVE x \in Range(q) <=> x \in Range(Tail(q)) \/ x = Head(q)
  <2>1. ASSUME NEW i \in 1..Len(q), i # 1, x = q[i] PROVE x \in Range(Tail(q))
    <3>1. i - 1 \in 1..(Len(q) - 1) /\ Tail(q)[i - 1] = q[i]
      BY <1>1, <2>1
    <3> QED BY <1>2, <2>1, <3>1 DEF Range
  <2>2. ASSUME NEW i \in 1..(Len(q) - 1), x = Tail(q)[i] PROVE x \in Range(q)
    <3>1. i + 1 \in 1..Len(q) /\ Tail(q)[i] = q[i + 1]
      BY <1>1
    <3> QED BY <1>1, <2>2, <3>1 DEF Range
  <2> QED BY <1>1, <1>2, <2>1, <2>2 DEF Range
<1>4. ASSUME IsInjective(q)
      PROVE  IsInjective(Tail(q)) /\ Head(q) \notin Range(Tail(q))
  <2>1. ASSUME NEW i \in 1..(Len(q) - 1) PROVE Tail(q)[i] # Head(q)
    BY <1>1, <1>4 DEF IsInjective
  <2>2. ASSUME NEW i \in 1..(Len(q) - 1), NEW j \in 1..(Len(q) - 1), Tail(q)[i] = Tail(q)[j]
        PROVE  i = j
    <3>1. q[i + 1] = q[j + 1] /\ i + 1 \in 1..Len(q) /\ j + 1 \in 1..Len(q)
      BY <1>1, <2>2
    <3> QED BY <1>1, <1>4, <3>1 DEF IsInjective
  <2> QED BY <1>2, <2>1, <2>2 DEF IsInjective, Range
<1> QED BY <1>3, <1>4

(* What there is of a sequence from place m + 1 to place n.                *)
Parts(S, s, m, n, u) ==
  /\ u \in Seq(S) /\ Len(u) = n - m
  /\ \A i \in 1..(n - m) : u[i] = s[m + i]

LEMMA Parted ==
  ASSUME NEW S, NEW s \in Seq(S), NEW m \in Nat, NEW n \in Nat, m <= n, n <= Len(s)
  PROVE  Parts(S, s, m, n, SubSeq(s, m + 1, n))
<1>1. \A i \in (m + 1)..n : s[i] \in S
  BY LenProperties, ElementOfSeq
<1>2. /\ SubSeq(s, m + 1, n) \in Seq(S)
      /\ Len(SubSeq(s, m + 1, n)) = IF m + 1 <= n THEN n - (m + 1) + 1 ELSE 0
  BY <1>1, SubSeqProperties
<1>3. \A i \in 1..(n - (m + 1) + 1) : SubSeq(s, m + 1, n)[i] = s[(m + 1) + i - 1]
  BY <1>1, SubSeqProperties
<1>4. ASSUME NEW i \in 1..(n - m) PROVE SubSeq(s, m + 1, n)[i] = s[m + i]
  <2>1. i \in 1..(n - (m + 1) + 1) /\ (m + 1) + i - 1 = m + i
    OBVIOUS
  <2> QED BY <1>3, <2>1
<1>5. (IF m + 1 <= n THEN n - (m + 1) + 1 ELSE 0) = n - m
  OBVIOUS
<1> QED BY <1>2, <1>4, <1>5 DEF Parts

-----------------------------------------------------------------------------
(* Induction over natural numbers, for a set of them: the library's        *)
(* induction theorems are about operators, its theorem about the least     *)
(* element of a set (WFMin) is not.                                        *)
LEMMA InductionOnNat ==
  ASSUME NEW T, 0 \in T, \A n \in Nat : n \in T => n + 1 \in T
  PROVE  Nat \subseteq T
<1> SUFFICES ASSUME Nat \ T # {} PROVE FALSE
  OBVIOUS
<1>1. PICK x \in Nat \ T : \A y \in Nat \ T : <<y, x>> \notin OpToRel(<, Nat)
  <2>1. Nat \ T \subseteq Nat
    OBVIOUS
  <2>2. PICK R : R = OpToRel(<, Nat)
    OBVIOUS
  <2>3. IsWellFoundedOn(R, Nat)
    BY <2>2, NatLessThanWellFounded
  <2>4. \E x \in Nat \ T : \A y \in Nat \ T : <<y, x>> \notin R
    BY <2>1, <2>3, WFMin
  <2> QED BY <2>2, <2>4
<1>2. \A y \in Nat \ T : ~(y < x)
  BY <1>1 DEF OpToRel
<1>3. x - 1 \in Nat /\ x - 1 < x /\ (x - 1) + 1 = x
  OBVIOUS
<1> QED BY <1>2, <1>3

LEMMA MaxOfRange ==
  ASSUME NEW n \in Nat, NEW s \in SUBSET (1..n), n \in s
  PROVE  Max(s) = n
<1>1. \A y \in s : n >= y
  OBVIOUS
<1>2. \A x \in s : (\A y \in s : x >= y) => x = n
  OBVIOUS
<1> QED BY <1>1, <1>2 DEF Max

LEMMA TopOfRange ==
  ASSUME NEW n \in Nat, NEW k \in 1..n
  PROVE  /\ 1..k \in SUBSET (1..n) /\ 1..k # {}
         /\ Max(1..k) = k /\ (1..k) \ {k} = 1..(k - 1)
<1>1. 1..k \in SUBSET (1..k) /\ k \in 1..k /\ k \in Nat
  OBVIOUS
<1>2. Max(1..k) = k
  BY <1>1, MaxOfRange
<1> QED BY <1>2

(* A fold (Folds!MapThenFoldSet, from which FoldLeft is made) takes        *)
(* whatever function on sets of indices has the equation of its            *)
(* definition.  There is one.  F[k] is what the fold does with element k.  *)
FoldFunctionOf(V, base, F, n, g) ==
  /\ g \in [SUBSET (1..n) -> V]
  /\ \A s \in SUBSET (1..n) :
       /\ s # {} => Max(s) \in 1..n
       /\ g[s] = IF s = {} THEN base ELSE F[Max(s)][g[s \ {Max(s)}]]

LEMMA FoldExists ==
  ASSUME NEW V, NEW base \in V, NEW n \in Nat, NEW F \in [1..n -> [V -> V]]
  PROVE  \E g : FoldFunctionOf(V, base, F, n, g)
<1> DEFINE T == {k \in Nat : k <= n => \E g : FoldFunctionOf(V, base, F, k, g)}
<1>1. 0 \in T
  <2> DEFINE g == [s \in SUBSET (1..0) |-> base]
  <2>1. SUBSET (1..0) = {{}}
    OBVIOUS
  <2>2. FoldFunctionOf(V, base, F, 0, g)
    BY <2>1 DEF FoldFunctionOf
  <2> QED BY <2>2
<1>2. ASSUME NEW k \in Nat, k \in T PROVE k + 1 \in T
  <2> SUFFICES ASSUME k + 1 <= n PROVE \E g : FoldFunctionOf(V, base, F, k + 1, g)
    OBVIOUS
  <2>1. PICK g : FoldFunctionOf(V, base, F, k, g)
    BY <1>2
  <2>2. /\ g \in [SUBSET (1..k) -> V]
        /\ \A s \in SUBSET (1..k) :
             /\ s # {} => Max(s) \in 1..k
             /\ g[s] = IF s = {} THEN base ELSE F[Max(s)][g[s \ {Max(s)}]]
    BY <2>1 DEF FoldFunctionOf
  <2> DEFINE h == [s \in SUBSET (1..(k + 1)) |->
                     IF k + 1 \in s THEN F[k + 1][g[s \ {k + 1}]] ELSE g[s]]
  <2>3. \A s \in SUBSET (1..(k + 1)) : s \ {k + 1} \in SUBSET (1..k)
    OBVIOUS
  <2>4. k + 1 \in 1..n
    OBVIOUS
  <2>5. h \in [SUBSET (1..(k + 1)) -> V]
    <3> SUFFICES ASSUME NEW s \in SUBSET (1..(k + 1)) PROVE h[s] \in V
      OBVIOUS
    <3>1. CASE k + 1 \in s
      BY <2>2, <2>3, <2>4, <3>1
    <3>2. CASE k + 1 \notin s
      <4>1. s \in SUBSET (1..k)
        BY <2>3, <3>2
      <4> QED BY <2>2, <3>2, <4>1
    <3> QED BY <3>1, <3>2
  <2>6. ASSUME NEW s \in SUBSET (1..(k + 1))
        PROVE  /\ s # {} => Max(s) \in 1..(k + 1)
               /\ h[s] = IF s = {} THEN base ELSE F[Max(s)][h[s \ {Max(s)}]]
    <3>1. CASE k + 1 \in s
      <4>1. Max(s) = k + 1
        BY <3>1, MaxOfRange
      <4>2. h[s \ {k + 1}] = g[s \ {k + 1}]
        BY <2>3
      <4>3. h[s] = F[k + 1][g[s \ {k + 1}]]
        BY <3>1
      <4> HIDE DEF h
      <4>4. k + 1 \in 1..(k + 1)
        OBVIOUS
      <4> QED BY <3>1, <4>1, <4>2, <4>3, <4>4
    <3>2. CASE k + 1 \notin s
      <4>1. s \in SUBSET (1..k) /\ s \ {Max(s)} \in SUBSET (1..k)
        BY <2>3, <3>2
      <4>2. h[s] = g[s] /\ h[s \ {Max(s)}] = g[s \ {Max(s)}]
        BY <3>2, <4>1
      <4> HIDE DEF h
      <4>3. 1..k \subseteq 1..(k + 1)
        OBVIOUS
      <4> QED BY <2>2, <4>1, <4>2, <4>3
    <3> QED BY <3>1, <3>2
  <2> HIDE DEF h
  <2>7. FoldFunctionOf(V, base, F, k + 1, h)
    BY <2>5, <2>6 DEF FoldFunctionOf
  <2> QED BY <2>7
<1>3. Nat \subseteq T
  <2> HIDE DEF T
  <2> QED BY <1>1, <1>2, InductionOnNat
<1> QED BY <1>3

(* The results after each element, of which the last is the fold's.        *)
Steps(V, base, F, n, p) ==
  /\ p \in [0..n -> V] /\ p[0] = base
  /\ \A k \in 1..n : p[k] = F[k][p[k - 1]]

FollowsSteps(V, base, F, n, g) ==
  /\ g[{}] = base
  /\ \A k \in 1..n : g[1..(k - 1)] \in V => g[1..k] = F[k][g[1..(k - 1)]]

StepsTo(V, base, F, n, r) == \E p : Steps(V, base, F, n, p) /\ p[n] = r

LEMMA FoldSteps ==
  ASSUME NEW V, NEW base \in V, NEW n \in Nat, NEW F \in [1..n -> [V -> V]], NEW g,
         FollowsSteps(V, base, F, n, g)
  PROVE  StepsTo(V, base, F, n, g[1..n])
<1> USE DEF FollowsSteps
<1> DEFINE p == [k \in 0..n |-> g[1..k]]
<1>1. 1..0 = {}
  OBVIOUS
<1>2. ASSUME NEW k \in 1..n, p[k - 1] \in V PROVE p[k] = F[k][p[k - 1]] /\ p[k] \in V
  <2>1. p[k] = g[1..k] /\ p[k - 1] = g[1..(k - 1)]
    OBVIOUS
  <2> HIDE DEF p
  <2>2. p[k] = F[k][p[k - 1]]
    BY <1>2, <2>1
  <2> QED BY <1>2, <2>2
<1> DEFINE T == {k \in Nat : k <= n => p[k] \in V}
<1>3. 0 \in T
  BY <1>1
<1>4. ASSUME NEW k \in Nat, k \in T PROVE k + 1 \in T
  <2> SUFFICES ASSUME k + 1 <= n PROVE p[k + 1] \in V
    OBVIOUS
  <2>1. k + 1 \in 1..n /\ (k + 1) - 1 = k
    OBVIOUS
  <2>2. p[k] \in V
    BY <1>4
  <2> HIDE DEF p
  <2> QED BY <1>2, <2>1, <2>2
<1>5. Nat \subseteq T
  <2> HIDE DEF T
  <2> QED BY <1>3, <1>4, InductionOnNat
<1>6. \A k \in 0..n : p[k] \in V
  <2> HIDE DEF p
  <2> QED BY <1>5
<1>7. p \in [0..n -> V] /\ p[0] = base /\ p[n] = g[1..n]
  BY <1>1, <1>6
<1>8. \A k \in 1..n : p[k] = F[k][p[k - 1]]
  <2>1. \A k \in 1..n : k - 1 \in 0..n
    OBVIOUS
  <2> HIDE DEF p
  <2> QED BY <1>2, <1>6, <2>1
<1> HIDE DEF p
<1> QED BY <1>7, <1>8 DEF Steps, StepsTo

(* The sum of a sequence of natural numbers, element by element.           *)
AddUp(w) == FoldLeft(LAMBDA a, b : a + b, 0, w)

RunningTotal(w, n, p) ==
  /\ p \in [0..n -> Nat] /\ p[0] = 0
  /\ \A i \in 1..n : p[i] = p[i - 1] + w[i]

AddsUp(w, g) ==
  g = [s \in SUBSET (DOMAIN w) |-> IF s = {} THEN 0 ELSE g[s \ {Max(s)}] + w[Max(s)]]

LEMMA AddUpFolds ==
  ASSUME NEW w, NEW g, AddsUp(w, g)
  PROVE  \E f : AddsUp(w, f) /\ AddUp(w) = f[DOMAIN w]
BY Zenon DEF AddsUp, AddUp, FoldLeft, MapThenFoldSet

LEMMA AddedUp ==
  ASSUME NEW n \in Nat, NEW w, DOMAIN w = 1..n, \A i \in 1..n : w[i] \in Nat
  PROVE  \E p : RunningTotal(w, n, p) /\ AddUp(w) = p[n]
<1>1. PICK F : F = [k \in 1..n |-> [a \in Nat |-> a + w[k]]]
  OBVIOUS
<1>2. F \in [1..n -> [Nat -> Nat]] /\ \A k \in 1..n, a \in Nat : F[k][a] = a + w[k]
  BY <1>1
<1>3. PICK g : FoldFunctionOf(Nat, 0, F, n, g)
  BY <1>2, FoldExists
<1>4. AddsUp(w, g)
  <2>1. g = [s \in SUBSET (1..n) |-> g[s]]
    BY <1>3 DEF FoldFunctionOf
  <2>2. ASSUME NEW s \in SUBSET (1..n), s # {} PROVE g[s] = g[s \ {Max(s)}] + w[Max(s)]
    <3>1. Max(s) \in 1..n /\ g[s] = F[Max(s)][g[s \ {Max(s)}]] /\ g[s \ {Max(s)}] \in Nat
      BY <1>3, <2>2 DEF FoldFunctionOf
    <3> QED BY <1>2, <3>1
  <2>3. g[{}] = 0
    BY <1>3 DEF FoldFunctionOf
  <2> QED BY <2>1, <2>2, <2>3 DEF AddsUp
<1>5. PICK f : AddsUp(w, f) /\ AddUp(w) = f[DOMAIN w]
  BY <1>4, AddUpFolds
<1>6. f[{}] = 0
  BY <1>5 DEF AddsUp
<1>7. ASSUME NEW k \in 1..n, f[1..(k - 1)] \in Nat
      PROVE  f[1..k] = F[k][f[1..(k - 1)]]
  <2>1. 1..k \in SUBSET (1..n) /\ 1..k # {} /\ Max(1..k) = k /\ (1..k) \ {k} = 1..(k - 1)
    BY TopOfRange
  <2>2. f[1..k] = f[1..(k - 1)] + w[k]
    BY <1>5, <2>1 DEF AddsUp
  <2> QED BY <1>2, <1>7, <2>2
<1>8. PICK p : Steps(Nat, 0, F, n, p) /\ p[n] = f[1..n]
  <2>1. FollowsSteps(Nat, 0, F, n, f)
    BY <1>6, <1>7 DEF FollowsSteps
  <2>2. StepsTo(Nat, 0, F, n, f[1..n])
    BY <1>2, <2>1, FoldSteps
  <2> QED BY <2>2 DEF StepsTo
<1>9. \A i \in 1..n : p[i] = p[i - 1] + w[i]
  <2> SUFFICES ASSUME NEW i \in 1..n PROVE p[i] = p[i - 1] + w[i]
    OBVIOUS
  <2>1. p[i] = F[i][p[i - 1]] /\ p \in [0..n -> Nat]
    BY <1>8 DEF Steps
  <2>2. p[i - 1] \in Nat
    BY <2>1
  <2> QED BY <1>2, <2>1, <2>2
<1>10. p \in [0..n -> Nat] /\ p[0] = 0
  BY <1>8 DEF Steps
<1> QED BY <1>5, <1>8, <1>9, <1>10 DEF RunningTotal

-----------------------------------------------------------------------------
(* Induction over sequences, for a set of them.                            *)
LEMMA SeqInduction ==
  ASSUME NEW S, NEW T, <<>> \in T, \A s \in Seq(S) : \A e \in S : s \in T => Append(s, e) \in T
  PROVE  Seq(S) \subseteq T
<1> DEFINE N == {n \in Nat : \A s \in Seq(S) : Len(s) = n => s \in T}
<1>1. 0 \in N
  BY EmptySeq
<1>2. ASSUME NEW n \in Nat, n \in N PROVE n + 1 \in N
  <2> SUFFICES ASSUME NEW s \in Seq(S), Len(s) = n + 1 PROVE s \in T
    OBVIOUS
  <2>1. PICK front : front = SubSeq(s, 1, n)
    OBVIOUS
  <2>2. front \in Seq(S) /\ Len(front) = n /\ s[n + 1] \in S /\ s = Append(front, s[n + 1])
    <3>1. \A i \in 1..n : s[i] \in S
      BY <1>2, <2>1, LenProperties, ElementOfSeq
    <3>2. front \in Seq(S) /\ Len(front) = n
      BY <2>1, <3>1, SubSeqProperties
    <3>3. s[n + 1] \in S
      BY ElementOfSeq
    <3>4. \A i \in 1..n : front[i] = s[i]
      BY <2>1, <3>1, SubSeqProperties
    <3>5. PICK t : t = Append(front, s[n + 1])
      OBVIOUS
    <3>6. t \in Seq(S) /\ Len(t) = n + 1 /\ t[n + 1] = s[n + 1] /\ \A i \in 1..n : t[i] = s[i]
      BY <3>2, <3>3, <3>4, <3>5, AppendProperties
    <3>7. \A i \in 1..(n + 1) : t[i] = s[i]
      BY <3>6
    <3>8. t = s
      BY <3>6, <3>7, SeqEqual
    <3> QED BY <3>2, <3>3, <3>5, <3>8
  <2>3. front \in T
    BY <1>2, <2>2
  <2> QED BY <2>2, <2>3
<1>3. Nat \subseteq N
  <2> HIDE DEF N
  <2> QED BY <1>1, <1>2, InductionOnNat
<1> QED BY <1>3, LenProperties

(* A fold over one element more is one step more.                          *)
StepsOnceMore(V, base, F, G, n, r, t) ==
  /\ n \in Nat /\ base \in V
  /\ StepsTo(V, base, F, n, r) /\ StepsTo(V, base, G, n + 1, t)
  /\ \A k \in 1..n : G[k] = F[k]

LEMMA StepsOnce ==
  ASSUME NEW V, NEW base, NEW n, NEW F, NEW G, NEW r, NEW t, StepsOnceMore(V, base, F, G, n, r, t)
  PROVE  r \in V /\ t = G[n + 1][r]
<1> USE DEF StepsOnceMore
<1>1. PICK p : Steps(V, base, F, n, p) /\ p[n] = r
  BY DEF StepsTo
<1>2. PICK q : Steps(V, base, G, n + 1, q) /\ q[n + 1] = t
  BY DEF StepsTo
<1>3. /\ p[0] = base /\ p[n] \in V /\ \A k \in 1..n : p[k] = F[k][p[k - 1]]
      /\ q[0] = base /\ \A k \in 1..(n + 1) : q[k] = G[k][q[k - 1]]
  BY <1>1, <1>2 DEF Steps
<1> DEFINE T == {k \in Nat : k <= n => p[k] = q[k]}
<1>4. 0 \in T
  BY <1>3
<1>5. ASSUME NEW k \in Nat, k \in T PROVE k + 1 \in T
  <2> SUFFICES ASSUME k + 1 <= n PROVE p[k + 1] = q[k + 1]
    OBVIOUS
  <2>1. k + 1 \in 1..n /\ k + 1 \in 1..(n + 1) /\ (k + 1) - 1 = k /\ k <= n
    OBVIOUS
  <2>2. p[k + 1] = F[k + 1][p[k]] /\ q[k + 1] = G[k + 1][q[k]]
    BY <1>3, <2>1
  <2> QED BY <1>5, <2>1, <2>2
<1>6. Nat \subseteq T
  <2> HIDE DEF T
  <2> QED BY <1>4, <1>5, InductionOnNat
<1>7. q[n + 1] = G[n + 1][q[n]]
  <2>1. n + 1 \in 1..(n + 1) /\ (n + 1) - 1 = n
    OBVIOUS
  <2> QED BY <1>3, <2>1
<1> QED BY <1>1, <1>2, <1>3, <1>6, <1>7

(* The fold's function, where each element's step is a function F[k].      *)
LEMMA FoldRuns ==
  ASSUME NEW V, NEW base \in V, NEW n \in Nat, NEW F \in [1..n -> [V -> V]], NEW f, f[{}] = base,
         \A s \in SUBSET (1..n) :
           s # {} /\ Max(s) \in 1..n /\ f[s \ {Max(s)}] \in V => f[s] = F[Max(s)][f[s \ {Max(s)}]]
  PROVE  StepsTo(V, base, F, n, f[1..n])
<1>1. ASSUME NEW k \in 1..n, f[1..(k - 1)] \in V
      PROVE  f[1..k] = F[k][f[1..(k - 1)]]
  <2>1. 1..k \in SUBSET (1..n) /\ 1..k # {} /\ Max(1..k) = k /\ (1..k) \ {k} = 1..(k - 1)
    BY TopOfRange
  <2> QED BY <1>1, <2>1
<1>2. FollowsSteps(V, base, F, n, f)
  BY <1>1 DEF FollowsSteps
<1> QED BY <1>2, FoldSteps

(* FlattenSeq, from the front on.                                          *)
Flattens(seqs, f) ==
  f = [i \in 1..Len(seqs) |-> IF i = 1 THEN seqs[i] ELSE f[i - 1] \o seqs[i]]

LEMMA FlattenSeqFunction ==
  ASSUME NEW seqs, Len(seqs) # 0, NEW g, Flattens(seqs, g)
  PROVE  \E f : Flattens(seqs, f) /\ FlattenSeq(seqs) = f[Len(seqs)]
BY Zenon DEF FlattenSeq, Flattens

LEMMA FlattenEmpty == FlattenSeq(<<>>) = <<>>
BY DEF FlattenSeq

LEMMA FlattenExists ==
  ASSUME NEW S, NEW seqs \in Seq(Seq(S)), Len(seqs) # 0
  PROVE  \E f : /\ Flattens(seqs, f) /\ FlattenSeq(seqs) = f[Len(seqs)]
                /\ \A i \in 1..Len(seqs) : f[i] \in Seq(S)
<1>1. PICK n : n = Len(seqs) /\ n \in Nat /\ n # 0
  BY LenProperties
<1>2. \A i \in 1..n : seqs[i] \in Seq(S)
  BY <1>1, ElementOfSeq
<1>3. PICK F : F = [k \in 1..n |-> [s \in Seq(S) |-> s \o seqs[k]]]
  OBVIOUS
<1>4. F \in [1..n -> [Seq(S) -> Seq(S)]] /\ \A k \in 1..n, s \in Seq(S) : F[k][s] = s \o seqs[k]
  BY <1>2, <1>3, ConcatProperties
<1>5. <<>> \in Seq(S)
  BY EmptySeq
<1>6. PICK g : FoldFunctionOf(Seq(S), <<>>, F, n, g)
  BY <1>1, <1>4, <1>5, FoldExists
<1>7. g[{}] = <<>> /\ \A s \in SUBSET (1..n) : g[s] \in Seq(S)
  BY <1>6 DEF FoldFunctionOf
<1>8. ASSUME NEW k \in 1..n PROVE g[1..k] = g[1..(k - 1)] \o seqs[k]
  <2>1. 1..k \in SUBSET (1..n) /\ 1..k # {} /\ Max(1..k) = k /\ (1..k) \ {k} = 1..(k - 1)
    BY <1>1, TopOfRange
  <2>2. 1..(k - 1) \in SUBSET (1..n)
    BY <1>1
  <2>3. g[1..k] = F[k][g[1..(k - 1)]]
    BY <1>6, <2>1 DEF FoldFunctionOf
  <2> QED BY <1>4, <1>7, <2>2, <2>3
<1>9. PICK h : h = [i \in 1..n |-> g[1..i]]
  OBVIOUS
<1>10. Flattens(seqs, h)
  <2> SUFFICES ASSUME NEW i \in 1..n
               PROVE  h[i] = IF i = 1 THEN seqs[i] ELSE h[i - 1] \o seqs[i]
    BY <1>1, <1>9 DEF Flattens
  <2>1. CASE i = 1
    <3>1. g[1..1] = <<>> \o seqs[1]
      <4>1. 1 \in 1..n /\ 1..(1 - 1) = {}
        BY <1>1
      <4> QED BY <1>7, <1>8, <4>1
    <3>2. <<>> \o seqs[1] = seqs[1]
      BY <1>1, <1>2, ConcatEmptySeq
    <3> QED BY <1>9, <2>1, <3>1, <3>2
  <2>2. CASE i # 1
    <3>1. i - 1 \in 1..n
      BY <1>1, <2>2
    <3> QED BY <1>8, <1>9, <2>2, <3>1
  <2> QED BY <2>1, <2>2
<1>11. PICK f : Flattens(seqs, f) /\ FlattenSeq(seqs) = f[Len(seqs)]
  BY <1>10, FlattenSeqFunction
<1>12. /\ f[1] = seqs[1] /\ \A i \in 2..n : f[i] = f[i - 1] \o seqs[i]
  <2>1. \A i \in 1..n : f[i] = IF i = 1 THEN seqs[i] ELSE f[i - 1] \o seqs[i]
    BY <1>1, <1>11, Zenon DEF Flattens
  <2>2. 1 \in 1..n /\ \A i \in 2..n : i \in 1..n /\ i # 1
    BY <1>1
  <2> QED BY <2>1, <2>2
<1> DEFINE T == {k \in Nat : k + 1 <= n => f[k + 1] \in Seq(S)}
<1>13. 0 \in T
  BY <1>1, <1>2, <1>12
<1>14. ASSUME NEW k \in Nat, k \in T PROVE k + 1 \in T
  <2> SUFFICES ASSUME (k + 1) + 1 <= n PROVE f[(k + 1) + 1] \in Seq(S)
    OBVIOUS
  <2>1. PICK i : i = (k + 1) + 1
    OBVIOUS
  <2>2. i \in 2..n /\ i \in 1..n /\ i - 1 = k + 1 /\ k + 1 <= n
    BY <1>1, <2>1
  <2>3. f[i] = f[i - 1] \o seqs[i] /\ f[i - 1] \in Seq(S)
    BY <1>12, <1>14, <2>2
  <2> QED BY <1>2, <2>1, <2>2, <2>3, ConcatProperties
<1>15. Nat \subseteq T
  <2> HIDE DEF T
  <2> QED BY <1>13, <1>14, InductionOnNat
<1>16. \A i \in 1..n : f[i] \in Seq(S)
  <2> SUFFICES ASSUME NEW i \in 1..n PROVE f[i] \in Seq(S)
    OBVIOUS
  <2>1. i - 1 \in Nat /\ (i - 1) + 1 = i /\ (i - 1) + 1 <= n
    BY <1>1
  <2> QED BY <1>15, <2>1
<1> QED BY <1>1, <1>11, <1>16

(* One sequence more adds its elements.                                    *)
LEMMA FlattenAppend ==
  ASSUME NEW S, NEW seqs \in Seq(Seq(S)), NEW e \in Seq(S)
  PROVE  /\ FlattenSeq(Append(seqs, e)) = FlattenSeq(seqs) \o e
         /\ FlattenSeq(seqs) \in Seq(S)
<1>1. PICK n, more : n = Len(seqs) /\ more = Append(seqs, e)
  OBVIOUS
<1>2. /\ n \in Nat /\ more \in Seq(Seq(S)) /\ Len(more) = n + 1 /\ more[n + 1] = e
      /\ \A i \in 1..n : more[i] = seqs[i]
  BY <1>1, AppendProperties, LenProperties
<1>3. PICK g : /\ Flattens(more, g) /\ FlattenSeq(more) = g[n + 1]
               /\ \A i \in 1..(n + 1) : g[i] \in Seq(S)
  BY <1>2, FlattenExists
<1>4. \A i \in 1..(n + 1) : g[i] = IF i = 1 THEN more[i] ELSE g[i - 1] \o more[i]
  BY <1>2, <1>3, Zenon DEF Flattens
<1>5. CASE n = 0
  <2>1. seqs = <<>>
    BY <1>1, <1>5, EmptySeq
  <2>2. FlattenSeq(seqs) = <<>> /\ <<>> \in Seq(S)
    BY <2>1, FlattenEmpty, EmptySeq
  <2>3. g[n + 1] = e
    BY <1>2, <1>4, <1>5
  <2>4. <<>> \o e = e
    BY ConcatEmptySeq
  <2> QED BY <1>1, <1>3, <2>2, <2>3, <2>4
<1>6. CASE n # 0
  <2>1. PICK f : /\ Flattens(seqs, f) /\ FlattenSeq(seqs) = f[n]
                 /\ \A i \in 1..n : f[i] \in Seq(S)
    BY <1>1, <1>6, FlattenExists
  <2>2. \A i \in 1..n : f[i] = IF i = 1 THEN seqs[i] ELSE f[i - 1] \o seqs[i]
    BY <1>1, <2>1, Zenon DEF Flattens
  <2> DEFINE T == {k \in Nat : k + 1 <= n => f[k + 1] = g[k + 1]}
  <2>3. 0 \in T
    <3>1. 1 \in 1..n /\ 1 \in 1..(n + 1)
      BY <1>2, <1>6
    <3> QED BY <1>2, <1>4, <2>2, <3>1
  <2>4. ASSUME NEW k \in Nat, k \in T PROVE k + 1 \in T
    <3> SUFFICES ASSUME (k + 1) + 1 <= n PROVE f[(k + 1) + 1] = g[(k + 1) + 1]
      OBVIOUS
    <3>1. PICK i : i = (k + 1) + 1
      OBVIOUS
    <3>2. i \in 1..n /\ i \in 1..(n + 1) /\ i # 1 /\ i - 1 = k + 1 /\ k + 1 <= n
      BY <1>2, <3>1
    <3>3. f[i - 1] = g[i - 1]
      BY <2>4, <3>2
    <3>4. f[i] = f[i - 1] \o seqs[i] /\ g[i] = g[i - 1] \o more[i] /\ more[i] = seqs[i]
      BY <1>2, <1>4, <2>2, <3>2
    <3> QED BY <3>1, <3>3, <3>4
  <2>5. Nat \subseteq T
    <3> HIDE DEF T
    <3> QED BY <2>3, <2>4, InductionOnNat
  <2>6. f[n] = g[n]
    <3>1. n - 1 \in Nat /\ (n - 1) + 1 = n
      BY <1>2, <1>6
    <3> QED BY <2>5, <3>1
  <2>7. g[n + 1] = g[n] \o e
    <3>1. n + 1 \in 1..(n + 1) /\ n + 1 # 1 /\ (n + 1) - 1 = n
      BY <1>2, <1>6
    <3> QED BY <1>2, <1>4, <3>1
  <2>8. f[n] \in Seq(S)
    BY <1>2, <1>6, <2>1
  <2> QED BY <1>1, <1>3, <2>1, <2>6, <2>7, <2>8
<1> QED BY <1>5, <1>6

LEMMA FlattenConcat ==
  ASSUME NEW S, NEW s \in Seq(Seq(S)), NEW t \in Seq(Seq(S))
  PROVE  FlattenSeq(s \o t) = FlattenSeq(s) \o FlattenSeq(t)
<1> DEFINE T == {u \in Seq(Seq(S)) : FlattenSeq(s \o u) = FlattenSeq(s) \o FlattenSeq(u)}
<1>1. <<>> \in T
  <2>1. <<>> \in Seq(Seq(S)) /\ <<>> \in Seq(S) /\ s \o <<>> = s
    BY EmptySeq, ConcatEmptySeq
  <2>2. FlattenSeq(s) \in Seq(S)
    BY <2>1, FlattenAppend
  <2>3. FlattenSeq(s) \o <<>> = FlattenSeq(s)
    BY <2>2, ConcatEmptySeq
  <2> QED BY <2>1, <2>3, FlattenEmpty
<1>2. ASSUME NEW u \in Seq(Seq(S)), NEW e \in Seq(S), u \in T PROVE Append(u, e) \in T
  <2>1. s \o u \in Seq(Seq(S)) /\ Append(u, e) \in Seq(Seq(S))
    BY ConcatProperties, AppendProperties
  <2>2. s \o Append(u, e) = Append(s \o u, e)
    BY <2>1, AppendRight
  <2>3. /\ FlattenSeq(Append(s \o u, e)) = FlattenSeq(s \o u) \o e
        /\ FlattenSeq(Append(u, e)) = FlattenSeq(u) \o e
        /\ FlattenSeq(u) \in Seq(S) /\ FlattenSeq(s) \in Seq(S)
    BY <2>1, FlattenAppend
  <2>4. Regroups(FlattenSeq(s), FlattenSeq(u), e)
    BY <2>3, Regrouped
  <2>5. (FlattenSeq(s) \o FlattenSeq(u)) \o e = FlattenSeq(s) \o (FlattenSeq(u) \o e)
    BY <2>4 DEF Regroups
  <2> QED BY <1>2, <2>1, <2>2, <2>3, <2>5
<1>3. Seq(Seq(S)) \subseteq T
  <2> HIDE DEF T
  <2> QED BY <1>1, <1>2, SeqInduction
<1> QED BY <1>3

(* Where one sequence is in another: behind its first k elements.          *)
SitsAt(m, k, s) == k + Len(s) <= Len(m) /\ \A i \in 1..Len(s) : m[k + i] = s[i]

LEMMA SitsAtStart ==
  ASSUME NEW S, NEW m \in Seq(S)
  PROVE  SitsAt(m, 0, m)
<1>1. Len(m) \in Nat
  BY LenProperties
<1> QED BY <1>1 DEF SitsAt

LEMMA SitsApart ==
  ASSUME NEW S, NEW m \in Seq(S), NEW k \in Nat, NEW s \in Seq(S), NEW t \in Seq(S),
         SitsAt(m, k, s \o t)
  PROVE  SitsAt(m, k, s) /\ SitsAt(m, k + Len(s), t)
<1>1. PICK u, a, b, l : u = s \o t /\ a = Len(s) /\ b = Len(t) /\ l = Len(m)
  OBVIOUS
<1>2. Joins(S, s, t, u) /\ a \in Nat /\ b \in Nat /\ l \in Nat
  BY <1>1, Joined, LenProperties
<1>3. Len(u) = a + b /\ (\A i \in 1..a : u[i] = s[i]) /\ (\A i \in 1..b : u[a + i] = t[i])
  BY <1>1, <1>2 DEF Joins
<1>4. k + (a + b) <= l /\ \A i \in 1..(a + b) : m[k + i] = u[i]
  BY <1>1, <1>3 DEF SitsAt
<1>5. k + a <= l /\ k + a + b <= l
  BY <1>2, <1>4
<1>6. ASSUME NEW i \in 1..a PROVE m[k + i] = s[i]
  <2>1. i \in 1..(a + b)
    BY <1>2
  <2> QED BY <1>3, <1>4, <2>1
<1>7. ASSUME NEW i \in 1..b PROVE m[k + a + i] = t[i]
  <2>1. a + i \in 1..(a + b) /\ k + (a + i) = k + a + i
    BY <1>2
  <2> QED BY <1>3, <1>4, <2>1
<1> QED BY <1>1, <1>5, <1>6, <1>7 DEF SitsAt

LEMMA SitsSub ==
  ASSUME NEW S, NEW m \in Seq(S), NEW k \in Nat, NEW s \in Seq(S), SitsAt(m, k, s)
  PROVE  SubSeq(m, k + 1, k + Len(s)) = s
<1>1. PICK n, u : n = k + Len(s) /\ u = SubSeq(m, k + 1, n)
  OBVIOUS
<1>2. Len(s) \in Nat /\ n \in Nat /\ k <= n /\ n <= Len(m) /\ n - k = Len(s)
  BY <1>1, LenProperties DEF SitsAt
<1>3. Parts(S, m, k, n, u)
  BY <1>1, <1>2, Parted
<1>4. u \in Seq(S) /\ Len(u) = Len(s) /\ \A i \in 1..Len(s) : u[i] = s[i]
  BY <1>2, <1>3 DEF Parts, SitsAt
<1> QED BY <1>1, <1>4, SeqEqual

(* One element, and two.                                                   *)
LEMMA SitsOne ==
  ASSUME NEW m, NEW k \in Nat, NEW a, SitsAt(m, k, <<a>>)
  PROVE  m[k + 1] = a /\ k + 1 <= Len(m)
<1>1. Len(<<a>>) = 1 /\ <<a>>[1] = a /\ 1 \in 1..1
  OBVIOUS
<1> QED BY <1>1 DEF SitsAt

LEMMA SitsTwo ==
  ASSUME NEW m, NEW k \in Nat, NEW a, NEW b, SitsAt(m, k, <<a, b>>)
  PROVE  m[k + 1] = a /\ m[k + 2] = b /\ k + 2 <= Len(m)
<1>1. Len(<<a, b>>) = 2 /\ <<a, b>>[1] = a /\ <<a, b>>[2] = b /\ 1 \in 1..2 /\ 2 \in 1..2
  OBVIOUS
<1> QED BY <1>1 DEF SitsAt
=============================================================================
