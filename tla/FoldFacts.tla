------------------------------ MODULE FoldFacts ------------------------------
(* Facts about FoldLeft, of any operation, for the folds the models are built   *)
(* from: a module that needs them instantiates this one with its operation.     *)
EXTENDS Integers, Sequences, SequencesExt, FiniteSetTheorems, WellFoundedInduction, TLAPS

CONSTANT Op(_, _)       \* what has been made so far, the next element

----------------------------------------------------------------------------
(* Induction over the naturals, as the least element of the set of the others.  *)

\* A well-founded order on finite sets gives the least of some naturals.
LEMMA LeastNatural ==
    ASSUME NEW T, T \subseteq Nat, T # {}
    PROVE  \E n \in T : \A k \in T : n <= k
<1> DEFINE U == {1..n : n \in T}
           R == StrictSubsetOrdering(Nat)
           F == FiniteSubsetsOf(Nat)
<1>1. \A n \in Nat : 1..n \in F
  BY FS_Interval DEF FiniteSubsetsOf
<1>2. U \subseteq F /\ U # {}
  BY <1>1
<1>3. IsWellFoundedOn(R, F)
  BY FS_StrictSubsetOrderingWellFounded
<1>4. \E x \in U : \A y \in U : ~ (<<y, x>> \in R)
  <2> HIDE DEF U, R, F
  <2> QED BY <1>2, <1>3, WFMin
<1>5. PICK n \in T : \A k \in T : ~ (<<1..k, 1..n>> \in R)
  BY <1>4
<1>6. \A k \in T : k < n => <<1..k, 1..n>> \in R
  <2> SUFFICES ASSUME NEW k \in T, k < n PROVE <<1..k, 1..n>> \in R
    OBVIOUS
  <2>1. 1..k \subseteq 1..n /\ n \in 1..n /\ n \notin 1..k
    OBVIOUS
  <2>2. 1..k \in SUBSET Nat /\ 1..n \in SUBSET Nat /\ 1..k # 1..n
    BY <2>1
  <2> QED BY <2>1, <2>2, Zenon DEF StrictSubsetOrdering
<1>7. \A k \in T : ~ (k < n)
  BY <1>5, <1>6, Zenon
<1> HIDE DEF U, R, F
<1> QED BY <1>7

LEMMA Induction ==
    ASSUME NEW T, 0 \in T, \A n \in Nat : n \in T => n + 1 \in T
    PROVE  Nat \subseteq T
<1> SUFFICES ASSUME Nat \ T # {} PROVE FALSE
  OBVIOUS
<1>1. PICK n \in Nat \ T : \A k \in Nat \ T : n <= k
  BY LeastNatural
<1> QED BY <1>1

\* The greatest element is CHOSEn: there is one among the first n.
LEMMA Greatest ==
    ASSUME NEW n \in Nat, NEW S, S \subseteq 1..n, S # {}
    PROVE  Max(S) \in S /\ \A k \in S : k <= Max(S)
<1> DEFINE T == {n - k : k \in S}
<1>1. T \subseteq Nat /\ T # {}
  <2>1. \A k \in S : k \in Nat /\ n - k \in Nat
    OBVIOUS
  <2> QED BY <2>1
<1>2. \E m \in T : \A k \in T : m <= k
  <2> HIDE DEF T
  <2> QED BY <1>1, LeastNatural
<1>3. \E m \in S : \A k \in S : m >= k
  BY <1>2
<1>4. Max(S) \in S /\ \A k \in S : Max(S) >= k
  BY <1>3, Zenon DEF Max
<1> QED BY <1>4

----------------------------------------------------------------------------
(* FoldLeft is one element after the other: the library takes it as a function  *)
(* of sets of indices, of which the greatest comes last.                        *)

Fold(c, s) == FoldLeft(Op, c, s)

FoldsTo(f, c, s, n) ==
    f = [t \in SUBSET (1..n) |->
            IF t = {} THEN c ELSE Op(f[t \ {Max(t)}], s[Max(t)])]

LEMMA WithoutGreatest ==
    ASSUME NEW n \in Nat, NEW t \in SUBSET (1..(n + 1)), t # {}
    PROVE  t \ {Max(t)} \in SUBSET (1..n)
<1>1. n + 1 \in Nat /\ t \subseteq 1..(n + 1)
  OBVIOUS
<1>2. Max(t) \in t /\ \A k \in t : k <= Max(t)
  BY <1>1, Greatest
<1>3. ASSUME NEW k \in t, k # Max(t) PROVE k \in 1..n
  <2>1. k <= Max(t) /\ k \in 1..(n + 1) /\ Max(t) \in 1..(n + 1)
    BY <1>1, <1>2
  <2> QED BY <1>3, <2>1
<1> QED BY <1>3

LEMMA UpTo ==
    ASSUME NEW n \in Nat
    PROVE  1..(n + 1) # {} /\ Max(1..(n + 1)) = n + 1 /\ (1..(n + 1)) \ {n + 1} = 1..n
<1>1. 1..(n + 1) # {}
  OBVIOUS
<1>2. Max(1..(n + 1)) \in 1..(n + 1) /\ n + 1 <= Max(1..(n + 1))
  <2>1. n + 1 \in Nat /\ 1..(n + 1) \subseteq 1..(n + 1)
    OBVIOUS
  <2>2. /\ Max(1..(n + 1)) \in 1..(n + 1)
        /\ \A k \in 1..(n + 1) : k <= Max(1..(n + 1))
    BY <1>1, <2>1, Greatest
  <2> QED BY <2>2
<1>3. (1..(n + 1)) \ {n + 1} = 1..n
  OBVIOUS
<1>4. Max(1..(n + 1)) = n + 1
  BY <1>2
<1> QED BY <1>1, <1>3, <1>4

\* There is such a fold, by induction on the length.
LEMMA FoldExists ==
    ASSUME NEW c, NEW s, NEW m \in Nat
    PROVE  \E f : FoldsTo(f, c, s, m)
<1> DEFINE T == {n \in Nat : \E f : FoldsTo(f, c, s, n)}
<1>1. 0 \in T
  <2>1. FoldsTo([t \in SUBSET (1..0) |-> c], c, s, 0)
    BY DEF FoldsTo
  <2> QED BY <2>1
<1>2. ASSUME NEW n \in Nat, n \in T PROVE n + 1 \in T
  <2>1. PICK f : FoldsTo(f, c, s, n)
    BY <1>2
  <2> DEFINE g == [t \in SUBSET (1..(n + 1)) |->
                     IF t = {} THEN c ELSE Op(f[t \ {Max(t)}], s[Max(t)])]
  <2>2. ASSUME NEW t \in SUBSET (1..n) PROVE g[t] = f[t]
    <3>1. t \in SUBSET (1..(n + 1))
      OBVIOUS
    <3>2. f[t] = IF t = {} THEN c ELSE Op(f[t \ {Max(t)}], s[Max(t)])
      BY <2>1, Zenon DEF FoldsTo
    <3> QED BY <3>1, <3>2, Zenon
  <2>3. ASSUME NEW t \in SUBSET (1..(n + 1)), t # {}
        PROVE  f[t \ {Max(t)}] = g[t \ {Max(t)}]
    BY <2>2, <2>3, WithoutGreatest
  <2>4. FoldsTo(g, c, s, n + 1)
    BY <2>3, Zenon DEF FoldsTo
  <2> QED BY <2>4
<1>3. Nat \subseteq T
  <2> HIDE DEF T
  <2> QED BY <1>1, <1>2, Induction
<1> QED BY <1>3

LEMMA FoldIs ==
    ASSUME NEW c, NEW S, NEW s \in Seq(S)
    PROVE  \E f : FoldsTo(f, c, s, Len(s)) /\ Fold(c, s) = f[1..Len(s)]
<1> DEFINE iter == CHOOSE f : FoldsTo(f, c, s, Len(s))
<1>1. Len(s) \in Nat /\ DOMAIN s = 1..Len(s)
  OBVIOUS
<1>2. FoldsTo(iter, c, s, Len(s))
  BY <1>1, FoldExists
<1>3. Fold(c, s) = iter[1..Len(s)]
  BY <1>1, Zenon DEF Fold, FoldLeft, MapThenFoldSet, FoldsTo
<1> QED BY <1>2, <1>3

LEMMA FoldNext ==
    ASSUME NEW c, NEW s, NEW n \in Nat, NEW f, FoldsTo(f, c, s, n)
    PROVE  \A i \in Nat : i + 1 <= n => f[1..(i + 1)] = Op(f[1..i], s[i + 1])
<1> SUFFICES ASSUME NEW i \in Nat, i + 1 <= n
             PROVE  f[1..(i + 1)] = Op(f[1..i], s[i + 1])
  OBVIOUS
<1>1. 1..(i + 1) # {} /\ Max(1..(i + 1)) = i + 1 /\ (1..(i + 1)) \ {i + 1} = 1..i
  BY UpTo
<1>2. 1..(i + 1) \in SUBSET (1..n)
  OBVIOUS
<1> QED BY <1>1, <1>2, Zenon DEF FoldsTo

\* Two folds with the same values so far agree.
LEMMA FoldsAgree ==
    ASSUME NEW c, NEW s, NEW r, NEW n \in Nat, NEW m \in Nat, NEW k \in Nat, k <= n, k <= m,
           NEW f, NEW g, FoldsTo(f, c, s, n), FoldsTo(g, c, r, m)
    PROVE  (\A i \in 1..k : s[i] = r[i]) => f[1..k] = g[1..k]
<1>1. \A i \in Nat : i + 1 <= n => f[1..(i + 1)] = Op(f[1..i], s[i + 1])
  BY FoldNext
<1>2. \A i \in Nat : i + 1 <= m => g[1..(i + 1)] = Op(g[1..i], r[i + 1])
  BY FoldNext
<1> SUFFICES ASSUME \A i \in 1..k : s[i] = r[i] PROVE f[1..k] = g[1..k]
  OBVIOUS
<1> DEFINE T == {i \in Nat : i <= k => f[1..i] = g[1..i]}
<1>3. 0 \in T
  <2>1. 1..0 = {}
    OBVIOUS
  <2>2. f[{}] = c /\ g[{}] = c
    BY Zenon DEF FoldsTo
  <2> QED BY <2>1, <2>2
<1>4. ASSUME NEW i \in Nat, i \in T PROVE i + 1 \in T
  <2> SUFFICES ASSUME i + 1 <= k PROVE f[1..(i + 1)] = g[1..(i + 1)]
    OBVIOUS
  <2>1. i + 1 <= n /\ i + 1 <= m /\ i + 1 \in 1..k
    OBVIOUS
  <2>2. f[1..i] = g[1..i]
    BY <1>4
  <2>3. f[1..(i + 1)] = Op(f[1..i], s[i + 1])
    BY <1>1, <2>1
  <2>4. g[1..(i + 1)] = Op(g[1..i], r[i + 1])
    BY <1>2, <2>1
  <2> QED BY <2>1, <2>2, <2>3, <2>4
<1>5. Nat \subseteq T
  <2> HIDE DEF T
  <2> QED BY <1>3, <1>4, Induction
<1> QED BY <1>5

LEMMA FoldNothing ==
    ASSUME NEW c
    PROVE  Fold(c, <<>>) = c
<1>1. PICK f : FoldsTo(f, c, <<>>, 0) /\ Fold(c, <<>>) = f[1..0]
  <2>1. <<>> \in Seq({}) /\ Len(<<>>) = 0
    OBVIOUS
  <2> QED BY <2>1, FoldIs
<1>2. 1..0 = {}
  OBVIOUS
<1> QED BY <1>1, <1>2, Zenon DEF FoldsTo

\* The fold of one element more, as the one before continued.
LEMMA FoldOneMore ==
    ASSUME NEW c, NEW s, NEW r, NEW n \in Nat, \A i \in 1..n : s[i] = r[i],
           NEW f, NEW g, FoldsTo(f, c, s, n), FoldsTo(g, c, r, n + 1)
    PROVE  g[1..(n + 1)] = Op(f[1..n], r[n + 1])
<1>1. n + 1 \in Nat /\ n <= n /\ n <= n + 1
  OBVIOUS
<1>2. g[1..(n + 1)] = Op(g[1..n], r[n + 1])
  BY <1>1, FoldNext
<1>3. \A m \in Nat : n <= m /\ FoldsTo(g, c, r, m) => f[1..n] = g[1..n]
  BY <1>1, FoldsAgree
<1> QED BY <1>1, <1>2, <1>3

\* One element more.
LEMMA FoldAppend ==
    ASSUME NEW c, NEW S, NEW s \in Seq(S), NEW x \in S
    PROVE  Fold(c, Append(s, x)) = Op(Fold(c, s), x)
<1> DEFINE r == Append(s, x)
<1>1. PICK n \in Nat : n = Len(s)
  OBVIOUS
<1>2. r \in Seq(S) /\ Len(r) = n + 1 /\ r[n + 1] = x /\ \A i \in 1..n : s[i] = r[i]
  BY <1>1
<1>3. PICK f : FoldsTo(f, c, s, n) /\ Fold(c, s) = f[1..n]
  BY <1>1, FoldIs
<1> HIDE DEF r
<1>4. PICK g : FoldsTo(g, c, r, n + 1) /\ Fold(c, r) = g[1..(n + 1)]
  BY <1>2, FoldIs
<1>5. g[1..(n + 1)] = Op(f[1..n], r[n + 1])
  BY <1>2, <1>3, <1>4, FoldOneMore
<1> QED BY <1>2, <1>3, <1>4, <1>5 DEF r
=============================================================================
