------------------------------ MODULE ListLemmas ------------------------------
(***************************************************************************)
(* Lemmas about lists that the proofs share: what the operators of         *)
(* SequencesExt that add, take and select elements do to the set of a      *)
(* list's elements, and that they put no element into a list twice.        *)
(*                                                                         *)
(* The induction that Among and Orders of CombatPiles need is over numbers *)
(* in a set: the library's induction theorems take an operator as a        *)
(* parameter.                                                              *)
(***************************************************************************)
EXTENDS Integers, SequencesExt, FiniteSetTheorems, SequenceTheorems, TLAPS

\* By the minimal element of the sets {i \in S : i <= x} under inclusion.
LEMMA MinOfNaturals ==
    ASSUME NEW S \in SUBSET Nat, S # {}
    PROVE  Min(S) \in S /\ \A y \in S : Min(S) <= y
<1>. DEFINE R == StrictSubsetOrdering(Nat)
            UpTo(x) == {i \in S : i <= x}
            T == {UpTo(x) : x \in S}
<1>1. T \subseteq FiniteSubsetsOf(Nat) /\ T # {}
  <2>. SUFFICES ASSUME NEW x \in S PROVE UpTo(x) \in FiniteSubsetsOf(Nat)
    OBVIOUS
  <2>0. x \in Nat /\ \A i \in S : i \in Nat
    OBVIOUS
  <2>1. IsFiniteSet(0 .. x) /\ UpTo(x) \subseteq 0 .. x
    <3>1. UpTo(x) \subseteq 0 .. x
      <4>. SUFFICES ASSUME NEW i \in S, i <= x PROVE i \in 0 .. x
        OBVIOUS
      <4>. QED
        BY <2>0
    <3>2. x \in Int /\ 0 \in Int
      BY <2>0
    <3>3. IsFiniteSet(0 .. x)
      BY <3>2, FS_Interval
    <3>. QED
      BY <3>1, <3>3
  <2>2. IsFiniteSet(UpTo(x))
    BY <2>1, FS_Subset
  <2>. QED
    BY <2>2 DEF FiniteSubsetsOf
<1>2. IsWellFoundedOn(R, FiniteSubsetsOf(Nat))
  BY FS_StrictSubsetOrderingWellFounded
<1>3. \E t \in T : \A u \in T : <<u, t>> \notin R
  <2>. HIDE DEF R, T
  <2>. QED
    BY <1>1, <1>2, WFMin
<1>4. PICK x \in S : \A y \in S : <<UpTo(y), UpTo(x)>> \notin R
  BY <1>3
<1>5. \A y \in S : x <= y
  <2>. SUFFICES ASSUME NEW y \in S, y < x PROVE FALSE
    OBVIOUS
  <2>1. \A i \in S : i \in Nat /\ (i <= y => i <= x)
    OBVIOUS
  <2>2. UpTo(y) \subseteq UpTo(x)
    BY <2>1
  <2>3. x \in UpTo(x) /\ x \notin UpTo(y)
    OBVIOUS
  <2>4. UpTo(y) \in SUBSET Nat /\ UpTo(x) \in SUBSET Nat /\ UpTo(x) # UpTo(y)
    BY <2>3
  <2>. HIDE DEF UpTo
  <2>. QED
    BY <1>4, <2>2, <2>4 DEF StrictSubsetOrdering
<1>. QED
  BY <1>5 DEF Min

\* An element of a list is at a position of it.
LEMMA Elements ==
    ASSUME NEW S, NEW s \in Seq(S)
    PROVE  /\ ToSet(s) \subseteq S
           /\ \A i \in 1 .. Len(s) : s[i] \in ToSet(s)
           /\ \A x \in ToSet(s) : \E i \in 1 .. Len(s) : s[i] = x
<1>1. DOMAIN s = 1 .. Len(s)
  BY LenProperties
<1>2. \A i \in 1 .. Len(s) : s[i] \in S
  BY ElementOfSeq
<1>. HIDE DEF ToSet
<1>3. ToSet(s) = {s[i] : i \in 1 .. Len(s)}
  BY <1>1 DEF ToSet
<1>. QED
  BY <1>2, <1>3

\* A list holds no element twice.
LEMMA NoRepeats ==
    ASSUME NEW S, NEW s \in Seq(S)
    PROVE  IsInjective(s) <=> \A i, j \in 1 .. Len(s) : s[i] = s[j] => i = j
<1>1. DOMAIN s = 1 .. Len(s)
  BY LenProperties
<1>. QED
  BY <1>1 DEF IsInjective

LEMMA AppendList ==
    ASSUME NEW S, NEW s \in Seq(S), NEW x \in S
    PROVE  /\ Append(s, x) \in Seq(S) /\ Len(Append(s, x)) = Len(s) + 1
           /\ ToSet(Append(s, x)) = ToSet(s) \cup {x}
           /\ IsInjective(s) /\ x \notin ToSet(s) => IsInjective(Append(s, x))
<1>. DEFINE t == Append(s, x)
<1>1. /\ t \in Seq(S) /\ Len(t) = Len(s) + 1 /\ Len(s) \in Nat
      /\ \A i \in 1 .. Len(s) : t[i] = s[i]
      /\ t[Len(s) + 1] = x
  BY AppendProperties, LenProperties
<1>. HIDE DEF t
<1>2. \A i \in 1 .. Len(t) : i \in 1 .. Len(s) \/ i = Len(s) + 1
  BY <1>1
<1>3. 1 .. Len(s) \subseteq 1 .. Len(t) /\ Len(s) + 1 \in 1 .. Len(t)
  BY <1>1
<1>4. ToSet(t) = ToSet(s) \cup {x}
  <2>1. ToSet(t) \subseteq ToSet(s) \cup {x}
    BY <1>1, <1>2, Elements
  <2>2. ToSet(s) \subseteq ToSet(t)
    <3>. SUFFICES ASSUME NEW y \in ToSet(s) PROVE y \in ToSet(t)
      OBVIOUS
    <3>1. PICK i \in 1 .. Len(s) : s[i] = y
      BY Elements
    <3>2. i \in 1 .. Len(t) /\ t[i] = y
      BY <1>1, <1>3, <3>1
    <3>. QED
      BY <1>1, <3>2, Elements
  <2>3. x \in ToSet(t)
    BY <1>1, <1>3, Elements
  <2>. QED
    BY <2>1, <2>2, <2>3
<1>5. ASSUME IsInjective(s), x \notin ToSet(s) PROVE IsInjective(t)
  <2>1. \A i, j \in 1 .. Len(s) : s[i] = s[j] => i = j
    BY <1>5, NoRepeats
  <2>2. \A i \in 1 .. Len(s) : s[i] # x
    BY <1>5, Elements
  <2>3. \A i, j \in 1 .. Len(t) : t[i] = t[j] => i = j
    BY <1>1, <1>2, <2>1, <2>2
  <2>. QED
    BY <1>1, <2>3, NoRepeats
<1>. QED
  BY <1>1, <1>4, <1>5 DEF t

LEMMA ConcatList ==
    ASSUME NEW S, NEW s \in Seq(S), NEW t \in Seq(S)
    PROVE  /\ s \o t \in Seq(S) /\ Len(s \o t) = Len(s) + Len(t)
           /\ ToSet(s \o t) = ToSet(s) \cup ToSet(t)
           /\ IsInjective(s) /\ IsInjective(t) /\ ToSet(s) \cap ToSet(t) = {} => IsInjective(s \o t)
<1>. DEFINE u == s \o t
            m == Len(s)
            n == Len(t)
<1>1. /\ u \in Seq(S) /\ Len(u) = m + n /\ m \in Nat /\ n \in Nat
      /\ \A i \in 1 .. m : u[i] = s[i]
      /\ \A i \in m + 1 .. m + n : u[i] = t[i - m]
  <2>1. u \in Seq(S) /\ Len(u) = m + n /\ m \in Nat /\ n \in Nat
    BY ConcatProperties, LenProperties
  <2>2. \A i \in 1 .. m + n : u[i] = IF i <= m THEN s[i] ELSE t[i - m]
    BY ConcatProperties
  <2>. HIDE DEF u, m, n
  <2>. QED
    BY <2>1, <2>2
<1>. HIDE DEF u, m, n
<1>2. \A i \in 1 .. m + n : i \in 1 .. m \/ (i \in m + 1 .. m + n /\ i - m \in 1 .. n)
  BY <1>1
<1>3. 1 .. m \subseteq 1 .. m + n /\ \A j \in 1 .. n : j + m \in m + 1 .. m + n /\ j + m \in 1 .. m + n /\ (j + m) - m = j
  BY <1>1
<1>4. ToSet(u) = ToSet(s) \cup ToSet(t)
  <2>1. \A i \in 1 .. m + n : u[i] \in ToSet(s) \cup ToSet(t)
    BY <1>1, <1>2, Elements DEF m, n
  <2>2. \A i \in 1 .. m : s[i] \in ToSet(u)
    BY <1>1, <1>3, Elements
  <2>3. ASSUME NEW j \in 1 .. n PROVE t[j] \in ToSet(u)
    <3>1. j + m \in 1 .. Len(u)
      BY <1>1
    <3>2. u[j + m] = t[j]
      <4>1. j + m \in m + 1 .. m + n /\ (j + m) - m = j
        BY <1>1
      <4>2. u[j + m] = t[(j + m) - m]
        BY <1>1, <4>1
      <4>. QED
        BY <4>1, <4>2
    <3>3. u[j + m] \in ToSet(u)
      BY <1>1, <3>1, Elements
    <3>. QED
      BY <3>2, <3>3
  <2>4. ToSet(u) \subseteq ToSet(s) \cup ToSet(t)
    <3>1. \A x \in ToSet(u) : \E i \in 1 .. m + n : u[i] = x
      BY <1>1, Elements
    <3>. QED
      BY <2>1, <3>1
  <2>5. ToSet(s) \subseteq ToSet(u)
    <3>1. \A x \in ToSet(s) : \E i \in 1 .. m : s[i] = x
      BY Elements DEF m
    <3>. QED
      BY <2>2, <3>1
  <2>6. ToSet(t) \subseteq ToSet(u)
    <3>1. \A x \in ToSet(t) : \E j \in 1 .. n : t[j] = x
      BY Elements DEF n
    <3>. QED
      BY <2>3, <3>1
  <2>. QED
    BY <2>4, <2>5, <2>6
<1>5. ASSUME IsInjective(s), IsInjective(t), ToSet(s) \cap ToSet(t) = {} PROVE IsInjective(u)
  <2>1. \A i, j \in 1 .. m : s[i] = s[j] => i = j
    BY <1>5, NoRepeats DEF m
  <2>2. \A i, j \in 1 .. n : t[i] = t[j] => i = j
    BY <1>5, NoRepeats DEF n
  <2>3. \A i \in 1 .. m, j \in 1 .. n : s[i] # t[j]
    BY <1>5, Elements DEF m, n
  <2>4. \A i, j \in 1 .. m + n : u[i] = u[j] => i = j
    <3>. SUFFICES ASSUME NEW i \in 1 .. m + n, NEW j \in 1 .. m + n, u[i] = u[j] PROVE i = j
      OBVIOUS
    <3>1. CASE i \in 1 .. m /\ j \in 1 .. m
      BY <1>1, <2>1, <3>1
    <3>2. CASE i \in m + 1 .. m + n /\ i - m \in 1 .. n /\ j \in m + 1 .. m + n /\ j - m \in 1 .. n
      <4>1. i - m = j - m
        BY <1>1, <2>2, <3>2
      <4>. QED
        BY <1>1, <4>1
    <3>3. ~(i \in 1 .. m /\ j \in m + 1 .. m + n /\ j - m \in 1 .. n)
      BY <1>1, <2>3
    <3>4. ~(j \in 1 .. m /\ i \in m + 1 .. m + n /\ i - m \in 1 .. n)
      BY <1>1, <2>3
    <3>. QED
      BY <1>2, <3>1, <3>2, <3>3, <3>4
  <2>. QED
    BY <1>1, <2>4, NoRepeats
<1>. QED
  BY <1>1, <1>4, <1>5 DEF u, m, n

\* A stretch of a list.
LEMMA Stretch ==
    ASSUME NEW S, NEW s \in Seq(S), NEW a \in Int, NEW b \in Int, a >= 1, b <= Len(s)
    PROVE  LET t == SubSeq(s, a, b) IN
           /\ t \in Seq(S)
           /\ Len(t) <= Len(s)
           /\ \A x \in ToSet(t) : \E i \in a .. b : s[i] = x
           /\ \A i \in a .. b : s[i] \in ToSet(t)
           /\ IsInjective(s) => IsInjective(t)
<1>. DEFINE t == SubSeq(s, a, b)
<1>0. Len(s) \in Nat
  BY LenProperties
<1>1. \A i \in a .. b : i \in 1 .. Len(s)
  BY <1>0
<1>2. \A i \in a .. b : s[i] \in S
  BY <1>1, ElementOfSeq
<1>3. /\ t \in Seq(S) /\ Len(t) = IF a <= b THEN b - a + 1 ELSE 0
      /\ \A i \in 1 .. b - a + 1 : t[i] = s[a + i - 1]
  BY <1>2, SubSeqProperties
<1>. HIDE DEF t
<1>4. 1 .. Len(t) = 1 .. b - a + 1 /\ Len(t) <= Len(s)
  BY <1>0, <1>3
<1>5. \A i \in 1 .. Len(t) : a + i - 1 \in a .. b /\ a + i - 1 \in 1 .. Len(s) /\ t[i] = s[a + i - 1]
  BY <1>0, <1>3, <1>4
<1>6. \A i \in a .. b : i - a + 1 \in 1 .. Len(t) /\ a + (i - a + 1) - 1 = i
  BY <1>0, <1>3, <1>4
<1>7. ASSUME NEW x \in ToSet(t) PROVE \E i \in a .. b : s[i] = x
  <2>1. PICK j \in 1 .. Len(t) : t[j] = x
    BY <1>3, Elements
  <2>. QED
    BY <1>5, <2>1
<1>8. ASSUME NEW i \in a .. b PROVE s[i] \in ToSet(t)
  <2>1. i - a + 1 \in 1 .. Len(t) /\ t[i - a + 1] = s[i]
    BY <1>5, <1>6
  <2>2. t[i - a + 1] \in ToSet(t)
    BY <1>3, <2>1, Elements
  <2>. QED
    BY <2>1, <2>2
<1>9. ASSUME IsInjective(s) PROVE IsInjective(t)
  <2>1. \A i, j \in 1 .. Len(s) : s[i] = s[j] => i = j
    BY <1>9, NoRepeats
  <2>2. \A i, j \in 1 .. Len(t) : t[i] = t[j] => i = j
    <3>. SUFFICES ASSUME NEW i \in 1 .. Len(t), NEW j \in 1 .. Len(t), t[i] = t[j] PROVE i = j
      OBVIOUS
    <3>1. a + i - 1 = a + j - 1
      BY <1>5, <2>1
    <3>. QED
      BY <1>4, <3>1
  <2>. QED
    BY <1>3, <2>2, NoRepeats
<1>. QED
  BY <1>3, <1>4, <1>7, <1>8, <1>9 DEF t

LEMMA RemoveAtList ==
    ASSUME NEW S, NEW s \in Seq(S), NEW k \in 1 .. Len(s)
    PROVE  /\ RemoveAt(s, k) \in Seq(S) /\ Len(RemoveAt(s, k)) = Len(s) - 1
           /\ ToSet(RemoveAt(s, k)) \subseteq ToSet(s)
           /\ ToSet(s) \subseteq ToSet(RemoveAt(s, k)) \cup {s[k]}
           /\ IsInjective(s) => IsInjective(RemoveAt(s, k)) /\ s[k] \notin ToSet(RemoveAt(s, k))
<1>. DEFINE n == Len(s)
            t == SubSeq(s, 1, k - 1)
            u == SubSeq(s, k + 1, n)
<1>1. n \in Nat /\ k \in Int /\ 1 <= k /\ k <= n
  BY LenProperties
<1>2. k - 1 \in Int /\ k - 1 <= n /\ k + 1 \in Int /\ k + 1 >= 1 /\ 1 \in Int /\ n \in Int /\ 1 >= 1 /\ n <= n
  BY <1>1
<1>3. /\ t \in Seq(S) /\ \A x \in ToSet(t) : \E i \in 1 .. k - 1 : s[i] = x
      /\ \A i \in 1 .. k - 1 : s[i] \in ToSet(t)
      /\ IsInjective(s) => IsInjective(t)
  BY <1>2, Stretch
<1>4. /\ u \in Seq(S) /\ \A x \in ToSet(u) : \E i \in k + 1 .. n : s[i] = x
      /\ \A i \in k + 1 .. n : s[i] \in ToSet(u)
      /\ IsInjective(s) => IsInjective(u)
  BY <1>2, Stretch
<1>5. Len(t) = k - 1 /\ Len(u) = n - k
  <2>1. \A i \in 1 .. k - 1 : i \in 1 .. n
    BY <1>1
  <2>2. \A i \in k + 1 .. n : i \in 1 .. n
    BY <1>1
  <2>3. Len(t) = IF 1 <= k - 1 THEN k - 1 - 1 + 1 ELSE 0
    BY <1>2, <2>1, ElementOfSeq, SubSeqProperties
  <2>4. Len(u) = IF k + 1 <= n THEN n - (k + 1) + 1 ELSE 0
    BY <1>2, <2>2, ElementOfSeq, SubSeqProperties
  <2>. HIDE DEF n, t, u
  <2>. QED
    BY <1>1, <2>3, <2>4
<1>6. RemoveAt(s, k) = t \o u
  BY DEF RemoveAt
<1>. HIDE DEF n, t, u
<1>7. /\ t \o u \in Seq(S) /\ Len(t \o u) = Len(t) + Len(u)
      /\ ToSet(t \o u) = ToSet(t) \cup ToSet(u)
      /\ IsInjective(t) /\ IsInjective(u) /\ ToSet(t) \cap ToSet(u) = {} => IsInjective(t \o u)
  BY <1>3, <1>4, ConcatList
<1>8. Len(t \o u) = n - 1
  BY <1>1, <1>5, <1>7
<1>9. ToSet(t) \cup ToSet(u) \subseteq ToSet(s)
  <2>1. \A i \in 1 .. k - 1 : i \in 1 .. n
    BY <1>1
  <2>2. \A i \in k + 1 .. n : i \in 1 .. n
    BY <1>1
  <2>3. \A x \in ToSet(t) : x \in ToSet(s)
    BY <1>3, <2>1, Elements DEF n
  <2>4. \A x \in ToSet(u) : x \in ToSet(s)
    BY <1>4, <2>2, Elements DEF n
  <2>. QED
    BY <2>3, <2>4
<1>10. ToSet(s) \subseteq (ToSet(t) \cup ToSet(u)) \cup {s[k]}
  <2>1. \A i \in 1 .. n : i \in 1 .. k - 1 \/ i \in k + 1 .. n \/ i = k
    BY <1>1
  <2>. QED
    BY <1>3, <1>4, <2>1, Elements DEF n
<1>11. ASSUME IsInjective(s)
       PROVE  ToSet(t) \cap ToSet(u) = {} /\ s[k] \notin ToSet(t) \cup ToSet(u)
  <2>1. \A i, j \in 1 .. n : s[i] = s[j] => i = j
    BY <1>11, NoRepeats DEF n
  <2>2. \A i \in 1 .. k - 1 : i \in 1 .. n /\ i # k /\ \A j \in k + 1 .. n : j \in 1 .. n /\ i # j
    BY <1>1
  <2>3. \A i \in k + 1 .. n : i \in 1 .. n /\ i # k
    BY <1>1
  <2>4. \A x \in ToSet(t) : \E i \in 1 .. k - 1 : s[i] = x
    BY <1>3
  <2>5. \A x \in ToSet(u) : \E i \in k + 1 .. n : s[i] = x
    BY <1>4
  <2>6. ToSet(t) \cap ToSet(u) = {}
    BY <2>1, <2>2, <2>4, <2>5
  <2>7. s[k] \notin ToSet(t) \cup ToSet(u)
    BY <1>1, <2>1, <2>2, <2>3, <2>4, <2>5
  <2>. QED
    BY <2>6, <2>7
<1>. QED
  BY <1>3, <1>4, <1>6, <1>7, <1>8, <1>9, <1>10, <1>11 DEF n

LEMMA RemoveFirstList ==
    ASSUME NEW S, NEW s \in Seq(S), NEW x
    PROVE  LET t == RemoveFirst(s, x) IN
           /\ t \in Seq(S) /\ Len(t) <= Len(s)
           /\ x \in ToSet(s) => Len(t) = Len(s) - 1
           /\ x \notin ToSet(s) => t = s
           /\ ToSet(t) \subseteq ToSet(s) /\ ToSet(s) \subseteq ToSet(t) \cup {x}
           /\ IsInjective(s) => IsInjective(t) /\ x \notin ToSet(t)
<1>1. Len(s) \in Nat
  BY LenProperties
<1>2. CASE x \notin ToSet(s)
  <2>1. RemoveFirst(s, x) = s
    BY <1>2, Elements DEF RemoveFirst
  <2>. QED
    BY <1>1, <1>2, <2>1
<1>3. CASE x \in ToSet(s)
  <2>. DEFINE I == {i \in 1 .. Len(s) : s[i] = x}
              k == Min(I)
  <2>1. I # {}
    BY <1>3, Elements
  <2>0. I \in SUBSET Nat
    OBVIOUS
  <2>2. k \in I
    <3>. HIDE DEF I
    <3>. QED
      BY <2>0, <2>1, MinOfNaturals
  <2>3. RemoveFirst(s, x) = RemoveAt(s, k)
    BY <2>1 DEF RemoveFirst, SelectInSeq
  <2>4. k \in 1 .. Len(s) /\ s[k] = x
    BY <2>2
  <2>. HIDE DEF k, I
  <2>5. /\ RemoveAt(s, k) \in Seq(S) /\ Len(RemoveAt(s, k)) = Len(s) - 1
        /\ ToSet(RemoveAt(s, k)) \subseteq ToSet(s)
        /\ ToSet(s) \subseteq ToSet(RemoveAt(s, k)) \cup {x}
        /\ IsInjective(s) => IsInjective(RemoveAt(s, k)) /\ x \notin ToSet(RemoveAt(s, k))
    BY <2>4, RemoveAtList
  <2>6. Len(s) - 1 <= Len(s)
    BY <1>1
  <2>. QED
    BY <1>3, <2>3, <2>5, <2>6
<1>. QED
  BY <1>2, <1>3

LEMMA FrontList ==
    ASSUME NEW S, NEW s \in Seq(S), s # <<>>
    PROVE  /\ Front(s) \in Seq(S) /\ Len(Front(s)) <= Len(s) /\ Last(s) \in ToSet(s)
           /\ ToSet(Front(s)) \subseteq ToSet(s)
           /\ ToSet(s) \subseteq ToSet(Front(s)) \cup {Last(s)}
           /\ IsInjective(s) => IsInjective(Front(s)) /\ Last(s) \notin ToSet(Front(s))
<1>. DEFINE n == Len(s)
            t == SubSeq(s, 1, n - 1)
<1>1. n \in Nat /\ n >= 1
  BY EmptySeq
<1>2. n - 1 \in Int /\ n - 1 <= n /\ 1 \in Int /\ 1 >= 1 /\ n \in 1 .. n
  BY <1>1
<1>3. /\ t \in Seq(S) /\ Len(t) <= Len(s)
      /\ \A x \in ToSet(t) : \E i \in 1 .. n - 1 : s[i] = x
      /\ \A i \in 1 .. n - 1 : s[i] \in ToSet(t)
      /\ IsInjective(s) => IsInjective(t)
  BY <1>2, Stretch
<1>4. Front(s) = t /\ Last(s) = s[n]
  BY DEF Front, Last
<1>el. /\ \A i \in 1 .. n : s[i] \in ToSet(s)
       /\ \A x \in ToSet(s) : \E i \in 1 .. n : s[i] = x
  BY Elements
<1>. HIDE DEF n, t
<1>5. \A i \in 1 .. n : i \in 1 .. n - 1 \/ i = n
  BY <1>1
<1>6. \A i \in 1 .. n - 1 : i \in 1 .. n /\ i # n
  BY <1>1
<1>7. \A x \in ToSet(t) : x \in ToSet(s)
  BY <1>3, <1>6, <1>el
<1>8. \A x \in ToSet(s) : x \in ToSet(t) \cup {s[n]}
  BY <1>3, <1>5, <1>el
<1>9. ASSUME IsInjective(s) PROVE s[n] \notin ToSet(t)
  <2>1. \A i, j \in 1 .. n : s[i] = s[j] => i = j
    BY <1>9, NoRepeats DEF n
  <2>. QED
    BY <1>2, <1>3, <1>6, <2>1
<1>10. s[n] \in ToSet(s)
  BY <1>2, Elements DEF n
<1>. QED
  BY <1>3, <1>4, <1>7, <1>8, <1>9, <1>10

\* One element is a list.
LEMMA Single ==
    ASSUME NEW S, NEW x \in S
    PROVE  <<x>> \in Seq(S) /\ Len(<<x>>) = 1 /\ ToSet(<<x>>) = {x} /\ IsInjective(<<x>>)
<1>1. <<x>> \in Seq(S) /\ Len(<<x>>) = 1 /\ <<x>>[1] = x
  OBVIOUS
<1>2. 1 \in 1 .. Len(<<x>>) /\ \A i \in 1 .. Len(<<x>>) : i = 1
  BY <1>1
<1>3. \A i \in 1 .. Len(<<x>>) : <<x>>[i] = x
  BY <1>1, <1>2
<1>4. ToSet(<<x>>) = {x}
  <2>1. <<x>>[1] \in ToSet(<<x>>)
    <3>. DEFINE t == <<x>>
    <3>1. t \in Seq(S) /\ 1 \in 1 .. Len(t)
      BY <1>1, <1>2
    <3>. HIDE DEF t
    <3>2. t[1] \in ToSet(t)
      BY <3>1, Elements
    <3>. QED
      BY <3>2 DEF t
  <2>2. \A y \in ToSet(<<x>>) : y = x
    <3>. DEFINE t == <<x>>
    <3>1. t \in Seq(S) /\ \A i \in 1 .. Len(t) : t[i] = x
      BY <1>1, <1>3
    <3>. HIDE DEF t
    <3>2. \A y \in ToSet(t) : \E i \in 1 .. Len(t) : t[i] = y
      BY <3>1, Elements
    <3>3. \A y \in ToSet(t) : y = x
      BY <3>1, <3>2
    <3>. QED
      BY <3>3 DEF t
  <2>. QED
    BY <1>1, <2>1, <2>2
<1>5. IsInjective(<<x>>)
  BY <1>1, <1>2, NoRepeats
<1>. QED
  BY <1>1, <1>4, <1>5

\* No element is a list.
LEMMA None ==
    ASSUME NEW S
    PROVE  <<>> \in Seq(S) /\ Len(<<>>) = 0 /\ ToSet(<<>>) = {} /\ IsInjective(<<>>)
<1>1. <<>> \in Seq(S) /\ Len(<<>>) = 0
  BY EmptySeq
<1>2. \A i \in 1 .. Len(<<>>) : FALSE
  BY <1>1
<1>3. ToSet(<<>>) = {}
  BY <1>1, <1>2, Elements
<1>4. IsInjective(<<>>)
  BY <1>1, <1>2, NoRepeats
<1>. QED
  BY <1>1, <1>3, <1>4

LEMMA InsertAtList ==
    ASSUME NEW S, NEW s \in Seq(S), NEW x \in S, NEW k \in 1 .. Len(s) + 1
    PROVE  /\ InsertAt(s, k, x) \in Seq(S) /\ Len(InsertAt(s, k, x)) = Len(s) + 1
           /\ ToSet(InsertAt(s, k, x)) = ToSet(s) \cup {x}
           /\ IsInjective(s) /\ x \notin ToSet(s) => IsInjective(InsertAt(s, k, x))
<1>. DEFINE n == Len(s)
            t == SubSeq(s, 1, k - 1)
            u == SubSeq(s, k, n)
<1>1. n \in Nat /\ k \in Int /\ 1 <= k /\ k - 1 <= n
  BY LenProperties
<1>2. k - 1 \in Int /\ 1 \in Int /\ 1 >= 1 /\ n \in Int /\ n <= n /\ k >= 1
  BY <1>1
<1>3. /\ t \in Seq(S) /\ \A y \in ToSet(t) : \E i \in 1 .. k - 1 : s[i] = y
      /\ \A i \in 1 .. k - 1 : s[i] \in ToSet(t)
      /\ IsInjective(s) => IsInjective(t)
  BY <1>1, <1>2, Stretch
<1>4. /\ u \in Seq(S) /\ \A y \in ToSet(u) : \E i \in k .. n : s[i] = y
      /\ \A i \in k .. n : s[i] \in ToSet(u)
      /\ IsInjective(s) => IsInjective(u)
  BY <1>1, <1>2, Stretch
<1>5. Len(t) = k - 1 /\ Len(u) = n - k + 1
  <2>1. \A i \in 1 .. k - 1 : i \in 1 .. n
    BY <1>1
  <2>2. \A i \in k .. n : i \in 1 .. n
    BY <1>1
  <2>3. Len(t) = IF 1 <= k - 1 THEN k - 1 - 1 + 1 ELSE 0
    BY <1>2, <2>1, ElementOfSeq, SubSeqProperties
  <2>4. Len(u) = IF k <= n THEN n - k + 1 ELSE 0
    BY <1>1, <1>2, <2>2, ElementOfSeq, SubSeqProperties
  <2>. HIDE DEF n, t, u
  <2>. QED
    BY <1>1, <2>3, <2>4
<1>6. InsertAt(s, k, x) = (t \o <<x>>) \o u
  BY DEF InsertAt
<1>. HIDE DEF n, t, u
<1>7. \A i \in 1 .. n : i \in 1 .. k - 1 \/ i \in k .. n
  BY <1>1
<1>8. (\A i \in 1 .. k - 1 : i \in 1 .. n) /\ (\A i \in k .. n : i \in 1 .. n)
  BY <1>1
<1>9. ToSet(t) \cup ToSet(u) = ToSet(s)
  <2>1. \A y \in ToSet(t) : y \in ToSet(s)
    BY <1>3, <1>8, Elements DEF n
  <2>2. \A y \in ToSet(u) : y \in ToSet(s)
    BY <1>4, <1>8, Elements DEF n
  <2>3. \A y \in ToSet(s) : y \in ToSet(t) \cup ToSet(u)
    BY <1>3, <1>4, <1>7, Elements DEF n
  <2>. QED
    BY <2>1, <2>2, <2>3
<1>10. ASSUME IsInjective(s) PROVE ToSet(t) \cap ToSet(u) = {}
  <2>1. \A i, j \in 1 .. n : s[i] = s[j] => i = j
    BY <1>10, NoRepeats DEF n
  <2>2. \A i \in 1 .. k - 1 : \A j \in k .. n : i # j
    BY <1>1
  <2>. QED
    BY <1>3, <1>4, <1>8, <2>1, <2>2
<1>11. <<x>> \in Seq(S) /\ Len(<<x>>) = 1 /\ ToSet(<<x>>) = {x} /\ IsInjective(<<x>>)
  BY Single
<1>12. /\ t \o <<x>> \in Seq(S) /\ Len(t \o <<x>>) = k
       /\ ToSet(t \o <<x>>) = ToSet(t) \cup {x}
       /\ IsInjective(t) /\ x \notin ToSet(t) => IsInjective(t \o <<x>>)
  <2>. DEFINE y == <<x>>
  <2>. HIDE DEF y
  <2>1. y \in Seq(S) /\ Len(y) = 1 /\ ToSet(y) = {x} /\ IsInjective(y)
    BY <1>11 DEF y
  <2>2. t \o y \in Seq(S) /\ Len(t \o y) = Len(t) + Len(y) /\ ToSet(t \o y) = ToSet(t) \cup ToSet(y)
        /\ (IsInjective(t) /\ IsInjective(y) /\ ToSet(t) \cap ToSet(y) = {} => IsInjective(t \o y))
    <3>1. t \in Seq(S) /\ y \in Seq(S)
      BY <1>3, <2>1
    <3>. HIDE DEF t
    <3>. QED
      BY <3>1, ConcatList
  <2>3. Len(t) + Len(y) = k
    BY <1>1, <1>5, <2>1
  <2>. QED
    BY <2>1, <2>2, <2>3 DEF y
<1>. DEFINE v == t \o <<x>>
<1>. HIDE DEF v
<1>13. /\ v \o u \in Seq(S) /\ Len(v \o u) = Len(v) + Len(u)
       /\ ToSet(v \o u) = ToSet(v) \cup ToSet(u)
       /\ IsInjective(v) /\ IsInjective(u) /\ ToSet(v) \cap ToSet(u) = {} => IsInjective(v \o u)
  BY <1>4, <1>12, ConcatList DEF v
<1>14. Len(v) + Len(u) = n + 1
  BY <1>1, <1>5, <1>12 DEF v
<1>15. ASSUME IsInjective(s), x \notin ToSet(s) PROVE IsInjective(v \o u)
  <2>1. IsInjective(v) /\ ToSet(v) = ToSet(t) \cup {x}
    BY <1>3, <1>9, <1>12, <1>15 DEF v
  <2>2. ToSet(v) \cap ToSet(u) = {}
    BY <1>9, <1>10, <1>15, <2>1
  <2>. QED
    BY <1>4, <1>13, <1>15, <2>1, <2>2
<1>16. ToSet(v) \cup ToSet(u) = ToSet(s) \cup {x}
  BY <1>9, <1>12 DEF v
<1>. QED
  BY <1>6, <1>13, <1>14, <1>15, <1>16 DEF n, v

\* Induction on numbers, for a set of them.
LEMMA Induction ==
    ASSUME NEW S, 0 \in S, \A n \in Nat : n \in S => n + 1 \in S
    PROVE  Nat \subseteq S
<1>. DEFINE R == {n \in Nat : n \notin S}
<1>. SUFFICES ASSUME R # {} PROVE FALSE
  OBVIOUS
<1>1. R \in SUBSET Nat
  OBVIOUS
<1>2. Min(R) \in R /\ \A y \in R : Min(R) <= y
  <2>. HIDE DEF R
  <2>. QED
    BY <1>1, MinOfNaturals
<1>3. PICK m \in R : \A y \in R : m <= y
  BY <1>2
<1>4. m \in Nat /\ m # 0
  OBVIOUS
<1>5. m - 1 \in Nat /\ m - 1 \notin R /\ (m - 1) + 1 = m
  BY <1>3, <1>4
<1>6. m - 1 \in S
  BY <1>5
<1>. QED
  BY <1>5, <1>6

\* The largest of some positions of a list.
LEMMA LastPosition ==
    ASSUME NEW n \in Nat, NEW S \in SUBSET (1 .. n), S # {}
    PROVE  Max(S) \in S
<1>. DEFINE T == {n - i : i \in S}
<1>1. \A i \in S : i \in Nat /\ i <= n
  OBVIOUS
<1>2. T \in SUBSET Nat /\ T # {}
  <2>1. \A i \in S : n - i \in Nat
    BY <1>1
  <2>. QED
    BY <2>1
<1>3. Min(T) \in T /\ \A y \in T : Min(T) <= y
  <2>. HIDE DEF T
  <2>. QED
    BY <1>2, MinOfNaturals
<1>4. PICK k \in S : \A i \in S : n - k <= n - i
  <2>1. PICK k \in S : Min(T) = n - k
    BY <1>3
  <2>. QED
    BY <1>3, <2>1
<1>5. \A i \in S : k >= i
  BY <1>1, <1>4
<1>. QED
  BY <1>5 DEF Max

=============================================================================
