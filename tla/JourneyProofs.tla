---------------------------- MODULE JourneyProofs ----------------------------
(****************************************************************************)
(* Theorems about module Journey.  todo, the rest of the program, is a list  *)
(* of effects that replace themselves by others: the proofs say what the     *)
(* lists of the catalogues may hold, and all that may follow from them, and  *)
(* so which effects can only stand at the head of todo.                      *)
(****************************************************************************)
EXTENDS JourneyTables, ListLemmas

-----------------------------------------------------------------------------
(* What effects are made of *)

\* An effect is clean if it is proper, and so is everything it may ever run.
Clean(x) == \E E : x \in E /\ Closed(E)
CleanList(p) == \E E : p \in Seq(E) /\ Closed(E)

LEMMA LargerList ==
    ASSUME NEW E, NEW F, E \subseteq F, NEW p \in Seq(E)
    PROVE  p \in Seq(F)
<1>1. Len(p) \in Nat /\ DOMAIN p = 1 .. Len(p) /\ \A i \in 1 .. Len(p) : p[i] \in E
  BY LenProperties, ElementOfSeq
<1>2. p = [i \in 1 .. Len(p) |-> p[i]]
  BY <1>1
<1>. QED
  BY <1>1, <1>2

LEMMA ClosedUnion ==
    ASSUME NEW Es, \A E \in Es : Closed(E)
    PROVE  Closed(UNION Es)
<1>. SUFFICES ASSUME NEW E \in Es, NEW x \in E
              PROVE  Proper(x) /\ \A b \in Branches(x) : b \in Seq(UNION Es)
  BY DEF Closed
<1>1. Proper(x) /\ \A b \in Branches(x) : b \in Seq(E)
  BY DEF Closed
<1>2. E \subseteq UNION Es
  OBVIOUS
<1>. QED
  BY <1>1, <1>2, LargerList

LEMMA CleanNone == CleanList(<<>>)
<1>1. Closed({}) /\ <<>> \in Seq({})
  BY DEF Closed
<1>. QED
  BY <1>1 DEF CleanList

LEMMA CleanOf ==
    ASSUME NEW S, \A x \in S : Clean(x), NEW p \in Seq(S)
    PROVE  CleanList(p)
<1>. DEFINE Of(x) == CHOOSE E : x \in E /\ Closed(E)
            Es == {Of(x) : x \in S}
<1>1. \A x \in S : x \in Of(x) /\ Closed(Of(x))
  BY DEF Clean
<1>. HIDE DEF Of
<1>2. Closed(UNION Es)
  BY <1>1, ClosedUnion
<1>3. S \subseteq UNION Es
  BY <1>1
<1>4. p \in Seq(UNION Es)
  BY <1>3, LargerList
<1>. QED
  BY <1>2, <1>4 DEF CleanList

LEMMA CleanElement ==
    ASSUME NEW p, CleanList(p)
    PROVE  p \in Seq(ToSet(p)) /\ \A x \in ToSet(p) : Clean(x)
<1>1. PICK E : p \in Seq(E) /\ Closed(E)
  BY DEF CleanList
<1>2. Len(p) \in Nat /\ DOMAIN p = 1 .. Len(p) /\ p = [i \in 1 .. Len(p) |-> p[i]]
  BY <1>1, LenProperties
<1>3. ToSet(p) \subseteq E /\ \A i \in 1 .. Len(p) : p[i] \in ToSet(p)
  BY <1>1, Elements
<1>4. p \in Seq(ToSet(p))
  BY <1>2, <1>3
<1>5. \A x \in ToSet(p) : Clean(x)
  BY <1>1, <1>3 DEF Clean
<1>. QED
  BY <1>4, <1>5

LEMMA CleanConcat ==
    ASSUME NEW p, NEW q, CleanList(p), CleanList(q)
    PROVE  CleanList(p \o q)
<1>1. PICK E : p \in Seq(E) /\ Closed(E)
  BY DEF CleanList
<1>2. PICK F : q \in Seq(F) /\ Closed(F)
  BY DEF CleanList
<1>3. p \in Seq(UNION {E, F}) /\ q \in Seq(UNION {E, F})
  <2>1. E \subseteq UNION {E, F} /\ F \subseteq UNION {E, F}
    OBVIOUS
  <2>. QED
    BY <1>1, <1>2, <2>1, LargerList
<1>4. Closed(UNION {E, F})
  BY <1>1, <1>2, ClosedUnion
<1>5. p \o q \in Seq(UNION {E, F})
  BY <1>3
<1>. QED
  BY <1>4, <1>5 DEF CleanList

LEMMA CleanSingle ==
    ASSUME NEW x, Clean(x)
    PROVE  CleanList(<<x>>)
<1>1. PICK E : x \in E /\ Closed(E)
  BY DEF Clean
<1>2. <<x>> \in Seq(E)
  BY <1>1
<1>. QED
  BY <1>1, <1>2 DEF CleanList

LEMMA CleanBranch ==
    ASSUME NEW x, Clean(x)
    PROVE  Proper(x) /\ \A b \in Branches(x) : CleanList(b)
BY DEF Clean, Closed, CleanList

LEMMA CleanEffect ==
    ASSUME NEW x, Proper(x), \A b \in Branches(x) : CleanList(b)
    PROVE  Clean(x)
<1>. DEFINE Of(b) == CHOOSE E : b \in Seq(E) /\ Closed(E)
            Es == {Of(b) : b \in Branches(x)}
            E == {x} \cup UNION Es
<1>1. \A b \in Branches(x) : b \in Seq(Of(b)) /\ Closed(Of(b))
  BY DEF CleanList
<1>. HIDE DEF Of
<1>2. Closed(UNION Es)
  BY <1>1, ClosedUnion
<1>3. \A b \in Branches(x) : b \in Seq(E)
  <2>. SUFFICES ASSUME NEW b \in Branches(x) PROVE b \in Seq(E)
    OBVIOUS
  <2>1. Of(b) \subseteq E
    OBVIOUS
  <2>. QED
    BY <1>1, <2>1, LargerList
<1>. HIDE DEF Es
<1>4. Closed(E)
  <2>. SUFFICES ASSUME NEW y \in UNION Es, NEW b \in Branches(y)
                PROVE  b \in Seq(E)
    BY <1>2, <1>3 DEF Closed
  <2>1. b \in Seq(UNION Es)
    BY <1>2 DEF Closed
  <2>2. UNION Es \subseteq E
    OBVIOUS
  <2>. QED
    BY <2>1, <2>2, LargerList
<1>. QED
  BY <1>4 DEF Clean

\* A clean effect stays clean when it is told who runs it and what for.
LEMMA CleanTagged ==
    ASSUME NEW x, Clean(x), NEW w, NEW a
    PROVE  Clean([x EXCEPT !.who = w, !.arg = IF @ = "" THEN a ELSE @])
<1>. DEFINE y == [x EXCEPT !.who = w, !.arg = IF @ = "" THEN a ELSE @]
<1>1. Proper(x) /\ \A b \in Branches(x) : CleanList(b)
  BY CleanBranch
<1>2. DOMAIN y = DOMAIN x /\ y.op = x.op /\ y.n = x.n /\ y.of = x.of /\ y.then = x.then
  BY <1>1 DEF Proper, Fields
<1>. HIDE DEF y
<1>3. Proper(y)
  BY <1>1, <1>2 DEF Proper
<1>4. Branches(y) = Branches(x)
  BY <1>2 DEF Branches
<1>5. Clean(y)
  BY <1>1, <1>3, <1>4, CleanEffect
<1>. QED
  BY <1>5 DEF y

LEMMA CleanTuples ==
    /\ \A a : Clean(a) => CleanList(<<a>>)
    /\ \A a, b : Clean(a) /\ Clean(b) => CleanList(<<a, b>>)
    /\ \A a, b, c : Clean(a) /\ Clean(b) /\ Clean(c) => CleanList(<<a, b, c>>)
    /\ \A a, b, c, d : Clean(a) /\ Clean(b) /\ Clean(c) /\ Clean(d) => CleanList(<<a, b, c, d>>)
    /\ \A a, b, c, d, e : Clean(a) /\ Clean(b) /\ Clean(c) /\ Clean(d) /\ Clean(e) =>
          CleanList(<<a, b, c, d, e>>)
<1>1. ASSUME NEW a, Clean(a) PROVE CleanList(<<a>>)
  BY <1>1, CleanSingle
<1>2. ASSUME NEW a, NEW b, Clean(a), Clean(b) PROVE CleanList(<<a, b>>)
  <2>1. <<a, b>> \in Seq({a, b})
    OBVIOUS
  <2>. QED
    BY <1>2, <2>1, CleanOf
<1>3. ASSUME NEW a, NEW b, NEW c, Clean(a), Clean(b), Clean(c) PROVE CleanList(<<a, b, c>>)
  <2>1. <<a, b, c>> \in Seq({a, b, c})
    OBVIOUS
  <2>. QED
    BY <1>3, <2>1, CleanOf
<1>4. ASSUME NEW a, NEW b, NEW c, NEW d, Clean(a), Clean(b), Clean(c), Clean(d)
      PROVE  CleanList(<<a, b, c, d>>)
  <2>1. <<a, b, c, d>> \in Seq({a, b, c, d})
    OBVIOUS
  <2>. QED
    BY <1>4, <2>1, CleanOf
<1>5. ASSUME NEW a, NEW b, NEW c, NEW d, NEW e, Clean(a), Clean(b), Clean(c), Clean(d), Clean(e)
      PROVE  CleanList(<<a, b, c, d, e>>)
  <2>1. <<a, b, c, d, e>> \in Seq({a, b, c, d, e})
    OBVIOUS
  <2>. QED
    BY <1>5, <2>1, CleanOf
<1>. QED
  BY <1>1, <1>2, <1>3, <1>4, <1>5

\* The function of the index that FlattenSeq is the last value of.
Flattens(f, s, n) == f = [i \in 1 .. n |-> IF i = 1 THEN s[i] ELSE f[i - 1] \o s[i]]

LEMMA FlattenSolution ==
    ASSUME NEW s, NEW n \in Nat
    PROVE  \E f : Flattens(f, s, n)
<1>. DEFINE Then(f, i) == IF i = 1 THEN s[i] ELSE f[i - 1] \o s[i]
            Sol(f, m) == f = [i \in 1 .. m |-> Then(f, i)]
            G == {m \in Nat : \E f : Sol(f, m)}
<1>1. 0 \in G
  <2>. DEFINE f == [i \in 1 .. 0 |-> 0]
  <2>1. f = [i \in 1 .. 0 |-> Then(f, i)]
    OBVIOUS
  <2>. HIDE DEF f
  <2>2. Sol(f, 0)
    BY <2>1
  <2>. HIDE DEF Sol
  <2>. QED
    BY <2>2
<1>2. ASSUME NEW m \in Nat, m \in G PROVE m + 1 \in G
  <2>1. PICK f : Sol(f, m)
    BY <1>2
  <2>. DEFINE g == [i \in 1 .. m + 1 |-> IF i = m + 1 THEN Then(f, m + 1) ELSE f[i]]
              h == [i \in 1 .. m + 1 |-> Then(g, i)]
  <2>2. \A i \in 1 .. m : f[i] = Then(f, i)
    <3>. HIDE DEF Then
    <3>. QED
      BY <2>1, Zenon
  <2>3. g[m + 1] = Then(f, m + 1) /\ \A i \in 1 .. m : g[i] = f[i]
    <3>. HIDE DEF Then
    <3>1. m + 1 \in 1 .. m + 1 /\ \A i \in 1 .. m : i \in 1 .. m + 1 /\ i # m + 1
      OBVIOUS
    <3>. QED
      BY <3>1
  <2>4. \A i \in 1 .. m + 1 : i = 1 \/ i - 1 \in 1 .. m
    OBVIOUS
  <2>5. \A i \in 1 .. m + 1 : Then(g, i) = Then(f, i)
    <3>. SUFFICES ASSUME NEW i \in 1 .. m + 1 PROVE Then(g, i) = Then(f, i)
      OBVIOUS
    <3>1. i # 1 => g[i - 1] = f[i - 1]
      BY <2>3, <2>4
    <3>. HIDE DEF g
    <3>. QED
      BY <3>1
  <2>6. \A i \in 1 .. m + 1 : g[i] = Then(f, i)
    <3>. SUFFICES ASSUME NEW i \in 1 .. m + 1 PROVE g[i] = Then(f, i)
      OBVIOUS
    <3>1. i = m + 1 \/ i \in 1 .. m
      OBVIOUS
    <3>. HIDE DEF Then, g
    <3>. QED
      BY <2>2, <2>3, <3>1
  <2>7. g = h
    <3>. HIDE DEF Then
    <3>1. \A i \in 1 .. m + 1 : g[i] = h[i]
      BY <2>5, <2>6
    <3>. QED
      BY <3>1
  <2>8. Sol(g, m + 1)
    BY <2>7
  <2>. HIDE DEF Sol, g
  <2>. QED
    BY <2>8
<1>3. n \in G
  <2>. HIDE DEF G
  <2>. QED
    BY <1>1, <1>2, Induction
<1>4. PICK f : Sol(f, n)
  BY <1>3
<1>5. Flattens(f, s, n)
  BY <1>4, Zenon DEF Flattens
<1>. QED
  BY <1>5

LEMMA FlattenList ==
    ASSUME NEW S, NEW s \in Seq(Seq(S))
    PROVE  FlattenSeq(s) \in Seq(S)
<1>. DEFINE n == Len(s)
            flat == CHOOSE f : Flattens(f, s, n)
<1>1. n \in Nat /\ \A i \in 1 .. n : s[i] \in Seq(S)
  BY LenProperties, ElementOfSeq
<1>2. CASE n = 0
  <2>1. s = <<>>
    BY <1>2
  <2>2. FlattenSeq(s) = s
    BY <1>2 DEF FlattenSeq
  <2>3. <<>> \in Seq(S)
    OBVIOUS
  <2>. QED
    BY <2>1, <2>2, <2>3, Zenon
<1>3. CASE n # 0
  <2>1. FlattenSeq(s) = flat[n]
    BY <1>3 DEF FlattenSeq, Flattens
  <2>2. Flattens(flat, s, n)
    <3>1. \E f : Flattens(f, s, n)
      BY <1>1, FlattenSolution
    <3>. HIDE DEF n
    <3>. QED
      BY <3>1
  <2>. HIDE DEF flat, n
  <2>3. \A i \in 1 .. n : flat[i] = IF i = 1 THEN s[i] ELSE flat[i - 1] \o s[i]
    BY <2>2, Zenon DEF Flattens
  <2>. DEFINE G == {m \in Nat : m + 1 <= n => flat[m + 1] \in Seq(S)}
  <2>4. 0 \in G
    BY <1>1, <2>3
  <2>5. ASSUME NEW m \in Nat, m \in G PROVE m + 1 \in G
    <3>. SUFFICES ASSUME m + 1 + 1 <= n PROVE flat[m + 1 + 1] \in Seq(S)
      OBVIOUS
    <3>1. flat[m + 1] \in Seq(S) /\ m + 1 + 1 \in 1 .. n /\ (m + 1 + 1) - 1 = m + 1 /\ m + 1 + 1 # 1
      BY <1>1, <2>5
    <3>2. flat[m + 1 + 1] = flat[m + 1] \o s[m + 1 + 1]
      <4>1. flat[m + 1 + 1] = IF m + 1 + 1 = 1 THEN s[m + 1 + 1] ELSE flat[(m + 1 + 1) - 1] \o s[m + 1 + 1]
        BY <2>3, <3>1, Zenon
      <4>. QED
        BY <3>1, <4>1, Zenon
    <3>3. s[m + 1 + 1] \in Seq(S)
      BY <1>1, <3>1
    <3>. QED
      BY <3>1, <3>2, <3>3
  <2>6. n - 1 \in G
    <3>1. n - 1 \in Nat
      BY <1>1, <1>3
    <3>. HIDE DEF G
    <3>. QED
      BY <2>4, <2>5, <3>1, Induction
  <2>7. flat[n] \in Seq(S)
    BY <1>1, <2>6
  <2>. QED
    BY <2>1, <2>7
<1>. QED
  BY <1>2, <1>3

LEMMA CleanFlatten ==
    ASSUME NEW n \in Int, NEW f, \A i \in 1 .. n : CleanList(f[i])
    PROVE  CleanList(FlattenSeq([i \in 1 .. n |-> f[i]]))
<1>. DEFINE s == [i \in 1 .. n |-> f[i]]
            S == UNION {ToSet(f[i]) : i \in 1 .. n}
<1>1. \A i \in 1 .. n : f[i] \in Seq(S)
  <2>. SUFFICES ASSUME NEW i \in 1 .. n PROVE f[i] \in Seq(S)
    OBVIOUS
  <2>1. ToSet(f[i]) \subseteq S
    OBVIOUS
  <2>2. f[i] \in Seq(ToSet(f[i]))
    BY CleanElement
  <2>. HIDE DEF S
  <2>. QED
    BY <2>1, <2>2, LargerList
<1>2. \A x \in S : Clean(x)
  BY CleanElement
<1>. HIDE DEF S
<1>3. s \in Seq(Seq(S))
  <2>1. CASE n >= 0
    BY <1>1, <2>1
  <2>2. CASE n < 0
    <3>1. 1 .. n = 1 .. 0
      BY <2>2
    <3>2. s = [i \in 1 .. 0 |-> f[i]]
      BY <3>1
    <3>. QED
      BY <3>2
  <2>. QED
    BY <2>1, <2>2
<1>4. FlattenSeq(s) \in Seq(S)
  BY <1>3, FlattenList
<1>. QED
  BY <1>2, <1>4, CleanOf

\* A clean effect, or a clean list of them, several times.
LEMMA CleanTimes ==
    ASSUME NEW n \in Int, NEW p, CleanList(p)
    PROVE  CleanList(Times(n, p))
<1>. DEFINE f == [i \in 1 .. n |-> p]
<1>1. \A i \in 1 .. n : CleanList(f[i])
  OBVIOUS
<1>2. [i \in 1 .. n |-> f[i]] = [i \in 1 .. n |-> p]
  OBVIOUS
<1>. HIDE DEF f
<1>3. CleanList(FlattenSeq([i \in 1 .. n |-> f[i]]))
  BY <1>1, CleanFlatten
<1>. QED
  BY <1>2, <1>3 DEF Times

LEMMA CleanRepeat ==
    ASSUME NEW n \in Int, NEW x, Clean(x)
    PROVE  CleanList([i \in 1 .. n |-> x])
<1>1. [i \in 1 .. n |-> x] \in Seq({x})
  <2>1. CASE n >= 0
    BY <2>1
  <2>2. CASE n < 0
    <3>1. 1 .. n = 1 .. 0
      BY <2>2
    <3>. QED
      BY <3>1
  <2>. QED
    BY <2>1, <2>2
<1>. QED
  BY <1>1, CleanOf

-----------------------------------------------------------------------------
(* The vocabulary *)

LEMMA CleanDo ==
    ASSUME NEW op, NEW n, NEW of, NEW then,
           op \notin Restricted \cup {"either", "pop_relics", "obtain", "resolve"},
           op \in Amounts => n \in Int, CleanList(then)
    PROVE  Clean(Do(op, n, of, then))
<1>. DEFINE x == Do(op, n, of, then)
<1>1. DOMAIN x = Fields /\ x.op = op /\ x.n = n /\ x.then = then
  BY DEF Do, Fields
<1>. HIDE DEF x
<1>2. Proper(x)
  BY <1>1 DEF Proper
<1>3. Branches(x) = {then}
  BY <1>1 DEF Branches
<1>4. Clean(x)
  BY <1>2, <1>3, CleanEffect
<1>. QED
  BY <1>4 DEF x

\* What a step asks another action to do.
LEMMA CleanGo ==
    /\ \A op : op \notin Restricted \cup Amounts \cup {"either", "pop_relics", "obtain", "resolve"} => Clean(Go(op))
    /\ \A op, n, of : op \notin Restricted \cup Amounts \cup {"either", "pop_relics", "obtain", "resolve"} =>
          Clean(GoWith(op, n, of)) /\ Clean(Do(op, n, of, <<>>))
<1>1. ASSUME NEW op, NEW n, NEW of,
             op \notin Restricted \cup Amounts \cup {"either", "pop_relics", "obtain", "resolve"}
      PROVE  Clean(Do(op, n, of, <<>>))
  BY <1>1, CleanDo, CleanNone
<1>. QED
  BY <1>1 DEF Go, GoWith

LEMMA CleanEmit ==
    ASSUME NEW e, NEW a
    PROVE  Clean(Emit(e, a))
<1>. DEFINE x == Do("emit", 0, e, <<>>)
<1>1. Clean(x)
  BY CleanGo DEF Restricted, Amounts
<1>2. DOMAIN x = Fields /\ x.op = "emit" /\ x.then = <<>>
  BY DEF Do, Fields
<1>. DEFINE y == [x EXCEPT !.arg = a]
<1>3. DOMAIN y = Fields /\ y.op = "emit" /\ y.then = <<>>
  BY <1>2 DEF Fields
<1>. HIDE DEF x, y
<1>4. Proper(y) /\ Branches(y) = {<<>>}
  BY <1>3 DEF Proper, Restricted, Amounts, Branches
<1>5. Clean(y)
  BY <1>4, CleanEffect, CleanNone
<1>. QED
  BY <1>5 DEF x, y, Emit

-----------------------------------------------------------------------------
(* The tables *)

LEMMA CleanVocabulary ==
    /\ \A x \in Vocabulary : Clean(x)
    /\ \A p \in Seq(Vocabulary) : CleanList(p)
BY VocabularyAssumption DEF Clean, CleanList

LEMMA CleanTables ==
    /\ \A c \in DOMAIN Book : CleanList(Book[c].does) /\ Book[c].cost \in Int
    /\ \A c \in DOMAIN OnDiscard : CleanList(OnDiscard[c])
    /\ \A c \in DOMAIN EndOfTurn : CleanList(EndOfTurn[c])
    /\ \A e \in DOMAIN Registry : \A i \in DOMAIN Registry[e].choices \cup {1} : CleanList(Registry[e].choices[i])
BY CleanVocabulary, CardsAssumption

-----------------------------------------------------------------------------
(* What is still to be executed *)

\* What only relics and potions answer, and which of them: a Lizard Tail and a
\* Fairy may save, the others may clear their mark.
Owned(x, kind) ==
    \/ kind \notin Savers /\ x.op = "unmark"
    \/ /\ kind \notin Savers /\ x.op = "if_marked" /\ x.then \in Seq(ToSet(x.then))
       /\ \A y \in ToSet(x.then) : Clean(y) \/ (DOMAIN y = Fields /\ y.op = "unmark")
    \/ /\ kind \in Savers /\ x.op = "once"
       /\ x.then = <<x.then[1]>> /\ DOMAIN x.then[1] = Fields /\ x.then[1].op \in {"revive", "fairy"}

\* What may stand anywhere in todo.
Allowed(x, ts) ==
    \/ Clean(x)
    \/ /\ DOMAIN x = Fields
       /\ \/ x.op \in {"turn", "judge"}
          \/ x.op = "register" /\ x.n \in DOMAIN ts
          \/ x.who \in DOMAIN ts /\ Owned(x, ts[x.who].kind)
AllowedList(p, ts) == \E S : p \in Seq(S) /\ \A x \in S : Allowed(x, ts)

LEMMA AllowedOf ==
    ASSUME NEW S, NEW ts, \A x \in S : Allowed(x, ts), NEW p \in Seq(S)
    PROVE  AllowedList(p, ts)
BY DEF AllowedList

LEMMA AllowedNone == \A ts : AllowedList(<<>>, ts)
<1>1. <<>> \in Seq({})
  OBVIOUS
<1>2. \A ts : \A x \in {} : Allowed(x, ts)
  OBVIOUS
<1>. QED
  BY <1>1, <1>2, AllowedOf

LEMMA AllowedSingle ==
    ASSUME NEW x, NEW ts, Allowed(x, ts)
    PROVE  AllowedList(<<x>>, ts)
<1>1. <<x>> \in Seq({x})
  OBVIOUS
<1>2. \A y \in {x} : Allowed(y, ts)
  OBVIOUS
<1>. QED
  BY <1>1, <1>2, AllowedOf

LEMMA CleanAllowed ==
    ASSUME NEW p, NEW ts, CleanList(p)
    PROVE  AllowedList(p, ts)
<1>1. PICK E : p \in Seq(E) /\ Closed(E)
  BY DEF CleanList
<1>2. \A x \in E : Allowed(x, ts)
  BY <1>1 DEF Allowed, Clean
<1>. QED
  BY <1>1, <1>2 DEF AllowedList

LEMMA AllowedConcat ==
    ASSUME NEW p, NEW q, NEW ts, AllowedList(p, ts), AllowedList(q, ts)
    PROVE  AllowedList(p \o q, ts)
<1>1. PICK S : p \in Seq(S) /\ \A x \in S : Allowed(x, ts)
  BY DEF AllowedList
<1>2. PICK T : q \in Seq(T) /\ \A x \in T : Allowed(x, ts)
  BY DEF AllowedList
<1>. DEFINE U == S \cup T
<1>3. p \in Seq(U) /\ q \in Seq(U)
  <2>1. S \subseteq U /\ T \subseteq U
    OBVIOUS
  <2>. HIDE DEF U
  <2>. QED
    BY <1>1, <1>2, <2>1, LargerList
<1>4. \A x \in U : Allowed(x, ts)
  BY <1>1, <1>2
<1>. HIDE DEF U
<1>5. p \o q \in Seq(U)
  BY <1>3
<1>. QED
  BY <1>4, <1>5 DEF AllowedList

LEMMA AllowedParts ==
    ASSUME NEW p, NEW ts, AllowedList(p, ts)
    PROVE  /\ p # <<>> => Allowed(Head(p), ts) /\ AllowedList(Tail(p), ts)
           /\ AllowedList(SubSeq(p, 3, Len(p)), ts)
           /\ AllowedList(<<>> \o p, ts)
<1>1. PICK S : p \in Seq(S) /\ \A x \in S : Allowed(x, ts)
  BY DEF AllowedList
<1>2. p # <<>> => Head(p) \in S /\ Tail(p) \in Seq(S)
  BY <1>1
<1>3. SubSeq(p, 3, Len(p)) \in Seq(S)
  <2>1. Len(p) \in Nat
    BY <1>1
  <2>. QED
    BY <1>1, <2>1, Stretch
<1>4. <<>> \o p \in Seq(S)
  BY <1>1
<1>. QED
  BY <1>1, <1>2, <1>3, <1>4 DEF AllowedList

\* The relics and potions of ts are still there in us.
Kept(ts, us) == DOMAIN ts \subseteq DOMAIN us /\ \A id \in DOMAIN ts : us[id].kind = ts[id].kind

LEMMA AllowedStays ==
    ASSUME NEW ts, NEW us, Kept(ts, us), NEW p, AllowedList(p, ts)
    PROVE  AllowedList(p, us)
<1>1. PICK S : p \in Seq(S) /\ \A x \in S : Allowed(x, ts)
  BY DEF AllowedList
<1>2. \A x \in S : Allowed(x, us)
  BY <1>1 DEF Allowed, Kept
<1>. QED
  BY <1>1, <1>2 DEF AllowedList

\* What is told who runs it and what for.
Tagged(x, w, a) == [x EXCEPT !.who = w, !.arg = IF @ = "" THEN a ELSE @]

LEMMA OwnedTagged ==
    ASSUME NEW x, DOMAIN x = Fields, NEW w, NEW a
    PROVE  /\ DOMAIN Tagged(x, w, a) = Fields
           /\ Tagged(x, w, a).op = x.op /\ Tagged(x, w, a).then = x.then /\ Tagged(x, w, a).who = w
           /\ \A kind : Owned(x, kind) => Owned(Tagged(x, w, a), kind)
<1>. DEFINE y == Tagged(x, w, a)
<1>1. DOMAIN y = Fields /\ y.op = x.op /\ y.then = x.then /\ y.who = w
  BY DEF Tagged, Fields
<1>. HIDE DEF y
<1>2. \A kind : Owned(x, kind) => Owned(y, kind)
  BY <1>1 DEF Owned
<1>. QED
  BY <1>1, <1>2 DEF y

\* What a relic or potion answers to an event may stand anywhere.
LEMMA AnswerAllowed ==
    ASSUME NEW id, NEW e, NEW arg, id \in DOMAIN things, things[id].kind \in DOMAIN Known
    PROVE  AllowedList(Answer(id, e, arg), things)
<1>. DEFINE kind == things[id].kind
            hears == Known[kind].hears
            p == hears[e].do
<1>1. CASE e \in DOMAIN hears /\ arg \in hears[e].arg
  <2>1. p \in Handlers(kind)
    BY <1>1 DEF Handlers
  <2>2. p \in Seq(ToSet(p)) /\ \A x \in ToSet(p) : Reply(x, kind)
    BY <2>1, RelicsAssumption
  <2>. DEFINE q == [i \in DOMAIN p |-> Tagged(p[i], id, arg)]
  <2>3. Answer(id, e, arg) = q
    BY <1>1 DEF Answer, Tagged
  <2>. HIDE DEF p
  <2>4. Len(p) \in Nat /\ DOMAIN p = 1 .. Len(p) /\ \A i \in 1 .. Len(p) : p[i] \in ToSet(p)
    BY <2>2, Elements, LenProperties
  <2>. DEFINE S == {Tagged(p[i], id, arg) : i \in 1 .. Len(p)}
  <2>5. q \in Seq(S)
    BY <2>4
  <2>6. ASSUME NEW i \in 1 .. Len(p) PROVE Allowed(Tagged(p[i], id, arg), things)
    <3>1. Reply(p[i], kind)
      BY <2>2, <2>4
    <3>. DEFINE x == p[i]
    <3>2. Clean(x) \/ (DOMAIN x = Fields /\ Owned(x, kind))
      <4>. HIDE DEF x
      <4>1. \A y : y \in Vocabulary => Clean(y)
        BY CleanVocabulary
      <4>. QED
        BY <3>1, <4>1 DEF Reply, Owned, x
    <3>. HIDE DEF x
    <3>3. CASE Clean(x)
      <4>1. Clean(Tagged(x, id, arg))
        BY <3>3, CleanTagged DEF Tagged
      <4>. QED
        BY <4>1 DEF Allowed, x
    <3>4. CASE DOMAIN x = Fields /\ Owned(x, kind)
      <4>1. DOMAIN Tagged(x, id, arg) = Fields /\ Tagged(x, id, arg).who = id /\ Owned(Tagged(x, id, arg), kind)
        BY <3>4, OwnedTagged
      <4>. QED
        BY <4>1 DEF Allowed, x
    <3>. QED
      BY <3>2, <3>3, <3>4
  <2>7. \A y \in S : Allowed(y, things)
    BY <2>6
  <2>. HIDE DEF S, q
  <2>. QED
    BY <2>3, <2>5, <2>7 DEF AllowedList
<1>2. CASE ~(e \in DOMAIN hears /\ arg \in hears[e].arg)
  <2>1. Answer(id, e, arg) = <<>>
    BY <1>2 DEF Answer
  <2>. QED
    BY <2>1, AllowedNone
<1>. QED
  BY <1>1, <1>2

LEMMA AllowedElement ==
    ASSUME NEW p, NEW ts, AllowedList(p, ts)
    PROVE  p \in Seq(ToSet(p)) /\ \A x \in ToSet(p) : Allowed(x, ts)
<1>1. PICK S : p \in Seq(S) /\ \A x \in S : Allowed(x, ts)
  BY DEF AllowedList
<1>2. Len(p) \in Nat /\ DOMAIN p = 1 .. Len(p) /\ p = [i \in 1 .. Len(p) |-> p[i]]
  BY <1>1, LenProperties
<1>3. ToSet(p) \subseteq S /\ \A i \in 1 .. Len(p) : p[i] \in ToSet(p)
  BY <1>1, Elements
<1>4. p \in Seq(ToSet(p))
  BY <1>2, <1>3
<1>. QED
  BY <1>1, <1>3, <1>4

LEMMA AllowedFlatten ==
    ASSUME NEW n \in Nat, NEW f, NEW ts, \A i \in 1 .. n : AllowedList(f[i], ts)
    PROVE  AllowedList(FlattenSeq([i \in 1 .. n |-> f[i]]), ts)
<1>. DEFINE s == [i \in 1 .. n |-> f[i]]
            S == UNION {ToSet(f[i]) : i \in 1 .. n}
<1>1. \A i \in 1 .. n : f[i] \in Seq(S)
  <2>. SUFFICES ASSUME NEW i \in 1 .. n PROVE f[i] \in Seq(S)
    OBVIOUS
  <2>1. ToSet(f[i]) \subseteq S
    OBVIOUS
  <2>2. f[i] \in Seq(ToSet(f[i]))
    BY AllowedElement
  <2>. HIDE DEF S
  <2>. QED
    BY <2>1, <2>2, LargerList
<1>2. \A x \in S : Allowed(x, ts)
  BY AllowedElement
<1>. HIDE DEF S
<1>3. s \in Seq(Seq(S))
  BY <1>1
<1>4. FlattenSeq(s) \in Seq(S)
  BY <1>3, FlattenList
<1>. QED
  BY <1>2, <1>4, AllowedOf

-----------------------------------------------------------------------------
(* What steps call *)

LEMMA CleanWords ==
    /\ \A n : /\ Clean(GainBlock(n)) /\ Clean(Block(n)) /\ Clean(Gold(n)) /\ Clean(Draw(n)) /\ Clean(Potions(n))
              /\ Clean(HpLoss(n)) /\ Clean(Attacked(n)) /\ Clean(Damaged(n))
    /\ \A p : \A n \in Int : Clean(Power(p, n)) /\ Clean(Debuff(p, n))
    /\ \A n \in Int : Clean(Energy(n))
    /\ \A k : Clean(AddCard(k)) /\ Clean(Unpower(k)) /\ Clean(Tag(k)) /\ Clean(RandomRelic(k))
    /\ Clean(HitOne) /\ Clean(HitAll) /\ Clean(Piles) /\ Clean(DiscardOne) /\ Clean(FullHeal)
    /\ Clean(Discard) /\ Clean(Exhaust)
<1>1. \A n : /\ Clean(GainBlock(n)) /\ Clean(Block(n)) /\ Clean(Gold(n)) /\ Clean(Draw(n)) /\ Clean(Potions(n))
             /\ Clean(HpLoss(n)) /\ Clean(Attacked(n)) /\ Clean(Damaged(n))
  BY CleanGo DEF Restricted, Amounts, GainBlock, Block, Gold, Draw, Potions, HpLoss, Attacked, Damaged
<1>2. \A p : \A n \in Int : Clean(Power(p, n)) /\ Clean(Debuff(p, n))
  BY CleanDo, CleanNone DEF Restricted, Amounts, Power, Debuff
<1>3. \A n \in Int : Clean(Energy(n))
  BY CleanDo, CleanNone DEF Restricted, Amounts, Energy
<1>4. \A k : Clean(AddCard(k))
  BY CleanDo, CleanNone DEF Restricted, Amounts, AddCard
<1>5. \A k : Clean(Unpower(k)) /\ Clean(Tag(k)) /\ Clean(RandomRelic(k))
  BY CleanGo DEF Restricted, Amounts, Unpower, Tag, RandomRelic
<1>6. Clean(HitOne) /\ Clean(HitAll) /\ Clean(Piles) /\ Clean(DiscardOne) /\ Clean(FullHeal)
  BY CleanGo DEF Restricted, Amounts, HitOne, HitAll, Piles, DiscardOne, FullHeal
<1>7. Clean(Discard) /\ Clean(Exhaust)
  BY CleanEmit DEF Discard, Exhaust
<1>. QED
  BY <1>1, <1>2, <1>3, <1>4, <1>5, <1>6, <1>7

Integers(f) == \A x \in DOMAIN f : f[x] \in Int

LEMMA TurnStartHooks ==
    ASSUME NEW p, NEW flags, Integers(p)
    PROVE  CleanList(on_turn_start(p, flags))
<1>. DEFINE a1 == IF "DEMON_FORM" \in DOMAIN p THEN <<Power("STRENGTH", p["DEMON_FORM"])>> ELSE <<>>
            a2 == IF "METALLICIZE" \in DOMAIN p THEN <<GainBlock(p["METALLICIZE"])>> ELSE <<>>
            a3 == IF "brutality" \in flags THEN <<HpLoss(1), Draw(1)>> ELSE <<>>
            a4 == IF "berserk" \in flags THEN <<Energy(1)>> ELSE <<>>
            a5 == IF "ENERGIZED" \in DOMAIN p THEN <<Energy(p["ENERGIZED"]), Unpower("ENERGIZED")>> ELSE <<>>
            a6 == IF "NOXIOUS_FUMES" \in DOMAIN p THEN <<Tag("poison")>> ELSE <<>>
            a7 == IF "INFINITE_BLADES" \in DOMAIN p THEN <<Piles>> ELSE <<>>
            a8 == IF "TOOLS_OF_THE_TRADE" \in DOMAIN p
                  THEN <<Draw(p["TOOLS_OF_THE_TRADE"])>> \o [i \in 1 .. p["TOOLS_OF_THE_TRADE"] |-> DiscardOne]
                  ELSE <<>>
<1>1. CleanList(a1)
  BY CleanWords, CleanNone, CleanSingle DEF Integers
<1>2. CleanList(a2)
  BY CleanWords, CleanNone, CleanSingle
<1>3. CleanList(a3)
  BY CleanWords, CleanNone, CleanTuples
<1>4. CleanList(a4)
  BY CleanWords, CleanNone, CleanSingle
<1>5. CleanList(a5)
  BY CleanWords, CleanNone, CleanTuples DEF Integers
<1>6. CleanList(a6)
  BY CleanWords, CleanNone, CleanSingle
<1>7. CleanList(a7)
  BY CleanWords, CleanNone, CleanSingle
<1>8. CleanList(a8)
  <2>1. CASE "TOOLS_OF_THE_TRADE" \in DOMAIN p
    <3>. DEFINE n == p["TOOLS_OF_THE_TRADE"]
    <3>1. n \in Int
      BY <2>1 DEF Integers
    <3>. HIDE DEF n
    <3>2. CleanList([i \in 1 .. n |-> DiscardOne])
      BY <3>1, CleanRepeat, CleanWords
    <3>3. CleanList(<<Draw(n)>>)
      BY CleanWords, CleanSingle
    <3>4. CleanList(<<Draw(n)>> \o [i \in 1 .. n |-> DiscardOne])
      BY <3>2, <3>3, CleanConcat
    <3>. QED
      BY <2>1, <3>4 DEF n
  <2>2. CASE "TOOLS_OF_THE_TRADE" \notin DOMAIN p
    BY <2>2, CleanNone
  <2>. QED
    BY <2>1, <2>2
<1>9. on_turn_start(p, flags) = a1 \o a2 \o a3 \o a4 \o a5 \o a6 \o a7 \o a8
  BY DEF on_turn_start
<1>. HIDE DEF a1, a2, a3, a4, a5, a6, a7, a8
<1>10. CleanList(a1 \o a2)
  BY <1>1, <1>2, CleanConcat
<1>11. CleanList(a1 \o a2 \o a3)
  BY <1>10, <1>3, CleanConcat
<1>12. CleanList(a1 \o a2 \o a3 \o a4)
  BY <1>11, <1>4, CleanConcat
<1>13. CleanList(a1 \o a2 \o a3 \o a4 \o a5)
  BY <1>12, <1>5, CleanConcat
<1>14. CleanList(a1 \o a2 \o a3 \o a4 \o a5 \o a6)
  BY <1>13, <1>6, CleanConcat
<1>15. CleanList(a1 \o a2 \o a3 \o a4 \o a5 \o a6 \o a7)
  BY <1>14, <1>7, CleanConcat
<1>. QED
  BY <1>15, <1>8, <1>9, CleanConcat

LEMMA TurnEndHooks ==
    ASSUME NEW p, Integers(p)
    PROVE  CleanList(on_turn_end(p))
<1>. DEFINE a1 == IF "COMBUST" \in DOMAIN p THEN <<HpLoss(AtLeast1(p["_combust_plays"])), HitAll>> ELSE <<>>
            a2 == IF "FLEX" \in DOMAIN p THEN <<Unpower("FLEX"), Power("STRENGTH", 0 - p["FLEX"])>> ELSE <<>>
            a3 == IF "CONSTRICTED" \in DOMAIN p THEN <<HpLoss(p["CONSTRICTED"])>> ELSE <<>>
            a4 == IF "POISON" \in DOMAIN p THEN <<HpLoss(p["POISON"]), Power("POISON", -1)>> ELSE <<>>
            a5 == IF "WRAITH_FORM" \in DOMAIN p THEN <<Power("DEXTERITY", -1)>> ELSE <<>>
            a6 == IF "WELL_LAID_PLANS" \in DOMAIN p THEN <<Piles>> ELSE <<>>
            a7 == <<Do("end_of_turn", 0, "", <<>>)>>
<1>1. CleanList(a1)
  BY CleanWords, CleanNone, CleanTuples
<1>2. CleanList(a2)
  <2>1. "FLEX" \in DOMAIN p => 0 - p["FLEX"] \in Int
    BY DEF Integers
  <2>. QED
    BY <2>1, CleanWords, CleanNone, CleanTuples
<1>3. CleanList(a3)
  BY CleanWords, CleanNone, CleanSingle
<1>4. CleanList(a4)
  <2>1. -1 \in Int
    OBVIOUS
  <2>. QED
    BY <2>1, CleanWords, CleanNone, CleanTuples
<1>5. CleanList(a5)
  <2>1. -1 \in Int
    OBVIOUS
  <2>. QED
    BY <2>1, CleanWords, CleanNone, CleanSingle
<1>6. CleanList(a6)
  BY CleanWords, CleanNone, CleanSingle
<1>7. CleanList(a7)
  BY CleanGo, CleanSingle DEF Restricted, Amounts
<1>8. on_turn_end(p) = a1 \o a2 \o a3 \o a4 \o a5 \o a6 \o a7
  BY DEF on_turn_end
<1>. HIDE DEF a1, a2, a3, a4, a5, a6, a7
<1>9. CleanList(a1 \o a2)
  BY <1>1, <1>2, CleanConcat
<1>10. CleanList(a1 \o a2 \o a3)
  BY <1>9, <1>3, CleanConcat
<1>11. CleanList(a1 \o a2 \o a3 \o a4)
  BY <1>10, <1>4, CleanConcat
<1>12. CleanList(a1 \o a2 \o a3 \o a4 \o a5)
  BY <1>11, <1>5, CleanConcat
<1>13. CleanList(a1 \o a2 \o a3 \o a4 \o a5 \o a6)
  BY <1>12, <1>6, CleanConcat
<1>. QED
  BY <1>13, <1>7, <1>8, CleanConcat

LEMMA CardPlayHooks ==
    ASSUME NEW p, NEW tags, NEW type
    PROVE  CleanList(on_card_play(p, tags, type))
<1>. DEFINE a1 == IF "RAGE" \in DOMAIN p /\ type = "ATTACK" THEN <<GainBlock(p["RAGE"])>> ELSE <<>>
            a2 == IF "THOUSAND_CUTS" \in DOMAIN p THEN <<HitAll>> ELSE <<>>
            a3 == IF "AFTER_IMAGE" \in DOMAIN p THEN <<GainBlock(p["AFTER_IMAGE"])>> ELSE <<>>
            a4 == IF "choked" \in tags THEN <<HitOne>> ELSE <<>>
            a5 == <<Do("pain", 0, "", <<>>)>>
            a6 == IF "HEX" \in DOMAIN p /\ type # "ATTACK" THEN <<Piles>> ELSE <<>>
<1>1. CleanList(a1)
  BY CleanWords, CleanNone, CleanSingle
<1>2. CleanList(a2)
  BY CleanWords, CleanNone, CleanSingle
<1>3. CleanList(a3)
  BY CleanWords, CleanNone, CleanSingle
<1>4. CleanList(a4)
  BY CleanWords, CleanNone, CleanSingle
<1>5. CleanList(a5)
  BY CleanGo, CleanSingle DEF Restricted, Amounts
<1>6. CleanList(a6)
  BY CleanWords, CleanNone, CleanSingle
<1>7. on_card_play(p, tags, type) = a1 \o a2 \o a3 \o a4 \o a5 \o a6
  BY DEF on_card_play
<1>. HIDE DEF a1, a2, a3, a4, a5, a6
<1>8. CleanList(a1 \o a2)
  BY <1>1, <1>2, CleanConcat
<1>9. CleanList(a1 \o a2 \o a3)
  BY <1>8, <1>3, CleanConcat
<1>10. CleanList(a1 \o a2 \o a3 \o a4)
  BY <1>9, <1>4, CleanConcat
<1>11. CleanList(a1 \o a2 \o a3 \o a4 \o a5)
  BY <1>10, <1>5, CleanConcat
<1>. QED
  BY <1>11, <1>6, <1>7, CleanConcat

LEMMA ExhaustHooks ==
    ASSUME NEW p, NEW card
    PROVE  CleanList(on_exhaust(p, card))
<1>. DEFINE a1 == IF "DARK_EMBRACE" \in DOMAIN p THEN <<Draw(p["DARK_EMBRACE"])>> ELSE <<>>
            a2 == IF "FEEL_NO_PAIN" \in DOMAIN p THEN <<GainBlock(p["FEEL_NO_PAIN"])>> ELSE <<>>
            a3 == IF card = "Sentinel" THEN <<Energy(2)>> ELSE <<>>
<1>1. CleanList(a1)
  BY CleanWords, CleanNone, CleanSingle
<1>2. CleanList(a2)
  BY CleanWords, CleanNone, CleanSingle
<1>3. CleanList(a3)
  BY CleanWords, CleanNone, CleanSingle
<1>4. on_exhaust(p, card) = a1 \o a2 \o a3
  BY DEF on_exhaust
<1>. HIDE DEF a1, a2, a3
<1>5. CleanList(a1 \o a2)
  BY <1>1, <1>2, CleanConcat
<1>. QED
  BY <1>5, <1>3, <1>4, CleanConcat

LEMMA DrawHooks ==
    ASSUME NEW p, NEW card
    PROVE  CleanList(on_draw(p, card))
<1>. DEFINE a1 == IF "FIRE_BREATHING" \in DOMAIN p THEN <<HitAll>> ELSE <<>>
            a2 == IF "EVOLVE" \in DOMAIN p THEN <<Draw(p["EVOLVE"])>> ELSE <<>>
            a3 == IF card = "VoidCard" THEN <<Do("drain", 1, "", <<>>)>> ELSE <<>>
<1>1. CleanList(a1)
  BY CleanWords, CleanNone, CleanSingle
<1>2. CleanList(a2)
  BY CleanWords, CleanNone, CleanSingle
<1>3. CleanList(a3)
  <2>1. Clean(Do("drain", 1, "", <<>>))
    <3>1. 1 \in Int /\ "drain" \notin Restricted \cup {"either", "pop_relics", "obtain", "resolve"}
      BY DEF Restricted
    <3>. QED
      BY <3>1, CleanDo, CleanNone
  <2>. QED
    BY <2>1, CleanNone, CleanSingle
<1>4. on_draw(p, card) = a1 \o a2 \o a3
  BY DEF on_draw
<1>. HIDE DEF a1, a2, a3
<1>5. CleanList(a1 \o a2)
  BY <1>1, <1>2, CleanConcat
<1>. QED
  BY <1>5, <1>3, <1>4, CleanConcat

LEMMA HooksClean ==
    ASSUME NEW e, NEW arg, NEW p, NEW flags, NEW tags, Integers(p)
    PROVE  CleanList(PowerHooks(e, arg, p, flags, tags))
<1>1. \A none : CleanList(on_block_gained(p, none))
  BY CleanWords, CleanNone, CleanSingle DEF on_block_gained
<1>2. CleanList(on_enemy_death(tags))
  <2>. DEFINE inner == Do("deaths", 0, "", <<>>)
  <2>1. CleanList(<<inner>>)
    BY CleanGo, CleanSingle DEF Restricted, Amounts
  <2>. HIDE DEF inner
  <2>2. Clean(Maybe(<<inner>>))
    BY <2>1, CleanDo DEF Restricted, Amounts, Maybe
  <2>3. CleanList(<<HitAll, Maybe(<<inner>>)>>)
    BY <2>2, CleanWords, CleanTuples
  <2>4. CleanList(<<Maybe(<<HitAll, Maybe(<<inner>>)>>)>>)
    <3>. DEFINE p2 == <<HitAll, Maybe(<<inner>>)>>
    <3>. HIDE DEF p2
    <3>1. Clean(Maybe(p2))
      BY <2>3, CleanDo DEF Restricted, Amounts, Maybe, p2
    <3>. QED
      BY <3>1, CleanSingle DEF p2
  <2>. QED
    BY <2>4, CleanNone DEF on_enemy_death, inner
<1>. QED
  BY <1>1, <1>2, CleanNone, TurnStartHooks, TurnEndHooks, CardPlayHooks, ExhaustHooks, DrawHooks DEF PowerHooks

-----------------------------------------------------------------------------
(* The inductive invariant *)

PlayerFields ==
    {"hp", "maxHp", "gold", "energy", "perTurn", "block", "powers", "flags", "relics", "potions", "deck",
     "removed", "floor", "lament", "offer", "shopped"}
PlayerOk(p, ids) ==
    /\ DOMAIN p = PlayerFields
    /\ Integers(p.powers) /\ p.deck \in [CardKinds -> Int]
    /\ p.energy \in Int /\ p.perTurn \in Int
    /\ p.relics \in Seq(ids) /\ p.potions \in Seq(ids)

CombatFields ==
    {"open", "foe", "foes", "fallen", "turn", "loops", "plays", "tags", "ending", "fresh", "base"}
CombatOk(c) == DOMAIN c = CombatFields /\ c.foes \in Int /\ c.fallen \in Int

ThingType ==
    [kind : DOMAIN Known, count : Nat, mark : BOOLEAN, seen : SUBSET {"ATTACK", "SKILL", "POWER"},
     since : [Counted -> Nat], saves : Nat]

RunFields == {"act", "floor", "col", "cols", "kind", "edges", "seen", "won", "status"}

State ==
    /\ scen \in ScenarioShape
    /\ tally \in [Counted -> Nat]
    /\ things \in Seq(ThingType)
    /\ bus \in Seq(DOMAIN things)
    /\ PlayerOk(player, DOMAIN things)
    /\ CombatOk(combat)
    /\ DOMAIN run = RunFields

\* Who saved its owner is marked, and stays so.
SaveOnce ==
    \A id \in DOMAIN things :
        things[id].saves # 0 => things[id].saves = 1 /\ things[id].mark /\ things[id].kind \in Savers

\* The energy of a turn, and what is just being picked up.
Due == IF Doing("per_turn") THEN 1 ELSE 0
Energetic(ts) == {id \in DOMAIN ts : EnergyPerTurn \in Range(Known[ts[id].kind].pickup)}
EnergyPaid == player.perTurn + Due = 3 + Cardinality(Energetic(things))

\* What only stands at the head of todo: the energy of a relic that is being
\* picked up, and a Lizard Tail or a Fairy that is about to save.
Pending(x, ts) ==
    \/ x.op = "per_turn" /\ x.n = 1
    \/ /\ x.op \in {"revive", "fairy"} /\ x.who \in DOMAIN ts
       /\ ts[x.who].kind \in Savers /\ ts[x.who].mark /\ ts[x.who].saves = 0
IsList(p) == \E S : p \in Seq(S)
Ordinary ==
    todo # <<>> => IsList(todo) /\ AllowedList(Tail(todo), things) /\ (Allowed(it, things) \/ Pending(it, things))

\* The generator of the map at work: the floors that are still to be built,
\* then the edges, then the rooms that must be there.
Columns == \A f \in Floors : run.cols[f] \subseteq Nat /\ run.cols[f] # {}
Climbs ==
    \A f \in Floors \ {0} :
        /\ \A c \in run.cols[f - 1] : run.edges[f - 1][c] # {} /\ run.edges[f - 1][c] \subseteq run.cols[f]
        /\ \A c \in run.cols[f] : \E d \in run.cols[f - 1] : c \in run.edges[f - 1][d]
Builds(b) == \E S : b \in Seq(S) /\ \A x \in S : x.op = "build"
ToStart(p) == <<Go("first")>> \o p
ToTreasure(p) == <<GoWith("ensure", TreasureFloor, "TREASURE")>> \o ToStart(p)
ToMerchant(p) == <<GoWith("ensure", MerchantFloor, "MERCHANT")>> \o ToTreasure(p)
ToConnect(p) == <<Go("connect")>> \o ToMerchant(p)
Mapping ==
    \E p : /\ AllowedList(p, things) /\ Columns
           /\ \/ \E b : Builds(b) /\ todo = b \o ToConnect(p)
              \/ Climbs /\ todo \in {ToMerchant(p), ToTreasure(p), ToStart(p)}

IInv == State /\ SaveOnce /\ EnergyPaid /\ (Ordinary \/ Mapping)

\* What is only done at the head of todo, and by the generator.
HeadOps == {"per_turn", "revive", "fairy"}
MapOps == {"build", "connect", "ensure", "first"}
\* What only relics and the turn loop do.
OwnOps == {"turn", "judge", "register", "unmark", "if_marked", "once"}

LEMMA Parts ==
    ASSUME NEW S, NEW p \in Seq(S), NEW x
    PROVE  /\ Head(<<x>> \o p) = x /\ Tail(<<x>> \o p) = p /\ <<x>> \o p # <<>>
           /\ <<x>> \o p \in Seq(S \cup {x})
<1>1. \A T : x \in T /\ S \subseteq T => <<x>> \o p \in Seq(T)
  <2>. SUFFICES ASSUME NEW T, x \in T, S \subseteq T PROVE <<x>> \o p \in Seq(T)
    OBVIOUS
  <2>1. p \in Seq(T) /\ <<x>> \in Seq(T)
    BY LargerList
  <2>. QED
    BY <2>1
<1>2. <<x>> \o p \in Seq(S \cup {x})
  BY <1>1
<1>3. Head(<<x>> \o p) = x /\ Tail(<<x>> \o p) = p /\ <<x>> \o p # <<>>
  OBVIOUS
<1>. QED
  BY <1>2, <1>3

LEMMA MapHeads ==
    ASSUME NEW p, NEW ts, AllowedList(p, ts)
    PROVE  /\ Head(ToStart(p)) = Go("first") /\ Tail(ToStart(p)) = p
           /\ ToStart(p) # <<>> /\ IsList(ToStart(p))
           /\ Head(ToTreasure(p)) = GoWith("ensure", TreasureFloor, "TREASURE") /\ Tail(ToTreasure(p)) = ToStart(p)
           /\ ToTreasure(p) # <<>> /\ IsList(ToTreasure(p))
           /\ Head(ToMerchant(p)) = GoWith("ensure", MerchantFloor, "MERCHANT") /\ Tail(ToMerchant(p)) = ToTreasure(p)
           /\ ToMerchant(p) # <<>> /\ IsList(ToMerchant(p))
           /\ Head(ToConnect(p)) = Go("connect") /\ Tail(ToConnect(p)) = ToMerchant(p)
           /\ ToConnect(p) # <<>> /\ IsList(ToConnect(p))
<1>1. PICK S : p \in Seq(S)
  BY DEF AllowedList
<1>2. /\ Head(ToStart(p)) = Go("first") /\ Tail(ToStart(p)) = p
      /\ ToStart(p) # <<>> /\ IsList(ToStart(p))
  BY <1>1, Parts DEF ToStart, IsList
<1>3. /\ Head(ToTreasure(p)) = GoWith("ensure", TreasureFloor, "TREASURE") /\ Tail(ToTreasure(p)) = ToStart(p)
      /\ ToTreasure(p) # <<>> /\ IsList(ToTreasure(p))
  BY <1>2, Parts DEF ToTreasure, IsList
<1>4. /\ Head(ToMerchant(p)) = GoWith("ensure", MerchantFloor, "MERCHANT") /\ Tail(ToMerchant(p)) = ToTreasure(p)
      /\ ToMerchant(p) # <<>> /\ IsList(ToMerchant(p))
  BY <1>3, Parts DEF ToMerchant, IsList
<1>5. /\ Head(ToConnect(p)) = Go("connect") /\ Tail(ToConnect(p)) = ToMerchant(p)
      /\ ToConnect(p) # <<>> /\ IsList(ToConnect(p))
  BY <1>4, Parts DEF ToConnect, IsList
<1>. QED
  BY <1>2, <1>3, <1>4, <1>5

LEMMA HeadConcat ==
    ASSUME NEW S, NEW p \in Seq(S), NEW q \in Seq(S), p # <<>>
    PROVE  Head(p \o q) = Head(p) /\ Tail(p \o q) = Tail(p) \o q /\ p \o q # <<>> /\ p \o q \in Seq(S)
<1>1. p \o q \in Seq(S) /\ p \o q # <<>> /\ Head(p \o q) = Head(p)
  OBVIOUS
<1>2. Tail(p) \in Seq(S) /\ Tail(p) \o q \in Seq(S) /\ Tail(p \o q) \in Seq(S)
  BY <1>1
<1>3. Len(Tail(p \o q)) = Len(Tail(p) \o q)
  BY <1>1, <1>2
<1>4. \A i \in 1 .. Len(Tail(p) \o q) : Tail(p \o q)[i] = (Tail(p) \o q)[i]
  BY <1>1, <1>2
<1>5. Tail(p \o q) = Tail(p) \o q
  BY <1>2, <1>3, <1>4, SeqEqual
<1>. QED
  BY <1>1, <1>5

\* The floors that are still to be built come before the edges.
LEMMA Built ==
    ASSUME NEW p, NEW ts, AllowedList(p, ts), NEW b, Builds(b)
    PROVE  /\ b \o ToConnect(p) # <<>> /\ IsList(b \o ToConnect(p))
           /\ b = <<>> => b \o ToConnect(p) = ToConnect(p)
           /\ b # <<>> => /\ Head(b \o ToConnect(p)).op = "build" /\ Builds(Tail(b))
                          /\ Tail(b \o ToConnect(p)) = Tail(b) \o ToConnect(p)
<1>. DEFINE q == ToConnect(p)
<1>1. PICK S : q \in Seq(S)
  BY MapHeads DEF IsList
<1>2. q # <<>>
  BY MapHeads
<1>3. PICK T : b \in Seq(T) /\ \A x \in T : x.op = "build"
  BY DEF Builds
<1>. DEFINE U == S \cup T
<1>4. b \in Seq(U) /\ q \in Seq(U)
  <2>1. S \subseteq U /\ T \subseteq U
    OBVIOUS
  <2>. HIDE DEF U, q
  <2>. QED
    BY <1>1, <1>3, <2>1, LargerList
<1>. HIDE DEF U, q
<1>5. b = <<>> => b \o q = q
  BY <1>4
<1>6. b \o q \in Seq(U)
  BY <1>4
<1>7. ASSUME b # <<>> PROVE /\ Head(b \o q).op = "build" /\ Builds(Tail(b))
                           /\ Tail(b \o q) = Tail(b) \o q /\ b \o q # <<>>
  <2>1. Head(b) \in T /\ Tail(b) \in Seq(T)
    BY <1>3, <1>7
  <2>2. Head(b \o q) = Head(b) /\ Tail(b \o q) = Tail(b) \o q /\ b \o q # <<>>
    BY <1>4, <1>7, HeadConcat
  <2>. QED
    BY <1>3, <2>1, <2>2 DEF Builds
<1>. QED
  BY <1>2, <1>5, <1>6, <1>7 DEF q, IsList

\* What the generator is at, and what it leaves to be done after the step.
LEMMA MapCases ==
    ASSUME Mapping
    PROVE  \E p : /\ AllowedList(p, things) /\ Columns /\ todo # <<>> /\ IsList(Tail(todo))
                  /\ \/ it.op = "build" /\ \E b : Builds(b) /\ Tail(todo) = b \o ToConnect(p)
                     \/ it.op = "connect" /\ Tail(todo) = ToMerchant(p)
                     \/ it.op = "ensure" /\ Climbs /\ Tail(todo) \in {ToTreasure(p), ToStart(p)}
                     \/ it.op = "first" /\ Climbs /\ Tail(todo) = p
<1>1. PICK p : /\ AllowedList(p, things) /\ Columns
               /\ \/ \E b : Builds(b) /\ todo = b \o ToConnect(p)
                  \/ Climbs /\ todo \in {ToMerchant(p), ToTreasure(p), ToStart(p)}
  BY DEF Mapping
<1>2. /\ Go("first").op = "first" /\ Go("connect").op = "connect"
      /\ \A n, of : GoWith("ensure", n, of).op = "ensure"
  BY DEF Go, GoWith, Do
<1>3. IsList(p)
  BY <1>1 DEF AllowedList, IsList
<1>4. CASE Climbs /\ todo \in {ToMerchant(p), ToTreasure(p), ToStart(p)}
  <2>1. CASE todo = ToMerchant(p)
    <3>1. todo # <<>> /\ Tail(todo) = ToTreasure(p) /\ IsList(Tail(todo))
      BY <1>1, <2>1, MapHeads
    <3>2. it.op = "ensure"
      <4>1. it = GoWith("ensure", MerchantFloor, "MERCHANT")
        BY <1>1, <2>1, MapHeads DEF it
      <4>. QED
        BY <4>1 DEF GoWith, Do
    <3>. QED
      BY <1>1, <1>4, <3>1, <3>2
  <2>2. CASE todo = ToTreasure(p)
    <3>1. todo # <<>> /\ Tail(todo) = ToStart(p) /\ IsList(Tail(todo))
      BY <1>1, <2>2, MapHeads
    <3>2. it.op = "ensure"
      <4>1. it = GoWith("ensure", TreasureFloor, "TREASURE")
        BY <1>1, <2>2, MapHeads DEF it
      <4>. QED
        BY <4>1 DEF GoWith, Do
    <3>. QED
      BY <1>1, <1>4, <3>1, <3>2
  <2>3. CASE todo = ToStart(p)
    BY <1>1, <1>2, <1>3, <1>4, <2>3, MapHeads DEF it
  <2>. QED
    BY <1>4, <2>1, <2>2, <2>3
<1>5. ASSUME NEW b, Builds(b), todo = b \o ToConnect(p)
      PROVE  /\ todo # <<>> /\ IsList(Tail(todo))
             /\ \/ it.op = "build" /\ \E c : Builds(c) /\ Tail(todo) = c \o ToConnect(p)
                \/ it.op = "connect" /\ Tail(todo) = ToMerchant(p)
  <2>1. CASE b = <<>>
    <3>1. todo = ToConnect(p)
      BY <1>1, <1>5, <2>1, Built
    <3>. QED
      BY <1>1, <1>2, <3>1, MapHeads DEF it
  <2>2. CASE b # <<>>
    <3>. DEFINE rest1 == Tail(b)
    <3>1. /\ todo # <<>> /\ Head(todo).op = "build" /\ Builds(rest1)
          /\ Tail(todo) = rest1 \o ToConnect(p)
      BY <1>1, <1>5, <2>2, Built
    <3>. HIDE DEF rest1
    <3>2. IsList(rest1 \o ToConnect(p))
      BY <1>1, <3>1, Built
    <3>. QED
      BY <3>1, <3>2 DEF it
  <2>. QED
    BY <2>1, <2>2
<1>. QED
  BY <1>1, <1>4, <1>5

LEMMA MapOp ==
    ASSUME Mapping
    PROVE  todo # <<>> /\ it.op \in MapOps
BY MapCases DEF MapOps

\* What an action finds at the head of todo, unless it is the generator's.
LEMMA AtHead ==
    ASSUME IInv, todo # <<>>, it.op \notin MapOps
    PROVE  /\ Ordinary /\ AllowedList(Tail(todo), things)
           /\ it.op \notin HeadOps => Allowed(it, things) /\ Due = 0
           /\ it.op \notin HeadOps \cup OwnOps => Clean(it) /\ Proper(it) /\ \A b \in Branches(it) : CleanList(b)
<1>1. Ordinary
  BY MapOp DEF IInv
<1>2. AllowedList(Tail(todo), things) /\ (Allowed(it, things) \/ Pending(it, things))
  BY <1>1 DEF Ordinary
<1>3. it.op \notin HeadOps => Allowed(it, things)
  BY <1>2 DEF Pending, HeadOps
<1>4. it.op \notin HeadOps => Due = 0
  BY DEF HeadOps, Due, Doing, it
<1>5. it.op \notin HeadOps \cup OwnOps => Clean(it)
  BY <1>3 DEF Allowed, Owned, OwnOps
<1>. QED
  BY <1>1, <1>2, <1>3, <1>4, <1>5, CleanBranch

\* What is called takes the place of the head.
LEMMA Placed ==
    ASSUME NEW c, AllowedList(c, things'), AllowedList(Tail(todo), things'), Call(c)
    PROVE  Ordinary' /\ Due' = 0
<1>1. AllowedList(todo', things')
  BY AllowedConcat DEF Call
<1>2. todo' # <<>> => Allowed(Head(todo'), things') /\ AllowedList(Tail(todo'), things')
  BY <1>1, AllowedParts
<1>3. Ordinary'
  <2>1. IsList(todo')
    BY <1>1 DEF AllowedList, IsList
  <2>. QED
    BY <1>2, <2>1 DEF Ordinary, it
<1>4. ~(Doing("per_turn"))'
  <2>1. \A x : Clean(x) => x.op \notin Restricted
    BY CleanBranch DEF Proper
  <2>2. \A x : Allowed(x, things') => x.op # "per_turn"
    BY <2>1 DEF Allowed, Owned, Restricted
  <2>. QED
    BY <1>2, <2>2 DEF Doing
<1>. QED
  BY <1>3, <1>4 DEF Due

\* A step that puts a list in the place of the head, and pays nothing.
LEMMA CallStep ==
    ASSUME IInv, todo # <<>>, it.op \notin MapOps \cup HeadOps,
           NEW c, AllowedList(c, things'), Call(c), Kept(things, things'),
           State', SaveOnce', player'.perTurn = player.perTurn,
           Energetic(things') = Energetic(things)
    PROVE  IInv'
<1>1. AllowedList(Tail(todo), things) /\ Due = 0
  BY AtHead
<1>2. AllowedList(Tail(todo), things')
  BY <1>1, AllowedStays
<1>5. Ordinary' /\ Due' = 0
  BY <1>2, Placed
<1>7. EnergyPaid'
  <2>1. Due' = 0
    BY <1>5
  <2>2. player.perTurn = 3 + Cardinality(Energetic(things))
    <3>1. player.perTurn + Due = 3 + Cardinality(Energetic(things)) /\ player.perTurn \in Int
      BY DEF IInv, EnergyPaid, State, PlayerOk
    <3>. QED
      BY <1>1, <3>1
  <2>3. player'.perTurn + 0 = player'.perTurn
    BY DEF State, PlayerOk
  <2>. QED
    BY <2>1, <2>2, <2>3 DEF EnergyPaid
<1>. QED
  BY <1>5, <1>7 DEF IInv

\* Most steps leave the relics and potions as they are.
LEMMA PlainStep ==
    ASSUME IInv, todo # <<>>, it.op \notin MapOps \cup HeadOps,
           NEW c, AllowedList(c, things), Call(c),
           UNCHANGED things, State', player'.perTurn = player.perTurn
    PROVE  IInv'
<1>1. SaveOnce' /\ Kept(things, things') /\ Energetic(things') = Energetic(things) /\ AllowedList(c, things')
  BY DEF IInv, SaveOnce, Kept
<1>. QED
  BY <1>1, CallStep

LEMMA CleanStep ==
    ASSUME IInv, todo # <<>>, it.op \notin MapOps \cup HeadOps,
           NEW c, CleanList(c), Call(c),
           UNCHANGED things, State', player'.perTurn = player.perTurn
    PROVE  IInv'
BY PlainStep, CleanAllowed

LEMMA QuietStep ==
    ASSUME IInv, todo # <<>>, it.op \notin MapOps \cup HeadOps, \E c : CleanList(c) /\ Call(c),
           UNCHANGED <<scen, player, things, bus, combat, tally>>, DOMAIN run' = RunFields
    PROVE  IInv'
<1>1. PICK c : CleanList(c) /\ Call(c)
  OBVIOUS
<1>2. State'
  BY DEF IInv, State, PlayerOk, CombatOk, Integers
<1>. QED
  BY <1>1, <1>2, CleanStep

LEMMA RunDomain == ASSUME IInv PROVE DOMAIN run = RunFields
BY DEF IInv, State

-----------------------------------------------------------------------------
(* Steps that only call *)

LEMMA EmitStep ==
    ASSUME IInv, emit
    PROVE  IInv'
<1>1. todo # <<>> /\ it.op \notin MapOps \cup HeadOps
  BY DEF emit, Doing, it, MapOps, HeadOps
<1>2. /\ things \in Seq(ThingType) /\ bus \in Seq(DOMAIN things) /\ Integers(player.powers)
  BY DEF IInv, State, PlayerOk
<1>. DEFINE first == IF combat.open THEN PowerHooks(it.of, it.arg, player.powers, player.flags, combat.tags) ELSE <<>>
            f == [j \in DOMAIN bus |-> Answer(bus[j], it.of, it.arg)]
<1>3. AllowedList(first, things)
  BY <1>2, HooksClean, CleanNone, CleanAllowed
<1>4. AllowedList(FlattenSeq(f), things)
  <2>1. DOMAIN bus = 1 .. Len(bus) /\ Len(bus) \in Nat /\ \A j \in 1 .. Len(bus) : bus[j] \in DOMAIN things
    BY <1>2, ElementOfSeq, LenProperties
  <2>2. \A id \in DOMAIN things : things[id].kind \in DOMAIN Known
    <3>1. \A id \in DOMAIN things : things[id] \in ThingType
      BY <1>2
    <3>. QED
      BY <3>1 DEF ThingType
  <2>3. \A j \in 1 .. Len(bus) : AllowedList(f[j], things)
    BY <2>1, <2>2, AnswerAllowed
  <2>4. f = [j \in 1 .. Len(bus) |-> f[j]]
    BY <2>1
  <2>. HIDE DEF f
  <2>5. AllowedList(FlattenSeq([j \in 1 .. Len(bus) |-> f[j]]), things)
    BY <2>1, <2>3, AllowedFlatten
  <2>. QED
    BY <2>4, <2>5
<1>5. AllowedList(first \o FlattenSeq(f), things)
  <2>. HIDE DEF first, f
  <2>. QED
    BY <1>3, <1>4, AllowedConcat
<1>6. Call(first \o FlattenSeq(f))
  BY DEF emit
<1>7. tally' \in [Counted -> Nat]
  <2>1. tally \in [Counted -> Nat]
    BY DEF IInv, State
  <2>2. tally' = tally \/ \E e : tally' = [tally EXCEPT ![e] = @ + 1]
    BY DEF emit
  <2>. QED
    BY <2>1, <2>2
<1>8. State' /\ UNCHANGED things /\ player' = player
  BY <1>7 DEF emit, IInv, State, PlayerOk, CombatOk, Integers
<1>. HIDE DEF first, f
<1>. QED
  BY <1>1, <1>5, <1>6, <1>8, PlainStep

\* What the scenario offers is in the catalogues.
LEMMA Offered ==
    ASSUME IInv
    PROVE  /\ scen.loot \subseteq DOMAIN Catalogue /\ scen.cards \subseteq DOMAIN Book
           /\ scen.events \subseteq DOMAIN Registry /\ scen.drops \subseteq {"Potion", "FairyInABottle"}
           /\ scen.offers \subseteq NewCards /\ scen.hand \in Nat /\ scen.foes \in Nat /\ scen.floors \in Nat
           /\ scen.cols \subseteq 0 .. 6
BY DEF IInv, State, ScenarioShape

LEMMA ObtainClean ==
    ASSUME NEW r \in DOMAIN Catalogue, NEW a
    PROVE  Clean(GoWith("obtain", 0, r)) /\ Clean([GoWith("obtain", 0, r) EXCEPT !.arg = a])
<1>. DEFINE x == GoWith("obtain", 0, r)
            y == [x EXCEPT !.arg = a]
<1>1. DOMAIN x = Fields /\ x.op = "obtain" /\ x.of = r /\ x.then = <<>>
  BY DEF GoWith, Do, Fields
<1>. HIDE DEF x
<1>2. DOMAIN y = Fields /\ y.op = "obtain" /\ y.of = r /\ y.then = <<>>
  BY <1>1 DEF Fields
<1>. HIDE DEF y
<1>3. Proper(x) /\ Branches(x) = {<<>>} /\ Proper(y) /\ Branches(y) = {<<>>}
  BY <1>1, <1>2 DEF Proper, Restricted, Amounts, Branches
<1>4. Clean(x) /\ Clean(y)
  BY <1>3, CleanEffect, CleanNone
<1>. QED
  BY <1>4 DEF x, y

LEMMA RandomRelicStep ==
    ASSUME IInv, random_relic
    PROVE  IInv'
<1>1. todo # <<>> /\ it.op \notin MapOps \cup HeadOps
  BY DEF random_relic, Doing, it, MapOps, HeadOps
<1>2. \E rarity : \E r \in RelicChoices(rarity) : Call(<<[GoWith("obtain", 0, r) EXCEPT !.arg = it.arg]>>)
  BY DEF random_relic
<1>3. PICK rarity : \E r \in RelicChoices(rarity) : Call(<<[GoWith("obtain", 0, r) EXCEPT !.arg = it.arg]>>)
  BY <1>2
<1>4. PICK r \in RelicChoices(rarity) : Call(<<[GoWith("obtain", 0, r) EXCEPT !.arg = it.arg]>>)
  BY <1>3
<1>5. r \in DOMAIN Catalogue
  <2>1. r \in scen.loot
    BY <1>4 DEF RelicChoices
  <2>. QED
    BY <2>1, Offered
<1>6. CleanList(<<[GoWith("obtain", 0, r) EXCEPT !.arg = it.arg]>>)
  BY <1>5, ObtainClean, CleanSingle
<1>. QED
  BY <1>1, <1>4, <1>6, RunDomain, QuietStep DEF random_relic

\* The effects a guard lets through.
LEMMA GuardedClean ==
    ASSUME CleanList(it.then)
    PROVE  CleanList(Guarded)
<1>. DEFINE p == it.then
            S == {Tagged(p[i], it.who, it.arg) : i \in 1 .. Len(p)}
<1>1. p \in Seq(ToSet(p)) /\ \A x \in ToSet(p) : Clean(x)
  BY CleanElement
<1>2. Len(p) \in Nat /\ DOMAIN p = 1 .. Len(p) /\ \A i \in 1 .. Len(p) : Clean(p[i])
  BY <1>1, LenProperties, Elements
<1>3. \A y \in S : Clean(y)
  <2>1. \A x, w, a : Clean(x) => Clean(Tagged(x, w, a))
    BY CleanTagged DEF Tagged
  <2>. QED
    BY <1>2, <2>1
<1>4. Guarded = [i \in 1 .. Len(p) |-> Tagged(p[i], it.who, it.arg)]
  BY <1>2 DEF Guarded, Tagged
<1>5. Guarded \in Seq(S)
  BY <1>2, <1>4
<1>. HIDE DEF S
<1>. QED
  BY <1>3, <1>5, CleanOf

LEMMA CleanCalls ==
    /\ \A n, of : /\ Clean(GoWith("rest_action", n, of)) /\ Clean(GoWith("fall", n, of)) /\ Clean(GoWith("fight", n, of))
                  /\ Clean(GoWith("rewards", n, of)) /\ Clean(GoWith("enemy_phase", n, of))
                  /\ Clean(GoWith("enemies_left", n, of)) /\ Clean(GoWith("enter", n, of))
    /\ Clean(Go("card_reward")) /\ Clean(Go("potion_drop")) /\ Clean(Go("begin_turn")) /\ Clean(Go("loop"))
    /\ Clean(Go("opening_hand")) /\ Clean(Go("close_combat")) /\ Clean(Go("deaths")) /\ Clean(Go("discard_hand"))
    /\ Clean(Go("round_end")) /\ Clean(Go("rest")) /\ Clean(Go("shop")) /\ Clean(Go("treasure"))
    /\ Clean(Go("event")) /\ Clean(Go("leave")) /\ Clean(Go("act"))
<1>. DEFINE Free(op) == op \notin Restricted \cup Amounts \cup {"either", "pop_relics", "obtain", "resolve"}
<1>1. /\ Free("rest_action") /\ Free("fall") /\ Free("fight") /\ Free("rewards") /\ Free("enemy_phase")
      /\ Free("enemies_left") /\ Free("enter") /\ Free("card_reward") /\ Free("potion_drop") /\ Free("begin_turn")
      /\ Free("loop") /\ Free("opening_hand") /\ Free("close_combat") /\ Free("deaths") /\ Free("discard_hand")
      /\ Free("round_end") /\ Free("rest") /\ Free("shop") /\ Free("treasure") /\ Free("event") /\ Free("leave")
      /\ Free("act")
  BY DEF Restricted, Amounts
<1>2. \A op : Free(op) => Clean(Go(op)) /\ \A n, of : Clean(GoWith(op, n, of))
  BY CleanGo
<1>. HIDE DEF Free
<1>. QED
  BY <1>1, <1>2

LEMMA CleanResolve ==
    ASSUME NEW c \in DOMAIN Book
    PROVE  Clean(GoWith("resolve", 0, c))
<1>. DEFINE x == GoWith("resolve", 0, c)
<1>1. DOMAIN x = Fields /\ x.op = "resolve" /\ x.of = c /\ x.then = <<>>
  BY DEF GoWith, Do, Fields
<1>. HIDE DEF x
<1>2. Proper(x) /\ Branches(x) = {<<>>}
  BY <1>1 DEF Proper, Restricted, Amounts, Branches
<1>3. Clean(x)
  BY <1>2, CleanEffect, CleanNone
<1>. QED
  BY <1>3 DEF x

LEMMA RewardsStep ==
    ASSUME IInv, rewards
    PROVE  IInv'
<1>1. todo # <<>> /\ it.op \notin MapOps \cup HeadOps
  BY DEF rewards, Doing, it, MapOps, HeadOps
<1>. DEFINE gold == IF Has("no_gold") THEN <<>> ELSE <<Gold(GoldOf(it.of))>>
            boss == IF it.of = "BOSS" THEN <<Emit("BOSS_DEFEATED", "")>> ELSE <<>>
            star == IF Has("black_star") THEN <<RandomRelic("elite")>> ELSE <<>>
            relic == IF it.of # "ELITE" THEN <<>> ELSE <<RandomRelic("elite")>> \o star
            rest1 == <<Go("card_reward"), Go("potion_drop")>>
<1>2. CleanList(gold)
  BY CleanNone, CleanWords, CleanSingle
<1>3. CleanList(boss)
  BY CleanNone, CleanEmit, CleanSingle
<1>4. CleanList(relic)
  <2>1. CleanList(star) /\ CleanList(<<RandomRelic("elite")>>)
    BY CleanNone, CleanWords, CleanSingle
  <2>. HIDE DEF star
  <2>. QED
    BY <2>1, CleanNone, CleanConcat
<1>5. CleanList(rest1)
  BY CleanCalls, CleanTuples
<1>6. Call(IF ~run.won THEN <<>> ELSE gold \o boss \o relic \o rest1)
  BY DEF rewards
<1>. HIDE DEF gold, boss, relic, rest1
<1>7. CleanList(gold \o boss)
  BY <1>2, <1>3, CleanConcat
<1>8. CleanList(gold \o boss \o relic)
  BY <1>4, <1>7, CleanConcat
<1>9. CleanList(gold \o boss \o relic \o rest1)
  BY <1>5, <1>8, CleanConcat
<1>10. \E c : CleanList(c) /\ Call(c)
  BY <1>6, <1>9, CleanNone
<1>. QED
  BY <1>1, <1>10, RunDomain, QuietStep DEF rewards

LEMMA CardRewardStep ==
    ASSUME IInv, card_reward
    PROVE  IInv'
<1>1. todo # <<>> /\ it.op \notin MapOps \cup HeadOps
  BY DEF card_reward, Doing, it, MapOps, HeadOps
<1>2. \A k : CleanList(<<AddCard(k), Emit("CARD_ADDED", TypeOf(k))>>)
  BY CleanWords, CleanEmit, CleanTuples
<1>3. \E c : CleanList(c) /\ Call(c)
  BY <1>2, CleanNone DEF card_reward
<1>. QED
  BY <1>1, <1>3, RunDomain, QuietStep DEF card_reward

LEMMA PotionDropStep ==
    ASSUME IInv, potion_drop
    PROVE  IInv'
<1>1. todo # <<>> /\ it.op \notin MapOps \cup HeadOps
  BY DEF potion_drop, Doing, it, MapOps, HeadOps
<1>2. CleanList(<<Potions(1)>>)
  BY CleanWords, CleanSingle
<1>3. \E c : CleanList(c) /\ Call(c)
  BY <1>2, CleanNone DEF potion_drop
<1>. QED
  BY <1>1, <1>3, RunDomain, QuietStep DEF potion_drop

LEMMA RestStep ==
    ASSUME IInv, rest
    PROVE  IInv'
<1>1. todo # <<>> /\ it.op \notin MapOps \cup HeadOps
  BY DEF rest, Doing, it, MapOps, HeadOps
<1>2. \A action : CleanList(<<Emit("REST_SITE_ENTER", ""), GoWith("rest_action", 0, action)>>)
  BY CleanEmit, CleanCalls, CleanTuples
<1>3. \E c : CleanList(c) /\ Call(c)
  BY <1>2 DEF rest
<1>. QED
  BY <1>1, <1>3, RunDomain, QuietStep DEF rest

LEMMA TreasureStep ==
    ASSUME IInv, treasure
    PROVE  IInv'
<1>1. todo # <<>> /\ it.op \notin MapOps \cup HeadOps
  BY DEF treasure, Doing, it, MapOps, HeadOps
<1>2. \A rarity : Clean([RandomRelic(rarity) EXCEPT !.arg = "chest"])
  <2>. SUFFICES ASSUME NEW rarity PROVE Clean([RandomRelic(rarity) EXCEPT !.arg = "chest"])
    OBVIOUS
  <2>. DEFINE x == [RandomRelic(rarity) EXCEPT !.arg = "chest"]
  <2>1. DOMAIN x = Fields /\ x.op = "random_relic" /\ x.then = <<>>
    BY DEF RandomRelic, Do, Fields
  <2>. HIDE DEF x
  <2>2. Proper(x) /\ Branches(x) = {<<>>}
    BY <2>1 DEF Proper, Restricted, Amounts, Branches
  <2>3. Clean(x)
    BY <2>2, CleanEffect, CleanNone
  <2>. QED
    BY <2>3 DEF x
<1>3. \A rarity, n : CleanList(<<[RandomRelic(rarity) EXCEPT !.arg = "chest"], Gold(n)>>)
  BY <1>2, CleanWords, CleanTuples
<1>4. \E c : CleanList(c) /\ Call(c)
  BY <1>3 DEF treasure
<1>. QED
  BY <1>1, <1>4, RunDomain, QuietStep DEF treasure

LEMMA EventStep ==
    ASSUME IInv, event
    PROVE  IInv'
<1>1. todo # <<>> /\ it.op \notin MapOps \cup HeadOps
  BY DEF event, Doing, it, MapOps, HeadOps
<1>2. \E e \in scen.events :
         /\ run' = [run EXCEPT !.seen = @ \cup {e}]
         /\ \E choice \in DOMAIN Registry[e].choices \cup {1} : Call(Registry[e].choices[choice])
  BY DEF event
<1>3. \E c : CleanList(c) /\ Call(c)
  BY <1>2, Offered, CleanTables
<1>4. DOMAIN run' = RunFields
  BY <1>2, RunDomain
<1>. QED
  BY <1>1, <1>3, <1>4, QuietStep DEF event

LEMMA DrawStep ==
    ASSUME IInv, draw
    PROVE  IInv'
<1>1. todo # <<>> /\ it.op \notin MapOps \cup HeadOps
  BY DEF draw, Doing, it, MapOps, HeadOps
<1>2. \A e, a : CleanList(<<Emit(e, a)>>)
  BY CleanEmit, CleanSingle
<1>3. \E c : CleanList(c) /\ Call(c)
  BY <1>2, CleanNone DEF draw
<1>. QED
  BY <1>1, <1>3, RunDomain, QuietStep DEF draw

LEMMA ExhaustCardStep ==
    ASSUME IInv, exhaust_card
    PROVE  IInv'
<1>1. todo # <<>> /\ it.op \notin MapOps \cup HeadOps
  BY DEF exhaust_card, Doing, it, MapOps, HeadOps
<1>2. \A x : CleanList(<<Exhausted(x)>>)
  BY CleanEmit, CleanSingle DEF Exhausted
<1>3. \E c : CleanList(c) /\ Call(c)
  BY <1>2, CleanNone DEF exhaust_card
<1>. QED
  BY <1>1, <1>3, RunDomain, QuietStep DEF exhaust_card

\* What an effect that is neither a relic's own nor a turn's goes on with.
LEMMA ThenClean ==
    ASSUME IInv, todo # <<>>, it.op \notin MapOps \cup HeadOps \cup OwnOps \cup {"either"}
    PROVE  CleanList(it.then)
<1>1. Branches(it) = {it.then}
  BY DEF Branches
<1>. QED
  BY <1>1, AtHead

LEMMA EachInHandStep ==
    ASSUME IInv, each_in_hand
    PROVE  IInv'
<1>1. todo # <<>> /\ it.op \notin MapOps \cup HeadOps
  BY DEF each_in_hand, Doing, it, MapOps, HeadOps
<1>2. CleanList(it.then)
  BY <1>1, ThenClean DEF each_in_hand, Doing, it, OwnOps
<1>3. \A n \in 0 .. scen.hand : n \in Int
  BY Offered
<1>4. \E c : CleanList(c) /\ Call(c)
  BY <1>2, <1>3, CleanTimes DEF each_in_hand
<1>. QED
  BY <1>1, <1>4, RunDomain, QuietStep DEF each_in_hand

LEMMA HavocStep ==
    ASSUME IInv, havoc
    PROVE  IInv'
<1>1. todo # <<>> /\ it.op \notin MapOps \cup HeadOps
  BY DEF havoc, Doing, it, MapOps, HeadOps
<1>2. \A x : CleanList(<<Exhausted(x)>>)
  BY CleanEmit, CleanSingle DEF Exhausted
<1>3. \A x \in scen.cards : CleanList(Book[x].does \o <<Exhausted(x)>>)
  BY <1>2, Offered, CleanTables, CleanConcat
<1>4. \E c : CleanList(c) /\ Call(c)
  BY <1>3, CleanNone DEF havoc
<1>. QED
  BY <1>1, <1>4, RunDomain, QuietStep DEF havoc

LEMMA PainStep ==
    ASSUME IInv, pain
    PROVE  IInv'
<1>1. todo # <<>> /\ it.op \notin MapOps \cup HeadOps
  BY DEF pain, Doing, it, MapOps, HeadOps
<1>2. CleanList(<<HpLoss(1)>>)
  BY CleanWords, CleanSingle
<1>3. \E c : CleanList(c) /\ Call(c)
  BY <1>2, CleanNone DEF pain
<1>. QED
  BY <1>1, <1>3, RunDomain, QuietStep DEF pain

LEMMA BleedStep ==
    ASSUME IInv, bleed
    PROVE  IInv'
<1>1. todo # <<>> /\ it.op \notin MapOps \cup HeadOps
  BY DEF bleed, Doing, it, MapOps, HeadOps
<1>2. \A n : CleanList(<<HpLoss(n)>>)
  BY CleanWords, CleanSingle
<1>3. \E c : CleanList(c) /\ Call(c)
  BY <1>2, CleanNone DEF bleed
<1>. QED
  BY <1>1, <1>3, RunDomain, QuietStep DEF bleed

LEMMA JudgeOnStep ==
    ASSUME IInv, judge_on
    PROVE  IInv'
<1>1. todo # <<>> /\ it.op \notin MapOps \cup HeadOps
  BY DEF judge_on, Doing, it, MapOps, HeadOps
<1>2. AllowedList(<<Go("turn")>>, things) /\ AllowedList(<<>>, things)
  <2>1. Allowed(Go("turn"), things)
    BY DEF Allowed, Go, Do, Fields
  <2>. QED
    BY <2>1, AllowedSingle, AllowedNone
<1>3. \E c : AllowedList(c, things) /\ Call(c)
  BY <1>2 DEF judge_on
<1>4. State' /\ UNCHANGED <<things, player>>
  BY DEF judge_on, IInv, State, PlayerOk, CombatOk, Integers
<1>. QED
  BY <1>1, <1>3, <1>4, PlainStep

LEMMA RollStep ==
    ASSUME IInv, roll
    PROVE  IInv'
<1>1. todo # <<>> /\ it.op \notin MapOps \cup HeadOps
  BY DEF roll, Doing, it, MapOps, HeadOps
<1>2. CASE it.op = "maybe"
  <2>1. CleanList(it.then)
    BY <1>1, <1>2, ThenClean DEF OwnOps
  <2>2. \E c : CleanList(c) /\ Call(c)
    BY <1>2, <2>1, CleanNone DEF roll
  <2>. QED
    BY <1>1, <2>2, RunDomain, QuietStep DEF roll
<1>3. CASE it.op = "either"
  <2>1. CleanList(it.then[1]) /\ CleanList(it.then[2])
    BY <1>1, <1>3, AtHead DEF OwnOps, Branches
  <2>2. \E c : CleanList(c) /\ Call(c)
    BY <1>3, <2>1 DEF roll
  <2>. QED
    BY <1>1, <2>2, RunDomain, QuietStep DEF roll
<1>. QED
  BY <1>2, <1>3 DEF roll

LEMMA EnemiesLeftStep ==
    ASSUME IInv, enemies_left
    PROVE  IInv'
<1>1. todo # <<>> /\ it.op \notin MapOps \cup HeadOps
  BY DEF enemies_left, Doing, it, MapOps, HeadOps
<1>. DEFINE poison == IF "poison" \in combat.tags THEN <<HitAll>> ELSE <<>>
            end == <<Go("deaths"), Go("round_end")>>
<1>2. CleanList(poison) /\ CleanList(end)
  BY CleanWords, CleanCalls, CleanSingle, CleanNone, CleanTuples
<1>3. CleanList(<<GoWith("enemy_phase", it.n, "")>>)
  BY CleanCalls, CleanSingle
<1>4. Call(IF player.hp <= 0 THEN <<>>
           ELSE IF Smaller(it.n, combat.foes) > 0 THEN <<GoWith("enemy_phase", it.n, "")>> ELSE poison \o end)
  BY DEF enemies_left
<1>. HIDE DEF poison, end
<1>5. CleanList(poison \o end)
  BY <1>2, CleanConcat
<1>6. \E c : CleanList(c) /\ Call(c)
  BY <1>3, <1>4, <1>5, CleanNone
<1>. QED
  BY <1>1, <1>6, RunDomain, QuietStep DEF enemies_left

LEMMA EnemyPhaseStep ==
    ASSUME IInv, enemy_phase
    PROVE  IInv'
<1>1. todo # <<>> /\ it.op \notin MapOps \cup HeadOps
  BY DEF enemy_phase, Doing, it, MapOps, HeadOps
<1>. DEFINE barrier == IF "FLAME_BARRIER" \in DOMAIN player.powers THEN <<HitOne>> ELSE <<>>
            hits == {<<Attacked(n)>> \o barrier : n \in scen.hits}
            debuffs == {<<Debuff(d, 1)>> : d \in scen.debuffs}
            after == <<Go("deaths"), GoWith("enemies_left",
                           IF Smaller(it.n, combat.foes) = 0 THEN 0 ELSE Smaller(it.n, combat.foes) - 1, "")>>
<1>2. CleanList(barrier) /\ CleanList(after)
  BY CleanWords, CleanCalls, CleanSingle, CleanNone, CleanTuples
<1>3. \A m \in hits : CleanList(m)
  <2>. HIDE DEF barrier
  <2>1. \A n : CleanList(<<Attacked(n)>>)
    BY CleanWords, CleanSingle
  <2>. QED
    BY <1>2, <2>1, CleanConcat
<1>4. \A m \in debuffs : CleanList(m)
  <2>1. 1 \in Int
    OBVIOUS
  <2>. QED
    BY <2>1, CleanWords, CleanSingle
<1>5. \E m \in hits \cup debuffs \cup {<<>>} : Call(m \o after)
  BY DEF enemy_phase
<1>. HIDE DEF hits, debuffs, after
<1>6. \E c : CleanList(c) /\ Call(c)
  <2>1. PICK m \in hits \cup debuffs \cup {<<>>} : Call(m \o after)
    BY <1>5
  <2>2. CleanList(m)
    BY <1>3, <1>4, CleanNone
  <2>3. CleanList(m \o after)
    BY <1>2, <2>2, CleanConcat
  <2>. QED
    BY <2>1, <2>3
<1>. QED
  BY <1>1, <1>6, RunDomain, QuietStep DEF enemy_phase

LEMMA EndOfTurnStep ==
    ASSUME IInv, end_of_turn
    PROVE  IInv'
<1>1. todo # <<>> /\ it.op \notin MapOps \cup HeadOps
  BY DEF end_of_turn, Doing, it, MapOps, HeadOps
<1>2. PICK left \in SUBSET (scen.burdens \cap DOMAIN EndOfTurn) : \E hand \in SetToSeqs(left) :
         Call(FlattenSeq([i \in DOMAIN hand |-> EndOfTurn[hand[i]]]))
  BY DEF end_of_turn
<1>3. PICK hand \in SetToSeqs(left) : Call(FlattenSeq([i \in DOMAIN hand |-> EndOfTurn[hand[i]]]))
  BY <1>2
<1>4. hand \in [1 .. Cardinality(left) -> left] /\ Cardinality(left) \in Int
  <2>1. IsFiniteSet(left)
    BY CardsAssumption, FS_Subset
  <2>2. Cardinality(left) \in Nat
    BY <2>1, FS_CardinalityType
  <2>. QED
    BY <2>2 DEF SetToSeqs
<1>. DEFINE n == Cardinality(left)
            f == [i \in 1 .. n |-> EndOfTurn[hand[i]]]
<1>5. \A i \in 1 .. n : CleanList(f[i])
  BY <1>4, CleanTables
<1>6. [i \in DOMAIN hand |-> EndOfTurn[hand[i]]] = [i \in 1 .. n |-> f[i]]
  BY <1>4
<1>. HIDE DEF f, n
<1>7. n \in Int
  BY <1>4 DEF n
<1>8. CleanList(FlattenSeq([i \in 1 .. n |-> f[i]]))
  BY <1>5, <1>7, CleanFlatten
<1>9. \E c : CleanList(c) /\ Call(c)
  BY <1>3, <1>6, <1>8
<1>. QED
  BY <1>1, <1>9, RunDomain, QuietStep DEF end_of_turn

-----------------------------------------------------------------------------
(* Steps that change the player *)

LEMMA PlayerState ==
    ASSUME IInv, UNCHANGED <<scen, things, bus, combat, run, tally>>, PlayerOk(player', DOMAIN things)
    PROVE  State'
BY DEF IInv, State, CombatOk

LEMMA PlayerStep ==
    ASSUME IInv, todo # <<>>, it.op \notin MapOps \cup HeadOps, \E c : CleanList(c) /\ Call(c),
           UNCHANGED <<scen, things, bus, combat, run, tally>>,
           PlayerOk(player', DOMAIN things), player'.perTurn = player.perTurn
    PROVE  IInv'
BY PlayerState, CleanStep

\* The powers stay integers.
LEMMA PowersStay ==
    ASSUME NEW f, Integers(f)
    PROVE  /\ \A x : Amount(f, x) \in Int
           /\ \A S : Integers(Without(f, S))
           /\ \A x, n : n \in Int => Integers(With(f, x, n)) /\ Integers(Gain(f, x, n))
<1>1. \A x : Amount(f, x) \in Int
  BY DEF Integers, Amount
<1>2. \A S : Integers(Without(f, S))
  BY DEF Integers, Without
<1>3. \A x, n : n \in Int => Integers(With(f, x, n))
  BY DEF Integers, With
<1>4. \A x, n : n \in Int => Integers(Gain(f, x, n))
  <2>. SUFFICES ASSUME NEW x, NEW n \in Int PROVE Integers(Gain(f, x, n))
    OBVIOUS
  <2>1. Amount(f, x) + n \in Int
    BY <1>1
  <2>2. Integers(With(f, x, Amount(f, x) + n))
    BY <1>3, <2>1
  <2>. QED
    BY <1>2, <2>2 DEF Gain
<1>. QED
  BY <1>1, <1>2, <1>3, <1>4

\* What is of no concern to the invariant: HP, gold, block, flags and the like.
Alike(p, q) ==
    /\ DOMAIN q = DOMAIN p /\ q.powers = p.powers /\ q.deck = p.deck /\ q.energy = p.energy
    /\ q.perTurn = p.perTurn /\ q.relics = p.relics /\ q.potions = p.potions

LEMMA AlikeOk ==
    ASSUME NEW p, NEW ids, PlayerOk(p, ids), NEW q, Alike(p, q)
    PROVE  PlayerOk(q, ids) /\ q.perTurn = p.perTurn
BY DEF PlayerOk, Alike

LEMMA HealedAlike ==
    ASSUME NEW p, NEW ids, PlayerOk(p, ids)
    PROVE  \A n : Alike(p, HealedTo(p, n)) /\ Alike(p, WithMaxHp(p, n))
BY DEF PlayerOk, PlayerFields, Alike, HealedTo, WithMaxHp

LEMMA PoweredOk ==
    ASSUME NEW p, NEW ids, PlayerOk(p, ids), NEW x, NEW n \in Int
    PROVE  PlayerOk(Powered(p, x, n), ids) /\ Powered(p, x, n).perTurn = p.perTurn
<1>1. Integers(Gain(p.powers, x, n))
  BY PowersStay DEF PlayerOk
<1>. QED
  BY <1>1 DEF PlayerOk, PlayerFields, Powered

\* What no effect of Simple but a pickup changes is the energy of a turn.
LEMMA AppliedOk ==
    ASSUME NEW p, NEW ids, PlayerOk(p, ids), NEW i, i.op \in Amounts \cup {"per_turn"} => i.n \in Int
    PROVE  LET q == Applied(p, i)
           IN  PlayerOk(q, ids) /\ q.perTurn = (IF i.op = "per_turn" THEN p.perTurn + i.n ELSE p.perTurn)
<1>. DEFINE q == Applied(p, i)
            Good == PlayerOk(q, ids) /\ q.perTurn = (IF i.op = "per_turn" THEN p.perTurn + i.n ELSE p.perTurn)
<1>1. DOMAIN p = PlayerFields /\ Integers(p.powers) /\ p.deck \in [CardKinds -> Int] /\ p.energy \in Int
  BY DEF PlayerOk
<1>2. i.op \in Amounts => i.n \in Int
  OBVIOUS
<1>3. ASSUME Alike(p, q), i.op # "per_turn" PROVE Good
  BY <1>3, AlikeOk
<1>4. CASE i.op = "energy"
  <2>1. q = [p EXCEPT !.energy = @ + i.n] /\ i.n \in Int
    BY <1>2, <1>4 DEF Applied, Amounts
  <2>2. q.energy = p.energy + i.n /\ q.energy \in Int
    BY <1>1, <2>1 DEF PlayerFields
  <2>. QED
    BY <1>1, <1>4, <2>1, <2>2 DEF PlayerOk, PlayerFields
<1>5. CASE i.op = "drain"
  <2>1. q = [p EXCEPT !.energy = Larger(0, @ - i.n)]
    BY <1>5 DEF Applied
  <2>2. Larger(0, p.energy - i.n) \in Int
    BY <1>1, <1>2, <1>5 DEF Larger, Amounts
  <2>. QED
    BY <1>1, <1>5, <2>1, <2>2 DEF PlayerOk, PlayerFields
<1>6. CASE i.op = "power"
  <2>1. q = Powered(p, i.of, i.n)
    BY <1>6 DEF Applied
  <2>. QED
    BY <1>2, <1>6, <2>1, PoweredOk DEF Amounts
<1>7. CASE i.op = "set_power"
  <2>1. q = [p EXCEPT !.powers = With(@, i.of, i.n)]
    BY <1>7 DEF Applied
  <2>2. Integers(With(p.powers, i.of, i.n))
    BY <1>1, <1>2, <1>7, PowersStay DEF Amounts
  <2>. QED
    BY <1>1, <1>7, <2>1, <2>2 DEF PlayerOk, PlayerFields
<1>8. CASE i.op = "unpower"
  <2>1. q = [p EXCEPT !.powers = Without(@, {i.of})]
    BY <1>8 DEF Applied
  <2>2. Integers(Without(p.powers, {i.of}))
    BY <1>1, PowersStay
  <2>. QED
    BY <1>1, <1>8, <2>1, <2>2 DEF PlayerOk, PlayerFields
<1>9. CASE i.op = "double_power"
  <2>1. q = Powered(p, i.of, Amount(p.powers, i.of))
    BY <1>9 DEF Applied
  <2>2. Amount(p.powers, i.of) \in Int
    BY <1>1, PowersStay
  <2>. QED
    BY <1>9, <2>1, <2>2, PoweredOk
<1>10. CASE i.op = "curse_strength"
  <2>1. q = Powered(p, "STRENGTH", p.deck["Curse"])
    BY <1>10 DEF Applied
  <2>2. p.deck["Curse"] \in Int
    BY <1>1 DEF CardKinds
  <2>. QED
    BY <1>10, <2>1, <2>2, PoweredOk
<1>11. CASE i.op = "per_turn"
  <2>1. q = [p EXCEPT !.perTurn = @ + i.n]
    BY <1>11 DEF Applied
  <2>2. p.perTurn + i.n \in Int
    BY <1>11 DEF PlayerOk
  <2>. QED
    BY <1>1, <1>11, <2>1, <2>2 DEF PlayerOk, PlayerFields
<1>12. CASE i.op \in {"cleanse", "add_card", "ward"}
  <2>1. i.op = "cleanse" => q = [p EXCEPT !.deck["Curse"] = 0]
    BY DEF Applied
  <2>2. i.op = "add_card" => q = [p EXCEPT !.deck[i.of] = @ + i.n]
    BY DEF Applied
  <2>3. i.op = "ward" => q = [p EXCEPT !.deck["Curse"] = Larger(0, @ - 1)]
    BY DEF Applied
  <2>4. ASSUME NEW n \in Int PROVE [p.deck EXCEPT !["Curse"] = n] \in [CardKinds -> Int]
    BY <1>1
  <2>5. ASSUME NEW k, NEW n \in Int PROVE [p.deck EXCEPT ![k] = @ + n] \in [CardKinds -> Int]
    <3>1. CASE k \in CardKinds
      <4>1. p.deck[k] + n \in Int
        BY <1>1, <3>1
      <4>. QED
        BY <1>1, <4>1
    <3>2. CASE k \notin CardKinds
      BY <1>1, <3>2
    <3>. QED
      BY <3>1, <3>2
  <2>6. Larger(0, p.deck["Curse"] - 1) \in Int
    BY <1>1 DEF CardKinds, Larger
  <2>7. i.op = "cleanse" => Good
    <3>1. 0 \in Int /\ [p.deck EXCEPT !["Curse"] = 0] \in [CardKinds -> Int]
      BY <2>4
    <3>. QED
      BY <1>1, <2>1, <3>1 DEF PlayerOk, PlayerFields
  <2>8. i.op = "add_card" => Good
    BY <1>1, <1>2, <2>2, <2>5 DEF PlayerOk, PlayerFields, Amounts
  <2>9. i.op = "ward" => Good
    BY <1>1, <2>3, <2>4, <2>6 DEF PlayerOk, PlayerFields
  <2>. QED
    BY <1>12, <2>7, <2>8, <2>9
<1>13. CASE i.op \in {"heal", "mend", "heal_pct", "max_hp", "max_hp_per_cards", "feather"}
  <2>1. \E n : q \in {HealedTo(p, n), WithMaxHp(p, n)}
    BY <1>13 DEF Applied
  <2>. QED
    BY <1>3, <1>13, <2>1, HealedAlike
<1>14. CASE i.op \in {"lose_max_hp", "max_hp_for_gold"}
  <2>1. \E r : Alike(p, r) /\ \E n : q \in {HealedTo(r, n), WithMaxHp(r, n)}
    <3>1. Alike(p, [p EXCEPT !.maxHp = @ - i.n]) /\ Alike(p, [p EXCEPT !.gold = 0])
      BY <1>1 DEF Alike, PlayerFields
    <3>. QED
      BY <1>14, <3>1 DEF Applied
  <2>2. PICK r : Alike(p, r) /\ \E n : q \in {HealedTo(r, n), WithMaxHp(r, n)}
    BY <2>1
  <2>3. PlayerOk(r, ids) /\ r.perTurn = p.perTurn
    BY <2>2, AlikeOk
  <2>. QED
    BY <1>14, <2>2, <2>3, HealedAlike, AlikeOk
<1>15. CASE i.op \in {"double_block", "full_heal", "gold", "lose_gold", "lose_all_gold", "flag",
                      "bleed_quarter_max", "bleed_half", "lament", "offer"}
  <2>1. Alike(p, q)
    BY <1>1, <1>15 DEF Applied, Alike, PlayerFields
  <2>. QED
    BY <1>3, <1>15, <2>1
<1>16. CASE i.op \notin {"energy", "drain", "power", "set_power", "unpower", "double_power", "double_block",
                         "heal", "mend", "heal_pct", "max_hp", "lose_max_hp", "full_heal", "gold", "lose_gold",
                         "lose_all_gold", "per_turn", "flag", "bleed_quarter_max", "bleed_half",
                         "max_hp_per_cards", "max_hp_for_gold", "feather", "curse_strength", "cleanse", "lament",
                         "offer", "add_card", "ward"}
  <2>1. q = p
    BY <1>16 DEF Applied
  <2>. QED
    BY <1>16, <2>1
<1>17. Good
  BY <1>4, <1>5, <1>6, <1>7, <1>8, <1>9, <1>10, <1>11, <1>12, <1>13, <1>14, <1>15, <1>16
<1>. QED
  BY <1>17

LEMMA ApplyStep ==
    ASSUME IInv, apply
    PROVE  IInv'
<1>1. todo # <<>> /\ it.op \notin MapOps /\ it.op \notin {"revive", "fairy"} \cup OwnOps
  BY DEF apply, Simple, MapOps, OwnOps
<1>2. AllowedList(Tail(todo), things) /\ Ordinary
  BY <1>1, AtHead
<1>3. UNCHANGED <<scen, things, bus, combat, run, tally>> /\ Call(<<>>)
  BY DEF apply
<1>4. it.op \in Amounts \cup {"per_turn"} => it.n \in Int
  <2>1. CASE it.op = "per_turn"
    <3>1. ~Allowed(it, things)
      <4>1. Clean(it) => it.op \notin Restricted
        BY CleanBranch DEF Proper
      <4>. QED
        BY <2>1, <4>1 DEF Allowed, Owned, Restricted
    <3>2. Pending(it, things)
      BY <1>1, <1>2, <3>1 DEF Ordinary
    <3>. QED
      BY <2>1, <3>2 DEF Pending
  <2>2. CASE it.op # "per_turn"
    <3>1. Proper(it)
      BY <1>1, <2>2, AtHead DEF HeadOps
    <3>. QED
      BY <2>2, <3>1 DEF Proper
  <2>. QED
    BY <2>1, <2>2
<1>5. /\ PlayerOk(player', DOMAIN things)
      /\ player'.perTurn = (IF it.op = "per_turn" THEN player.perTurn + it.n ELSE player.perTurn)
  <2>1. PlayerOk(player, DOMAIN things) /\ player' = Applied(player, it)
    BY DEF IInv, State, apply
  <2>. QED
    BY <1>4, <2>1, AppliedOk
<1>6. Ordinary' /\ Due' = 0
  <2>1. AllowedList(<<>>, things') /\ AllowedList(Tail(todo), things')
    BY <1>2, <1>3, AllowedNone
  <2>. QED
    BY <1>3, <2>1, Placed
<1>7. State' /\ SaveOnce'
  BY <1>3, <1>5, PlayerState DEF IInv, SaveOnce
<1>8. player'.perTurn = player.perTurn + Due
  <2>1. CASE it.op = "per_turn"
    <3>1. ~Allowed(it, things)
      <4>1. Clean(it) => it.op \notin Restricted
        BY CleanBranch DEF Proper
      <4>. QED
        BY <2>1, <4>1 DEF Allowed, Owned, Restricted
    <3>2. it.n = 1
      BY <1>1, <1>2, <2>1, <3>1 DEF Ordinary, Pending
    <3>. QED
      BY <1>1, <1>5, <2>1, <3>2 DEF Due, Doing, it
  <2>2. CASE it.op # "per_turn"
    <3>1. Due = 0 /\ player.perTurn \in Int
      BY <2>2 DEF Due, Doing, it, IInv, State, PlayerOk
    <3>. QED
      BY <1>5, <2>2, <3>1
  <2>. QED
    BY <2>1, <2>2
<1>9. EnergyPaid'
  <2>1. player.perTurn + Due = 3 + Cardinality(Energetic(things)) /\ things' = things
    BY <1>3 DEF IInv, EnergyPaid
  <2>2. player'.perTurn \in Int
    BY <1>5 DEF PlayerOk
  <2>3. player'.perTurn + 0 = player'.perTurn
    BY <2>2
  <2>. QED
    BY <1>6, <1>8, <2>1, <2>3 DEF EnergyPaid
<1>. QED
  BY <1>6, <1>7, <1>9 DEF IInv

LEMMA GainBlockStep ==
    ASSUME IInv, gain_block
    PROVE  IInv'
<1>1. todo # <<>> /\ it.op \notin MapOps \cup HeadOps
  BY DEF gain_block, MapOps, HeadOps
<1>2. \A a : CleanList(<<Emit("BLOCK_GAINED", a)>>)
  BY CleanEmit, CleanSingle
<1>3. \E c : CleanList(c) /\ Call(c)
  BY <1>2 DEF gain_block
<1>4. Alike(player, player')
  <2>1. \E n : player' = [player EXCEPT !.block = @ + n]
    BY DEF gain_block
  <2>. QED
    BY <2>1 DEF Alike, IInv, State, PlayerOk, PlayerFields
<1>5. PlayerOk(player', DOMAIN things) /\ player'.perTurn = player.perTurn
  BY <1>4, AlikeOk DEF IInv, State
<1>. QED
  BY <1>1, <1>3, <1>5, PlayerStep DEF gain_block

LEMMA ChangeDeckStep ==
    ASSUME IInv, change_deck
    PROVE  IInv'
<1>1. todo # <<>> /\ it.op \notin MapOps \cup HeadOps
  BY DEF change_deck, MapOps, HeadOps, DeckOps
<1>2. \E c : CleanList(c) /\ Call(c)
  BY CleanNone DEF change_deck
<1>3. player' = player \/ player' \in DeckOutcomes(player, it.op)
  BY DEF change_deck
<1>4. /\ DOMAIN player = PlayerFields /\ player.deck \in [CardKinds -> Int] /\ PlayerOk(player, DOMAIN things)
      /\ InDeck \subseteq CardKinds /\ scen.offers \subseteq CardKinds
  BY Offered DEF IInv, State, PlayerOk, InDeck, CardKinds, NewCards
<1>5. \A q \in DeckOutcomes(player, it.op) : PlayerOk(q, DOMAIN things) /\ q.perTurn = player.perTurn
  <2>1. \A k \in CardKinds : /\ [player.deck EXCEPT ![k] = @ + 1] \in [CardKinds -> Int]
                             /\ [player.deck EXCEPT ![k] = @ - 1] \in [CardKinds -> Int]
    BY <1>4
  <2>2. \A d \in [CardKinds -> Int] : LET q == [player EXCEPT !.deck = d]
                                      IN  PlayerOk(q, DOMAIN things) /\ q.perTurn = player.perTurn
    BY <1>4 DEF PlayerOk, PlayerFields
  <2>. DEFINE Put(k) == [player EXCEPT !.deck[k] = @ + 1]
              Take(k) == [player EXCEPT !.deck[k] = @ - 1]
  <2>3. \A k \in CardKinds : /\ PlayerOk(Put(k), DOMAIN things) /\ Put(k).perTurn = player.perTurn
                             /\ PlayerOk(Take(k), DOMAIN things) /\ Take(k).perTurn = player.perTurn
    BY <1>4, <2>1 DEF PlayerOk, PlayerFields
  <2>4. ASSUME NEW k \in CardKinds
        PROVE  PlayerOk(Removed(player, k), DOMAIN things) /\ Removed(player, k).perTurn = player.perTurn
    BY <1>4, <2>1 DEF Removed, PlayerOk, PlayerFields
  <2>5. ASSUME NEW k \in CardKinds, NEW new \in CardKinds
        PROVE  PlayerOk(Swap(player, k, new), DOMAIN things) /\ Swap(player, k, new).perTurn = player.perTurn
    <3>. DEFINE left == [player.deck EXCEPT ![k] = @ - 1]
                d == [left EXCEPT ![new] = @ + 1]
    <3>1. left \in [CardKinds -> Int]
      BY <1>4
    <3>. HIDE DEF left
    <3>2. d \in [CardKinds -> Int]
      BY <3>1
    <3>3. Swap(player, k, new) = [player EXCEPT !.deck = d]
      BY DEF Swap, left
    <3>. HIDE DEF d
    <3>. QED
      BY <1>4, <3>2, <3>3 DEF PlayerOk, PlayerFields
  <2>6. CASE it.op = "remove_card"
    BY <1>4, <2>4, <2>6 DEF DeckOutcomes
  <2>7. CASE it.op = "transform"
    BY <1>4, <2>5, <2>7 DEF DeckOutcomes
  <2>8. CASE it.op \notin {"remove_card", "transform"}
    <3>1. \A q \in DeckOutcomes(player, it.op) :
             q = player \/ \E k \in CardKinds : q = Put(k) \/ q = Take(k)
      BY <1>4, <2>8 DEF DeckOutcomes
    <3>. HIDE DEF Put, Take
    <3>. QED
      BY <1>4, <2>3, <3>1
  <2>. QED
    BY <2>6, <2>7, <2>8
<1>6. PlayerOk(player', DOMAIN things) /\ player'.perTurn = player.perTurn
  BY <1>3, <1>4, <1>5
<1>. QED
  BY <1>1, <1>2, <1>6, PlayerStep DEF change_deck

LEMMA PandoraStep ==
    ASSUME IInv, open_pandoras_box
    PROVE  IInv'
<1>1. todo # <<>> /\ it.op \notin MapOps \cup HeadOps
  BY DEF open_pandoras_box, Doing, it, MapOps, HeadOps
<1>2. \E c : CleanList(c) /\ Call(c)
  BY CleanNone DEF open_pandoras_box
<1>. DEFINE n == player.deck["Strike"] + player.deck["Defend"]
<1>3. PICK d \in [scen.offers -> 0 .. n] :
         player' = [player EXCEPT !.deck = [k \in CardKinds |-> IF k \in {"Strike", "Defend"} THEN 0
                                               ELSE @[k] + IF k \in scen.offers THEN d[k] ELSE 0]]
  BY DEF open_pandoras_box
<1>4. player.deck \in [CardKinds -> Int] /\ DOMAIN player = PlayerFields
  BY DEF IInv, State, PlayerOk
<1>. DEFINE new == [k \in CardKinds |-> IF k \in {"Strike", "Defend"} THEN 0
                                         ELSE player.deck[k] + IF k \in scen.offers THEN d[k] ELSE 0]
<1>5. new \in [CardKinds -> Int]
  <2>1. \A k \in scen.offers : d[k] \in Int
    BY <1>3
  <2>2. \A k \in CardKinds : player.deck[k] \in Int
    BY <1>4
  <2>. QED
    BY <2>1, <2>2
<1>6. player' = [player EXCEPT !.deck = new]
  BY <1>3
<1>. HIDE DEF new
<1>7. PlayerOk(player', DOMAIN things) /\ player'.perTurn = player.perTurn
  BY <1>4, <1>5, <1>6 DEF PlayerOk, PlayerFields, IInv, State
<1>. QED
  BY <1>1, <1>2, <1>7, PlayerStep DEF open_pandoras_box

LEMMA PopRelicsStep ==
    ASSUME IInv, pop_relics
    PROVE  IInv'
<1>1. todo # <<>> /\ it.op = "pop_relics" /\ it.op \notin MapOps \cup HeadOps
  BY DEF pop_relics, Doing, it, MapOps, HeadOps
<1>2. \E c : CleanList(c) /\ Call(c)
  BY CleanNone DEF pop_relics
<1>3. it.n \in Nat
  BY <1>1, AtHead DEF Proper, OwnOps
<1>4. PlayerOk(player, DOMAIN things)
  BY DEF IInv, State
<1>. DEFINE left == SubSeq(player.relics, 1, Len(player.relics) - it.n)
<1>5. left \in Seq(DOMAIN things)
  <2>1. player.relics \in Seq(DOMAIN things)
    BY <1>4 DEF PlayerOk
  <2>2. Len(player.relics) \in Nat
    BY <2>1
  <2>3. Len(player.relics) - it.n \in Int /\ Len(player.relics) - it.n <= Len(player.relics)
    BY <1>3, <2>2
  <2>. QED
    BY <2>1, <2>3, Stretch
<1>6. player' = [player EXCEPT !.relics = left]
  BY DEF pop_relics
<1>. HIDE DEF left
<1>7. PlayerOk(player', DOMAIN things) /\ player'.perTurn = player.perTurn
  BY <1>4, <1>5, <1>6 DEF PlayerOk, PlayerFields
<1>. QED
  BY <1>1, <1>2, <1>7, PlayerStep DEF pop_relics

LEMMA PopPotionStep ==
    ASSUME IInv, pop_potion
    PROVE  IInv'
<1>1. todo # <<>> /\ it.op \notin MapOps \cup HeadOps
  BY DEF pop_potion, Doing, it, MapOps, HeadOps
<1>2. \E c : CleanList(c) /\ Call(c)
  BY CleanNone DEF pop_potion
<1>3. PlayerOk(player, DOMAIN things)
  BY DEF IInv, State
<1>. DEFINE left == Front(player.potions)
<1>4. left \in Seq(DOMAIN things)
  <2>1. player.potions \in Seq(DOMAIN things)
    BY <1>3 DEF PlayerOk
  <2>2. Len(player.potions) \in Nat
    BY <2>1
  <2>3. Len(player.potions) - 1 \in Int /\ Len(player.potions) - 1 <= Len(player.potions)
    BY <2>2
  <2>. QED
    BY <2>1, <2>3, Stretch DEF Front
<1>5. player' = [player EXCEPT !.potions = left]
  BY DEF pop_potion
<1>. HIDE DEF left
<1>6. PlayerOk(player', DOMAIN things) /\ player'.perTurn = player.perTurn
  BY <1>3, <1>4, <1>5 DEF PlayerOk, PlayerFields
<1>. QED
  BY <1>1, <1>2, <1>6, PlayerStep DEF pop_potion

\* Most of them change what is of no concern.
LEMMA AlikeStep ==
    ASSUME IInv, todo # <<>>, it.op \notin MapOps \cup HeadOps, \E c : CleanList(c) /\ Call(c),
           UNCHANGED <<scen, things, bus, combat, run, tally>>, Alike(player, player')
    PROVE  IInv'
<1>1. PlayerOk(player', DOMAIN things) /\ player'.perTurn = player.perTurn
  BY AlikeOk DEF IInv, State
<1>. QED
  BY <1>1, PlayerStep

LEMMA FeltClean ==
    ASSUME IInv
    PROVE  CleanList(Felt)
<1>. DEFINE first == <<Emit("DAMAGE_TAKEN", "")>>
            second == IF it.of = "hp_loss" /\ "RUPTURE" \in DOMAIN player.powers
                      THEN <<Power("STRENGTH", player.powers["RUPTURE"])>> ELSE <<>>
<1>1. CleanList(first)
  BY CleanEmit, CleanSingle
<1>2. CleanList(second)
  <2>1. CASE it.of = "hp_loss" /\ "RUPTURE" \in DOMAIN player.powers
    <3>1. player.powers["RUPTURE"] \in Int
      BY <2>1 DEF IInv, State, PlayerOk, Integers
    <3>2. CleanList(<<Power("STRENGTH", player.powers["RUPTURE"])>>)
      BY <3>1, CleanWords, CleanSingle
    <3>. QED
      BY <2>1, <3>2
  <2>. QED
    BY <2>1, CleanNone
<1>3. Felt = first \o second
  BY DEF Felt
<1>. HIDE DEF first, second
<1>. QED
  BY <1>1, <1>2, <1>3, CleanConcat

LEMMA DamageStoppedStep ==
    ASSUME IInv, damage_stopped
    PROVE  IInv'
<1>1. todo # <<>> /\ it.op \notin MapOps \cup HeadOps
  BY DEF damage_stopped, Doing, it, MapOps, HeadOps
<1>2. \E c : CleanList(c) /\ Call(c)
  BY CleanNone DEF damage_stopped
<1>3. Alike(player, player')
  BY DEF damage_stopped, Alike, IInv, State, PlayerOk, PlayerFields
<1>. QED
  BY <1>1, <1>2, <1>3, AlikeStep DEF damage_stopped

LEMMA DamageLethalStep ==
    ASSUME IInv, damage_lethal
    PROVE  IInv'
<1>1. todo # <<>> /\ it.op \notin MapOps \cup HeadOps
  BY DEF damage_lethal, Doing, it, MapOps, HeadOps
<1>2. \A n, of : CleanList(<<Emit("DEATH_WOULD_OCCUR", ""), GoWith("fall", n, of)>>)
  BY CleanEmit, CleanCalls, CleanTuples
<1>3. \E c : CleanList(c) /\ Call(c)
  BY <1>2 DEF damage_lethal
<1>4. Alike(player, player')
  BY DEF damage_lethal, Alike, IInv, State, PlayerOk, PlayerFields
<1>. QED
  BY <1>1, <1>3, <1>4, AlikeStep DEF damage_lethal

LEMMA DamageTakenStep ==
    ASSUME IInv, damage_taken
    PROVE  IInv'
<1>1. todo # <<>> /\ it.op \notin MapOps \cup HeadOps
  BY DEF damage_taken, Doing, it, MapOps, HeadOps
<1>2. \E c : CleanList(c) /\ Call(c)
  BY FeltClean DEF damage_taken
<1>3. Alike(player, player')
  BY DEF damage_taken, Alike, IInv, State, PlayerOk, PlayerFields
<1>. QED
  BY <1>1, <1>2, <1>3, AlikeStep DEF damage_taken

LEMMA FallStep ==
    ASSUME IInv, fall
    PROVE  IInv'
<1>1. todo # <<>> /\ it.op \notin MapOps \cup HeadOps
  BY DEF fall, Doing, it, MapOps, HeadOps
<1>2. \E c : CleanList(c) /\ Call(c)
  BY FeltClean, CleanNone DEF fall
<1>3. Alike(player, player')
  BY DEF fall, Alike, IInv, State, PlayerOk, PlayerFields
<1>. QED
  BY <1>1, <1>2, <1>3, AlikeStep DEF fall

LEMMA RestActionStep ==
    ASSUME IInv, rest_action
    PROVE  IInv'
<1>1. todo # <<>> /\ it.op \notin MapOps \cup HeadOps
  BY DEF rest_action, Doing, it, MapOps, HeadOps
<1>2. \E c : CleanList(c) /\ Call(c)
  <2>1. CleanList(<<Go("card_reward")>>)
    BY CleanCalls, CleanSingle
  <2>. QED
    BY <2>1, CleanNone DEF rest_action
<1>3. PlayerOk(player, DOMAIN things)
  BY DEF IInv, State
<1>4. \E done : /\ PlayerOk(done, DOMAIN things) /\ done.perTurn = player.perTurn
                /\ \E offer : player' = [done EXCEPT !.offer = offer]
  <2>1. \A m : /\ PlayerOk(HealedTo(player, m), DOMAIN things)
               /\ HealedTo(player, m).perTurn = player.perTurn
    BY <1>3, HealedAlike, AlikeOk
  <2>2. PlayerOk(Removed(player, "Curse"), DOMAIN things) /\ Removed(player, "Curse").perTurn = player.perTurn
    BY <1>3 DEF PlayerOk, PlayerFields, Removed, CardKinds
  <2>3. \E done : /\ \/ done = player \/ done = Removed(player, "Curse") \/ \E m : done = HealedTo(player, m)
                  /\ \E offer : player' = [done EXCEPT !.offer = offer]
    BY DEF rest_action
  <2>. QED
    BY <1>3, <2>1, <2>2, <2>3
<1>5. PICK done : /\ PlayerOk(done, DOMAIN things) /\ done.perTurn = player.perTurn
                  /\ \E offer : player' = [done EXCEPT !.offer = offer]
  BY <1>4
<1>6. PlayerOk(player', DOMAIN things) /\ player'.perTurn = player.perTurn
  BY <1>5 DEF PlayerOk, PlayerFields
<1>. QED
  BY <1>1, <1>2, <1>6, PlayerStep DEF rest_action

LEMMA ShopStep ==
    ASSUME IInv, shop
    PROVE  IInv'
<1>1. todo # <<>> /\ it.op \notin MapOps \cup HeadOps
  BY DEF shop, Doing, it, MapOps, HeadOps
<1>2. \E c : CleanList(c) /\ Call(c)
  BY CleanNone DEF shop
<1>3. PlayerOk(player, DOMAIN things)
  BY DEF IInv, State
<1>. DEFINE worst == CASE "Curse" \in InDeck -> "Curse"
                       [] "Curse" \notin InDeck /\ "Strike" \in InDeck -> "Strike"
                       [] OTHER -> "Defend"
            fed == IF Has("meal_ticket") THEN HealedTo(player, player.hp + 15) ELSE player
<1>4. PlayerOk(fed, DOMAIN things) /\ fed.perTurn = player.perTurn
  <2>1. \A m : /\ PlayerOk(HealedTo(player, m), DOMAIN things)
               /\ HealedTo(player, m).perTurn = player.perTurn
    BY <1>3, HealedAlike, AlikeOk
  <2>. QED
    BY <1>3, <2>1
<1>5. worst \in CardKinds
  BY DEF CardKinds
<1>6. \/ player' = fed
      \/ \E cost, s : player' = [Removed(fed, worst) EXCEPT !.gold = @ - cost, !.flags = @ \ {"maw_bank"},
                                                            !.shopped = s]
  <2>. DEFINE cost == IF Has("smiling_mask") THEN 50 ELSE 75
              Paid == [Removed(fed, worst) EXCEPT !.gold = @ - cost, !.flags = @ \ {"maw_bank"},
                                                  !.shopped = Owns("MawBank")]
  <2>1. player' = IF worst \in InDeck /\ fed.gold >= cost THEN Paid ELSE fed
    BY DEF shop
  <2>. HIDE DEF worst, fed, cost
  <2>2. player' = Paid \/ player' = fed
    BY <2>1
  <2>. QED
    BY <2>2
<1>. HIDE DEF worst, fed
<1>7. PlayerOk(Removed(fed, worst), DOMAIN things) /\ Removed(fed, worst).perTurn = player.perTurn
  BY <1>4, <1>5 DEF PlayerOk, PlayerFields, Removed
<1>8. PlayerOk(player', DOMAIN things) /\ player'.perTurn = player.perTurn
  BY <1>4, <1>6, <1>7 DEF PlayerOk, PlayerFields
<1>. QED
  BY <1>1, <1>2, <1>8, PlayerStep DEF shop

LEMMA SpendXStep ==
    ASSUME IInv, spend_x
    PROVE  IInv'
<1>1. todo # <<>> /\ it.op = "spend_x" /\ it.op \notin MapOps \cup HeadOps
  BY DEF spend_x, Doing, it, MapOps, HeadOps
<1>2. PlayerOk(player, DOMAIN things)
  BY DEF IInv, State
<1>3. CleanList(it.then) /\ it.n \in Int
  BY <1>1, ThenClean, AtHead DEF OwnOps, Proper, Amounts
<1>. DEFINE n == Smaller(it.n, player.energy + IF Has("chemical_x") THEN 2 ELSE 0)
<1>4. n \in Int
  BY <1>2, <1>3 DEF Smaller, PlayerOk
<1>5. Call(Times(n, it.then))
  BY DEF spend_x
<1>. HIDE DEF n
<1>6. \E c : CleanList(c) /\ Call(c)
  BY <1>3, <1>4, <1>5, CleanTimes
<1>7. PlayerOk(player', DOMAIN things) /\ player'.perTurn = player.perTurn
  BY <1>2 DEF PlayerOk, PlayerFields, spend_x
<1>. QED
  BY <1>1, <1>6, <1>7, PlayerStep DEF spend_x

LEMMA OpeningHandStep ==
    ASSUME IInv, opening_hand
    PROVE  IInv'
<1>1. todo # <<>> /\ it.op \notin MapOps \cup HeadOps
  BY DEF opening_hand, Doing, it, MapOps, HeadOps
<1>2. PlayerOk(player, DOMAIN things)
  BY DEF IInv, State
<1>. DEFINE second == IF "NEXT_TURN_DRAW" \in DOMAIN player.powers
                      THEN <<Draw(player.powers["NEXT_TURN_DRAW"])>> ELSE <<>>
            draws == IF "NO_DRAW" \in DOMAIN player.powers THEN <<>> ELSE <<Draw(5)>> \o second
            tagged == <<Tag("discarded"), Discard>>
            last(basics) == IF basics > 0 THEN <<Draw(basics)>> ELSE <<>>
<1>3. CleanList(draws)
  <2>1. \A m : CleanList(<<Draw(m)>>)
    BY CleanWords, CleanSingle
  <2>2. CleanList(second)
    BY <2>1, CleanNone
  <2>. HIDE DEF second
  <2>3. CleanList(<<Draw(5)>> \o second)
    BY <2>1, <2>2, CleanConcat
  <2>. QED
    BY <2>3, CleanNone
<1>4. CleanList(tagged)
  BY CleanWords, CleanEmit, CleanTuples DEF Discard
<1>5. \A basics : CleanList(last(basics))
  BY CleanWords, CleanSingle, CleanNone
<1>6. \E basics \in IF combat.turn = 1 /\ Has("gambling_chip") THEN 0 .. 2 ELSE {0} :
         Call(draws \o Times(basics, tagged) \o last(basics))
  BY DEF opening_hand
<1>. HIDE DEF draws, tagged, last
<1>7. \E c : CleanList(c) /\ Call(c)
  <2>1. PICK basics \in IF combat.turn = 1 /\ Has("gambling_chip") THEN 0 .. 2 ELSE {0} :
           Call(draws \o Times(basics, tagged) \o last(basics))
    BY <1>6
  <2>2. CleanList(Times(basics, tagged))
    <3>1. basics \in Int
      OBVIOUS
    <3>. QED
      BY <1>4, <3>1, CleanTimes
  <2>3. CleanList(draws \o Times(basics, tagged))
    BY <1>3, <2>2, CleanConcat
  <2>4. CleanList(draws \o Times(basics, tagged) \o last(basics))
    BY <1>5, <2>3, CleanConcat
  <2>. QED
    BY <2>1, <2>4
<1>8. PlayerOk(player', DOMAIN things) /\ player'.perTurn = player.perTurn
  <2>1. \A S : Integers(Without(player.powers, S))
    BY <1>2, PowersStay DEF PlayerOk
  <2>2. Integers(Without(player.powers, {"NEXT_TURN_DRAW", "NO_DRAW"}))
    BY <2>1
  <2>. QED
    BY <1>2, <2>2 DEF PlayerOk, PlayerFields, opening_hand
<1>. QED
  BY <1>1, <1>7, <1>8, PlayerStep DEF opening_hand

LEMMA PayStep ==
    ASSUME IInv, pay
    PROVE  IInv'
<1>1. todo # <<>> /\ it.op = "pay" /\ it.op \notin MapOps \cup HeadOps
  BY DEF pay, Doing, it, MapOps, HeadOps
<1>2. CleanList(Guarded)
  BY <1>1, ThenClean, GuardedClean DEF OwnOps
<1>3. \E c : CleanList(c) /\ Call(c)
  BY <1>2, CleanNone DEF pay
<1>4. Alike(player, player')
  BY DEF pay, Alike, IInv, State, PlayerOk, PlayerFields
<1>. QED
  BY <1>1, <1>3, <1>4, AlikeStep DEF pay

LEMMA PlayCardStep ==
    ASSUME IInv, play_card
    PROVE  IInv'
<1>1. todo # <<>> /\ it.op \notin MapOps \cup HeadOps
  BY DEF play_card, Doing, it, MapOps, HeadOps
<1>2. PlayerOk(player, DOMAIN things) /\ scen.cards \subseteq DOMAIN Book
  BY Offered DEF IInv, State
<1>. DEFINE card(name) == Book[name]
            typed(name) == IF card(name).type \in {"ATTACK", "SKILL"}
                           THEN <<Emit(card(name).type \o "_PLAY", "")>> ELSE <<>>
            end(name) == <<GoWith("resolve", 0, name), Go("deaths"), Go("judge")>>
            calls(name) == <<Emit("CARD_PLAY", card(name).type)>> \o typed(name) \o end(name)
<1>3. \E name \in scen.cards :
         /\ \E cost \in Costs(card(name)) : player' = [player EXCEPT !.energy = @ - cost]
         /\ Call(calls(name))
  BY DEF play_card
<1>4. PICK name \in scen.cards :
         /\ \E cost \in Costs(card(name)) : player' = [player EXCEPT !.energy = @ - cost]
         /\ Call(calls(name))
  BY <1>3
<1>5. \E cost \in Int : player' = [player EXCEPT !.energy = @ - cost]
  <2>1. card(name).cost \in Int
    BY <1>2, <1>4, CleanTables
  <2>2. \A cost \in Costs(card(name)) : cost \in Int
    BY <2>1 DEF Costs
  <2>. QED
    BY <1>4, <2>2
<1>6. PlayerOk(player', DOMAIN things) /\ player'.perTurn = player.perTurn
  BY <1>2, <1>5 DEF PlayerOk, PlayerFields
<1>7. AllowedList(calls(name), things)
  <2>1. AllowedList(<<Emit("CARD_PLAY", card(name).type)>>, things)
    BY CleanEmit, CleanSingle, CleanAllowed
  <2>2. AllowedList(typed(name), things)
    BY CleanEmit, CleanSingle, CleanNone, CleanAllowed
  <2>3. AllowedList(end(name), things)
    <3>. DEFINE S == {GoWith("resolve", 0, name), Go("deaths"), Go("judge")}
    <3>1. Allowed(Go("judge"), things)
      BY DEF Allowed, Go, Do, Fields
    <3>2. Clean(GoWith("resolve", 0, name)) /\ Clean(Go("deaths"))
      BY <1>2, CleanResolve, CleanCalls
    <3>3. Allowed(GoWith("resolve", 0, name), things) /\ Allowed(Go("deaths"), things)
      BY <3>2 DEF Allowed
    <3>4. \A x \in S : Allowed(x, things)
      BY <3>1, <3>3
    <3>5. end(name) \in Seq(S)
      OBVIOUS
    <3>. HIDE DEF S
    <3>. QED
      BY <3>4, <3>5, AllowedOf
  <2>. HIDE DEF card, typed, end
  <2>4. AllowedList(<<Emit("CARD_PLAY", card(name).type)>> \o typed(name), things)
    BY <2>1, <2>2, AllowedConcat
  <2>. QED
    BY <2>3, <2>4, AllowedConcat
<1>8. Call(calls(name)) /\ UNCHANGED <<scen, things, bus, combat, run, tally>>
  BY <1>4 DEF play_card
<1>9. State'
  BY <1>6, <1>8, PlayerState
<1>. HIDE DEF calls
<1>. QED
  BY <1>1, <1>6, <1>7, <1>8, <1>9, PlainStep

-----------------------------------------------------------------------------
(* Steps that change the combat or the walk *)

LEMMA WalkStep ==
    ASSUME IInv, todo # <<>>, it.op \notin MapOps \cup HeadOps, \E c : AllowedList(c, things) /\ Call(c),
           UNCHANGED <<scen, things, bus, tally>>,
           PlayerOk(player', DOMAIN things), player'.perTurn = player.perTurn,
           CombatOk(combat'), DOMAIN run' = RunFields
    PROVE  IInv'
<1>1. State'
  BY DEF IInv, State
<1>. QED
  BY <1>1, PlainStep

LEMMA Typed ==
    ASSUME IInv
    PROVE  PlayerOk(player, DOMAIN things) /\ CombatOk(combat) /\ DOMAIN run = RunFields
BY DEF IInv, State

LEMMA NoCombatOk == CombatOk(NoCombat)
BY DEF CombatOk, NoCombat, CombatFields

LEMMA DebuffStep ==
    ASSUME IInv, debuff
    PROVE  IInv'
<1>1. todo # <<>> /\ it.op = "debuff" /\ it.op \notin MapOps \cup HeadOps
  BY DEF debuff, Doing, it, MapOps, HeadOps
<1>2. \E c : AllowedList(c, things) /\ Call(c)
  BY AllowedNone DEF debuff
<1>3. it.n \in Int
  BY <1>1, AtHead DEF OwnOps, Proper, Amounts
<1>4. PlayerOk(player', DOMAIN things) /\ player'.perTurn = player.perTurn
  <2>1. player' \in {player, Powered(player, "ARTIFACT", -1), Powered(player, it.of, it.n)}
    BY DEF debuff
  <2>2. -1 \in Int
    OBVIOUS
  <2>. QED
    BY <1>3, <2>1, <2>2, Typed, PoweredOk
<1>5. CombatOk(combat')
  <2>1. combat' = combat \/ \E x : combat' = [combat EXCEPT !.fresh = x]
    BY DEF debuff
  <2>. QED
    BY <2>1, Typed DEF CombatOk, CombatFields
<1>. QED
  BY <1>1, <1>2, <1>4, <1>5, Typed, WalkStep DEF debuff

LEMMA FelledOk ==
    ASSUME IInv, NEW k \in Int
    PROVE  CombatOk(Felled(k))
BY Typed DEF CombatOk, CombatFields, Felled

LEMMA AttackStep ==
    ASSUME IInv, attack
    PROVE  IInv'
<1>1. todo # <<>> /\ it.op \in {"attack_one", "attack_all"} /\ it.op \notin MapOps \cup HeadOps
  BY DEF attack, MapOps, HeadOps
<1>. DEFINE top == IF it.op = "attack_one" THEN Smaller(1, combat.foes) ELSE combat.foes
            thorns == IF scen.thorns > 0 /\ combat.foes > 0 THEN <<Damaged(scen.thorns)>> ELSE <<>>
            felled(k) == IF k > 0 THEN it.then ELSE <<>>
<1>2. PICK k \in 0 .. top :
         /\ combat' = [Felled(k) EXCEPT !.tags = IF "ENVENOM" \in DOMAIN player.powers THEN @ \cup {"poison"} ELSE @]
         /\ Call(thorns \o felled(k))
  BY DEF attack
<1>3. k \in Int
  BY <1>2
<1>4. CombatOk(combat')
  <2>1. CombatOk(Felled(k))
    BY <1>3, FelledOk
  <2>. QED
    BY <1>2, <2>1 DEF CombatOk, CombatFields
<1>5. CleanList(thorns) /\ CleanList(felled(k))
  <2>1. CleanList(it.then)
    BY <1>1, ThenClean DEF OwnOps
  <2>2. CleanList(<<Damaged(scen.thorns)>>)
    BY CleanWords, CleanSingle
  <2>. QED
    BY <2>1, <2>2, CleanNone
<1>6. \E c : AllowedList(c, things) /\ Call(c)
  <2>. HIDE DEF thorns, felled
  <2>1. AllowedList(thorns \o felled(k), things)
    BY <1>5, CleanConcat, CleanAllowed
  <2>. QED
    BY <1>2, <2>1
<1>7. PlayerOk(player', DOMAIN things) /\ player'.perTurn = player.perTurn
  <2>1. Integers(Without(player.powers, {"VIGOR"}))
    BY Typed, PowersStay DEF PlayerOk
  <2>2. player' = player \/ \E f : player' = [player EXCEPT !.flags = f, !.powers = Without(player.powers, {"VIGOR"})]
    BY DEF attack
  <2>. QED
    BY <2>1, <2>2, Typed DEF PlayerOk, PlayerFields
<1>. QED
  BY <1>1, <1>4, <1>6, <1>7, Typed, WalkStep DEF attack

LEMMA HitStep ==
    ASSUME IInv, hit
    PROVE  IInv'
<1>1. todo # <<>> /\ it.op \notin MapOps \cup HeadOps
  BY DEF hit, MapOps, HeadOps
<1>2. \E c : AllowedList(c, things) /\ Call(c)
  BY AllowedNone DEF hit
<1>3. CombatOk(combat')
  <2>1. \E k \in Int : combat' = Felled(k)
    BY DEF hit
  <2>. QED
    BY <2>1, FelledOk
<1>. QED
  BY <1>1, <1>2, <1>3, Typed, WalkStep DEF hit

LEMMA TagStep ==
    ASSUME IInv, tag
    PROVE  IInv'
<1>1. todo # <<>> /\ it.op \notin MapOps \cup HeadOps
  BY DEF tag, Doing, it, MapOps, HeadOps
<1>2. \E c : AllowedList(c, things) /\ Call(c)
  BY AllowedNone DEF tag
<1>3. CombatOk(combat')
  BY Typed DEF tag, CombatOk, CombatFields
<1>. QED
  BY <1>1, <1>2, <1>3, Typed, WalkStep DEF tag

LEMMA DiscardStep ==
    ASSUME IInv, discard_from_hand
    PROVE  IInv'
<1>1. todo # <<>> /\ it.op \notin MapOps \cup HeadOps
  BY DEF discard_from_hand, Doing, it, MapOps, HeadOps
<1>2. CleanList(<<Discard>>) /\ \A x \in DOMAIN OnDiscard : CleanList(OnDiscard[x] \o <<Discard>>)
  <2>1. CleanList(<<Discard>>)
    BY CleanWords, CleanSingle
  <2>. QED
    BY <2>1, CleanTables, CleanConcat
<1>3. \E c : AllowedList(c, things) /\ Call(c)
  <2>1. \E c : CleanList(c) /\ Call(c)
    BY <1>2, CleanNone DEF discard_from_hand
  <2>. QED
    BY <2>1, CleanAllowed
<1>4. CombatOk(combat')
  BY Typed DEF discard_from_hand, CombatOk, CombatFields
<1>. QED
  BY <1>1, <1>3, <1>4, Typed, WalkStep DEF discard_from_hand

LEMMA EnemyDeathsStep ==
    ASSUME IInv, check_enemy_deaths
    PROVE  IInv'
<1>1. todo # <<>> /\ it.op \notin MapOps \cup HeadOps
  BY DEF check_enemy_deaths, Doing, it, MapOps, HeadOps
<1>2. CombatOk(combat')
  <2>1. combat' = [combat EXCEPT !.fallen = 0]
    BY DEF check_enemy_deaths
  <2>. QED
    BY <2>1, Typed DEF CombatOk, CombatFields
<1>3. \E c : AllowedList(c, things) /\ Call(c)
  <2>. DEFINE x == Emit("ENEMY_DEATH", "")
              calls == [i \in 1 .. combat.fallen |-> x]
  <2>1. Allowed(x, things)
    BY CleanEmit DEF Allowed
  <2>. HIDE DEF x
  <2>2. calls \in Seq({x})
    <3>1. combat.fallen \in Int
      BY Typed DEF CombatOk
    <3>2. CASE combat.fallen \in Nat
      BY <3>2
    <3>3. CASE combat.fallen \notin Nat
      <4>1. 1 .. combat.fallen = 1 .. 0
        BY <3>1, <3>3
      <4>2. [i \in 1 .. 0 |-> x] \in Seq({x})
        OBVIOUS
      <4>. QED
        BY <4>1, <4>2
    <3>. QED
      BY <3>2, <3>3
  <2>3. Call(calls)
    BY DEF check_enemy_deaths, x
  <2>. HIDE DEF calls
  <2>4. \A y \in {x} : Allowed(y, things)
    BY <2>1
  <2>5. AllowedList(calls, things)
    BY <2>2, <2>4, AllowedOf
  <2>. QED
    BY <2>3, <2>5
<1>. QED
  BY <1>1, <1>2, <1>3, Typed, WalkStep DEF check_enemy_deaths

LEMMA BeginTurnStep ==
    ASSUME IInv, begin_player_turn
    PROVE  IInv'
<1>1. todo # <<>> /\ it.op \notin MapOps \cup HeadOps
  BY DEF begin_player_turn, Doing, it, MapOps, HeadOps
<1>2. CombatOk(combat')
  <2>1. \E n, b, s : combat' = [combat EXCEPT !.turn = n, !.plays = 0, !.base = b, !.tags = s]
    BY DEF begin_player_turn
  <2>. QED
    BY <2>1, Typed DEF CombatOk, CombatFields
<1>. DEFINE p == player.powers
            blurred == ~Has("barricade") /\ "BLUR" \in DOMAIN p
            now == Gain(Without(p, {"NEXT_TURN_BLOCK", "PHANTASMAL"}), "DOUBLE_DAMAGE", Amount(p, "PHANTASMAL"))
            powers == IF blurred THEN Gain(now, "BLUR", -1) ELSE now
            energy == (IF Has("ice_cream") THEN player.energy ELSE 0) + player.perTurn
            first == IF "NEXT_TURN_BLOCK" \in DOMAIN p THEN <<GainBlock(p["NEXT_TURN_BLOCK"])>> ELSE <<>>
            second == <<Emit("TURN_START", ""), Go("opening_hand")>>
<1>3. Integers(powers) /\ energy \in Int
  <2>1. Integers(p) /\ energy \in Int
    BY Typed DEF PlayerOk
  <2>2. Integers(Without(p, {"NEXT_TURN_BLOCK", "PHANTASMAL"})) /\ Amount(p, "PHANTASMAL") \in Int
    BY <2>1, PowersStay
  <2>3. Integers(now)
    BY <2>2, PowersStay
  <2>. HIDE DEF now
  <2>4. -1 \in Int
    OBVIOUS
  <2>5. Integers(Gain(now, "BLUR", -1))
    BY <2>3, <2>4, PowersStay
  <2>. QED
    BY <2>1, <2>3, <2>5
<1>4. \E kept : player' = [player EXCEPT !.block = kept, !.powers = powers, !.energy = energy]
  BY DEF begin_player_turn
<1>5. Call(first \o second)
  BY DEF begin_player_turn
<1>6. CleanList(first) /\ CleanList(second)
  BY CleanWords, CleanCalls, CleanEmit, CleanSingle, CleanNone, CleanTuples
<1>. HIDE DEF powers, energy, first, second
<1>7. \E c : AllowedList(c, things) /\ Call(c)
  BY <1>5, <1>6, CleanConcat, CleanAllowed
<1>8. PlayerOk(player', DOMAIN things) /\ player'.perTurn = player.perTurn
  BY <1>3, <1>4, Typed DEF PlayerOk, PlayerFields
<1>. QED
  BY <1>1, <1>2, <1>7, <1>8, Typed, WalkStep DEF begin_player_turn

LEMMA VerdictCalls ==
    ASSUME NEW won, NEW ends, Verdict(won, ends), DOMAIN run = RunFields
    PROVE  (\E c : AllowedList(c, things) /\ Call(c)) /\ DOMAIN run' = RunFields
<1>1. CleanList(<<Emit("COMBAT_END", ""), Go("close_combat")>>)
  BY CleanEmit, CleanCalls, CleanTuples
<1>. QED
  BY <1>1, CleanNone, CleanAllowed DEF Verdict

LEMMA CombatOverStep ==
    ASSUME IInv, combat_over
    PROVE  IInv'
<1>1. todo # <<>> /\ it.op \notin MapOps \cup HeadOps
  BY DEF combat_over, Doing, it, MapOps, HeadOps
<1>2. Verdict(Outcome = "win", Outcome = "win")
  BY DEF combat_over
<1>3. (\E c : AllowedList(c, things) /\ Call(c)) /\ DOMAIN run' = RunFields
  BY <1>2, Typed, VerdictCalls
<1>. QED
  BY <1>1, <1>3, Typed, WalkStep DEF combat_over

LEMMA NextTurnStep ==
    ASSUME IInv, next_turn
    PROVE  IInv'
<1>1. todo # <<>> /\ it.op \notin MapOps \cup HeadOps
  BY DEF next_turn, Doing, it, MapOps, HeadOps
<1>2. CombatOk(combat')
  BY Typed DEF next_turn, CombatOk, CombatFields
<1>3. AllowedList(<<Go("turn"), Go("loop")>>, things)
  <2>1. Allowed(Go("turn"), things)
    BY DEF Allowed, Go, Do, Fields
  <2>2. Allowed(Go("loop"), things)
    BY CleanCalls DEF Allowed
  <2>3. <<Go("turn"), Go("loop")>> \in Seq({Go("turn"), Go("loop")})
    OBVIOUS
  <2>. QED
    BY <2>1, <2>2, <2>3, AllowedOf
<1>4. \E c : AllowedList(c, things) /\ Call(c)
  BY <1>3 DEF next_turn
<1>. QED
  BY <1>1, <1>2, <1>4, Typed, WalkStep DEF next_turn

LEMMA CombatDrawnStep ==
    ASSUME IInv, combat_drawn
    PROVE  IInv'
<1>1. todo # <<>> /\ it.op \notin MapOps \cup HeadOps
  BY DEF combat_drawn, Doing, it, MapOps, HeadOps
<1>2. Verdict(FALSE, scen.driver = "llm")
  BY DEF combat_drawn
<1>3. (\E c : AllowedList(c, things) /\ Call(c)) /\ DOMAIN run' = RunFields
  BY <1>2, Typed, VerdictCalls
<1>4. CombatOk(combat')
  BY Typed, NoCombatOk DEF combat_drawn
<1>. QED
  BY <1>1, <1>3, <1>4, Typed, WalkStep DEF combat_drawn

LEMMA ResolveStep ==
    ASSUME IInv, resolve
    PROVE  IInv'
<1>1. todo # <<>> /\ it.op = "resolve" /\ it.op \notin MapOps \cup HeadOps
  BY DEF resolve, Doing, it, MapOps, HeadOps
<1>2. it.of \in DOMAIN Book
  BY <1>1, AtHead DEF OwnOps, Proper
<1>. DEFINE does == Book[it.of].does
            last == <<Exhausted(it.of)>>
<1>3. CleanList(does) /\ CleanList(last)
  BY <1>2, CleanTables, CleanEmit, CleanSingle DEF Exhausted
<1>4. \E n \in {1, 2} : Call(Times(n, does) \o last) \/ Call(Times(n, does) \o <<>>)
  BY DEF resolve
<1>5. \E copier : player' \in {player, Powered(player, copier, -1)}
  BY DEF resolve
<1>6. CombatOk(combat')
  <2>1. combat' = [combat EXCEPT !.plays = @ + 1]
    BY DEF resolve
  <2>. QED
    BY <2>1, Typed DEF CombatOk, CombatFields
<1>. HIDE DEF does, last
<1>7. \E c : AllowedList(c, things) /\ Call(c)
  <2>1. PICK n \in {1, 2} : Call(Times(n, does) \o last) \/ Call(Times(n, does) \o <<>>)
    BY <1>4
  <2>2. n \in Int
    OBVIOUS
  <2>3. CleanList(Times(n, does))
    BY <1>3, <2>2, CleanTimes
  <2>4. CleanList(Times(n, does) \o last) /\ CleanList(Times(n, does) \o <<>>)
    BY <1>3, <2>3, CleanConcat, CleanNone
  <2>. QED
    BY <2>1, <2>4, CleanAllowed
<1>8. PlayerOk(player', DOMAIN things) /\ player'.perTurn = player.perTurn
  <2>1. -1 \in Int
    OBVIOUS
  <2>. QED
    BY <1>5, <2>1, Typed, PoweredOk
<1>. QED
  BY <1>1, <1>6, <1>7, <1>8, Typed, WalkStep DEF resolve

LEMMA EndTurnStep ==
    ASSUME IInv, end_player_turn
    PROVE  IInv'
<1>1. todo # <<>> /\ it.op \notin MapOps \cup HeadOps
  BY DEF end_player_turn, Doing, it, MapOps, HeadOps
<1>2. CleanList(<<Emit("TURN_END", ""), Go("discard_hand")>>)
  BY CleanEmit, CleanCalls, CleanTuples
<1>3. \E c : AllowedList(c, things) /\ Call(c)
  BY <1>2, CleanAllowed DEF end_player_turn
<1>4. CombatOk(combat')
  BY Typed DEF end_player_turn, CombatOk, CombatFields
<1>. QED
  BY <1>1, <1>3, <1>4, Typed, WalkStep DEF end_player_turn

LEMMA EtherealFinite == IsFiniteSet(Ethereal)
<1>1. \A S, x : IsFiniteSet(S) => IsFiniteSet(S \cup {x})
  BY FS_AddElement
<1>2. IsFiniteSet({} \cup {"Dazed"} \cup {"VoidCard"} \cup {"Apparition"} \cup {"Clumsy"}
                   \cup {"AscendersBane"} \cup {"Carnage"} \cup {"GhostlyArmor"})
  BY <1>1, FS_EmptySet
<1>3. Ethereal = {} \cup {"Dazed"} \cup {"VoidCard"} \cup {"Apparition"} \cup {"Clumsy"}
                   \cup {"AscendersBane"} \cup {"Carnage"} \cup {"GhostlyArmor"}
  BY DEF Ethereal
<1>. QED
  BY <1>2, <1>3

LEMMA DiscardHandStep ==
    ASSUME IInv, discard_hand
    PROVE  IInv'
<1>1. todo # <<>> /\ it.op \notin MapOps \cup HeadOps
  BY DEF discard_hand, Doing, it, MapOps, HeadOps
<1>. DEFINE one == <<Exhaust>>
            last == <<GoWith("enemy_phase", combat.foes, "")>>
<1>2. PICK left \in SUBSET ((scen.cards \cup scen.burdens) \cap Ethereal) :
         Call(Times(Cardinality(left), one) \o last)
  BY DEF discard_hand
<1>3. Cardinality(left) \in Int
  <2>1. left \subseteq Ethereal
    BY <1>2
  <2>. QED
    BY <2>1, EtherealFinite, FS_Subset, FS_CardinalityType
<1>4. CleanList(one) /\ CleanList(last)
  BY CleanWords, CleanCalls, CleanSingle
<1>5. CombatOk(combat')
  <2>1. \E s : combat' = [combat EXCEPT !.tags = s]
    BY DEF discard_hand
  <2>. QED
    BY <2>1, Typed DEF CombatOk, CombatFields
<1>. HIDE DEF one, last
<1>6. \E c : AllowedList(c, things) /\ Call(c)
  BY <1>2, <1>3, <1>4, CleanTimes, CleanConcat, CleanAllowed
<1>. QED
  BY <1>1, <1>5, <1>6, Typed, WalkStep DEF discard_hand

LEMMA RoundEndStep ==
    ASSUME IInv, round_end
    PROVE  IInv'
<1>1. todo # <<>> /\ it.op \notin MapOps \cup HeadOps
  BY DEF round_end, Doing, it, MapOps, HeadOps
<1>2. CleanList(<<Go("begin_turn")>>)
  BY CleanCalls, CleanSingle
<1>3. \E c : AllowedList(c, things) /\ Call(c)
  BY <1>2, CleanAllowed DEF round_end
<1>4. CombatOk(combat')
  <2>1. combat' = [combat EXCEPT !.ending = FALSE, !.fresh = {}]
    BY DEF round_end
  <2>. QED
    BY <2>1, Typed DEF CombatOk, CombatFields
<1>. DEFINE ticking == {"WEAK", "VULNERABLE", "FRAIL", "INTANGIBLE", "DOUBLE_DAMAGE", "ENTANGLED"} \ combat.fresh
            ticked == [p \in DOMAIN player.powers |-> player.powers[p] - IF p \in ticking THEN 1 ELSE 0]
            gone == {p \in ticking \cap DOMAIN ticked : ticked[p] <= 0}
<1>5. Integers(ticked)
  <2>. HIDE DEF ticking
  <2>. QED
    BY Typed DEF PlayerOk, Integers
<1>6. player' = [player EXCEPT !.powers = Without(ticked, gone)]
  BY DEF round_end
<1>. HIDE DEF ticked, gone
<1>7. Integers(Without(ticked, gone))
  BY <1>5, PowersStay
<1>8. PlayerOk(player', DOMAIN things) /\ player'.perTurn = player.perTurn
  BY <1>6, <1>7, Typed DEF PlayerOk, PlayerFields
<1>. QED
  BY <1>1, <1>3, <1>4, <1>8, Typed, WalkStep DEF round_end

LEMMA CloseCombatStep ==
    ASSUME IInv, close_combat
    PROVE  IInv'
<1>1. todo # <<>> /\ it.op \notin MapOps \cup HeadOps
  BY DEF close_combat, Doing, it, MapOps, HeadOps
<1>2. \E c : AllowedList(c, things) /\ Call(c)
  BY AllowedNone DEF close_combat
<1>3. CombatOk(combat')
  BY NoCombatOk DEF close_combat
<1>4. PlayerOk(player', DOMAIN things) /\ player'.perTurn = player.perTurn
  <2>1. \E S, f : player' = [player EXCEPT !.powers = Without(player.powers, S), !.block = 0, !.flags = f]
    BY DEF close_combat
  <2>2. \A S : Integers(Without(player.powers, S))
    BY Typed, PowersStay DEF PlayerOk
  <2>. QED
    BY <2>1, <2>2, Typed DEF PlayerOk, PlayerFields
<1>. QED
  BY <1>1, <1>2, <1>3, <1>4, Typed, WalkStep DEF close_combat

LEMMA MoveToStep ==
    ASSUME IInv, move_to
    PROVE  IInv'
<1>1. todo # <<>> /\ it.op \notin MapOps \cup HeadOps
  BY DEF move_to, Doing, it, MapOps, HeadOps
<1>2. \A kind : CleanList(RoomCalls(kind))
  BY CleanCalls, CleanTuples DEF RoomCalls
<1>3. CleanList(<<Go("leave")>>)
  BY CleanCalls, CleanSingle
<1>4. \E c : AllowedList(c, things) /\ Call(c)
  <2>1. CleanList(RoomCalls(RoomAt(run.floor + 1, it.n)) \o <<Go("leave")>>)
    BY <1>2, <1>3, CleanConcat
  <2>. QED
    BY <2>1, CleanAllowed DEF move_to
<1>5. DOMAIN run' = RunFields
  <2>1. \E f, c : run' = [run EXCEPT !.floor = f, !.col = c, !.won = TRUE]
    BY DEF move_to
  <2>. QED
    BY <2>1, Typed
<1>6. PlayerOk(player', DOMAIN things) /\ player'.perTurn = player.perTurn
  <2>1. \E f, g : player' = [player EXCEPT !.floor = f, !.gold = g]
    BY DEF move_to
  <2>. QED
    BY <2>1, Typed DEF PlayerOk, PlayerFields
<1>. QED
  BY <1>1, <1>4, <1>5, <1>6, Typed, WalkStep DEF move_to

LEMMA NextRoomStep ==
    ASSUME IInv, next_room
    PROVE  IInv'
<1>1. todo # <<>> /\ it.op \notin MapOps \cup HeadOps
  BY DEF next_room, Doing, it, MapOps, HeadOps
<1>2. \A n : CleanList(<<GoWith("enter", n, "")>>)
  BY CleanCalls, CleanSingle
<1>3. \E c : AllowedList(c, things) /\ Call(c)
  <2>1. \E n : Call(<<GoWith("enter", n, "")>>)
    BY DEF next_room
  <2>. QED
    BY <1>2, <2>1, CleanAllowed
<1>4. DOMAIN run' = RunFields
  <2>1. run' = run \/ \E f : run' = [run EXCEPT !.floor = f]
    BY DEF next_room
  <2>. QED
    BY <2>1, Typed
<1>. QED
  BY <1>1, <1>3, <1>4, Typed, WalkStep DEF next_room

\* The end of a run: nothing is left to execute.
LEMMA HaltStep ==
    ASSUME IInv, todo # <<>>, it.op \notin MapOps, todo' = <<>>, State', SaveOnce',
           player'.perTurn = player.perTurn + Due, Energetic(things') = Energetic(things)
    PROVE  IInv'
<1>1. Ordinary'
  BY DEF Ordinary
<1>2. Due' = 0
  BY DEF Due, Doing
<1>3. EnergyPaid'
  <2>1. player.perTurn + Due = 3 + Cardinality(Energetic(things))
    BY DEF IInv, EnergyPaid
  <2>2. player'.perTurn + 0 = player'.perTurn
    BY DEF State, PlayerOk
  <2>. QED
    BY <1>2, <2>1, <2>2 DEF EnergyPaid
<1>. QED
  BY <1>1, <1>3 DEF IInv

LEMMA RunLostStep ==
    ASSUME IInv, run_lost
    PROVE  IInv'
<1>1. todo # <<>> /\ it.op \notin MapOps \cup HeadOps /\ it.op = "leave"
  BY DEF run_lost, Doing, it, MapOps, HeadOps
<1>2. DOMAIN run' = RunFields
  <2>1. run' = [run EXCEPT !.status = "lost"]
    BY DEF run_lost
  <2>. QED
    BY <2>1, Typed
<1>3. State' /\ SaveOnce'
  BY <1>2 DEF run_lost, IInv, State, SaveOnce, PlayerOk, CombatOk, Integers
<1>4. player'.perTurn = player.perTurn + Due /\ Energetic(things') = Energetic(things)
  <2>1. Due = 0 /\ player.perTurn \in Int
    BY <1>1, Typed DEF Due, Doing, it, PlayerOk
  <2>. QED
    BY <2>1 DEF run_lost
<1>5. todo' = <<>>
  BY DEF run_lost
<1>. QED
  BY <1>1, <1>3, <1>4, <1>5, HaltStep

LEMMA ActEndStep ==
    ASSUME IInv, act_end
    PROVE  IInv'
<1>1. todo # <<>> /\ it.op \notin MapOps \cup HeadOps /\ it.op = "leave"
  BY DEF act_end, Doing, it, MapOps, HeadOps
<1>2. CASE run.act = Len(scen.acts)
  <2>1. DOMAIN run' = RunFields
    <3>1. run' = [run EXCEPT !.status = "survived"]
      BY <1>2 DEF act_end
    <3>. QED
      BY <3>1, Typed
  <2>2. State' /\ SaveOnce'
    BY <1>2, <2>1 DEF act_end, IInv, State, SaveOnce, PlayerOk, CombatOk, Integers
  <2>3. player'.perTurn = player.perTurn + Due /\ Energetic(things') = Energetic(things)
    <3>1. Due = 0 /\ player.perTurn \in Int
      BY <1>1, Typed DEF Due, Doing, it, PlayerOk
    <3>. QED
      BY <3>1 DEF act_end
  <2>4. todo' = <<>>
    BY <1>2 DEF act_end
  <2>. QED
    BY <1>1, <2>2, <2>3, <2>4, HaltStep
<1>3. CASE run.act # Len(scen.acts)
  <2>. DEFINE offers == {r \in BossRelics \cap scen.loot : relic_allowed(r, scen.character)} \ OwnedKinds
              gifts == IF offers = {} THEN {<<>>} ELSE {<<GoWith("obtain", 0, r)>> : r \in offers}
  <2>1. \E calls \in gifts : Call(<<FullHeal>> \o calls \o <<Go("act")>>)
    BY <1>3 DEF act_end
  <2>2. \A calls \in gifts : CleanList(calls)
    <3>1. \A r \in offers : r \in DOMAIN Catalogue
      BY Offered
    <3>2. \A r \in offers : CleanList(<<GoWith("obtain", 0, r)>>)
      BY <3>1, ObtainClean, CleanSingle
    <3>. HIDE DEF offers
    <3>. QED
      BY <3>2, CleanNone
  <2>. HIDE DEF gifts
  <2>3. CleanList(<<FullHeal>>) /\ CleanList(<<Go("act")>>)
    BY CleanWords, CleanCalls, CleanSingle
  <2>4. PICK calls \in gifts : Call(<<FullHeal>> \o calls \o <<Go("act")>>)
    BY <2>1
  <2>5. CleanList(<<FullHeal>> \o calls)
    BY <2>2, <2>3, CleanConcat
  <2>6. CleanList(<<FullHeal>> \o calls \o <<Go("act")>>)
    BY <2>3, <2>5, CleanConcat
  <2>7. \E c : AllowedList(c, things) /\ Call(c)
    BY <2>4, <2>6, CleanAllowed
  <2>8. DOMAIN run' = RunFields
    <3>1. run' = [run EXCEPT !.act = @ + 1]
      BY <1>3 DEF act_end
    <3>. QED
      BY <3>1, Typed
  <2>. QED
    BY <1>1, <2>7, <2>8, Typed, WalkStep DEF act_end
<1>. QED
  BY <1>2, <1>3

LEMMA AllowedWhole ==
    ASSUME NEW p, NEW ts, IsList(p), p # <<>>, Allowed(Head(p), ts), AllowedList(Tail(p), ts)
    PROVE  AllowedList(p, ts)
<1>1. PICK S : p \in Seq(S)
  BY DEF IsList
<1>2. PICK T : Tail(p) \in Seq(T) /\ \A x \in T : Allowed(x, ts)
  BY DEF AllowedList
<1>. DEFINE U == {Head(p)} \cup T
<1>3. Len(p) \in Nat \ {0} /\ DOMAIN p = 1 .. Len(p) /\ p = [i \in 1 .. Len(p) |-> p[i]]
  BY <1>1
<1>4. Len(Tail(p)) = Len(p) - 1 /\ \A i \in 1 .. Len(p) - 1 : Tail(p)[i] = p[i + 1]
  BY <1>1, <1>3
<1>5. \A i \in 1 .. Len(p) : p[i] \in U
  <2>. SUFFICES ASSUME NEW i \in 1 .. Len(p) PROVE p[i] \in U
    OBVIOUS
  <2>1. CASE i = 1
    BY <1>1, <2>1
  <2>2. CASE i # 1
    <3>1. i - 1 \in 1 .. Len(p) - 1 /\ (i - 1) + 1 = i
      BY <1>3, <2>2
    <3>2. Tail(p)[i - 1] = p[i]
      BY <1>4, <3>1
    <3>3. i - 1 \in 1 .. Len(Tail(p))
      BY <1>4, <3>1
    <3>4. Tail(p)[i - 1] \in T
      BY <1>2, <3>3, ElementOfSeq
    <3>. QED
      BY <3>2, <3>4
  <2>. QED
    BY <2>1, <2>2
<1>6. \A x \in U : Allowed(x, ts)
  BY <1>2
<1>. HIDE DEF U
<1>7. p \in Seq(U)
  BY <1>3, <1>5
<1>. QED
  BY <1>6, <1>7, AllowedOf

LEMMA JudgeNowStep ==
    ASSUME IInv, judge_now
    PROVE  IInv'
<1>1. todo # <<>> /\ it.op \notin MapOps \cup HeadOps /\ it.op = "judge"
  BY DEF judge_now, Doing, it, MapOps, HeadOps
<1>. DEFINE c == IF Outcome = "win" THEN <<Emit("COMBAT_END", ""), Go("close_combat")>> ELSE <<>>
            after == SubSeq(todo, 3, Len(todo))
<1>2. AllowedList(c, things)
  <2>1. CleanList(<<Emit("COMBAT_END", ""), Go("close_combat")>>)
    BY CleanEmit, CleanCalls, CleanTuples
  <2>. QED
    BY <2>1, CleanNone, CleanAllowed
<1>3. AllowedList(after, things)
  <2>1. Ordinary /\ Allowed(Head(todo), things) /\ AllowedList(Tail(todo), things) /\ Due = 0
    BY <1>1, AtHead DEF it
  <2>2. IsList(todo)
    BY <1>1, <2>1 DEF Ordinary
  <2>3. AllowedList(todo, things)
    BY <1>1, <2>1, <2>2, AllowedWhole
  <2>. QED
    BY <2>3, AllowedParts
<1>4. todo' = c \o after
  BY DEF judge_now
<1>. HIDE DEF c, after
<1>5. AllowedList(todo', things)
  BY <1>2, <1>3, <1>4, AllowedConcat
<1>6. todo' # <<>> => Allowed(Head(todo'), things) /\ AllowedList(Tail(todo'), things)
  BY <1>5, AllowedParts
<1>7. things' = things /\ player' = player
  BY DEF judge_now
<1>8. Ordinary'
  <2>1. IsList(todo')
    BY <1>5 DEF AllowedList, IsList
  <2>. QED
    BY <1>6, <1>7, <2>1 DEF Ordinary, it
<1>9. State' /\ SaveOnce'
  <2>1. run' = [run EXCEPT !.won = (Outcome = "win")]
    BY DEF judge_now
  <2>2. DOMAIN run' = RunFields
    BY <2>1, Typed
  <2>3. UNCHANGED <<scen, player, things, bus, combat, tally>>
    BY DEF judge_now
  <2>. QED
    BY <2>2, <2>3 DEF IInv, State, SaveOnce
<1>10. Due = 0 /\ Due' = 0
  <2>1. \A x : Clean(x) => x.op \notin Restricted
    BY CleanBranch DEF Proper
  <2>2. \A x : Allowed(x, things) => x.op # "per_turn"
    BY <2>1 DEF Allowed, Owned, Restricted
  <2>3. ~(Doing("per_turn"))'
    BY <1>6, <2>2 DEF Doing
  <2>4. ~Doing("per_turn")
    BY <1>1 DEF Doing, it
  <2>. QED
    BY <2>3, <2>4 DEF Due
<1>. QED
  BY <1>7, <1>8, <1>9, <1>10 DEF IInv, EnergyPaid

-----------------------------------------------------------------------------
(* Steps that change relics and potions *)

\* What a relic's own if_marked lets through.
LEMMA GuardedOwned ==
    ASSUME NEW ts, DOMAIN it = Fields, it.op = "if_marked", it.who \in DOMAIN ts, Owned(it, ts[it.who].kind)
    PROVE  AllowedList(Guarded, ts)
<1>. DEFINE p == it.then
            S == {Tagged(p[i], it.who, it.arg) : i \in 1 .. Len(p)}
<1>1. /\ p \in Seq(ToSet(p)) /\ ts[it.who].kind \notin Savers
      /\ \A y \in ToSet(p) : Clean(y) \/ (DOMAIN y = Fields /\ y.op = "unmark")
  BY DEF Owned
<1>2. /\ Len(p) \in Nat /\ DOMAIN p = 1 .. Len(p)
      /\ \A i \in 1 .. Len(p) : Clean(p[i]) \/ (DOMAIN p[i] = Fields /\ p[i].op = "unmark")
  BY <1>1, LenProperties, Elements
<1>3. \A y \in S : Allowed(y, ts)
  <2>1. \A x : Clean(x) => Clean(Tagged(x, it.who, it.arg))
    BY CleanTagged DEF Tagged
  <2>2. \A x : DOMAIN x = Fields /\ x.op = "unmark" =>
                  /\ DOMAIN Tagged(x, it.who, it.arg) = Fields
                  /\ Tagged(x, it.who, it.arg).op = "unmark" /\ Tagged(x, it.who, it.arg).who = it.who
    BY OwnedTagged
  <2>. SUFFICES ASSUME NEW i \in 1 .. Len(p) PROVE Allowed(Tagged(p[i], it.who, it.arg), ts)
    OBVIOUS
  <2>3. CASE Clean(p[i])
    BY <2>1, <2>3 DEF Allowed
  <2>4. CASE DOMAIN p[i] = Fields /\ p[i].op = "unmark"
    BY <1>1, <2>2, <2>4 DEF Allowed, Owned
  <2>. QED
    BY <1>2, <2>3, <2>4
<1>4. Guarded = [i \in 1 .. Len(p) |-> Tagged(p[i], it.who, it.arg)]
  BY <1>2 DEF Guarded, Tagged
<1>5. Guarded \in Seq(S)
  BY <1>2, <1>4
<1>. HIDE DEF S
<1>. QED
  BY <1>3, <1>5, AllowedOf

LEMMA TestStep ==
    ASSUME IInv, test
    PROVE  IInv'
<1>1. todo # <<>> /\ it.op \in {"if", "if_marked", "unless_marked"} /\ it.op \notin MapOps \cup HeadOps
  BY DEF test, MapOps, HeadOps
<1>2. AllowedList(Guarded, things)
  <2>1. CASE Clean(it)
    <3>1. Branches(it) = {it.then}
      BY <1>1 DEF Branches
    <3>2. CleanList(it.then)
      BY <2>1, <3>1, CleanBranch
    <3>. QED
      BY <3>2, GuardedClean, CleanAllowed
  <2>2. CASE ~Clean(it)
    <3>1. Allowed(it, things)
      BY <1>1, AtHead
    <3>2. DOMAIN it = Fields /\ it.op = "if_marked" /\ it.who \in DOMAIN things /\ Owned(it, things[it.who].kind)
      BY <1>1, <2>2, <3>1 DEF Allowed, Owned
    <3>. QED
      BY <3>2, GuardedOwned
  <2>. QED
    BY <2>1, <2>2
<1>3. \E c : AllowedList(c, things) /\ Call(c)
  BY <1>2, AllowedNone DEF test
<1>. QED
  BY <1>1, <1>3, Typed, WalkStep DEF test

\* One relic or potion of ts changes to x.
LEMMA Changed ==
    ASSUME NEW ts \in Seq(ThingType), NEW id, NEW x,
           id \in DOMAIN ts => x \in ThingType /\ x.kind = ts[id].kind
    PROVE  LET us == [ts EXCEPT ![id] = x]
           IN  /\ us \in Seq(ThingType) /\ DOMAIN us = DOMAIN ts /\ Kept(ts, us) /\ Energetic(us) = Energetic(ts)
               /\ \A i \in DOMAIN ts : us[i] = IF i = id THEN x ELSE ts[i]
<1>. DEFINE us == [ts EXCEPT ![id] = x]
<1>1. Len(ts) \in Nat /\ DOMAIN ts = 1 .. Len(ts) /\ \A i \in 1 .. Len(ts) : ts[i] \in ThingType
  OBVIOUS
<1>2. DOMAIN us = DOMAIN ts /\ \A i \in DOMAIN ts : us[i] = IF i = id THEN x ELSE ts[i]
  OBVIOUS
<1>3. us = [i \in 1 .. Len(ts) |-> us[i]]
  BY <1>1
<1>. HIDE DEF us
<1>4. us \in Seq(ThingType)
  <2>1. \A i \in 1 .. Len(ts) : us[i] \in ThingType
    BY <1>1, <1>2
  <2>. QED
    BY <1>1, <1>3, <2>1
<1>5. \A i \in DOMAIN ts : us[i].kind = ts[i].kind
  BY <1>2
<1>6. Kept(ts, us) /\ Energetic(us) = Energetic(ts)
  BY <1>2, <1>5 DEF Kept, Energetic
<1>. QED
  BY <1>2, <1>4, <1>6 DEF us

\* A step that changes one relic or potion, and nothing about what it saved.
LEMMA ThingStep ==
    ASSUME IInv, todo # <<>>, it.op \notin MapOps \cup HeadOps, \E c : AllowedList(c, things) /\ Call(c),
           NEW id, NEW x, things' = [things EXCEPT ![id] = x],
           id \in DOMAIN things => /\ x \in ThingType /\ x.kind = things[id].kind /\ x.saves = things[id].saves
                                   /\ things[id].saves # 0 => x.mark,
           UNCHANGED <<scen, combat, run, tally>>, bus' \in Seq(DOMAIN things),
           PlayerOk(player', DOMAIN things), player'.perTurn = player.perTurn
    PROVE  IInv'
<1>1. things \in Seq(ThingType)
  BY DEF IInv, State
<1>2. /\ things' \in Seq(ThingType) /\ DOMAIN things' = DOMAIN things /\ Kept(things, things')
      /\ Energetic(things') = Energetic(things)
      /\ \A i \in DOMAIN things : things'[i] = IF i = id THEN x ELSE things[i]
  BY <1>1, Changed
<1>3. SaveOnce'
  <2>. SUFFICES ASSUME NEW i \in DOMAIN things, things'[i].saves # 0
                PROVE  things'[i].saves = 1 /\ things'[i].mark /\ things'[i].kind \in Savers
    BY <1>2 DEF SaveOnce
  <2>1. things[i].saves # 0 => things[i].saves = 1 /\ things[i].mark /\ things[i].kind \in Savers
    BY DEF IInv, SaveOnce
  <2>2. CASE i # id
    BY <1>2, <2>1, <2>2
  <2>3. CASE i = id
    BY <1>2, <2>1, <2>3
  <2>. QED
    BY <2>2, <2>3
<1>4. State'
  BY <1>2 DEF IInv, State, CombatOk
<1>5. PICK c : AllowedList(c, things) /\ Call(c)
  OBVIOUS
<1>6. AllowedList(c, things')
  BY <1>2, <1>5, AllowedStays
<1>. QED
  BY <1>2, <1>3, <1>4, <1>5, <1>6, CallStep

LEMMA ThingTyped ==
    ASSUME IInv
    PROVE  /\ things \in Seq(ThingType) /\ bus \in Seq(DOMAIN things) /\ PlayerOk(player, DOMAIN things)
           /\ \A id \in DOMAIN things : things[id] \in ThingType
<1>1. things \in Seq(ThingType) /\ bus \in Seq(DOMAIN things)
  BY DEF IInv, State
<1>. QED
  BY <1>1, Typed

LEMMA EveryStep ==
    ASSUME IInv, every
    PROVE  IInv'
<1>1. todo # <<>> /\ it.op = "every" /\ it.op \notin MapOps \cup HeadOps
  BY DEF every, Doing, it, MapOps, HeadOps
<1>2. \E c : AllowedList(c, things) /\ Call(c)
  <2>1. CleanList(Guarded)
    BY <1>1, ThenClean, GuardedClean DEF OwnOps
  <2>. QED
    BY <2>1, CleanAllowed, AllowedNone DEF every
<1>. DEFINE fires == things[it.who].count + 1 >= it.n
            x == [things[it.who] EXCEPT !.count = IF fires THEN 0 ELSE @ + 1]
<1>3. things' = [things EXCEPT ![it.who] = x] /\ UNCHANGED <<scen, player, bus, combat, run, tally>>
  BY DEF every, Keep
<1>4. it.who \in DOMAIN things => /\ x \in ThingType /\ x.kind = things[it.who].kind
                                  /\ x.saves = things[it.who].saves
                                  /\ things[it.who].saves # 0 => x.mark
  <2>. SUFFICES ASSUME it.who \in DOMAIN things
                PROVE  /\ x \in ThingType /\ x.kind = things[it.who].kind /\ x.saves = things[it.who].saves
                       /\ things[it.who].saves # 0 => x.mark
    OBVIOUS
  <2>1. things[it.who] \in ThingType /\ (things[it.who].saves # 0 => things[it.who].mark)
    BY ThingTyped DEF IInv, SaveOnce
  <2>. HIDE DEF fires
  <2>. QED
    BY <2>1 DEF ThingType
<1>. HIDE DEF x
<1>5. player'.perTurn = player.perTurn /\ PlayerOk(player', DOMAIN things) /\ bus' \in Seq(DOMAIN things)
  BY <1>3, ThingTyped
<1>. QED
  BY <1>1, <1>2, <1>3, <1>4, <1>5, ThingStep

LEMMA MarkStep ==
    ASSUME IInv, mark
    PROVE  IInv'
<1>1. todo # <<>> /\ it.op \in {"mark", "unmark"} /\ it.op \notin MapOps \cup HeadOps
  BY DEF mark, MapOps, HeadOps
<1>2. \E c : AllowedList(c, things) /\ Call(c)
  BY AllowedNone DEF mark
<1>. DEFINE x == [things[it.who] EXCEPT !.mark = (it.op = "mark")]
<1>3. things' = [things EXCEPT ![it.who] = x] /\ UNCHANGED <<scen, player, bus, combat, run, tally>>
  BY DEF mark, Keep
<1>4. it.who \in DOMAIN things => /\ x \in ThingType /\ x.kind = things[it.who].kind
                                  /\ x.saves = things[it.who].saves
                                  /\ things[it.who].saves # 0 => x.mark
  <2>. SUFFICES ASSUME it.who \in DOMAIN things
                PROVE  /\ x \in ThingType /\ x.kind = things[it.who].kind /\ x.saves = things[it.who].saves
                       /\ things[it.who].saves # 0 => x.mark
    OBVIOUS
  <2>1. things[it.who] \in ThingType /\ (things[it.who].saves # 0 => things[it.who].kind \in Savers)
    BY ThingTyped DEF IInv, SaveOnce
  <2>2. it.op = "unmark" => things[it.who].kind \notin Savers
    <3>1. it.op = "unmark" => ~Clean(it)
      BY CleanBranch DEF Proper, Restricted
    <3>. QED
      BY <1>1, <3>1, AtHead DEF Allowed, Owned
  <2>3. x \in ThingType /\ x.kind = things[it.who].kind /\ x.saves = things[it.who].saves
        /\ x.mark = (it.op = "mark")
    BY <2>1 DEF ThingType
  <2>. HIDE DEF x
  <2>. QED
    BY <1>1, <2>1, <2>2, <2>3
<1>. HIDE DEF x
<1>5. player'.perTurn = player.perTurn /\ PlayerOk(player', DOMAIN things) /\ bus' \in Seq(DOMAIN things)
  BY <1>3, ThingTyped
<1>. QED
  BY <1>1, <1>2, <1>3, <1>4, <1>5, ThingStep

LEMMA RestartStep ==
    ASSUME IInv, restart
    PROVE  IInv'
<1>1. todo # <<>> /\ it.op \notin MapOps \cup HeadOps
  BY DEF restart, Doing, it, MapOps, HeadOps
<1>2. \E c : AllowedList(c, things) /\ Call(c)
  BY AllowedNone DEF restart
<1>. DEFINE x == [things[it.who] EXCEPT !.count = 0, !.seen = {}]
<1>3. things' = [things EXCEPT ![it.who] = x] /\ UNCHANGED <<scen, player, bus, combat, run, tally>>
  BY DEF restart, Keep
<1>4. it.who \in DOMAIN things => /\ x \in ThingType /\ x.kind = things[it.who].kind
                                  /\ x.saves = things[it.who].saves
                                  /\ things[it.who].saves # 0 => x.mark
  <2>. SUFFICES ASSUME it.who \in DOMAIN things
                PROVE  /\ x \in ThingType /\ x.kind = things[it.who].kind /\ x.saves = things[it.who].saves
                       /\ things[it.who].saves # 0 => x.mark
    OBVIOUS
  <2>1. things[it.who] \in ThingType /\ (things[it.who].saves # 0 => things[it.who].mark)
    BY ThingTyped DEF IInv, SaveOnce
  <2>. QED
    BY <2>1 DEF ThingType
<1>. HIDE DEF x
<1>5. player'.perTurn = player.perTurn /\ PlayerOk(player', DOMAIN things) /\ bus' \in Seq(DOMAIN things)
  BY <1>3, ThingTyped
<1>. QED
  BY <1>1, <1>2, <1>3, <1>4, <1>5, ThingStep

LEMMA PelletsStep ==
    ASSUME IInv, pellets
    PROVE  IInv'
<1>1. todo # <<>> /\ it.op \notin MapOps \cup HeadOps
  BY DEF pellets, Doing, it, MapOps, HeadOps
<1>2. \E c : AllowedList(c, things) /\ Call(c)
  BY AllowedNone DEF pellets
<1>. DEFINE seen == things[it.who].seen \cup ({it.arg} \cap {"ATTACK", "SKILL", "POWER"})
            now == IF Cardinality(seen) = 3 THEN {} ELSE seen
            x == [things[it.who] EXCEPT !.seen = now]
<1>3. things' = [things EXCEPT ![it.who] = x]
  BY DEF pellets
<1>4. it.who \in DOMAIN things => /\ x \in ThingType /\ x.kind = things[it.who].kind
                                  /\ x.saves = things[it.who].saves
                                  /\ things[it.who].saves # 0 => x.mark
  <2>. SUFFICES ASSUME it.who \in DOMAIN things
                PROVE  /\ x \in ThingType /\ x.kind = things[it.who].kind /\ x.saves = things[it.who].saves
                       /\ things[it.who].saves # 0 => x.mark
    OBVIOUS
  <2>1. things[it.who] \in ThingType /\ (things[it.who].saves # 0 => things[it.who].mark)
    BY ThingTyped DEF IInv, SaveOnce
  <2>2. now \in SUBSET {"ATTACK", "SKILL", "POWER"}
    BY <2>1 DEF ThingType
  <2>. HIDE DEF now
  <2>. QED
    BY <2>1, <2>2 DEF ThingType
<1>. HIDE DEF x
<1>5. player'.perTurn = player.perTurn /\ PlayerOk(player', DOMAIN things)
  <2>1. player' = player \/ \E S : player' = [player EXCEPT !.powers = Without(player.powers, S)]
    BY DEF pellets
  <2>2. \A S : Integers(Without(player.powers, S))
    BY Typed, PowersStay DEF PlayerOk
  <2>. QED
    BY <2>1, <2>2, Typed DEF PlayerOk, PlayerFields
<1>6. bus' \in Seq(DOMAIN things) /\ UNCHANGED <<scen, combat, run, tally>>
  BY ThingTyped DEF pellets
<1>. QED
  BY <1>1, <1>2, <1>3, <1>4, <1>5, <1>6, ThingStep

LEMMA AfreshOk ==
    ASSUME NEW thing \in ThingType, thing.saves # 0 => thing.mark /\ thing.kind \in Savers
    PROVE  /\ Afresh(thing) \in ThingType /\ Afresh(thing).kind = thing.kind /\ Afresh(thing).saves = thing.saves
           /\ thing.saves # 0 => Afresh(thing).mark
<1>1. CASE Known[thing.kind].fresh
  <2>1. Afresh(thing) = [thing EXCEPT !.count = 0, !.mark = FALSE, !.seen = {}]
    BY <1>1 DEF Afresh
  <2>2. thing.kind \notin Savers
    BY <1>1, RelicsAssumption
  <2>3. thing.saves = 0
    BY <2>2
  <2>. QED
    BY <2>1, <2>3 DEF ThingType
<1>2. CASE ~Known[thing.kind].fresh
  BY <1>2 DEF Afresh
<1>. QED
  BY <1>1, <1>2

LEMMA RegisterStep ==
    ASSUME IInv, register
    PROVE  IInv'
<1>1. todo # <<>> /\ it.op = "register" /\ it.op \notin MapOps \cup HeadOps
  BY DEF register, Doing, it, MapOps, HeadOps
<1>2. \E c : AllowedList(c, things) /\ Call(c)
  BY AllowedNone DEF register
<1>3. it.n \in DOMAIN things
  <2>1. Allowed(it, things)
    BY <1>1, AtHead
  <2>2. ~Clean(it)
    BY <1>1, CleanBranch DEF Proper, Restricted
  <2>. QED
    BY <1>1, <2>1, <2>2 DEF Allowed, Owned
<1>. DEFINE x == Afresh(things[it.n])
<1>4. things' = [things EXCEPT ![it.n] = x] /\ UNCHANGED <<scen, combat, run, tally>>
  BY DEF register
<1>5. /\ x \in ThingType /\ x.kind = things[it.n].kind /\ x.saves = things[it.n].saves
      /\ things[it.n].saves # 0 => x.mark
  <2>1. things[it.n] \in ThingType
    BY <1>3, ThingTyped
  <2>2. things[it.n].saves # 0 => things[it.n].mark /\ things[it.n].kind \in Savers
    BY <1>3 DEF IInv, SaveOnce
  <2>. QED
    BY <2>1, <2>2, AfreshOk
<1>. HIDE DEF x
<1>6. bus' \in Seq(DOMAIN things)
  <2>1. bus' = Append(bus, it.n)
    BY DEF register
  <2>. QED
    BY <1>3, <2>1, ThingTyped, AppendList
<1>7. player'.perTurn = player.perTurn /\ PlayerOk(player', DOMAIN things)
  <2>1. \E f : player' = [player EXCEPT !.flags = f]
    BY DEF register
  <2>2. Alike(player, player')
    BY <2>1, Typed DEF Alike, PlayerOk, PlayerFields
  <2>. QED
    BY <2>2, Typed, AlikeOk
<1>. QED
  BY <1>1, <1>2, <1>4, <1>5, <1>6, <1>7, ThingStep

\* The first time, what is guarded runs; a Lizard Tail and a Fairy are marked
\* before they save.
LEMMA OnceStep ==
    ASSUME IInv, once
    PROVE  IInv'
<1>1. todo # <<>> /\ it.op = "once" /\ it.op \notin MapOps \cup HeadOps
  BY DEF once, Doing, it, MapOps, HeadOps
<1>. DEFINE id == it.who
            x == [things[id] EXCEPT !.mark = TRUE]
<1>2. things' = [things EXCEPT ![id] = x] /\ UNCHANGED <<scen, player, bus, combat, run, tally>>
  BY DEF once, Keep
<1>3. id \in DOMAIN things => /\ x \in ThingType /\ x.kind = things[id].kind /\ x.saves = things[id].saves
                              /\ x.mark
  <2>. SUFFICES ASSUME id \in DOMAIN things
                PROVE  x \in ThingType /\ x.kind = things[id].kind /\ x.saves = things[id].saves /\ x.mark
    OBVIOUS
  <2>1. things[id] \in ThingType
    BY ThingTyped
  <2>. QED
    BY <2>1 DEF ThingType
<1>. HIDE DEF x
<1>4. player'.perTurn = player.perTurn /\ PlayerOk(player', DOMAIN things) /\ bus' \in Seq(DOMAIN things)
  BY <1>2, ThingTyped
<1>5. Call(IF things[id].mark THEN <<>> ELSE Guarded)
  BY DEF once
<1>6. CASE Clean(it) \/ things[id].mark
  <2>1. Clean(it) => CleanList(Guarded)
    <3>1. Branches(it) = {it.then}
      BY <1>1 DEF Branches
    <3>. QED
      BY <3>1, CleanBranch, GuardedClean
  <2>2. \E c : AllowedList(c, things) /\ Call(c)
    <3>1. CASE things[id].mark
      BY <1>5, <3>1, AllowedNone
    <3>2. CASE ~things[id].mark
      <4>1. Call(Guarded)
        BY <1>5, <3>2
      <4>. QED
        BY <1>6, <2>1, <3>2, <4>1, CleanAllowed
    <3>. QED
      BY <3>1, <3>2
  <2>. QED
    BY <1>1, <1>2, <1>3, <1>4, <2>2, ThingStep
<1>7. CASE ~Clean(it) /\ ~things[id].mark
  <2>1. DOMAIN it = Fields /\ id \in DOMAIN things /\ Owned(it, things[id].kind) /\ AllowedList(Tail(todo), things)
    <3>1. Allowed(it, things) /\ AllowedList(Tail(todo), things)
      BY <1>1, AtHead
    <3>. QED
      BY <1>1, <1>7, <3>1 DEF Allowed
  <2>2. /\ things[id].kind \in Savers /\ it.then = <<it.then[1]>>
        /\ DOMAIN it.then[1] = Fields /\ it.then[1].op \in {"revive", "fairy"}
    BY <1>1, <2>1 DEF Owned
  <2>. DEFINE y == it.then[1]
              z == Tagged(y, id, it.arg)
  <2>3. z.op = y.op /\ z.who = id
    BY <2>2, OwnedTagged
  <2>4. Guarded = <<z>>
    <3>1. DOMAIN it.then = {1}
      <4>1. DOMAIN <<y>> = {1}
        OBVIOUS
      <4>. QED
        BY <2>2, <4>1
    <3>2. Guarded = [i \in {1} |-> Tagged(it.then[i], id, it.arg)]
      BY <3>1 DEF Guarded, Tagged
    <3>3. <<z>> = [i \in {1} |-> z]
      OBVIOUS
    <3>. QED
      BY <3>2, <3>3
  <2>. HIDE DEF z, y
  <2>5. todo' = <<z>> \o Tail(todo)
    BY <1>5, <1>7, <2>4 DEF Call
  <2>6. /\ things' \in Seq(ThingType) /\ DOMAIN things' = DOMAIN things /\ Kept(things, things')
        /\ Energetic(things') = Energetic(things)
        /\ \A i \in DOMAIN things : things'[i] = IF i = id THEN x ELSE things[i]
    BY <1>2, <1>3, ThingTyped, Changed
  <2>7. AllowedList(Tail(todo), things')
    BY <2>1, <2>6, AllowedStays
  <2>8. Head(todo') = z /\ Tail(todo') = Tail(todo) /\ IsList(todo')
    <3>1. PICK S : Tail(todo) \in Seq(S)
      BY <2>1 DEF AllowedList
    <3>2. Head(<<z>> \o Tail(todo)) = z /\ Tail(<<z>> \o Tail(todo)) = Tail(todo)
          /\ <<z>> \o Tail(todo) \in Seq(S \cup {z})
      BY <3>1, Parts
    <3>. QED
      BY <2>5, <3>2 DEF IsList
  <2>9. Pending(z, things')
    <3>1. things'[id].kind \in Savers /\ things'[id].mark /\ things'[id].saves = things[id].saves
      BY <1>3, <2>1, <2>2, <2>6
    <3>2. things[id].saves = 0
      BY <1>7, <2>1 DEF IInv, SaveOnce
    <3>. QED
      BY <2>1, <2>2, <2>3, <2>6, <3>1, <3>2 DEF Pending, y
  <2>10. Ordinary'
    BY <2>7, <2>8, <2>9 DEF Ordinary, it
  <2>11. SaveOnce'
    <3>. SUFFICES ASSUME NEW i \in DOMAIN things, things'[i].saves # 0
                  PROVE  things'[i].saves = 1 /\ things'[i].mark /\ things'[i].kind \in Savers
      BY <2>6 DEF SaveOnce
    <3>1. things[i].saves # 0 => things[i].saves = 1 /\ things[i].mark /\ things[i].kind \in Savers
      BY DEF IInv, SaveOnce
    <3>. QED
      BY <1>3, <2>6, <3>1
  <2>12. State'
    BY <1>2, <1>4, <2>6 DEF IInv, State, CombatOk
  <2>13. Due = 0 /\ Due' = 0
    <3>1. z.op # "per_turn"
      BY <2>2, <2>3 DEF y
    <3>. QED
      BY <1>1, <2>8, <3>1 DEF Due, Doing, it
  <2>14. EnergyPaid'
    <3>1. player.perTurn + Due = 3 + Cardinality(Energetic(things))
      BY DEF IInv, EnergyPaid
    <3>. QED
      BY <1>2, <2>6, <2>13, <3>1 DEF EnergyPaid
  <2>. QED
    BY <2>10, <2>11, <2>12, <2>14 DEF IInv
<1>. QED
  BY <1>6, <1>7

\* What a Lizard Tail or a Fairy that is about to save is.
LEMMA Saver ==
    ASSUME IInv, todo # <<>>, it.op \in {"revive", "fairy"}
    PROVE  /\ AllowedList(Tail(todo), things) /\ it.who \in DOMAIN things /\ Due = 0
           /\ things[it.who].kind \in Savers /\ things[it.who].mark /\ things[it.who].saves = 0
<1>1. Ordinary /\ AllowedList(Tail(todo), things)
  BY AtHead DEF MapOps
<1>2. ~Allowed(it, things)
  <2>1. ~Clean(it)
    BY CleanBranch DEF Proper, Restricted
  <2>. QED
    BY <2>1 DEF Allowed, Owned
<1>3. Pending(it, things)
  BY <1>1, <1>2 DEF Ordinary
<1>. QED
  BY <1>1, <1>3 DEF Pending, Due, Doing, it

\* It saves for the first time.
LEMMA SaverStep ==
    ASSUME IInv, todo # <<>>, it.op \in {"revive", "fairy"},
           things' = [things EXCEPT ![it.who].saves = @ + 1],
           Call(<<>>) \/ todo' = <<>>,
           UNCHANGED <<scen, bus, combat, tally>>, DOMAIN run' = RunFields,
           PlayerOk(player', DOMAIN things), player'.perTurn = player.perTurn
    PROVE  IInv'
<1>. DEFINE id == it.who
            x == [things[id] EXCEPT !.saves = @ + 1]
<1>1. /\ AllowedList(Tail(todo), things) /\ id \in DOMAIN things /\ Due = 0
      /\ things[id].kind \in Savers /\ things[id].mark /\ things[id].saves = 0
  BY Saver
<1>2. x \in ThingType /\ x.kind = things[id].kind /\ x.saves = 1 /\ x.mark
  <2>1. things[id] \in ThingType
    BY <1>1, ThingTyped
  <2>. QED
    <3>. DEFINE t == things[id]
    <3>1. t \in ThingType /\ t.saves = 0 /\ t.mark /\ x = [t EXCEPT !.saves = @ + 1]
      BY <1>1, <2>1
    <3>. HIDE DEF t
    <3>2. [t EXCEPT !.saves = @ + 1] \in ThingType /\ [t EXCEPT !.saves = @ + 1].kind = t.kind
      BY <3>1 DEF ThingType
    <3>3. [t EXCEPT !.saves = @ + 1].saves = 1 /\ [t EXCEPT !.saves = @ + 1].mark
      BY <3>1 DEF ThingType
    <3>. QED
      BY <3>1, <3>2, <3>3 DEF t
<1>. DEFINE us == [things EXCEPT ![id] = x]
<1>3. things' = us
  OBVIOUS
<1>. HIDE DEF x
<1>4. /\ things' \in Seq(ThingType) /\ DOMAIN things' = DOMAIN things /\ Kept(things, things')
      /\ Energetic(things') = Energetic(things)
      /\ \A i \in DOMAIN things : things'[i] = IF i = id THEN x ELSE things[i]
  <2>1. /\ us \in Seq(ThingType) /\ DOMAIN us = DOMAIN things /\ Kept(things, us)
        /\ Energetic(us) = Energetic(things)
        /\ \A i \in DOMAIN things : us[i] = IF i = id THEN x ELSE things[i]
    <3>1. things \in Seq(ThingType)
      BY ThingTyped
    <3>2. id \in DOMAIN things => x \in ThingType /\ x.kind = things[id].kind
      BY <1>2
    <3>. HIDE DEF id
    <3>. QED
      BY <3>1, <3>2, Changed
  <2>. HIDE DEF us
  <2>. QED
    BY <1>3, <2>1
<1>5. SaveOnce'
  <2>. SUFFICES ASSUME NEW i \in DOMAIN things, things'[i].saves # 0
                PROVE  things'[i].saves = 1 /\ things'[i].mark /\ things'[i].kind \in Savers
    BY <1>4 DEF SaveOnce
  <2>1. things[i].saves # 0 => things[i].saves = 1 /\ things[i].mark /\ things[i].kind \in Savers
    BY DEF IInv, SaveOnce
  <2>. QED
    BY <1>1, <1>2, <1>4, <2>1
<1>6. State'
  BY <1>4 DEF IInv, State, CombatOk
<1>7. player'.perTurn = player.perTurn + Due
  BY <1>1, Typed DEF PlayerOk
<1>8. CASE Call(<<>>)
  <2>1. AllowedList(<<>>, things') /\ AllowedList(Tail(todo), things')
    BY <1>1, <1>4, AllowedStays, AllowedNone
  <2>2. Ordinary' /\ Due' = 0
    BY <1>8, <2>1, Placed
  <2>3. EnergyPaid'
    <3>1. player.perTurn + Due = 3 + Cardinality(Energetic(things))
      BY DEF IInv, EnergyPaid
    <3>. QED
      BY <1>1, <1>4, <2>2, <3>1 DEF EnergyPaid
  <2>. QED
    BY <1>5, <1>6, <2>2, <2>3 DEF IInv
<1>9. CASE todo' = <<>>
  <2>1. it.op \notin MapOps
    BY DEF MapOps
  <2>. QED
    BY <1>4, <1>5, <1>6, <1>7, <1>9, <2>1, HaltStep
<1>. QED
  BY <1>8, <1>9

LEMMA ReviveStep ==
    ASSUME IInv, revive
    PROVE  IInv'
<1>1. todo # <<>> /\ it.op \in {"revive", "fairy"}
  BY DEF revive, Doing, it
<1>2. PlayerOk(player', DOMAIN things) /\ player'.perTurn = player.perTurn
  <2>1. Alike(player, player')
    BY Typed DEF revive, Alike, PlayerOk, PlayerFields
  <2>. QED
    BY <2>1, Typed, AlikeOk
<1>. QED
  BY <1>1, <1>2, Typed, SaverStep DEF revive

LEMMA FairyStep ==
    ASSUME IInv, fairy
    PROVE  IInv'
<1>1. todo # <<>> /\ it.op \in {"revive", "fairy"}
  BY DEF fairy, Doing, it
<1>. DEFINE left == RemoveFirst(player.potions, it.who)
<1>2. PlayerOk(player', DOMAIN things) /\ player'.perTurn = player.perTurn
  <2>1. left \in Seq(DOMAIN things)
    BY Typed, RemoveFirstList DEF PlayerOk
  <2>2. \E n : player' = [player EXCEPT !.hp = n, !.potions = left]
    BY DEF fairy
  <2>. HIDE DEF left
  <2>. QED
    BY <2>1, <2>2, Typed DEF PlayerOk, PlayerFields
<1>3. DOMAIN run' = RunFields
  <2>1. run' = run \/ run' = [run EXCEPT !.status = "raised"]
    BY DEF fairy
  <2>. QED
    BY <2>1, Typed
<1>4. Call(<<>>) \/ todo' = <<>>
  BY DEF fairy
<1>5. things' = [things EXCEPT ![it.who].saves = @ + 1] /\ UNCHANGED <<scen, bus, combat, tally>>
  BY DEF fairy
<1>. QED
  BY <1>1, <1>2, <1>3, <1>4, <1>5, SaverStep

LEMMA NewThing ==
    ASSUME IInv, NEW kind \in DOMAIN Known
    PROVE  Thing(kind) \in ThingType /\ Thing(kind).kind = kind /\ Thing(kind).saves = 0
BY DEF IInv, State, Thing, ThingType

LEMMA EnergeticFinite ==
    ASSUME NEW ts \in Seq(ThingType)
    PROVE  IsFiniteSet(Energetic(ts)) /\ Cardinality(Energetic(ts)) \in Nat
<1>1. Len(ts) \in Nat /\ Energetic(ts) \subseteq 1 .. Len(ts)
  BY DEF Energetic
<1>2. IsFiniteSet(1 .. Len(ts))
  BY <1>1, FS_Interval
<1>3. IsFiniteSet(Energetic(ts))
  BY <1>1, <1>2, FS_Subset
<1>. QED
  BY <1>3, FS_CardinalityType

\* A relic or potion is made.
LEMMA Appended ==
    ASSUME NEW ts \in Seq(ThingType), NEW t \in ThingType
    PROVE  LET us == Append(ts, t)
               id == Len(ts) + 1
           IN  /\ us \in Seq(ThingType) /\ DOMAIN us = DOMAIN ts \cup {id} /\ id \notin DOMAIN ts
               /\ Kept(ts, us) /\ us[id] = t /\ \A i \in DOMAIN ts : us[i] = ts[i]
               /\ Cardinality(Energetic(us)) =
                     Cardinality(Energetic(ts)) + IF EnergyPerTurn \in Range(Known[t.kind].pickup) THEN 1 ELSE 0
<1>. DEFINE us == Append(ts, t)
            id == Len(ts) + 1
<1>1. Len(ts) \in Nat /\ DOMAIN ts = 1 .. Len(ts)
  OBVIOUS
<1>2. us \in Seq(ThingType) /\ Len(us) = Len(ts) + 1 /\ DOMAIN us = 1 .. Len(us)
  BY AppendList
<1>3. us[id] = t /\ \A i \in DOMAIN ts : us[i] = ts[i]
  BY <1>1
<1>4. DOMAIN us = DOMAIN ts \cup {id} /\ id \notin DOMAIN ts
  BY <1>1, <1>2
<1>5. Kept(ts, us)
  BY <1>3, <1>4 DEF Kept
<1>. HIDE DEF us, id
<1>6. Energetic(us) = Energetic(ts) \cup (IF EnergyPerTurn \in Range(Known[t.kind].pickup) THEN {id} ELSE {})
  BY <1>3, <1>4 DEF Energetic
<1>7. IsFiniteSet(Energetic(ts)) /\ id \notin Energetic(ts)
  <2>1. Energetic(ts) \subseteq DOMAIN ts
    BY DEF Energetic
  <2>. QED
    BY <1>4, <2>1, EnergeticFinite
<1>8. Cardinality(Energetic(us)) =
         Cardinality(Energetic(ts)) + IF EnergyPerTurn \in Range(Known[t.kind].pickup) THEN 1 ELSE 0
  <2>1. CASE EnergyPerTurn \in Range(Known[t.kind].pickup)
    <3>1. Energetic(us) = Energetic(ts) \cup {id}
      BY <1>6, <2>1
    <3>2. Cardinality(Energetic(ts) \cup {id}) = Cardinality(Energetic(ts)) + 1
      BY <1>7, FS_AddElement
    <3>. QED
      BY <2>1, <3>1, <3>2
  <2>2. CASE EnergyPerTurn \notin Range(Known[t.kind].pickup)
    <3>1. Energetic(us) = Energetic(ts)
      BY <1>6, <2>2
    <3>2. Cardinality(Energetic(ts)) \in Nat
      BY <1>7, FS_CardinalityType
    <3>3. Cardinality(Energetic(ts)) = Cardinality(Energetic(ts)) + 0
      BY <3>2
    <3>. QED
      BY <2>2, <3>1, <3>3
  <2>. QED
    BY <2>1, <2>2
<1>. QED
  BY <1>2, <1>3, <1>4, <1>5, <1>8 DEF us, id

\* A step that makes a relic or a potion of a kind: what the invariant says of
\* everything but todo and the energy.
LEMMA MadeState ==
    ASSUME IInv, NEW kind \in DOMAIN Known, things' = Append(things, Thing(kind)),
           UNCHANGED <<scen, bus, combat, run, tally>>, PlayerOk(player', DOMAIN things')
    PROVE  State' /\ SaveOnce'
<1>. DEFINE t == Thing(kind)
            id == Len(things) + 1
<1>1. t \in ThingType /\ t.saves = 0
  BY NewThing
<1>. HIDE DEF t
<1>2. /\ things' \in Seq(ThingType) /\ DOMAIN things' = DOMAIN things \cup {id} /\ id \notin DOMAIN things
      /\ things'[id] = t /\ \A i \in DOMAIN things : things'[i] = things[i]
  BY <1>1, ThingTyped, Appended DEF t
<1>. HIDE DEF id
<1>3. bus \in Seq(DOMAIN things')
  <2>1. DOMAIN things \subseteq DOMAIN things'
    BY <1>2
  <2>. QED
    BY <2>1, ThingTyped, LargerList
<1>4. State'
  BY <1>2, <1>3 DEF IInv, State, CombatOk
<1>5. SaveOnce'
  BY <1>1, <1>2 DEF IInv, SaveOnce
<1>. QED
  BY <1>4, <1>5

LEMMA VocabularyOps == \A x \in Vocabulary : x.op # "per_turn"
BY CleanVocabulary, CleanBranch DEF Proper, Restricted

\* The relic is there and paid for once its pickup is done: the energy of a turn
\* comes first, the rest is no more than cards may do.
LEMMA ObtainStep ==
    ASSUME IInv, obtain_relic
    PROVE  IInv'
<1>1. todo # <<>> /\ it.op = "obtain" /\ it.op \notin MapOps \cup HeadOps
  BY DEF obtain_relic, Doing, it, MapOps, HeadOps
<1>2. it.of \in DOMAIN Catalogue /\ it.of \in DOMAIN Known /\ AllowedList(Tail(todo), things) /\ Due = 0
  <2>1. it.of \in DOMAIN Catalogue /\ AllowedList(Tail(todo), things) /\ Due = 0
    BY <1>1, AtHead DEF OwnOps, Proper
  <2>. QED
    BY <2>1, RelicsAssumption
<1>. DEFINE t == Thing(it.of)
            id == Len(things) + 1
            pickup == Known[it.of].pickup
            after == <<GoWith("register", id, ""), Emit("RELIC_OBTAINED", it.arg)>>
            Pays(kind) == IF EnergyPerTurn \in Range(Known[kind].pickup) THEN 1 ELSE 0
<1>3. things' = Append(things, t) /\ UNCHANGED <<scen, bus, combat, run, tally>> /\ Call(pickup \o after)
      /\ player' = [player EXCEPT !.relics = Append(@, id)]
  BY DEF obtain_relic
<1>4. t \in ThingType /\ t.kind = it.of
  BY <1>2, NewThing
<1>5. /\ things' \in Seq(ThingType) /\ DOMAIN things' = DOMAIN things \cup {id} /\ Kept(things, things')
      /\ Cardinality(Energetic(things')) = Cardinality(Energetic(things)) + Pays(it.of)
  <2>. HIDE DEF t
  <2>. QED
    BY <1>3, <1>4, ThingTyped, Appended
<1>6. PlayerOk(player', DOMAIN things') /\ player'.perTurn = player.perTurn
  <2>1. player.relics \in Seq(DOMAIN things') /\ player.potions \in Seq(DOMAIN things')
    <3>1. DOMAIN things \subseteq DOMAIN things'
      BY <1>5
    <3>. QED
      BY <3>1, Typed, LargerList DEF PlayerOk
  <2>2. Append(player.relics, id) \in Seq(DOMAIN things')
    BY <1>5, <2>1, AppendList
  <2>. HIDE DEF id
  <2>. QED
    BY <1>3, <2>1, <2>2, Typed DEF PlayerOk, PlayerFields
<1>7. State' /\ SaveOnce'
  BY <1>2, <1>3, <1>6, MadeState
<1>8. AllowedList(after, things') /\ AllowedList(Tail(todo), things')
  <2>. DEFINE S == {GoWith("register", id, ""), Emit("RELIC_OBTAINED", it.arg)}
  <2>1. Allowed(GoWith("register", id, ""), things')
    BY <1>5 DEF Allowed, GoWith, Do, Fields
  <2>2. Allowed(Emit("RELIC_OBTAINED", it.arg), things')
    BY CleanEmit DEF Allowed
  <2>3. \A x \in S : Allowed(x, things')
    BY <2>1, <2>2
  <2>4. after \in Seq(S)
    OBVIOUS
  <2>. HIDE DEF S, after
  <2>5. AllowedList(after, things')
    BY <2>3, <2>4, AllowedOf
  <2>. QED
    BY <1>2, <1>5, <2>5, AllowedStays
<1>. HIDE DEF t, id, after
<1>9. player.perTurn = 3 + Cardinality(Energetic(things)) /\ player.perTurn \in Int
  <2>1. player.perTurn + Due = 3 + Cardinality(Energetic(things)) /\ player.perTurn \in Int
    BY Typed DEF IInv, EnergyPaid, PlayerOk
  <2>. QED
    BY <1>2, <2>1
<1>10. CASE pickup \in Seq(Vocabulary)
  <2>1. AllowedList(pickup \o after, things')
    BY <1>8, <1>10, CleanVocabulary, CleanAllowed, AllowedConcat
  <2>2. Ordinary' /\ Due' = 0
    BY <1>3, <1>8, <2>1, Placed
  <2>3. EnergyPerTurn \notin Range(pickup)
    <3>1. DOMAIN pickup = 1 .. Len(pickup) /\ \A i \in 1 .. Len(pickup) : pickup[i] \in Vocabulary
      BY <1>10, LenProperties, ElementOfSeq
    <3>2. \A x \in Range(pickup) : x.op # "per_turn"
      BY <3>1, VocabularyOps DEF Range
    <3>3. EnergyPerTurn.op = "per_turn"
      BY DEF EnergyPerTurn, Do
    <3>. QED
      BY <3>2, <3>3
  <2>4. Pays(it.of) = 0
    BY <2>3
  <2>5. EnergyPaid'
    <3>. HIDE DEF Pays
    <3>1. Cardinality(Energetic(things')) = Cardinality(Energetic(things)) + 0
      BY <1>5, <2>4
    <3>2. Cardinality(Energetic(things)) \in Nat
      BY ThingTyped, EnergeticFinite
    <3>3. Cardinality(Energetic(things')) = Cardinality(Energetic(things))
      BY <3>1, <3>2
    <3>. QED
      BY <1>6, <1>9, <2>2, <3>3 DEF EnergyPaid
  <2>. QED
    BY <1>7, <2>2, <2>5 DEF IInv
<1>11. CASE pickup = <<EnergyPerTurn>> \o Tail(pickup) /\ Tail(pickup) \in Seq(Vocabulary)
  <2>. DEFINE x == EnergyPerTurn
              p == Tail(pickup)
  <2>1. AllowedList(p, things')
    BY <1>11, CleanVocabulary, CleanAllowed
  <2>. HIDE DEF x, p
  <2>2. PICK S : p \in Seq(S) /\ after \in Seq(S) /\ Tail(todo) \in Seq(S) /\ x \in S
    <3>1. PICK A : p \in Seq(A)
      BY <2>1 DEF AllowedList
    <3>2. PICK B : after \in Seq(B)
      BY <1>8 DEF AllowedList
    <3>3. PICK C : Tail(todo) \in Seq(C)
      BY <1>8 DEF AllowedList
    <3>. DEFINE S == A \cup B \cup C \cup {x}
    <3>4. A \subseteq S /\ B \subseteq S /\ C \subseteq S /\ x \in S
      OBVIOUS
    <3>. HIDE DEF S
    <3>. QED
      BY <3>1, <3>2, <3>3, <3>4, LargerList
  <2>3. pickup = <<x>> \o p
    BY <1>11 DEF x, p
  <2>4. <<x>> \o p \in Seq(S) /\ <<x>> \o p # <<>> /\ Head(<<x>> \o p) = x /\ Tail(<<x>> \o p) = p
    <3>1. <<x>> \in Seq(S)
      BY <2>2
    <3>2. <<x>> \o p \in Seq(S)
      BY <2>2, <3>1
    <3>. QED
      BY <2>2, <3>2, Parts
  <2>5. /\ pickup \o after \in Seq(S) /\ pickup \o after # <<>>
        /\ Head(pickup \o after) = x /\ Tail(pickup \o after) = p \o after
    <3>. HIDE DEF pickup
    <3>1. pickup \in Seq(S) /\ pickup # <<>> /\ Head(pickup) = x /\ Tail(pickup) = p
      BY <2>3, <2>4, Zenon
    <3>2. after \in Seq(S)
      BY <2>2
    <3>3. /\ pickup \o after \in Seq(S) /\ pickup \o after # <<>>
          /\ Head(pickup \o after) = Head(pickup) /\ Tail(pickup \o after) = Tail(pickup) \o after
      BY <3>1, <3>2, HeadConcat
    <3>. QED
      BY <3>1, <3>3, Zenon
  <2>6. /\ todo' \in Seq(S) /\ todo' # <<>>
        /\ Head(todo') = x /\ Tail(todo') = p \o after \o Tail(todo)
    <3>1. todo' = (pickup \o after) \o Tail(todo)
      BY <1>3 DEF Call
    <3>. DEFINE q == pickup \o after
    <3>. HIDE DEF q
    <3>2. q \in Seq(S) /\ q # <<>> /\ Head(q) = x /\ Tail(q) = p \o after
      BY <2>5 DEF q
    <3>3. todo' = q \o Tail(todo)
      BY <3>1 DEF q
    <3>. DEFINE r == Tail(todo)
                whole == q \o r
    <3>4. r \in Seq(S)
      BY <2>2
    <3>. HIDE DEF r
    <3>5. /\ whole \in Seq(S) /\ whole # <<>>
          /\ Head(whole) = x /\ Tail(whole) = (p \o after) \o r
      <4>1. /\ q \o r \in Seq(S) /\ q \o r # <<>>
            /\ Head(q \o r) = Head(q) /\ Tail(q \o r) = Tail(q) \o r
        BY <3>2, <3>4, HeadConcat
      <4>. QED
        BY <3>2, <4>1
    <3>6. todo' = whole
      BY <3>3 DEF r
    <3>. HIDE DEF whole
    <3>. QED
      BY <3>5, <3>6 DEF r
  <2>7. AllowedList(Tail(todo'), things')
    <3>1. AllowedList(p \o after, things')
      BY <1>8, <2>1, AllowedConcat
    <3>. QED
      BY <1>8, <2>6, <3>1, AllowedConcat
  <2>8. x.op = "per_turn" /\ x.n = 1
    BY DEF x, EnergyPerTurn, Do
  <2>9. Ordinary' /\ Due' = 1
    <3>1. IsList(todo')
      BY <2>6 DEF IsList
    <3>. QED
      BY <2>6, <2>7, <2>8, <3>1 DEF Ordinary, Pending, Due, Doing, it
  <2>10. Pays(it.of) = 1
    <3>1. 1 \in DOMAIN pickup /\ pickup[1] = x
      <4>1. \A q \in Seq(S) : q # <<>> => 1 \in DOMAIN q /\ q[1] = Head(q)
        OBVIOUS
      <4>. HIDE DEF pickup
      <4>. QED
        BY <2>3, <2>4, <4>1
    <3>2. x \in Range(pickup)
      BY <3>1 DEF Range
    <3>. QED
      BY <3>2 DEF x
  <2>11. EnergyPaid'
    <3>. HIDE DEF Pays
    <3>1. Cardinality(Energetic(things')) = Cardinality(Energetic(things)) + 1
      BY <1>5, <2>10
    <3>2. 3 + Cardinality(Energetic(things')) = player.perTurn + 1
      <4>1. Cardinality(Energetic(things)) \in Nat
        BY ThingTyped, EnergeticFinite
      <4>. QED
        BY <1>9, <3>1, <4>1
    <3>. QED
      BY <1>6, <2>9, <3>2 DEF EnergyPaid
  <2>. QED
    BY <1>7, <2>9, <2>11 DEF IInv
<1>. QED
  BY <1>2, <1>10, <1>11, RelicsAssumption

LEMMA RandomPotionStep ==
    ASSUME IInv, random_potion
    PROVE  IInv'
<1>1. todo # <<>> /\ it.op \notin MapOps \cup HeadOps
  BY DEF random_potion, Doing, it, MapOps, HeadOps
<1>2. CleanList(IF it.n > 1 THEN <<Potions(it.n - 1)>> ELSE <<>>)
  <2>1. CleanList(<<Potions(it.n - 1)>>)
    BY CleanWords, CleanSingle
  <2>. QED
    BY <2>1, CleanNone
<1>3. \E c : CleanList(c) /\ Call(c)
  BY <1>2 DEF random_potion
<1>4. UNCHANGED <<scen, bus, combat, run, tally>>
  BY DEF random_potion
<1>5. CASE UNCHANGED <<things, player>>
  <2>1. PlayerOk(player', DOMAIN things) /\ player'.perTurn = player.perTurn
    BY <1>5, Typed
  <2>. QED
    BY <1>1, <1>3, <1>4, <1>5, <2>1, PlayerStep
<1>6. CASE ~(UNCHANGED <<things, player>>)
  <2>1. PICK kind \in scen.drops : /\ things' = Append(things, Thing(kind))
                                   /\ player' = [player EXCEPT !.potions = Append(@, Len(things) + 1)]
    BY <1>6 DEF random_potion
  <2>2. kind \in DOMAIN Known /\ Known[kind].pickup = <<>>
    BY Offered, RelicsAssumption
  <2>. DEFINE t == Thing(kind)
              id == Len(things) + 1
  <2>3. t \in ThingType /\ t.kind = kind
    BY <2>2, NewThing
  <2>4. /\ things' \in Seq(ThingType) /\ DOMAIN things' = DOMAIN things \cup {id} /\ Kept(things, things')
        /\ \A i \in DOMAIN things : things'[i] = things[i]
        /\ id \notin DOMAIN things /\ things'[id] = t
    <3>1. things' = Append(things, t)
      BY <2>1
    <3>. HIDE DEF t
    <3>. QED
      BY <2>3, <3>1, ThingTyped, Appended
  <2>5. PlayerOk(player', DOMAIN things') /\ player'.perTurn = player.perTurn
    <3>1. player.relics \in Seq(DOMAIN things') /\ player.potions \in Seq(DOMAIN things')
      <4>1. DOMAIN things \subseteq DOMAIN things'
        BY <2>4
      <4>. QED
        BY <4>1, Typed, LargerList DEF PlayerOk
    <3>2. Append(player.potions, id) \in Seq(DOMAIN things')
      BY <2>4, <3>1, AppendList
    <3>3. player' = [player EXCEPT !.potions = Append(@, id)]
      BY <2>1
    <3>. HIDE DEF id
    <3>. QED
      BY <3>1, <3>2, <3>3, Typed DEF PlayerOk, PlayerFields
  <2>6. State' /\ SaveOnce'
    BY <1>4, <2>1, <2>2, <2>5, MadeState
  <2>7. Energetic(things') = Energetic(things)
    <3>1. EnergyPerTurn \notin Range(Known[kind].pickup)
      BY <2>2 DEF Range
    <3>. HIDE DEF id
    <3>. QED
      BY <2>3, <2>4, <3>1 DEF Energetic
  <2>8. \E c : AllowedList(c, things') /\ Call(c)
    BY <1>3, CleanAllowed
  <2>. QED
    BY <1>1, <2>4, <2>5, <2>6, <2>7, <2>8, CallStep
<1>. QED
  BY <1>5, <1>6

LEMMA ListenersTyped ==
    ASSUME IInv
    PROVE  Listeners \in Seq(DOMAIN things)
<1>. DEFINE f == [i \in DOMAIN player.potions |->
                    IF things[player.potions[i]].kind = "FairyInABottle" THEN <<player.potions[i]>> ELSE <<>>]
            D == DOMAIN things
<1>1. player.relics \in Seq(D) /\ player.potions \in Seq(D)
  BY Typed DEF PlayerOk
<1>. HIDE DEF D
<1>2. /\ DOMAIN player.potions = 1 .. Len(player.potions) /\ Len(player.potions) \in Nat
      /\ \A i \in 1 .. Len(player.potions) : player.potions[i] \in D
  BY <1>1, LenProperties, ElementOfSeq
<1>3. \A i \in 1 .. Len(player.potions) : f[i] \in Seq(D)
  <2>1. \A x \in D : <<x>> \in Seq(D)
    OBVIOUS
  <2>. QED
    BY <1>2, <2>1
<1>4. f \in Seq(Seq(D))
  <2>1. f = [i \in 1 .. Len(player.potions) |-> f[i]]
    BY <1>2
  <2>. HIDE DEF f
  <2>. QED
    BY <1>2, <1>3, <2>1
<1>5. Fairies = FlattenSeq(f)
  BY DEF Fairies
<1>. HIDE DEF f
<1>6. Fairies \in Seq(D)
  BY <1>4, <1>5, FlattenList
<1>. HIDE DEF D
<1>7. player.relics \o Fairies \in Seq(D)
  BY <1>1, <1>6
<1>. QED
  BY <1>7 DEF Listeners, D

LEMMA StartCombatStep ==
    ASSUME IInv, start_combat
    PROVE  IInv'
<1>1. todo # <<>> /\ it.op \notin MapOps \cup HeadOps
  BY DEF start_combat, Doing, it, MapOps, HeadOps
<1>2. CleanList(<<Emit("COMBAT_START", ""), Go("begin_turn"), Go("loop")>>)
  BY CleanEmit, CleanCalls, CleanTuples
<1>3. \E c : AllowedList(c, things') /\ Call(c)
  BY <1>2, CleanAllowed DEF start_combat
<1>. DEFINE us == [id \in DOMAIN things |->
                     IF id \in Range(player.relics) THEN Afresh(things[id]) ELSE things[id]]
<1>4. things' = us
  BY DEF start_combat
<1>5. DOMAIN us = DOMAIN things /\ DOMAIN things = 1 .. Len(things) /\ Len(things) \in Nat
  BY ThingTyped
<1>6. \A id \in DOMAIN things : us[id] = Afresh(things[id]) \/ us[id] = things[id]
  OBVIOUS
<1>. HIDE DEF us
<1>7. \A id \in DOMAIN things : /\ us[id] \in ThingType /\ us[id].kind = things[id].kind
                                /\ us[id].saves = things[id].saves
                                /\ things[id].saves # 0 => us[id].mark
  <2>. SUFFICES ASSUME NEW id \in DOMAIN things
                PROVE  /\ us[id] \in ThingType /\ us[id].kind = things[id].kind
                       /\ us[id].saves = things[id].saves
                       /\ things[id].saves # 0 => us[id].mark
    OBVIOUS
  <2>1. things[id] \in ThingType
    BY ThingTyped
  <2>2. things[id].saves # 0 => things[id].mark /\ things[id].kind \in Savers
    BY DEF IInv, SaveOnce
  <2>3. CASE us[id] = things[id]
    BY <2>1, <2>2, <2>3
  <2>4. CASE us[id] = Afresh(things[id])
    BY <2>1, <2>2, <2>4, AfreshOk
  <2>. QED
    BY <1>6, <2>3, <2>4
<1>8. /\ things' \in Seq(ThingType) /\ DOMAIN things' = DOMAIN things
      /\ Kept(things, things') /\ Energetic(things') = Energetic(things)
  <2>1. us = [id \in 1 .. Len(things) |-> us[id]]
    BY <1>5 DEF us
  <2>2. us \in Seq(ThingType)
    BY <1>5, <1>7, <2>1
  <2>3. Kept(things, us) /\ Energetic(us) = Energetic(things)
    BY <1>5, <1>7 DEF Kept, Energetic
  <2>. QED
    BY <1>4, <1>5, <2>2, <2>3
<1>9. SaveOnce'
  <2>. SUFFICES ASSUME NEW id \in DOMAIN things, us[id].saves # 0
                PROVE  us[id].saves = 1 /\ us[id].mark /\ us[id].kind \in Savers
    BY <1>4, <1>5 DEF SaveOnce
  <2>1. things[id].saves # 0 => things[id].saves = 1 /\ things[id].kind \in Savers
    BY DEF IInv, SaveOnce
  <2>. QED
    BY <1>7, <2>1
<1>10. bus' \in Seq(DOMAIN things')
  BY <1>8, ListenersTyped DEF start_combat
<1>11. PlayerOk(player', DOMAIN things') /\ player'.perTurn = player.perTurn
  <2>1. \E l, f : player' = [player EXCEPT !.powers = << >>, !.lament = l, !.flags = f]
    BY DEF start_combat, CombatPowers
  <2>2. Integers(<< >>)
    BY DEF Integers
  <2>. QED
    BY <1>8, <2>1, <2>2, Typed DEF PlayerOk, PlayerFields
<1>12. CombatOk(combat')
  <2>1. \E e : combat' = [NoCombat EXCEPT !.open = TRUE, !.foe = e, !.foes = scen.foes]
    BY DEF start_combat
  <2>2. scen.foes \in Int
    BY Offered
  <2>. QED
    BY <2>1, <2>2, NoCombatOk DEF CombatOk, CombatFields
<1>13. State'
  BY <1>8, <1>10, <1>11, <1>12 DEF start_combat, IInv, State
<1>. QED
  BY <1>1, <1>3, <1>8, <1>9, <1>11, <1>13, CallStep

-----------------------------------------------------------------------------
(* The map *)

\* A nearest column is one of the columns: nearness is an order of the naturals.
LEMMA NearestIsThere ==
    ASSUME NEW cols \in SUBSET Nat, cols # {}, NEW col \in Nat
    PROVE  TheNearest(col, cols) \in cols
<1>. DEFINE Rank(c) == IF c < col THEN 2 * (col - c) ELSE 2 * (c - col) + 1
            ranks == {Rank(c) : c \in cols}
<1>1. ranks \in SUBSET Nat /\ ranks # {}
  <2>1. \A c \in cols : Rank(c) \in Nat
    <3>. SUFFICES ASSUME NEW c \in cols PROVE Rank(c) \in Nat
      OBVIOUS
    <3>1. c \in Nat
      OBVIOUS
    <3>. QED
      BY <3>1
  <2>. HIDE DEF Rank
  <2>. QED
    BY <2>1
<1>2. PICK c \in cols : \A d \in cols : Rank(c) <= Rank(d)
  <2>1. Min(ranks) \in ranks /\ \A r \in ranks : Min(ranks) <= r
    <3>. HIDE DEF ranks
    <3>. QED
      BY <1>1, MinOfNaturals
  <2>2. PICK c \in cols : Rank(c) = Min(ranks)
    BY <2>1
  <2>3. \A d \in cols : Rank(d) \in ranks
    OBVIOUS
  <2>. HIDE DEF ranks, Rank
  <2>. QED
    BY <2>1, <2>2, <2>3
<1>3. \A d \in cols : ~Nearer(col, d, c)
  <2>. SUFFICES ASSUME NEW d \in cols PROVE ~Nearer(col, d, c)
    OBVIOUS
  <2>1. c \in Nat /\ d \in Nat /\ Rank(c) <= Rank(d)
    BY <1>2
  <2>. QED
    BY <2>1 DEF Nearer, Distance
<1>. HIDE DEF Rank, ranks
<1>4. {d \in cols : Nearer(col, d, c)} = {}
  BY <1>3
<1>5. c \in Nearest(col, cols, 1)
  <2>1. Cardinality({d \in cols : Nearer(col, d, c)}) = 0
    BY <1>4, FS_EmptySet
  <2>. QED
    BY <2>1 DEF Nearest
<1>. QED
  BY <1>5 DEF TheNearest, Nearest

\* Connected edges lead from every room to columns above that exist, and to
\* every such column.
LEMMA ConnectedClimbs ==
    ASSUME NEW edges, NEW cols \in SUBSET Nat, NEW above \in SUBSET Nat, cols # {}, above # {}
    PROVE  /\ \A c \in cols : /\ Connected(edges, cols, above)[c] # {}
                              /\ Connected(edges, cols, above)[c] \subseteq above
           /\ \A o \in above : \E c \in cols : o \in Connected(edges, cols, above)[c]
<1>. DEFINE valid == [c \in cols |-> IF edges[c] \cap above = {}
                                     THEN {TheNearest(c, above)} ELSE edges[c] \cap above]
            orphans == above \ UNION {valid[c] : c \in cols}
            near(o) == TheNearest(o, cols)
<1>1. Connected(edges, cols, above) = [c \in cols |-> valid[c] \cup {o \in orphans : near(o) = c}]
  BY DEF Connected
<1>2. \A c \in cols : valid[c] # {} /\ valid[c] \subseteq above
  <2>. SUFFICES ASSUME NEW c \in cols PROVE valid[c] # {} /\ valid[c] \subseteq above
    OBVIOUS
  <2>1. TheNearest(c, above) \in above
    BY NearestIsThere
  <2>. QED
    BY <2>1
<1>3. \A o \in above : near(o) \in cols
  BY NearestIsThere
<1>4. \A o \in above : o \in orphans \/ \E c \in cols : o \in valid[c]
  OBVIOUS
<1>5. orphans \subseteq above
  OBVIOUS
<1>. HIDE DEF valid, orphans, near
<1>6. \A c \in cols : Connected(edges, cols, above)[c] = valid[c] \cup {o \in orphans : near(o) = c}
  BY <1>1
<1>. QED
  BY <1>2, <1>3, <1>4, <1>5, <1>6

\* Only the generator leaves the generator's calls to be executed.
LEMMA AtMap ==
    ASSUME IInv, todo # <<>>, it.op \in MapOps
    PROVE  Mapping
<1>. SUFFICES ASSUME Ordinary PROVE FALSE
  BY DEF IInv
<1>1. Allowed(it, things) \/ Pending(it, things)
  BY DEF Ordinary
<1>2. \A x : Clean(x) => x.op \notin Restricted
  BY CleanBranch DEF Proper
<1>3. it.op \notin HeadOps \cup OwnOps /\ it.op \in Restricted
  BY DEF MapOps, HeadOps, OwnOps, Restricted
<1>. QED
  BY <1>1, <1>2, <1>3 DEF Allowed, Pending, Owned, HeadOps, OwnOps

\* A step of the generator that leaves more of it to be done.
LEMMA MapStep ==
    ASSUME IInv, todo # <<>>, it.op \notin HeadOps, UNCHANGED <<scen, player, things, bus, combat, tally>>,
           DOMAIN run' = RunFields, Columns', NEW p, AllowedList(p, things),
           \/ \E b : Builds(b) /\ todo' = b \o ToConnect(p)
           \/ Climbs' /\ todo' \in {ToMerchant(p), ToTreasure(p), ToStart(p)}
    PROVE  IInv'
<1>1. Mapping'
  BY DEF Mapping
<1>2. Head(todo').op # "per_turn"
  <2>1. /\ Go("first").op = "first" /\ Go("connect").op = "connect"
        /\ \A n, of : GoWith("ensure", n, of).op = "ensure"
    BY DEF Go, GoWith, Do
  <2>2. CASE todo' \in {ToMerchant(p), ToTreasure(p), ToStart(p)}
    <3>1. Head(todo') \in {Go("first"), GoWith("ensure", MerchantFloor, "MERCHANT"),
                           GoWith("ensure", TreasureFloor, "TREASURE")}
      BY <2>2, MapHeads
    <3>. QED
      BY <2>1, <3>1
  <2>3. ASSUME NEW b, Builds(b), todo' = b \o ToConnect(p) PROVE Head(todo').op # "per_turn"
    <3>1. CASE b = <<>>
      BY <2>1, <2>3, <3>1, Built, MapHeads
    <3>2. CASE b # <<>>
      BY <2>3, <3>2, Built
    <3>. QED
      BY <3>1, <3>2
  <2>. QED
    BY <2>2, <2>3
<1>3. Due = 0 /\ Due' = 0
  BY <1>2 DEF Due, Doing, HeadOps, it
<1>4. EnergyPaid'
  <2>1. player.perTurn + 0 = 3 + Cardinality(Energetic(things))
    BY <1>3 DEF IInv, EnergyPaid
  <2>. QED
    BY <1>3, <2>1 DEF EnergyPaid
<1>5. State' /\ SaveOnce'
  BY DEF IInv, State, SaveOnce, PlayerOk, CombatOk, Integers
<1>. QED
  BY <1>1, <1>4, <1>5 DEF IInv

LEMMA BuildFloorStep ==
    ASSUME IInv, build_floor
    PROVE  IInv'
<1>1. todo # <<>> /\ it.op = "build" /\ it.op \in MapOps /\ it.op \notin HeadOps
  BY DEF build_floor, Doing, it, MapOps, HeadOps
<1>2. PICK p : /\ AllowedList(p, things) /\ Columns /\ IsList(Tail(todo))
               /\ \E b : Builds(b) /\ Tail(todo) = b \o ToConnect(p)
  BY <1>1, AtMap, MapCases
<1>3. todo' = Tail(todo)
  <2>1. todo' = <<>> \o Tail(todo)
    BY DEF build_floor, Call
  <2>. QED
    BY <1>2, <2>1 DEF IsList
<1>4. DOMAIN run' = RunFields /\ run'.cols = run.cols
  <2>1. \E k, e : run' = [run EXCEPT !.kind = k, !.edges = e]
    BY DEF build_floor
  <2>. QED
    BY <2>1, RunDomain DEF RunFields
<1>5. Columns'
  BY <1>2, <1>4 DEF Columns, Floors, build_floor
<1>. QED
  BY <1>1, <1>2, <1>3, <1>4, <1>5, MapStep DEF build_floor

LEMMA ConnectStep ==
    ASSUME IInv, ensure_connectivity
    PROVE  IInv'
<1>1. todo # <<>> /\ it.op = "connect" /\ it.op \in MapOps /\ it.op \notin HeadOps
  BY DEF ensure_connectivity, Doing, it, MapOps, HeadOps
<1>2. PICK p : AllowedList(p, things) /\ Columns /\ IsList(Tail(todo)) /\ Tail(todo) = ToMerchant(p)
  BY <1>1, AtMap, MapCases
<1>3. todo' = ToMerchant(p)
  <2>1. todo' = <<>> \o Tail(todo)
    BY DEF ensure_connectivity, Call
  <2>. QED
    BY <1>2, <2>1 DEF IsList
<1>. DEFINE edges == [f \in Floors |-> IF f + 1 \in Floors
                                       THEN Connected(run.edges[f], run.cols[f], run.cols[f + 1])
                                       ELSE run.edges[f]]
<1>4. run' = [run EXCEPT !.edges = edges]
  BY DEF ensure_connectivity
<1>5. \A f \in Floors \ {0} : edges[f - 1] = Connected(run.edges[f - 1], run.cols[f - 1], run.cols[f])
  <2>. SUFFICES ASSUME NEW f \in Floors \ {0}
                PROVE  edges[f - 1] = Connected(run.edges[f - 1], run.cols[f - 1], run.cols[f])
    OBVIOUS
  <2>1. f \in Int /\ f - 1 \in Floors /\ (f - 1) + 1 = f
    BY Offered DEF Floors
  <2>. QED
    BY <2>1
<1>. HIDE DEF edges
<1>6. DOMAIN run' = RunFields /\ run'.cols = run.cols /\ run'.edges = edges
  BY <1>4, RunDomain DEF RunFields
<1>7. Columns' /\ Floors' = Floors
  BY <1>2, <1>6 DEF Columns, Floors, ensure_connectivity
<1>8. Climbs'
  <2>. SUFFICES ASSUME NEW f \in Floors \ {0}
                PROVE  /\ \A c \in run.cols[f - 1] : edges[f - 1][c] # {} /\ edges[f - 1][c] \subseteq run.cols[f]
                       /\ \A c \in run.cols[f] : \E d \in run.cols[f - 1] : c \in edges[f - 1][d]
    BY <1>6, <1>7 DEF Climbs
  <2>1. f \in Floors /\ f - 1 \in Floors
    BY Offered DEF Floors
  <2>2. /\ run.cols[f - 1] \in SUBSET Nat /\ run.cols[f - 1] # {}
        /\ run.cols[f] \in SUBSET Nat /\ run.cols[f] # {}
    BY <1>2, <2>1 DEF Columns
  <2>. DEFINE e == run.edges[f - 1]
              low == run.cols[f - 1]
              high == run.cols[f]
  <2>3. edges[f - 1] = Connected(e, low, high)
    BY <1>5
  <2>4. low \in SUBSET Nat /\ low # {} /\ high \in SUBSET Nat /\ high # {}
    BY <2>2
  <2>5. /\ \A c \in low : edges[f - 1][c] # {} /\ edges[f - 1][c] \subseteq high
        /\ \A c \in high : \E d \in low : c \in edges[f - 1][d]
    <3>. HIDE DEF e, low, high
    <3>. DEFINE r == Connected(e, low, high)
    <3>1. /\ \A c \in low : r[c] # {} /\ r[c] \subseteq high
          /\ \A c \in high : \E d \in low : c \in r[d]
      BY <2>4, ConnectedClimbs
    <3>2. edges[f - 1] = r
      BY <2>3
    <3>. HIDE DEF r
    <3>. QED
      BY <3>1, <3>2, Zenon
  <2>. QED
    BY <2>5
<1>. QED
  BY <1>1, <1>2, <1>3, <1>6, <1>7, <1>8, MapStep DEF ensure_connectivity

LEMMA EnsureStep ==
    ASSUME IInv, ensure_node_type
    PROVE  IInv'
<1>1. todo # <<>> /\ it.op = "ensure" /\ it.op \in MapOps /\ it.op \notin HeadOps
  BY DEF ensure_node_type, Doing, it, MapOps, HeadOps
<1>2. PICK p : /\ AllowedList(p, things) /\ Columns /\ Climbs /\ IsList(Tail(todo))
               /\ Tail(todo) \in {ToTreasure(p), ToStart(p)}
  BY <1>1, AtMap, MapCases
<1>3. todo' \in {ToTreasure(p), ToStart(p)}
  <2>1. todo' = <<>> \o Tail(todo)
    BY DEF ensure_node_type, Call
  <2>. QED
    BY <1>2, <2>1 DEF IsList
<1>4. DOMAIN run' = RunFields /\ run'.cols = run.cols /\ run'.edges = run.edges
  <2>1. run' = run \/ \E k : run' = [run EXCEPT !.kind = k]
    BY DEF ensure_node_type
  <2>. QED
    BY <2>1, RunDomain DEF RunFields
<1>5. Columns' /\ Climbs'
  BY <1>2, <1>4 DEF Columns, Climbs, Floors, ensure_node_type
<1>. QED
  BY <1>1, <1>2, <1>3, <1>4, <1>5, MapStep DEF ensure_node_type

LEMMA FirstRoomStep ==
    ASSUME IInv, first_room
    PROVE  IInv'
<1>1. todo # <<>> /\ it.op = "first" /\ it.op \in MapOps
  BY DEF first_room, Doing, it, MapOps
<1>2. AllowedList(Tail(todo), things)
  BY <1>1, AtMap, MapCases
<1>3. PICK n : Call(<<GoWith("enter", n, "")>>)
  BY DEF first_room
<1>4. Ordinary' /\ Due' = 0
  <2>1. AllowedList(<<GoWith("enter", n, "")>>, things)
    BY CleanCalls, CleanSingle, CleanAllowed
  <2>2. things' = things
    BY DEF first_room
  <2>. QED
    BY <1>2, <1>3, <2>1, <2>2, Placed
<1>5. EnergyPaid'
  <2>1. Due = 0
    BY <1>1 DEF Due, Doing, it
  <2>2. player.perTurn + 0 = 3 + Cardinality(Energetic(things))
    BY <2>1 DEF IInv, EnergyPaid
  <2>. QED
    BY <1>4, <2>2 DEF EnergyPaid, first_room
<1>6. State' /\ SaveOnce'
  BY DEF first_room, IInv, State, SaveOnce, PlayerOk, CombatOk, Integers
<1>. QED
  BY <1>4, <1>5, <1>6 DEF IInv

LEMMA FourCalls ==
    ASSUME NEW S, NEW p \in Seq(S)
    PROVE  <<Go("connect"), GoWith("ensure", MerchantFloor, "MERCHANT"),
             GoWith("ensure", TreasureFloor, "TREASURE"), Go("first")>> \o p = ToConnect(p)
<1>. DEFINE x == Go("connect")
            y == GoWith("ensure", MerchantFloor, "MERCHANT")
            z == GoWith("ensure", TreasureFloor, "TREASURE")
            w == Go("first")
<1>0. ToConnect(p) = <<x>> \o (<<y>> \o (<<z>> \o (<<w>> \o p)))
  BY DEF ToConnect, ToMerchant, ToTreasure, ToStart
<1>. SUFFICES <<x, y, z, w>> \o p = <<x>> \o (<<y>> \o (<<z>> \o (<<w>> \o p)))
  BY <1>0
<1>. HIDE DEF x, y, z, w
<1>. DEFINE T == S \cup {x, y, z, w}
<1>1. p \in Seq(T)
  <2>1. S \subseteq T
    OBVIOUS
  <2>. HIDE DEF T
  <2>. QED
    BY <2>1, LargerList
<1>2. \A a : a \in {x, y, z, w} => <<a>> \in Seq(T)
  OBVIOUS
<1>. DEFINE two == <<z, w>>
            three == <<y, z, w>>
            four == <<x, y, z, w>>
<1>3. two \in Seq(T) /\ three \in Seq(T)
  OBVIOUS
<1>. HIDE DEF T
<1>4. four = <<x>> \o three /\ three = <<y>> \o two /\ two = <<z>> \o <<w>>
  <2>1. four = <<x>> \o three
    OBVIOUS
  <2>2. three = <<y>> \o two
    OBVIOUS
  <2>3. two = <<z>> \o <<w>>
    <3>. DEFINE V == {z, w}
                last == <<w>>
    <3>1. last \in Seq(V) /\ two \in Seq(V) /\ <<z>> \in Seq(V) /\ Len(last) = 1 /\ last[1] = w
      OBVIOUS
    <3>2. Len(two) = 2 /\ two[1] = z /\ two[2] = w
      OBVIOUS
    <3>. HIDE DEF V, last, two
    <3>. DEFINE one == <<z>>
    <3>7. one \in Seq(V) /\ Len(one) = 1 /\ one[1] = z
      BY <3>1
    <3>. HIDE DEF one
    <3>8. Len(one \o last) = 2 /\ (one \o last)[1] = one[1] /\ (one \o last)[2] = last[1]
      <4>1. /\ Len(one \o last) = Len(one) + Len(last)
            /\ \A i \in 1 .. Len(one) + Len(last) :
                  (one \o last)[i] = IF i <= Len(one) THEN one[i] ELSE last[i - Len(one)]
        <5>1. one \in Seq(V) /\ last \in Seq(V)
          BY <3>1, <3>7
        <5>. QED
          BY <5>1, ConcatProperties, Zenon
      <4>. DEFINE both == one \o last
      <4>. HIDE DEF both
      <4>2. Len(both) = 2 /\ both[1] = one[1] /\ both[2] = last[1]
        BY <3>1, <3>7, <4>1 DEF both
      <4>. QED
        BY <4>2 DEF both
    <3>3. Len(<<z>> \o last) = 2 /\ (<<z>> \o last)[1] = z /\ (<<z>> \o last)[2] = w
      BY <3>1, <3>7, <3>8, Zenon DEF one
    <3>4. \A i \in 1 .. Len(two) : two[i] = (<<z>> \o last)[i]
      BY <3>2, <3>3
    <3>5. <<z>> \o last \in Seq(V)
      BY <3>1
    <3>6. two = <<z>> \o last
      BY <3>1, <3>2, <3>3, <3>4, <3>5, SeqEqual
    <3>. QED
      BY <3>6 DEF last
  <2>. QED
    BY <2>1, <2>2, <2>3
<1>. HIDE DEF two, three, four
<1>5. four \o p = <<x>> \o (three \o p)
  <2>1. (<<x>> \o three) \o p = <<x>> \o (three \o p)
    BY <1>1, <1>2, <1>3, ConcatAssociative
  <2>. QED
    BY <1>4, <2>1, Zenon
<1>6. three \o p = <<y>> \o (two \o p)
  <2>1. (<<y>> \o two) \o p = <<y>> \o (two \o p)
    BY <1>1, <1>2, <1>3, ConcatAssociative
  <2>. QED
    BY <1>4, <2>1, Zenon
<1>7. two \o p = <<z>> \o (<<w>> \o p)
  <2>1. (<<z>> \o <<w>>) \o p = <<z>> \o (<<w>> \o p)
    BY <1>1, <1>2, ConcatAssociative
  <2>. QED
    BY <1>4, <2>1, Zenon
<1>8. four \o p = <<x>> \o (<<y>> \o (<<z>> \o (<<w>> \o p)))
  BY <1>5, <1>6, <1>7, Zenon
<1>. QED
  BY <1>8 DEF four

LEMMA GenerateMapStep ==
    ASSUME IInv, generate_map
    PROVE  IInv'
<1>1. todo # <<>> /\ it.op \notin MapOps \cup HeadOps
  BY DEF generate_map, Doing, it, MapOps, HeadOps
<1>. DEFINE p == Tail(todo)
            n == scen.floors
            floor(f) == GoWith("build", f - 1, "")
            b == [f \in 1 .. n |-> floor(f)]
            m == <<Go("connect"), GoWith("ensure", MerchantFloor, "MERCHANT"),
                   GoWith("ensure", TreasureFloor, "TREASURE"), Go("first")>>
<1>2. AllowedList(p, things)
  BY <1>1, AtHead
<1>3. n \in Nat
  BY Offered
<1>4. Builds(b)
  <2>. DEFINE S == {floor(f) : f \in 1 .. n}
  <2>1. \A f \in 1 .. n : floor(f).op = "build"
    BY DEF GoWith, Do
  <2>. HIDE DEF floor
  <2>2. \A x \in S : x.op = "build"
    BY <2>1
  <2>3. b \in Seq(S)
    <3>. HIDE DEF n
    <3>1. \A f \in 1 .. n : floor(f) \in S
      OBVIOUS
    <3>. HIDE DEF S
    <3>. QED
      BY <1>3, <3>1
  <2>. HIDE DEF b, S
  <2>. QED
    BY <2>2, <2>3 DEF Builds
<1>5. todo' = (b \o m) \o p
  BY DEF generate_map, Call
<1>6. PICK cols \in [Floors -> {c \in SUBSET scen.cols : Cardinality(c) \in 1 .. scen.active}] :
         run' = [run EXCEPT !.floor = -1, !.cols = cols, !.kind = << >>, !.edges = << >>]
  BY DEF generate_map
<1>7. DOMAIN run' = RunFields /\ run'.cols = cols
  BY <1>6, RunDomain DEF RunFields
<1>8. Columns'
  <2>. SUFFICES ASSUME NEW f \in Floors PROVE cols[f] \subseteq Nat /\ cols[f] # {}
    BY <1>7 DEF Columns, Floors, generate_map
  <2>1. cols[f] \subseteq scen.cols /\ Cardinality(cols[f]) \in 1 .. scen.active
    OBVIOUS
  <2>2. cols[f] # {}
    BY <2>1, FS_EmptySet
  <2>. QED
    BY <2>1, <2>2, Offered
<1>9. m \o p = ToConnect(p) /\ (b \o m) \o p = b \o (m \o p)
  <2>1. PICK S : p \in Seq(S)
    BY <1>2 DEF AllowedList
  <2>2. PICK T : b \in Seq(T)
    BY <1>4 DEF Builds
  <2>. HIDE DEF b, p
  <2>. DEFINE E == {m[i] : i \in 1 .. 4}
              U == S \cup T \cup E
  <2>3. m \in Seq(E)
    OBVIOUS
  <2>4. b \in Seq(U) /\ p \in Seq(U) /\ m \in Seq(U)
    <3>1. S \subseteq U /\ T \subseteq U /\ E \subseteq U
      OBVIOUS
    <3>. HIDE DEF U, m, E
    <3>. QED
      BY <2>1, <2>2, <2>3, <3>1, LargerList
  <2>. HIDE DEF U
  <2>5. m \o p = ToConnect(p)
    BY <2>1, FourCalls
  <2>6. (b \o m) \o p = b \o (m \o p)
    <3>. HIDE DEF m
    <3>. QED
      BY <2>4, ConcatAssociative
  <2>. QED
    BY <2>5, <2>6
<1>10. Builds(b) /\ todo' = b \o ToConnect(p)
  <2>. HIDE DEF b, m, p
  <2>. QED
    BY <1>4, <1>5, <1>9
<1>. HIDE DEF b, m, p
<1>11. \E bb : Builds(bb) /\ todo' = bb \o ToConnect(p)
  BY <1>10
<1>. QED
  BY <1>1, <1>2, <1>7, <1>8, <1>11, MapStep DEF generate_map

-----------------------------------------------------------------------------
(* The theorems *)

LEMMA InitHolds == Init => IInv
<1>. SUFFICES ASSUME Init PROVE IInv
  OBVIOUS
<1>1. scen \in ScenarioShape
  BY ScenariosAssumption DEF Init
<1>2. /\ scen.gifts \in Seq(DOMAIN Catalogue) /\ scen.potions \in Seq({"Potion", "FairyInABottle"})
      /\ scen.deck \in [CardKinds -> Nat]
  BY <1>1 DEF ScenarioShape
<1>3. tally \in [Counted -> Nat] /\ bus = <<>> /\ combat = NoCombat /\ DOMAIN run = RunFields
  BY DEF Init, RunFields
<1>4. DOMAIN scen.potions = 1 .. Len(scen.potions) /\ Len(scen.potions) \in Nat
  BY <1>2, LenProperties
<1>5. \A i \in DOMAIN scen.potions : scen.potions[i] \in DOMAIN Known /\ Known[scen.potions[i]].pickup = <<>>
  <2>1. \A i \in DOMAIN scen.potions : scen.potions[i] \in {"Potion", "FairyInABottle"}
    BY <1>2, <1>4, ElementOfSeq
  <2>2. \A kind \in {"FairyInABottle", "Potion"} : kind \in DOMAIN Known /\ Known[kind].pickup = <<>>
    BY RelicsAssumption
  <2>. QED
    BY <2>1, <2>2
<1>6. things = [i \in 1 .. Len(scen.potions) |-> Thing(scen.potions[i])]
  BY <1>4 DEF Init
<1>7. \A kind \in DOMAIN Known : Thing(kind) \in ThingType /\ Thing(kind).kind = kind /\ Thing(kind).saves = 0
  BY <1>3 DEF Thing, ThingType
<1>8. /\ DOMAIN things = 1 .. Len(scen.potions)
      /\ \A id \in DOMAIN things : /\ things[id] \in ThingType /\ things[id].saves = 0
                                  /\ Known[things[id].kind].pickup = <<>>
  <2>1. DOMAIN things = 1 .. Len(scen.potions)
    BY <1>6
  <2>2. \A id \in DOMAIN things : things[id] = Thing(scen.potions[id]) /\ id \in DOMAIN scen.potions
    BY <1>4, <1>6
  <2>. QED
    BY <1>5, <1>7, <2>1, <2>2
<1>9. things \in Seq(ThingType)
  <2>. DEFINE n == Len(scen.potions)
  <2>1. n \in Nat /\ DOMAIN things = 1 .. n /\ things = [i \in 1 .. n |-> things[i]]
    BY <1>4, <1>6, <1>8
  <2>2. \A i \in 1 .. n : things[i] \in ThingType
    BY <1>8
  <2>. HIDE DEF n
  <2>. QED
    BY <2>1, <2>2
<1>10. PlayerOk(player, DOMAIN things) /\ player.perTurn = 3
  <2>. DEFINE held == [i \in 1 .. Len(scen.potions) |-> i]
  <2>1. held \in Seq(DOMAIN things)
    BY <1>4, <1>8
  <2>2. player = [NewPlayer(scen) EXCEPT !.potions = held]
    BY <1>4 DEF Init
  <2>. HIDE DEF held
  <2>3. /\ DOMAIN player = PlayerFields /\ player.powers = << >> /\ player.deck = scen.deck
        /\ player.energy = 3 /\ player.perTurn = 3 /\ player.relics = <<>> /\ player.potions = held
    BY <2>2 DEF NewPlayer, PlayerFields
  <2>4. Integers(<<>>) /\ <<>> \in Seq(DOMAIN things)
    BY DEF Integers
  <2>5. scen.deck \in [CardKinds -> Int]
    BY <1>2
  <2>. QED
    BY <2>1, <2>3, <2>4, <2>5 DEF PlayerOk
<1>11. State
  <2>1. bus \in Seq(DOMAIN things)
    BY <1>3
  <2>. QED
    BY <1>1, <1>3, <1>9, <1>10, <2>1, NoCombatOk DEF State
<1>12. SaveOnce
  BY <1>8 DEF SaveOnce
<1>. DEFINE gift(i) == GoWith("obtain", 0, scen.gifts[i])
            gifts == [i \in 1 .. Len(scen.gifts) |-> gift(i)]
<1>13. CleanList(gifts)
  <2>. DEFINE S == {gift(i) : i \in 1 .. Len(scen.gifts)}
  <2>1. Len(scen.gifts) \in Nat /\ \A i \in 1 .. Len(scen.gifts) : scen.gifts[i] \in DOMAIN Catalogue
    BY <1>2, LenProperties, ElementOfSeq
  <2>2. \A i \in 1 .. Len(scen.gifts) : Clean(gift(i))
    BY <2>1, ObtainClean
  <2>. HIDE DEF gift
  <2>3. \A i \in 1 .. Len(scen.gifts) : gift(i) \in S
    OBVIOUS
  <2>4. \A x \in S : Clean(x)
    BY <2>2
  <2>. HIDE DEF S
  <2>5. gifts \in Seq(S)
    BY <2>1, <2>3
  <2>. HIDE DEF gifts
  <2>. QED
    BY <2>4, <2>5, CleanOf
<1>14. todo = gifts \o <<Go("act")>>
  <2>1. DOMAIN scen.gifts = 1 .. Len(scen.gifts)
    BY <1>2, LenProperties
  <2>. QED
    BY <2>1 DEF Init
<1>. HIDE DEF gifts
<1>15. CleanList(todo)
  BY <1>13, <1>14, CleanCalls, CleanSingle, CleanConcat
<1>16. Ordinary
  <2>1. AllowedList(todo, things)
    BY <1>15, CleanAllowed
  <2>. QED
    BY <2>1, AllowedParts DEF Ordinary, IsList, AllowedList, it
<1>17. Due = 0
  <2>1. \A x \in ToSet(todo) : x.op # "per_turn"
    BY <1>15, CleanElement, CleanBranch DEF Proper, Restricted
  <2>2. todo # <<>> => Head(todo) \in ToSet(todo)
    BY <1>15, CleanElement
  <2>. QED
    BY <2>1, <2>2 DEF Due, Doing
<1>18. EnergyPaid
  <2>1. Energetic(things) = {}
    <3>1. Range(<<>>) = {}
      BY DEF Range
    <3>. QED
      BY <1>8, <3>1 DEF Energetic
  <2>. QED
    BY <1>10, <1>17, <2>1, FS_EmptySet DEF EnergyPaid
<1>. QED
  BY <1>11, <1>12, <1>16, <1>18 DEF IInv

LEMMA StepHolds == IInv /\ [Next]_vars => IInv'
<1>. SUFFICES ASSUME IInv, [Next]_vars PROVE IInv'
  OBVIOUS
<1>1. CASE emit
  BY <1>1, EmitStep
<1>2. CASE register
  BY <1>2, RegisterStep
<1>3. CASE obtain_relic
  BY <1>3, ObtainStep
<1>4. CASE random_relic
  BY <1>4, RandomRelicStep
<1>5. CASE random_potion
  BY <1>5, RandomPotionStep
<1>6. CASE apply
  BY <1>6, ApplyStep
<1>7. CASE change_deck
  BY <1>7, ChangeDeckStep
<1>8. CASE open_pandoras_box
  BY <1>8, PandoraStep
<1>9. CASE pop_relics
  BY <1>9, PopRelicsStep
<1>10. CASE pop_potion
  BY <1>10, PopPotionStep
<1>11. CASE damage_stopped
  BY <1>11, DamageStoppedStep
<1>12. CASE damage_lethal
  BY <1>12, DamageLethalStep
<1>13. CASE damage_taken
  BY <1>13, DamageTakenStep
<1>14. CASE fall
  BY <1>14, FallStep
<1>15. CASE bleed
  BY <1>15, BleedStep
<1>16. CASE revive
  BY <1>16, ReviveStep
<1>17. CASE fairy
  BY <1>17, FairyStep
<1>18. CASE gain_block
  BY <1>18, GainBlockStep
<1>19. CASE debuff
  BY <1>19, DebuffStep
<1>20. CASE every
  BY <1>20, EveryStep
<1>21. CASE once
  BY <1>21, OnceStep
<1>22. CASE mark
  BY <1>22, MarkStep
<1>23. CASE restart
  BY <1>23, RestartStep
<1>24. CASE pellets
  BY <1>24, PelletsStep
<1>25. CASE test
  BY <1>25, TestStep
<1>26. CASE pay
  BY <1>26, PayStep
<1>27. CASE roll
  BY <1>27, RollStep
<1>28. CASE draw
  BY <1>28, DrawStep
<1>29. CASE attack
  BY <1>29, AttackStep
<1>30. CASE hit
  BY <1>30, HitStep
<1>31. CASE tag
  BY <1>31, TagStep
<1>32. CASE discard_from_hand
  BY <1>32, DiscardStep
<1>33. CASE exhaust_card
  BY <1>33, ExhaustCardStep
<1>34. CASE each_in_hand
  BY <1>34, EachInHandStep
<1>35. CASE spend_x
  BY <1>35, SpendXStep
<1>36. CASE havoc
  BY <1>36, HavocStep
<1>37. CASE pain
  BY <1>37, PainStep
<1>38. CASE end_of_turn
  BY <1>38, EndOfTurnStep
<1>39. CASE check_enemy_deaths
  BY <1>39, EnemyDeathsStep
<1>40. CASE start_combat
  BY <1>40, StartCombatStep
<1>41. CASE begin_player_turn
  BY <1>41, BeginTurnStep
<1>42. CASE opening_hand
  BY <1>42, OpeningHandStep
<1>43. CASE combat_over
  BY <1>43, CombatOverStep
<1>44. CASE next_turn
  BY <1>44, NextTurnStep
<1>45. CASE combat_drawn
  BY <1>45, CombatDrawnStep
<1>46. CASE play_card
  BY <1>46, PlayCardStep
<1>47. CASE resolve
  BY <1>47, ResolveStep
<1>48. CASE judge_on
  BY <1>48, JudgeOnStep
<1>49. CASE judge_now
  BY <1>49, JudgeNowStep
<1>50. CASE end_player_turn
  BY <1>50, EndTurnStep
<1>51. CASE discard_hand
  BY <1>51, DiscardHandStep
<1>52. CASE enemy_phase
  BY <1>52, EnemyPhaseStep
<1>53. CASE enemies_left
  BY <1>53, EnemiesLeftStep
<1>54. CASE round_end
  BY <1>54, RoundEndStep
<1>55. CASE close_combat
  BY <1>55, CloseCombatStep
<1>56. CASE rewards
  BY <1>56, RewardsStep
<1>57. CASE card_reward
  BY <1>57, CardRewardStep
<1>58. CASE potion_drop
  BY <1>58, PotionDropStep
<1>59. CASE rest
  BY <1>59, RestStep
<1>60. CASE rest_action
  BY <1>60, RestActionStep
<1>61. CASE shop
  BY <1>61, ShopStep
<1>62. CASE treasure
  BY <1>62, TreasureStep
<1>63. CASE event
  BY <1>63, EventStep
<1>64. CASE generate_map
  BY <1>64, GenerateMapStep
<1>65. CASE build_floor
  BY <1>65, BuildFloorStep
<1>66. CASE ensure_connectivity
  BY <1>66, ConnectStep
<1>67. CASE ensure_node_type
  BY <1>67, EnsureStep
<1>68. CASE first_room
  BY <1>68, FirstRoomStep
<1>69. CASE move_to
  BY <1>69, MoveToStep
<1>70. CASE run_lost
  BY <1>70, RunLostStep
<1>71. CASE next_room
  BY <1>71, NextRoomStep
<1>72. CASE act_end
  BY <1>72, ActEndStep
<1>73. CASE UNCHANGED vars
  <2>1. UNCHANGED <<scen, player, things, bus, combat, run, todo, tally>>
    BY <1>73 DEF vars
  <2>2. State' = State /\ SaveOnce' = SaveOnce
    BY <2>1 DEF State, SaveOnce
  <2>3. EnergyPaid' = EnergyPaid
    BY <2>1 DEF EnergyPaid, Due, Doing
  <2>4. Ordinary' = Ordinary
    BY <2>1 DEF Ordinary, it
  <2>5. Mapping' = Mapping
    <3>1. Columns' = Columns /\ Climbs' = Climbs
      BY <2>1 DEF Columns, Climbs, Floors
    <3>. QED
      BY <2>1, <3>1 DEF Mapping
  <2>. QED
    BY <2>2, <2>3, <2>4, <2>5 DEF IInv
<1>. QED
  BY <1>1, <1>2, <1>3, <1>4, <1>5, <1>6, <1>7, <1>8, <1>9, <1>10, <1>11, <1>12, <1>13, <1>14, <1>15, <1>16,
     <1>17, <1>18, <1>19, <1>20, <1>21, <1>22, <1>23, <1>24, <1>25, <1>26, <1>27, <1>28, <1>29, <1>30, <1>31,
     <1>32, <1>33, <1>34, <1>35, <1>36, <1>37, <1>38, <1>39, <1>40, <1>41, <1>42, <1>43, <1>44, <1>45, <1>46,
     <1>47, <1>48, <1>49, <1>50, <1>51, <1>52, <1>53, <1>54, <1>55, <1>56, <1>57, <1>58, <1>59, <1>60, <1>61,
     <1>62, <1>63, <1>64, <1>65, <1>66, <1>67, <1>68, <1>69, <1>70, <1>71, <1>72, <1>73 DEF Next, Over

\* The invariant the others follow from.
THEOREM JourneyHolds == Spec => []IInv
<1>. QED
  BY InitHolds, StepHolds, PTL DEF Spec

\* On every finished map every room leads up and none is unreachable.
THEOREM MapsClimb == Spec => []MapClimbs
<1>1. IInv => MapClimbs
  <2>. SUFFICES ASSUME IInv, todo # <<>>, it.op = "first" PROVE Climbs
    BY DEF MapClimbs, Climbs
  <2>. QED
    BY AtMap, MapCases DEF MapOps
<1>. QED
  BY <1>1, JourneyHolds, PTL

\* Every energy relic was paid for once.
THEOREM PickupsPaidOnce == Spec => []PickupsOnce
<1>1. IInv => PickupsOnce
  <2>. SUFFICES ASSUME IInv, Quiet PROVE player.perTurn = 3 + Cardinality(Energetic(things))
    BY DEF PickupsOnce, Energetic
  <2>1. Due = 0
    BY DEF Quiet, Due, Doing, it
  <2>2. player.perTurn + 0 = player.perTurn
    BY Typed DEF PlayerOk
  <2>. QED
    BY <2>1, <2>2 DEF IInv, EnergyPaid
<1>. QED
  BY <1>1, JourneyHolds, PTL

\* Nothing saves its owner twice.
THEOREM SavedOnce == Spec => []RevivesOnce
<1>1. IInv => RevivesOnce
  <2>. SUFFICES ASSUME IInv, NEW id \in DOMAIN things PROVE things[id].saves <= 1
    BY DEF RevivesOnce
  <2>1. things[id].saves # 0 => things[id].saves = 1
    BY DEF IInv, SaveOnce
  <2>. QED
    BY <2>1
<1>. QED
  BY <1>1, JourneyHolds, PTL

=============================================================================
