------------------------- MODULE JourneyListenProofs -------------------------
(****************************************************************************)
(* Theorems about who listens in a combat of module Journey.  What todo      *)
(* holds is a body of effects that fit the place - inside of a combat or     *)
(* outside -, before what the driver decides next (Shape).  The relics that  *)
(* do not listen yet are those whose register() stands at the front of it.   *)
(****************************************************************************)
EXTENDS JourneyProofs

-----------------------------------------------------------------------------
(* Where effects may stand *)

\* An effect is free to stand in a place if it fits there, and so does
\* everything it may run there.
Free(x, m) == \E E : x \in E /\ Shut(E, m)
FreeList(p, m) == \E E : p \in Seq(E) /\ Shut(E, m)

LEMMA ShutUnion ==
    ASSUME NEW m, NEW Es, \A E \in Es : Shut(E, m)
    PROVE  Shut(UNION Es, m)
<1>. SUFFICES ASSUME NEW E \in Es, NEW x \in E
              PROVE  Fit(x, m) /\ \A b \in Leads(x, m) : b \in Seq(UNION Es)
  BY DEF Shut
<1>1. Fit(x, m) /\ \A b \in Leads(x, m) : b \in Seq(E)
  BY DEF Shut
<1>2. E \subseteq UNION Es
  OBVIOUS
<1>. QED
  BY <1>1, <1>2, LargerList

LEMMA FreeNone == \A m : FreeList(<<>>, m)
<1>1. \A m : Shut({}, m) /\ <<>> \in Seq({})
  BY DEF Shut
<1>. QED
  BY <1>1 DEF FreeList

LEMMA FreeOf ==
    ASSUME NEW m, NEW S, \A x \in S : Free(x, m), NEW p \in Seq(S)
    PROVE  FreeList(p, m)
<1>. DEFINE Of(x) == CHOOSE E : x \in E /\ Shut(E, m)
            Es == {Of(x) : x \in S}
<1>1. \A x \in S : x \in Of(x) /\ Shut(Of(x), m)
  BY DEF Free
<1>. HIDE DEF Of
<1>2. Shut(UNION Es, m)
  BY <1>1, ShutUnion
<1>3. S \subseteq UNION Es
  BY <1>1
<1>4. p \in Seq(UNION Es)
  BY <1>3, LargerList
<1>. QED
  BY <1>2, <1>4 DEF FreeList

LEMMA FreeElement ==
    ASSUME NEW m, NEW p, FreeList(p, m)
    PROVE  p \in Seq(ToSet(p)) /\ \A x \in ToSet(p) : Free(x, m)
<1>1. PICK E : p \in Seq(E) /\ Shut(E, m)
  BY DEF FreeList
<1>2. Len(p) \in Nat /\ DOMAIN p = 1 .. Len(p) /\ p = [i \in 1 .. Len(p) |-> p[i]]
  BY <1>1, LenProperties
<1>3. ToSet(p) \subseteq E /\ \A i \in 1 .. Len(p) : p[i] \in ToSet(p)
  BY <1>1, Elements
<1>4. p \in Seq(ToSet(p))
  BY <1>2, <1>3
<1>5. \A x \in ToSet(p) : Free(x, m)
  BY <1>1, <1>3 DEF Free
<1>. QED
  BY <1>4, <1>5

LEMMA FreeConcat ==
    ASSUME NEW m, NEW p, NEW q, FreeList(p, m), FreeList(q, m)
    PROVE  FreeList(p \o q, m)
<1>1. PICK E : p \in Seq(E) /\ Shut(E, m)
  BY DEF FreeList
<1>2. PICK F : q \in Seq(F) /\ Shut(F, m)
  BY DEF FreeList
<1>3. p \in Seq(UNION {E, F}) /\ q \in Seq(UNION {E, F})
  <2>1. E \subseteq UNION {E, F} /\ F \subseteq UNION {E, F}
    OBVIOUS
  <2>. QED
    BY <1>1, <1>2, <2>1, LargerList
<1>4. Shut(UNION {E, F}, m)
  BY <1>1, <1>2, ShutUnion
<1>5. p \o q \in Seq(UNION {E, F})
  BY <1>3
<1>. QED
  BY <1>4, <1>5 DEF FreeList

LEMMA FreeSingle ==
    ASSUME NEW m, NEW x, Free(x, m)
    PROVE  FreeList(<<x>>, m)
<1>1. PICK E : x \in E /\ Shut(E, m)
  BY DEF Free
<1>2. <<x>> \in Seq(E)
  BY <1>1
<1>. QED
  BY <1>1, <1>2 DEF FreeList

LEMMA FreeBranch ==
    ASSUME NEW m, NEW x, Free(x, m)
    PROVE  Fit(x, m) /\ \A b \in Leads(x, m) : FreeList(b, m)
BY DEF Free, Shut, FreeList

LEMMA FreeEffect ==
    ASSUME NEW m, NEW x, Fit(x, m), \A b \in Leads(x, m) : FreeList(b, m)
    PROVE  Free(x, m)
<1>. DEFINE Of(b) == CHOOSE E : b \in Seq(E) /\ Shut(E, m)
            Es == {Of(b) : b \in Leads(x, m)}
            E == {x} \cup UNION Es
<1>1. \A b \in Leads(x, m) : b \in Seq(Of(b)) /\ Shut(Of(b), m)
  BY DEF FreeList
<1>. HIDE DEF Of
<1>2. Shut(UNION Es, m)
  BY <1>1, ShutUnion
<1>3. \A b \in Leads(x, m) : b \in Seq(E)
  <2>. SUFFICES ASSUME NEW b \in Leads(x, m) PROVE b \in Seq(E)
    OBVIOUS
  <2>1. Of(b) \subseteq E
    OBVIOUS
  <2>. QED
    BY <1>1, <2>1, LargerList
<1>. HIDE DEF Es
<1>4. Shut(E, m)
  <2>. SUFFICES ASSUME NEW y \in UNION Es, NEW b \in Leads(y, m)
                PROVE  b \in Seq(E)
    BY <1>2, <1>3 DEF Shut
  <2>1. b \in Seq(UNION Es)
    BY <1>2 DEF Shut
  <2>2. UNION Es \subseteq E
    OBVIOUS
  <2>. QED
    BY <2>1, <2>2, LargerList
<1>. QED
  BY <1>4 DEF Free

\* A free effect stays free when it is told who runs it and what for.
LEMMA FreeTagged ==
    ASSUME NEW m, NEW x, Free(x, m), NEW w, NEW a
    PROVE  Free([x EXCEPT !.who = w, !.arg = IF @ = "" THEN a ELSE @], m)
<1>. DEFINE y == [x EXCEPT !.who = w, !.arg = IF @ = "" THEN a ELSE @]
<1>1. Fit(x, m) /\ \A b \in Leads(x, m) : FreeList(b, m)
  BY FreeBranch
<1>2. DOMAIN y = DOMAIN x /\ y.op = x.op /\ y.n = x.n /\ y.of = x.of /\ y.then = x.then
  BY <1>1 DEF Fit, Fields
<1>. HIDE DEF y
<1>3. Fit(y, m)
  BY <1>1, <1>2 DEF Fit
<1>4. Leads(y, m) = Leads(x, m)
  BY <1>2 DEF Leads, Branches, Asks
<1>5. Free(y, m)
  BY <1>1, <1>3, <1>4, FreeEffect
<1>. QED
  BY <1>5 DEF y

LEMMA FreeTuples ==
    ASSUME NEW m
    PROVE
    /\ \A a : Free(a, m) => FreeList(<<a>>, m)
    /\ \A a, b : Free(a, m) /\ Free(b, m) => FreeList(<<a, b>>, m)
    /\ \A a, b, c : Free(a, m) /\ Free(b, m) /\ Free(c, m) => FreeList(<<a, b, c>>, m)
    /\ \A a, b, c, d : Free(a, m) /\ Free(b, m) /\ Free(c, m) /\ Free(d, m) => FreeList(<<a, b, c, d>>, m)
    /\ \A a, b, c, d, e : Free(a, m) /\ Free(b, m) /\ Free(c, m) /\ Free(d, m) /\ Free(e, m) =>
          FreeList(<<a, b, c, d, e>>, m)
<1>1. ASSUME NEW a, Free(a, m) PROVE FreeList(<<a>>, m)
  BY <1>1, FreeSingle
<1>2. ASSUME NEW a, NEW b, Free(a, m), Free(b, m) PROVE FreeList(<<a, b>>, m)
  <2>1. <<a, b>> \in Seq({a, b})
    OBVIOUS
  <2>. QED
    BY <1>2, <2>1, FreeOf
<1>3. ASSUME NEW a, NEW b, NEW c, Free(a, m), Free(b, m), Free(c, m) PROVE FreeList(<<a, b, c>>, m)
  <2>1. <<a, b, c>> \in Seq({a, b, c})
    OBVIOUS
  <2>. QED
    BY <1>3, <2>1, FreeOf
<1>4. ASSUME NEW a, NEW b, NEW c, NEW d, Free(a, m), Free(b, m), Free(c, m), Free(d, m)
      PROVE  FreeList(<<a, b, c, d>>, m)
  <2>1. <<a, b, c, d>> \in Seq({a, b, c, d})
    OBVIOUS
  <2>. QED
    BY <1>4, <2>1, FreeOf
<1>5. ASSUME NEW a, NEW b, NEW c, NEW d, NEW e, Free(a, m), Free(b, m), Free(c, m), Free(d, m), Free(e, m)
      PROVE  FreeList(<<a, b, c, d, e>>, m)
  <2>1. <<a, b, c, d, e>> \in Seq({a, b, c, d, e})
    OBVIOUS
  <2>. QED
    BY <1>5, <2>1, FreeOf
<1>. QED
  BY <1>1, <1>2, <1>3, <1>4, <1>5

LEMMA FreeFlatten ==
    ASSUME NEW m, NEW n \in Int, NEW f, \A i \in 1 .. n : FreeList(f[i], m)
    PROVE  FreeList(FlattenSeq([i \in 1 .. n |-> f[i]]), m)
<1>. DEFINE s == [i \in 1 .. n |-> f[i]]
            S == UNION {ToSet(f[i]) : i \in 1 .. n}
<1>1. \A i \in 1 .. n : f[i] \in Seq(S)
  <2>. SUFFICES ASSUME NEW i \in 1 .. n PROVE f[i] \in Seq(S)
    OBVIOUS
  <2>1. ToSet(f[i]) \subseteq S
    OBVIOUS
  <2>2. f[i] \in Seq(ToSet(f[i]))
    BY FreeElement
  <2>. HIDE DEF S
  <2>. QED
    BY <2>1, <2>2, LargerList
<1>2. \A x \in S : Free(x, m)
  BY FreeElement
<1>. HIDE DEF S
<1>3. s \in Seq(Seq(S))
  <2>1. CASE n >= 0
    BY <1>1, <2>1
  <2>2. CASE n < 0
    <3>1. 1 .. n = 1 .. 0
      BY <2>2
    <3>2. s = [i \in 1 .. 0 |-> f[i]]
      BY <3>1
    <3>. QED
      BY <3>2
  <2>. QED
    BY <2>1, <2>2
<1>4. FlattenSeq(s) \in Seq(S)
  BY <1>3, FlattenList
<1>. QED
  BY <1>2, <1>4, FreeOf

\* A free effect, or a free list of them, several times.
LEMMA FreeTimes ==
    ASSUME NEW m, NEW n \in Int, NEW p, FreeList(p, m)
    PROVE  FreeList(Times(n, p), m)
<1>. DEFINE f == [i \in 1 .. n |-> p]
<1>1. \A i \in 1 .. n : FreeList(f[i], m)
  OBVIOUS
<1>2. [i \in 1 .. n |-> f[i]] = [i \in 1 .. n |-> p]
  OBVIOUS
<1>. HIDE DEF f
<1>3. FreeList(FlattenSeq([i \in 1 .. n |-> f[i]]), m)
  BY <1>1, FreeFlatten
<1>. QED
  BY <1>2, <1>3 DEF Times

LEMMA FreeRepeat ==
    ASSUME NEW m, NEW n \in Int, NEW x, Free(x, m)
    PROVE  FreeList([i \in 1 .. n |-> x], m)
<1>1. [i \in 1 .. n |-> x] \in Seq({x})
  <2>1. CASE n >= 0
    BY <2>1
  <2>2. CASE n < 0
    <3>1. 1 .. n = 1 .. 0
      BY <2>2
    <3>. QED
      BY <3>1
  <2>. QED
    BY <2>1, <2>2
<1>. QED
  BY <1>1, FreeOf

LEMMA FreeParts ==
    ASSUME NEW m, NEW p, FreeList(p, m), p # <<>>
    PROVE  Free(Head(p), m) /\ FreeList(Tail(p), m)
<1>1. PICK E : p \in Seq(E) /\ Shut(E, m)
  BY DEF FreeList
<1>2. Head(p) \in E /\ Tail(p) \in Seq(E)
  BY <1>1
<1>. QED
  BY <1>1, <1>2 DEF Free, FreeList

-----------------------------------------------------------------------------
(* The words of the tables, and what steps call *)

LEMMA FreeDo ==
    ASSUME NEW m, NEW op, NEW n, NEW of, NEW then,
           op \notin Barred(m) \cup {"either", "emit"}, FreeList(then, m)
    PROVE  Free(Do(op, n, of, then), m)
<1>. DEFINE x == Do(op, n, of, then)
<1>1. DOMAIN x = Fields /\ x.op = op /\ x.n = n /\ x.of = of /\ x.then = then
  BY DEF Do, Fields
<1>. HIDE DEF x
<1>2. Fit(x, m)
  BY <1>1 DEF Fit
<1>3. Leads(x, m) \subseteq {then}
  BY <1>1 DEF Leads, Branches
<1>4. Free(x, m)
  BY <1>2, <1>3, FreeEffect
<1>. QED
  BY <1>4 DEF x

LEMMA FreeGo ==
    ASSUME NEW m, NEW op, op \notin Barred(m) \cup {"either", "emit"}
    PROVE  Free(Go(op), m) /\ \A n, of : Free(GoWith(op, n, of), m) /\ Free(Do(op, n, of, <<>>), m)
<1>1. \A n, of : Free(Do(op, n, of, <<>>), m)
  BY FreeDo, FreeNone
<1>. QED
  BY <1>1 DEF Go, GoWith

LEMMA FreeEmit ==
    ASSUME NEW m, NEW e, NEW a, Audible(e, m), "emit" \notin Barred(m)
    PROVE  Free(Emit(e, a), m)
<1>. DEFINE x == Do("emit", 0, e, <<>>)
            y == [x EXCEPT !.arg = a]
<1>1. DOMAIN x = Fields /\ x.op = "emit" /\ x.of = e /\ x.then = <<>>
  BY DEF Do, Fields
<1>. HIDE DEF x
<1>2. DOMAIN y = Fields /\ y.op = "emit" /\ y.of = e /\ y.then = <<>>
  BY <1>1 DEF Fields
<1>. HIDE DEF y
<1>3. Fit(y, m) /\ Leads(y, m) = {<<>>}
  BY <1>2 DEF Fit, Leads, Branches, Asks
<1>4. Free(y, m)
  BY <1>3, FreeEffect, FreeNone
<1>. QED
  BY <1>4 DEF x, y, Emit

LEMMA FreeWords ==
    /\ \A n : /\ Free(GainBlock(n), "fight") /\ Free(Draw(n), "fight") /\ Free(HpLoss(n), "fight")
              /\ Free(Attacked(n), "fight") /\ Free(Damaged(n), "fight") /\ Free(Energy(n), "fight")
    /\ \A p, n : Free(Power(p, n), "fight") /\ Free(Debuff(p, n), "fight")
    /\ \A k : Free(Unpower(k), "fight") /\ Free(Tag(k), "fight")
    /\ Free(HitOne, "fight") /\ Free(HitAll, "fight") /\ Free(Piles, "fight") /\ Free(DiscardOne, "fight")
    /\ \A e, a : Free(Emit(e, a), "fight")
    /\ Free(Discard, "fight") /\ Free(Exhaust, "fight")
<1>1. \A n : /\ Free(GainBlock(n), "fight") /\ Free(Draw(n), "fight") /\ Free(HpLoss(n), "fight")
             /\ Free(Attacked(n), "fight") /\ Free(Damaged(n), "fight") /\ Free(Energy(n), "fight")
  BY FreeGo DEF Barred, Drives, GainBlock, Draw, HpLoss, Attacked, Damaged, Energy
<1>2. \A p, n : Free(Power(p, n), "fight") /\ Free(Debuff(p, n), "fight")
  BY FreeGo DEF Barred, Drives, Power, Debuff
<1>3. \A k : Free(Unpower(k), "fight") /\ Free(Tag(k), "fight")
  BY FreeGo DEF Barred, Drives, Unpower, Tag
<1>4. Free(HitOne, "fight") /\ Free(HitAll, "fight") /\ Free(Piles, "fight") /\ Free(DiscardOne, "fight")
  BY FreeGo DEF Barred, Drives, HitOne, HitAll, Piles, DiscardOne
<1>5. \A e, a : Free(Emit(e, a), "fight")
  BY FreeEmit DEF Barred, Drives, Audible
<1>6. Free(Discard, "fight") /\ Free(Exhaust, "fight")
  BY <1>5 DEF Discard, Exhaust
<1>. QED
  BY <1>1, <1>2, <1>3, <1>4, <1>5, <1>6

LEMMA FreeTurnStartHooks ==
    ASSUME NEW p, NEW flags, Integers(p)
    PROVE  FreeList(on_turn_start(p, flags), "fight")
<1>. DEFINE a1 == IF "DEMON_FORM" \in DOMAIN p THEN <<Power("STRENGTH", p["DEMON_FORM"])>> ELSE <<>>
            a2 == IF "METALLICIZE" \in DOMAIN p THEN <<GainBlock(p["METALLICIZE"])>> ELSE <<>>
            a3 == IF "brutality" \in flags THEN <<HpLoss(1), Draw(1)>> ELSE <<>>
            a4 == IF "berserk" \in flags THEN <<Energy(1)>> ELSE <<>>
            a5 == IF "ENERGIZED" \in DOMAIN p THEN <<Energy(p["ENERGIZED"]), Unpower("ENERGIZED")>> ELSE <<>>
            a6 == IF "NOXIOUS_FUMES" \in DOMAIN p THEN <<Tag("poison")>> ELSE <<>>
            a7 == IF "INFINITE_BLADES" \in DOMAIN p THEN <<Piles>> ELSE <<>>
            a8 == IF "TOOLS_OF_THE_TRADE" \in DOMAIN p
                  THEN <<Draw(p["TOOLS_OF_THE_TRADE"])>> \o [i \in 1 .. p["TOOLS_OF_THE_TRADE"] |-> DiscardOne]
                  ELSE <<>>
<1>1. FreeList(a1, "fight")
  BY FreeWords, FreeNone, FreeSingle
<1>2. FreeList(a2, "fight")
  BY FreeWords, FreeNone, FreeSingle
<1>3. FreeList(a3, "fight")
  BY FreeWords, FreeNone, FreeTuples
<1>4. FreeList(a4, "fight")
  BY FreeWords, FreeNone, FreeSingle
<1>5. FreeList(a5, "fight")
  BY FreeWords, FreeNone, FreeTuples
<1>6. FreeList(a6, "fight")
  BY FreeWords, FreeNone, FreeSingle
<1>7. FreeList(a7, "fight")
  BY FreeWords, FreeNone, FreeSingle
<1>8. FreeList(a8, "fight")
  <2>1. CASE "TOOLS_OF_THE_TRADE" \in DOMAIN p
    <3>. DEFINE n == p["TOOLS_OF_THE_TRADE"]
    <3>1. n \in Int
      BY <2>1 DEF Integers
    <3>. HIDE DEF n
    <3>2. FreeList([i \in 1 .. n |-> DiscardOne], "fight")
      BY <3>1, FreeRepeat, FreeWords
    <3>3. FreeList(<<Draw(n)>>, "fight")
      BY FreeWords, FreeSingle
    <3>4. FreeList(<<Draw(n)>> \o [i \in 1 .. n |-> DiscardOne], "fight")
      BY <3>2, <3>3, FreeConcat
    <3>. QED
      BY <2>1, <3>4 DEF n
  <2>2. CASE "TOOLS_OF_THE_TRADE" \notin DOMAIN p
    BY <2>2, FreeNone
  <2>. QED
    BY <2>1, <2>2
<1>9. on_turn_start(p, flags) = a1 \o a2 \o a3 \o a4 \o a5 \o a6 \o a7 \o a8
  BY DEF on_turn_start
<1>. HIDE DEF a1, a2, a3, a4, a5, a6, a7, a8
<1>10. FreeList(a1 \o a2, "fight")
  BY <1>1, <1>2, FreeConcat
<1>11. FreeList(a1 \o a2 \o a3, "fight")
  BY <1>10, <1>3, FreeConcat
<1>12. FreeList(a1 \o a2 \o a3 \o a4, "fight")
  BY <1>11, <1>4, FreeConcat
<1>13. FreeList(a1 \o a2 \o a3 \o a4 \o a5, "fight")
  BY <1>12, <1>5, FreeConcat
<1>14. FreeList(a1 \o a2 \o a3 \o a4 \o a5 \o a6, "fight")
  BY <1>13, <1>6, FreeConcat
<1>15. FreeList(a1 \o a2 \o a3 \o a4 \o a5 \o a6 \o a7, "fight")
  BY <1>14, <1>7, FreeConcat
<1>. QED
  BY <1>15, <1>8, <1>9, FreeConcat

LEMMA FreeTurnEndHooks ==
    ASSUME NEW p, Integers(p)
    PROVE  FreeList(on_turn_end(p), "fight")
<1>. DEFINE a1 == IF "COMBUST" \in DOMAIN p THEN <<HpLoss(AtLeast1(p["_combust_plays"])), HitAll>> ELSE <<>>
            a2 == IF "FLEX" \in DOMAIN p THEN <<Unpower("FLEX"), Power("STRENGTH", 0 - p["FLEX"])>> ELSE <<>>
            a3 == IF "CONSTRICTED" \in DOMAIN p THEN <<HpLoss(p["CONSTRICTED"])>> ELSE <<>>
            a4 == IF "POISON" \in DOMAIN p THEN <<HpLoss(p["POISON"]), Power("POISON", -1)>> ELSE <<>>
            a5 == IF "WRAITH_FORM" \in DOMAIN p THEN <<Power("DEXTERITY", -1)>> ELSE <<>>
            a6 == IF "WELL_LAID_PLANS" \in DOMAIN p THEN <<Piles>> ELSE <<>>
            a7 == <<Do("end_of_turn", 0, "", <<>>)>>
<1>1. FreeList(a1, "fight")
  BY FreeWords, FreeNone, FreeTuples
<1>2. FreeList(a2, "fight")
  BY FreeWords, FreeNone, FreeTuples
<1>3. FreeList(a3, "fight")
  BY FreeWords, FreeNone, FreeSingle
<1>4. FreeList(a4, "fight")
  BY FreeWords, FreeNone, FreeTuples
<1>5. FreeList(a5, "fight")
  BY FreeWords, FreeNone, FreeSingle
<1>6. FreeList(a6, "fight")
  BY FreeWords, FreeNone, FreeSingle
<1>7. FreeList(a7, "fight")
  BY FreeGo, FreeSingle DEF Barred, Drives
<1>8. on_turn_end(p) = a1 \o a2 \o a3 \o a4 \o a5 \o a6 \o a7
  BY DEF on_turn_end
<1>. HIDE DEF a1, a2, a3, a4, a5, a6, a7
<1>9. FreeList(a1 \o a2, "fight")
  BY <1>1, <1>2, FreeConcat
<1>10. FreeList(a1 \o a2 \o a3, "fight")
  BY <1>9, <1>3, FreeConcat
<1>11. FreeList(a1 \o a2 \o a3 \o a4, "fight")
  BY <1>10, <1>4, FreeConcat
<1>12. FreeList(a1 \o a2 \o a3 \o a4 \o a5, "fight")
  BY <1>11, <1>5, FreeConcat
<1>13. FreeList(a1 \o a2 \o a3 \o a4 \o a5 \o a6, "fight")
  BY <1>12, <1>6, FreeConcat
<1>. QED
  BY <1>13, <1>7, <1>8, FreeConcat

LEMMA FreeCardPlayHooks ==
    ASSUME NEW p, NEW tags, NEW type
    PROVE  FreeList(on_card_play(p, tags, type), "fight")
<1>. DEFINE a1 == IF "RAGE" \in DOMAIN p /\ type = "ATTACK" THEN <<GainBlock(p["RAGE"])>> ELSE <<>>
            a2 == IF "THOUSAND_CUTS" \in DOMAIN p THEN <<HitAll>> ELSE <<>>
            a3 == IF "AFTER_IMAGE" \in DOMAIN p THEN <<GainBlock(p["AFTER_IMAGE"])>> ELSE <<>>
            a4 == IF "choked" \in tags THEN <<HitOne>> ELSE <<>>
            a5 == <<Do("pain", 0, "", <<>>)>>
            a6 == IF "HEX" \in DOMAIN p /\ type # "ATTACK" THEN <<Piles>> ELSE <<>>
<1>1. FreeList(a1, "fight")
  BY FreeWords, FreeNone, FreeSingle
<1>2. FreeList(a2, "fight")
  BY FreeWords, FreeNone, FreeSingle
<1>3. FreeList(a3, "fight")
  BY FreeWords, FreeNone, FreeSingle
<1>4. FreeList(a4, "fight")
  BY FreeWords, FreeNone, FreeSingle
<1>5. FreeList(a5, "fight")
  BY FreeGo, FreeSingle DEF Barred, Drives
<1>6. FreeList(a6, "fight")
  BY FreeWords, FreeNone, FreeSingle
<1>7. on_card_play(p, tags, type) = a1 \o a2 \o a3 \o a4 \o a5 \o a6
  BY DEF on_card_play
<1>. HIDE DEF a1, a2, a3, a4, a5, a6
<1>8. FreeList(a1 \o a2, "fight")
  BY <1>1, <1>2, FreeConcat
<1>9. FreeList(a1 \o a2 \o a3, "fight")
  BY <1>8, <1>3, FreeConcat
<1>10. FreeList(a1 \o a2 \o a3 \o a4, "fight")
  BY <1>9, <1>4, FreeConcat
<1>11. FreeList(a1 \o a2 \o a3 \o a4 \o a5, "fight")
  BY <1>10, <1>5, FreeConcat
<1>. QED
  BY <1>11, <1>6, <1>7, FreeConcat

LEMMA FreeExhaustHooks ==
    ASSUME NEW p, NEW card
    PROVE  FreeList(on_exhaust(p, card), "fight")
<1>. DEFINE a1 == IF "DARK_EMBRACE" \in DOMAIN p THEN <<Draw(p["DARK_EMBRACE"])>> ELSE <<>>
            a2 == IF "FEEL_NO_PAIN" \in DOMAIN p THEN <<GainBlock(p["FEEL_NO_PAIN"])>> ELSE <<>>
            a3 == IF card = "Sentinel" THEN <<Energy(2)>> ELSE <<>>
<1>1. FreeList(a1, "fight")
  BY FreeWords, FreeNone, FreeSingle
<1>2. FreeList(a2, "fight")
  BY FreeWords, FreeNone, FreeSingle
<1>3. FreeList(a3, "fight")
  BY FreeWords, FreeNone, FreeSingle
<1>4. on_exhaust(p, card) = a1 \o a2 \o a3
  BY DEF on_exhaust
<1>. HIDE DEF a1, a2, a3
<1>5. FreeList(a1 \o a2, "fight")
  BY <1>1, <1>2, FreeConcat
<1>. QED
  BY <1>5, <1>3, <1>4, FreeConcat

LEMMA FreeDrawHooks ==
    ASSUME NEW p, NEW card
    PROVE  FreeList(on_draw(p, card), "fight")
<1>. DEFINE a1 == IF "FIRE_BREATHING" \in DOMAIN p THEN <<HitAll>> ELSE <<>>
            a2 == IF "EVOLVE" \in DOMAIN p THEN <<Draw(p["EVOLVE"])>> ELSE <<>>
            a3 == IF card = "VoidCard" THEN <<Do("drain", 1, "", <<>>)>> ELSE <<>>
<1>1. FreeList(a1, "fight")
  BY FreeWords, FreeNone, FreeSingle
<1>2. FreeList(a2, "fight")
  BY FreeWords, FreeNone, FreeSingle
<1>3. FreeList(a3, "fight")
  <2>1. Free(Do("drain", 1, "", <<>>), "fight")
    <3>1. "drain" \notin Barred("fight") \cup {"either", "emit"}
      BY DEF Barred, Drives
    <3>. QED
      BY <3>1, FreeDo, FreeNone
  <2>. QED
    BY <2>1, FreeNone, FreeSingle
<1>4. on_draw(p, card) = a1 \o a2 \o a3
  BY DEF on_draw
<1>. HIDE DEF a1, a2, a3
<1>5. FreeList(a1 \o a2, "fight")
  BY <1>1, <1>2, FreeConcat
<1>. QED
  BY <1>5, <1>3, <1>4, FreeConcat

LEMMA FreeHooks ==
    ASSUME NEW e, NEW arg, NEW p, NEW flags, NEW tags, Integers(p)
    PROVE  FreeList(PowerHooks(e, arg, p, flags, tags), "fight")
<1>1. \A none : FreeList(on_block_gained(p, none), "fight")
  BY FreeWords, FreeNone, FreeSingle DEF on_block_gained
<1>2. FreeList(on_enemy_death(tags), "fight")
  <2>. DEFINE inner == Do("deaths", 0, "", <<>>)
  <2>1. FreeList(<<inner>>, "fight")
    BY FreeGo, FreeSingle DEF Barred, Drives
  <2>. HIDE DEF inner
  <2>2. Free(Maybe(<<inner>>), "fight")
    BY <2>1, FreeDo DEF Barred, Drives, Maybe
  <2>3. FreeList(<<HitAll, Maybe(<<inner>>)>>, "fight")
    BY <2>2, FreeWords, FreeTuples
  <2>4. FreeList(<<Maybe(<<HitAll, Maybe(<<inner>>)>>)>>, "fight")
    <3>. DEFINE p2 == <<HitAll, Maybe(<<inner>>)>>
    <3>. HIDE DEF p2
    <3>1. Free(Maybe(p2), "fight")
      BY <2>3, FreeDo DEF Barred, Drives, Maybe, p2
    <3>. QED
      BY <3>1, FreeSingle DEF p2
  <2>. QED
    BY <2>4, FreeNone DEF on_enemy_death, inner
<1>. QED
  BY <1>1, <1>2, FreeNone, FreeTurnStartHooks, FreeTurnEndHooks, FreeCardPlayHooks, FreeExhaustHooks, FreeDrawHooks DEF PowerHooks

LEMMA FreeTables ==
    /\ \A c \in DOMAIN Book : FreeList(Book[c].does, "fight")
    /\ \A c \in DOMAIN OnDiscard : FreeList(OnDiscard[c], "fight")
    /\ \A c \in DOMAIN EndOfTurn : FreeList(EndOfTurn[c], "fight")
    /\ \A e \in DOMAIN Registry : \A i \in DOMAIN Registry[e].choices \cup {1} :
          FreeList(Registry[e].choices[i], "abroad")
    /\ \A kind \in DOMAIN Known :
          FreeList(Known[kind].pickup, "abroad") /\ FreeList(Known[kind].pickup, "soft")
BY WordsAssumption DEF FreeList

\* A list whose elements are told who runs them and what for.
LEMMA FreeMapped ==
    ASSUME NEW m, NEW p, FreeList(p, m), NEW w, NEW a
    PROVE  FreeList([i \in DOMAIN p |-> Tagged(p[i], w, a)], m)
<1>. DEFINE S == {Tagged(x, w, a) : x \in ToSet(p)}
<1>1. p \in Seq(ToSet(p)) /\ \A x \in ToSet(p) : Free(x, m)
  BY FreeElement
<1>2. Len(p) \in Nat /\ DOMAIN p = 1 .. Len(p) /\ \A i \in 1 .. Len(p) : p[i] \in ToSet(p)
  BY <1>1, Elements, LenProperties
<1>3. \A y \in S : Free(y, m)
  <2>. SUFFICES ASSUME NEW x \in ToSet(p) PROVE Free(Tagged(x, w, a), m)
    OBVIOUS
  <2>1. Free([x EXCEPT !.who = w, !.arg = IF @ = "" THEN a ELSE @], m)
    BY <1>1, FreeTagged
  <2>. QED
    BY <2>1 DEF Tagged
<1>4. [i \in DOMAIN p |-> Tagged(p[i], w, a)] \in Seq(S)
  BY <1>2
<1>. HIDE DEF S
<1>. QED
  BY <1>3, <1>4, FreeOf

LEMMA FreeAnswer ==
    ASSUME NEW m \in Modes, NEW e, Audible(e, m), NEW id, things[id].kind \in DOMAIN Known, NEW arg
    PROVE  FreeList(Answer(id, e, arg), m)
<1>. DEFINE kind == things[id].kind
            hears == Known[kind].hears
            p == hears[e].do
<1>1. CASE e \in DOMAIN hears /\ arg \in hears[e].arg
  <2>1. /\ p \in Seq(FightWords)
        /\ e \in Abroad => p \in Seq(AbroadWords)
        /\ e = "RELIC_OBTAINED" => p \in Seq(SoftWords)
    BY <1>1, WordsAssumption
  <2>2. FreeList(p, m)
    <3>. HIDE DEF p
    <3>1. Shut(FightWords, "fight") /\ Shut(AbroadWords, "abroad") /\ Shut(SoftWords, "soft")
      BY WordsAssumption
    <3>2. CASE m = "fight"
      BY <2>1, <3>1, <3>2 DEF FreeList
    <3>3. CASE m = "abroad"
      BY <2>1, <3>1, <3>3 DEF FreeList, Audible
    <3>4. CASE m = "soft"
      BY <2>1, <3>1, <3>4 DEF FreeList, Audible
    <3>. QED
      BY <3>2, <3>3, <3>4 DEF Modes
  <2>3. Answer(id, e, arg) = [i \in DOMAIN p |-> Tagged(p[i], id, arg)]
    BY <1>1 DEF Answer, Tagged
  <2>. HIDE DEF p
  <2>. QED
    BY <2>2, <2>3, FreeMapped
<1>2. CASE ~(e \in DOMAIN hears /\ arg \in hears[e].arg)
  <2>1. Answer(id, e, arg) = <<>>
    BY <1>2 DEF Answer
  <2>. QED
    BY <2>1, FreeNone
<1>. QED
  BY <1>1, <1>2

LEMMA FreeGuarded ==
    ASSUME NEW m, Free(it, m), it.op # "either", ~(m = "abroad" /\ Asks(it))
    PROVE  FreeList(it.then, m) /\ FreeList(Guarded, m)
<1>1. Leads(it, m) = {it.then}
  BY DEF Leads, Branches
<1>2. FreeList(it.then, m)
  BY <1>1, FreeBranch
<1>3. Guarded = [i \in DOMAIN it.then |-> Tagged(it.then[i], it.who, it.arg)]
  BY DEF Guarded, Tagged
<1>. QED
  BY <1>2, <1>3, FreeMapped

-----------------------------------------------------------------------------
(* The second inductive invariant: who listens *)

Alone(p, op) == \E x : x.op = op /\ p = <<x>>
Before(p, op, q) == IsList(q) /\ \E x : x.op = op /\ p = <<x>> \o q

\* What the drivers leave to be done after a room, after a combat, and at a
\* decision in it.
Rewarding(p) == \E q : Alone(q, "leave") /\ Before(p, "rewards", q)
Looping(p) == \E q : Rewarding(q) /\ Before(p, "loop", q)
Ending(p, open, won) ==
    \/ p = <<>>
    \/ /\ open
       /\ \/ Looping(p)
          \/ \E q : Looping(q) /\ (Before(p, "turn", q) \/ Before(p, "judge", q))
          \/ \E q : Rewarding(q) /\ Before(p, "close_combat", q)
    \* A combat that is lost stays, and so does a draw of RunEvaluator.
    \/ (open => ~won) /\ (Rewarding(p) \/ Alone(p, "leave"))
    \/ /\ ~open
       /\ \/ \E q : Rewarding(q) /\ Before(p, "fight", q)
          \/ \E op \in {"enter", "act", "first"} : Alone(p, op)

Place(open) == IF open THEN "fight" ELSE "abroad"
Rest(q, open, won) ==
    \E body, end : /\ q = body \o end /\ FreeList(body, Place(open))
                   /\ IsList(end) /\ Ending(end, open, won)

\* What a relic brings that is obtained in a combat, its register() included.
Obtaining(p) == \E S : p \in Seq(S) /\ \A x \in S : Free(x, "soft") \/ x.op = "register"
Registers(p) == {p[i].n : i \in {j \in DOMAIN p : p[j].op = "register"}}
Unrepeated(p) ==
    \A i, j \in DOMAIN p : p[i].op = "register" /\ p[j].op = "register" /\ p[i].n = p[j].n => i = j

\* In a combat the relics that do not listen yet are those that are about to.
Awaited(p, relics, listeners) ==
    /\ Unrepeated(p)
    /\ Registers(p) \cap Range(listeners) = {} /\ Registers(p) \subseteq Range(relics)
    /\ Range(relics) \subseteq Range(listeners) \cup Registers(p)
Shape(p, open, won, relics, listeners) ==
    \E soft, q : /\ p = soft \o q /\ Obtaining(soft) /\ Rest(q, open, won)
                 /\ IF open THEN Awaited(soft, relics, listeners) ELSE soft = <<>>

\* A relic or potion is in one place, and in a combat it listens once.
Belongings ==
    /\ IsInjective(player.relics) /\ IsInjective(player.potions)
    /\ Range(player.relics) \cap Range(player.potions) = {}
Listening ==
    combat.open => /\ IsInjective(bus)
                   /\ \A id \in Range(bus) \ Range(player.relics) : things[id].kind = "FairyInABottle"

ListenInv == Shape(todo, combat.open, run.won, player.relics, bus) /\ Belongings /\ Listening

LEMMA AloneHead ==
    ASSUME NEW p, NEW op, Alone(p, op)
    PROVE  p # <<>> /\ IsList(p) /\ Head(p).op = op /\ Tail(p) = <<>>
<1>1. PICK x : x.op = op /\ p = <<x>>
  BY DEF Alone
<1>2. <<x>> \in Seq({x}) /\ Head(<<x>>) = x /\ <<x>> # <<>>
  OBVIOUS
<1>3. Tail(<<x>>) = <<>>
  <2>1. Tail(<<x>>) \in Seq({x}) /\ Len(Tail(<<x>>)) = 0
    OBVIOUS
  <2>. QED
    BY <2>1, EmptySeq
<1>. QED
  BY <1>1, <1>2, <1>3 DEF IsList

LEMMA BeforeHead ==
    ASSUME NEW p, NEW op, NEW q, Before(p, op, q)
    PROVE  p # <<>> /\ IsList(p) /\ Head(p).op = op /\ Tail(p) = q /\ IsList(q)
<1>1. PICK x : x.op = op /\ p = <<x>> \o q
  BY DEF Before
<1>2. PICK S : q \in Seq(S)
  BY DEF Before, IsList
<1>3. Head(p) = x /\ Tail(p) = q /\ p # <<>> /\ p \in Seq(S \cup {x})
  BY <1>1, <1>2, Parts
<1>. QED
  BY <1>1, <1>2, <1>3 DEF IsList

LEMMA BeforeOf ==
    ASSUME NEW x, NEW q, IsList(q)
    PROVE  Before(<<x>> \o q, x.op, q)
BY DEF Before

LEMMA RewardingList == ASSUME NEW p, Rewarding(p) PROVE IsList(p) /\ p # <<>>
BY BeforeHead DEF Rewarding

LEMMA LoopingList == ASSUME NEW p, Looping(p) PROVE IsList(p) /\ p # <<>>
BY BeforeHead DEF Looping

\* The driver whose turn it is knows what is left to be done.
LEMMA EndingHead ==
    ASSUME NEW p, NEW open, NEW won, Ending(p, open, won), p # <<>>
    PROVE  /\ IsList(p) /\ Head(p).op \in Drives
           /\ Head(p).op = "loop" => open /\ Rewarding(Tail(p))
           /\ Head(p).op \in {"turn", "judge"} => open /\ Looping(Tail(p))
           /\ Head(p).op = "close_combat" => open /\ Rewarding(Tail(p))
           /\ Head(p).op = "rewards" => (open => ~won) /\ Alone(Tail(p), "leave")
           /\ Head(p).op = "leave" => (open => ~won) /\ Tail(p) = <<>>
           /\ Head(p).op = "fight" => ~open /\ Rewarding(Tail(p))
           /\ Head(p).op \in {"enter", "act", "first"} => ~open /\ Tail(p) = <<>>
<1>1. CASE open /\ Looping(p)
  <2>1. PICK q : Rewarding(q) /\ Before(p, "loop", q)
    BY <1>1 DEF Looping
  <2>2. IsList(p) /\ Head(p).op = "loop" /\ Tail(p) = q
    BY <2>1, BeforeHead
  <2>. QED
    BY <1>1, <2>1, <2>2 DEF Drives
<1>2. CASE open /\ \E q : Looping(q) /\ (Before(p, "turn", q) \/ Before(p, "judge", q))
  <2>1. PICK q : Looping(q) /\ (Before(p, "turn", q) \/ Before(p, "judge", q))
    BY <1>2
  <2>2. IsList(p) /\ Head(p).op \in {"turn", "judge"} /\ Tail(p) = q
    BY <2>1, BeforeHead
  <2>. QED
    BY <1>2, <2>1, <2>2 DEF Drives
<1>3. CASE open /\ \E q : Rewarding(q) /\ Before(p, "close_combat", q)
  <2>1. PICK q : Rewarding(q) /\ Before(p, "close_combat", q)
    BY <1>3
  <2>2. IsList(p) /\ Head(p).op = "close_combat" /\ Tail(p) = q
    BY <2>1, BeforeHead
  <2>. QED
    BY <1>3, <2>1, <2>2 DEF Drives
<1>4. CASE (open => ~won) /\ Rewarding(p)
  <2>1. PICK q : Alone(q, "leave") /\ Before(p, "rewards", q)
    BY <1>4 DEF Rewarding
  <2>2. IsList(p) /\ Head(p).op = "rewards" /\ Tail(p) = q
    BY <2>1, BeforeHead
  <2>. QED
    BY <1>4, <2>1, <2>2 DEF Drives
<1>5. CASE (open => ~won) /\ Alone(p, "leave")
  <2>1. IsList(p) /\ Head(p).op = "leave" /\ Tail(p) = <<>>
    BY <1>5, AloneHead
  <2>. QED
    BY <1>5, <2>1 DEF Drives
<1>6. CASE ~open /\ \E q : Rewarding(q) /\ Before(p, "fight", q)
  <2>1. PICK q : Rewarding(q) /\ Before(p, "fight", q)
    BY <1>6
  <2>2. IsList(p) /\ Head(p).op = "fight" /\ Tail(p) = q
    BY <2>1, BeforeHead
  <2>. QED
    BY <1>6, <2>1, <2>2 DEF Drives
<1>7. CASE ~open /\ \E op \in {"enter", "act", "first"} : Alone(p, op)
  <2>1. IsList(p) /\ Head(p).op \in {"enter", "act", "first"} /\ Tail(p) = <<>>
    BY <1>7, AloneHead
  <2>. QED
    BY <1>7, <2>1 DEF Drives
<1>. QED
  BY <1>1, <1>2, <1>3, <1>4, <1>5, <1>6, <1>7 DEF Ending

-----------------------------------------------------------------------------
(* The relics that are about to listen *)

LEMMA NoRegisters ==
    ASSUME NEW S, NEW p \in Seq(S), \A x \in S : x.op # "register"
    PROVE  Registers(p) = {} /\ Unrepeated(p)
<1>1. \A i \in DOMAIN p : p[i].op # "register"
  BY LenProperties, ElementOfSeq
<1>. QED
  BY <1>1 DEF Registers, Unrepeated

LEMMA FreeRegisters ==
    ASSUME NEW p, NEW m \in {"fight", "soft"}, FreeList(p, m)
    PROVE  Registers(p) = {} /\ Unrepeated(p) /\ Obtaining(<<>>)
<1>1. PICK E : p \in Seq(E) /\ Shut(E, m)
  BY DEF FreeList
<1>2. \A x \in E : x.op # "register"
  BY <1>1 DEF Shut, Fit, Barred
<1>3. <<>> \in Seq({})
  OBVIOUS
<1>. QED
  BY <1>1, <1>2, <1>3, NoRegisters DEF Obtaining

\* What comes first adds its register(), if it is one.
LEMMA FirstRegister ==
    ASSUME NEW S, NEW q \in Seq(S), NEW x
    PROVE  /\ Registers(<<x>> \o q) = Registers(q) \cup (IF x.op = "register" THEN {x.n} ELSE {})
           /\ Unrepeated(<<x>> \o q) <=> Unrepeated(q) /\ (x.op = "register" => x.n \notin Registers(q))
<1>. DEFINE p == <<x>> \o q
            n == Len(q)
<1>1. n \in Nat /\ DOMAIN q = 1 .. n
  BY LenProperties
<1>2. DOMAIN p = 1 .. n + 1 /\ p[1] = x /\ \A i \in 1 .. n : p[i + 1] = q[i]
  <2>1. q \in Seq(S \cup {x}) /\ <<x>> \in Seq(S \cup {x})
    <3>1. S \subseteq S \cup {x}
      OBVIOUS
    <3>. QED
      BY <3>1, LargerList
  <2>. HIDE DEF n
  <2>2. Len(p) = n + 1
    BY <2>1 DEF n
  <2>3. p \in Seq(S \cup {x})
    BY <2>1
  <2>4. DOMAIN p = 1 .. n + 1
    BY <2>2, <2>3, LenProperties
  <2>5. p[1] = x
    BY <2>1
  <2>6. \A i \in 1 .. n : p[i + 1] = q[i]
    BY <1>1, <2>1 DEF n
  <2>. QED
    BY <2>4, <2>5, <2>6
<1>. HIDE DEF p, n
<1>3. \A i \in 1 .. n + 1 : i = 1 \/ (i - 1 \in 1 .. n /\ (i - 1) + 1 = i)
  BY <1>1
<1>4. 1 \in 1 .. n + 1 /\ \A i \in 1 .. n : i + 1 \in 1 .. n + 1 /\ i + 1 # 1
  BY <1>1
<1>5. \A i \in 1 .. n + 1 : i = 1 \/ (i - 1 \in 1 .. n /\ p[i] = q[i - 1])
  BY <1>2, <1>3
<1>6. Registers(p) = Registers(q) \cup (IF x.op = "register" THEN {x.n} ELSE {})
  <2>1. ASSUME NEW y \in Registers(p) PROVE y \in Registers(q) \/ (x.op = "register" /\ y = x.n)
    <3>1. PICK i \in 1 .. n + 1 : p[i].op = "register" /\ y = p[i].n
      BY <1>2, <2>1 DEF Registers
    <3>2. CASE i = 1
      BY <1>2, <3>1, <3>2
    <3>3. CASE i - 1 \in 1 .. n /\ p[i] = q[i - 1]
      BY <1>1, <3>1, <3>3 DEF Registers
    <3>. QED
      BY <1>5, <3>2, <3>3
  <2>2. ASSUME NEW y \in Registers(q) PROVE y \in Registers(p)
    <3>1. PICK i \in 1 .. n : q[i].op = "register" /\ y = q[i].n
      BY <1>1, <2>2 DEF Registers
    <3>. QED
      BY <1>2, <1>4, <3>1 DEF Registers
  <2>3. x.op = "register" => x.n \in Registers(p)
    BY <1>2, <1>4 DEF Registers
  <2>. QED
    BY <2>1, <2>2, <2>3
<1>7. ASSUME Unrepeated(p) PROVE Unrepeated(q) /\ (x.op = "register" => x.n \notin Registers(q))
  <2>1. ASSUME NEW i \in 1 .. n, NEW j \in 1 .. n, q[i].op = "register", q[j].op = "register", q[i].n = q[j].n
        PROVE  i = j
    <3>1. p[i + 1] = q[i] /\ p[j + 1] = q[j] /\ i + 1 \in DOMAIN p /\ j + 1 \in DOMAIN p
      BY <1>2, <1>4
    <3>2. i + 1 = j + 1
      BY <1>7, <2>1, <3>1 DEF Unrepeated
    <3>. QED
      BY <1>1, <3>2
  <2>2. ASSUME x.op = "register", x.n \in Registers(q) PROVE FALSE
    <3>1. PICK i \in 1 .. n : q[i].op = "register" /\ x.n = q[i].n
      BY <1>1, <2>2 DEF Registers
    <3>2. p[i + 1] = q[i] /\ i + 1 \in DOMAIN p /\ 1 \in DOMAIN p /\ i + 1 # 1
      BY <1>2, <1>4
    <3>. QED
      BY <1>2, <1>7, <2>2, <3>1, <3>2 DEF Unrepeated
  <2>. QED
    BY <1>1, <2>1, <2>2 DEF Unrepeated
<1>8. ASSUME Unrepeated(q), x.op = "register" => x.n \notin Registers(q) PROVE Unrepeated(p)
  <2>. SUFFICES ASSUME NEW i \in 1 .. n + 1, NEW j \in 1 .. n + 1,
                       p[i].op = "register", p[j].op = "register", p[i].n = p[j].n
                PROVE  i = j
    BY <1>2 DEF Unrepeated
  <2>1. CASE i # 1 /\ j # 1
    <3>1. /\ i - 1 \in DOMAIN q /\ j - 1 \in DOMAIN q /\ p[i] = q[i - 1] /\ p[j] = q[j - 1]
      BY <1>1, <1>5, <2>1
    <3>2. i - 1 = j - 1
      BY <1>8, <3>1 DEF Unrepeated
    <3>. QED
      BY <3>2
  <2>2. ASSUME NEW k \in 1 .. n + 1, k # 1, p[k].op = "register" PROVE p[k].n \in Registers(q)
    <3>1. k - 1 \in DOMAIN q /\ p[k] = q[k - 1]
      BY <1>1, <1>5, <2>2
    <3>. QED
      BY <2>2, <3>1 DEF Registers
  <2>. QED
    BY <1>2, <1>8, <2>1, <2>2
<1>. QED
  BY <1>6, <1>7, <1>8 DEF p

\* What has no register() leaves the ones that follow as they are.
\* Anything else adds nothing.
LEMMA OtherFirst ==
    ASSUME NEW S, NEW q \in Seq(S), NEW x, x.op # "register"
    PROVE  Registers(<<x>> \o q) = Registers(q) /\ (Unrepeated(q) => Unrepeated(<<x>> \o q))
<1>1. Registers(<<x>> \o q) = Registers(q) \cup (IF x.op = "register" THEN {x.n} ELSE {})
  BY FirstRegister
<1>2. Unrepeated(<<x>> \o q) <=> Unrepeated(q) /\ (x.op = "register" => x.n \notin Registers(q))
  BY FirstRegister
<1>. QED
  BY <1>1, <1>2

LEMMA LaterRegisters ==
    ASSUME NEW S, NEW p \in Seq(S), NEW q \in Seq(S), Registers(p) = {}
    PROVE  Registers(p \o q) = Registers(q) /\ (Unrepeated(q) => Unrepeated(p \o q))
<1>. DEFINE r == p \o q
            k == Len(p)
            n == Len(q)
<1>1. k \in Nat /\ n \in Nat /\ DOMAIN p = 1 .. k /\ DOMAIN q = 1 .. n
  BY LenProperties
<1>2. r \in Seq(S) /\ DOMAIN r = 1 .. k + n
  <2>1. r \in Seq(S) /\ Len(r) = k + n
    OBVIOUS
  <2>. HIDE DEF r, k, n
  <2>. QED
    BY <2>1, LenProperties
<1>3. /\ \A i \in 1 .. k : r[i] = p[i]
      /\ \A i \in 1 .. n : r[k + i] = q[i]
  OBVIOUS
<1>. HIDE DEF r, k, n
<1>4. \A i \in 1 .. k : r[i].op # "register"
  BY <1>1, <1>3 DEF Registers
<1>5. /\ \A i \in 1 .. k + n : i \in 1 .. k \/ (i - k \in 1 .. n /\ k + (i - k) = i)
      /\ \A i \in 1 .. n : k + i \in 1 .. k + n
  BY <1>1
<1>6. \A i \in 1 .. k + n : r[i].op = "register" => i - k \in DOMAIN q /\ r[i] = q[i - k]
  BY <1>1, <1>3, <1>4, <1>5
<1>7. Registers(r) = Registers(q)
  <2>1. ASSUME NEW y \in Registers(r) PROVE y \in Registers(q)
    <3>1. PICK i \in 1 .. k + n : r[i].op = "register" /\ y = r[i].n
      BY <1>2, <2>1 DEF Registers
    <3>2. i - k \in DOMAIN q /\ r[i] = q[i - k]
      BY <1>6, <3>1
    <3>. QED
      BY <3>1, <3>2 DEF Registers
  <2>2. ASSUME NEW y \in Registers(q) PROVE y \in Registers(r)
    <3>1. PICK i \in 1 .. n : q[i].op = "register" /\ y = q[i].n
      BY <1>1, <2>2 DEF Registers
    <3>2. k + i \in DOMAIN r /\ r[k + i] = q[i]
      BY <1>2, <1>3, <1>5
    <3>. QED
      BY <3>1, <3>2 DEF Registers
  <2>. QED
    BY <2>1, <2>2
<1>8. ASSUME Unrepeated(q) PROVE Unrepeated(r)
  <2>. SUFFICES ASSUME NEW i \in 1 .. k + n, NEW j \in 1 .. k + n,
                       r[i].op = "register", r[j].op = "register", r[i].n = r[j].n
                PROVE  i = j
    BY <1>2 DEF Unrepeated
  <2>1. i - k \in DOMAIN q /\ r[i] = q[i - k] /\ j - k \in DOMAIN q /\ r[j] = q[j - k]
    BY <1>6
  <2>2. i - k = j - k
    BY <1>8, <2>1 DEF Unrepeated
  <2>. QED
    BY <1>1, <2>2
<1>. QED
  BY <1>7, <1>8 DEF r

-----------------------------------------------------------------------------
(* How todo is made up *)

LEMMA InOneSet ==
    ASSUME NEW p, NEW q, IsList(p), IsList(q)
    PROVE  \E S : p \in Seq(S) /\ q \in Seq(S)
<1>1. PICK S, T : p \in Seq(S) /\ q \in Seq(T)
  BY DEF IsList
<1>2. S \subseteq S \cup T /\ T \subseteq S \cup T
  OBVIOUS
<1>3. p \in Seq(S \cup T) /\ q \in Seq(S \cup T)
  BY <1>1, <1>2, LargerList
<1>. QED
  BY <1>3

LEMMA ListConcat ==
    ASSUME NEW p, NEW q, IsList(p), IsList(q)
    PROVE  /\ IsList(p \o q) /\ p \o <<>> = p /\ <<>> \o p = p
           /\ p # <<>> => /\ Head(p \o q) = Head(p) /\ Tail(p \o q) = Tail(p) \o q /\ p \o q # <<>>
                          /\ IsList(Tail(p)) /\ p = <<Head(p)>> \o Tail(p)
<1>1. PICK S : p \in Seq(S) /\ q \in Seq(S)
  BY InOneSet
<1>2. p \o q \in Seq(S) /\ p \o <<>> = p /\ <<>> \o p = p
  BY <1>1
<1>3. ASSUME p # <<>>
      PROVE  /\ Head(p \o q) = Head(p) /\ Tail(p \o q) = Tail(p) \o q /\ p \o q # <<>>
             /\ Tail(p) \in Seq(S) /\ p = <<Head(p)>> \o Tail(p)
  <2>1. Head(p \o q) = Head(p) /\ Tail(p \o q) = Tail(p) \o q /\ p \o q # <<>>
    BY <1>1, <1>3, HeadConcat
  <2>2. Tail(p) \in Seq(S) /\ Head(p) \in S /\ <<Head(p)>> \in Seq(S)
    BY <1>1, <1>3
  <2>. DEFINE r == <<Head(p)>> \o Tail(p)
  <2>3. r \in Seq(S) /\ Len(r) = Len(p) /\ \A i \in 1 .. Len(r) : r[i] = p[i]
    BY <1>1, <1>3, <2>2
  <2>4. p = r
    BY <1>1, <2>3, SeqEqual
  <2>. QED
    BY <2>1, <2>2, <2>4
<1>. QED
  BY <1>2, <1>3 DEF IsList

LEMMA Together ==
    ASSUME NEW p, NEW q, NEW r, IsList(p), IsList(q), IsList(r)
    PROVE  (p \o q) \o r = p \o (q \o r)
<1>1. PICK S : p \in Seq(S) /\ q \in Seq(S)
  BY InOneSet
<1>2. PICK T : r \in Seq(T)
  BY DEF IsList
<1>3. S \subseteq S \cup T /\ T \subseteq S \cup T
  OBVIOUS
<1>4. p \in Seq(S \cup T) /\ q \in Seq(S \cup T) /\ r \in Seq(S \cup T)
  BY <1>1, <1>2, <1>3, LargerList
<1>. QED
  BY <1>4, ConcatAssociative

LEMMA FreeIsList == ASSUME NEW p, NEW m, FreeList(p, m) PROVE IsList(p)
BY DEF FreeList, IsList

LEMMA RestParts ==
    ASSUME NEW q, NEW open, NEW won, Rest(q, open, won)
    PROVE  /\ IsList(q)
           /\ q # <<>> => \/ Free(Head(q), Place(open)) /\ Rest(Tail(q), open, won)
                          \/ Head(q).op \in Drives /\ Ending(q, open, won)
           /\ \A c : FreeList(c, Place(open)) => Rest(c \o q, open, won)
<1>1. PICK body, end : q = body \o end /\ FreeList(body, Place(open)) /\ IsList(end) /\ Ending(end, open, won)
  BY DEF Rest
<1>2. IsList(body)
  BY <1>1, FreeIsList
<1>3. IsList(q)
  BY <1>1, <1>2, ListConcat
<1>4. CASE body = <<>>
  <2>1. q = end
    BY <1>1, <1>4, ListConcat
  <2>2. q # <<>> => Head(q).op \in Drives /\ Ending(q, open, won)
    BY <1>1, <2>1, EndingHead
  <2>. HIDE DEF Place
  <2>3. ASSUME NEW c, FreeList(c, Place(open)) PROVE Rest(c \o q, open, won)
    BY <1>1, <2>1, <2>3 DEF Rest
  <2>. QED
    BY <1>3, <2>2, <2>3
<1>5. CASE body # <<>>
  <2>1. Head(q) = Head(body) /\ Tail(q) = Tail(body) \o end
    BY <1>1, <1>2, <1>5, ListConcat
  <2>2. Free(Head(body), Place(open)) /\ FreeList(Tail(body), Place(open))
    BY <1>1, <1>5, FreeParts
  <2>. HIDE DEF Place
  <2>3. Rest(Tail(q), open, won)
    BY <1>1, <2>1, <2>2 DEF Rest
  <2>4. ASSUME NEW c, FreeList(c, Place(open)) PROVE Rest(c \o q, open, won)
    <3>1. c \o q = (c \o body) \o end
      <4>1. IsList(c) /\ IsList(body) /\ IsList(end)
        BY <1>1, <1>2, <2>4, FreeIsList
      <4>2. (c \o body) \o end = c \o (body \o end)
        BY <4>1, Together
      <4>. QED
        BY <1>1, <4>2
    <3>2. FreeList(c \o body, Place(open))
      BY <1>1, <2>4, FreeConcat
    <3>. QED
      BY <1>1, <3>1, <3>2 DEF Rest
  <2>. QED
    BY <1>3, <2>1, <2>2, <2>3, <2>4
<1>. QED
  BY <1>4, <1>5

LEMMA ObtainingParts ==
    ASSUME NEW p, Obtaining(p)
    PROVE  /\ IsList(p)
           /\ p # <<>> => (Free(Head(p), "soft") \/ Head(p).op = "register") /\ Obtaining(Tail(p))
           /\ \A c : FreeList(c, "soft") => Obtaining(c \o p)
<1>1. PICK S : p \in Seq(S) /\ \A x \in S : Free(x, "soft") \/ x.op = "register"
  BY DEF Obtaining
<1>2. p # <<>> => Head(p) \in S /\ Tail(p) \in Seq(S)
  BY <1>1
<1>3. ASSUME NEW c, FreeList(c, "soft") PROVE Obtaining(c \o p)
  <2>. DEFINE T == S \cup ToSet(c)
  <2>1. c \in Seq(ToSet(c)) /\ \A x \in ToSet(c) : Free(x, "soft")
    BY <1>3, FreeElement
  <2>2. \A x \in T : Free(x, "soft") \/ x.op = "register"
    BY <1>1, <2>1
  <2>3. S \subseteq T /\ ToSet(c) \subseteq T
    OBVIOUS
  <2>. HIDE DEF T
  <2>4. c \in Seq(T) /\ p \in Seq(T)
    BY <1>1, <2>1, <2>3, LargerList
  <2>5. c \o p \in Seq(T)
    BY <2>4
  <2>. QED
    BY <2>2, <2>5 DEF Obtaining
<1>. QED
  BY <1>1, <1>2, <1>3 DEF IsList, Obtaining

\* Nothing is awaited: every relic listens.
Caught(open, relics, listeners) == open => Range(relics) \subseteq Range(listeners)

LEMMA NothingAwaited ==
    ASSUME NEW relics, NEW listeners
    PROVE  Awaited(<<>>, relics, listeners) <=> Range(relics) \subseteq Range(listeners)
<1>1. <<>> \in Seq({})
  OBVIOUS
<1>2. Registers(<<>>) = {} /\ Unrepeated(<<>>)
  BY <1>1, NoRegisters
<1>. QED
  BY <1>2 DEF Awaited

LEMMA RestShape ==
    ASSUME NEW p, NEW open, NEW won, NEW relics, NEW listeners,
           Rest(p, open, won), Caught(open, relics, listeners)
    PROVE  Shape(p, open, won, relics, listeners)
<1>1. IsList(p) /\ Obtaining(<<>>) /\ IsList(<<>>)
  <2>1. <<>> \in Seq({})
    OBVIOUS
  <2>3. Obtaining(<<>>)
    BY FreeNone, FreeRegisters
  <2>4. IsList(<<>>)
    BY <2>1 DEF IsList
  <2>. QED
    BY <2>3, <2>4, RestParts
<1>2. p = <<>> \o p
  BY <1>1, ListConcat
<1>3. open => Awaited(<<>>, relics, listeners)
  BY NothingAwaited DEF Caught
<1>. QED
  BY <1>1, <1>2, <1>3 DEF Shape

LEMMA EndingShape ==
    ASSUME NEW p, NEW open, NEW won, NEW relics, NEW listeners,
           IsList(p), Ending(p, open, won), Caught(open, relics, listeners)
    PROVE  Shape(p, open, won, relics, listeners)
<1>1. FreeList(<<>>, Place(open)) /\ p = <<>> \o p
  BY FreeNone, ListConcat
<1>2. Rest(p, open, won)
  BY <1>1 DEF Rest
<1>. QED
  BY <1>2, RestShape

\* What stands at the head of todo: what obtaining a relic in a combat brings,
\* something else that fits the place, or a decision of the driver.
LEMMA ShapeHead ==
    ASSUME NEW p, NEW open, NEW won, NEW relics, NEW listeners,
           Shape(p, open, won, relics, listeners), p # <<>>
    PROVE  /\ IsList(p)
           /\ \/ /\ open
                 /\ (Free(Head(p), "soft") \/ Head(p).op = "register")
                 /\ \E soft, q : /\ Tail(p) = soft \o q /\ Obtaining(soft) /\ Rest(q, open, won)
                                 /\ Awaited(<<Head(p)>> \o soft, relics, listeners)
              \/ Free(Head(p), Place(open)) /\ Rest(Tail(p), open, won) /\ Caught(open, relics, listeners)
              \/ Head(p).op \in Drives /\ Ending(p, open, won) /\ Caught(open, relics, listeners)
<1>1. PICK soft, q : /\ p = soft \o q /\ Obtaining(soft) /\ Rest(q, open, won)
                     /\ IF open THEN Awaited(soft, relics, listeners) ELSE soft = <<>>
  BY DEF Shape
<1>2. IsList(soft) /\ IsList(q) /\ IsList(p)
  BY <1>1, ObtainingParts, RestParts, ListConcat
<1>3. CASE soft = <<>>
  <2>1. p = q
    BY <1>1, <1>2, <1>3, ListConcat
  <2>2. Caught(open, relics, listeners)
    BY <1>1, <1>3, NothingAwaited DEF Caught
  <2>. QED
    BY <1>1, <1>2, <2>1, <2>2, RestParts
<1>4. CASE soft # <<>>
  <2>. DEFINE later == Tail(soft)
  <2>1. Head(p) = Head(soft) /\ Tail(p) = later \o q /\ soft = <<Head(soft)>> \o later
    BY <1>1, <1>2, <1>4, ListConcat
  <2>2. (Free(Head(soft), "soft") \/ Head(soft).op = "register") /\ Obtaining(later)
    BY <1>1, <1>4, ObtainingParts
  <2>3. open /\ Awaited(soft, relics, listeners)
    BY <1>1, <1>4
  <2>. HIDE DEF later
  <2>4. Awaited(<<Head(p)>> \o later, relics, listeners)
    BY <2>1, <2>3
  <2>. QED
    BY <1>1, <1>2, <2>1, <2>2, <2>3, <2>4
<1>. QED
  BY <1>3, <1>4

-----------------------------------------------------------------------------
(* Steps of effects *)

\* The places where todo goes on, and what the head may call there.
Here == IF combat.open THEN {"fight", "soft"} ELSE {"abroad"}
Proceeds(c) == \A m \in Here : Free(it, m) => FreeList(c, m)

\* What the listening depends on stays.
Steady ==
    /\ combat'.open = combat.open /\ (combat.open => run'.won = run.won)
    /\ bus' = bus /\ player'.relics = player.relics /\ Kept(things, things')

\* Outside of a combat nobody asks who won.
LEMMA OutsideShape ==
    ASSUME NEW p, NEW open, ~open, NEW won, NEW other, NEW relics, NEW listeners,
           Shape(p, open, won, relics, listeners)
    PROVE  Shape(p, open, other, relics, listeners)
<1>1. \A q : Ending(q, open, won) => Ending(q, open, other)
  BY DEF Ending
<1>2. \A q : Rest(q, open, won) => Rest(q, open, other)
  BY <1>1 DEF Rest
<1>. QED
  BY <1>2 DEF Shape

LEMMA ListeningStays ==
    ASSUME IInv, Listening, Steady
    PROVE  Listening'
<1>1. bus \in Seq(DOMAIN things)
  BY DEF IInv, State
<1>2. \A id \in Range(bus) : id \in DOMAIN things
  BY <1>1, LenProperties, ElementOfSeq DEF Range
<1>3. \A id \in Range(bus) : things'[id].kind = things[id].kind
  BY <1>2 DEF Steady, Kept
<1>. QED
  BY <1>3 DEF Listening, Steady

LEMMA ListenMoves ==
    ASSUME IInv, ListenInv, todo # <<>>, it.op \notin Drives \cup {"register"},
           NEW c, Proceeds(c), Call(c), Steady, Belongings'
    PROVE  ListenInv'
<1>. DEFINE open == combat.open
            won == run.won
            relics == player.relics
<1>1. Shape(todo, open, won, relics, bus)
  BY DEF ListenInv
<1>2. Shape(c \o Tail(todo), open, won, relics, bus)
  <2>1. ASSUME NEW soft, NEW q, open, Free(it, "soft"), Tail(todo) = soft \o q, Obtaining(soft),
               Rest(q, open, won), Awaited(<<it>> \o soft, relics, bus)
        PROVE  Shape(c \o Tail(todo), open, won, relics, bus)
    <3>1. FreeList(c, "soft")
      BY <2>1 DEF Proceeds, Here
    <3>2. IsList(c) /\ IsList(soft) /\ IsList(q)
      BY <2>1, <3>1, FreeIsList, ObtainingParts, RestParts
    <3>3. c \o Tail(todo) = (c \o soft) \o q
      <4>1. (c \o soft) \o q = c \o (soft \o q)
        BY <3>2, Together
      <4>. QED
        BY <2>1, <4>1
    <3>4. Obtaining(c \o soft)
      BY <2>1, <3>1, ObtainingParts
    <3>5. PICK S : c \in Seq(S) /\ soft \in Seq(S)
      BY <3>2, InOneSet
    <3>6. Awaited(soft, relics, bus)
      <4>1. Registers(<<it>> \o soft) = Registers(soft) /\ (Unrepeated(<<it>> \o soft) => Unrepeated(soft))
        BY <3>5, FirstRegister
      <4>. QED
        BY <2>1, <4>1 DEF Awaited
    <3>7. Awaited(c \o soft, relics, bus)
      <4>1. Registers(c) = {}
        BY <3>1, FreeRegisters
      <4>2. Registers(c \o soft) = Registers(soft) /\ (Unrepeated(soft) => Unrepeated(c \o soft))
        BY <3>5, <4>1, LaterRegisters
      <4>. QED
        BY <3>6, <4>2 DEF Awaited
    <3>. QED
      BY <2>1, <3>3, <3>4, <3>7 DEF Shape
  <2>2. ASSUME Free(it, Place(open)), Rest(Tail(todo), open, won), Caught(open, relics, bus)
        PROVE  Shape(c \o Tail(todo), open, won, relics, bus)
    <3>1. FreeList(c, Place(open))
      BY <2>2 DEF Proceeds, Here, Place
    <3>2. Rest(c \o Tail(todo), open, won)
      BY <2>2, <3>1, RestParts
    <3>. QED
      BY <2>2, <3>2, RestShape
  <2>. HIDE DEF open, won, relics
  <2>. QED
    BY <1>1, <2>1, <2>2, ShapeHead DEF it
<1>3. (combat'.open => run'.won = won) => Shape(todo', combat'.open, run'.won, player'.relics, bus')
  <2>1. todo' = c \o Tail(todo) /\ combat'.open = open /\ player'.relics = relics /\ bus' = bus
    BY DEF Call, Steady
  <2>2. CASE open
    BY <1>2, <2>1, <2>2
  <2>3. CASE ~open
    BY <1>2, <2>1, <2>3, OutsideShape
  <2>. QED
    BY <2>2, <2>3
<1>4. Listening'
  BY ListeningStays DEF ListenInv
<1>. QED
  BY <1>3, <1>4 DEF ListenInv, Steady

LEMMA ListenStep ==
    ASSUME IInv, ListenInv, todo # <<>>, it.op \notin Drives \cup {"register"},
           \E c : Proceeds(c) /\ Call(c), Steady, player'.potions = player.potions
    PROVE  ListenInv'
<1>1. PICK c : Proceeds(c) /\ Call(c)
  OBVIOUS
<1>2. Belongings'
  BY DEF ListenInv, Belongings, Steady
<1>. QED
  BY <1>1, <1>2, ListenMoves

LEMMA QuietListen ==
    ASSUME IInv, ListenInv, todo # <<>>, it.op \notin Drives \cup {"register"},
           \E c : Proceeds(c) /\ Call(c), UNCHANGED <<player, things, bus, combat>>, run'.won = run.won
    PROVE  ListenInv'
<1>1. Steady /\ player'.potions = player.potions
  BY DEF Steady, Kept
<1>. QED
  BY <1>1, ListenStep

\* Nothing is called.
LEMMA IdleListen ==
    ASSUME IInv, ListenInv, todo # <<>>, it.op \notin Drives \cup {"register"},
           Call(<<>>), Steady, player'.potions = player.potions
    PROVE  ListenInv'
<1>1. Proceeds(<<>>)
  BY FreeNone DEF Proceeds
<1>. QED
  BY <1>1, ListenStep

LEMMA PlaceOf ==
    ASSUME NEW m \in Here
    PROVE  m \in Modes /\ (m = "abroad" => ~combat.open) /\ (m \in {"fight", "soft"} => combat.open)
BY DEF Here, Modes

LEMMA NotBarred ==
    ASSUME NEW m, Free(it, m)
    PROVE  it.op \notin Barred(m) /\ (it.op = "emit" => Audible(it.of, m))
BY FreeBranch DEF Fit

\* What only runs in a combat.
LEMMA InFight ==
    ASSUME NEW m \in Here, Free(it, m), it.op \in InCombat \cup Courses
    PROVE  m = "fight" /\ combat.open
<1>1. m # "abroad" /\ m # "soft"
  BY NotBarred DEF Barred
<1>. QED
  BY <1>1, PlaceOf DEF Modes

LEMMA FightProceeds ==
    ASSUME it.op \in InCombat \cup Courses, NEW c, Free(it, "fight") => FreeList(c, "fight")
    PROVE  Proceeds(c)
BY InFight DEF Proceeds

LEMMA FightListen ==
    ASSUME IInv, ListenInv, todo # <<>>, it.op \in InCombat \cup Courses,
           NEW c, Free(it, "fight") => FreeList(c, "fight"), Call(c), Steady, player'.potions = player.potions
    PROVE  ListenInv'
<1>1. it.op \notin Drives \cup {"register"}
  BY DEF InCombat, Courses, Drives
<1>. QED
  BY <1>1, FightProceeds, ListenStep

LEMMA FightCalls ==
    /\ \A n, of : /\ Free(GoWith("enemy_phase", n, of), "fight") /\ Free(GoWith("enemies_left", n, of), "fight")
                  /\ Free(GoWith("resolve", n, of), "fight")
    /\ Free(Go("begin_turn"), "fight") /\ Free(Go("opening_hand"), "fight") /\ Free(Go("deaths"), "fight")
    /\ Free(Go("discard_hand"), "fight") /\ Free(Go("round_end"), "fight")
BY FreeGo DEF Barred, Drives

-----------------------------------------------------------------------------
(* Steps of cards and of the course of a combat *)

LEMMA DrawListens ==
    ASSUME IInv, ListenInv, draw
    PROVE  ListenInv'
<1>1. todo # <<>> /\ it.op \in InCombat \cup Courses
  BY DEF draw, Doing, it, InCombat
<1>2. PICK c : c \in {<<>>, <<Emit("SHUFFLE", "")>>} \cup {<<Emit("CARD_DRAW", status)>> : status \in scen.burdens} /\ Call(c)
  BY DEF draw
<1>3. FreeList(c, "fight")
  BY <1>2, FreeNone, FreeWords, FreeSingle
<1>4. Steady /\ player'.potions = player.potions
  BY DEF draw, Steady, Kept
<1>. QED
  BY <1>1, <1>2, <1>3, <1>4, FightListen

LEMMA AttackListens ==
    ASSUME IInv, ListenInv, attack
    PROVE  ListenInv'
<1>1. todo # <<>> /\ it.op \in InCombat \cup Courses
  BY DEF attack, InCombat
<1>. DEFINE thorns == IF scen.thorns > 0 /\ combat.foes > 0 THEN <<Damaged(scen.thorns)>> ELSE <<>>
            then(k) == IF k > 0 THEN it.then ELSE <<>>
<1>2. PICK k : /\ combat' = [Felled(k) EXCEPT !.tags = IF "ENVENOM" \in DOMAIN player.powers THEN @ \cup {"poison"} ELSE @]
               /\ Call(thorns \o then(k))
  BY DEF attack
<1>3. Free(it, "fight") => FreeList(thorns \o then(k), "fight")
  <2>. SUFFICES ASSUME Free(it, "fight") PROVE FreeList(thorns \o then(k), "fight")
    OBVIOUS
  <2>1. FreeList(thorns, "fight")
    BY FreeNone, FreeWords, FreeSingle
  <2>2. FreeList(it.then, "fight")
    BY <1>1, FreeGuarded DEF InCombat, Courses
  <2>3. FreeList(then(k), "fight")
    BY <2>2, FreeNone
  <2>. HIDE DEF thorns, then
  <2>. QED
    BY <2>1, <2>3, FreeConcat
<1>. HIDE DEF thorns, then
<1>4. Steady /\ player'.potions = player.potions
  <2>1. combat'.open = combat.open
    BY <1>2, Typed DEF Felled, CombatOk, CombatFields
  <2>2. player'.relics = player.relics /\ player'.potions = player.potions
    BY Typed DEF attack, PlayerOk, PlayerFields
  <2>. QED
    BY <2>1, <2>2 DEF attack, Steady, Kept
<1>. QED
  BY <1>1, <1>2, <1>3, <1>4, FightListen

LEMMA HitListens ==
    ASSUME IInv, ListenInv, hit
    PROVE  ListenInv'
<1>1. todo # <<>> /\ it.op \in InCombat \cup Courses
  BY DEF hit, InCombat
<1>2. \E k : combat' = Felled(k)
  BY DEF hit
<1>3. Steady /\ player'.potions = player.potions
  <2>1. combat'.open = combat.open
    BY <1>2, Typed DEF Felled, CombatOk, CombatFields
  <2>. QED
    BY <2>1 DEF hit, Steady, Kept
<1>. QED
  BY <1>1, <1>3, FreeNone, FightListen DEF hit

LEMMA TagListens ==
    ASSUME IInv, ListenInv, tag
    PROVE  ListenInv'
<1>1. todo # <<>> /\ it.op \in InCombat \cup Courses
  BY DEF tag, Doing, it, InCombat
<1>2. Steady /\ player'.potions = player.potions
  <2>1. combat'.open = combat.open
    BY Typed DEF tag, CombatOk, CombatFields
  <2>. QED
    BY <2>1 DEF tag, Steady, Kept
<1>. QED
  BY <1>1, <1>2, FreeNone, FightListen DEF tag

LEMMA DiscardListens ==
    ASSUME IInv, ListenInv, discard_from_hand
    PROVE  ListenInv'
<1>1. todo # <<>> /\ it.op \in InCombat \cup Courses
  BY DEF discard_from_hand, Doing, it, InCombat
<1>2. PICK c : /\ c \in {<<>>, <<Discard>>} \cup {OnDiscard[k] \o <<Discard>> : k \in DOMAIN OnDiscard}
               /\ Call(c)
  BY DEF discard_from_hand
<1>3. FreeList(c, "fight")
  <2>1. FreeList(<<Discard>>, "fight")
    BY FreeWords, FreeSingle
  <2>2. \A k \in DOMAIN OnDiscard : FreeList(OnDiscard[k] \o <<Discard>>, "fight")
    BY <2>1, FreeTables, FreeConcat
  <2>. QED
    BY <1>2, <2>1, <2>2, FreeNone
<1>4. Steady /\ player'.potions = player.potions
  <2>1. combat'.open = combat.open
    BY Typed DEF discard_from_hand, CombatOk, CombatFields
  <2>. QED
    BY <2>1 DEF discard_from_hand, Steady, Kept
<1>. QED
  BY <1>1, <1>2, <1>3, <1>4, FightListen

LEMMA ExhaustListens ==
    ASSUME IInv, ListenInv, exhaust_card
    PROVE  ListenInv'
<1>1. todo # <<>> /\ it.op \in InCombat \cup Courses
  BY DEF exhaust_card, Doing, it, InCombat
<1>2. \A x : FreeList(<<Exhausted(x)>>, "fight")
  BY FreeWords, FreeSingle DEF Exhausted
<1>3. \E c : FreeList(c, "fight") /\ Call(c)
  BY <1>2, FreeNone DEF exhaust_card
<1>4. Steady /\ player'.potions = player.potions
  BY DEF exhaust_card, Steady, Kept
<1>. QED
  BY <1>1, <1>3, <1>4, FightListen

LEMMA EachListens ==
    ASSUME IInv, ListenInv, each_in_hand
    PROVE  ListenInv'
<1>1. todo # <<>> /\ it.op = "each"
  BY DEF each_in_hand, Doing, it
<1>2. PICK n \in 0 .. scen.hand : Call(Times(n, it.then))
  BY DEF each_in_hand
<1>3. n \in Int
  BY Offered
<1>4. Free(it, "fight") => FreeList(Times(n, it.then), "fight")
  BY <1>1, <1>3, FreeGuarded, FreeTimes
<1>5. Steady /\ player'.potions = player.potions
  BY DEF each_in_hand, Steady, Kept
<1>. QED
  BY <1>1, <1>2, <1>4, <1>5, FightListen DEF InCombat

LEMMA HavocListens ==
    ASSUME IInv, ListenInv, havoc
    PROVE  ListenInv'
<1>1. todo # <<>> /\ it.op \in InCombat \cup Courses
  BY DEF havoc, Doing, it, InCombat
<1>2. \A x : FreeList(<<Exhausted(x)>>, "fight")
  BY FreeWords, FreeSingle DEF Exhausted
<1>3. \A x \in scen.cards : FreeList(Book[x].does \o <<Exhausted(x)>>, "fight")
  BY <1>2, Offered, FreeTables, FreeConcat
<1>4. \E c : FreeList(c, "fight") /\ Call(c)
  BY <1>3, FreeNone DEF havoc
<1>5. Steady /\ player'.potions = player.potions
  BY DEF havoc, Steady, Kept
<1>. QED
  BY <1>1, <1>4, <1>5, FightListen

LEMMA EndOfTurnListens ==
    ASSUME IInv, ListenInv, end_of_turn
    PROVE  ListenInv'
<1>1. todo # <<>> /\ it.op \in InCombat \cup Courses
  BY DEF end_of_turn, Doing, it, InCombat
<1>2. PICK left \in SUBSET (scen.burdens \cap DOMAIN EndOfTurn) : \E hand \in SetToSeqs(left) :
         Call(FlattenSeq([i \in DOMAIN hand |-> EndOfTurn[hand[i]]]))
  BY DEF end_of_turn
<1>3. PICK hand \in SetToSeqs(left) : Call(FlattenSeq([i \in DOMAIN hand |-> EndOfTurn[hand[i]]]))
  BY <1>2
<1>4. hand \in [1 .. Cardinality(left) -> left] /\ Cardinality(left) \in Int
  <2>1. IsFiniteSet(left)
    BY CardsAssumption, FS_Subset
  <2>2. Cardinality(left) \in Nat
    BY <2>1, FS_CardinalityType
  <2>. QED
    BY <2>2 DEF SetToSeqs
<1>. DEFINE n == Cardinality(left)
            f == [i \in 1 .. n |-> EndOfTurn[hand[i]]]
<1>5. \A i \in 1 .. n : FreeList(f[i], "fight")
  BY <1>4, FreeTables
<1>6. [i \in DOMAIN hand |-> EndOfTurn[hand[i]]] = [i \in 1 .. n |-> f[i]]
  BY <1>4
<1>. HIDE DEF f, n
<1>7. n \in Int
  BY <1>4 DEF n
<1>8. FreeList(FlattenSeq([i \in 1 .. n |-> f[i]]), "fight")
  BY <1>5, <1>7, FreeFlatten
<1>9. \E c : FreeList(c, "fight") /\ Call(c)
  BY <1>3, <1>6, <1>8
<1>10. Steady /\ player'.potions = player.potions
  BY DEF end_of_turn, Steady, Kept
<1>. QED
  BY <1>1, <1>9, <1>10, FightListen

LEMMA EnemyDeathsListens ==
    ASSUME IInv, ListenInv, check_enemy_deaths
    PROVE  ListenInv'
<1>1. todo # <<>> /\ it.op \in InCombat \cup Courses
  BY DEF check_enemy_deaths, Doing, it, InCombat
<1>2. combat.fallen \in Int /\ combat'.open = combat.open
  BY Typed DEF check_enemy_deaths, CombatOk, CombatFields
<1>3. FreeList([i \in 1 .. combat.fallen |-> Emit("ENEMY_DEATH", "")], "fight")
  BY <1>2, FreeWords, FreeRepeat
<1>4. \E c : FreeList(c, "fight") /\ Call(c)
  BY <1>3 DEF check_enemy_deaths
<1>5. Steady /\ player'.potions = player.potions
  BY <1>2 DEF check_enemy_deaths, Steady, Kept
<1>. QED
  BY <1>1, <1>4, <1>5, FightListen

LEMMA BeginTurnListens ==
    ASSUME IInv, ListenInv, begin_player_turn
    PROVE  ListenInv'
<1>1. todo # <<>> /\ it.op \in InCombat \cup Courses
  BY DEF begin_player_turn, Doing, it, Courses
<1>. DEFINE p == player.powers
            first == IF "NEXT_TURN_BLOCK" \in DOMAIN p THEN <<GainBlock(p["NEXT_TURN_BLOCK"])>> ELSE <<>>
            second == <<Emit("TURN_START", ""), Go("opening_hand")>>
<1>2. Call(first \o second)
  BY DEF begin_player_turn
<1>3. FreeList(first, "fight") /\ FreeList(second, "fight")
  BY FreeWords, FightCalls, FreeSingle, FreeNone, FreeTuples
<1>4. FreeList(first \o second, "fight")
  <2>. HIDE DEF first, second
  <2>. QED
    BY <1>3, FreeConcat
<1>5. Steady /\ player'.potions = player.potions
  <2>1. \E n, b, s : combat' = [combat EXCEPT !.turn = n, !.plays = 0, !.base = b, !.tags = s]
    BY DEF begin_player_turn
  <2>2. combat'.open = combat.open
    BY <2>1, Typed DEF CombatOk, CombatFields
  <2>3. \E b, q, e : player' = [player EXCEPT !.block = b, !.powers = q, !.energy = e]
    BY DEF begin_player_turn
  <2>4. player'.relics = player.relics /\ player'.potions = player.potions
    BY <2>3, Typed DEF PlayerOk, PlayerFields
  <2>. QED
    BY <2>2, <2>4 DEF begin_player_turn, Steady, Kept
<1>. HIDE DEF first, second
<1>. QED
  BY <1>1, <1>2, <1>4, <1>5, FightListen

LEMMA OpeningHandListens ==
    ASSUME IInv, ListenInv, opening_hand
    PROVE  ListenInv'
<1>1. todo # <<>> /\ it.op \in InCombat \cup Courses
  BY DEF opening_hand, Doing, it, Courses
<1>. DEFINE second == IF "NEXT_TURN_DRAW" \in DOMAIN player.powers
                      THEN <<Draw(player.powers["NEXT_TURN_DRAW"])>> ELSE <<>>
            draws == IF "NO_DRAW" \in DOMAIN player.powers THEN <<>> ELSE <<Draw(5)>> \o second
            tagged == <<Tag("discarded"), Discard>>
            last(basics) == IF basics > 0 THEN <<Draw(basics)>> ELSE <<>>
<1>2. \A x : FreeList(<<Draw(x)>>, "fight")
  BY FreeWords, FreeSingle
<1>3. FreeList(draws, "fight")
  <2>1. FreeList(second, "fight")
    BY <1>2, FreeNone
  <2>. HIDE DEF second
  <2>2. FreeList(<<Draw(5)>> \o second, "fight")
    BY <1>2, <2>1, FreeConcat
  <2>. QED
    BY <2>2, FreeNone
<1>4. FreeList(tagged, "fight")
  BY FreeWords, FreeTuples
<1>5. \A basics : FreeList(last(basics), "fight")
  BY <1>2, FreeNone
<1>6. \E basics \in {0, 1, 2} : Call(draws \o Times(basics, tagged) \o last(basics))
  <2>1. \E basics \in IF combat.turn = 1 /\ Has("gambling_chip") THEN 0 .. 2 ELSE {0} :
           Call(draws \o Times(basics, tagged) \o last(basics))
    BY DEF opening_hand
  <2>2. 0 .. 2 = {0, 1, 2}
    OBVIOUS
  <2>. HIDE DEF draws, tagged, last
  <2>. QED
    BY <2>1, <2>2
<1>. HIDE DEF draws, tagged, last
<1>7. PICK basics \in {0, 1, 2} : Call(draws \o Times(basics, tagged) \o last(basics))
  BY <1>6
<1>8. FreeList(draws \o Times(basics, tagged) \o last(basics), "fight")
  <2>1. basics \in Int
    OBVIOUS
  <2>2. FreeList(Times(basics, tagged), "fight")
    BY <1>4, <2>1, FreeTimes
  <2>3. FreeList(draws \o Times(basics, tagged), "fight")
    BY <1>3, <2>2, FreeConcat
  <2>. QED
    BY <1>5, <2>3, FreeConcat
<1>9. Steady /\ player'.potions = player.potions
  BY Typed DEF opening_hand, Steady, Kept, PlayerOk, PlayerFields
<1>. QED
  BY <1>1, <1>7, <1>8, <1>9, FightListen

LEMMA ResolveListens ==
    ASSUME IInv, ListenInv, resolve
    PROVE  ListenInv'
<1>1. todo # <<>> /\ it.op = "resolve"
  BY DEF resolve, Doing, it
<1>2. it.of \in DOMAIN Book
  BY <1>1, AtHead DEF OwnOps, Proper, MapOps, HeadOps
<1>. DEFINE does == Book[it.of].does
            last == <<Exhausted(it.of)>>
<1>3. FreeList(does, "fight") /\ FreeList(last, "fight")
  BY <1>2, FreeTables, FreeWords, FreeSingle DEF Exhausted
<1>4. \E n \in {1, 2} : Call(Times(n, does) \o last) \/ Call(Times(n, does) \o <<>>)
  BY DEF resolve
<1>5. \E copier : player' \in {player, Powered(player, copier, -1)}
  BY DEF resolve
<1>. HIDE DEF does, last
<1>6. \E c : FreeList(c, "fight") /\ Call(c)
  <2>1. PICK n \in {1, 2} : Call(Times(n, does) \o last) \/ Call(Times(n, does) \o <<>>)
    BY <1>4
  <2>2. n \in Int
    OBVIOUS
  <2>3. FreeList(Times(n, does), "fight")
    BY <1>3, <2>2, FreeTimes
  <2>4. FreeList(Times(n, does) \o last, "fight") /\ FreeList(Times(n, does) \o <<>>, "fight")
    BY <1>3, <2>3, FreeConcat, FreeNone
  <2>. QED
    BY <2>1, <2>4
<1>7. Steady /\ player'.potions = player.potions
  <2>1. combat'.open = combat.open
    BY Typed DEF resolve, CombatOk, CombatFields
  <2>2. player'.relics = player.relics /\ player'.potions = player.potions
    BY <1>5, Typed DEF Powered, PlayerOk, PlayerFields
  <2>. QED
    BY <2>1, <2>2 DEF resolve, Steady, Kept
<1>. QED
  BY <1>1, <1>6, <1>7, FightListen DEF Courses

LEMMA DiscardHandListens ==
    ASSUME IInv, ListenInv, discard_hand
    PROVE  ListenInv'
<1>1. todo # <<>> /\ it.op \in InCombat \cup Courses
  BY DEF discard_hand, Doing, it, Courses
<1>. DEFINE one == <<Exhaust>>
            last == <<GoWith("enemy_phase", combat.foes, "")>>
<1>2. PICK left \in SUBSET ((scen.cards \cup scen.burdens) \cap Ethereal) :
         Call(Times(Cardinality(left), one) \o last)
  BY DEF discard_hand
<1>3. Cardinality(left) \in Int
  <2>1. left \subseteq Ethereal
    BY <1>2
  <2>. QED
    BY <2>1, EtherealFinite, FS_Subset, FS_CardinalityType
<1>4. FreeList(one, "fight") /\ FreeList(last, "fight")
  BY FreeWords, FightCalls, FreeSingle
<1>. HIDE DEF one, last
<1>5. \E c : FreeList(c, "fight") /\ Call(c)
  BY <1>2, <1>3, <1>4, FreeTimes, FreeConcat
<1>6. Steady /\ player'.potions = player.potions
  <2>1. \E s : combat' = [combat EXCEPT !.tags = s]
    BY DEF discard_hand
  <2>2. combat'.open = combat.open
    BY <2>1, Typed DEF CombatOk, CombatFields
  <2>. QED
    BY <2>2 DEF discard_hand, Steady, Kept
<1>. QED
  BY <1>1, <1>5, <1>6, FightListen

LEMMA EnemyPhaseListens ==
    ASSUME IInv, ListenInv, enemy_phase
    PROVE  ListenInv'
<1>1. todo # <<>> /\ it.op \in InCombat \cup Courses
  BY DEF enemy_phase, Doing, it, Courses
<1>. DEFINE barrier == IF "FLAME_BARRIER" \in DOMAIN player.powers THEN <<HitOne>> ELSE <<>>
            hits == {<<Attacked(n)>> \o barrier : n \in scen.hits}
            debuffs == {<<Debuff(d, 1)>> : d \in scen.debuffs}
            after == <<Go("deaths"), GoWith("enemies_left",
                           IF Smaller(it.n, combat.foes) = 0 THEN 0 ELSE Smaller(it.n, combat.foes) - 1, "")>>
<1>2. FreeList(barrier, "fight") /\ FreeList(after, "fight")
  BY FreeWords, FightCalls, FreeSingle, FreeNone, FreeTuples
<1>3. \A move \in hits : FreeList(move, "fight")
  <2>. HIDE DEF barrier
  <2>1. \A n : FreeList(<<Attacked(n)>>, "fight")
    BY FreeWords, FreeSingle
  <2>. QED
    BY <1>2, <2>1, FreeConcat
<1>4. \A move \in debuffs : FreeList(move, "fight")
  BY FreeWords, FreeSingle
<1>5. \E move \in hits \cup debuffs \cup {<<>>} : Call(move \o after)
  BY DEF enemy_phase
<1>. HIDE DEF hits, debuffs, after
<1>6. \E c : FreeList(c, "fight") /\ Call(c)
  BY <1>2, <1>3, <1>4, <1>5, FreeNone, FreeConcat
<1>7. Steady /\ player'.potions = player.potions
  BY DEF enemy_phase, Steady, Kept
<1>. QED
  BY <1>1, <1>6, <1>7, FightListen

LEMMA EnemiesLeftListens ==
    ASSUME IInv, ListenInv, enemies_left
    PROVE  ListenInv'
<1>1. todo # <<>> /\ it.op \in InCombat \cup Courses
  BY DEF enemies_left, Doing, it, Courses
<1>. DEFINE poison == IF "poison" \in combat.tags THEN <<HitAll>> ELSE <<>>
            end == <<Go("deaths"), Go("round_end")>>
<1>2. FreeList(poison, "fight") /\ FreeList(end, "fight")
  BY FreeWords, FightCalls, FreeSingle, FreeNone, FreeTuples
<1>3. FreeList(<<GoWith("enemy_phase", it.n, "")>>, "fight")
  BY FightCalls, FreeSingle
<1>4. Call(IF player.hp <= 0 THEN <<>>
           ELSE IF Smaller(it.n, combat.foes) > 0 THEN <<GoWith("enemy_phase", it.n, "")>> ELSE poison \o end)
  BY DEF enemies_left
<1>. HIDE DEF poison, end
<1>5. FreeList(poison \o end, "fight")
  BY <1>2, FreeConcat
<1>6. \E c : FreeList(c, "fight") /\ Call(c)
  BY <1>3, <1>4, <1>5, FreeNone
<1>7. Steady /\ player'.potions = player.potions
  BY DEF enemies_left, Steady, Kept
<1>. QED
  BY <1>1, <1>6, <1>7, FightListen

LEMMA RoundEndListens ==
    ASSUME IInv, ListenInv, round_end
    PROVE  ListenInv'
<1>1. todo # <<>> /\ it.op \in InCombat \cup Courses
  BY DEF round_end, Doing, it, Courses
<1>2. FreeList(<<Go("begin_turn")>>, "fight")
  BY FightCalls, FreeSingle
<1>3. Steady /\ player'.potions = player.potions
  <2>1. combat'.open = combat.open
    BY Typed DEF round_end, CombatOk, CombatFields
  <2>2. \E q : player' = [player EXCEPT !.powers = q]
    BY DEF round_end
  <2>3. player'.relics = player.relics /\ player'.potions = player.potions
    BY <2>2, Typed DEF PlayerOk, PlayerFields
  <2>. QED
    BY <2>1, <2>3 DEF round_end, Steady, Kept
<1>. QED
  BY <1>1, <1>2, <1>3, FightListen DEF round_end

-----------------------------------------------------------------------------
(* Steps that change the player, but not what he owns *)

Same(p, q) == q.relics = p.relics /\ q.potions = p.potions

LEMMA PlayerListen ==
    ASSUME IInv, ListenInv, todo # <<>>, it.op \notin Drives \cup {"register"},
           \E c : Proceeds(c) /\ Call(c), UNCHANGED <<things, bus, combat, run>>, Same(player, player')
    PROVE  ListenInv'
<1>1. Steady /\ player'.potions = player.potions
  BY DEF Steady, Kept, Same
<1>. QED
  BY <1>1, ListenStep

LEMMA PlainPlayer ==
    ASSUME IInv, ListenInv, todo # <<>>, it.op \notin Drives \cup {"register"},
           Call(<<>>), UNCHANGED <<things, bus, combat, run>>, Same(player, player')
    PROVE  ListenInv'
<1>1. Proceeds(<<>>)
  BY FreeNone DEF Proceeds
<1>. QED
  BY <1>1, PlayerListen

LEMMA HealedSame ==
    ASSUME NEW p, DOMAIN p = PlayerFields
    PROVE  \A n : /\ Same(p, HealedTo(p, n)) /\ DOMAIN HealedTo(p, n) = PlayerFields
                  /\ Same(p, WithMaxHp(p, n)) /\ DOMAIN WithMaxHp(p, n) = PlayerFields
BY DEF PlayerFields, Same, HealedTo, WithMaxHp

LEMMA AppliedSame ==
    ASSUME NEW p, DOMAIN p = PlayerFields, NEW i
    PROVE  Same(p, Applied(p, i))
<1>. DEFINE q == Applied(p, i)
<1>1. CASE i.op \in {"heal", "mend", "heal_pct", "max_hp", "max_hp_per_cards", "feather"}
  <2>1. \E n : q \in {HealedTo(p, n), WithMaxHp(p, n)}
    BY <1>1 DEF Applied
  <2>. QED
    BY <2>1, HealedSame
<1>2. CASE i.op \in {"lose_max_hp", "max_hp_for_gold"}
  <2>1. \E n : LET r == [p EXCEPT !.maxHp = @ - i.n]
                   s == [p EXCEPT !.gold = 0]
               IN  q \in {HealedTo(r, n), WithMaxHp(s, n)}
    BY <1>2 DEF Applied
  <2>2. ASSUME NEW r, r \in {[p EXCEPT !.maxHp = @ - i.n], [p EXCEPT !.gold = 0]}
        PROVE  DOMAIN r = PlayerFields /\ Same(p, r)
    BY <2>2 DEF Same, PlayerFields
  <2>3. ASSUME NEW r, DOMAIN r = PlayerFields, Same(p, r), NEW n
        PROVE  Same(p, HealedTo(r, n)) /\ Same(p, WithMaxHp(r, n))
    BY <2>3, HealedSame DEF Same
  <2>. QED
    BY <2>1, <2>2, <2>3
<1>3. CASE i.op \in {"energy", "drain", "set_power", "unpower", "double_block", "full_heal", "gold", "lose_gold",
                     "lose_all_gold", "per_turn", "flag", "bleed_quarter_max", "bleed_half", "lament", "offer"}
  BY <1>3 DEF Applied, Same, PlayerFields
<1>4. CASE i.op \in {"cleanse", "add_card", "ward"}
  BY <1>4 DEF Applied, Same, PlayerFields
<1>5. CASE i.op \in {"power", "double_power", "curse_strength"}
  <2>1. \E k, n : q = Powered(p, k, n)
    BY <1>5 DEF Applied
  <2>. QED
    BY <2>1 DEF Powered, Same, PlayerFields
<1>6. CASE i.op \notin {"energy", "drain", "power", "set_power", "unpower", "double_power", "double_block",
                        "heal", "mend", "heal_pct", "max_hp", "lose_max_hp", "full_heal", "gold", "lose_gold",
                        "lose_all_gold", "per_turn", "flag", "bleed_quarter_max", "bleed_half",
                        "max_hp_per_cards", "max_hp_for_gold", "feather", "curse_strength", "cleanse", "lament",
                        "offer", "add_card", "ward"}
  <2>1. q = p
    BY <1>6 DEF Applied
  <2>. QED
    BY <2>1 DEF Same
<1>. QED
  BY <1>1, <1>2, <1>3, <1>4, <1>5, <1>6

LEMMA ApplyListens ==
    ASSUME IInv, ListenInv, apply
    PROVE  ListenInv'
<1>1. todo # <<>> /\ it.op \notin Drives \cup {"register"}
  BY DEF apply, Simple, Drives
<1>2. Same(player, player')
  BY Typed, AppliedSame DEF apply, PlayerOk
<1>. QED
  BY <1>1, <1>2, PlainPlayer DEF apply

LEMMA GainBlockListens ==
    ASSUME IInv, ListenInv, gain_block
    PROVE  ListenInv'
<1>1. todo # <<>> /\ it.op \in {"block", "gain_block"}
  BY DEF gain_block
<1>2. PICK a : Call(<<Emit("BLOCK_GAINED", a)>>)
  BY DEF gain_block
<1>3. Proceeds(<<Emit("BLOCK_GAINED", a)>>)
  <2>. SUFFICES ASSUME NEW m \in Here, Free(it, m) PROVE FreeList(<<Emit("BLOCK_GAINED", a)>>, m)
    BY DEF Proceeds
  <2>1. m \in {"fight", "abroad"}
    BY <1>1, NotBarred, PlaceOf DEF Barred, Announces, Modes
  <2>2. Audible("BLOCK_GAINED", m) /\ "emit" \notin Barred(m)
    BY <2>1 DEF Audible, Abroad, Barred, Drives, InCombat, Courses
  <2>. QED
    BY <2>2, FreeEmit, FreeSingle
<1>4. Same(player, player')
  <2>1. \E n : player' = [player EXCEPT !.block = @ + n]
    BY DEF gain_block
  <2>. QED
    BY <2>1, Typed DEF Same, PlayerOk, PlayerFields
<1>5. it.op \notin Drives \cup {"register"}
  BY <1>1 DEF Drives
<1>. QED
  BY <1>1, <1>2, <1>3, <1>4, <1>5, PlayerListen DEF gain_block

LEMMA DebuffListens ==
    ASSUME IInv, ListenInv, debuff
    PROVE  ListenInv'
<1>1. todo # <<>> /\ it.op \notin Drives \cup {"register"}
  BY DEF debuff, Doing, it, Drives
<1>2. \E k, n : player' \in {player, Powered(player, k, n)}
  BY DEF debuff
<1>3. Same(player, player')
  BY <1>2, Typed DEF Same, Powered, PlayerOk, PlayerFields
<1>4. combat'.open = combat.open
  BY Typed DEF debuff, CombatOk, CombatFields
<1>5. Steady /\ player'.potions = player.potions
  BY <1>3, <1>4 DEF debuff, Steady, Kept, Same
<1>. QED
  BY <1>1, <1>5, IdleListen DEF debuff

LEMMA ChangeDeckListens ==
    ASSUME IInv, ListenInv, change_deck
    PROVE  ListenInv'
<1>1. todo # <<>> /\ it.op \notin Drives \cup {"register"}
  BY DEF change_deck, DeckOps, Drives
<1>2. player' = player \/ player' \in DeckOutcomes(player, it.op)
  BY DEF change_deck
<1>3. DOMAIN player = PlayerFields
  BY Typed DEF PlayerOk
<1>4. ASSUME NEW q \in DeckOutcomes(player, it.op) PROVE Same(player, q)
  <2>1. CASE it.op = "remove_card"
    <3>1. PICK k : q = Removed(player, k)
      BY <1>4, <2>1 DEF DeckOutcomes
    <3>2. \E d, n : q = [player EXCEPT !.deck = d, !.removed = n]
      BY <3>1 DEF Removed
    <3>. QED
      BY <1>3, <3>2 DEF Same, PlayerFields
  <2>2. CASE it.op = "transform"
    <3>1. PICK k, new : q = Swap(player, k, new)
      BY <1>4, <2>2 DEF DeckOutcomes
    <3>2. \E d : q = [player EXCEPT !.deck = d]
      BY <3>1 DEF Swap
    <3>. QED
      BY <1>3, <3>2 DEF Same, PlayerFields
  <2>3. CASE it.op \notin {"remove_card", "transform"}
    <3>1. q = player \/ \E k : q = [player EXCEPT !.deck[k] = @ + 1] \/ q = [player EXCEPT !.deck[k] = @ - 1]
      BY <1>4, <2>3 DEF DeckOutcomes
    <3>. QED
      BY <1>3, <3>1 DEF Same, PlayerFields
  <2>. QED
    BY <2>1, <2>2, <2>3
<1>5. Same(player, player')
  BY <1>2, <1>4 DEF Same
<1>. QED
  BY <1>1, <1>5, PlainPlayer DEF change_deck

LEMMA PandoraListens ==
    ASSUME IInv, ListenInv, open_pandoras_box
    PROVE  ListenInv'
<1>1. todo # <<>> /\ it.op \notin Drives \cup {"register"}
  BY DEF open_pandoras_box, Doing, it, Drives
<1>2. \E d : player' = [player EXCEPT !.deck = d]
  BY DEF open_pandoras_box
<1>3. Same(player, player')
  BY <1>2, Typed DEF Same, PlayerOk, PlayerFields
<1>. QED
  BY <1>1, <1>3, PlainPlayer DEF open_pandoras_box

-----------------------------------------------------------------------------
(* Steps that hurt, and steps in the rooms *)

\* What never happens while a relic is obtained in a combat.
LEMMA NotSoft ==
    ASSUME NEW m \in Here, Free(it, m), it.op \in Harms \cup Announces
    PROVE  m \in {"fight", "abroad"}
BY NotBarred, PlaceOf DEF Barred, Modes

LEMMA LoudWords ==
    ASSUME NEW m \in {"fight", "abroad"}
    PROVE  /\ \A e \in Abroad : \A a : Free(Emit(e, a), m)
           /\ \A n, of : /\ Free(GoWith("fall", n, of), m) /\ Free(GoWith("rest_action", n, of), m)
                         /\ Free(HpLoss(n), m) /\ Free(Power(of, n), m) /\ Free(AddCard(of), m)
           /\ Free(Go("card_reward"), m)
<1>1. /\ "emit" \notin Barred(m)
      /\ \A op \in {"fall", "rest_action", "hurt", "power", "add_card", "card_reward"} :
            op \notin Barred(m) \cup {"either", "emit"}
  BY DEF Barred, Drives, InCombat, Courses
<1>2. \A e \in Abroad : \A a : Free(Emit(e, a), m)
  <2>1. \A e \in Abroad : Audible(e, m)
    BY DEF Audible
  <2>. QED
    BY <1>1, <2>1, FreeEmit
<1>3. \A op \in {"fall", "rest_action", "hurt", "power", "add_card", "card_reward"} :
         Free(Go(op), m) /\ \A n, of : Free(GoWith(op, n, of), m) /\ Free(Do(op, n, of, <<>>), m)
  BY <1>1, FreeGo
<1>. QED
  BY <1>2, <1>3 DEF HpLoss, Power, AddCard

LEMMA FeltFree ==
    ASSUME NEW m \in {"fight", "abroad"}
    PROVE  FreeList(Felt, m)
<1>. DEFINE first == <<Emit("DAMAGE_TAKEN", "")>>
            second == IF it.of = "hp_loss" /\ "RUPTURE" \in DOMAIN player.powers
                      THEN <<Power("STRENGTH", player.powers["RUPTURE"])>> ELSE <<>>
<1>1. FreeList(first, m) /\ FreeList(second, m)
  BY LoudWords, FreeSingle, FreeNone DEF Abroad
<1>2. Felt = first \o second
  BY DEF Felt
<1>. HIDE DEF first, second
<1>. QED
  BY <1>1, <1>2, FreeConcat

LEMMA LoudProceeds ==
    ASSUME it.op \in Harms \cup Announces, NEW c, \A m \in {"fight", "abroad"} : FreeList(c, m)
    PROVE  Proceeds(c)
BY NotSoft DEF Proceeds

LEMMA DamageStoppedListens ==
    ASSUME IInv, ListenInv, damage_stopped
    PROVE  ListenInv'
<1>1. todo # <<>> /\ it.op \notin Drives \cup {"register"}
  BY DEF damage_stopped, Doing, it, Drives
<1>2. Same(player, player')
  BY Typed DEF damage_stopped, Same, PlayerOk, PlayerFields
<1>. QED
  BY <1>1, <1>2, PlainPlayer DEF damage_stopped

LEMMA DamageLethalListens ==
    ASSUME IInv, ListenInv, damage_lethal
    PROVE  ListenInv'
<1>1. todo # <<>> /\ it.op = "hurt"
  BY DEF damage_lethal, Doing, it
<1>2. PICK n, of : Call(<<Emit("DEATH_WOULD_OCCUR", ""), GoWith("fall", n, of)>>)
  BY DEF damage_lethal
<1>3. \A m \in {"fight", "abroad"} : FreeList(<<Emit("DEATH_WOULD_OCCUR", ""), GoWith("fall", n, of)>>, m)
  BY LoudWords, FreeTuples DEF Abroad
<1>4. Proceeds(<<Emit("DEATH_WOULD_OCCUR", ""), GoWith("fall", n, of)>>)
  BY <1>1, <1>3, LoudProceeds DEF Harms
<1>5. Same(player, player')
  BY Typed DEF damage_lethal, Same, PlayerOk, PlayerFields
<1>6. it.op \notin Drives \cup {"register"}
  BY <1>1 DEF Drives
<1>. QED
  BY <1>1, <1>2, <1>4, <1>5, <1>6, PlayerListen DEF damage_lethal

LEMMA DamageTakenListens ==
    ASSUME IInv, ListenInv, damage_taken
    PROVE  ListenInv'
<1>1. todo # <<>> /\ it.op = "hurt"
  BY DEF damage_taken, Doing, it
<1>2. Proceeds(Felt)
  BY <1>1, FeltFree, LoudProceeds DEF Harms
<1>3. Same(player, player')
  BY Typed DEF damage_taken, Same, PlayerOk, PlayerFields
<1>4. it.op \notin Drives \cup {"register"}
  BY <1>1 DEF Drives
<1>. QED
  BY <1>1, <1>2, <1>3, <1>4, PlayerListen DEF damage_taken

LEMMA FallListens ==
    ASSUME IInv, ListenInv, fall
    PROVE  ListenInv'
<1>1. todo # <<>> /\ it.op = "fall"
  BY DEF fall, Doing, it
<1>2. PICK c : c \in {<<>>, Felt} /\ Call(c)
  BY DEF fall
<1>3. Proceeds(c)
  <2>1. \A m \in {"fight", "abroad"} : FreeList(c, m)
    BY <1>2, FeltFree, FreeNone
  <2>. QED
    BY <1>1, <2>1, LoudProceeds DEF Harms
<1>4. Same(player, player')
  BY Typed DEF fall, Same, PlayerOk, PlayerFields
<1>5. it.op \notin Drives \cup {"register"}
  BY <1>1 DEF Drives
<1>. QED
  BY <1>1, <1>2, <1>3, <1>4, <1>5, PlayerListen DEF fall

LEMMA BleedListens ==
    ASSUME IInv, ListenInv, bleed
    PROVE  ListenInv'
<1>1. todo # <<>> /\ it.op \in {"hurt_pct", "hurt_per_removed", "regret"}
  BY DEF bleed
<1>2. PICK n : Call(<<HpLoss(n)>>)
  BY DEF bleed
<1>3. \A m \in {"fight", "abroad"} : FreeList(<<HpLoss(n)>>, m)
  BY LoudWords, FreeSingle
<1>4. Proceeds(<<HpLoss(n)>>)
  BY <1>1, <1>3, LoudProceeds DEF Harms
<1>5. it.op \notin Drives \cup {"register"}
  BY <1>1 DEF Drives
<1>6. Same(player, player')
  BY DEF bleed, Same
<1>. QED
  BY <1>1, <1>2, <1>4, <1>5, <1>6, PlayerListen DEF bleed

LEMMA PainListens ==
    ASSUME IInv, ListenInv, pain
    PROVE  ListenInv'
<1>1. todo # <<>> /\ it.op = "pain"
  BY DEF pain, Doing, it
<1>2. PICK c : c \in {<<>>, <<HpLoss(1)>>} /\ Call(c)
  BY DEF pain
<1>3. \A m \in {"fight", "abroad"} : FreeList(c, m)
  BY <1>2, LoudWords, FreeSingle, FreeNone
<1>4. Proceeds(c)
  BY <1>1, <1>3, LoudProceeds DEF Harms
<1>5. it.op \notin Drives \cup {"register"}
  BY <1>1 DEF Drives
<1>6. Same(player, player')
  BY DEF pain, Same
<1>. QED
  BY <1>1, <1>2, <1>4, <1>5, <1>6, PlayerListen DEF pain

LEMMA CardRewardListens ==
    ASSUME IInv, ListenInv, card_reward
    PROVE  ListenInv'
<1>1. todo # <<>> /\ it.op = "card_reward"
  BY DEF card_reward, Doing, it
<1>2. \A k : \A m \in {"fight", "abroad"} : FreeList(<<AddCard(k), Emit("CARD_ADDED", TypeOf(k))>>, m)
  BY LoudWords, FreeTuples DEF Abroad
<1>3. \E c : Proceeds(c) /\ Call(c)
  <2>1. \A k : Proceeds(<<AddCard(k), Emit("CARD_ADDED", TypeOf(k))>>)
    BY <1>1, <1>2, LoudProceeds DEF Announces
  <2>2. Proceeds(<<>>)
    BY FreeNone DEF Proceeds
  <2>. QED
    BY <2>1, <2>2 DEF card_reward
<1>4. it.op \notin Drives \cup {"register"}
  BY <1>1 DEF Drives
<1>5. Same(player, player')
  BY DEF card_reward, Same
<1>. QED
  BY <1>1, <1>3, <1>4, <1>5, PlayerListen DEF card_reward

LEMMA RestListens ==
    ASSUME IInv, ListenInv, rest
    PROVE  ListenInv'
<1>1. todo # <<>> /\ it.op = "rest"
  BY DEF rest, Doing, it
<1>2. PICK action : Call(<<Emit("REST_SITE_ENTER", ""), GoWith("rest_action", 0, action)>>)
  BY DEF rest
<1>3. \A m \in {"fight", "abroad"} : FreeList(<<Emit("REST_SITE_ENTER", ""), GoWith("rest_action", 0, action)>>, m)
  BY LoudWords, FreeTuples DEF Abroad
<1>4. Proceeds(<<Emit("REST_SITE_ENTER", ""), GoWith("rest_action", 0, action)>>)
  BY <1>1, <1>3, LoudProceeds DEF Announces
<1>5. it.op \notin Drives \cup {"register"}
  BY <1>1 DEF Drives
<1>6. Same(player, player')
  BY DEF rest, Same
<1>. QED
  BY <1>1, <1>2, <1>4, <1>5, <1>6, PlayerListen DEF rest

LEMMA RestActionListens ==
    ASSUME IInv, ListenInv, rest_action
    PROVE  ListenInv'
<1>1. todo # <<>> /\ it.op = "rest_action"
  BY DEF rest_action, Doing, it
<1>2. PICK c : c \in {<<>>, <<Go("card_reward")>>} /\ Call(c)
  BY DEF rest_action
<1>3. \A m \in {"fight", "abroad"} : FreeList(c, m)
  BY <1>2, LoudWords, FreeSingle, FreeNone
<1>4. Proceeds(c)
  BY <1>1, <1>3, LoudProceeds DEF Announces
<1>5. it.op \notin Drives \cup {"register"}
  BY <1>1 DEF Drives
<1>6. Same(player, player')
  <2>1. DOMAIN player = PlayerFields
    BY Typed DEF PlayerOk
  <2>2. \E done : /\ \/ done = player \/ done = Removed(player, "Curse") \/ \E n : done = HealedTo(player, n)
                  /\ \E offer : player' = [done EXCEPT !.offer = offer]
    BY DEF rest_action
  <2>3. PICK done : /\ \/ done = player \/ done = Removed(player, "Curse") \/ \E n : done = HealedTo(player, n)
                    /\ \E offer : player' = [done EXCEPT !.offer = offer]
    BY <2>2
  <2>4. Same(player, done) /\ DOMAIN done = PlayerFields
    <3>1. \E d, n : Removed(player, "Curse") = [player EXCEPT !.deck = d, !.removed = n]
      BY DEF Removed
    <3>2. Same(player, Removed(player, "Curse")) /\ DOMAIN Removed(player, "Curse") = PlayerFields
      BY <2>1, <3>1 DEF Same, PlayerFields
    <3>. QED
      BY <2>1, <2>3, <3>2, HealedSame DEF Same
  <2>. QED
    BY <2>3, <2>4 DEF Same, PlayerFields
<1>. QED
  BY <1>1, <1>2, <1>4, <1>5, <1>6, PlayerListen DEF rest_action

LEMMA ShopListens ==
    ASSUME IInv, ListenInv, shop
    PROVE  ListenInv'
<1>1. todo # <<>> /\ it.op \notin Drives \cup {"register"}
  BY DEF shop, Doing, it, Drives
<1>2. DOMAIN player = PlayerFields
  BY Typed DEF PlayerOk
<1>. DEFINE worst == CASE "Curse" \in InDeck -> "Curse"
                       [] "Curse" \notin InDeck /\ "Strike" \in InDeck -> "Strike"
                       [] OTHER -> "Defend"
            fed == IF Has("meal_ticket") THEN HealedTo(player, player.hp + 15) ELSE player
            cost == IF Has("smiling_mask") THEN 50 ELSE 75
            Paid == [Removed(fed, worst) EXCEPT !.gold = @ - cost, !.flags = @ \ {"maw_bank"},
                                                !.shopped = Owns("MawBank")]
<1>3. Same(player, fed) /\ DOMAIN fed = PlayerFields
  BY <1>2, HealedSame DEF Same
<1>4. player' = IF worst \in InDeck /\ fed.gold >= cost THEN Paid ELSE fed
  BY DEF shop
<1>. HIDE DEF worst, fed, cost
<1>5. \E d, n, g, f, s : Paid = [[fed EXCEPT !.deck = d, !.removed = n] EXCEPT !.gold = g, !.flags = f, !.shopped = s]
  BY DEF Removed
<1>6. Same(player, Paid)
  BY <1>3, <1>5 DEF Same, PlayerFields
<1>. HIDE DEF Paid
<1>7. Same(player, player')
  BY <1>3, <1>4, <1>6
<1>. QED
  BY <1>1, <1>7, PlainPlayer DEF shop

\* Potions are dropped anywhere.
LEMMA PotionWords ==
    ASSUME NEW m \in Modes
    PROVE  \A n : Free(Potions(n), m)
BY FreeGo DEF Modes, Barred, Drives, InCombat, Courses, Harms, Announces, Potions

LEMMA PotionDropListens ==
    ASSUME IInv, ListenInv, potion_drop
    PROVE  ListenInv'
<1>1. todo # <<>> /\ it.op \notin Drives \cup {"register"}
  BY DEF potion_drop, Doing, it, Drives
<1>2. Proceeds(<<Potions(1)>>) /\ Proceeds(<<>>)
  BY PotionWords, PlaceOf, FreeSingle, FreeNone DEF Proceeds
<1>3. Same(player, player')
  BY DEF potion_drop, Same
<1>4. \E c : Proceeds(c) /\ Call(c)
  BY <1>2 DEF potion_drop
<1>. QED
  BY <1>1, <1>3, <1>4, PlayerListen DEF potion_drop

-----------------------------------------------------------------------------
(* Steps of the bus, of guards and of repetitions *)

LEMMA EmitListens ==
    ASSUME IInv, ListenInv, emit
    PROVE  ListenInv'
<1>1. todo # <<>> /\ it.op = "emit"
  BY DEF emit, Doing, it
<1>. DEFINE first == IF combat.open THEN PowerHooks(it.of, it.arg, player.powers, player.flags, combat.tags) ELSE <<>>
            f == [j \in DOMAIN bus |-> Answer(bus[j], it.of, it.arg)]
<1>2. Call(first \o FlattenSeq(f))
  BY DEF emit
<1>3. Proceeds(first \o FlattenSeq(f))
  <2>. SUFFICES ASSUME NEW m \in Here, Free(it, m) PROVE FreeList(first \o FlattenSeq(f), m)
    BY DEF Proceeds
  <2>1. Audible(it.of, m) /\ m \in Modes
    BY <1>1, NotBarred, PlaceOf
  <2>2. FreeList(first, m)
    <3>1. Integers(player.powers)
      BY Typed DEF PlayerOk
    <3>2. CASE m = "fight"
      BY <3>1, <3>2, FreeHooks, FreeNone
    <3>3. CASE m = "abroad"
      <4>1. first = <<>>
        BY <3>3, PlaceOf
      <4>. QED
        BY <4>1, FreeNone
    <3>4. CASE m = "soft"
      <4>1. it.of = "RELIC_OBTAINED"
        BY <2>1, <3>4 DEF Audible
      <4>2. first = <<>>
        BY <4>1 DEF PowerHooks
      <4>. QED
        BY <4>2, FreeNone
    <3>. QED
      BY <2>1, <3>2, <3>3, <3>4 DEF Modes
  <2>3. FreeList(FlattenSeq(f), m)
    <3>1. DOMAIN bus = 1 .. Len(bus) /\ Len(bus) \in Int /\ \A j \in 1 .. Len(bus) : bus[j] \in DOMAIN things
      BY ThingTyped, ElementOfSeq, LenProperties
    <3>2. \A id \in DOMAIN things : things[id].kind \in DOMAIN Known
      BY ThingTyped DEF ThingType
    <3>3. \A j \in 1 .. Len(bus) : FreeList(f[j], m)
      BY <2>1, <3>1, <3>2, FreeAnswer
    <3>4. f = [j \in 1 .. Len(bus) |-> f[j]]
      BY <3>1
    <3>. HIDE DEF f
    <3>5. FreeList(FlattenSeq([j \in 1 .. Len(bus) |-> f[j]]), m)
      BY <3>1, <3>3, FreeFlatten
    <3>. QED
      BY <3>4, <3>5
  <2>. HIDE DEF first, f
  <2>. QED
    BY <2>2, <2>3, FreeConcat
<1>. HIDE DEF first, f
<1>4. it.op \notin Drives \cup {"register"}
  BY <1>1 DEF Drives
<1>5. Same(player, player')
  BY DEF emit, Same
<1>. QED
  BY <1>1, <1>2, <1>3, <1>4, <1>5, PlayerListen DEF emit

LEMMA ObtainFree ==
    ASSUME NEW m \in {"abroad", "soft"}, NEW r, NEW a
    PROVE  Free(GoWith("obtain", 0, r), m) /\ Free([GoWith("obtain", 0, r) EXCEPT !.arg = a], m)
<1>. DEFINE x == GoWith("obtain", 0, r)
            y == [x EXCEPT !.arg = a]
<1>1. DOMAIN x = Fields /\ x.op = "obtain" /\ x.then = <<>>
  BY DEF GoWith, Do, Fields
<1>. HIDE DEF x
<1>2. DOMAIN y = Fields /\ y.op = "obtain" /\ y.then = <<>>
  BY <1>1 DEF Fields
<1>. HIDE DEF y
<1>3. Fit(x, m) /\ Fit(y, m) /\ Leads(x, m) = {<<>>} /\ Leads(y, m) = {<<>>}
  BY <1>1, <1>2 DEF Fit, Leads, Branches, Asks, Barred, Drives, InCombat, Courses, Harms, Announces
<1>4. Free(x, m) /\ Free(y, m)
  BY <1>3, FreeEffect, FreeNone
<1>. QED
  BY <1>4 DEF x, y

LEMMA RandomRelicListens ==
    ASSUME IInv, ListenInv, random_relic
    PROVE  ListenInv'
<1>1. todo # <<>> /\ it.op = "random_relic"
  BY DEF random_relic, Doing, it
<1>2. PICK r : Call(<<[GoWith("obtain", 0, r) EXCEPT !.arg = it.arg]>>)
  BY DEF random_relic
<1>3. Proceeds(<<[GoWith("obtain", 0, r) EXCEPT !.arg = it.arg]>>)
  <2>. SUFFICES ASSUME NEW m \in Here, Free(it, m)
                PROVE  FreeList(<<[GoWith("obtain", 0, r) EXCEPT !.arg = it.arg]>>, m)
    BY DEF Proceeds
  <2>1. m \in {"abroad", "soft"}
    BY <1>1, NotBarred, PlaceOf DEF Barred, Modes
  <2>. QED
    BY <2>1, ObtainFree, FreeSingle
<1>4. it.op \notin Drives \cup {"register"}
  BY <1>1 DEF Drives
<1>5. Same(player, player')
  BY DEF random_relic, Same
<1>. QED
  BY <1>1, <1>2, <1>3, <1>4, <1>5, PlayerListen DEF random_relic

LEMMA EventListens ==
    ASSUME IInv, ListenInv, event
    PROVE  ListenInv'
<1>1. todo # <<>> /\ it.op = "event"
  BY DEF event, Doing, it
<1>2. \E e \in scen.events :
         /\ run' = [run EXCEPT !.seen = @ \cup {e}]
         /\ \E choice \in DOMAIN Registry[e].choices \cup {1} : Call(Registry[e].choices[choice])
  BY DEF event
<1>3. PICK c : FreeList(c, "abroad") /\ Call(c)
  BY <1>2, Offered, FreeTables
<1>4. Proceeds(c)
  <2>. SUFFICES ASSUME NEW m \in Here, Free(it, m) PROVE FreeList(c, m)
    BY DEF Proceeds
  <2>1. m = "abroad"
    BY <1>1, NotBarred, PlaceOf DEF Barred, Modes
  <2>. QED
    BY <1>3, <2>1
<1>5. it.op \notin Drives \cup {"register"}
  BY <1>1 DEF Drives
<1>6. run'.won = run.won
  BY <1>2, RunDomain DEF RunFields
<1>. QED
  BY <1>1, <1>3, <1>4, <1>5, <1>6, QuietListen DEF event

LEMMA GuardedProceeds ==
    ASSUME it.op # "either", ~Asks(it)
    PROVE  Proceeds(Guarded) /\ Proceeds(it.then) /\ Proceeds(<<>>)
BY FreeGuarded, FreeNone DEF Proceeds

LEMMA TestListens ==
    ASSUME IInv, ListenInv, test
    PROVE  ListenInv'
<1>1. todo # <<>> /\ it.op \in {"if", "if_marked", "unless_marked"}
  BY DEF test
<1>. DEFINE condition == IF it.op = "if" THEN it.of ELSE it.op
<1>2. PICK holds \in IF condition = "empty_hand" THEN BOOLEAN ELSE {Holds(condition, it.n)} :
         Call(IF holds THEN Guarded ELSE <<>>)
  BY DEF test
<1>. DEFINE c == IF holds THEN Guarded ELSE <<>>
<1>3. Asks(it) /\ ~combat.open => c = <<>>
  <2>. SUFFICES ASSUME Asks(it), ~combat.open PROVE c = <<>>
    OBVIOUS
  <2>1. condition \in {"combat", "idle"}
    BY DEF Asks
  <2>2. Holds(condition, it.n) = FALSE \/ Holds(condition, it.n) = combat.open
    BY <2>1 DEF Holds
  <2>3. ~Holds(condition, it.n)
    BY <2>2
  <2>4. ~holds
    BY <1>2, <2>1, <2>3
  <2>. QED
    BY <2>4
<1>4. Proceeds(c)
  <2>. SUFFICES ASSUME NEW m \in Here, Free(it, m) PROVE FreeList(c, m)
    BY DEF Proceeds
  <2>1. CASE m = "abroad" /\ Asks(it)
    BY <1>3, <2>1, PlaceOf, FreeNone
  <2>2. CASE ~(m = "abroad" /\ Asks(it))
    BY <1>1, <2>2, FreeGuarded, FreeNone
  <2>. QED
    BY <2>1, <2>2
<1>. HIDE DEF condition
<1>5. it.op \notin Drives \cup {"register"}
  BY <1>1 DEF Drives
<1>6. Same(player, player')
  BY DEF test, Same
<1>. QED
  BY <1>1, <1>2, <1>4, <1>5, <1>6, PlayerListen DEF test

LEMMA PayListens ==
    ASSUME IInv, ListenInv, pay
    PROVE  ListenInv'
<1>1. todo # <<>> /\ it.op = "pay"
  BY DEF pay, Doing, it
<1>2. \E c : Proceeds(c) /\ Call(c)
  BY <1>1, GuardedProceeds DEF pay, Asks
<1>3. Same(player, player')
  BY Typed DEF pay, Same, PlayerOk, PlayerFields
<1>4. it.op \notin Drives \cup {"register"}
  BY <1>1 DEF Drives
<1>. QED
  BY <1>1, <1>2, <1>3, <1>4, PlayerListen DEF pay

LEMMA RollListens ==
    ASSUME IInv, ListenInv, roll
    PROVE  ListenInv'
<1>1. todo # <<>> /\ it.op \in {"maybe", "either"}
  BY DEF roll
<1>2. \E c : Proceeds(c) /\ Call(c)
  <2>1. CASE it.op = "maybe"
    BY <2>1, GuardedProceeds DEF roll, Asks
  <2>2. CASE it.op = "either"
    <3>1. \A m \in Here : Free(it, m) => FreeList(it.then[1], m) /\ FreeList(it.then[2], m)
      BY <2>2, FreeBranch DEF Leads, Branches, Asks
    <3>2. Proceeds(it.then[1]) /\ Proceeds(it.then[2])
      BY <3>1 DEF Proceeds
    <3>. QED
      BY <2>2, <3>2 DEF roll
  <2>. QED
    BY <1>1, <2>1, <2>2
<1>3. Same(player, player')
  BY DEF roll, Same
<1>4. it.op \notin Drives \cup {"register"}
  BY <1>1 DEF Drives
<1>. QED
  BY <1>1, <1>2, <1>3, <1>4, PlayerListen DEF roll

LEMMA SpendXListens ==
    ASSUME IInv, ListenInv, spend_x
    PROVE  ListenInv'
<1>1. todo # <<>> /\ it.op = "spend_x" /\ it.op \notin MapOps \cup HeadOps
  BY DEF spend_x, Doing, it, MapOps, HeadOps
<1>2. it.n \in Int /\ player.energy \in Int
  BY <1>1, AtHead, Typed DEF OwnOps, Proper, Amounts, PlayerOk
<1>. DEFINE n == Smaller(it.n, player.energy + IF Has("chemical_x") THEN 2 ELSE 0)
<1>3. n \in Int
  BY <1>2 DEF Smaller
<1>4. Call(Times(n, it.then))
  BY DEF spend_x
<1>. HIDE DEF n
<1>5. Proceeds(Times(n, it.then))
  BY <1>1, <1>3, FreeGuarded, FreeTimes DEF Proceeds, Asks
<1>6. Same(player, player')
  BY Typed DEF spend_x, Same, PlayerOk, PlayerFields
<1>7. it.op \notin Drives \cup {"register"}
  BY <1>1 DEF Drives
<1>. QED
  BY <1>1, <1>4, <1>5, <1>6, <1>7, PlayerListen DEF spend_x

-----------------------------------------------------------------------------
(* Steps that change a relic, or the map *)

LEMMA ThingListen ==
    ASSUME IInv, ListenInv, todo # <<>>, it.op \notin Drives \cup {"register"},
           \E c : Proceeds(c) /\ Call(c), UNCHANGED <<bus, combat, run>>, Same(player, player'),
           NEW id, NEW x, things' = [things EXCEPT ![id] = x], id \in DOMAIN things => x.kind = things[id].kind
    PROVE  ListenInv'
<1>1. Kept(things, things')
  BY DEF Kept
<1>2. Steady /\ player'.potions = player.potions
  BY <1>1 DEF Steady, Same
<1>. QED
  BY <1>2, ListenStep

LEMMA EveryListens ==
    ASSUME IInv, ListenInv, every
    PROVE  ListenInv'
<1>1. todo # <<>> /\ it.op = "every"
  BY DEF every, Doing, it
<1>. DEFINE fires == things[it.who].count + 1 >= it.n
            x == [things[it.who] EXCEPT !.count = IF fires THEN 0 ELSE @ + 1]
<1>2. \E c : Proceeds(c) /\ Call(c)
  BY <1>1, GuardedProceeds DEF every, Asks
<1>3. things' = [things EXCEPT ![it.who] = x] /\ UNCHANGED <<player, bus, combat, run>>
  BY DEF every, Keep
<1>4. it.who \in DOMAIN things => x.kind = things[it.who].kind
  BY ThingTyped DEF ThingType
<1>. HIDE DEF x
<1>5. it.op \notin Drives \cup {"register"} /\ Same(player, player')
  BY <1>1, <1>3 DEF Drives, Same
<1>. QED
  BY <1>1, <1>2, <1>3, <1>4, <1>5, ThingListen

LEMMA OnceListens ==
    ASSUME IInv, ListenInv, once
    PROVE  ListenInv'
<1>1. todo # <<>> /\ it.op = "once"
  BY DEF once, Doing, it
<1>. DEFINE x == [things[it.who] EXCEPT !.mark = TRUE]
<1>2. \E c : Proceeds(c) /\ Call(c)
  BY <1>1, GuardedProceeds DEF once, Asks
<1>3. things' = [things EXCEPT ![it.who] = x] /\ UNCHANGED <<player, bus, combat, run>>
  BY DEF once, Keep
<1>4. it.who \in DOMAIN things => x.kind = things[it.who].kind
  BY ThingTyped DEF ThingType
<1>. HIDE DEF x
<1>5. it.op \notin Drives \cup {"register"} /\ Same(player, player')
  BY <1>1, <1>3 DEF Drives, Same
<1>. QED
  BY <1>1, <1>2, <1>3, <1>4, <1>5, ThingListen

LEMMA MarkListens ==
    ASSUME IInv, ListenInv, mark
    PROVE  ListenInv'
<1>1. todo # <<>> /\ it.op \notin Drives \cup {"register"}
  BY DEF mark, Drives
<1>. DEFINE x == [things[it.who] EXCEPT !.mark = (it.op = "mark")]
<1>2. Proceeds(<<>>) /\ Call(<<>>)
  BY FreeNone DEF mark, Proceeds
<1>3. things' = [things EXCEPT ![it.who] = x] /\ UNCHANGED <<player, bus, combat, run>>
  BY DEF mark, Keep
<1>4. it.who \in DOMAIN things => x.kind = things[it.who].kind
  BY ThingTyped DEF ThingType
<1>. HIDE DEF x
<1>5. Same(player, player')
  BY <1>3 DEF Same
<1>. QED
  BY <1>1, <1>2, <1>3, <1>4, <1>5, ThingListen

LEMMA RestartListens ==
    ASSUME IInv, ListenInv, restart
    PROVE  ListenInv'
<1>1. todo # <<>> /\ it.op \notin Drives \cup {"register"}
  BY DEF restart, Doing, it, Drives
<1>. DEFINE x == [things[it.who] EXCEPT !.count = 0, !.seen = {}]
<1>2. Proceeds(<<>>) /\ Call(<<>>)
  BY FreeNone DEF restart, Proceeds
<1>3. things' = [things EXCEPT ![it.who] = x] /\ UNCHANGED <<player, bus, combat, run>>
  BY DEF restart, Keep
<1>4. it.who \in DOMAIN things => x.kind = things[it.who].kind
  BY ThingTyped DEF ThingType
<1>. HIDE DEF x
<1>5. Same(player, player')
  BY <1>3 DEF Same
<1>. QED
  BY <1>1, <1>2, <1>3, <1>4, <1>5, ThingListen

LEMMA PelletsListens ==
    ASSUME IInv, ListenInv, pellets
    PROVE  ListenInv'
<1>1. todo # <<>> /\ it.op \notin Drives \cup {"register"}
  BY DEF pellets, Doing, it, Drives
<1>2. Proceeds(<<>>) /\ Call(<<>>)
  BY FreeNone DEF pellets, Proceeds
<1>3. PICK now : things' = [things EXCEPT ![it.who].seen = now]
  BY DEF pellets
<1>. DEFINE x == [things[it.who] EXCEPT !.seen = now]
<1>4. things' = [things EXCEPT ![it.who] = x] /\ UNCHANGED <<bus, combat, run>>
  BY <1>3 DEF pellets
<1>5. it.who \in DOMAIN things => x.kind = things[it.who].kind
  BY ThingTyped DEF ThingType
<1>. HIDE DEF x
<1>6. Same(player, player')
  <2>1. player' = player \/ \E q : player' = [player EXCEPT !.powers = q]
    BY DEF pellets
  <2>. QED
    BY <2>1, Typed DEF Same, PlayerOk, PlayerFields
<1>. QED
  BY <1>1, <1>2, <1>4, <1>5, <1>6, ThingListen

LEMMA BuildFloorListens ==
    ASSUME IInv, ListenInv, build_floor
    PROVE  ListenInv'
<1>1. todo # <<>> /\ it.op \notin Drives \cup {"register"}
  BY DEF build_floor, Doing, it, Drives
<1>2. \E k, e : run' = [run EXCEPT !.kind = k, !.edges = e]
  BY DEF build_floor
<1>3. run'.won = run.won
  BY <1>2, RunDomain DEF RunFields
<1>4. Proceeds(<<>>) /\ Call(<<>>)
  BY FreeNone DEF build_floor, Proceeds
<1>. QED
  BY <1>1, <1>3, <1>4, QuietListen DEF build_floor

LEMMA ConnectListens ==
    ASSUME IInv, ListenInv, ensure_connectivity
    PROVE  ListenInv'
<1>1. todo # <<>> /\ it.op \notin Drives \cup {"register"}
  BY DEF ensure_connectivity, Doing, it, Drives
<1>2. \E e : run' = [run EXCEPT !.edges = e]
  BY DEF ensure_connectivity
<1>3. run'.won = run.won
  BY <1>2, RunDomain DEF RunFields
<1>4. Proceeds(<<>>) /\ Call(<<>>)
  BY FreeNone DEF ensure_connectivity, Proceeds
<1>. QED
  BY <1>1, <1>3, <1>4, QuietListen DEF ensure_connectivity

LEMMA EnsureListens ==
    ASSUME IInv, ListenInv, ensure_node_type
    PROVE  ListenInv'
<1>1. todo # <<>> /\ it.op \notin Drives \cup {"register"}
  BY DEF ensure_node_type, Doing, it, Drives
<1>2. run' = run \/ \E k : run' = [run EXCEPT !.kind = k]
  BY DEF ensure_node_type
<1>3. run'.won = run.won
  BY <1>2, RunDomain DEF RunFields
<1>4. Proceeds(<<>>) /\ Call(<<>>)
  BY FreeNone DEF ensure_node_type, Proceeds
<1>. QED
  BY <1>1, <1>3, <1>4, QuietListen DEF ensure_node_type

-----------------------------------------------------------------------------
(* Steps of the drivers *)

LEMMA TwoCalls ==
    ASSUME NEW x, NEW y, NEW q, IsList(q)
    PROVE  <<x, y>> \o q = <<x>> \o (<<y>> \o q) /\ IsList(<<y>> \o q) /\ IsList(<<x, y>> \o q)
<1>1. <<x>> \in Seq({x, y}) /\ <<y>> \in Seq({x, y}) /\ <<x, y>> \in Seq({x, y})
  <2>1. x \in {x, y} /\ y \in {x, y}
    OBVIOUS
  <2>2. \A S : x \in S /\ y \in S => <<x>> \in Seq(S) /\ <<y>> \in Seq(S) /\ <<x, y>> \in Seq(S)
    OBVIOUS
  <2>. QED
    BY <2>1, <2>2
<1>2. IsList(<<x>>) /\ IsList(<<y>>) /\ IsList(<<x, y>>)
  BY <1>1 DEF IsList
<1>3. <<x>> \o <<y>> = <<x, y>>
  <2>1. /\ <<x>> \o <<y>> \in Seq({x, y}) /\ Len(<<x>> \o <<y>>) = 2 /\ Len(<<x, y>>) = 2
        /\ \A i \in 1 .. 2 : (<<x>> \o <<y>>)[i] = <<x, y>>[i]
    BY <1>1
  <2>. QED
    BY <1>1, <2>1, SeqEqual
<1>4. (<<x>> \o <<y>>) \o q = <<x>> \o (<<y>> \o q)
  BY <1>2, Together
<1>. QED
  BY <1>2, <1>3, <1>4, ListConcat

\* When a driver is to decide, every relic listens.
LEMMA Driven ==
    ASSUME ListenInv, todo # <<>>, it.op \in Drives
    PROVE  /\ IsList(todo) /\ IsList(Tail(todo)) /\ todo = <<it>> \o Tail(todo)
           /\ Ending(todo, combat.open, run.won) /\ Caught(combat.open, player.relics, bus)
           /\ it.op = "loop" => combat.open /\ Rewarding(Tail(todo))
           /\ it.op \in {"turn", "judge"} => combat.open /\ Looping(Tail(todo))
           /\ it.op = "close_combat" => combat.open /\ Rewarding(Tail(todo))
           /\ it.op = "rewards" => (combat.open => ~run.won) /\ Alone(Tail(todo), "leave")
           /\ it.op = "leave" => (combat.open => ~run.won) /\ Tail(todo) = <<>>
           /\ it.op = "fight" => ~combat.open /\ Rewarding(Tail(todo))
           /\ it.op \in {"enter", "act", "first"} => ~combat.open /\ Tail(todo) = <<>>
<1>1. Shape(todo, combat.open, run.won, player.relics, bus)
  BY DEF ListenInv
<1>2. \A m : ~Free(it, m)
  BY NotBarred DEF Barred
<1>3. it.op # "register"
  BY DEF Drives
<1>4. IsList(todo) /\ Ending(todo, combat.open, run.won) /\ Caught(combat.open, player.relics, bus)
  BY <1>1, <1>2, <1>3, ShapeHead DEF it
<1>5. IsList(Tail(todo)) /\ todo = <<it>> \o Tail(todo)
  BY <1>4, ListConcat DEF it
<1>. QED
  BY <1>4, <1>5, EndingHead DEF it

\* A decision leaves effects to be run, and what is to be decided after them.
LEMMA DriverMoves ==
    ASSUME ListenInv, Caught(combat.open, player.relics, bus),
           UNCHANGED <<things, bus>>, Same(player, player'), combat'.open => combat.open,
           NEW body, NEW end, todo' = body \o end, FreeList(body, Place(combat'.open)),
           IsList(end), Ending(end, combat'.open, run'.won)
    PROVE  ListenInv'
<1>. DEFINE open == combat'.open
            won == run'.won
<1>1. Caught(open, player'.relics, bus')
  BY DEF Caught, Same
<1>2. Rest(todo', open, won)
  BY DEF Rest
<1>. HIDE DEF open, won
<1>3. Shape(todo', open, won, player'.relics, bus')
  BY <1>1, <1>2, RestShape
<1>4. Belongings' /\ Listening'
  BY DEF ListenInv, Belongings, Listening, Same
<1>. QED
  BY <1>3, <1>4 DEF ListenInv, open, won

LEMMA DriverCalls ==
    ASSUME ListenInv, Caught(combat.open, player.relics, bus),
           UNCHANGED <<things, bus>>, Same(player, player'), combat'.open => combat.open,
           IsList(todo'), Ending(todo', combat'.open, run'.won)
    PROVE  ListenInv'
<1>1. todo' = <<>> \o todo' /\ FreeList(<<>>, Place(combat'.open))
  BY ListConcat, FreeNone
<1>. QED
  BY <1>1, DriverMoves

LEMMA GoBefore ==
    ASSUME NEW q, IsList(q), NEW op
    PROVE  /\ Before(<<Go(op)>> \o q, op, q) /\ Go(op).op = op /\ IsList(<<Go(op)>> \o q)
           /\ \A n, of : Alone(<<GoWith(op, n, of)>>, op) /\ Before(<<GoWith(op, n, of)>> \o q, op, q)
           /\ Alone(<<Go(op)>>, op)
<1>1. Go(op).op = op /\ \A n, of : GoWith(op, n, of).op = op
  BY DEF Go, GoWith, Do
<1>2. Before(<<Go(op)>> \o q, op, q) /\ \A n, of : Before(<<GoWith(op, n, of)>> \o q, op, q)
  BY <1>1, BeforeOf DEF Before
<1>. QED
  BY <1>1, <1>2, BeforeHead DEF Alone

\* The end of a combat: COMBAT_END, then what end_combat clears.
LEMMA EndsListen ==
    ASSUME ListenInv, Caught(combat.open, player.relics, bus),
           UNCHANGED <<player, things, bus>>, combat'.open, combat.open,
           NEW q, Rewarding(q), NEW a, todo' = <<Emit("COMBAT_END", a), Go("close_combat")>> \o q
    PROVE  ListenInv'
<1>. DEFINE body == <<Emit("COMBAT_END", a)>>
            end == <<Go("close_combat")>> \o q
<1>1. IsList(q)
  BY RewardingList
<1>2. todo' = body \o end
  BY <1>1, TwoCalls
<1>3. FreeList(body, Place(combat'.open))
  BY FreeWords, FreeSingle DEF Place
<1>4. IsList(end) /\ Before(end, "close_combat", q)
  BY <1>1, GoBefore
<1>5. Ending(end, combat'.open, run'.won)
  BY <1>4 DEF Ending
<1>. HIDE DEF body, end
<1>. QED
  BY <1>2, <1>3, <1>4, <1>5, DriverMoves DEF Same

LEMMA CombatOverListens ==
    ASSUME IInv, ListenInv, combat_over
    PROVE  ListenInv'
<1>1. todo # <<>> /\ it.op = "loop"
  BY DEF combat_over, Doing, it
<1>2. combat.open /\ Rewarding(Tail(todo)) /\ Caught(combat.open, player.relics, bus)
  BY <1>1, Driven DEF Drives
<1>3. run'.won = (Outcome = "win")
  BY RunDomain DEF combat_over, Verdict, RunFields
<1>4. IsList(Tail(todo))
  BY <1>2, RewardingList
<1>5. CASE Outcome = "win"
  <2>1. todo' = <<Emit("COMBAT_END", ""), Go("close_combat")>> \o Tail(todo)
    BY <1>5 DEF combat_over, Verdict, Call
  <2>. QED
    BY <1>2, <2>1, EndsListen DEF combat_over
<1>6. CASE Outcome # "win"
  <2>1. todo' = Tail(todo)
    BY <1>4, <1>6, ListConcat DEF combat_over, Verdict, Call
  <2>2. Ending(todo', combat'.open, run'.won)
    BY <1>2, <1>3, <1>6, <2>1 DEF Ending
  <2>. QED
    BY <1>2, <1>4, <2>1, <2>2, DriverCalls DEF combat_over, Same
<1>. QED
  BY <1>5, <1>6

LEMMA NextTurnListens ==
    ASSUME IInv, ListenInv, next_turn
    PROVE  ListenInv'
<1>1. todo # <<>> /\ it.op = "loop"
  BY DEF next_turn, Doing, it
<1>. DEFINE q == Tail(todo)
            p == <<Go("loop")>> \o q
<1>2. combat.open /\ Rewarding(q) /\ Caught(combat.open, player.relics, bus)
  BY <1>1, Driven DEF Drives
<1>3. IsList(q)
  BY <1>2, RewardingList
<1>4. todo' = <<Go("turn")>> \o p
  BY <1>3, TwoCalls DEF next_turn, Call
<1>5. Looping(p) /\ IsList(p)
  BY <1>2, <1>3, GoBefore DEF Looping
<1>. HIDE DEF p, q
<1>6. Before(todo', "turn", p) /\ IsList(todo')
  BY <1>4, <1>5, GoBefore
<1>7. combat'.open = combat.open
  BY Typed DEF next_turn, CombatOk, CombatFields
<1>8. Ending(todo', combat'.open, run'.won)
  BY <1>2, <1>5, <1>6, <1>7 DEF Ending
<1>. QED
  BY <1>2, <1>6, <1>7, <1>8, DriverCalls DEF next_turn, Same

LEMMA CombatDrawnListens ==
    ASSUME IInv, ListenInv, combat_drawn
    PROVE  ListenInv'
<1>1. todo # <<>> /\ it.op = "loop"
  BY DEF combat_drawn, Doing, it
<1>2. combat.open /\ Rewarding(Tail(todo)) /\ Caught(combat.open, player.relics, bus)
  BY <1>1, Driven DEF Drives
<1>3. run'.won = FALSE
  BY RunDomain DEF combat_drawn, Verdict, RunFields
<1>4. IsList(Tail(todo))
  BY <1>2, RewardingList
<1>5. CASE scen.driver = "llm"
  <2>1. todo' = <<Emit("COMBAT_END", ""), Go("close_combat")>> \o Tail(todo) /\ combat' = combat
    BY <1>5 DEF combat_drawn, Verdict, Call
  <2>. QED
    BY <1>2, <2>1, EndsListen DEF combat_drawn
<1>6. CASE scen.driver # "llm"
  <2>1. todo' = Tail(todo)
    BY <1>4, <1>6, ListConcat DEF combat_drawn, Verdict, Call
  <2>2. Ending(todo', combat'.open, run'.won)
    BY <1>2, <1>3, <2>1 DEF Ending
  <2>. QED
    BY <1>2, <1>4, <2>1, <2>2, DriverCalls DEF combat_drawn, Same
<1>. QED
  BY <1>5, <1>6

LEMMA LastCall ==
    ASSUME NEW b, IsList(b), NEW x, NEW q, IsList(q)
    PROVE  (b \o <<x>>) \o q = b \o (<<x>> \o q) /\ IsList(<<x>> \o q)
<1>1. <<x>> \in Seq({x})
  OBVIOUS
<1>2. IsList(<<x>>)
  BY <1>1 DEF IsList
<1>3. IsList(<<x>> \o q)
  BY <1>2, ListConcat
<1>. QED
  BY <1>2, <1>3, Together

\* A driver of a combat calls b, and then decides again.
LEMMA TurnMoves ==
    ASSUME ListenInv, Caught(combat.open, player.relics, bus), combat.open, combat'.open,
           UNCHANGED <<things, bus>>, Same(player, player'),
           NEW q, IsList(q), NEW b, FreeList(b, "fight"), NEW x, todo' = (b \o <<x>>) \o q,
           Ending(<<x>> \o q, TRUE, run'.won)
    PROVE  ListenInv'
<1>1. IsList(b)
  BY FreeIsList
<1>2. todo' = b \o (<<x>> \o q) /\ IsList(<<x>> \o q)
  <2>1. (b \o <<x>>) \o q = b \o (<<x>> \o q) /\ IsList(<<x>> \o q)
    BY <1>1, LastCall
  <2>. QED
    BY <2>1, Zenon
<1>3. FreeList(b, Place(combat'.open))
  BY DEF Place
<1>4. Ending(<<x>> \o q, combat'.open, run'.won)
  BY DEF Ending
<1>. QED
  BY <1>2, <1>3, <1>4, DriverMoves

LEMMA LongerTuple ==
    \A a, b, c : /\ <<a, b, c>> = <<a, b>> \o <<c>> /\ <<a, b>> = <<a>> \o <<b>>
                 /\ IsList(<<a>>) /\ IsList(<<a, b>>) /\ IsList(<<a, b, c>>)
<1>. TAKE a, b, c
<1>. DEFINE S == {a, b, c}
<1>1. <<a>> \in Seq(S) /\ <<b>> \in Seq(S) /\ <<c>> \in Seq(S) /\ <<a, b>> \in Seq(S) /\ <<a, b, c>> \in Seq(S)
  <2>1. a \in S /\ b \in S /\ c \in S
    OBVIOUS
  <2>. HIDE DEF S
  <2>. QED
    BY <2>1
<1>. HIDE DEF S
<1>2. <<a, b>> = <<a>> \o <<b>>
  <2>1. /\ <<a>> \o <<b>> \in Seq(S) /\ Len(<<a>> \o <<b>>) = 2 /\ Len(<<a, b>>) = 2
        /\ \A i \in 1 .. 2 : (<<a>> \o <<b>>)[i] = <<a, b>>[i]
    BY <1>1
  <2>. QED
    BY <1>1, <2>1, SeqEqual
<1>3. <<a, b, c>> = <<a, b>> \o <<c>>
  <2>1. /\ <<a, b>> \o <<c>> \in Seq(S) /\ Len(<<a, b>> \o <<c>>) = 3 /\ Len(<<a, b, c>>) = 3
        /\ \A i \in 1 .. 3 : (<<a, b>> \o <<c>>)[i] = <<a, b, c>>[i]
    BY <1>1
  <2>. QED
    BY <1>1, <2>1, SeqEqual
<1>. QED
  BY <1>1, <1>2, <1>3 DEF IsList

LEMMA JudgeOnListens ==
    ASSUME IInv, ListenInv, judge_on
    PROVE  ListenInv'
<1>1. todo # <<>> /\ it.op = "judge"
  BY DEF judge_on, Doing, it
<1>2. combat.open /\ Looping(Tail(todo)) /\ Caught(combat.open, player.relics, bus)
  BY <1>1, Driven DEF Drives
<1>3. IsList(Tail(todo))
  BY <1>2, LoopingList
<1>4. todo' = <<Go("turn")>> \o Tail(todo) \/ todo' = Tail(todo)
  BY <1>3, ListConcat DEF judge_on, Call
<1>5. CASE todo' = <<Go("turn")>> \o Tail(todo)
  <2>1. Before(todo', "turn", Tail(todo)) /\ IsList(todo')
    BY <1>3, <1>5, GoBefore
  <2>2. Ending(todo', combat'.open, run'.won)
    BY <1>2, <2>1 DEF judge_on, Ending
  <2>. QED
    BY <1>2, <2>1, <2>2, DriverCalls DEF judge_on, Same
<1>6. CASE todo' = Tail(todo)
  <2>1. Ending(todo', combat'.open, run'.won)
    BY <1>2, <1>6 DEF judge_on, Ending
  <2>. QED
    BY <1>2, <1>3, <1>6, <2>1, DriverCalls DEF judge_on, Same
<1>. QED
  BY <1>4, <1>5, <1>6

LEMMA ThirdOn ==
    ASSUME NEW p, IsList(p), p # <<>>, Tail(p) # <<>>
    PROVE  SubSeq(p, 3, Len(p)) = Tail(Tail(p))
<1>1. PICK S : p \in Seq(S)
  BY DEF IsList
<1>2. Len(p) \in Nat /\ Len(p) >= 2 /\ Tail(p) \in Seq(S) /\ Len(Tail(p)) = Len(p) - 1
  <2>1. Len(p) \in Nat /\ Tail(p) \in Seq(S) /\ Len(Tail(p)) = Len(p) - 1
    BY <1>1
  <2>2. Len(Tail(p)) # 0 /\ Len(Tail(p)) \in Nat
    BY <2>1, EmptySeq
  <2>. QED
    BY <2>1, <2>2
<1>. DEFINE r == SubSeq(p, 3, Len(p))
            s == Tail(Tail(p))
<1>3. s \in Seq(S) /\ Len(s) = Len(p) - 2 /\ \A i \in 1 .. Len(s) : s[i] = p[i + 2]
  <2>1. s \in Seq(S) /\ Len(s) = Len(p) - 2
    BY <1>1, <1>2
  <2>2. \A i \in 1 .. Len(Tail(p)) : Tail(p)[i] = p[i + 1]
    BY <1>1, <1>2
  <2>3. \A i \in 1 .. Len(s) : s[i] = Tail(p)[i + 1]
    BY <1>1, <1>2
  <2>4. \A i \in 1 .. Len(s) : i + 1 \in 1 .. Len(Tail(p)) /\ (i + 1) + 1 = i + 2
    BY <1>2, <2>1
  <2>. HIDE DEF s
  <2>5. \A i \in 1 .. Len(s) : s[i] = p[i + 2]
    BY <2>2, <2>3, <2>4
  <2>. QED
    BY <2>1, <2>5
<1>4. r \in Seq(S) /\ Len(r) = Len(p) - 2 /\ \A i \in 1 .. Len(p) - 2 : r[i] = p[i + 2]
  BY <1>1, <1>2
<1>. HIDE DEF r, s
<1>5. r = s
  BY <1>3, <1>4, SeqEqual
<1>. QED
  BY <1>5 DEF r, s

LEMMA JudgeNowListens ==
    ASSUME IInv, ListenInv, judge_now
    PROVE  ListenInv'
<1>1. todo # <<>> /\ it.op = "judge"
  BY DEF judge_now, Doing, it
<1>2. combat.open /\ Looping(Tail(todo)) /\ Caught(combat.open, player.relics, bus) /\ IsList(todo)
  BY <1>1, Driven DEF Drives
<1>. DEFINE q == Tail(Tail(todo))
<1>3. Rewarding(q) /\ Tail(todo) # <<>>
  BY <1>2, BeforeHead DEF Looping
<1>4. SubSeq(todo, 3, Len(todo)) = q
  BY <1>1, <1>2, <1>3, ThirdOn
<1>5. IsList(q)
  BY <1>3, RewardingList
<1>6. run'.won = (Outcome = "win")
  BY RunDomain DEF judge_now, RunFields
<1>. HIDE DEF q
<1>7. CASE Outcome = "win"
  <2>1. todo' = <<Emit("COMBAT_END", ""), Go("close_combat")>> \o q
    BY <1>4, <1>7 DEF judge_now
  <2>. QED
    BY <1>2, <1>3, <2>1, EndsListen DEF judge_now
<1>8. CASE Outcome # "win"
  <2>1. todo' = q
    BY <1>4, <1>5, <1>8, ListConcat DEF judge_now
  <2>2. Ending(todo', combat'.open, run'.won)
    BY <1>3, <1>6, <1>8, <2>1 DEF Ending
  <2>. QED
    BY <1>2, <1>5, <2>1, <2>2, DriverCalls DEF judge_now, Same
<1>. QED
  BY <1>7, <1>8

LEMMA EndTurnListens ==
    ASSUME IInv, ListenInv, end_player_turn
    PROVE  ListenInv'
<1>1. todo # <<>> /\ it.op = "turn"
  BY DEF end_player_turn, Doing, it
<1>. DEFINE q == Tail(todo)
            body == <<Emit("TURN_END", ""), Go("discard_hand")>>
<1>2. combat.open /\ Looping(q) /\ Caught(combat.open, player.relics, bus)
  BY <1>1, Driven DEF Drives
<1>3. IsList(q)
  BY <1>2, LoopingList
<1>4. todo' = body \o q
  BY DEF end_player_turn, Call
<1>5. FreeList(body, "fight")
  BY FreeWords, FightCalls, FreeTuples
<1>6. combat'.open = combat.open
  BY Typed DEF end_player_turn, CombatOk, CombatFields
<1>. HIDE DEF q, body
<1>7. Ending(q, combat'.open, run'.won)
  BY <1>2, <1>6 DEF Ending
<1>8. FreeList(body, Place(combat'.open))
  BY <1>2, <1>5, <1>6 DEF Place
<1>. QED
  BY <1>2, <1>3, <1>4, <1>6, <1>7, <1>8, DriverMoves DEF end_player_turn, Same

LEMMA PlayCardListens ==
    ASSUME IInv, ListenInv, play_card
    PROVE  ListenInv'
<1>1. todo # <<>> /\ it.op = "turn"
  BY DEF play_card, Doing, it
<1>. DEFINE q == Tail(todo)
            card(name) == Book[name]
            first(name) == <<Emit("CARD_PLAY", card(name).type)>>
            typed(name) == IF card(name).type \in {"ATTACK", "SKILL"}
                           THEN <<Emit(card(name).type \o "_PLAY", "")>> ELSE <<>>
            end(name) == <<GoWith("resolve", 0, name), Go("deaths"), Go("judge")>>
            most(name) == <<GoWith("resolve", 0, name), Go("deaths")>>
<1>2. combat.open /\ Looping(q) /\ Caught(combat.open, player.relics, bus)
  BY <1>1, Driven DEF Drives
<1>3. IsList(q)
  BY <1>2, LoopingList
<1>4. \E name \in scen.cards :
         /\ \E cost \in Costs(card(name)) : player' = [player EXCEPT !.energy = @ - cost]
         /\ todo' = (first(name) \o typed(name) \o end(name)) \o q
  BY DEF play_card, Call
<1>5. PICK name : /\ \E cost : player' = [player EXCEPT !.energy = @ - cost]
                  /\ todo' = (first(name) \o typed(name) \o end(name)) \o q
  BY <1>4
<1>6. FreeList(first(name), "fight") /\ FreeList(typed(name), "fight") /\ FreeList(most(name), "fight")
  BY FreeWords, FightCalls, FreeTuples, FreeNone
<1>7. end(name) = most(name) \o <<Go("judge")>>
  <2>1. \A a, b, c : <<a, b, c>> = <<a, b>> \o <<c>>
    BY LongerTuple
  <2>. QED
    BY <2>1
<1>. HIDE DEF first, typed, end, most
<1>. DEFINE b == (first(name) \o typed(name)) \o most(name)
<1>8. FreeList(b, "fight")
  BY <1>6, FreeConcat
<1>9. first(name) \o typed(name) \o end(name) = b \o <<Go("judge")>>
  <2>1. FreeList(first(name) \o typed(name), "fight")
    BY <1>6, FreeConcat
  <2>2. IsList(first(name) \o typed(name)) /\ IsList(most(name))
    BY <1>6, <2>1, FreeIsList
  <2>. DEFINE a == first(name) \o typed(name)
  <2>. HIDE DEF a
  <2>3. IsList(a) /\ a \o end(name) = (a \o most(name)) \o <<Go("judge")>>
    <3>1. IsList(<<Go("judge")>>)
      BY FreeNone, FreeIsList, GoBefore, AloneHead
    <3>. QED
      BY <1>7, <2>2, <3>1, Together DEF a
  <2>. QED
    BY <2>3 DEF a
<1>. HIDE DEF b, q
<1>10. todo' = (b \o <<Go("judge")>>) \o q
  BY <1>5, <1>9
<1>11. Before(<<Go("judge")>> \o q, "judge", q)
  BY <1>3, GoBefore
<1>12. Ending(<<Go("judge")>> \o q, TRUE, run'.won)
  BY <1>2, <1>11 DEF Ending
<1>13. Same(player, player')
  BY <1>5, Typed DEF Same, PlayerOk, PlayerFields
<1>. QED
  BY <1>2, <1>3, <1>8, <1>10, <1>12, <1>13, TurnMoves DEF play_card

LEMMA CloseCombatListens ==
    ASSUME IInv, ListenInv, close_combat
    PROVE  ListenInv'
<1>1. todo # <<>> /\ it.op = "close_combat"
  BY DEF close_combat, Doing, it
<1>2. combat.open /\ Rewarding(Tail(todo)) /\ Caught(combat.open, player.relics, bus)
  BY <1>1, Driven DEF Drives
<1>3. IsList(Tail(todo))
  BY <1>2, RewardingList
<1>4. todo' = Tail(todo)
  BY <1>3, ListConcat DEF close_combat, Call
<1>5. ~combat'.open
  BY DEF close_combat, NoCombat
<1>6. Ending(todo', combat'.open, run'.won)
  BY <1>2, <1>4, <1>5 DEF Ending
<1>7. Same(player, player')
  <2>1. \E p, f : player' = [player EXCEPT !.powers = p, !.block = 0, !.flags = f]
    BY DEF close_combat
  <2>. QED
    BY <2>1, Typed DEF Same, PlayerOk, PlayerFields
<1>. QED
  BY <1>2, <1>3, <1>4, <1>5, <1>6, <1>7, DriverCalls DEF close_combat

-----------------------------------------------------------------------------
(* Steps of the walk *)

\* Outside of a combat a driver calls what is free to stand there, and then
\* decides again.
LEMMA WalkMoves ==
    ASSUME ListenInv, Caught(combat.open, player.relics, bus), ~combat.open, combat' = combat,
           UNCHANGED <<things, bus>>, Same(player, player'),
           NEW b, FreeList(b, "abroad"), NEW end, IsList(end), Ending(end, FALSE, run'.won), todo' = b \o end
    PROVE  ListenInv'
<1>1. FreeList(b, Place(combat'.open))
  BY DEF Place
<1>2. Ending(end, combat'.open, run'.won)
  BY DEF Ending
<1>. QED
  BY <1>1, <1>2, DriverMoves

LEMMA RoomWords ==
    /\ \A op \in {"rest", "shop", "treasure", "event", "card_reward", "potion_drop"} : Free(Go(op), "abroad")
    /\ \A n : Free(Gold(n), "abroad") /\ Free(RandomRelic(n), "abroad") /\ Free(Emit("BOSS_DEFEATED", n), "abroad")
    /\ \A n, of : Free(GoWith("build", n, of), "abroad") /\ Free(GoWith("ensure", n, of), "abroad")
    /\ Free(Go("connect"), "abroad") /\ Free(FullHeal, "abroad")
<1>1. /\ "emit" \notin Barred("abroad") /\ Audible("BOSS_DEFEATED", "abroad")
      /\ \A op \in {"rest", "shop", "treasure", "event", "card_reward", "potion_drop", "gold", "random_relic",
                    "build", "ensure", "connect", "full_heal"} : op \notin Barred("abroad") \cup {"either", "emit"}
  BY DEF Barred, Drives, InCombat, Courses, Audible, Abroad
<1>2. \A n : Free(Emit("BOSS_DEFEATED", n), "abroad")
  BY <1>1, FreeEmit
<1>3. \A op \in {"rest", "shop", "treasure", "event", "card_reward", "potion_drop", "gold", "random_relic",
                 "build", "ensure", "connect", "full_heal"} :
         Free(Go(op), "abroad") /\ \A n, of : Free(GoWith(op, n, of), "abroad") /\ Free(Do(op, n, of, <<>>), "abroad")
  BY <1>1, FreeGo
<1>. QED
  BY <1>2, <1>3 DEF Gold, RandomRelic, FullHeal

LEMMA FourthLast ==
    \A a, b, c, d : <<a, b, c, d>> = <<a, b, c>> \o <<d>>
<1>. TAKE a, b, c, d
<1>. DEFINE S == {a, b, c, d}
<1>1. <<d>> \in Seq(S) /\ <<a, b, c>> \in Seq(S) /\ <<a, b, c, d>> \in Seq(S)
  <2>1. a \in S /\ b \in S /\ c \in S /\ d \in S
    OBVIOUS
  <2>. HIDE DEF S
  <2>. QED
    BY <2>1
<1>. HIDE DEF S
<1>2. /\ <<a, b, c>> \o <<d>> \in Seq(S) /\ Len(<<a, b, c>> \o <<d>>) = 4 /\ Len(<<a, b, c, d>>) = 4
      /\ \A i \in 1 .. 4 : (<<a, b, c>> \o <<d>>)[i] = <<a, b, c, d>>[i]
  BY <1>1
<1>. QED
  BY <1>1, <1>2, SeqEqual

\* The driver is about to go somewhere.
LEMMA AloneWalk ==
    ASSUME NEW p, \E n, of : p = <<GoWith("enter", n, of)>> \o <<>>
    PROVE  Alone(p, "enter") /\ IsList(p)
<1>1. PICK n, of : p = <<GoWith("enter", n, of)>> \o <<>>
  OBVIOUS
<1>. DEFINE q == <<GoWith("enter", n, of)>>
<1>2. Alone(q, "enter")
  BY FreeNone, FreeIsList, GoBefore
<1>. HIDE DEF q
<1>3. IsList(q)
  BY <1>2, AloneHead
<1>4. p = q
  <2>1. p = q \o <<>>
    BY <1>1 DEF q
  <2>. QED
    BY <1>3, <2>1, ListConcat
<1>. QED
  BY <1>2, <1>3, <1>4

LEMMA RewardsListens ==
    ASSUME IInv, ListenInv, rewards
    PROVE  ListenInv'
<1>1. todo # <<>> /\ it.op = "rewards"
  BY DEF rewards, Doing, it
<1>2. (combat.open => ~run.won) /\ Alone(Tail(todo), "leave") /\ Caught(combat.open, player.relics, bus)
  BY <1>1, Driven DEF Drives
<1>3. IsList(Tail(todo))
  BY <1>2, AloneHead
<1>. DEFINE gold == IF Has("no_gold") THEN <<>> ELSE <<Gold(GoldOf(it.of))>>
            boss == IF it.of = "BOSS" THEN <<Emit("BOSS_DEFEATED", "")>> ELSE <<>>
            star == IF Has("black_star") THEN <<RandomRelic("elite")>> ELSE <<>>
            relic == IF it.of # "ELITE" THEN <<>> ELSE <<RandomRelic("elite")>> \o star
            rest1 == <<Go("card_reward"), Go("potion_drop")>>
<1>4. /\ FreeList(gold, "abroad") /\ FreeList(boss, "abroad") /\ FreeList(star, "abroad")
      /\ FreeList(<<RandomRelic("elite")>>, "abroad") /\ FreeList(rest1, "abroad")
  BY FreeNone, RoomWords, FreeTuples
<1>5. FreeList(relic, "abroad")
  <2>. HIDE DEF star
  <2>. QED
    BY <1>4, FreeNone, FreeConcat
<1>6. Call(IF ~run.won THEN <<>> ELSE gold \o boss \o relic \o rest1)
  BY DEF rewards
<1>. HIDE DEF gold, boss, star, relic, rest1
<1>7. CASE run.won
  <2>1. FreeList(gold \o boss, "abroad")
    BY <1>4, FreeConcat
  <2>2. FreeList((gold \o boss) \o relic, "abroad")
    BY <1>5, <2>1, FreeConcat
  <2>3. FreeList(((gold \o boss) \o relic) \o rest1, "abroad")
    BY <1>4, <2>2, FreeConcat
  <2>4. todo' = (((gold \o boss) \o relic) \o rest1) \o Tail(todo)
    BY <1>6, <1>7 DEF Call
  <2>5. Ending(Tail(todo), FALSE, run'.won)
    BY <1>2 DEF Ending
  <2>6. ~combat.open /\ combat' = combat /\ UNCHANGED <<things, bus>> /\ Same(player, player')
    BY <1>2, <1>7 DEF rewards, Same
  <2>. QED
    BY <1>2, <1>3, <2>3, <2>4, <2>5, <2>6, WalkMoves
<1>8. CASE ~run.won
  <2>1. todo' = Tail(todo)
    BY <1>3, <1>6, <1>8, ListConcat DEF Call
  <2>2. run' = run /\ combat' = combat /\ UNCHANGED <<things, bus>> /\ Same(player, player')
    BY DEF rewards, Same
  <2>3. Ending(todo', combat'.open, run'.won)
    BY <1>2, <1>8, <2>1, <2>2 DEF Ending
  <2>. QED
    BY <1>2, <1>3, <2>1, <2>2, <2>3, DriverCalls
<1>. QED
  BY <1>7, <1>8

LEMMA GenerateMapListens ==
    ASSUME IInv, ListenInv, generate_map
    PROVE  ListenInv'
<1>1. todo # <<>> /\ it.op = "act"
  BY DEF generate_map, Doing, it
<1>2. ~combat.open /\ Tail(todo) = <<>> /\ Caught(combat.open, player.relics, bus)
  BY <1>1, Driven DEF Drives
<1>. DEFINE n == scen.floors
            floor(f) == GoWith("build", f - 1, "")
            b == [f \in 1 .. n |-> floor(f)]
            three == <<Go("connect"), GoWith("ensure", MerchantFloor, "MERCHANT"),
                       GoWith("ensure", TreasureFloor, "TREASURE")>>
            last == <<Go("first")>>
            four == <<Go("connect"), GoWith("ensure", MerchantFloor, "MERCHANT"),
                      GoWith("ensure", TreasureFloor, "TREASURE"), Go("first")>>
<1>3. n \in Nat
  BY Offered
<1>4. FreeList(b, "abroad")
  <2>. DEFINE S == {floor(f) : f \in 1 .. n}
  <2>1. \A x \in S : Free(x, "abroad")
    BY RoomWords
  <2>2. b \in Seq(S)
    <3>. HIDE DEF n, floor
    <3>1. \A f \in 1 .. n : floor(f) \in S
      OBVIOUS
    <3>. HIDE DEF S
    <3>. QED
      BY <1>3, <3>1
  <2>. HIDE DEF b, S
  <2>. QED
    BY <2>1, <2>2, FreeOf
<1>5. FreeList(three, "abroad")
  BY RoomWords, FreeTuples
<1>6. Alone(last, "first") /\ IsList(last) /\ last # <<>>
  <2>1. Alone(last, "first")
    BY FreeNone, FreeIsList, GoBefore
  <2>. HIDE DEF last
  <2>. QED
    BY <2>1, AloneHead
<1>7. four = three \o last
  BY FourthLast
<1>8. todo' = b \o four
  <2>1. IsList(b) /\ IsList(three)
    BY <1>4, <1>5, FreeIsList
  <2>2. todo' = (b \o four) \o <<>>
    BY <1>2 DEF generate_map, Call
  <2>. HIDE DEF b, three, four, last
  <2>3. IsList(four)
    BY <1>6, <1>7, <2>1, ListConcat
  <2>4. IsList(b \o four)
    BY <2>1, <2>3, ListConcat
  <2>. QED
    BY <2>2, <2>4, ListConcat
<1>. HIDE DEF b, three, four, last
<1>9. todo' = (b \o three) \o last
  <2>1. IsList(b) /\ IsList(three)
    BY <1>4, <1>5, FreeIsList
  <2>. QED
    BY <1>6, <1>7, <1>8, <2>1, Together
<1>10. FreeList(b \o three, "abroad")
  BY <1>4, <1>5, FreeConcat
<1>11. Ending(last, FALSE, run'.won)
  BY <1>6 DEF Ending
<1>12. combat' = combat /\ UNCHANGED <<things, bus>> /\ Same(player, player')
  BY DEF generate_map, Same
<1>. QED
  BY <1>2, <1>6, <1>9, <1>10, <1>11, <1>12, WalkMoves

LEMMA FirstRoomListens ==
    ASSUME IInv, ListenInv, first_room
    PROVE  ListenInv'
<1>1. todo # <<>> /\ it.op = "first"
  BY DEF first_room, Doing, it
<1>2. ~combat.open /\ Tail(todo) = <<>> /\ Caught(combat.open, player.relics, bus)
  BY <1>1, Driven DEF Drives
<1>3. \E n : todo' = <<GoWith("enter", n, "")>> \o <<>>
  BY <1>2 DEF first_room, Call
<1>4. Alone(todo', "enter") /\ IsList(todo')
  BY <1>3, AloneWalk
<1>5. Ending(todo', combat'.open, run'.won)
  BY <1>2, <1>4 DEF first_room, Ending
<1>. QED
  BY <1>2, <1>4, <1>5, DriverCalls DEF first_room, Same

LEMMA MoveToListens ==
    ASSUME IInv, ListenInv, move_to
    PROVE  ListenInv'
<1>1. todo # <<>> /\ it.op = "enter"
  BY DEF move_to, Doing, it
<1>2. ~combat.open /\ Tail(todo) = <<>> /\ Caught(combat.open, player.relics, bus)
  BY <1>1, Driven DEF Drives
<1>3. PICK kind : todo' = (RoomCalls(kind) \o <<Go("leave")>>) \o <<>>
  BY <1>2 DEF move_to, Call
<1>. DEFINE leave == <<Go("leave")>>
<1>4. Alone(leave, "leave") /\ IsList(leave)
  <2>1. Alone(leave, "leave")
    BY FreeNone, FreeIsList, GoBefore
  <2>. HIDE DEF leave
  <2>. QED
    BY <2>1, AloneHead
<1>5. combat' = combat /\ UNCHANGED <<things, bus>> /\ Same(player, player')
  <2>1. \E f, g : player' = [player EXCEPT !.floor = f, !.gold = g]
    BY DEF move_to
  <2>2. Same(player, player')
    BY <2>1, Typed DEF Same, PlayerOk, PlayerFields
  <2>. QED
    BY <2>2 DEF move_to
<1>6. CASE kind \in {"MONSTER", "ELITE", "BOSS"}
  <2>. DEFINE fight == GoWith("fight", 0, kind)
              after == GoWith("rewards", 0, kind)
  <2>1. todo' = (<<fight, after>> \o leave) \o <<>>
    BY <1>3, <1>6 DEF RoomCalls
  <2>2. /\ Before(<<after>> \o leave, "rewards", leave) /\ IsList(<<after>> \o leave)
        /\ \A q : IsList(q) => Before(<<fight>> \o q, "fight", q)
    BY <1>4, GoBefore, BeforeHead
  <2>. HIDE DEF leave, fight, after
  <2>3. <<fight, after>> \o leave = <<fight>> \o (<<after>> \o leave) /\ IsList(<<fight, after>> \o leave)
    BY <1>4, TwoCalls
  <2>4. todo' = <<fight>> \o (<<after>> \o leave) /\ IsList(todo')
    BY <2>1, <2>3, ListConcat
  <2>5. Rewarding(<<after>> \o leave)
    BY <1>4, <2>2 DEF Rewarding
  <2>6. Ending(todo', combat'.open, run'.won)
    BY <1>2, <1>5, <2>2, <2>4, <2>5 DEF Ending
  <2>. QED
    BY <1>2, <1>5, <2>4, <2>6, DriverCalls
<1>7. CASE kind \notin {"MONSTER", "ELITE", "BOSS"}
  <2>1. \E op \in {"rest", "shop", "treasure", "event"} : RoomCalls(kind) = <<Go(op)>>
    BY <1>7 DEF RoomCalls
  <2>2. FreeList(RoomCalls(kind), "abroad")
    BY <2>1, RoomWords, FreeSingle
  <2>. HIDE DEF leave
  <2>3. IsList(RoomCalls(kind) \o leave)
    BY <1>4, <2>2, FreeIsList, ListConcat
  <2>4. todo' = RoomCalls(kind) \o leave
    BY <1>3, <2>3, ListConcat DEF leave
  <2>5. Ending(leave, FALSE, run'.won)
    BY <1>4 DEF Ending
  <2>. QED
    BY <1>2, <1>4, <1>5, <2>2, <2>4, <2>5, WalkMoves
<1>. QED
  BY <1>6, <1>7

LEMMA RunLostListens ==
    ASSUME IInv, ListenInv, run_lost
    PROVE  ListenInv'
<1>1. todo # <<>> /\ it.op = "leave"
  BY DEF run_lost, Doing, it
<1>2. Caught(combat.open, player.relics, bus)
  BY <1>1, Driven DEF Drives
<1>3. IsList(todo') /\ Ending(todo', combat'.open, run'.won)
  BY FreeNone, FreeIsList DEF run_lost, Ending
<1>. QED
  BY <1>2, <1>3, DriverCalls DEF run_lost, Same

LEMMA NextRoomListens ==
    ASSUME IInv, ListenInv, next_room
    PROVE  ListenInv'
<1>1. todo # <<>> /\ it.op = "leave" /\ run.won
  BY DEF next_room, Doing, it
<1>2. ~combat.open /\ Tail(todo) = <<>> /\ Caught(combat.open, player.relics, bus)
  BY <1>1, Driven DEF Drives
<1>3. \E n : todo' = <<GoWith("enter", n, "")>> \o <<>>
  BY <1>2 DEF next_room, Call
<1>4. Alone(todo', "enter") /\ IsList(todo')
  BY <1>3, AloneWalk
<1>5. Ending(todo', combat'.open, run'.won)
  BY <1>2, <1>4 DEF next_room, Ending
<1>. QED
  BY <1>2, <1>4, <1>5, DriverCalls DEF next_room, Same

LEMMA ActEndListens ==
    ASSUME IInv, ListenInv, act_end
    PROVE  ListenInv'
<1>1. todo # <<>> /\ it.op = "leave" /\ run.won
  BY DEF act_end, Doing, it
<1>2. ~combat.open /\ Tail(todo) = <<>> /\ Caught(combat.open, player.relics, bus)
  BY <1>1, Driven DEF Drives
<1>3. CASE run.act = Len(scen.acts)
  <2>1. IsList(todo') /\ Ending(todo', combat'.open, run'.won)
    BY <1>3, FreeNone, FreeIsList DEF act_end, Ending
  <2>. QED
    BY <1>2, <2>1, DriverCalls DEF act_end, Same
<1>4. CASE run.act # Len(scen.acts)
  <2>. DEFINE offers == {r \in BossRelics \cap scen.loot : relic_allowed(r, scen.character)} \ OwnedKinds
              gifts == IF offers = {} THEN {<<>>} ELSE {<<GoWith("obtain", 0, r)>> : r \in offers}
              last == <<Go("act")>>
  <2>1. \E calls \in gifts : Call(<<FullHeal>> \o calls \o last)
    BY <1>4 DEF act_end
  <2>2. \A calls \in gifts : FreeList(calls, "abroad")
    <3>1. \A r : FreeList(<<GoWith("obtain", 0, r)>>, "abroad")
      BY ObtainFree, FreeSingle
    <3>. HIDE DEF offers
    <3>. QED
      BY <3>1, FreeNone
  <2>3. Alone(last, "act") /\ IsList(last)
    <3>1. Alone(last, "act")
      BY FreeNone, FreeIsList, GoBefore
    <3>. HIDE DEF last
    <3>. QED
      BY <3>1, AloneHead
  <2>. HIDE DEF gifts, last
  <2>4. PICK calls \in gifts : todo' = (<<FullHeal>> \o calls \o last) \o <<>>
    BY <1>2, <2>1 DEF Call
  <2>5. FreeList(<<FullHeal>>, "abroad")
    BY RoomWords, FreeSingle
  <2>6. FreeList(<<FullHeal>> \o calls, "abroad")
    BY <2>2, <2>5, FreeConcat
  <2>7. IsList((<<FullHeal>> \o calls) \o last)
    BY <2>3, <2>6, FreeIsList, ListConcat
  <2>8. todo' = (<<FullHeal>> \o calls) \o last
    BY <2>4, <2>7, ListConcat
  <2>9. Ending(last, FALSE, run'.won)
    BY <2>3 DEF Ending
  <2>10. combat' = combat /\ UNCHANGED <<things, bus>> /\ Same(player, player')
    BY DEF act_end, Same
  <2>. QED
    BY <1>2, <2>3, <2>6, <2>8, <2>9, <2>10, WalkMoves
<1>. QED
  BY <1>3, <1>4

-----------------------------------------------------------------------------
(* Steps that change what is owned, and who listens *)

LEMMA RangeOf ==
    ASSUME NEW S, NEW s \in Seq(S)
    PROVE  Range(s) = ToSet(s) /\ Range(s) \subseteq S
<1>1. Range(s) = ToSet(s)
  BY DEF Range, ToSet
<1>. QED
  BY <1>1, Elements

LEMMA RangeAppend ==
    ASSUME NEW S, NEW s \in Seq(S), NEW x
    PROVE  /\ Range(Append(s, x)) = Range(s) \cup {x}
           /\ IsInjective(s) /\ x \notin Range(s) => IsInjective(Append(s, x))
<1>1. s \in Seq(S \cup {x}) /\ x \in S \cup {x}
  <2>1. S \subseteq S \cup {x}
    OBVIOUS
  <2>. QED
    BY <2>1, LargerList
<1>2. Append(s, x) \in Seq(S \cup {x})
  BY <1>1, AppendList
<1>3. Range(s) = ToSet(s) /\ Range(Append(s, x)) = ToSet(Append(s, x))
  BY <1>1, <1>2, RangeOf
<1>. QED
  BY <1>1, <1>3, AppendList

\* A step outside of a combat, by what only happens there.
LEMMA AbroadHead ==
    ASSUME ListenInv, todo # <<>>, it.op \notin Drives \cup {"register"}, it.op \in Barred("fight") \cap Barred("soft")
    PROVE  ~combat.open /\ Rest(Tail(todo), combat.open, run.won) /\ IsList(Tail(todo))
<1>1. Shape(todo, combat.open, run.won, player.relics, bus)
  BY DEF ListenInv
<1>2. ~Free(it, "fight") /\ ~Free(it, "soft")
  BY NotBarred
<1>3. Free(it, Place(combat.open)) /\ Rest(Tail(todo), combat.open, run.won)
  BY <1>1, <1>2, ShapeHead DEF it
<1>4. ~combat.open
  BY <1>2, <1>3 DEF Place
<1>. QED
  BY <1>3, <1>4, RestParts

\* The first of a list are as different as all of it.
LEMMA FirstOnes ==
    ASSUME NEW S, NEW s \in Seq(S), NEW n \in Int, n <= Len(s)
    PROVE  Range(SubSeq(s, 1, n)) \subseteq Range(s) /\ (IsInjective(s) => IsInjective(SubSeq(s, 1, n)))
<1>. DEFINE t == SubSeq(s, 1, n)
<1>1. /\ t \in Seq(S)
      /\ \A x \in ToSet(t) : \E i \in 1 .. n : s[i] = x
      /\ IsInjective(s) => IsInjective(t)
  <2>1. 1 \in Int /\ 1 >= 1
    OBVIOUS
  <2>. QED
    BY <2>1, Stretch
<1>. HIDE DEF t
<1>2. Len(s) \in Nat /\ \A i \in 1 .. n : i \in 1 .. Len(s)
  <2>1. Len(s) \in Nat
    BY LenProperties
  <2>. QED
    BY <2>1
<1>3. Range(t) = ToSet(t) /\ Range(s) = ToSet(s)
  BY <1>1, RangeOf
<1>4. \A i \in 1 .. n : s[i] \in ToSet(s)
  BY <1>2, Elements
<1>. QED
  BY <1>1, <1>3, <1>4 DEF t

LEMMA PopRelicsListens ==
    ASSUME IInv, ListenInv, pop_relics
    PROVE  ListenInv'
<1>1. todo # <<>> /\ it.op = "pop_relics" /\ it.op \notin MapOps \cup HeadOps /\ it.op \notin Drives \cup {"register"}
  BY DEF pop_relics, Doing, it, MapOps, HeadOps, Drives
<1>2. it.n \in Nat
  BY <1>1, AtHead DEF Proper, OwnOps
<1>3. ~combat.open /\ Rest(Tail(todo), combat.open, run.won) /\ IsList(Tail(todo))
  BY <1>1, AbroadHead DEF Barred
<1>. DEFINE relics == player.relics
            left == SubSeq(player.relics, 1, Len(player.relics) - it.n)
<1>4. relics \in Seq(DOMAIN things) /\ Len(relics) \in Nat
  <2>1. relics \in Seq(DOMAIN things)
    BY Typed DEF PlayerOk
  <2>. QED
    BY <2>1, LenProperties
<1>5. Range(left) \subseteq Range(relics) /\ (IsInjective(relics) => IsInjective(left))
  <2>1. Len(relics) - it.n \in Int /\ Len(relics) - it.n <= Len(relics)
    BY <1>2, <1>4
  <2>. QED
    BY <1>4, <2>1, FirstOnes
<1>6. player' = [player EXCEPT !.relics = left]
  BY DEF pop_relics
<1>. HIDE DEF left, relics
<1>7. player'.relics = left /\ player'.potions = player.potions
  BY <1>6, Typed DEF PlayerOk, PlayerFields
<1>8. Belongings'
  BY <1>5, <1>7 DEF ListenInv, Belongings, relics
<1>9. todo' = Tail(todo)
  BY <1>3, ListConcat DEF pop_relics, Call
<1>10. combat' = combat /\ run' = run
  BY DEF pop_relics
<1>11. Shape(todo', combat'.open, run'.won, player'.relics, bus')
  BY <1>3, <1>9, <1>10, RestShape DEF Caught
<1>12. Listening'
  BY <1>3, <1>10 DEF Listening
<1>. QED
  BY <1>8, <1>11, <1>12 DEF ListenInv

LEMMA PopPotionListens ==
    ASSUME IInv, ListenInv, pop_potion
    PROVE  ListenInv'
<1>1. todo # <<>> /\ it.op \notin Drives \cup {"register"}
  BY DEF pop_potion, Doing, it, Drives
<1>. DEFINE potions == player.potions
            left == Front(player.potions)
<1>2. potions \in Seq(DOMAIN things)
  BY Typed DEF PlayerOk
<1>3. Range(left) \subseteq Range(potions) /\ (IsInjective(potions) => IsInjective(left))
  <2>1. Len(potions) \in Nat
    BY <1>2, LenProperties
  <2>2. Len(potions) - 1 \in Int /\ Len(potions) - 1 <= Len(potions)
    BY <2>1
  <2>. QED
    BY <1>2, <2>2, FirstOnes DEF Front
<1>4. player' = [player EXCEPT !.potions = left]
  BY DEF pop_potion
<1>. HIDE DEF left, potions
<1>5. player'.potions = left /\ player'.relics = player.relics
  BY <1>4, Typed DEF PlayerOk, PlayerFields
<1>6. Belongings'
  BY <1>3, <1>5 DEF ListenInv, Belongings, potions
<1>7. Steady
  BY <1>5 DEF pop_potion, Steady, Kept
<1>8. Proceeds(<<>>) /\ Call(<<>>)
  BY FreeNone DEF pop_potion, Proceeds
<1>. QED
  BY <1>1, <1>6, <1>7, <1>8, ListenMoves

LEMMA ReviveListens ==
    ASSUME IInv, ListenInv, revive
    PROVE  ListenInv'
<1>1. todo # <<>> /\ it.op \notin Drives \cup {"register"}
  BY DEF revive, Doing, it, Drives
<1>. DEFINE x == [things[it.who] EXCEPT !.saves = @ + 1]
<1>2. Proceeds(<<>>) /\ Call(<<>>)
  BY FreeNone DEF revive, Proceeds
<1>3. things' = [things EXCEPT ![it.who] = x] /\ UNCHANGED <<bus, combat, run>>
  BY DEF revive
<1>4. it.who \in DOMAIN things => x.kind = things[it.who].kind
  BY ThingTyped DEF ThingType
<1>. HIDE DEF x
<1>5. Same(player, player')
  <2>1. \E n : player' = [player EXCEPT !.hp = n]
    BY DEF revive
  <2>. QED
    BY <2>1, Typed DEF Same, PlayerOk, PlayerFields
<1>. QED
  BY <1>1, <1>2, <1>3, <1>4, <1>5, ThingListen

LEMMA FairyListens ==
    ASSUME IInv, ListenInv, fairy
    PROVE  ListenInv'
<1>1. todo # <<>> /\ it.op = "fairy" /\ it.op \notin Drives \cup {"register"}
  BY DEF fairy, Doing, it, Drives
<1>. DEFINE x == [things[it.who] EXCEPT !.saves = @ + 1]
            potions == player.potions
            left == RemoveFirst(player.potions, it.who)
<1>2. things' = [things EXCEPT ![it.who] = x] /\ UNCHANGED <<bus, combat>>
  BY DEF fairy
<1>3. it.who \in DOMAIN things => x.kind = things[it.who].kind
  BY ThingTyped DEF ThingType
<1>. HIDE DEF x
<1>4. Kept(things, things')
  BY <1>2, <1>3 DEF Kept
<1>5. \E n : player' = [player EXCEPT !.hp = n, !.potions = left]
  BY DEF fairy
<1>6. Range(left) \subseteq Range(potions) /\ (IsInjective(potions) => IsInjective(left))
  <2>1. potions \in Seq(DOMAIN things)
    BY Typed DEF PlayerOk
  <2>2. left \in Seq(DOMAIN things) /\ ToSet(left) \subseteq ToSet(potions) /\ (IsInjective(potions) => IsInjective(left))
    BY <2>1, RemoveFirstList
  <2>3. Range(left) = ToSet(left) /\ Range(potions) = ToSet(potions)
    BY <2>1, <2>2, RangeOf
  <2>. QED
    BY <2>2, <2>3
<1>. HIDE DEF left, potions
<1>7. player'.potions = left /\ player'.relics = player.relics
  BY <1>5, Typed DEF PlayerOk, PlayerFields
<1>8. Belongings'
  BY <1>6, <1>7 DEF ListenInv, Belongings, potions
<1>9. run'.won = run.won
  <2>1. run' = run \/ run' = [run EXCEPT !.status = "raised"]
    BY DEF fairy
  <2>. QED
    BY <2>1, RunDomain DEF RunFields
<1>10. Steady
  BY <1>2, <1>4, <1>7, <1>9 DEF Steady
<1>11. CASE Call(<<>>)
  <2>1. Proceeds(<<>>)
    BY FreeNone DEF Proceeds
  <2>. QED
    BY <1>1, <1>8, <1>10, <1>11, <2>1, ListenMoves
<1>12. CASE todo' = <<>>
  <2>1. Shape(todo, combat.open, run.won, player.relics, bus)
    BY DEF ListenInv
  <2>2. ~Free(it, "soft")
    BY <1>1, NotBarred DEF Barred, Harms
  <2>3. Caught(combat.open, player.relics, bus)
    BY <1>1, <2>1, <2>2, ShapeHead DEF it
  <2>4. IsList(<<>>) /\ Ending(<<>>, combat.open, run'.won)
    BY FreeNone, FreeIsList DEF Ending
  <2>5. Shape(<<>>, combat.open, run'.won, player.relics, bus)
    BY <2>3, <2>4, EndingShape
  <2>6. Shape(todo', combat'.open, run'.won, player'.relics, bus')
    BY <1>2, <1>7, <1>12, <2>5
  <2>7. Listening'
    BY <1>10, ListeningStays DEF ListenInv
  <2>. QED
    BY <1>8, <2>6, <2>7 DEF ListenInv
<1>. QED
  BY <1>11, <1>12 DEF fairy

LEMMA RegisterListens ==
    ASSUME IInv, ListenInv, register
    PROVE  ListenInv'
<1>1. todo # <<>> /\ it.op = "register" /\ it.op \notin Drives
  BY DEF register, Doing, it, Drives
<1>. DEFINE relics == player.relics
            open == combat.open
            won == run.won
            now == Append(bus, it.n)
<1>2. /\ bus' = now /\ combat' = combat /\ run' = run
      /\ things' = [things EXCEPT ![it.n] = Afresh(@)]
  BY DEF register
<1>3. Kept(things, things')
  <2>1. it.n \in DOMAIN things => Afresh(things[it.n]).kind = things[it.n].kind
    <3>1. it.n \in DOMAIN things => things[it.n] \in ThingType
      BY ThingTyped
    <3>2. (it.n \in DOMAIN things /\ things[it.n].saves # 0) => (things[it.n].mark /\ things[it.n].kind \in Savers)
      BY DEF IInv, SaveOnce
    <3>. QED
      BY <3>1, <3>2, AfreshOk
  <2>. QED
    BY <1>2, <2>1 DEF Kept
<1>4. player'.relics = relics /\ player'.potions = player.potions
  <2>1. \E f : player' = [player EXCEPT !.flags = f]
    BY DEF register
  <2>. QED
    BY <2>1, Typed DEF PlayerOk, PlayerFields
<1>5. Belongings'
  BY <1>4 DEF ListenInv, Belongings
<1>6. Shape(todo, open, won, relics, bus)
  BY DEF ListenInv
<1>7. ~Free(it, "fight")
  BY <1>1, NotBarred DEF Barred
<1>8. IsList(todo) /\ todo' = Tail(todo)
  <2>1. IsList(todo)
    BY <1>1, <1>6, ShapeHead
  <2>2. IsList(Tail(todo))
    BY <1>1, <2>1, ListConcat
  <2>. QED
    BY <2>1, <2>2, ListConcat DEF register, Call
<1>9. Range(now) = Range(bus) \cup {it.n} /\ (IsInjective(bus) /\ it.n \notin Range(bus) => IsInjective(now))
  BY ThingTyped, RangeAppend
<1>10. Range(bus) \subseteq DOMAIN things /\ Range(relics) \subseteq DOMAIN things
  BY ThingTyped, RangeOf DEF PlayerOk
<1>. HIDE DEF relics, open, won, now
<1>11. ASSUME NEW soft, NEW q, open, Tail(todo) = soft \o q, Obtaining(soft), Rest(q, open, won),
              Awaited(<<it>> \o soft, relics, bus)
       PROVE  ListenInv'
  <2>1. PICK S : soft \in Seq(S)
    BY <1>11 DEF Obtaining
  <2>2. /\ Registers(<<it>> \o soft) = Registers(soft) \cup {it.n}
        /\ Unrepeated(<<it>> \o soft) => Unrepeated(soft) /\ it.n \notin Registers(soft)
    BY <1>1, <2>1, FirstRegister
  <2>3. /\ Unrepeated(soft) /\ it.n \notin Registers(soft) /\ it.n \notin Range(bus) /\ it.n \in Range(relics)
        /\ Registers(soft) \cap Range(bus) = {} /\ Registers(soft) \subseteq Range(relics)
        /\ Range(relics) \subseteq Range(bus) \cup (Registers(soft) \cup {it.n})
    BY <1>11, <2>2 DEF Awaited
  <2>4. Awaited(soft, relics, now)
    BY <1>9, <2>3 DEF Awaited
  <2>5. Shape(Tail(todo), open, won, relics, now)
    BY <1>11, <2>4 DEF Shape
  <2>6. Shape(todo', combat'.open, run'.won, player'.relics, bus')
    BY <1>2, <1>4, <1>8, <2>5 DEF open, won
  <2>7. Listening'
    <3>1. IsInjective(bus) /\ \A id \in Range(bus) \ Range(relics) : things[id].kind = "FairyInABottle"
      BY <1>11 DEF ListenInv, Listening, relics, open
    <3>2. Range(now) \ Range(relics) \subseteq Range(bus) \ Range(relics)
      BY <1>9, <2>3
    <3>3. \A id \in Range(now) \ Range(relics) : things'[id].kind = "FairyInABottle"
      BY <1>3, <1>10, <3>1, <3>2 DEF Kept
    <3>4. IsInjective(now)
      BY <1>9, <2>3, <3>1
    <3>. QED
      BY <1>2, <1>4, <3>3, <3>4 DEF Listening
  <2>. QED
    BY <1>5, <2>6, <2>7 DEF ListenInv
<1>12. ASSUME Free(it, Place(open)), Rest(Tail(todo), open, won)
       PROVE  ListenInv'
  <2>1. ~open
    BY <1>7, <1>12 DEF Place
  <2>2. Caught(open, relics, now)
    BY <2>1 DEF Caught
  <2>3. Shape(Tail(todo), open, won, relics, now)
    BY <1>12, <2>2, RestShape
  <2>4. Shape(todo', combat'.open, run'.won, player'.relics, bus')
    BY <1>2, <1>4, <1>8, <2>3 DEF open, won
  <2>5. Listening'
    BY <1>2, <2>1 DEF Listening, open
  <2>. QED
    BY <1>5, <2>4, <2>5 DEF ListenInv
<1>. QED
  BY <1>1, <1>6, <1>11, <1>12, ShapeHead DEF it

LEMMA ObtainListens ==
    ASSUME IInv, ListenInv, obtain_relic
    PROVE  ListenInv'
<1>1. todo # <<>> /\ it.op = "obtain" /\ it.op \notin Drives \cup {"register"} /\ it.op \notin MapOps \cup HeadOps
  BY DEF obtain_relic, Doing, it, Drives, MapOps, HeadOps
<1>2. it.of \in DOMAIN Known
  <2>1. it.of \in DOMAIN Catalogue
    BY <1>1, AtHead DEF OwnOps, Proper
  <2>. QED
    BY <2>1, RelicsAssumption
<1>. DEFINE t == Thing(it.of)
            id == Len(things) + 1
            pickup == Known[it.of].pickup
            reg == GoWith("register", id, "")
            told == Emit("RELIC_OBTAINED", it.arg)
            relics == player.relics
            now == Append(relics, id)
            open == combat.open
            won == run.won
<1>3. things' = Append(things, t) /\ UNCHANGED <<bus, combat, run>> /\ todo' = (pickup \o <<reg, told>>) \o Tail(todo)
      /\ player' = [player EXCEPT !.relics = now]
  BY DEF obtain_relic, Call
<1>4. t \in ThingType
  BY <1>2, NewThing
<1>5. Kept(things, things') /\ id \notin DOMAIN things
  <2>. HIDE DEF t
  <2>. QED
    BY <1>3, <1>4, ThingTyped, Appended
<1>6. reg.op = "register" /\ reg.n = id /\ told.op # "register"
  BY DEF GoWith, Do, Emit
<1>7. Free(told, "abroad") /\ Free(told, "soft") /\ Free(reg, "abroad")
  <2>1. \A m \in {"abroad", "soft"} : Audible("RELIC_OBTAINED", m) /\ "emit" \notin Barred(m)
    BY DEF Audible, Abroad, Barred, Drives, InCombat, Courses, Harms, Announces
  <2>2. "register" \notin Barred("abroad") \cup {"either", "emit"}
    BY DEF Barred, Drives, InCombat, Courses
  <2>. QED
    BY <2>1, <2>2, FreeEmit, FreeGo
<1>8. FreeList(pickup, "abroad") /\ FreeList(pickup, "soft")
  BY <1>2, FreeTables
<1>9. relics \in Seq(DOMAIN things) /\ Range(relics) \subseteq DOMAIN things
      /\ Range(bus) \subseteq DOMAIN things /\ Range(player.potions) \subseteq DOMAIN things
  BY ThingTyped, RangeOf DEF PlayerOk
<1>10. Range(now) = Range(relics) \cup {id} /\ (IsInjective(relics) /\ id \notin Range(relics) => IsInjective(now))
  BY <1>9, RangeAppend
<1>. HIDE DEF t, id, pickup, reg, told, now
<1>11. player'.relics = now /\ player'.potions = player.potions
  BY <1>3, Typed DEF PlayerOk, PlayerFields
<1>12. Belongings'
  BY <1>5, <1>9, <1>10, <1>11 DEF ListenInv, Belongings
<1>13. Listening'
  <2>1. open => IsInjective(bus) /\ \A i \in Range(bus) \ Range(relics) : things[i].kind = "FairyInABottle"
    BY DEF ListenInv, Listening
  <2>2. Range(bus) \ Range(now) \subseteq Range(bus) \ Range(relics)
    BY <1>10
  <2>3. open => \A i \in Range(bus) \ Range(now) : things'[i].kind = "FairyInABottle"
    BY <1>5, <1>9, <2>1, <2>2 DEF Kept
  <2>. QED
    BY <1>3, <1>11, <2>1, <2>3 DEF Listening
<1>14. Shape(todo, open, won, relics, bus)
  BY DEF ListenInv
<1>15. ~Free(it, "fight")
  BY <1>1, NotBarred DEF Barred
<1>16. IsList(pickup) /\ IsList(<<reg, told>>) /\ IsList(<<told>>)
  BY <1>8, FreeIsList, LongerTuple
<1>. HIDE DEF relics, open, won
<1>17. ASSUME NEW soft, NEW q, open, Tail(todo) = soft \o q, Obtaining(soft), Rest(q, open, won),
              Awaited(<<it>> \o soft, relics, bus)
       PROVE  Shape(todo', open, won, now, bus)
  <2>. DEFINE later == <<told>> \o soft
              d == <<reg>> \o later
              c == pickup \o d
  <2>1. IsList(soft) /\ IsList(q)
    BY <1>17, ObtainingParts, RestParts
  <2>2. d = <<reg, told>> \o soft /\ IsList(later) /\ IsList(d)
    <3>1. <<reg, told>> \o soft = <<reg>> \o (<<told>> \o soft) /\ IsList(<<told>> \o soft) /\ IsList(<<reg, told>> \o soft)
      BY <2>1, TwoCalls
    <3>. QED
      BY <3>1
  <2>. HIDE DEF d, later
  <2>3. IsList(c) /\ c = (pickup \o <<reg, told>>) \o soft
    <3>1. IsList(pickup \o d)
      BY <1>16, <2>2, ListConcat
    <3>2. (pickup \o <<reg, told>>) \o soft = pickup \o (<<reg, told>> \o soft)
      BY <1>16, <2>1, Together
    <3>. QED
      BY <2>2, <3>1, <3>2
  <2>4. todo' = c \o q
    <3>1. todo' = (pickup \o <<reg, told>>) \o (soft \o q)
      BY <1>3, <1>17
    <3>2. IsList(pickup \o <<reg, told>>)
      BY <1>16, ListConcat
    <3>3. ((pickup \o <<reg, told>>) \o soft) \o q = (pickup \o <<reg, told>>) \o (soft \o q)
      <4>. DEFINE head == pickup \o <<reg, told>>
      <4>1. IsList(head) /\ IsList(soft) /\ IsList(q)
        BY <2>1, <3>2
      <4>. HIDE DEF head
      <4>2. (head \o soft) \o q = head \o (soft \o q)
        BY <4>1, Together
      <4>. QED
        BY <4>2 DEF head
    <3>. HIDE DEF c
    <3>. QED
      BY <2>3, <3>1, <3>3
  <2>5. PICK S : soft \in Seq(S) /\ \A x \in S : Free(x, "soft") \/ x.op = "register"
    BY <1>17 DEF Obtaining
  <2>. DEFINE T == S \cup {reg, told}
  <2>6. later \in Seq(T) /\ d \in Seq(T) /\ \A x \in T : Free(x, "soft") \/ x.op = "register"
    <3>1. \A x \in T : Free(x, "soft") \/ x.op = "register"
      BY <1>6, <1>7, <2>5
    <3>2. S \subseteq T /\ reg \in T /\ told \in T
      OBVIOUS
    <3>. HIDE DEF T
    <3>3. soft \in Seq(T)
      BY <2>5, <3>2, LargerList
    <3>4. <<told>> \in Seq(T) /\ <<reg>> \in Seq(T)
      BY <3>2
    <3>5. later \in Seq(T)
      BY <3>3, <3>4 DEF later
    <3>6. d \in Seq(T)
      BY <3>4, <3>5 DEF d
    <3>. QED
      BY <3>1, <3>5, <3>6
  <2>. HIDE DEF T
  <2>7. Obtaining(d)
    BY <2>6 DEF Obtaining
  <2>8. Obtaining(c)
    BY <1>8, <2>7, ObtainingParts
  <2>9. /\ Unrepeated(soft) /\ Registers(soft) \cap Range(bus) = {} /\ Registers(soft) \subseteq Range(relics)
        /\ Range(relics) \subseteq Range(bus) \cup Registers(soft)
    <3>1. Registers(<<it>> \o soft) = Registers(soft) /\ (Unrepeated(<<it>> \o soft) => Unrepeated(soft))
      BY <1>1, <2>5, FirstRegister
    <3>. QED
      BY <1>17, <3>1 DEF Awaited
  <2>10. Registers(later) = Registers(soft) /\ Unrepeated(later)
    <3>1. Registers(<<told>> \o soft) = Registers(soft) /\ (Unrepeated(soft) => Unrepeated(<<told>> \o soft))
      BY <1>6, <2>5, OtherFirst
    <3>. QED
      BY <1>6, <2>9, <3>1 DEF later
  <2>11. id \notin Registers(later)
    BY <1>5, <1>9, <2>9, <2>10
  <2>12. Registers(d) = Registers(soft) \cup {id} /\ Unrepeated(d)
    BY <1>6, <2>6, <2>10, <2>11, FirstRegister DEF d
  <2>13. Registers(c) = Registers(d) /\ Unrepeated(c)
    <3>1. PICK U : pickup \in Seq(U) /\ d \in Seq(U)
      BY <1>16, <2>2, InOneSet
    <3>2. Registers(pickup) = {}
      BY <1>8, FreeRegisters
    <3>. QED
      BY <2>12, <3>1, <3>2, LaterRegisters
  <2>14. Awaited(c, now, bus)
    BY <1>5, <1>9, <1>10, <2>9, <2>12, <2>13 DEF Awaited
  <2>. HIDE DEF c
  <2>. QED
    BY <1>17, <2>4, <2>8, <2>14 DEF Shape
<1>18. ASSUME Free(it, Place(open)), Rest(Tail(todo), open, won)
       PROVE  Shape(todo', open, won, now, bus)
  <2>1. ~open
    BY <1>15, <1>18 DEF Place
  <2>2. FreeList(pickup \o <<reg, told>>, Place(open))
    <3>1. FreeList(<<reg, told>>, "abroad")
      BY <1>7, FreeTuples
    <3>2. FreeList(pickup \o <<reg, told>>, "abroad")
      BY <1>8, <3>1, FreeConcat
    <3>. QED
      BY <2>1, <3>2 DEF Place
  <2>3. Rest(todo', open, won)
    BY <1>3, <1>18, <2>2, RestParts
  <2>. QED
    BY <2>1, <2>3, RestShape DEF Caught
<1>19. Shape(todo', open, won, now, bus)
  BY <1>1, <1>14, <1>17, <1>18, ShapeHead DEF it
<1>20. Shape(todo', combat'.open, run'.won, player'.relics, bus')
  BY <1>3, <1>11, <1>19 DEF open, won
<1>. QED
  BY <1>12, <1>13, <1>20 DEF ListenInv

\* A chest opened in a combat: what it brings has been awaited by nobody.
LEMMA TreasureListens ==
    ASSUME IInv, ListenInv, treasure
    PROVE  ListenInv'
<1>1. todo # <<>> /\ it.op = "treasure" /\ it.op \notin Drives \cup {"register"}
  BY DEF treasure, Doing, it, Drives
<1>. DEFINE relics == player.relics
            open == combat.open
            won == run.won
<1>2. PICK c : (\A m \in {"abroad", "soft"} : FreeList(c, m)) /\ Call(c)
  <2>1. \A m \in {"abroad", "soft"} : \A rarity, n :
           Free([RandomRelic(rarity) EXCEPT !.arg = "chest"], m) /\ Free(Gold(n), m)
    <3>. SUFFICES ASSUME NEW m \in {"abroad", "soft"}, NEW rarity, NEW n
                  PROVE  Free([RandomRelic(rarity) EXCEPT !.arg = "chest"], m) /\ Free(Gold(n), m)
      OBVIOUS
    <3>. DEFINE y == [RandomRelic(rarity) EXCEPT !.arg = "chest"]
    <3>1. DOMAIN y = Fields /\ y.op = "random_relic" /\ y.then = <<>>
      BY DEF RandomRelic, Do, Fields
    <3>. HIDE DEF y
    <3>2. Fit(y, m) /\ Leads(y, m) = {<<>>}
      BY <3>1 DEF Fit, Leads, Branches, Asks, Barred, Drives, InCombat, Courses, Harms, Announces
    <3>3. Free(y, m)
      BY <3>2, FreeEffect, FreeNone
    <3>4. Free(Gold(n), m)
      BY FreeGo DEF Gold, Barred, Drives, InCombat, Courses, Harms, Announces
    <3>. QED
      BY <3>3, <3>4 DEF y
  <2>2. \A m \in {"abroad", "soft"} : \A rarity, n :
           FreeList(<<[RandomRelic(rarity) EXCEPT !.arg = "chest"], Gold(n)>>, m)
    BY <2>1, FreeTuples
  <2>. QED
    BY <2>2 DEF treasure
<1>3. Shape(todo, open, won, relics, bus) /\ ~Free(it, "soft")
  BY <1>1, NotBarred DEF ListenInv, Barred
<1>4. todo' = c \o Tail(todo) /\ UNCHANGED <<player, things, bus, combat, run>>
  BY <1>2 DEF treasure, Call
<1>5. Belongings' /\ Listening'
  BY <1>4 DEF ListenInv, Belongings, Listening
<1>. HIDE DEF relics, open, won
<1>6. Free(it, Place(open)) /\ Rest(Tail(todo), open, won) /\ Caught(open, relics, bus)
  BY <1>1, <1>3, ShapeHead DEF it
<1>7. CASE ~open
  <2>1. FreeList(c, Place(open))
    BY <1>2, <1>7 DEF Place
  <2>2. Shape(todo', open, won, relics, bus)
    BY <1>4, <1>6, <2>1, RestParts, RestShape
  <2>. QED
    BY <1>4, <1>5, <2>2 DEF ListenInv, open, won, relics
<1>8. CASE open
  <2>1. Registers(c) = {} /\ Unrepeated(c)
    BY <1>2, FreeRegisters
  <2>2. Awaited(c, relics, bus)
    BY <1>6, <1>8, <2>1 DEF Awaited, Caught
  <2>3. Obtaining(c)
    <3>1. c \in Seq(ToSet(c)) /\ \A x \in ToSet(c) : Free(x, "soft")
      BY <1>2, FreeElement
    <3>. QED
      BY <3>1 DEF Obtaining
  <2>4. Shape(todo', open, won, relics, bus)
    BY <1>4, <1>6, <1>8, <2>2, <2>3 DEF Shape
  <2>. QED
    BY <1>4, <1>5, <2>4 DEF ListenInv, open, won, relics
<1>. QED
  BY <1>7, <1>8

LEMMA RandomPotionListens ==
    ASSUME IInv, ListenInv, random_potion
    PROVE  ListenInv'
<1>1. todo # <<>> /\ it.op \notin Drives \cup {"register"}
  BY DEF random_potion, Doing, it, Drives
<1>. DEFINE c == IF it.n > 1 THEN <<Potions(it.n - 1)>> ELSE <<>>
<1>2. Proceeds(c) /\ Call(c)
  <2>1. Proceeds(<<Potions(it.n - 1)>>) /\ Proceeds(<<>>)
    BY PotionWords, PlaceOf, FreeSingle, FreeNone DEF Proceeds
  <2>. QED
    BY <2>1 DEF random_potion
<1>. HIDE DEF c
<1>3. UNCHANGED <<bus, combat, run>>
  BY DEF random_potion
<1>4. CASE UNCHANGED <<things, player>>
  BY <1>1, <1>2, <1>3, <1>4, PlayerListen DEF Same
<1>5. CASE ~(UNCHANGED <<things, player>>)
  <2>1. PICK kind \in scen.drops : /\ things' = Append(things, Thing(kind))
                                   /\ player' = [player EXCEPT !.potions = Append(@, Len(things) + 1)]
    BY <1>5 DEF random_potion
  <2>2. kind \in DOMAIN Known
    BY Offered, RelicsAssumption
  <2>. DEFINE t == Thing(kind)
              id == Len(things) + 1
              now == Append(player.potions, id)
  <2>3. t \in ThingType
    BY <2>2, NewThing
  <2>4. Kept(things, things') /\ id \notin DOMAIN things
    <3>1. things' = Append(things, t)
      BY <2>1
    <3>. HIDE DEF t
    <3>. QED
      BY <2>3, <3>1, ThingTyped, Appended
  <2>5. player'.potions = now /\ player'.relics = player.relics
    <3>1. player' = [player EXCEPT !.potions = now]
      BY <2>1
    <3>. HIDE DEF now
    <3>. QED
      BY <3>1, Typed DEF PlayerOk, PlayerFields
  <2>. HIDE DEF t, id
  <2>6. /\ player.potions \in Seq(DOMAIN things) /\ Range(player.relics) \subseteq DOMAIN things
        /\ Range(player.potions) \subseteq DOMAIN things
    BY ThingTyped, RangeOf DEF PlayerOk
  <2>7. Range(now) = Range(player.potions) \cup {id} /\ IsInjective(now)
    BY <2>4, <2>6, RangeAppend DEF ListenInv, Belongings
  <2>. HIDE DEF now
  <2>8. Belongings'
    BY <2>4, <2>5, <2>6, <2>7 DEF ListenInv, Belongings
  <2>9. Steady
    BY <1>3, <2>4, <2>5 DEF Steady
  <2>. QED
    BY <1>1, <1>2, <2>8, <2>9, ListenMoves
<1>. QED
  BY <1>4, <1>5

-----------------------------------------------------------------------------
(* The start of a combat *)

\* Elements of a list that are in K, each in a list of its own, side by side.
LEMMA FlattenSome ==
    ASSUME NEW D, NEW p \in Seq(D), IsInjective(p), NEW K, NEW s \in Seq(Seq(D)), Len(s) = Len(p),
           \A i \in 1 .. Len(p) : IsInjective(s[i]) /\ ToSet(s[i]) \subseteq {p[i]} \cap K
    PROVE  /\ FlattenSeq(s) \in Seq(D) /\ IsInjective(FlattenSeq(s))
           /\ ToSet(FlattenSeq(s)) \subseteq ToSet(p) \cap K
<1>. DEFINE n == Len(p)
            Ok(f, m) == f \in Seq(D) /\ IsInjective(f) /\ ToSet(f) \subseteq {p[i] : i \in 1 .. m} \cap K
<1>1. n \in Nat /\ DOMAIN p = 1 .. n /\ \A i \in 1 .. n : p[i] \in D
  BY LenProperties, ElementOfSeq
<1>2. \A i \in 1 .. n : /\ s[i] \in Seq(D) /\ IsInjective(s[i])
                        /\ ToSet(s[i]) \subseteq {p[i]} \cap K
  BY ElementOfSeq
<1>3. Len(s) = n
  BY <1>1
<1>4. \A i, j \in 1 .. n : p[i] = p[j] => i = j
  BY <1>1 DEF IsInjective
<1>5. {p[i] : i \in 1 .. n} \subseteq ToSet(p)
  BY Elements
<1>6. CASE n = 0
  <2>1. FlattenSeq(s) = s
    BY <1>3, <1>6 DEF FlattenSeq
  <2>2. s = <<>>
    BY <1>6
  <2>. QED
    BY <2>1, <2>2, None
<1>7. CASE n # 0
  <2>. DEFINE flat == CHOOSE f : Flattens(f, s, n)
  <2>1. FlattenSeq(s) = flat[n]
    BY <1>3, <1>7 DEF FlattenSeq, Flattens
  <2>2. Flattens(flat, s, n)
    <3>1. \E f : Flattens(f, s, n)
      BY <1>1, FlattenSolution
    <3>. HIDE DEF n
    <3>. QED
      BY <3>1
  <2>. HIDE DEF flat, n
  <2>3. \A i \in 1 .. n : flat[i] = IF i = 1 THEN s[i] ELSE flat[i - 1] \o s[i]
    BY <2>2, Zenon DEF Flattens
  <2>. DEFINE G == {m \in Nat : m + 1 <= n => Ok(flat[m + 1], m + 1)}
  <2>4. 0 \in G
    <3>1. 1 \in 1 .. n
      BY <1>1, <1>7
    <3>2. flat[1] = s[1]
      BY <2>3, <3>1
    <3>3. Ok(flat[1], 1)
      BY <1>2, <3>1, <3>2
    <3>. HIDE DEF Ok
    <3>. QED
      BY <3>3
  <2>5. ASSUME NEW m \in Nat, m \in G PROVE m + 1 \in G
    <3>. SUFFICES ASSUME m + 1 + 1 <= n PROVE Ok(flat[m + 1 + 1], m + 1 + 1)
      OBVIOUS
    <3>1. Ok(flat[m + 1], m + 1) /\ m + 1 + 1 \in 1 .. n /\ (m + 1 + 1) - 1 = m + 1 /\ m + 1 + 1 # 1
      <4>1. m + 1 <= n /\ m + 1 + 1 \in 1 .. n /\ (m + 1 + 1) - 1 = m + 1 /\ m + 1 + 1 # 1
        BY <1>1
      <4>. HIDE DEF Ok
      <4>. QED
        BY <2>5, <4>1
    <3>2. flat[m + 1 + 1] = flat[m + 1] \o s[m + 1 + 1]
      <4>1. flat[m + 1 + 1] = IF m + 1 + 1 = 1 THEN s[m + 1 + 1] ELSE flat[(m + 1 + 1) - 1] \o s[m + 1 + 1]
        BY <2>3, <3>1, Zenon
      <4>. QED
        BY <3>1, <4>1, Zenon
    <3>3. /\ s[m + 1 + 1] \in Seq(D) /\ IsInjective(s[m + 1 + 1])
          /\ ToSet(s[m + 1 + 1]) \subseteq {p[m + 1 + 1]} \cap K
      BY <1>2, <3>1
    <3>4. p[m + 1 + 1] \notin {p[i] : i \in 1 .. m + 1}
      BY <1>1, <1>4, <3>1
    <3>5. {p[i] : i \in 1 .. m + 1} \cup {p[m + 1 + 1]} \subseteq {p[i] : i \in 1 .. m + 1 + 1}
      BY <1>1
    <3>. DEFINE a == flat[m + 1]
                b == s[m + 1 + 1]
    <3>. HIDE DEF a, b
    <3>6. a \in Seq(D) /\ IsInjective(a) /\ ToSet(a) \subseteq {p[i] : i \in 1 .. m + 1} \cap K
      BY <3>1 DEF a
    <3>7. b \in Seq(D) /\ IsInjective(b) /\ ToSet(b) \subseteq {p[m + 1 + 1]} \cap K
      BY <3>3 DEF b
    <3>8. ToSet(a) \cap ToSet(b) = {}
      BY <3>4, <3>6, <3>7
    <3>9. a \o b \in Seq(D) /\ IsInjective(a \o b) /\ ToSet(a \o b) = ToSet(a) \cup ToSet(b)
      BY <3>6, <3>7, <3>8, ConcatList
    <3>10. Ok(a \o b, m + 1 + 1)
      BY <3>5, <3>6, <3>7, <3>9
    <3>. HIDE DEF Ok
    <3>. QED
      BY <3>2, <3>10 DEF a, b
  <2>6. n - 1 \in G
    <3>1. n - 1 \in Nat
      BY <1>1, <1>7
    <3>. HIDE DEF G
    <3>. QED
      BY <2>4, <2>5, <3>1, Induction
  <2>7. Ok(flat[n], n)
    <3>. HIDE DEF Ok
    <3>. QED
      BY <1>1, <1>7, <2>6
  <2>. QED
    BY <1>5, <2>1, <2>7
<1>. QED
  BY <1>6, <1>7

\* Who listens in a new combat: every relic and every Fairy, each once.
LEMMA NewListeners ==
    ASSUME IInv, ListenInv
    PROVE  /\ IsInjective(Listeners) /\ Range(player.relics) \subseteq Range(Listeners)
           /\ Range(Listeners) \subseteq DOMAIN things
           /\ \A id \in Range(Listeners) \ Range(player.relics) : things[id].kind = "FairyInABottle"
<1>. DEFINE D == DOMAIN things
            relics == player.relics
            p == player.potions
            K == {id \in D : things[id].kind = "FairyInABottle"}
            s == [i \in 1 .. Len(p) |-> IF p[i] \in K THEN <<p[i]>> ELSE <<>>]
<1>1. relics \in Seq(D) /\ p \in Seq(D) /\ IsInjective(relics) /\ IsInjective(p) /\ Range(relics) \cap Range(p) = {}
  BY ThingTyped DEF PlayerOk, ListenInv, Belongings
<1>2. DOMAIN p = 1 .. Len(p) /\ \A i \in 1 .. Len(p) : p[i] \in D
  BY <1>1, LenProperties, ElementOfSeq
<1>3. Fairies = FlattenSeq(s)
  <2>1. \A i \in 1 .. Len(p) : things[p[i]].kind = "FairyInABottle" <=> p[i] \in K
    BY <1>2
  <2>2. s = [i \in DOMAIN p |-> IF things[p[i]].kind = "FairyInABottle" THEN <<p[i]>> ELSE <<>>]
    BY <1>2, <2>1
  <2>. HIDE DEF s
  <2>. QED
    BY <2>2 DEF Fairies
<1>. DEFINE fs == FlattenSeq(s)
<1>4. fs \in Seq(D) /\ IsInjective(fs) /\ ToSet(fs) \subseteq ToSet(p) \cap K
  <2>1. p \in Seq(D) /\ IsInjective(p) /\ Len(p) \in Nat
    BY <1>1, LenProperties
  <2>. HIDE DEF K, D, p
  <2>2. \A i \in 1 .. Len(p) : s[i] \in Seq(D) /\ IsInjective(s[i]) /\ ToSet(s[i]) \subseteq {p[i]} \cap K
    <3>. SUFFICES ASSUME NEW i \in 1 .. Len(p)
                  PROVE  s[i] \in Seq(D) /\ IsInjective(s[i]) /\ ToSet(s[i]) \subseteq {p[i]} \cap K
      OBVIOUS
    <3>1. CASE p[i] \in K
      <4>1. s[i] = <<p[i]>>
        BY <3>1
      <4>. HIDE DEF s
      <4>2. p[i] \in D
        BY <2>1, ElementOfSeq
      <4>. QED
        BY <3>1, <4>1, <4>2, Single
    <3>2. CASE p[i] \notin K
      <4>1. s[i] = <<>>
        BY <3>2
      <4>. HIDE DEF s
      <4>. QED
        BY <4>1, None
    <3>. QED
      BY <3>1, <3>2
  <2>3. s = [i \in 1 .. Len(p) |-> s[i]]
    OBVIOUS
  <2>. HIDE DEF s
  <2>4. s \in Seq(Seq(D)) /\ Len(s) = Len(p)
    BY <2>1, <2>2, <2>3
  <2>5. /\ FlattenSeq(s) \in Seq(D) /\ IsInjective(FlattenSeq(s))
        /\ ToSet(FlattenSeq(s)) \subseteq ToSet(p) \cap K
    BY <2>1, <2>2, <2>4, FlattenSome
  <2>. QED
    BY <2>5
<1>5. Listeners = relics \o fs
  BY <1>3 DEF Listeners
<1>6. \A id \in K : things[id].kind = "FairyInABottle"
  OBVIOUS
<1>. HIDE DEF fs, s, K, D, relics, p
<1>7. Range(relics) = ToSet(relics) /\ Range(p) = ToSet(p)
  BY <1>1, RangeOf
<1>8. ToSet(relics) \cap ToSet(fs) = {}
  BY <1>1, <1>4, <1>7
<1>9. relics \o fs \in Seq(D) /\ IsInjective(relics \o fs) /\ ToSet(relics \o fs) = ToSet(relics) \cup ToSet(fs)
  BY <1>1, <1>4, <1>8, ConcatList
<1>10. Range(relics \o fs) = ToSet(relics) \cup ToSet(fs) /\ Range(relics \o fs) \subseteq D
  BY <1>9, RangeOf
<1>11. \A id \in Range(relics \o fs) \ Range(relics) : things[id].kind = "FairyInABottle"
  BY <1>4, <1>6, <1>7, <1>10
<1>. QED
  BY <1>5, <1>7, <1>9, <1>10, <1>11 DEF relics, D

LEMMA StartCombatListens ==
    ASSUME IInv, ListenInv, start_combat
    PROVE  ListenInv'
<1>1. todo # <<>> /\ it.op = "fight"
  BY DEF start_combat, Doing, it
<1>. DEFINE q == Tail(todo)
            body == <<Emit("COMBAT_START", ""), Go("begin_turn")>>
            end == <<Go("loop")>> \o q
<1>2. Rewarding(q)
  BY <1>1, Driven DEF Drives
<1>3. IsList(q)
  BY <1>2, RewardingList
<1>4. FreeList(body, "fight")
  BY FreeWords, FightCalls, FreeTuples
<1>5. todo' = body \o end /\ IsList(end)
  <2>1. \A a, b, c : <<a, b, c>> = <<a, b>> \o <<c>>
    BY LongerTuple
  <2>2. todo' = <<Emit("COMBAT_START", ""), Go("begin_turn"), Go("loop")>> \o q
    BY DEF start_combat, Call
  <2>3. todo' = (body \o <<Go("loop")>>) \o q
    BY <2>1, <2>2
  <2>. HIDE DEF body, q
  <2>4. IsList(body)
    BY <1>4, FreeIsList
  <2>. QED
    BY <1>3, <2>3, <2>4, LastCall
<1>6. Looping(end)
  BY <1>2, <1>3, GoBefore DEF Looping
<1>. HIDE DEF body, end, q
<1>7. combat'.open = TRUE
  BY DEF start_combat, NoCombat
<1>8. player'.relics = player.relics /\ player'.potions = player.potions
  <2>1. \E w, l, f : player' = [player EXCEPT !.powers = w, !.lament = l, !.flags = f]
    BY DEF start_combat
  <2>. QED
    BY <2>1, Typed DEF PlayerOk, PlayerFields
<1>9. Belongings'
  BY <1>8 DEF ListenInv, Belongings
<1>10. \A id \in DOMAIN things : things'[id].kind = things[id].kind
  <2>. SUFFICES ASSUME NEW id \in DOMAIN things PROVE things'[id].kind = things[id].kind
    OBVIOUS
  <2>1. things'[id] \in {things[id], Afresh(things[id])}
    BY DEF start_combat
  <2>2. things[id] \in ThingType
    BY ThingTyped
  <2>3. things[id].saves # 0 => things[id].mark /\ things[id].kind \in Savers
    BY DEF IInv, SaveOnce
  <2>4. Afresh(things[id]).kind = things[id].kind
    BY <2>2, <2>3, AfreshOk
  <2>. QED
    BY <2>1, <2>4
<1>11. bus' = Listeners
  BY DEF start_combat
<1>12. Listening'
  BY <1>8, <1>10, <1>11, NewListeners DEF Listening
<1>13. Caught(combat'.open, player'.relics, bus')
  BY <1>8, <1>11, NewListeners DEF Caught
<1>14. Rest(todo', combat'.open, run'.won)
  BY <1>4, <1>5, <1>6, <1>7 DEF Rest, Ending, Place
<1>15. Shape(todo', combat'.open, run'.won, player'.relics, bus')
  BY <1>13, <1>14, RestShape
<1>. QED
  BY <1>9, <1>12, <1>15 DEF ListenInv

-----------------------------------------------------------------------------
(* The theorems *)

LEMMA InitListens == Init => ListenInv
<1>. SUFFICES ASSUME Init PROVE ListenInv
  OBVIOUS
<1>. DEFINE gifts == [i \in DOMAIN scen.gifts |-> GoWith("obtain", 0, scen.gifts[i])]
            S == {GoWith("obtain", 0, r) : r \in DOMAIN Catalogue}
            end == <<Go("act")>>
            n == Len(scen.potions)
            held == [i \in 1 .. n |-> i]
<1>1. scen.gifts \in Seq(DOMAIN Catalogue) /\ scen.potions \in Seq({"Potion", "FairyInABottle"})
  BY ScenariosAssumption DEF Init, ScenarioShape
<1>2. n \in Nat /\ DOMAIN scen.potions = 1 .. n
  BY <1>1, LenProperties
<1>3. FreeList(gifts, "abroad")
  <2>1. \A x \in S : Free(x, "abroad")
    BY ObtainFree
  <2>2. gifts \in Seq(S)
    BY <1>1
  <2>. HIDE DEF gifts, S
  <2>. QED
    BY <2>1, <2>2, FreeOf
<1>4. todo = gifts \o end
  BY DEF Init
<1>5. IsList(end) /\ Ending(end, FALSE, run.won)
  <2>1. Alone(end, "act")
    BY FreeNone, FreeIsList, GoBefore
  <2>. HIDE DEF end
  <2>2. IsList(end)
    BY <2>1, AloneHead
  <2>. QED
    BY <2>1, <2>2 DEF Ending
<1>6. combat.open = FALSE /\ bus = <<>>
  BY DEF Init, NoCombat
<1>7. player.relics = <<>> /\ player.potions = held
  <2>1. player = [NewPlayer(scen) EXCEPT !.potions = held]
    BY <1>2 DEF Init
  <2>. HIDE DEF held
  <2>. QED
    BY <2>1 DEF NewPlayer
<1>. HIDE DEF gifts, end
<1>8. Shape(todo, combat.open, run.won, player.relics, bus)
  <2>1. Rest(todo, combat.open, run.won)
    BY <1>3, <1>4, <1>5, <1>6 DEF Rest, Place
  <2>. QED
    BY <1>6, <2>1, RestShape DEF Caught
<1>9. Belongings
  <2>1. IsInjective(held)
    BY DEF IsInjective
  <2>2. <<>> \in Seq({}) /\ IsInjective(<<>>) /\ Range(<<>>) = {}
    BY None, RangeOf
  <2>. HIDE DEF held
  <2>. QED
    BY <1>7, <2>1, <2>2 DEF Belongings
<1>. QED
  BY <1>6, <1>8, <1>9 DEF ListenInv, Listening

LEMMA StepListens == IInv /\ ListenInv /\ [Next]_vars => ListenInv'
<1>. SUFFICES ASSUME IInv, ListenInv, [Next]_vars PROVE ListenInv'
  OBVIOUS
<1>1. CASE emit
  BY <1>1, EmitListens
<1>2. CASE register
  BY <1>2, RegisterListens
<1>3. CASE obtain_relic
  BY <1>3, ObtainListens
<1>4. CASE random_relic
  BY <1>4, RandomRelicListens
<1>5. CASE random_potion
  BY <1>5, RandomPotionListens
<1>6. CASE apply
  BY <1>6, ApplyListens
<1>7. CASE change_deck
  BY <1>7, ChangeDeckListens
<1>8. CASE open_pandoras_box
  BY <1>8, PandoraListens
<1>9. CASE pop_relics
  BY <1>9, PopRelicsListens
<1>10. CASE pop_potion
  BY <1>10, PopPotionListens
<1>11. CASE damage_stopped
  BY <1>11, DamageStoppedListens
<1>12. CASE damage_lethal
  BY <1>12, DamageLethalListens
<1>13. CASE damage_taken
  BY <1>13, DamageTakenListens
<1>14. CASE fall
  BY <1>14, FallListens
<1>15. CASE bleed
  BY <1>15, BleedListens
<1>16. CASE revive
  BY <1>16, ReviveListens
<1>17. CASE fairy
  BY <1>17, FairyListens
<1>18. CASE gain_block
  BY <1>18, GainBlockListens
<1>19. CASE debuff
  BY <1>19, DebuffListens
<1>20. CASE every
  BY <1>20, EveryListens
<1>21. CASE once
  BY <1>21, OnceListens
<1>22. CASE mark
  BY <1>22, MarkListens
<1>23. CASE restart
  BY <1>23, RestartListens
<1>24. CASE pellets
  BY <1>24, PelletsListens
<1>25. CASE test
  BY <1>25, TestListens
<1>26. CASE pay
  BY <1>26, PayListens
<1>27. CASE roll
  BY <1>27, RollListens
<1>28. CASE draw
  BY <1>28, DrawListens
<1>29. CASE attack
  BY <1>29, AttackListens
<1>30. CASE hit
  BY <1>30, HitListens
<1>31. CASE tag
  BY <1>31, TagListens
<1>32. CASE discard_from_hand
  BY <1>32, DiscardListens
<1>33. CASE exhaust_card
  BY <1>33, ExhaustListens
<1>34. CASE each_in_hand
  BY <1>34, EachListens
<1>35. CASE spend_x
  BY <1>35, SpendXListens
<1>36. CASE havoc
  BY <1>36, HavocListens
<1>37. CASE pain
  BY <1>37, PainListens
<1>38. CASE end_of_turn
  BY <1>38, EndOfTurnListens
<1>39. CASE check_enemy_deaths
  BY <1>39, EnemyDeathsListens
<1>40. CASE start_combat
  BY <1>40, StartCombatListens
<1>41. CASE begin_player_turn
  BY <1>41, BeginTurnListens
<1>42. CASE opening_hand
  BY <1>42, OpeningHandListens
<1>43. CASE combat_over
  BY <1>43, CombatOverListens
<1>44. CASE next_turn
  BY <1>44, NextTurnListens
<1>45. CASE combat_drawn
  BY <1>45, CombatDrawnListens
<1>46. CASE play_card
  BY <1>46, PlayCardListens
<1>47. CASE resolve
  BY <1>47, ResolveListens
<1>48. CASE judge_on
  BY <1>48, JudgeOnListens
<1>49. CASE judge_now
  BY <1>49, JudgeNowListens
<1>50. CASE end_player_turn
  BY <1>50, EndTurnListens
<1>51. CASE discard_hand
  BY <1>51, DiscardHandListens
<1>52. CASE enemy_phase
  BY <1>52, EnemyPhaseListens
<1>53. CASE enemies_left
  BY <1>53, EnemiesLeftListens
<1>54. CASE round_end
  BY <1>54, RoundEndListens
<1>55. CASE close_combat
  BY <1>55, CloseCombatListens
<1>56. CASE rewards
  BY <1>56, RewardsListens
<1>57. CASE card_reward
  BY <1>57, CardRewardListens
<1>58. CASE potion_drop
  BY <1>58, PotionDropListens
<1>59. CASE rest
  BY <1>59, RestListens
<1>60. CASE rest_action
  BY <1>60, RestActionListens
<1>61. CASE shop
  BY <1>61, ShopListens
<1>62. CASE treasure
  BY <1>62, TreasureListens
<1>63. CASE event
  BY <1>63, EventListens
<1>64. CASE generate_map
  BY <1>64, GenerateMapListens
<1>65. CASE build_floor
  BY <1>65, BuildFloorListens
<1>66. CASE ensure_connectivity
  BY <1>66, ConnectListens
<1>67. CASE ensure_node_type
  BY <1>67, EnsureListens
<1>68. CASE first_room
  BY <1>68, FirstRoomListens
<1>69. CASE move_to
  BY <1>69, MoveToListens
<1>70. CASE run_lost
  BY <1>70, RunLostListens
<1>71. CASE next_room
  BY <1>71, NextRoomListens
<1>72. CASE act_end
  BY <1>72, ActEndListens
<1>73. CASE UNCHANGED vars
  <2>1. UNCHANGED <<player, things, bus, combat, run, todo>>
    BY <1>73 DEF vars
  <2>. QED
    BY <2>1 DEF ListenInv, Belongings, Listening
<1>. QED
  BY <1>1, <1>2, <1>3, <1>4, <1>5, <1>6, <1>7, <1>8, <1>9, <1>10, <1>11, <1>12, <1>13, <1>14, <1>15, <1>16, <1>17,
     <1>18, <1>19, <1>20, <1>21, <1>22, <1>23, <1>24, <1>25, <1>26, <1>27, <1>28, <1>29, <1>30, <1>31, <1>32,
     <1>33, <1>34, <1>35, <1>36, <1>37, <1>38, <1>39, <1>40, <1>41, <1>42, <1>43, <1>44, <1>45, <1>46, <1>47,
     <1>48, <1>49, <1>50, <1>51, <1>52, <1>53, <1>54, <1>55, <1>56, <1>57, <1>58, <1>59, <1>60, <1>61, <1>62,
     <1>63, <1>64, <1>65, <1>66, <1>67, <1>68, <1>69, <1>70, <1>71, <1>72, <1>73 DEF Next, Over

\* The second invariant: what the machine still has to run.
THEOREM ListenHolds == Spec => []ListenInv
<1>. QED
  BY InitListens, StepListens, JourneyHolds, PTL DEF Spec

\* In a combat every relic listens once, and nothing else but Fairies does.
THEOREM ListenersOwned == Spec => []ListenersAreOwned
<1>1. IInv /\ ListenInv => ListenersAreOwned
  <2>. SUFFICES ASSUME IInv, ListenInv, combat.open, Quiet
                PROVE  /\ \A i, j \in DOMAIN bus : bus[i] = bus[j] => i = j
                       /\ Range(player.relics) \subseteq Range(bus)
                       /\ \A id \in Range(bus) \ Range(player.relics) : things[id].kind = "FairyInABottle"
    BY DEF ListenersAreOwned
  <2>1. Caught(combat.open, player.relics, bus)
    <3>1. CASE todo = <<>>
      <4>1. PICK soft, q : /\ <<>> = soft \o q /\ Obtaining(soft) /\ Rest(q, combat.open, run.won)
                           /\ Awaited(soft, player.relics, bus)
        BY <3>1 DEF ListenInv, Shape
      <4>2. IsList(soft) /\ IsList(q)
        BY <4>1, ObtainingParts, RestParts
      <4>3. soft = <<>>
        BY <4>1, <4>2, ListConcat
      <4>. QED
        BY <4>1, <4>3, NothingAwaited DEF Caught
    <3>2. CASE todo # <<>>
      <4>1. it.op \in Drives
        BY <3>2 DEF Quiet, Drives
      <4>. QED
        BY <3>2, <4>1, Driven
    <3>. QED
      BY <3>1, <3>2
  <2>2. IsInjective(bus) /\ \A id \in Range(bus) \ Range(player.relics) : things[id].kind = "FairyInABottle"
    BY DEF ListenInv, Listening
  <2>. QED
    BY <2>1, <2>2 DEF Caught, IsInjective
<1>. QED
  BY <1>1, JourneyHolds, ListenHolds, PTL

\* What reads or changes state.combat only runs in a combat, and what belongs to
\* events and relics that are obtained outside of one never runs in the middle of it.
CombatOnly ==
    todo # <<>> =>
        /\ it.op \in InCombat \cup Courses => combat.open
        /\ it.op \in {"event", "pop_relics"} => ~combat.open
THEOREM CombatsApart == Spec => []CombatOnly
<1>1. ListenInv => CombatOnly
  <2>. SUFFICES ASSUME ListenInv, todo # <<>>
                PROVE  /\ it.op \in InCombat \cup Courses => combat.open
                       /\ it.op \in {"event", "pop_relics"} => ~combat.open
    BY DEF CombatOnly
  <2>. DEFINE open == combat.open
              won == run.won
              relics == player.relics
  <2>1. Shape(todo, open, won, relics, bus)
    BY DEF ListenInv
  <2>. HIDE DEF open, won, relics
  <2>2. \/ open /\ (Free(it, "soft") \/ it.op = "register")
        \/ Free(it, Place(open))
        \/ it.op \in Drives
    BY <2>1, ShapeHead DEF it
  <2>3. it.op \in InCombat \cup Courses => ~Free(it, "abroad") /\ it.op \notin Drives
    BY NotBarred DEF Barred, InCombat, Courses, Drives
  <2>4. it.op \in {"event", "pop_relics"} =>
           ~Free(it, "fight") /\ ~Free(it, "soft") /\ it.op \notin Drives \cup {"register"}
    BY NotBarred DEF Barred, Drives
  <2>5. it.op \in InCombat \cup Courses => open
    BY <2>2, <2>3 DEF Place
  <2>6. it.op \in {"event", "pop_relics"} => ~open
    BY <2>2, <2>4 DEF Place
  <2>. QED
    BY <2>5, <2>6 DEF open
<1>. QED
  BY <1>1, ListenHolds, PTL

=============================================================================
