--------------------------- MODULE CombatPilesProofs ---------------------------
(***************************************************************************)
(* TLAPS proofs about CombatPiles, for any cards, decks and bounds.        *)
(*                                                                         *)
(* That no card is lost needs only what each effect does to the piles it   *)
(* touches.  That none is in two places rests on the effects still to run  *)
(* (TodoInv): a card to be exhausted or to leave is in no pile, or is      *)
(* still in hand because every effect before it only draws or takes other  *)
(* cards from the hand; no card is to be exhausted twice; and the card     *)
(* being played is in no pile until its own exhaust, which only            *)
(* play_card's last check, which looks for it, may follow.  The last part  *)
(* is where Havoc and the replays break: they call play() with more to do  *)
(* after it than that check.  So that theorem, as the run it generalises,  *)
(* is about decks that do not hold both kinds of card.                     *)
(***************************************************************************)
EXTENDS CombatPiles, ListLemmas

\* The cards whose play() exhausts the card itself, and those that make a
\* play() run other than once before play_card's last check.
SelfExhausting == {"seeingRed", "slimed", "warcry", "exhume", "fiendFire", "calculatedGamble"}
Replaying == {"havoc", "doubleTap", "burst"}

Separate(S) == (\A c \in S : ~Is(c, SelfExhausting)) \/ (\A c \in S : ~Is(c, Replaying))

-----------------------------------------------------------------------------
(* The invariants *)

Calls == {"enemies", "havoc", "headbutt", "warcry", "exhume"} \cup Stacking
CardEffects == {"play", "settle", "exhaust", "discard", "leave"}
Effect == (CardEffects \X Cards) \cup ({"draw"} \X Nat) \cup {<<name>> : name \in Calls}

PilesTyped ==
    draw \in Seq(Cards) /\ hand \in Seq(Cards) /\ discard \in Seq(Cards) /\ exhaust \in Seq(Cards)

TypeInv ==
    /\ PilesTyped
    /\ powers \in [Stacking -> 0 .. MaxStacks]
    /\ \E deck \in Decks : deck \subseteq cards /\ cards \ deck \subseteq Created
    /\ todo \in Seq(Effect)

Placed == ToSet(draw) \cup ToSet(hand) \cup ToSet(discard) \cup ToSet(exhaust)
Everything == cards \cup Created

\* The effects that put their card into a pile whatever pile it is in, and
\* those that leave the other cards of the hand in it.
Placing(e) == e[1] \in {"exhaust", "leave"}
Quiet(e) == e[1] \in {"draw", "exhaust", "leave"}

HeldInv(t, held, placed) ==
    \A i \in 1 .. Len(t) : Placing(t[i]) =>
        \/ t[i][2] \notin placed
        \/ t[i][2] \in held /\ \A j \in 1 .. i - 1 : Quiet(t[j])

OnceInv(t) ==
    \A i, j \in 1 .. Len(t) : Placing(t[i]) /\ Placing(t[j]) /\ t[i][2] = t[j][2] => i = j

SettleInv(t, gone, placed) ==
    \A i \in 1 .. Len(t) : t[i][1] = "settle" =>
        /\ i = Len(t)
        /\ \/ t[i][2] \notin placed
           \/ t[i][2] \in gone /\ \A j \in 1 .. i - 1 : t[j][1] = "draw"
        /\ \A j \in 1 .. Len(t) : Placing(t[j]) /\ t[j][2] = t[i][2] => j = Len(t) - 1 /\ t[j][1] = "exhaust"

\* With a card that exhausts itself about, a play() is followed by the check.
PlayInv(t, all) ==
    \A c \in all : Is(c, SelfExhausting) => \A i \in 1 .. Len(t) :
        /\ t[i][1] = "play" => i = Len(t) - 1 /\ t[Len(t)] = <<"settle", t[i][2]>>
        /\ t[i][1] \notin Replaying

KnownInv(t, known) ==
    \A i \in 1 .. Len(t) : t[i][1] \in {"play", "settle", "exhaust", "leave"} => t[i][2] \in known

Orderly(t, held, placed, gone, all, known) ==
    /\ HeldInv(t, held, placed)
    /\ OnceInv(t)
    /\ SettleInv(t, gone, placed)
    /\ PlayInv(t, all)
    /\ KnownInv(t, known)

TodoInv == Orderly(todo, ToSet(hand), Placed, ToSet(exhaust), Everything, cards)

\* The piles hold no card twice, and no card is in two of them.
Apart ==
    /\ IsInjective(draw) /\ IsInjective(hand) /\ IsInjective(discard) /\ IsInjective(exhaust)
    /\ ToSet(draw) \cap ToSet(hand) = {} /\ ToSet(draw) \cap ToSet(discard) = {}
    /\ ToSet(draw) \cap ToSet(exhaust) = {} /\ ToSet(hand) \cap ToSet(discard) = {}
    /\ ToSet(hand) \cap ToSet(exhaust) = {} /\ ToSet(discard) \cap ToSet(exhaust) = {}

PlaceInv ==
    /\ TypeInv
    /\ Separate(Everything)
    /\ Apart
    /\ Placed \subseteq cards
    /\ TodoInv
    /\ (\E c \in Everything : Is(c, SelfExhausting)) => powers["doubleTap"] = 0 /\ powers["burst"] = 0

-----------------------------------------------------------------------------
(* Among: the recursion has a solution, and it selects *)

Selects(f, s, T, n) ==
    f = [i \in 0 .. n |-> IF i = 0 THEN <<>> ELSE IF s[i] \in T THEN Append(f[i - 1], s[i]) ELSE f[i - 1]]

LEMMA AmongSolution ==
    ASSUME NEW s, NEW T, NEW n \in Nat
    PROVE  \E f : Selects(f, s, T, n)
<1>. DEFINE Next1(f, i) == IF s[i] \in T THEN Append(f[i - 1], s[i]) ELSE f[i - 1]
            Sol(f, m) == f = [i \in 0 .. m |-> IF i = 0 THEN <<>> ELSE Next1(f, i)]
            G == {m \in Nat : \E f : Sol(f, m)}
<1>1. 0 \in G
  <2>. DEFINE f == [i \in 0 .. 0 |-> <<>>]
  <2>1. \A i \in 0 .. 0 : i = 0
    OBVIOUS
  <2>2. Sol(f, 0)
    <3>. DEFINE g == [i \in 0 .. 0 |-> IF i = 0 THEN <<>> ELSE Next1(f, i)]
    <3>1. \A i \in 0 .. 0 : g[i] = <<>>
      BY <2>1
    <3>. QED
      BY <3>1
  <2>. QED
    BY <2>2
<1>2. ASSUME NEW m \in Nat, m \in G PROVE m + 1 \in G
  <2>1. PICK f : Sol(f, m)
    BY <1>2
  <2>. DEFINE g == [i \in 0 .. m + 1 |-> IF i = m + 1 THEN Next1(f, m + 1) ELSE f[i]]
              h == [i \in 0 .. m + 1 |-> IF i = 0 THEN <<>> ELSE Next1(g, i)]
  <2>2. f[0] = <<>> /\ \A i \in 1 .. m : f[i] = Next1(f, i)
    <3>. HIDE DEF Next1
    <3>1. 0 \in 0 .. m /\ \A i \in 1 .. m : i \in 0 .. m /\ i # 0
      OBVIOUS
    <3>2. \A i \in 0 .. m : f[i] = IF i = 0 THEN <<>> ELSE Next1(f, i)
      BY <2>1, Zenon
    <3>. QED
      BY <3>1, <3>2
  <2>3. g[m + 1] = Next1(f, m + 1) /\ \A i \in 0 .. m : g[i] = f[i]
    OBVIOUS
  <2>4. \A i \in 1 .. m + 1 : i - 1 \in 0 .. m /\ (i \in 1 .. m \/ i = m + 1)
    OBVIOUS
  <2>5. \A i \in 1 .. m + 1 : g[i - 1] = f[i - 1]
    BY <2>3, <2>4
  <2>6. \A i \in 1 .. m + 1 : g[i] = Next1(g, i)
    <3>. SUFFICES ASSUME NEW i \in 1 .. m + 1 PROVE g[i] = Next1(g, i)
      OBVIOUS
    <3>1. Next1(g, i) = Next1(f, i)
      BY <2>5
    <3>2. g[i] = Next1(f, i)
      <4>. HIDE DEF Next1, g
      <4>1. CASE i \in 1 .. m
        <5>1. i \in 0 .. m
          BY <4>1
        <5>. QED
          BY <2>2, <2>3, <4>1, <5>1
      <4>2. CASE i = m + 1
        BY <2>3, <4>2
      <4>. QED
        BY <2>4, <4>1, <4>2
    <3>. QED
      BY <3>1, <3>2
  <2>7. \A i \in 0 .. m + 1 : g[i] = h[i]
    <3>1. g[0] = <<>> /\ h[0] = <<>>
      BY <2>2, <2>3
    <3>2. \A i \in 0 .. m + 1 : i = 0 \/ i \in 1 .. m + 1
      OBVIOUS
    <3>3. \A i \in 1 .. m + 1 : h[i] = Next1(g, i)
      OBVIOUS
    <3>. QED
      BY <2>6, <3>1, <3>2, <3>3
  <2>8. g = h
    BY <2>7
  <2>9. Sol(g, m + 1)
    BY <2>8
  <2>. HIDE DEF Sol, g
  <2>. QED
    BY <2>9
<1>3. n \in G
  <2>. HIDE DEF G
  <2>. QED
    BY <1>1, <1>2, Induction
<1>4. PICK f : Sol(f, n)
  BY <1>3
<1>5. Selects(f, s, T, n)
  BY <1>4, Zenon DEF Selects
<1>. QED
  BY <1>5

LEMMA AmongList ==
    ASSUME NEW S, NEW s \in Seq(S), NEW T
    PROVE  /\ Among(s, T) \in Seq(S)
           /\ ToSet(Among(s, T)) = ToSet(s) \cap T
           /\ IsInjective(s) => IsInjective(Among(s, T))
<1>. DEFINE n == Len(s)
            sel == CHOOSE f : Selects(f, s, T, n)
<1>1. Among(s, T) = sel[n]
  BY DEF Among, Selects
<1>2. n \in Nat
  BY LenProperties
<1>3. Selects(sel, s, T, n)
  <2>1. \E f : Selects(f, s, T, n)
    BY <1>2, AmongSolution
  <2>. HIDE DEF n
  <2>. QED
    BY <2>1
<1>. HIDE DEF sel, n
<1>4. /\ sel[0] = <<>>
      /\ \A i \in 1 .. n : sel[i] = IF s[i] \in T THEN Append(sel[i - 1], s[i]) ELSE sel[i - 1]
  <2>1. 0 \in 0 .. n /\ \A i \in 1 .. n : i \in 0 .. n /\ i # 0
    BY <1>2
  <2>2. \A i \in 0 .. n : sel[i] =
            IF i = 0 THEN <<>> ELSE IF s[i] \in T THEN Append(sel[i - 1], s[i]) ELSE sel[i - 1]
    BY <1>3, Zenon DEF Selects
  <2>. QED
    BY <2>1, <2>2
<1>. DEFINE Upto(i) == {s[j] : j \in 1 .. i}
            P(i) == /\ sel[i] \in Seq(S) /\ ToSet(sel[i]) = Upto(i) \cap T
                    /\ IsInjective(s) => IsInjective(sel[i])
            G == {i \in Nat : i <= n => P(i)}
<1>5. 0 \in G
  <2>1. Upto(0) = {}
    OBVIOUS
  <2>. HIDE DEF Upto
  <2>2. P(0)
    BY <1>4, <2>1, None
  <2>. HIDE DEF P
  <2>. QED
    BY <2>2
<1>6. ASSUME NEW i \in Nat, i \in G PROVE i + 1 \in G
  <2>. SUFFICES ASSUME i + 1 <= n PROVE P(i + 1)
    OBVIOUS
  <2>1. i + 1 \in 1 .. n /\ (i + 1) - 1 = i /\ i <= n
    BY <1>2
  <2>2. P(i)
    BY <1>6, <2>1
  <2>3. s[i + 1] \in S
    BY <2>1, ElementOfSeq DEF n
  <2>4. Upto(i + 1) = Upto(i) \cup {s[i + 1]}
    <3>1. \A j \in 1 .. i + 1 : j \in 1 .. i \/ j = i + 1
      OBVIOUS
    <3>2. 1 .. i \subseteq 1 .. i + 1 /\ i + 1 \in 1 .. i + 1
      OBVIOUS
    <3>. QED
      BY <3>1, <3>2
  <2>5. IsInjective(s) => s[i + 1] \notin Upto(i)
    <3>1. \A j \in 1 .. i : j \in 1 .. n /\ j # i + 1
      BY <1>2, <2>1
    <3>2. IsInjective(s) => \A j, k \in 1 .. n : s[j] = s[k] => j = k
      BY NoRepeats DEF n
    <3>. QED
      BY <2>1, <3>1, <3>2
  <2>6. sel[i + 1] = IF s[i + 1] \in T THEN Append(sel[i], s[i + 1]) ELSE sel[i]
    BY <1>4, <2>1
  <2>. HIDE DEF Upto
  <2>7. CASE s[i + 1] \in T
    <3>1. sel[i + 1] = Append(sel[i], s[i + 1])
      BY <2>6, <2>7
    <3>2. /\ Append(sel[i], s[i + 1]) \in Seq(S)
          /\ ToSet(Append(sel[i], s[i + 1])) = ToSet(sel[i]) \cup {s[i + 1]}
          /\ IsInjective(sel[i]) /\ s[i + 1] \notin ToSet(sel[i]) => IsInjective(Append(sel[i], s[i + 1]))
      BY <2>2, <2>3, AppendList
    <3>3. ToSet(sel[i]) \cup {s[i + 1]} = Upto(i + 1) \cap T
      BY <2>2, <2>4, <2>7
    <3>4. IsInjective(s) => IsInjective(sel[i]) /\ s[i + 1] \notin ToSet(sel[i])
      BY <2>2, <2>5
    <3>. QED
      BY <3>1, <3>2, <3>3, <3>4
  <2>8. CASE s[i + 1] \notin T
    <3>1. sel[i + 1] = sel[i]
      BY <2>6, <2>8
    <3>2. Upto(i + 1) \cap T = Upto(i) \cap T
      BY <2>4, <2>8
    <3>. QED
      BY <2>2, <3>1, <3>2
  <2>. QED
    BY <2>7, <2>8
<1>7. P(n)
  <2>1. Nat \subseteq G
    <3>. HIDE DEF G
    <3>. QED
      BY <1>5, <1>6, Induction
  <2>2. n \in G
    BY <1>2, <2>1
  <2>. HIDE DEF P
  <2>. QED
    BY <1>2, <2>2
<1>8. Upto(n) = ToSet(s)
  BY Elements DEF n
<1>. QED
  BY <1>1, <1>7, <1>8

-----------------------------------------------------------------------------
(* The other operators of the model *)

\* A shuffle holds the same cards: the recursion of Orders has a solution, and
\* every list in it is one of the elements taken so far.
Shuffles(f, s, n) ==
    f = [i \in 0 .. n |->
            IF i = 0 THEN {<<>>} ELSE Inserted(f[i - 1], s[i], i)]

LEMMA OrdersSolution ==
    ASSUME NEW s, NEW n \in Nat
    PROVE  \E f : Shuffles(f, s, n)
<1>. DEFINE Next1(f, i) == Inserted(f[i - 1], s[i], i)
            Sol(f, m) == f = [i \in 0 .. m |-> IF i = 0 THEN {<<>>} ELSE Next1(f, i)]
            G == {m \in Nat : \E f : Sol(f, m)}
<1>1. 0 \in G
  <2>. DEFINE f == [i \in 0 .. 0 |-> {<<>>}]
  <2>1. \A i \in 0 .. 0 : i = 0
    OBVIOUS
  <2>2. Sol(f, 0)
    <3>. DEFINE g == [i \in 0 .. 0 |-> IF i = 0 THEN {<<>>} ELSE Next1(f, i)]
    <3>1. \A i \in 0 .. 0 : g[i] = {<<>>}
      BY <2>1
    <3>. QED
      BY <3>1
  <2>. QED
    BY <2>2
<1>2. ASSUME NEW m \in Nat, m \in G PROVE m + 1 \in G
  <2>1. PICK f : Sol(f, m)
    BY <1>2
  <2>. DEFINE g == [i \in 0 .. m + 1 |-> IF i = m + 1 THEN Next1(f, m + 1) ELSE f[i]]
              h == [i \in 0 .. m + 1 |-> IF i = 0 THEN {<<>>} ELSE Next1(g, i)]
  <2>2. f[0] = {<<>>} /\ \A i \in 1 .. m : f[i] = Next1(f, i)
    <3>. HIDE DEF Next1
    <3>1. 0 \in 0 .. m /\ \A i \in 1 .. m : i \in 0 .. m /\ i # 0
      OBVIOUS
    <3>2. \A i \in 0 .. m : f[i] = IF i = 0 THEN {<<>>} ELSE Next1(f, i)
      BY <2>1, Zenon
    <3>. QED
      BY <3>1, <3>2
  <2>3. g[m + 1] = Next1(f, m + 1) /\ \A i \in 0 .. m : g[i] = f[i]
    OBVIOUS
  <2>4. \A i \in 1 .. m + 1 : i - 1 \in 0 .. m /\ (i \in 1 .. m \/ i = m + 1)
    OBVIOUS
  <2>5. \A i \in 1 .. m + 1 : g[i - 1] = f[i - 1]
    BY <2>3, <2>4
  <2>6. \A i \in 1 .. m + 1 : g[i] = Next1(g, i)
    <3>. SUFFICES ASSUME NEW i \in 1 .. m + 1 PROVE g[i] = Next1(g, i)
      OBVIOUS
    <3>1. Next1(g, i) = Next1(f, i)
      BY <2>5
    <3>2. g[i] = Next1(f, i)
      <4>. HIDE DEF Next1, g
      <4>1. CASE i \in 1 .. m
        <5>1. i \in 0 .. m
          BY <4>1
        <5>. QED
          BY <2>2, <2>3, <4>1, <5>1
      <4>2. CASE i = m + 1
        BY <2>3, <4>2
      <4>. QED
        BY <2>4, <4>1, <4>2
    <3>. QED
      BY <3>1, <3>2
  <2>7. \A i \in 0 .. m + 1 : g[i] = h[i]
    <3>1. g[0] = {<<>>} /\ h[0] = {<<>>}
      BY <2>2, <2>3
    <3>2. \A i \in 0 .. m + 1 : i = 0 \/ i \in 1 .. m + 1
      OBVIOUS
    <3>3. \A i \in 1 .. m + 1 : h[i] = Next1(g, i)
      OBVIOUS
    <3>. QED
      BY <2>6, <3>1, <3>2, <3>3
  <2>8. g = h
    BY <2>7
  <2>9. Sol(g, m + 1)
    BY <2>8
  <2>. HIDE DEF Sol, g
  <2>. QED
    BY <2>9
<1>3. n \in G
  <2>. HIDE DEF G
  <2>. QED
    BY <1>1, <1>2, Induction
<1>4. PICK f : Sol(f, n)
  BY <1>3
<1>5. Shuffles(f, s, n)
  BY <1>4, Zenon DEF Shuffles
<1>. QED
  BY <1>5

LEMMA OrdersList ==
    ASSUME NEW S, NEW s \in Seq(S), NEW p \in Orders(s)
    PROVE  /\ p \in Seq(S) /\ Len(p) = Len(s) /\ ToSet(p) = ToSet(s)
           /\ IsInjective(s) => IsInjective(p)
<1>. DEFINE n == Len(s)
            sh == CHOOSE f : Shuffles(f, s, n)
<1>1. Orders(s) = sh[n]
  BY DEF Orders, Shuffles
<1>2. n \in Nat
  BY LenProperties
<1>3. Shuffles(sh, s, n)
  <2>1. \E f : Shuffles(f, s, n)
    BY <1>2, OrdersSolution
  <2>. HIDE DEF n
  <2>. QED
    BY <2>1
<1>. HIDE DEF sh, n
<1>4. /\ sh[0] = {<<>>}
      /\ \A i \in 1 .. n : sh[i] = Inserted(sh[i - 1], s[i], i)
  <2>1. 0 \in 0 .. n /\ \A i \in 1 .. n : i \in 0 .. n /\ i # 0
    BY <1>2
  <2>2. \A i \in 0 .. n : sh[i] =
            IF i = 0 THEN {<<>>} ELSE Inserted(sh[i - 1], s[i], i)
    BY <1>3, Zenon DEF Shuffles
  <2>. QED
    BY <2>1, <2>2, Zenon
<1>. DEFINE Upto(i) == {s[j] : j \in 1 .. i}
            Good(q, i) == /\ q \in Seq(S) /\ Len(q) = i /\ ToSet(q) = Upto(i)
                          /\ IsInjective(s) => IsInjective(q)
            P(i) == \A q \in sh[i] : Good(q, i)
            G == {i \in Nat : i <= n => P(i)}
<1>5. 0 \in G
  <2>1. Upto(0) = {}
    OBVIOUS
  <2>. HIDE DEF Upto
  <2>2. Good(<<>>, 0)
    BY <2>1, None
  <2>3. P(0)
    BY <1>4, <2>2
  <2>. HIDE DEF P
  <2>. QED
    BY <2>3
<1>6. ASSUME NEW i \in Nat, i \in G PROVE i + 1 \in G
  <2>. SUFFICES ASSUME i + 1 <= n, NEW q \in sh[i + 1] PROVE Good(q, i + 1)
    OBVIOUS
  <2>1. i + 1 \in 1 .. n /\ (i + 1) - 1 = i /\ i <= n
    BY <1>2
  <2>2. P(i)
    BY <1>6, <2>1
  <2>3. s[i + 1] \in S
    BY <2>1, ElementOfSeq DEF n
  <2>4. Upto(i + 1) = Upto(i) \cup {s[i + 1]}
    <3>1. \A j \in 1 .. i + 1 : j \in 1 .. i \/ j = i + 1
      OBVIOUS
    <3>2. 1 .. i \subseteq 1 .. i + 1 /\ i + 1 \in 1 .. i + 1
      OBVIOUS
    <3>. QED
      BY <3>1, <3>2
  <2>5. IsInjective(s) => s[i + 1] \notin Upto(i)
    <3>1. \A j \in 1 .. i : j \in 1 .. n /\ j # i + 1
      BY <1>2, <2>1
    <3>2. IsInjective(s) => \A j, k \in 1 .. n : s[j] = s[k] => j = k
      BY NoRepeats DEF n
    <3>. QED
      BY <2>1, <3>1, <3>2
  <2>6. sh[i + 1] = Inserted(sh[i], s[i + 1], i + 1)
    BY <1>4, <2>1
  <2>7. PICK order \in sh[i], k \in 1 .. i + 1 : q = InsertAt(order, k, s[i + 1])
    BY <2>6 DEF Inserted
  <2>. HIDE DEF Upto
  <2>8. Good(order, i)
    BY <2>2
  <2>9. k \in 1 .. Len(order) + 1
    BY <2>8
  <2>10. /\ q \in Seq(S) /\ Len(q) = Len(order) + 1 /\ ToSet(q) = ToSet(order) \cup {s[i + 1]}
         /\ IsInjective(order) /\ s[i + 1] \notin ToSet(order) => IsInjective(q)
    BY <2>3, <2>7, <2>8, <2>9, InsertAtList
  <2>. QED
    BY <2>4, <2>5, <2>8, <2>10
<1>7. P(n)
  <2>1. Nat \subseteq G
    <3>. HIDE DEF G
    <3>. QED
      BY <1>5, <1>6, Induction
  <2>2. n \in G
    BY <1>2, <2>1
  <2>. HIDE DEF P
  <2>. QED
    BY <1>2, <2>2
<1>8. Upto(n) = ToSet(s)
  BY Elements DEF n
<1>. QED
  BY <1>1, <1>7, <1>8 DEF n

\* The lists of a set's elements.
LEMMA ListsOfSet ==
    ASSUME NEW S, IsFiniteSet(S), NEW s \in SetToSeqs(S)
    PROVE  s \in Seq(S) /\ Len(s) = Cardinality(S) /\ ToSet(s) = S /\ IsInjective(s)
<1>. DEFINE D == 1 .. Cardinality(S)
<1>1. Cardinality(S) \in Nat
  BY FS_CardinalityType
<1>2. s \in [D -> S] /\ \A i, j \in D : i # j => s[i] # s[j]
  BY DEF SetToSeqs
<1>3. s \in Seq(S) /\ Len(s) = Cardinality(S)
  BY <1>1, <1>2
<1>4. IsInjective(s)
  BY <1>2, <1>3, NoRepeats
<1>5. IsFiniteSet(D) /\ Cardinality(D) = Cardinality(S)
  <2>1. 1 \in Int /\ Cardinality(S) \in Int /\ (1 > Cardinality(S) => Cardinality(S) = 0)
    BY <1>1
  <2>2. IsFiniteSet(D) /\ Cardinality(D) = IF 1 > Cardinality(S) THEN 0 ELSE Cardinality(S) - 1 + 1
    BY <2>1, FS_Interval
  <2>. HIDE DEF D
  <2>. QED
    BY <1>1, <2>1, <2>2
<1>6. s \in Injection(D, S)
  BY <1>2, <1>4 DEF Injection
<1>7. s \in Surjection(D, S)
  <2>. HIDE DEF D
  <2>. QED
    BY <1>5, <1>6, FS_Injection
<1>8. \A x \in S : \E i \in D : s[i] = x
  BY <1>7 DEF Surjection
<1>9. ToSet(s) = S
  <2>1. \A x \in S : x \in ToSet(s)
    BY <1>3, <1>8, Elements
  <2>2. ToSet(s) \subseteq S
    BY <1>3, Elements
  <2>. QED
    BY <2>1, <2>2
<1>. QED
  BY <1>3, <1>4, <1>9

\* The effects that one name calls for each card of a list.
LEMMA EachList ==
    ASSUME NEW cs \in Seq(Cards), NEW name
    PROVE  /\ Each(name, cs) \in Seq({name} \X Cards)
           /\ Len(Each(name, cs)) = Len(cs)
           /\ \A i \in 1 .. Len(cs) : Each(name, cs)[i] = <<name, cs[i]>>
<1>1. DOMAIN cs = 1 .. Len(cs) /\ Len(cs) \in Nat
  BY LenProperties
<1>2. \A i \in 1 .. Len(cs) : cs[i] \in Cards
  BY ElementOfSeq
<1>3. Each(name, cs) = [i \in 1 .. Len(cs) |-> <<name, cs[i]>>]
  BY <1>1 DEF Each
<1>4. Each(name, cs) \in [1 .. Len(cs) -> {name} \X Cards]
  BY <1>2, <1>3
<1>5. Each(name, cs) \in Seq({name} \X Cards) /\ Len(Each(name, cs)) = Len(cs)
  BY <1>1, <1>4
<1>. QED
  BY <1>3, <1>5

-----------------------------------------------------------------------------
(* Effects *)

LEMMA EffectKinds ==
    ASSUME NEW e \in Effect
    PROVE  /\ e[1] \in CardEffects \cup {"draw"} \cup Calls
           /\ e[1] \in CardEffects => e[2] \in Cards /\ e = <<e[1], e[2]>>
           /\ e[1] = "draw" => e[2] \in Nat
<1>1. CASE e \in CardEffects \X Cards
  BY <1>1 DEF CardEffects
<1>2. CASE e \in {"draw"} \X Nat
  BY <1>2 DEF CardEffects
<1>3. CASE e \in {<<name>> : name \in Calls}
  <2>1. PICK name \in Calls : e = <<name>>
    BY <1>3
  <2>2. e[1] = name
    BY <2>1
  <2>3. \A x \in Calls : x \notin CardEffects /\ x # "draw"
    BY DEF Calls, CardEffects, Stacking
  <2>. QED
    BY <2>2, <2>3
<1>. QED
  BY <1>1, <1>2, <1>3 DEF Effect

LEMMA CardEffectList ==
    ASSUME NEW name \in CardEffects, NEW c \in Cards
    PROVE  <<name, c>> \in Effect /\ <<<<name, c>>>> \in Seq(Effect)
BY DEF Effect

LEMMA DrawsList ==
    ASSUME NEW n \in Nat
    PROVE  Draws(n) \in Seq(Effect) /\ Len(Draws(n)) = 1 /\ Draws(n)[1] = <<"draw", n>>
BY DEF Effect, Draws

LEMMA CallList ==
    ASSUME NEW name \in Calls
    PROVE  <<<<name>>>> \in Seq(Effect) /\ Len(<<<<name>>>>) = 1 /\ <<<<name>>>>[1][1] = name
BY DEF Effect

LEMMA EachEffects ==
    ASSUME NEW cs \in Seq(Cards), NEW name \in CardEffects
    PROVE  /\ Each(name, cs) \in Seq(Effect) /\ Len(Each(name, cs)) = Len(cs)
           /\ \A i \in 1 .. Len(cs) : Each(name, cs)[i] = <<name, cs[i]>>
<1>1. {name} \X Cards \subseteq Effect
  BY DEF Effect
<1>. QED
  BY <1>1, EachList, SeqMonotonic

\* What is still to run after the effect at the head, behind what it called for.
LEMMA Afterwards ==
    ASSUME todo \in Seq(Effect), todo # <<>>, NEW more \in Seq(Effect), Then(more)
    PROVE  /\ todo' \in Seq(Effect) /\ Len(todo') = Len(more) + Len(todo) - 1
           /\ Len(more) \in Nat /\ Len(todo) \in Nat /\ Len(todo) >= 1
           /\ \A i \in 1 .. Len(more) : todo'[i] = more[i]
           /\ \A i \in 2 .. Len(todo) : todo'[Len(more) + i - 1] = todo[i]
           /\ \A i \in 1 .. Len(todo') :
                 \/ i \in 1 .. Len(more) /\ todo'[i] = more[i]
                 \/ i - Len(more) + 1 \in 2 .. Len(todo) /\ todo'[i] = todo[i - Len(more) + 1]
<1>. DEFINE rest == Tail(todo)
            m == Len(more)
            n == Len(todo)
<1>1. m \in Nat /\ n \in Nat /\ n >= 1
  BY EmptySeq, LenProperties
<1>2. rest \in Seq(Effect) /\ Len(rest) = n - 1 /\ \A i \in 1 .. Len(rest) : rest[i] = todo[i + 1]
  BY HeadTailProperties
<1>3. todo' = more \o rest
  BY DEF Then
<1>4. /\ more \o rest \in Seq(Effect) /\ Len(more \o rest) = m + Len(rest)
      /\ \A i \in 1 .. m + Len(rest) : (more \o rest)[i] = IF i <= m THEN more[i] ELSE rest[i - m]
  BY <1>2, ConcatProperties
<1>. HIDE DEF rest, m, n
<1>5. todo' \in Seq(Effect) /\ Len(todo') = m + n - 1
  BY <1>1, <1>2, <1>3, <1>4
<1>6. ASSUME NEW i \in 1 .. m PROVE todo'[i] = more[i]
  <2>1. i \in 1 .. m + Len(rest) /\ i <= m
    BY <1>1, <1>2
  <2>. QED
    BY <1>3, <1>4, <2>1
<1>7. ASSUME NEW i \in 2 .. n PROVE todo'[m + i - 1] = todo[i]
  <2>1. m + i - 1 \in 1 .. m + Len(rest) /\ ~(m + i - 1 <= m) /\ (m + i - 1) - m = i - 1
    BY <1>1, <1>2
  <2>2. i - 1 \in 1 .. Len(rest) /\ (i - 1) + 1 = i
    BY <1>1, <1>2
  <2>3. todo'[m + i - 1] = rest[i - 1]
    BY <1>3, <1>4, <2>1
  <2>. QED
    BY <1>2, <2>2, <2>3
<1>8. ASSUME NEW i \in 1 .. m + n - 1, i \notin 1 .. m
      PROVE  i - m + 1 \in 2 .. n /\ todo'[i] = todo[i - m + 1]
  <2>1. i - m + 1 \in 2 .. n /\ m + (i - m + 1) - 1 = i
    BY <1>1, <1>8
  <2>2. todo'[m + (i - m + 1) - 1] = todo[i - m + 1]
    BY <1>7, <2>1
  <2>. QED
    BY <2>1, <2>2
<1>. QED
  BY <1>1, <1>5, <1>6, <1>7, <1>8 DEF m, n

LEMMA FirstList ==
    ASSUME NEW S, NEW s \in Seq(S)
    PROVE  /\ First(s) \in Seq(S) /\ ToSet(First(s)) \subseteq ToSet(s)
           /\ IsInjective(s) => IsInjective(First(s))
<1>1. CASE s = <<>>
  <2>1. First(s) = SubSeq(s, 1, 0) /\ 0 <= Len(s)
    BY <1>1 DEF First
  <2>2. /\ SubSeq(s, 1, 0) \in Seq(S)
        /\ \A x \in ToSet(SubSeq(s, 1, 0)) : \E i \in 1 .. 0 : s[i] = x
        /\ IsInjective(s) => IsInjective(SubSeq(s, 1, 0))
    BY <2>1, Stretch
  <2>. QED
    BY <2>1, <2>2
<1>2. CASE s # <<>>
  <2>1. First(s) = SubSeq(s, 1, 1) /\ 1 <= Len(s) /\ 1 \in 1 .. Len(s)
    BY <1>2, EmptySeq DEF First
  <2>2. /\ SubSeq(s, 1, 1) \in Seq(S)
        /\ \A x \in ToSet(SubSeq(s, 1, 1)) : \E i \in 1 .. 1 : s[i] = x
        /\ IsInjective(s) => IsInjective(SubSeq(s, 1, 1))
    BY <2>1, Stretch
  <2>3. \A i \in 1 .. 1 : s[i] \in ToSet(s)
    BY <2>1, Elements
  <2>. QED
    BY <2>1, <2>2, <2>3
<1>. QED
  BY <1>1, <1>2

LEMMA OthersList ==
    ASSUME hand \in Seq(Cards), NEW c
    PROVE  /\ Others(c) \in Seq(Cards) /\ ToSet(Others(c)) = ToSet(hand) \ {c}
           /\ IsInjective(hand) => IsInjective(Others(c))
<1>1. /\ Among(hand, Cards \ {c}) \in Seq(Cards)
      /\ ToSet(Among(hand, Cards \ {c})) = ToSet(hand) \cap (Cards \ {c})
      /\ IsInjective(hand) => IsInjective(Among(hand, Cards \ {c}))
  BY AmongList
<1>2. ToSet(hand) \subseteq Cards
  BY Elements
<1>. QED
  BY <1>1, <1>2 DEF Others

LEMMA NonAttacksList ==
    ASSUME hand \in Seq(Cards), NEW c
    PROVE  /\ NonAttacks(c) \in Seq(Cards) /\ ToSet(NonAttacks(c)) \subseteq ToSet(hand) \ {c}
           /\ IsInjective(hand) => IsInjective(NonAttacks(c))
<1>. DEFINE T == {d \in Cards : ~Is(d, Attacks)}
<1>1. /\ Others(c) \in Seq(Cards) /\ ToSet(Others(c)) = ToSet(hand) \ {c}
      /\ IsInjective(hand) => IsInjective(Others(c))
  BY OthersList
<1>. HIDE DEF T
<1>2. /\ Among(Others(c), T) \in Seq(Cards)
      /\ ToSet(Among(Others(c), T)) = ToSet(Others(c)) \cap T
      /\ IsInjective(Others(c)) => IsInjective(Among(Others(c), T))
  BY <1>1, AmongList
<1>3. NonAttacks(c) = Among(Others(c), T)
  BY DEF NonAttacks, T
<1>. QED
  BY <1>1, <1>2, <1>3

LEMMA DiscardChoiceList ==
    ASSUME hand \in Seq(Cards)
    PROVE  DiscardChoice \in Seq(Cards)
<1>1. \A kinds : Of(kinds, hand) \in Seq(Cards)
  BY AmongList DEF Of
<1>2. /\ Of(Statuses, hand) \in Seq(Cards) /\ Of({"strike"}, hand) \in Seq(Cards)
      /\ Of({"defend"}, hand) \in Seq(Cards)
  BY <1>1
<1>. QED
  BY <1>2, ConcatProperties DEF DiscardChoice

\* What a play calls for: exhausts of other cards of the hand, then effects
\* that place no card, then, for some cards, the card's own exhaust.
Passive(c, rest) ==
    /\ rest \in Seq(Effect)
    /\ \A i \in 1 .. Len(rest) :
          /\ rest[i][1] \in {"draw", "discard"} \cup Calls
          /\ rest[i][1] \in Replaying => Is(c, Replaying)

Parts(c, cs, rest, own) ==
    /\ EffectsOf(c) = (Each("exhaust", cs) \o rest) \o own
    /\ cs \in Seq(Cards) /\ ToSet(cs) \subseteq ToSet(hand) \ {c}
    /\ IsInjective(hand) => IsInjective(cs)
    /\ Passive(c, rest)
    /\ own = <<>> \/ (own = Exhausted(c) /\ Is(c, SelfExhausting))

LEMMA PassiveEffects ==
    ASSUME NEW c \in Cards
    PROVE  /\ Passive(c, <<>>)
           /\ \A n \in Nat : Passive(c, Draws(n))
           /\ \A cs \in Seq(Cards) : Passive(c, Each("discard", cs))
           /\ Kind[c] \in Calls => Passive(c, Called(c))
<1>1. Passive(c, <<>>)
  <2>1. <<>> \in Seq(Effect) /\ Len(<<>>) = 0
    BY EmptySeq
  <2>2. \A i \in 1 .. Len(<<>>) : FALSE
    BY <2>1
  <2>. QED
    BY <2>1, <2>2 DEF Passive
<1>2. ASSUME NEW n \in Nat PROVE Passive(c, Draws(n))
  <2>1. Draws(n) \in Seq(Effect) /\ Len(Draws(n)) = 1 /\ Draws(n)[1] = <<"draw", n>>
    BY DrawsList
  <2>2. \A i \in 1 .. Len(Draws(n)) : Draws(n)[i] = <<"draw", n>>
    BY <2>1
  <2>. QED
    BY <2>1, <2>2 DEF Passive, Replaying
<1>3. ASSUME NEW cs \in Seq(Cards) PROVE Passive(c, Each("discard", cs))
  <2>1. /\ Each("discard", cs) \in Seq(Effect) /\ Len(Each("discard", cs)) = Len(cs)
        /\ \A i \in 1 .. Len(cs) : Each("discard", cs)[i] = <<"discard", cs[i]>>
    BY EachEffects DEF CardEffects
  <2>2. \A i \in 1 .. Len(Each("discard", cs)) : Each("discard", cs)[i][1] = "discard"
    BY <2>1
  <2>. QED
    BY <2>1, <2>2 DEF Passive, Replaying
<1>4. ASSUME Kind[c] \in Calls PROVE Passive(c, Called(c))
  <2>1. Called(c) \in Seq(Effect) /\ Len(Called(c)) = 1 /\ Called(c)[1][1] = Kind[c]
    BY <1>4, CallList DEF Called
  <2>2. \A i \in 1 .. Len(Called(c)) : Called(c)[i][1] = Kind[c]
    BY <2>1
  <2>. QED
    BY <1>4, <2>1, <2>2 DEF Passive, Is
<1>. QED
  BY <1>1, <1>2, <1>3, <1>4

LEMMA PassiveConcat ==
    ASSUME NEW c, NEW a, NEW b, Passive(c, a), Passive(c, b)
    PROVE  Passive(c, a \o b)
<1>1. a \in Seq(Effect) /\ b \in Seq(Effect) /\ Len(a) \in Nat /\ Len(b) \in Nat
  BY LenProperties DEF Passive
<1>2. /\ a \o b \in Seq(Effect) /\ Len(a \o b) = Len(a) + Len(b)
      /\ \A i \in 1 .. Len(a) + Len(b) : (a \o b)[i] = IF i <= Len(a) THEN a[i] ELSE b[i - Len(a)]
  BY <1>1, ConcatProperties
<1>3. ASSUME NEW i \in 1 .. Len(a) + Len(b)
      PROVE  (\E j \in 1 .. Len(a) : (a \o b)[i] = a[j]) \/ (\E j \in 1 .. Len(b) : (a \o b)[i] = b[j])
  <2>1. CASE i <= Len(a)
    BY <1>1, <1>2, <2>1
  <2>2. CASE ~(i <= Len(a))
    <3>1. i - Len(a) \in 1 .. Len(b) /\ (a \o b)[i] = b[i - Len(a)]
      BY <1>1, <1>2, <2>2
    <3>. QED
      BY <3>1
  <2>. QED
    BY <2>1, <2>2
<1>. QED
  BY <1>2, <1>3 DEF Passive

\* Every card's effects are of that form.
LEMMA EffectsParts ==
    ASSUME hand \in Seq(Cards), NEW c \in Cards
    PROVE  \E cs, rest, own : Parts(c, cs, rest, own)
<1>. DEFINE k == Kind[c]
<1>1. k \in Attacks \cup Skills \cup Powers \cup Statuses
  BY ConstantsAssumption
<1>2. /\ <<>> \in Seq(Cards) /\ ToSet(<<>>) = {} /\ IsInjective(<<>>) /\ Each("exhaust", <<>>) = <<>>
  <2>1. /\ <<>> \in Seq(Cards) /\ ToSet(<<>>) = {} /\ IsInjective(<<>>) /\ Len(<<>>) = 0
    BY None
  <2>2. Each("exhaust", <<>>) \in Seq(Effect) /\ Len(Each("exhaust", <<>>)) = 0
    BY <2>1, EachEffects DEF CardEffects
  <2>3. Each("exhaust", <<>>) = <<>>
    BY <2>2, EmptySeq
  <2>. QED
    BY <2>1, <2>3
<1>3. Exhausted(c) \in Seq(Effect)
  BY CardEffectList DEF Exhausted, CardEffects
<1>4. ASSUME NEW rest, Passive(c, rest), NEW own \in {<<>>, Exhausted(c)},
             EffectsOf(c) = rest \o own, own = <<>> \/ Is(c, SelfExhausting)
      PROVE  Parts(c, <<>>, rest, own)
  <2>1. <<>> \o rest = rest
    BY <1>4, ConcatEmptySeq DEF Passive
  <2>. QED
    BY <1>2, <1>4, <2>1 DEF Parts
<1>5. ASSUME NEW rest, Passive(c, rest), EffectsOf(c) = rest
      PROVE  Parts(c, <<>>, rest, <<>>)
  <2>1. rest \o <<>> = rest
    BY <1>5, ConcatEmptySeq DEF Passive
  <2>. QED
    BY <1>4, <1>5, <2>1
<1>6. 1 \in Nat /\ 2 \in Nat /\ Len(hand) \in Nat
  BY LenProperties
<1>7. Passive(c, <<>>) /\ Passive(c, Draws(1)) /\ Passive(c, Draws(2)) /\ Passive(c, Draws(Len(hand)))
  BY <1>6, PassiveEffects
<1>8. \A cs \in Seq(Cards) : Passive(c, Each("discard", cs))
  BY PassiveEffects
<1>9. k \in Calls => Passive(c, Called(c))
  BY PassiveEffects
<1>10. CASE k \in {"seeingRed", "slimed"}
  <2>1. EffectsOf(c) = Exhausted(c) /\ Is(c, SelfExhausting)
    BY <1>10 DEF EffectsOf, Stacking, Is, SelfExhausting
  <2>2. EffectsOf(c) = <<>> \o Exhausted(c)
    BY <1>3, <2>1, ConcatEmptySeq
  <2>. QED
    BY <1>4, <1>7, <2>1, <2>2
<1>11. CASE k = "pommelStrike"
  <2>1. EffectsOf(c) = Draws(1)
    BY <1>11 DEF EffectsOf, Stacking, Is
  <2>. QED
    BY <1>5, <1>7, <2>1
<1>12. CASE k = "warcry"
  <2>1. EffectsOf(c) = (Draws(1) \o Called(c)) \o Exhausted(c) /\ Is(c, SelfExhausting)
    BY <1>12 DEF EffectsOf, Stacking, Is, SelfExhausting
  <2>2. Passive(c, Draws(1) \o Called(c))
    BY <1>7, <1>9, <1>12, PassiveConcat DEF Calls
  <2>. QED
    BY <1>4, <2>1, <2>2
<1>13. CASE k = "exhume"
  <2>1. EffectsOf(c) = Called(c) \o Exhausted(c) /\ Is(c, SelfExhausting)
    BY <1>13 DEF EffectsOf, Stacking, Is, SelfExhausting
  <2>2. Passive(c, Called(c))
    BY <1>9, <1>13 DEF Calls
  <2>. QED
    BY <1>4, <2>1, <2>2
<1>14. ASSUME NEW cs \in Seq(Cards), ToSet(cs) \subseteq ToSet(hand) \ {c},
              IsInjective(hand) => IsInjective(cs),
              NEW rest, Passive(c, rest), EffectsOf(c) = Each("exhaust", cs) \o rest
       PROVE  Parts(c, cs, rest, <<>>)
  <2>1. Each("exhaust", cs) \in Seq(Effect) /\ rest \in Seq(Effect)
    BY <1>14, EachEffects DEF CardEffects, Passive
  <2>2. EffectsOf(c) = (Each("exhaust", cs) \o rest) \o <<>>
    BY <1>14, <2>1, ConcatProperties, ConcatEmptySeq
  <2>. QED
    BY <1>14, <2>2 DEF Parts
<1>15. CASE k = "burningPact"
  <2>1. EffectsOf(c) = Each("exhaust", First(Others(c))) \o Draws(2)
    BY <1>15 DEF EffectsOf, Stacking, Is, BurningPact
  <2>2. /\ Others(c) \in Seq(Cards) /\ ToSet(Others(c)) = ToSet(hand) \ {c}
        /\ IsInjective(hand) => IsInjective(Others(c))
    BY OthersList
  <2>3. /\ First(Others(c)) \in Seq(Cards) /\ ToSet(First(Others(c))) \subseteq ToSet(Others(c))
        /\ IsInjective(Others(c)) => IsInjective(First(Others(c)))
    BY <2>2, FirstList
  <2>. QED
    BY <1>7, <1>14, <2>1, <2>2, <2>3
<1>16. CASE k = "secondWind"
  <2>1. EffectsOf(c) = Each("exhaust", NonAttacks(c))
    BY <1>16 DEF EffectsOf, Stacking, Is, SecondWind
  <2>2. /\ NonAttacks(c) \in Seq(Cards) /\ ToSet(NonAttacks(c)) \subseteq ToSet(hand) \ {c}
        /\ IsInjective(hand) => IsInjective(NonAttacks(c))
    BY NonAttacksList
  <2>3. Each("exhaust", NonAttacks(c)) \in Seq(Effect)
    BY <2>2, EachEffects DEF CardEffects
  <2>4. EffectsOf(c) = Each("exhaust", NonAttacks(c)) \o <<>>
    BY <2>1, <2>3, ConcatEmptySeq
  <2>. QED
    BY <1>7, <1>14, <2>2, <2>4
<1>17. CASE k = "fiendFire"
  <2>1. EffectsOf(c) = Each("exhaust", Others(c)) \o Exhausted(c) /\ Is(c, SelfExhausting)
    BY <1>17 DEF EffectsOf, Stacking, Is, FiendFire, SelfExhausting
  <2>2. /\ Others(c) \in Seq(Cards) /\ ToSet(Others(c)) = ToSet(hand) \ {c}
        /\ IsInjective(hand) => IsInjective(Others(c))
    BY OthersList
  <2>3. Each("exhaust", Others(c)) \in Seq(Effect)
    BY <2>2, EachEffects DEF CardEffects
  <2>4. Each("exhaust", Others(c)) = Each("exhaust", Others(c)) \o <<>>
    BY <2>3, ConcatEmptySeq
  <2>5. Parts(c, Others(c), <<>>, Exhausted(c))
    BY <1>7, <2>1, <2>2, <2>4 DEF Parts
  <2>. QED
    BY <2>5
<1>18. CASE k = "survivor"
  <2>1. EffectsOf(c) = Each("discard", First(DiscardChoice))
    BY <1>18 DEF EffectsOf, Stacking, Is, Survivor
  <2>2. First(DiscardChoice) \in Seq(Cards)
    BY DiscardChoiceList, FirstList
  <2>. QED
    BY <1>5, <1>8, <2>1, <2>2
<1>19. CASE k = "calculatedGamble"
  <2>1. EffectsOf(c) = (Each("discard", hand) \o Draws(Len(hand))) \o Exhausted(c) /\ Is(c, SelfExhausting)
    BY <1>19 DEF EffectsOf, Stacking, Is, CalculatedGamble, SelfExhausting
  <2>2. Passive(c, Each("discard", hand) \o Draws(Len(hand)))
    BY <1>7, <1>8, PassiveConcat
  <2>. QED
    BY <1>4, <2>1, <2>2
<1>20. CASE k \in {"havoc", "headbutt"} \cup Stacking
  <2>1. EffectsOf(c) = Called(c)
    BY <1>20 DEF EffectsOf, Is, Stacking
  <2>2. Passive(c, Called(c))
    BY <1>9, <1>20 DEF Calls
  <2>. QED
    BY <1>5, <2>1, <2>2
<1>21. CASE k \in {"strike", "defend", "apparition", "reflex", "dazed"}
  <2>1. EffectsOf(c) = <<>>
    BY <1>21 DEF EffectsOf, Is, Stacking
  <2>. QED
    BY <1>5, <1>7, <2>1
<1>22. k \in {"seeingRed", "slimed", "pommelStrike", "warcry", "exhume", "burningPact", "secondWind",
              "fiendFire", "survivor", "calculatedGamble", "havoc", "headbutt"}
       \/ k \in Stacking \/ k \in {"strike", "defend", "apparition", "reflex", "dazed"}
  BY <1>1 DEF Attacks, Skills, Powers, Statuses, Stacking
<1>. HIDE DEF k
<1>. QED
  BY <1>10, <1>11, <1>12, <1>13, <1>15, <1>16, <1>17, <1>18, <1>19, <1>20, <1>21, <1>22

\* Every card's effects, position by position.
LEMMA EffectsShape ==
    ASSUME hand \in Seq(Cards), NEW c \in Cards
    PROVE  LET m == EffectsOf(c) IN
           /\ m \in Seq(Effect)
           /\ \A i \in 1 .. Len(m) :
                 /\ m[i][1] \in {"exhaust", "draw", "discard"} \cup Calls
                 /\ m[i][1] \in Replaying => Is(c, Replaying)
                 /\ m[i][1] = "exhaust" =>
                       \/ m[i][2] \in ToSet(hand) \ {c} /\ \A j \in 1 .. i - 1 : Quiet(m[j])
                       \/ m[i][2] = c /\ i = Len(m) /\ Is(c, SelfExhausting)
           /\ IsInjective(hand) => \A i, j \in 1 .. Len(m) :
                 m[i][1] = "exhaust" /\ m[j][1] = "exhaust" /\ m[i][2] = m[j][2] => i = j
<1>. DEFINE m == EffectsOf(c)
<1>1. PICK cs, rest, own : Parts(c, cs, rest, own)
  BY EffectsParts
<1>. DEFINE first == Each("exhaust", cs)
            x == Len(cs)
            y == Len(rest)
            z == Len(own)
<1>2. /\ m = (first \o rest) \o own
      /\ cs \in Seq(Cards) /\ ToSet(cs) \subseteq ToSet(hand) \ {c}
      /\ IsInjective(hand) => IsInjective(cs)
      /\ rest \in Seq(Effect)
      /\ \A i \in 1 .. y : /\ rest[i][1] \in {"draw", "discard"} \cup Calls
                           /\ rest[i][1] \in Replaying => Is(c, Replaying)
      /\ own = <<>> \/ (own = Exhausted(c) /\ Is(c, SelfExhausting))
  BY <1>1 DEF Parts, Passive
<1>3. /\ first \in Seq(Effect) /\ Len(first) = x
      /\ \A i \in 1 .. x : first[i] = <<"exhaust", cs[i]>>
  BY <1>2, EachEffects DEF CardEffects
<1>4. /\ own \in Seq(Effect)
      /\ \A i \in 1 .. z : i = 1 /\ z = 1 /\ own[i] = <<"exhaust", c>> /\ Is(c, SelfExhausting)
  <2>1. CASE own = <<>>
    <3>1. own \in Seq(Effect) /\ z = 0
      BY <2>1, EmptySeq
    <3>2. \A i \in 1 .. z : FALSE
      BY <3>1
    <3>. QED
      BY <3>1, <3>2
  <2>2. CASE own = Exhausted(c) /\ Is(c, SelfExhausting)
    <3>1. own \in Seq(Effect)
      BY <2>2, CardEffectList DEF Exhausted, CardEffects
    <3>2. z = 1 /\ own[1] = <<"exhaust", c>>
      BY <2>2 DEF Exhausted
    <3>3. \A i \in 1 .. z : i = 1
      BY <3>2
    <3>. QED
      BY <2>2, <3>1, <3>2, <3>3
  <2>. QED
    BY <1>2, <2>1, <2>2
<1>5. x \in Nat /\ y \in Nat /\ z \in Nat
  BY <1>2, <1>4, LenProperties
<1>6. /\ first \o rest \in Seq(Effect) /\ Len(first \o rest) = x + y
      /\ \A i \in 1 .. x + y : (first \o rest)[i] = IF i <= x THEN first[i] ELSE rest[i - x]
  <2>. HIDE DEF first, m
  <2>1. /\ first \o rest \in Seq(Effect) /\ Len(first \o rest) = Len(first) + Len(rest)
        /\ \A i \in 1 .. Len(first) + Len(rest) :
              (first \o rest)[i] = IF i <= Len(first) THEN first[i] ELSE rest[i - Len(first)]
    BY <1>2, <1>3, ConcatProperties
  <2>. QED
    BY <1>3, <2>1
<1>7. /\ m \in Seq(Effect) /\ Len(m) = (x + y) + z
      /\ \A i \in 1 .. (x + y) + z : m[i] = IF i <= x + y THEN (first \o rest)[i] ELSE own[i - (x + y)]
  <2>. DEFINE both == first \o rest
  <2>. HIDE DEF both, m
  <2>0. both \in Seq(Effect) /\ Len(both) = x + y
    BY <1>6 DEF both
  <2>1. /\ both \o own \in Seq(Effect) /\ Len(both \o own) = Len(both) + Len(own)
        /\ \A i \in 1 .. Len(both) + Len(own) :
              (both \o own)[i] = IF i <= Len(both) THEN both[i] ELSE own[i - Len(both)]
    BY <1>4, <2>0, ConcatProperties
  <2>2. m = both \o own
    BY <1>2 DEF both
  <2>. QED
    BY <2>0, <2>1, <2>2 DEF both
<1>. HIDE DEF m, first, x, y, z
<1>8. ASSUME NEW i \in 1 .. x PROVE i \in 1 .. Len(m) /\ m[i] = <<"exhaust", cs[i]>>
  <2>1. i \in 1 .. x + y /\ i <= x + y /\ i <= x /\ i \in 1 .. (x + y) + z
    BY <1>5
  <2>. QED
    BY <1>3, <1>6, <1>7, <2>1
<1>9. ASSUME NEW i \in x + 1 .. x + y PROVE m[i] = rest[i - x] /\ i - x \in 1 .. y
  <2>1. i \in 1 .. x + y /\ i <= x + y /\ ~(i <= x) /\ i \in 1 .. (x + y) + z /\ i - x \in 1 .. y
    BY <1>5
  <2>. QED
    BY <1>6, <1>7, <2>1
<1>10. ASSUME NEW i \in x + y + 1 .. x + y + z
       PROVE  m[i] = <<"exhaust", c>> /\ Is(c, SelfExhausting) /\ i = Len(m)
  <2>1. ~(i <= x + y) /\ i \in 1 .. (x + y) + z /\ i - (x + y) \in 1 .. z
    BY <1>5
  <2>2. m[i] = own[i - (x + y)]
    BY <1>7, <2>1
  <2>3. i - (x + y) = 1 /\ z = 1 /\ own[i - (x + y)] = <<"exhaust", c>> /\ Is(c, SelfExhausting)
    BY <1>4, <2>1
  <2>. QED
    BY <1>5, <1>7, <2>2, <2>3
<1>11. \A i \in 1 .. Len(m) : i \in 1 .. x \/ i \in x + 1 .. x + y \/ i \in x + y + 1 .. x + y + z
  BY <1>5, <1>7
<1>12. \A i \in 1 .. x : cs[i] \in ToSet(hand) \ {c}
  BY <1>2, Elements DEF x
<1>13. \A d \in {"draw", "discard"} \cup Calls : d # "exhaust"
  BY DEF Calls, Stacking
<1>14. \A i \in x + 1 .. x + y : /\ m[i][1] \in {"draw", "discard"} \cup Calls /\ m[i][1] # "exhaust"
                                 /\ m[i][1] \in Replaying => Is(c, Replaying)
  BY <1>2, <1>9, <1>13
<1>15. ASSUME NEW i \in 1 .. Len(m)
       PROVE  /\ m[i][1] \in {"exhaust", "draw", "discard"} \cup Calls
              /\ m[i][1] \in Replaying => Is(c, Replaying)
              /\ m[i][1] = "exhaust" =>
                    \/ m[i][2] \in ToSet(hand) \ {c} /\ \A j \in 1 .. i - 1 : Quiet(m[j])
                    \/ m[i][2] = c /\ i = Len(m) /\ Is(c, SelfExhausting)
  <2>1. CASE i \in 1 .. x
    <3>1. \A j \in 1 .. i - 1 : j \in 1 .. x
      BY <1>5, <2>1
    <3>2. \A j \in 1 .. i - 1 : m[j][1] = "exhaust"
      BY <1>8, <3>1
    <3>3. m[i][1] = "exhaust" /\ m[i][2] = cs[i]
      BY <1>8, <2>1
    <3>. QED
      BY <1>12, <2>1, <3>2, <3>3 DEF Quiet, Replaying
  <2>2. CASE i \in x + 1 .. x + y
    BY <1>14, <2>2
  <2>3. CASE i \in x + y + 1 .. x + y + z
    BY <1>10, <2>3 DEF Replaying
  <2>. QED
    BY <1>11, <2>1, <2>2, <2>3
<1>16. ASSUME IsInjective(hand), NEW i \in 1 .. Len(m), NEW j \in 1 .. Len(m),
              m[i][1] = "exhaust", m[j][1] = "exhaust", m[i][2] = m[j][2]
       PROVE  i = j
  <2>1. \A k \in 1 .. Len(m) : m[k][1] = "exhaust" =>
            (k \in 1 .. x /\ m[k][2] = cs[k]) \/ (k = Len(m) /\ m[k][2] = c)
    BY <1>8, <1>10, <1>11, <1>14
  <2>2. \A k, l \in 1 .. x : cs[k] = cs[l] => k = l
    BY <1>2, <1>16, NoRepeats DEF x
  <2>3. \A k \in 1 .. x : cs[k] # c
    BY <1>12
  <2>. QED
    BY <1>16, <2>1, <2>2, <2>3
<1>. QED
  BY <1>7, <1>15, <1>16 DEF m

OnlyDraws(m) == m \in Seq(Effect) /\ \A i \in 1 .. Len(m) : m[i][1] = "draw"

LEMMA OnlyDrawsLists ==
    /\ OnlyDraws(<<>>)
    /\ \A n \in Nat : OnlyDraws(Draws(n))
    /\ \A a, b : OnlyDraws(a) /\ OnlyDraws(b) => OnlyDraws(a \o b)
<1>1. OnlyDraws(<<>>)
  <2>1. <<>> \in Seq(Effect) /\ Len(<<>>) = 0
    BY EmptySeq
  <2>2. \A i \in 1 .. Len(<<>>) : FALSE
    BY <2>1
  <2>. QED
    BY <2>1, <2>2 DEF OnlyDraws
<1>2. ASSUME NEW n \in Nat PROVE OnlyDraws(Draws(n))
  <2>1. Draws(n) \in Seq(Effect) /\ Len(Draws(n)) = 1 /\ Draws(n)[1] = <<"draw", n>>
    BY DrawsList
  <2>2. \A i \in 1 .. Len(Draws(n)) : Draws(n)[i] = <<"draw", n>>
    BY <2>1
  <2>. QED
    BY <2>1, <2>2 DEF OnlyDraws
<1>3. ASSUME NEW a, NEW b, OnlyDraws(a), OnlyDraws(b) PROVE OnlyDraws(a \o b)
  <2>1. a \in Seq(Effect) /\ b \in Seq(Effect) /\ Len(a) \in Nat /\ Len(b) \in Nat
    BY <1>3, LenProperties DEF OnlyDraws
  <2>2. /\ a \o b \in Seq(Effect) /\ Len(a \o b) = Len(a) + Len(b)
        /\ \A i \in 1 .. Len(a) + Len(b) : (a \o b)[i] = IF i <= Len(a) THEN a[i] ELSE b[i - Len(a)]
    BY <2>1, ConcatProperties
  <2>3. ASSUME NEW i \in 1 .. Len(a) + Len(b) PROVE (a \o b)[i][1] = "draw"
    <3>1. CASE i <= Len(a)
      <4>1. i \in 1 .. Len(a) /\ (a \o b)[i] = a[i]
        BY <2>1, <2>2, <3>1
      <4>. QED
        BY <1>3, <4>1 DEF OnlyDraws
    <3>2. CASE ~(i <= Len(a))
      <4>1. i - Len(a) \in 1 .. Len(b) /\ (a \o b)[i] = b[i - Len(a)]
        BY <2>1, <2>2, <3>2
      <4>. QED
        BY <1>3, <4>1 DEF OnlyDraws
    <3>. QED
      BY <3>1, <3>2
  <2>. QED
    BY <2>2, <2>3 DEF OnlyDraws
<1>. QED
  BY <1>1, <1>2, <1>3

\* What a card's arrival calls for.
LEMMA Hooks ==
    ASSUME powers \in [Stacking -> 0 .. MaxStacks]
    PROVE  OnlyDraws(OnExhaust) /\ \A c : OnlyDraws(OnDraw(c))
<1>1. powers["darkEmbrace"] \in Nat /\ powers["evolve"] \in Nat
  <2>1. "darkEmbrace" \in Stacking /\ "evolve" \in Stacking /\ MaxStacks \in Nat
    BY ConstantsAssumption DEF Stacking
  <2>. QED
    BY <2>1
<1>. QED
  BY <1>1, OnlyDrawsLists DEF OnExhaust, OnDraw

\* The effect at the head, and its card.
LEMMA RunningEffect ==
    ASSUME todo \in Seq(Effect), NEW name, Running(name)
    PROVE  /\ todo # <<>> /\ todo[1] \in Effect /\ todo[1][1] = name /\ Arg = todo[1][2]
           /\ name \in CardEffects => Arg \in Cards
           /\ name = "draw" => Arg \in Nat
<1>1. todo # <<>> /\ Head(todo) = todo[1] /\ todo[1][1] = name /\ Arg = todo[1][2]
  BY DEF Running, Arg
<1>2. todo[1] \in Effect
  BY <1>1, HeadTailProperties
<1>. QED
  BY <1>1, <1>2, EffectKinds

-----------------------------------------------------------------------------
(* What each effect does to the piles *)

\* Cards change places: none comes and none goes.
Moved ==
    /\ PilesTyped' /\ Placed' = Placed
    /\ Apart => Apart'

LEMMA Unmoved ==
    ASSUME PilesTyped, UNCHANGED <<draw, hand, discard, exhaust>>
    PROVE  Moved /\ ToSet(hand)' = ToSet(hand) /\ ToSet(exhaust)' = ToSet(exhaust) /\ Len(hand)' = Len(hand)
BY DEF PilesTyped, Moved, Placed, Apart

LEMMA DrawOneMoves ==
    ASSUME TypeInv, DrawOne
    PROVE  /\ Moved /\ ToSet(hand) \subseteq ToSet(hand)' /\ ToSet(exhaust)' = ToSet(exhaust)
           /\ Len(hand)' <= HandLimit
           /\ \E more : OnlyDraws(more) /\ Then(more)
<1>1. PilesTyped /\ powers \in [Stacking -> 0 .. MaxStacks] /\ todo \in Seq(Effect)
  BY DEF TypeInv
<1>2. Running("draw") /\ ~DrawIsOver /\ exhaust' = exhaust
      /\ discard' = IF draw # <<>> THEN discard ELSE <<>>
  BY DEF DrawOne
<1>3. PICK pile \in (IF draw # <<>> THEN {draw} ELSE Orders(discard)) :
          /\ draw' = Front(pile)
          /\ hand' = Append(hand, Last(pile))
          /\ Then(OnDraw(Last(pile)) \o Draws(Arg - 1))
  BY DEF DrawOne
<1>. DEFINE x == Last(pile)
<1>4. Arg \in Nat /\ Arg # 0
  BY <1>1, <1>2, RunningEffect DEF DrawIsOver
<1>5. OnlyDraws(OnDraw(x) \o Draws(Arg - 1))
  <2>1. Arg - 1 \in Nat
    BY <1>4
  <2>. QED
    BY <1>1, <2>1, Hooks, OnlyDrawsLists
<1>6. Len(hand) \in Nat /\ HandLimit \in Nat /\ Len(hand) < HandLimit
  BY <1>1, <1>2, LenProperties, ConstantsAssumption DEF PilesTyped, DrawIsOver
<1>7. /\ pile \in Seq(Cards) /\ pile # <<>>
      /\ ToSet(pile) \cup ToSet(discard') = ToSet(draw) \cup ToSet(discard)
      /\ discard' \in Seq(Cards)
      /\ Apart => IsInjective(pile) /\ IsInjective(discard') /\ ToSet(pile) \cap ToSet(discard') = {}
  <2>1. CASE draw # <<>>
    BY <1>1, <1>2, <1>3, <2>1 DEF PilesTyped, Apart
  <2>2. CASE draw = <<>>
    <3>1. pile \in Orders(discard) /\ discard' = <<>>
      BY <1>2, <1>3, <2>2
    <3>2. /\ pile \in Seq(Cards) /\ Len(pile) = Len(discard) /\ ToSet(pile) = ToSet(discard)
          /\ IsInjective(discard) => IsInjective(pile)
      BY <1>1, <3>1, OrdersList DEF PilesTyped
    <3>3. discard # <<>>
      BY <1>2, <2>2 DEF DrawIsOver
    <3>4. pile # <<>>
      BY <1>1, <3>2, <3>3, EmptySeq DEF PilesTyped
    <3>5. ToSet(draw) = {} /\ ToSet(discard') = {} /\ discard' \in Seq(Cards) /\ IsInjective(discard')
      BY <2>2, <3>1, None
    <3>. QED
      BY <3>2, <3>4, <3>5 DEF Apart
  <2>. QED
    BY <2>1, <2>2
<1>8. /\ Front(pile) \in Seq(Cards) /\ x \in ToSet(pile) /\ x \in Cards
      /\ ToSet(pile) = ToSet(Front(pile)) \cup {x}
      /\ IsInjective(pile) => IsInjective(Front(pile)) /\ x \notin ToSet(Front(pile))
  BY <1>7, FrontList, Elements
<1>9. /\ hand' \in Seq(Cards) /\ Len(hand') = Len(hand) + 1 /\ ToSet(hand') = ToSet(hand) \cup {x}
      /\ IsInjective(hand) /\ x \notin ToSet(hand) => IsInjective(hand')
  BY <1>1, <1>3, <1>8, AppendList DEF PilesTyped
<1>. HIDE DEF x
<1>10. PilesTyped'
  BY <1>1, <1>2, <1>3, <1>7, <1>8, <1>9 DEF PilesTyped
<1>11. Placed' = Placed
  BY <1>2, <1>3, <1>7, <1>8, <1>9 DEF Placed
<1>12. ASSUME Apart PROVE Apart'
  <2>1. x \in ToSet(draw) \cup ToSet(discard) /\ x \notin ToSet(hand) /\ x \notin ToSet(exhaust)
    BY <1>7, <1>8, <1>12 DEF Apart
  <2>2. ToSet(draw)' = ToSet(Front(pile)) /\ ToSet(hand)' = ToSet(hand) \cup {x} /\ ToSet(exhaust)' = ToSet(exhaust)
    BY <1>2, <1>3, <1>9
  <2>3. IsInjective(draw)' /\ IsInjective(hand)' /\ IsInjective(discard)' /\ IsInjective(exhaust)'
    BY <1>2, <1>3, <1>7, <1>8, <1>9, <1>12, <2>1 DEF Apart
  <2>4. x \notin ToSet(Front(pile)) /\ x \notin ToSet(discard')
    BY <1>7, <1>8, <1>12
  <2>. QED
    BY <1>7, <1>8, <1>12, <2>1, <2>2, <2>3, <2>4 DEF Apart
<1>13. Len(hand)' <= HandLimit
  BY <1>6, <1>9
<1>. QED
  BY <1>2, <1>3, <1>5, <1>9, <1>10, <1>11, <1>12, <1>13 DEF Moved, x

\* A card is put into a pile.
Added(x) ==
    /\ PilesTyped' /\ Placed' = Placed \cup {x}
    /\ Apart /\ x \notin Placed => Apart'

\* A card is put into a pile, out of the hand if it is there.
Put(x) ==
    /\ Added(x)
    /\ Apart /\ x \in ToSet(hand) => Apart'

\* A card is taken out of its pile.
Taken(x) ==
    /\ PilesTyped' /\ x \in Placed /\ x \in Cards
    /\ Placed \subseteq Placed' \cup {x} /\ Placed' \subseteq Placed
    /\ Apart => Apart' /\ x \notin Placed'

\* A card leaves the hand for the exhaust or the discard pile.
LEMMA HandGives ==
    ASSUME PilesTyped, NEW x \in Cards, hand' = RemoveFirst(hand, x), draw' = draw,
           \/ exhaust' = Append(exhaust, x) /\ discard' = discard
           \/ discard' = Append(discard, x) /\ exhaust' = exhaust
    PROVE  /\ Put(x) /\ Len(hand)' <= Len(hand)
           /\ ToSet(hand)' \subseteq ToSet(hand) /\ ToSet(hand) \subseteq ToSet(hand)' \cup {x}
<1>1. /\ hand' \in Seq(Cards) /\ Len(hand') <= Len(hand)
      /\ ToSet(hand') \subseteq ToSet(hand) /\ ToSet(hand) \subseteq ToSet(hand') \cup {x}
      /\ IsInjective(hand) => IsInjective(hand') /\ x \notin ToSet(hand')
  BY RemoveFirstList DEF PilesTyped
<1>2. CASE exhaust' = Append(exhaust, x) /\ discard' = discard
  <2>1. /\ exhaust' \in Seq(Cards) /\ ToSet(exhaust') = ToSet(exhaust) \cup {x}
        /\ IsInjective(exhaust) /\ x \notin ToSet(exhaust) => IsInjective(exhaust')
    BY <1>2, AppendList DEF PilesTyped
  <2>2. PilesTyped' /\ Placed' = Placed \cup {x}
    BY <1>1, <1>2, <2>1 DEF PilesTyped, Placed
  <2>3. ASSUME Apart, x \notin Placed \/ x \in ToSet(hand) PROVE Apart'
    <3>1. x \notin ToSet(draw) /\ x \notin ToSet(discard) /\ x \notin ToSet(exhaust)
      BY <2>3 DEF Apart, Placed
    <3>2. IsInjective(draw)' /\ IsInjective(hand)' /\ IsInjective(discard)' /\ IsInjective(exhaust)'
      BY <1>1, <1>2, <2>1, <2>3, <3>1 DEF Apart
    <3>. QED
      BY <1>1, <1>2, <2>1, <2>3, <3>1, <3>2 DEF Apart
  <2>. QED
    BY <1>1, <2>2, <2>3 DEF Put, Added
<1>3. CASE discard' = Append(discard, x) /\ exhaust' = exhaust
  <2>1. /\ discard' \in Seq(Cards) /\ ToSet(discard') = ToSet(discard) \cup {x}
        /\ IsInjective(discard) /\ x \notin ToSet(discard) => IsInjective(discard')
    BY <1>3, AppendList DEF PilesTyped
  <2>2. PilesTyped' /\ Placed' = Placed \cup {x}
    BY <1>1, <1>3, <2>1 DEF PilesTyped, Placed
  <2>3. ASSUME Apart, x \notin Placed \/ x \in ToSet(hand) PROVE Apart'
    <3>1. x \notin ToSet(draw) /\ x \notin ToSet(discard) /\ x \notin ToSet(exhaust)
      BY <2>3 DEF Apart, Placed
    <3>2. IsInjective(draw)' /\ IsInjective(hand)' /\ IsInjective(discard)' /\ IsInjective(exhaust)'
      BY <1>1, <1>3, <2>1, <2>3, <3>1 DEF Apart
    <3>. QED
      BY <1>1, <1>3, <2>1, <2>3, <3>1, <3>2 DEF Apart
  <2>. QED
    BY <1>1, <2>2, <2>3 DEF Put, Added
<1>. QED
  BY <1>2, <1>3

LEMMA ExhaustCardMoves ==
    ASSUME TypeInv, ExhaustCard
    PROVE  /\ Arg \in Cards /\ Put(Arg) /\ Len(hand)' <= Len(hand)
           /\ ToSet(hand)' \subseteq ToSet(hand) /\ ToSet(hand) \subseteq ToSet(hand)' \cup {Arg}
           /\ ToSet(exhaust)' = ToSet(exhaust) \cup {Arg}
           /\ \E more : OnlyDraws(more) /\ Then(more)
<1>1. PilesTyped /\ powers \in [Stacking -> 0 .. MaxStacks] /\ todo \in Seq(Effect)
  BY DEF TypeInv
<1>2. Running("exhaust") /\ hand' = RemoveFirst(hand, Arg) /\ exhaust' = Append(exhaust, Arg)
      /\ Then(OnExhaust) /\ draw' = draw /\ discard' = discard
  BY DEF ExhaustCard
<1>3. Arg \in Cards
  BY <1>1, <1>2, RunningEffect DEF CardEffects
<1>4. ToSet(exhaust)' = ToSet(exhaust) \cup {Arg}
  <2>1. ToSet(Append(exhaust, Arg)) = ToSet(exhaust) \cup {Arg}
    BY <1>1, <1>3, AppendList DEF PilesTyped
  <2>. QED
    BY <1>2, <2>1
<1>5. OnlyDraws(OnExhaust)
  BY <1>1, Hooks
<1>6. /\ Put(Arg) /\ Len(hand)' <= Len(hand)
      /\ ToSet(hand)' \subseteq ToSet(hand) /\ ToSet(hand) \subseteq ToSet(hand)' \cup {Arg}
  <2>. DEFINE x == Arg
  <2>1. x \in Cards /\ hand' = RemoveFirst(hand, x) /\ exhaust' = Append(exhaust, x)
    BY <1>2, <1>3
  <2>. HIDE DEF x
  <2>2. /\ Put(x) /\ Len(hand)' <= Len(hand)
        /\ ToSet(hand)' \subseteq ToSet(hand) /\ ToSet(hand) \subseteq ToSet(hand)' \cup {x}
    BY <1>1, <1>2, <2>1, HandGives
  <2>. QED
    BY <2>2 DEF x
<1>. QED
  BY <1>2, <1>3, <1>4, <1>5, <1>6

LEMMA LeaveMoves ==
    ASSUME TypeInv, Leave
    PROVE  /\ Arg \in Cards /\ Put(Arg) /\ Len(hand)' <= Len(hand)
           /\ ToSet(hand)' \subseteq ToSet(hand) /\ ToSet(hand) \subseteq ToSet(hand)' \cup {Arg}
           /\ ToSet(exhaust) \subseteq ToSet(exhaust)'
           /\ \E more : OnlyDraws(more) /\ Then(more)
<1>1. PilesTyped /\ powers \in [Stacking -> 0 .. MaxStacks] /\ todo \in Seq(Effect)
  BY DEF TypeInv
<1>2. /\ Running("leave") /\ hand' = RemoveFirst(hand, Arg) /\ draw' = draw
      /\ \/ exhaust' = Append(exhaust, Arg) /\ discard' = discard /\ Then(OnExhaust)
         \/ discard' = Append(discard, Arg) /\ exhaust' = exhaust /\ Then(<<>>)
  BY DEF Leave
<1>. DEFINE x == Arg
<1>3. x \in Cards
  BY <1>1, <1>2, RunningEffect DEF CardEffects
<1>4. /\ hand' = RemoveFirst(hand, x)
      /\ \/ exhaust' = Append(exhaust, x) /\ discard' = discard
         \/ discard' = Append(discard, x) /\ exhaust' = exhaust
  BY <1>2
<1>5. \E more : OnlyDraws(more) /\ Then(more)
  BY <1>1, <1>2, Hooks, OnlyDrawsLists
<1>. HIDE DEF x
<1>6. /\ Put(x) /\ Len(hand)' <= Len(hand)
      /\ ToSet(hand)' \subseteq ToSet(hand) /\ ToSet(hand) \subseteq ToSet(hand)' \cup {x}
  BY <1>1, <1>2, <1>3, <1>4, HandGives
<1>7. ToSet(exhaust) \subseteq ToSet(exhaust)'
  <2>1. ToSet(Append(exhaust, x)) = ToSet(exhaust) \cup {x}
    BY <1>1, <1>3, AppendList DEF PilesTyped
  <2>. QED
    BY <1>4, <2>1
<1>. QED
  BY <1>3, <1>5, <1>6, <1>7 DEF x

LEMMA DiscardMoves ==
    ASSUME TypeInv, DiscardFromHand
    PROVE  /\ Moved /\ Len(hand)' <= Len(hand) /\ ToSet(exhaust)' = ToSet(exhaust)
           /\ \E more : OnlyDraws(more) /\ Then(more)
<1>1. PilesTyped /\ todo \in Seq(Effect)
  BY DEF TypeInv
<1>2. Running("discard") /\ draw' = draw /\ exhaust' = exhaust
  BY DEF DiscardFromHand
<1>. DEFINE x == Arg
<1>3. x \in Cards
  BY <1>1, <1>2, RunningEffect DEF CardEffects
<1>4. CASE Contains(hand, Arg)
  <2>1. hand' = RemoveFirst(hand, x) /\ discard' = Append(discard, x)
        /\ \E more : OnlyDraws(more) /\ Then(more)
    BY <1>4, OnlyDrawsLists DEF DiscardFromHand
  <2>2. x \in ToSet(hand)
    BY <1>1, <1>4, Elements DEF Contains, PilesTyped
  <2>. HIDE DEF x
  <2>3. Put(x) /\ Len(hand)' <= Len(hand)
    BY <1>1, <1>2, <1>3, <2>1, HandGives
  <2>4. Moved
    BY <2>2, <2>3 DEF Put, Added, Moved, Placed
  <2>. QED
    BY <1>2, <2>1, <2>3, <2>4
<1>5. CASE ~Contains(hand, Arg)
  <2>1. hand' = hand /\ discard' = discard /\ \E more : OnlyDraws(more) /\ Then(more)
    BY <1>5, OnlyDrawsLists DEF DiscardFromHand
  <2>2. Len(hand)' <= Len(hand)
    BY <1>1, <2>1, LenProperties DEF PilesTyped
  <2>. QED
    BY <1>1, <1>2, <2>1, <2>2, Unmoved
<1>. QED
  BY <1>4, <1>5

\* Havoc with a draw pile to take from.
LEMMA HavocMoves ==
    ASSUME TypeInv, Havoc, draw # <<>>
    PROVE  /\ Taken(Last(draw)) /\ hand' = hand /\ exhaust' = exhaust
           /\ Then(<<<<"play", Last(draw)>>, <<"exhaust", Last(draw)>>>>)
<1>. DEFINE x == Last(draw)
<1>1. PilesTyped
  BY DEF TypeInv
<1>2. /\ draw' = Front(draw) /\ hand' = hand /\ discard' = discard /\ exhaust' = exhaust
      /\ Then(<<<<"play", x>>, <<"exhaust", x>>>>)
  BY DEF Havoc
<1>3. /\ Front(draw) \in Seq(Cards) /\ x \in ToSet(draw) /\ x \in Cards
      /\ ToSet(draw) = ToSet(Front(draw)) \cup {x}
      /\ IsInjective(draw) => IsInjective(Front(draw)) /\ x \notin ToSet(Front(draw))
  BY <1>1, FrontList, Elements DEF PilesTyped
<1>. HIDE DEF x
<1>4. PilesTyped' /\ x \in Placed /\ Placed \subseteq Placed' \cup {x} /\ Placed' \subseteq Placed
  BY <1>1, <1>2, <1>3 DEF PilesTyped, Placed
<1>5. Apart => Apart' /\ x \notin Placed'
  BY <1>2, <1>3 DEF Apart, Placed
<1>. QED
  BY <1>2, <1>3, <1>4, <1>5 DEF Taken, x

\* A card is played: it leaves the hand.
LEMMA PlayCardMoves ==
    ASSUME TypeInv, NEW c \in Cards, PlayCard(c)
    PROVE  /\ Taken(c) /\ Len(hand)' <= Len(hand) /\ exhaust' = exhaust
<1>1. PilesTyped
  BY DEF TypeInv
<1>2. /\ hand' = RemoveFirst(hand, c) /\ draw' = draw /\ discard' = discard /\ exhaust' = exhaust
      /\ Contains(hand, c)
  BY DEF PlayCard
<1>3. c \in ToSet(hand)
  BY <1>1, <1>2, Elements DEF Contains, PilesTyped
<1>4. /\ hand' \in Seq(Cards) /\ Len(hand') <= Len(hand)
      /\ ToSet(hand') \subseteq ToSet(hand) /\ ToSet(hand) \subseteq ToSet(hand') \cup {c}
      /\ IsInjective(hand) => IsInjective(hand') /\ c \notin ToSet(hand')
  BY <1>1, <1>2, RemoveFirstList DEF PilesTyped
<1>5. PilesTyped' /\ c \in Placed /\ Placed \subseteq Placed' \cup {c} /\ Placed' \subseteq Placed
  BY <1>1, <1>2, <1>3, <1>4 DEF PilesTyped, Placed
<1>6. Apart => Apart' /\ c \notin Placed'
  BY <1>2, <1>3, <1>4 DEF Apart, Placed
<1>. QED
  BY <1>2, <1>4, <1>5, <1>6 DEF Taken

LEMMA HeadbuttMoves ==
    ASSUME TypeInv, Headbutt
    PROVE  Moved /\ hand' = hand /\ exhaust' = exhaust /\ Then(<<>>)
<1>1. PilesTyped
  BY DEF TypeInv
<1>2. hand' = hand /\ exhaust' = exhaust /\ Then(<<>>)
  BY DEF Headbutt
<1>3. CASE discard = <<>>
  BY <1>1, <1>2, <1>3, Unmoved DEF Headbutt
<1>4. CASE discard # <<>>
  <2>. DEFINE x == Last(discard)
  <2>1. draw' = Append(draw, x) /\ discard' = Front(discard)
    BY <1>4 DEF Headbutt
  <2>2. /\ Front(discard) \in Seq(Cards) /\ x \in ToSet(discard) /\ x \in Cards
        /\ ToSet(discard) = ToSet(Front(discard)) \cup {x}
        /\ IsInjective(discard) => IsInjective(Front(discard)) /\ x \notin ToSet(Front(discard))
    BY <1>1, <1>4, FrontList, Elements DEF PilesTyped
  <2>. HIDE DEF x
  <2>3. /\ draw' \in Seq(Cards) /\ ToSet(draw') = ToSet(draw) \cup {x}
        /\ IsInjective(draw) /\ x \notin ToSet(draw) => IsInjective(draw')
    BY <1>1, <2>1, <2>2, AppendList DEF PilesTyped
  <2>4. PilesTyped' /\ Placed' = Placed
    BY <1>1, <1>2, <2>1, <2>2, <2>3 DEF PilesTyped, Placed
  <2>5. ASSUME Apart PROVE Apart'
    <3>1. x \notin ToSet(draw) /\ x \notin ToSet(hand) /\ x \notin ToSet(exhaust)
      BY <2>2, <2>5 DEF Apart
    <3>. QED
      BY <1>2, <2>1, <2>2, <2>3, <2>5, <3>1 DEF Apart
  <2>. QED
    BY <1>2, <2>4, <2>5 DEF Moved
<1>. QED
  BY <1>3, <1>4

LEMMA WarcryMoves ==
    ASSUME TypeInv, Warcry
    PROVE  Moved /\ Len(hand)' <= Len(hand) /\ exhaust' = exhaust /\ Then(<<>>)
<1>1. PilesTyped /\ Len(hand) \in Nat
  BY LenProperties DEF TypeInv, PilesTyped
<1>2. discard' = discard /\ exhaust' = exhaust /\ Then(<<>>)
  BY DEF Warcry
<1>3. CASE hand = <<>>
  BY <1>1, <1>2, <1>3, Unmoved DEF Warcry
<1>4. CASE hand # <<>>
  <2>. DEFINE x == Last(hand)
  <2>1. draw' = Append(draw, x) /\ hand' = RemoveFirst(hand, x)
    BY <1>4 DEF Warcry
  <2>2. x \in ToSet(hand) /\ x \in Cards
    BY <1>1, <1>4, FrontList, Elements DEF PilesTyped
  <2>. HIDE DEF x
  <2>3. /\ hand' \in Seq(Cards) /\ Len(hand') <= Len(hand)
        /\ ToSet(hand') \subseteq ToSet(hand) /\ ToSet(hand) \subseteq ToSet(hand') \cup {x}
        /\ IsInjective(hand) => IsInjective(hand') /\ x \notin ToSet(hand')
    BY <1>1, <2>1, RemoveFirstList DEF PilesTyped
  <2>4. /\ draw' \in Seq(Cards) /\ ToSet(draw') = ToSet(draw) \cup {x}
        /\ IsInjective(draw) /\ x \notin ToSet(draw) => IsInjective(draw')
    BY <1>1, <2>1, <2>2, AppendList DEF PilesTyped
  <2>5. PilesTyped' /\ Placed' = Placed
    BY <1>1, <1>2, <2>2, <2>3, <2>4 DEF PilesTyped, Placed
  <2>6. ASSUME Apart PROVE Apart'
    <3>1. x \notin ToSet(draw) /\ x \notin ToSet(discard) /\ x \notin ToSet(exhaust)
      BY <2>2, <2>6 DEF Apart
    <3>. QED
      BY <1>2, <2>2, <2>3, <2>4, <2>6, <3>1 DEF Apart
  <2>. QED
    BY <1>2, <2>3, <2>5, <2>6 DEF Moved
<1>. QED
  BY <1>3, <1>4

LEMMA ExhumeMoves ==
    ASSUME TypeInv, Exhume
    PROVE  /\ Moved /\ ToSet(hand) \subseteq ToSet(hand)' /\ Then(<<>>)
           /\ Len(hand) <= HandLimit => Len(hand)' <= HandLimit
<1>. DEFINE I == {j \in 1 .. Len(exhaust) : ~Is(exhaust[j], {"exhume"})}
            i == SelectLastInSeq(exhaust, LAMBDA d : ~Is(d, {"exhume"}))
<1>1. PilesTyped /\ Len(hand) \in Nat /\ Len(exhaust) \in Nat /\ HandLimit \in Nat
  BY LenProperties, ConstantsAssumption DEF TypeInv, PilesTyped
<1>2. draw' = draw /\ Then(<<>>)
  BY DEF Exhume
<1>3. i = 0 \/ (i = Max(I) /\ I # {})
  BY DEF SelectLastInSeq
<1>4. I # {} => Max(I) \in I
  BY <1>1, LastPosition
<1>5. i = 0 \/ (i \in 1 .. Len(exhaust) /\ i # 0)
  <2>. HIDE DEF i
  <2>. QED
    BY <1>1, <1>3, <1>4
<1>6. \/ i = 0 /\ UNCHANGED <<hand, discard, exhaust>>
      \/ /\ i # 0 /\ exhaust' = RemoveAt(exhaust, i)
         /\ \/ Len(hand) < HandLimit /\ hand' = Append(hand, exhaust[i]) /\ discard' = discard
            \/ discard' = Append(discard, exhaust[i]) /\ hand' = hand
  BY DEF Exhume
<1>. HIDE DEF i, I
<1>7. CASE i = 0
  BY <1>1, <1>2, <1>6, <1>7, Unmoved
<1>8. CASE i # 0
  <2>. DEFINE x == exhaust[i]
  <2>1. i \in 1 .. Len(exhaust) /\ x \in ToSet(exhaust) /\ x \in Cards
    BY <1>1, <1>5, <1>8, Elements DEF PilesTyped
  <2>2. exhaust' = RemoveAt(exhaust, i)
    BY <1>6, <1>8
  <2>3. /\ exhaust' \in Seq(Cards)
        /\ ToSet(exhaust') \subseteq ToSet(exhaust) /\ ToSet(exhaust) \subseteq ToSet(exhaust') \cup {x}
        /\ IsInjective(exhaust) => IsInjective(exhaust') /\ x \notin ToSet(exhaust')
    BY <1>1, <2>1, <2>2, RemoveAtList DEF PilesTyped
  <2>. HIDE DEF x
  <2>4. CASE Len(hand) < HandLimit /\ hand' = Append(hand, x) /\ discard' = discard
    <3>1. /\ hand' \in Seq(Cards) /\ ToSet(hand') = ToSet(hand) \cup {x} /\ Len(hand') = Len(hand) + 1
          /\ IsInjective(hand) /\ x \notin ToSet(hand) => IsInjective(hand')
      BY <1>1, <2>1, <2>4, AppendList DEF PilesTyped
    <3>2. PilesTyped' /\ Placed' = Placed
      BY <1>1, <1>2, <2>1, <2>3, <2>4, <3>1 DEF PilesTyped, Placed
    <3>3. ASSUME Apart PROVE Apart'
      <4>1. x \notin ToSet(draw) /\ x \notin ToSet(discard) /\ x \notin ToSet(hand)
        BY <2>1, <3>3 DEF Apart
      <4>. QED
        BY <1>2, <2>1, <2>3, <2>4, <3>1, <3>3, <4>1 DEF Apart
    <3>4. Len(hand)' <= HandLimit
      BY <1>1, <2>4, <3>1
    <3>. QED
      BY <1>2, <3>1, <3>2, <3>3, <3>4 DEF Moved
  <2>5. CASE discard' = Append(discard, x) /\ hand' = hand
    <3>1. /\ discard' \in Seq(Cards) /\ ToSet(discard') = ToSet(discard) \cup {x}
          /\ IsInjective(discard) /\ x \notin ToSet(discard) => IsInjective(discard')
      BY <1>1, <2>1, <2>5, AppendList DEF PilesTyped
    <3>2. PilesTyped' /\ Placed' = Placed
      BY <1>1, <1>2, <2>1, <2>3, <2>5, <3>1 DEF PilesTyped, Placed
    <3>3. ASSUME Apart PROVE Apart'
      <4>1. x \notin ToSet(draw) /\ x \notin ToSet(discard) /\ x \notin ToSet(hand)
        BY <2>1, <3>3 DEF Apart
      <4>. QED
        BY <1>2, <2>1, <2>3, <2>5, <3>1, <3>3, <4>1 DEF Apart
    <3>. QED
      BY <1>2, <2>5, <3>2, <3>3 DEF Moved
  <2>. QED
    BY <1>6, <1>8, <2>4, <2>5 DEF x
<1>. QED
  BY <1>7, <1>8

\* After the effects of a card: what is nowhere is put on a pile, and what is
\* among the exhausted cards stays there.
LEMMA SettleMoves ==
    ASSUME TypeInv, Settle
    PROVE  /\ Arg \in Cards /\ Added(Arg)
           /\ hand' = hand /\ ToSet(exhaust) \subseteq ToSet(exhaust)'
           /\ Apart /\ Arg \in ToSet(exhaust) => Apart'
           /\ \E more : OnlyDraws(more) /\ Then(more)
<1>. DEFINE x == Arg
            exhausts == Is(Arg, Exhausting) \/ (powers["corruption"] > 0 /\ Is(Arg, Skills))
            placed == Contains(hand, Arg) \/ Contains(exhaust, Arg) \/ (~exhausts /\ Contains(discard, Arg))
<1>1. PilesTyped /\ powers \in [Stacking -> 0 .. MaxStacks] /\ todo \in Seq(Effect)
  BY DEF TypeInv
<1>2. Running("settle") /\ draw' = draw /\ hand' = hand
      /\ discard' = (IF ~exhausts /\ ~placed THEN Append(discard, x) ELSE discard)
  BY DEF Settle
<1>3. IF exhausts /\ ~placed THEN exhaust' = Append(exhaust, x) /\ Then(OnExhaust)
      ELSE Then(<<>>) /\ exhaust' = exhaust
  BY DEF Settle
<1>4. x \in Cards
  BY <1>1, <1>2, RunningEffect DEF CardEffects
<1>5. placed => x \in Placed
  BY <1>1, Elements DEF Contains, PilesTyped, Placed
<1>6. x \in ToSet(exhaust) => placed
  BY <1>1, Elements DEF Contains, PilesTyped
<1>7. \E more : OnlyDraws(more) /\ Then(more)
  BY <1>1, <1>3, Hooks, OnlyDrawsLists
<1>. HIDE DEF x, exhausts, placed
<1>8. CASE placed
  <2>1. UNCHANGED <<draw, hand, discard, exhaust>>
    BY <1>2, <1>3, <1>8
  <2>2. PilesTyped' /\ Placed' = Placed /\ (Apart => Apart') /\ ToSet(exhaust)' = ToSet(exhaust)
    BY <1>1, <2>1, Unmoved DEF Moved
  <2>3. Placed = Placed \cup {x}
    BY <1>5, <1>8
  <2>. QED
    BY <1>2, <1>4, <1>7, <2>2, <2>3 DEF x, Added
<1>9. CASE ~placed /\ exhausts
  <2>1. exhaust' = Append(exhaust, x) /\ discard' = discard
    BY <1>2, <1>3, <1>9
  <2>2. /\ exhaust' \in Seq(Cards) /\ ToSet(exhaust') = ToSet(exhaust) \cup {x}
        /\ IsInjective(exhaust) /\ x \notin ToSet(exhaust) => IsInjective(exhaust')
    BY <1>1, <1>4, <2>1, AppendList DEF PilesTyped
  <2>3. PilesTyped' /\ Placed' = Placed \cup {x}
    BY <1>1, <1>2, <2>1, <2>2 DEF PilesTyped, Placed
  <2>4. ASSUME Apart, x \notin Placed PROVE Apart'
    <3>1. x \notin ToSet(draw) /\ x \notin ToSet(hand) /\ x \notin ToSet(discard) /\ x \notin ToSet(exhaust)
      BY <2>4 DEF Placed
    <3>. QED
      BY <1>2, <2>1, <2>2, <2>4, <3>1 DEF Apart
  <2>. QED
    BY <1>2, <1>4, <1>6, <1>7, <1>9, <2>2, <2>3, <2>4 DEF x, Added
<1>10. CASE ~placed /\ ~exhausts
  <2>1. discard' = Append(discard, x) /\ exhaust' = exhaust
    BY <1>2, <1>3, <1>10
  <2>2. /\ discard' \in Seq(Cards) /\ ToSet(discard') = ToSet(discard) \cup {x}
        /\ IsInjective(discard) /\ x \notin ToSet(discard) => IsInjective(discard')
    BY <1>1, <1>4, <2>1, AppendList DEF PilesTyped
  <2>3. PilesTyped' /\ Placed' = Placed \cup {x}
    BY <1>1, <1>2, <2>1, <2>2 DEF PilesTyped, Placed
  <2>4. ASSUME Apart, x \notin Placed PROVE Apart'
    <3>1. x \notin ToSet(draw) /\ x \notin ToSet(hand) /\ x \notin ToSet(discard) /\ x \notin ToSet(exhaust)
      BY <2>4 DEF Placed
    <3>. QED
      BY <1>2, <2>1, <2>2, <2>4, <3>1 DEF Apart
  <2>. QED
    BY <1>2, <1>4, <1>6, <1>7, <1>10, <2>1, <2>3, <2>4 DEF x, Added
<1>. QED
  BY <1>8, <1>9, <1>10

\* The enemies: nothing, or a new card.
LEMMA EnemiesActMoves ==
    ASSUME TypeInv, EnemiesAct
    PROVE  /\ hand' = hand /\ exhaust' = exhaust /\ Then(<<>>)
           /\ \/ Moved /\ cards' = cards
              \/ \E c \in Created \ cards : Added(c) /\ cards' = cards \cup {c}
<1>1. PilesTyped
  BY DEF TypeInv
<1>2. hand' = hand /\ exhaust' = exhaust /\ Then(<<>>)
  BY DEF EnemiesAct
<1>3. \/ UNCHANGED <<draw, discard, cards>>
      \/ \E c \in Created \ cards :
            /\ cards' = cards \cup {c}
            /\ (draw' = <<c>> \o draw /\ discard' = discard) \/ (discard' = Append(discard, c) /\ draw' = draw)
  BY DEF EnemiesAct
<1>4. CASE UNCHANGED <<draw, discard, cards>>
  BY <1>1, <1>2, <1>4, Unmoved
<1>5. ASSUME NEW c \in Created \ cards, cards' = cards \cup {c},
             (draw' = <<c>> \o draw /\ discard' = discard) \/ (discard' = Append(discard, c) /\ draw' = draw)
      PROVE  Added(c)
  <2>1. c \in Cards
    BY DEF Created
  <2>2. CASE draw' = <<c>> \o draw /\ discard' = discard
    <3>. DEFINE one == <<c>>
    <3>1. one \in Seq(Cards) /\ ToSet(one) = {c} /\ IsInjective(one)
      BY <2>1, Single
    <3>2. draw' = one \o draw
      BY <2>2
    <3>. HIDE DEF one
    <3>3. /\ draw' \in Seq(Cards) /\ ToSet(draw') = {c} \cup ToSet(draw)
          /\ IsInjective(draw) /\ c \notin ToSet(draw) => IsInjective(draw')
      BY <1>1, <3>1, <3>2, ConcatList DEF PilesTyped
    <3>4. PilesTyped' /\ Placed' = Placed \cup {c}
      BY <1>1, <1>2, <2>2, <3>3 DEF PilesTyped, Placed
    <3>5. ASSUME Apart, c \notin Placed PROVE Apart'
      BY <1>2, <2>2, <3>3, <3>5 DEF Apart, Placed
    <3>. QED
      BY <3>4, <3>5 DEF Added
  <2>3. CASE discard' = Append(discard, c) /\ draw' = draw
    <3>3. /\ discard' \in Seq(Cards) /\ ToSet(discard') = ToSet(discard) \cup {c}
          /\ IsInjective(discard) /\ c \notin ToSet(discard) => IsInjective(discard')
      BY <1>1, <2>1, <2>3, AppendList DEF PilesTyped
    <3>4. PilesTyped' /\ Placed' = Placed \cup {c}
      BY <1>1, <1>2, <2>3, <3>3 DEF PilesTyped, Placed
    <3>5. ASSUME Apart, c \notin Placed PROVE Apart'
      BY <1>2, <2>3, <3>3, <3>5 DEF Apart, Placed
    <3>. QED
      BY <3>4, <3>5 DEF Added
  <2>. QED
    BY <1>5, <2>2, <2>3
<1>. QED
  BY <1>2, <1>3, <1>4, <1>5

LEMMA InitPiles ==
    ASSUME Init
    PROVE  /\ PilesTyped /\ Apart /\ Placed = cards
           /\ Len(hand) = Cardinality(cards \cap Innate)
<1>1. cards \in Decks /\ draw \in SetToSeqs(cards \ Innate) /\ hand \in SetToSeqs(cards \cap Innate)
      /\ discard = <<>> /\ exhaust = <<>>
  BY DEF Init
<1>2. IsFiniteSet(cards) /\ cards \subseteq Cards
  BY <1>1, ConstantsAssumption
<1>3. IsFiniteSet(cards \ Innate) /\ IsFiniteSet(cards \cap Innate)
  BY <1>2, FS_Subset
<1>4. draw \in Seq(cards \ Innate) /\ ToSet(draw) = cards \ Innate /\ IsInjective(draw)
  BY <1>1, <1>3, ListsOfSet
<1>5. /\ hand \in Seq(cards \cap Innate) /\ ToSet(hand) = cards \cap Innate /\ IsInjective(hand)
      /\ Len(hand) = Cardinality(cards \cap Innate)
  BY <1>1, <1>3, ListsOfSet
<1>6. draw \in Seq(Cards) /\ hand \in Seq(Cards)
  BY <1>2, <1>4, <1>5, SeqMonotonic
<1>7. /\ discard \in Seq(Cards) /\ ToSet(discard) = {} /\ IsInjective(discard)
      /\ exhaust \in Seq(Cards) /\ ToSet(exhaust) = {} /\ IsInjective(exhaust)
  BY <1>1, None
<1>. QED
  BY <1>4, <1>5, <1>6, <1>7 DEF PilesTyped, Apart, Placed

\* The ends of a turn.
LEMMA EndTurnEffects ==
    ASSUME TypeInv, EndTurn
    PROVE  /\ todo = <<>> /\ todo' \in Seq(Effect)
           /\ \E n \in Nat :
                 /\ Len(todo') = n + 2
                 /\ \A i \in 1 .. n : /\ todo'[i][1] = "leave" /\ todo'[i][2] \in ToSet(hand)
                                      /\ IsInjective(hand) => \A j \in 1 .. n :
                                             todo'[i][2] = todo'[j][2] => i = j
                 /\ todo'[n + 1][1] = "enemies" /\ todo'[n + 2][1] = "draw"
<1>. DEFINE kept == powers["wellLaidPlans"]
            held == SubSeq(hand, 1, IF kept < Len(hand) THEN kept ELSE Len(hand))
            S == {c \in Cards : Is(c, Ethereal) \/ ~Contains(held, c)}
            leaving == Among(hand, S)
            e == <<<<"enemies">>>>
            d == Draws(TurnDraw)
            l == Each("leave", leaving)
            n == Len(leaving)
<1>1. PilesTyped
  BY DEF TypeInv
<1>2. todo = <<>> /\ todo' = (l \o e) \o d
  BY DEF EndTurn
<1>. HIDE DEF S, held
<1>3. /\ leaving \in Seq(Cards) /\ ToSet(leaving) = ToSet(hand) \cap S
      /\ IsInjective(hand) => IsInjective(leaving)
  BY <1>1, AmongList DEF PilesTyped
<1>. HIDE DEF leaving
<1>4. /\ l \in Seq(Effect) /\ Len(l) = n /\ \A i \in 1 .. n : l[i] = <<"leave", leaving[i]>>
  BY <1>3, EachEffects DEF CardEffects
<1>5. e \in Seq(Effect) /\ Len(e) = 1 /\ e[1][1] = "enemies"
  BY CallList DEF Calls
<1>6. d \in Seq(Effect) /\ Len(d) = 1 /\ d[1][1] = "draw"
  BY ConstantsAssumption, DrawsList
<1>7. n \in Nat
  BY <1>3, LenProperties
<1>. HIDE DEF l, e, d, n
<1>. DEFINE le == l \o e
<1>8. /\ le \in Seq(Effect) /\ Len(le) = n + 1
      /\ \A i \in 1 .. n + 1 : le[i] = IF i <= n THEN l[i] ELSE e[i - n]
  <2>1. /\ le \in Seq(Effect) /\ Len(le) = Len(l) + Len(e)
        /\ \A i \in 1 .. Len(l) + Len(e) : le[i] = IF i <= Len(l) THEN l[i] ELSE e[i - Len(l)]
    BY <1>4, <1>5, ConcatProperties
  <2>. QED
    BY <1>4, <1>5, <2>1
<1>9. /\ todo' \in Seq(Effect) /\ Len(todo') = n + 2
      /\ \A i \in 1 .. n + 2 : todo'[i] = IF i <= n + 1 THEN le[i] ELSE d[i - (n + 1)]
  <2>1. todo' = le \o d
    BY <1>2
  <2>. HIDE DEF le
  <2>2. /\ le \o d \in Seq(Effect) /\ Len(le \o d) = Len(le) + Len(d)
        /\ \A i \in 1 .. Len(le) + Len(d) : (le \o d)[i] = IF i <= Len(le) THEN le[i] ELSE d[i - Len(le)]
    BY <1>6, <1>8, ConcatProperties
  <2>3. Len(le) + Len(d) = n + 2
    BY <1>6, <1>7, <1>8
  <2>. QED
    BY <1>8, <2>1, <2>2, <2>3
<1>. HIDE DEF le
<1>10. ASSUME NEW i \in 1 .. n PROVE todo'[i] = <<"leave", leaving[i]>>
  <2>1. i \in 1 .. n + 2 /\ i \in 1 .. n + 1 /\ i <= n /\ i <= n + 1
    BY <1>7
  <2>. QED
    BY <1>4, <1>8, <1>9, <2>1
<1>11. todo'[n + 1] = e[1]
  <2>1. n + 1 \in 1 .. n + 2 /\ n + 1 \in 1 .. n + 1 /\ ~(n + 1 <= n) /\ n + 1 <= n + 1 /\ (n + 1) - n = 1
    BY <1>7
  <2>. QED
    BY <1>8, <1>9, <2>1
<1>12. todo'[n + 2] = d[1]
  <2>1. n + 2 \in 1 .. n + 2 /\ ~(n + 2 <= n + 1) /\ (n + 2) - (n + 1) = 1
    BY <1>7
  <2>. QED
    BY <1>9, <2>1
<1>13. \A i \in 1 .. n : leaving[i] \in ToSet(hand)
  BY <1>3, Elements DEF n
<1>14. IsInjective(hand) => \A i, j \in 1 .. n : leaving[i] = leaving[j] => i = j
  BY <1>3, NoRepeats DEF n
<1>15. \A i \in 1 .. n : /\ todo'[i][1] = "leave" /\ todo'[i][2] \in ToSet(hand)
                         /\ IsInjective(hand) => \A j \in 1 .. n : todo'[i][2] = todo'[j][2] => i = j
  BY <1>10, <1>13, <1>14
<1>. QED
  BY <1>2, <1>5, <1>6, <1>7, <1>9, <1>11, <1>12, <1>15

\* A play, or two, and the check after it.
LEMMA PlayCardEffects ==
    ASSUME TypeInv, NEW c \in Cards, PlayCard(c)
    PROVE  /\ todo = <<>> /\ todo' \in Seq(Effect)
           /\ \/ Replays(c) = {} /\ Len(todo') = 2 /\ todo'[1] = <<"play", c>> /\ todo'[2] = <<"settle", c>>
              \/ /\ Replays(c) # {} /\ Len(todo') = 3
                 /\ todo'[1] = <<"play", c>> /\ todo'[2] = <<"play", c>> /\ todo'[3] = <<"settle", c>>
<1>1. <<"play", c>> \in Effect /\ <<"settle", c>> \in Effect
  BY CardEffectList DEF CardEffects
<1>2. CASE Replays(c) = {}
  <2>1. todo = <<>> /\ todo' = (<<<<"play", c>>>> \o <<>>) \o <<<<"settle", c>>>>
    BY <1>2 DEF PlayCard
  <2>. QED
    BY <1>1, <1>2, <2>1
<1>3. CASE Replays(c) # {}
  <2>1. todo = <<>> /\ todo' = (<<<<"play", c>>>> \o <<<<"play", c>>>>) \o <<<<"settle", c>>>>
    BY <1>3 DEF PlayCard
  <2>. QED
    BY <1>1, <1>3, <2>1
<1>. QED
  BY <1>2, <1>3

-----------------------------------------------------------------------------
(* Types *)

\* A step of the effects: the one at the head runs, and calls for more.
LEMMA StepEffects ==
    ASSUME TypeInv, Step
    PROVE  /\ todo # <<>> /\ todo' \in Seq(Effect)
           /\ \E more \in Seq(Effect) : Then(more)
<1>. DEFINE Goal == todo # <<>> /\ \E more \in Seq(Effect) : Then(more)
<1>1. PilesTyped /\ powers \in [Stacking -> 0 .. MaxStacks] /\ todo \in Seq(Effect)
  BY DEF TypeInv
<1>2. <<>> \in Seq(Effect) /\ \A m : OnlyDraws(m) => m \in Seq(Effect)
  BY EmptySeq DEF OnlyDraws
<1>3. ASSUME DrawEnds PROVE Goal
  BY <1>1, <1>2, <1>3 DEF DrawEnds, Running
<1>4. ASSUME DrawOne PROVE Goal
  BY <1>2, <1>4, DrawOneMoves DEF DrawOne, Running
<1>5. ASSUME ExhaustCard PROVE Goal
  BY <1>2, <1>5, ExhaustCardMoves DEF ExhaustCard, Running
<1>6. ASSUME DiscardFromHand PROVE Goal
  BY <1>2, <1>6, DiscardMoves DEF DiscardFromHand, Running
<1>7. ASSUME Play PROVE Goal
  <2>1. Running("play") /\ Then(EffectsOf(Arg))
    BY <1>7 DEF Play
  <2>2. Arg \in Cards /\ todo # <<>>
    BY <1>1, <2>1, RunningEffect DEF CardEffects
  <2>3. EffectsOf(Arg) \in Seq(Effect)
    BY <1>1, <2>2, EffectsShape DEF PilesTyped
  <2>. QED
    BY <2>1, <2>2, <2>3
<1>8. ASSUME GainPower PROVE Goal
  BY <1>2, <1>8 DEF GainPower, Running
<1>9. ASSUME Havoc PROVE Goal
  <2>1. todo # <<>>
    BY <1>9 DEF Havoc, Running
  <2>2. CASE draw = <<>>
    BY <1>2, <1>9, <2>1, <2>2 DEF Havoc
  <2>3. CASE draw # <<>>
    <3>. DEFINE x == Last(draw)
    <3>1. x \in Cards /\ Then(<<<<"play", x>>, <<"exhaust", x>>>>)
      BY <1>9, <2>3, HavocMoves DEF Taken
    <3>. HIDE DEF x
    <3>2. <<"play", x>> \in Effect /\ <<"exhaust", x>> \in Effect
      BY <3>1, CardEffectList DEF CardEffects
    <3>3. <<<<"play", x>>, <<"exhaust", x>>>> \in Seq(Effect)
      BY <3>2
    <3>. QED
      BY <2>1, <3>1, <3>3
  <2>. QED
    BY <2>2, <2>3
<1>10. ASSUME Headbutt PROVE Goal
  BY <1>2, <1>10 DEF Headbutt, Running
<1>11. ASSUME Warcry PROVE Goal
  BY <1>2, <1>11 DEF Warcry, Running
<1>12. ASSUME Exhume PROVE Goal
  BY <1>2, <1>12 DEF Exhume, Running
<1>13. ASSUME Settle PROVE Goal
  BY <1>2, <1>13, SettleMoves DEF Settle, Running
<1>14. ASSUME Leave PROVE Goal
  BY <1>2, <1>14, LeaveMoves DEF Leave, Running
<1>15. ASSUME EnemiesAct PROVE Goal
  BY <1>2, <1>15 DEF EnemiesAct, Running
<1>16. Goal
  BY <1>3, <1>4, <1>5, <1>6, <1>7, <1>8, <1>9, <1>10, <1>11, <1>12, <1>13, <1>14, <1>15 DEF Step
<1>17. todo' \in Seq(Effect)
  BY <1>1, <1>16, Afterwards
<1>. QED
  BY <1>16, <1>17

LEMMA TypeInit == Init => TypeInv
<1>. SUFFICES ASSUME Init PROVE TypeInv
  OBVIOUS
<1>1. PilesTyped
  BY InitPiles
<1>2. todo \in Seq(Effect)
  BY DrawsList, ConstantsAssumption DEF Init
<1>3. powers \in [Stacking -> 0 .. MaxStacks]
  BY ConstantsAssumption DEF Init
<1>4. \E deck \in Decks : deck \subseteq cards /\ cards \ deck \subseteq Created
  BY DEF Init
<1>. QED
  BY <1>1, <1>2, <1>3, <1>4 DEF TypeInv

LEMMA TypeStep == TypeInv /\ [Next]_vars => TypeInv'
<1>. SUFFICES ASSUME TypeInv, [Next]_vars PROVE TypeInv'
  OBVIOUS
<1>1. PilesTyped /\ powers \in [Stacking -> 0 .. MaxStacks] /\ todo \in Seq(Effect)
  BY DEF TypeInv
<1>2. PICK deck \in Decks : deck \subseteq cards /\ cards \ deck \subseteq Created
  BY DEF TypeInv
<1>3. ASSUME PilesTyped', powers' \in [Stacking -> 0 .. MaxStacks], todo' \in Seq(Effect), cards' = cards
      PROVE  TypeInv'
  BY <1>2, <1>3 DEF TypeInv
<1>4. CASE Step
  <2>1. todo' \in Seq(Effect)
    BY <1>4, StepEffects
  <2>2. CASE DrawEnds
    BY <1>1, <1>3, <2>1, <2>2, Unmoved DEF DrawEnds, piles, Moved
  <2>3. CASE DrawOne
    BY <1>1, <1>3, <2>1, <2>3, DrawOneMoves DEF DrawOne, Moved
  <2>4. CASE ExhaustCard
    BY <1>1, <1>3, <2>1, <2>4, ExhaustCardMoves DEF ExhaustCard, Put, Added
  <2>5. CASE DiscardFromHand
    BY <1>1, <1>3, <2>1, <2>5, DiscardMoves DEF DiscardFromHand, Moved
  <2>6. CASE Play
    BY <1>1, <1>3, <2>1, <2>6, Unmoved DEF Play, piles, Moved
  <2>7. CASE GainPower
    <3>1. PICK p \in Stacking : powers' = [powers EXCEPT ![p] = IF @ < MaxStacks THEN @ + 1 ELSE @]
      BY <2>7 DEF GainPower
    <3>2. powers[p] \in 0 .. MaxStacks /\ MaxStacks \in Nat
      BY <1>1, ConstantsAssumption
    <3>3. (IF powers[p] < MaxStacks THEN powers[p] + 1 ELSE powers[p]) \in 0 .. MaxStacks
      BY <3>2
    <3>4. powers' \in [Stacking -> 0 .. MaxStacks]
      BY <1>1, <3>1, <3>3
    <3>5. PilesTyped' /\ cards' = cards
      BY <1>1, <2>7, Unmoved DEF GainPower, piles, Moved
    <3>. QED
      BY <1>3, <2>1, <3>4, <3>5
  <2>8. CASE Havoc
    <3>1. powers' = powers /\ cards' = cards
      BY <2>8 DEF Havoc
    <3>2. PilesTyped'
      <4>1. CASE draw = <<>>
        BY <1>1, <2>8, <4>1, Unmoved DEF Havoc, Moved
      <4>2. CASE draw # <<>>
        BY <2>8, <4>2, HavocMoves DEF Taken
      <4>. QED
        BY <4>1, <4>2
    <3>. QED
      BY <1>1, <1>3, <2>1, <3>1, <3>2
  <2>9. CASE Headbutt
    BY <1>1, <1>3, <2>1, <2>9, HeadbuttMoves DEF Headbutt, Moved
  <2>10. CASE Warcry
    BY <1>1, <1>3, <2>1, <2>10, WarcryMoves DEF Warcry, Moved
  <2>11. CASE Exhume
    BY <1>1, <1>3, <2>1, <2>11, ExhumeMoves DEF Exhume, Moved
  <2>12. CASE Settle
    BY <1>1, <1>3, <2>1, <2>12, SettleMoves DEF Settle, Added
  <2>13. CASE Leave
    BY <1>1, <1>3, <2>1, <2>13, LeaveMoves DEF Leave, Put, Added
  <2>14. CASE EnemiesAct
    <3>1. powers' = powers
      BY <2>14 DEF EnemiesAct
    <3>2. PilesTyped' /\ cards \subseteq cards' /\ cards' \ cards \subseteq Created
      BY <2>14, EnemiesActMoves DEF Moved, Added
    <3>3. deck \subseteq cards' /\ cards' \ deck \subseteq Created
      BY <1>2, <3>2
    <3>. QED
      BY <1>1, <2>1, <3>1, <3>2, <3>3 DEF TypeInv
  <2>. QED
    BY <1>4, <2>2, <2>3, <2>4, <2>5, <2>6, <2>7, <2>8, <2>9, <2>10, <2>11, <2>12, <2>13, <2>14 DEF Step
<1>5. CASE EndTurn
  <2>1. todo' \in Seq(Effect)
    BY <1>5, EndTurnEffects
  <2>. QED
    BY <1>1, <1>3, <1>5, <2>1, Unmoved DEF EndTurn, piles, Moved
<1>6. ASSUME NEW c \in Cards, PlayCard(c) PROVE TypeInv'
  <2>1. todo' \in Seq(Effect)
    BY <1>6, PlayCardEffects
  <2>2. PilesTyped'
    BY <1>6, PlayCardMoves DEF Taken
  <2>3. powers' \in [Stacking -> 0 .. MaxStacks]
    <3>1. powers' = [p \in Stacking |-> IF p \in Replays(c) THEN powers[p] - 1 ELSE powers[p]]
      BY <1>6 DEF PlayCard
    <3>2. \A p \in Stacking : powers[p] \in 0 .. MaxStacks /\ MaxStacks \in Nat
      BY <1>1, ConstantsAssumption
    <3>3. \A p \in Replays(c) : powers[p] > 0
      BY DEF Replays
    <3>4. ASSUME NEW p \in Stacking
          PROVE  (IF p \in Replays(c) THEN powers[p] - 1 ELSE powers[p]) \in 0 .. MaxStacks
      BY <3>2, <3>3
    <3>. QED
      BY <3>1, <3>4
  <2>4. cards' = cards
    BY <1>6 DEF PlayCard
  <2>. QED
    BY <1>3, <2>1, <2>2, <2>3, <2>4
<1>7. CASE UNCHANGED vars
  BY <1>1, <1>3, <1>7, Unmoved DEF vars, piles, Moved
<1>. QED
  BY <1>4, <1>5, <1>6, <1>7 DEF Next

\* The typed state, for any cards, decks and bounds.
THEOREM TypesHold == Spec => []TypeInv
BY TypeInit, TypeStep, PTL DEF Spec

\* The values of the variables: TypeOK of the runs, for any cards, decks and bounds.
THEOREM TypeCorrect == Spec => []TypeOK
<1>1. TypeInv => TypeOK
  <2>. SUFFICES ASSUME TypeInv PROVE TypeOK
    OBVIOUS
  <2>1. \A pile \in {draw, hand, discard, exhaust} : ToSet(pile) \subseteq Cards
    BY Elements DEF TypeInv, PilesTyped
  <2>2. DOMAIN todo = 1 .. Len(todo) /\ \A i \in 1 .. Len(todo) : todo[i] \in Effect
    BY LenProperties, ElementOfSeq DEF TypeInv
  <2>3. \A i \in DOMAIN todo :
          IF todo[i][1] \in {"play", "settle", "exhaust", "discard", "leave"}
          THEN todo[i][2] \in Cards
          ELSE IF todo[i][1] = "draw" THEN todo[i][2] \in Nat
          ELSE todo[i][1] \in {"enemies", "havoc", "headbutt", "warcry", "exhume"} \cup Stacking
    <3>. SUFFICES ASSUME NEW i \in DOMAIN todo
                  PROVE  IF todo[i][1] \in {"play", "settle", "exhaust", "discard", "leave"}
                         THEN todo[i][2] \in Cards
                         ELSE IF todo[i][1] = "draw" THEN todo[i][2] \in Nat
                         ELSE todo[i][1] \in {"enemies", "havoc", "headbutt", "warcry", "exhume"} \cup Stacking
      OBVIOUS
    <3>1. todo[i] \in Effect
      BY <2>2
    <3>. QED
      BY <3>1, EffectKinds DEF CardEffects, Calls
  <2>. QED
    BY <2>1, <2>3 DEF TypeOK, TypeInv
<1>. QED
  BY <1>1, TypesHold, PTL

-----------------------------------------------------------------------------
(* The hand *)

\* start_combat takes every innate card to hand and counts none of them, so the
\* limit holds of the decks whose innate cards fit.
InnateFits == \A deck \in Decks : Cardinality(deck \cap Innate) <= HandLimit

LEMMA HandStep == TypeInv /\ HandWithinLimit /\ [Next]_vars => HandWithinLimit'
<1>. SUFFICES ASSUME TypeInv, HandWithinLimit, [Next]_vars PROVE HandWithinLimit'
  OBVIOUS
<1>1. Len(hand) \in Nat /\ HandLimit \in Nat /\ Len(hand) <= HandLimit
  BY ConstantsAssumption, LenProperties DEF TypeInv, PilesTyped, HandWithinLimit
<1>2. ASSUME hand' = hand PROVE HandWithinLimit'
  BY <1>1, <1>2 DEF HandWithinLimit
<1>3. ASSUME PilesTyped', Len(hand)' <= Len(hand) PROVE HandWithinLimit'
  <2>1. Len(hand)' \in Nat
    BY <1>3, LenProperties DEF PilesTyped
  <2>. QED
    BY <1>1, <1>3, <2>1 DEF HandWithinLimit
<1>4. CASE DrawOne
  BY <1>4, DrawOneMoves DEF HandWithinLimit
<1>5. CASE ExhaustCard
  BY <1>3, <1>5, ExhaustCardMoves DEF Put, Added
<1>6. CASE DiscardFromHand
  BY <1>3, <1>6, DiscardMoves DEF Moved
<1>7. CASE Warcry
  BY <1>3, <1>7, WarcryMoves DEF Moved
<1>8. CASE Exhume
  BY <1>1, <1>8, ExhumeMoves DEF HandWithinLimit
<1>9. CASE Leave
  BY <1>3, <1>9, LeaveMoves DEF Put, Added
<1>10. CASE DrawEnds \/ Play \/ GainPower \/ Havoc \/ Headbutt \/ Settle \/ EnemiesAct \/ EndTurn \/ UNCHANGED vars
  <2>1. hand' = hand
    BY <1>10 DEF DrawEnds, Play, GainPower, Havoc, Headbutt, Settle, EnemiesAct, EndTurn, vars, piles
  <2>. QED
    BY <1>2, <2>1
<1>11. ASSUME NEW c \in Cards, PlayCard(c) PROVE HandWithinLimit'
  BY <1>3, <1>11, PlayCardMoves DEF Taken
<1>. QED
  BY <1>4, <1>5, <1>6, <1>7, <1>8, <1>9, <1>10, <1>11 DEF Next, Step

\* No order of draws, retrievals and nested effects makes the hand exceed its
\* limit, whatever the limit and the deck, if the innate cards fit in it.
THEOREM HandCapped == InnateFits => (Spec => []HandWithinLimit)
<1>. SUFFICES ASSUME InnateFits PROVE Spec => []HandWithinLimit
  OBVIOUS
<1>1. Init => HandWithinLimit
  <2>. SUFFICES ASSUME Init PROVE HandWithinLimit
    OBVIOUS
  <2>1. cards \in Decks /\ Len(hand) = Cardinality(cards \cap Innate)
    BY InitPiles DEF Init
  <2>. QED
    BY <2>1 DEF HandWithinLimit, InnateFits
<1>. QED
  BY <1>1, HandStep, TypesHold, PTL DEF Spec

-----------------------------------------------------------------------------
(* No card is lost *)

\* A play or a Havoc holds the card, and is still to put it somewhere.
Pending(c) == \E i \in 1 .. Len(todo) : todo[i][1] \in {"settle", "exhaust"} /\ todo[i][2] = c
Kept(c) == c \in Placed \/ Pending(c)

LEMMA AllPlaced ==
    ASSUME PilesTyped
    PROVE  /\ AllPiles \in Seq(Cards) /\ ToSet(AllPiles) = Placed
           /\ Apart => IsInjective(AllPiles)
<1>1. draw \in Seq(Cards) /\ hand \in Seq(Cards) /\ discard \in Seq(Cards) /\ exhaust \in Seq(Cards)
  BY DEF PilesTyped
<1>. DEFINE a == draw \o hand
            b == a \o discard
<1>2. /\ a \in Seq(Cards) /\ ToSet(a) = ToSet(draw) \cup ToSet(hand)
      /\ IsInjective(draw) /\ IsInjective(hand) /\ ToSet(draw) \cap ToSet(hand) = {} => IsInjective(a)
  BY <1>1, ConcatList
<1>. HIDE DEF a
<1>3. /\ b \in Seq(Cards) /\ ToSet(b) = ToSet(a) \cup ToSet(discard)
      /\ IsInjective(a) /\ IsInjective(discard) /\ ToSet(a) \cap ToSet(discard) = {} => IsInjective(b)
  BY <1>1, <1>2, ConcatList
<1>. HIDE DEF b
<1>4. /\ b \o exhaust \in Seq(Cards) /\ ToSet(b \o exhaust) = ToSet(b) \cup ToSet(exhaust)
      /\ IsInjective(b) /\ IsInjective(exhaust) /\ ToSet(b) \cap ToSet(exhaust) = {} => IsInjective(b \o exhaust)
  BY <1>1, <1>3, ConcatList
<1>5. AllPiles = b \o exhaust
  BY DEF AllPiles, a, b
<1>6. Apart => IsInjective(b) /\ ToSet(b) \cap ToSet(exhaust) = {}
  <2>. SUFFICES ASSUME Apart PROVE IsInjective(b) /\ ToSet(b) \cap ToSet(exhaust) = {}
    OBVIOUS
  <2>1. IsInjective(a) /\ ToSet(a) \cap ToSet(discard) = {}
    BY <1>2 DEF Apart
  <2>. QED
    BY <1>2, <1>3, <2>1 DEF Apart
<1>. QED
  BY <1>2, <1>3, <1>4, <1>5, <1>6 DEF Placed, Apart

\* The effect at the head runs: a card stays kept if it stays placed or is
\* pending in what the effect calls for, and the head places its own.
LEMMA KeptStep ==
    ASSUME TypeInv, todo # <<>>, NEW more \in Seq(Effect), Then(more), NEW c, Kept(c),
           c \in Placed => c \in Placed' \/ \E i \in 1 .. Len(more) : more[i] = <<"exhaust", c>>,
           todo[1][1] \in {"settle", "exhaust"} => todo[1][2] \in Placed'
    PROVE  Kept(c)'
<1>1. todo \in Seq(Effect)
  BY DEF TypeInv
<1>2. /\ Len(todo') = Len(more) + Len(todo) - 1
      /\ Len(more) \in Nat /\ Len(todo) \in Nat /\ Len(todo) >= 1
      /\ \A i \in 1 .. Len(more) : todo'[i] = more[i]
      /\ \A i \in 2 .. Len(todo) : todo'[Len(more) + i - 1] = todo[i]
  BY <1>1, Afterwards
<1>3. CASE c \in Placed
  <2>1. CASE c \in Placed'
    BY <2>1 DEF Kept
  <2>2. ASSUME NEW i \in 1 .. Len(more), more[i] = <<"exhaust", c>> PROVE Kept(c)'
    <3>1. i \in 1 .. Len(todo') /\ todo'[i] = <<"exhaust", c>>
      BY <1>2, <2>2
    <3>. QED
      BY <3>1 DEF Kept, Pending
  <2>. QED
    BY <1>3, <2>1, <2>2
<1>4. CASE c \notin Placed
  <2>1. PICK i \in 1 .. Len(todo) : todo[i][1] \in {"settle", "exhaust"} /\ todo[i][2] = c
    BY <1>4 DEF Kept, Pending
  <2>2. CASE i = 1
    BY <2>1, <2>2 DEF Kept
  <2>3. CASE i # 1
    <3>1. i \in 2 .. Len(todo) /\ Len(more) + i - 1 \in 1 .. Len(todo')
      BY <1>2, <2>3
    <3>2. todo'[Len(more) + i - 1] = todo[i]
      BY <1>2, <3>1
    <3>. QED
      BY <2>1, <3>1, <3>2 DEF Kept, Pending
  <2>. QED
    BY <2>2, <2>3
<1>. QED
  BY <1>3, <1>4

\* A new card is placed, and every card there was is kept.
LostInv == \A c \in cards : Kept(c)

LEMMA NothingMoved ==
    ASSUME TypeInv, UNCHANGED piles
    PROVE  Placed' = Placed /\ ToSet(hand)' = ToSet(hand) /\ ToSet(exhaust)' = ToSet(exhaust) /\ (Apart => Apart')
BY Unmoved DEF TypeInv, piles, Moved

LEMMA LostStep == TypeInv /\ LostInv /\ [Next]_vars => LostInv'
<1>. SUFFICES ASSUME TypeInv, LostInv, [Next]_vars PROVE LostInv'
  OBVIOUS
<1>1. \A c \in cards : Kept(c)
  BY DEF LostInv
<1>2. todo \in Seq(Effect) /\ <<>> \in Seq(Effect) /\ \A m : OnlyDraws(m) => m \in Seq(Effect)
  BY EmptySeq DEF TypeInv, OnlyDraws
<1>3. \A name : Running(name) => todo # <<>> /\ todo[1][1] = name /\ Arg = todo[1][2]
  BY <1>2, RunningEffect
\* The cards stay where they are, or the effect's own card is placed.
<1>4. ASSUME NEW more \in Seq(Effect), Then(more), Placed \subseteq Placed', cards' = cards, NEW name,
             Running(name), name \in {"settle", "exhaust"} => Arg \in Placed'
      PROVE  LostInv'
  <2>1. todo # <<>> /\ todo[1][1] = name /\ Arg = todo[1][2]
    BY <1>3, <1>4
  <2>2. ASSUME NEW c \in cards PROVE Kept(c)'
    <3>1. Kept(c)
      BY <1>1
    <3>. QED
      BY <1>4, <2>1, <3>1, KeptStep
  <2>. QED
    BY <1>4, <2>2 DEF LostInv
<1>5. CASE DrawEnds
  BY <1>2, <1>4, <1>5, NothingMoved DEF DrawEnds
<1>6. CASE DrawOne
  <2>1. PICK more : OnlyDraws(more) /\ Then(more)
    BY <1>6, DrawOneMoves
  <2>. QED
    BY <1>2, <1>4, <1>6, <2>1, DrawOneMoves DEF DrawOne, Moved
<1>7. CASE ExhaustCard
  <2>1. PICK more : OnlyDraws(more) /\ Then(more)
    BY <1>7, ExhaustCardMoves
  <2>. QED
    BY <1>2, <1>4, <1>7, <2>1, ExhaustCardMoves DEF ExhaustCard, Put, Added
<1>8. CASE DiscardFromHand
  <2>1. PICK more : OnlyDraws(more) /\ Then(more)
    BY <1>8, DiscardMoves
  <2>. QED
    BY <1>2, <1>4, <1>8, <2>1, DiscardMoves DEF DiscardFromHand, Moved
<1>9. CASE Play
  <2>1. Running("play") /\ Then(EffectsOf(Arg)) /\ Arg \in Cards
    BY <1>2, <1>9, RunningEffect DEF Play, CardEffects
  <2>2. EffectsOf(Arg) \in Seq(Effect)
    BY <2>1, EffectsShape DEF TypeInv, PilesTyped
  <2>. QED
    BY <1>4, <1>9, <2>1, <2>2, NothingMoved DEF Play
<1>10. CASE GainPower
  <2>1. PICK p \in Stacking : Running(p)
    BY <1>10 DEF GainPower
  <2>. QED
    BY <1>2, <1>4, <1>10, <2>1, NothingMoved DEF GainPower, Stacking
<1>11. CASE Havoc /\ draw = <<>>
  BY <1>2, <1>4, <1>11, NothingMoved DEF Havoc, piles
<1>12. CASE Havoc /\ draw # <<>>
  <2>. DEFINE x == Last(draw)
              more == <<<<"play", x>>, <<"exhaust", x>>>>
  <2>1. Taken(x) /\ Then(more)
    BY <1>12, HavocMoves
  <2>2. Running("havoc") /\ cards' = cards
    BY <1>12 DEF Havoc
  <2>. HIDE DEF x
  <2>3. more \in Seq(Effect) /\ Len(more) = 2 /\ more[2] = <<"exhaust", x>>
    <3>1. <<"play", x>> \in Effect /\ <<"exhaust", x>> \in Effect
      BY <2>1, CardEffectList DEF CardEffects, Taken
    <3>. QED
      BY <3>1
  <2>. HIDE DEF more
  <2>4. \A c \in Placed : c \in Placed' \/ \E i \in 1 .. Len(more) : more[i] = <<"exhaust", c>>
    BY <2>1, <2>3 DEF Taken
  <2>5. todo # <<>> /\ todo[1][1] = "havoc"
    BY <1>3, <2>2
  <2>6. ASSUME NEW c \in cards PROVE Kept(c)'
    <3>1. Kept(c)
      BY <1>1
    <3>. QED
      BY <2>1, <2>3, <2>4, <2>5, <3>1, KeptStep
  <2>. QED
    BY <2>2, <2>6 DEF LostInv
<1>13. CASE Headbutt
  BY <1>2, <1>4, <1>13, HeadbuttMoves DEF Headbutt, Moved
<1>14. CASE Warcry
  BY <1>2, <1>4, <1>14, WarcryMoves DEF Warcry, Moved
<1>15. CASE Exhume
  BY <1>2, <1>4, <1>15, ExhumeMoves DEF Exhume, Moved
<1>16. CASE Settle
  <2>1. PICK more : OnlyDraws(more) /\ Then(more)
    BY <1>16, SettleMoves
  <2>. QED
    BY <1>2, <1>4, <1>16, <2>1, SettleMoves DEF Settle, Added
<1>17. CASE Leave
  <2>1. PICK more : OnlyDraws(more) /\ Then(more)
    BY <1>17, LeaveMoves
  <2>. QED
    BY <1>2, <1>4, <1>17, <2>1, LeaveMoves DEF Leave, Put, Added
<1>18. CASE EnemiesAct
  <2>1. Then(<<>>) /\ Running("enemies")
    BY <1>18 DEF EnemiesAct
  <2>2. Placed \subseteq Placed' /\ cards' \subseteq cards \cup Placed'
    BY <1>18, EnemiesActMoves DEF Moved, Added
  <2>3. todo # <<>> /\ todo[1][1] = "enemies"
    BY <1>3, <2>1
  <2>4. ASSUME NEW c \in cards PROVE Kept(c)'
    <3>1. Kept(c)
      BY <1>1
    <3>. QED
      BY <1>2, <2>1, <2>2, <2>3, <3>1, KeptStep
  <2>. QED
    BY <2>2, <2>4 DEF LostInv, Kept
<1>19. CASE EndTurn
  <2>1. cards' = cards /\ Placed' = Placed /\ todo = <<>>
    BY <1>19, NothingMoved DEF EndTurn
  <2>2. \A c \in cards : c \in Placed
    BY <1>1, <2>1 DEF Kept, Pending
  <2>. QED
    BY <2>1, <2>2 DEF LostInv, Kept
<1>20. ASSUME NEW c \in Cards, PlayCard(c) PROVE LostInv'
  <2>1. cards' = cards /\ Taken(c) /\ todo = <<>>
    BY <1>20, PlayCardMoves DEF PlayCard
  <2>2. Len(todo') \in 2 .. 3 /\ todo'[Len(todo')] = <<"settle", c>>
    BY <1>20, PlayCardEffects
  <2>3. Pending(c)'
    BY <2>2 DEF Pending
  <2>4. \A d \in cards : d \in Placed
    BY <1>1, <2>1 DEF Kept, Pending
  <2>. QED
    BY <2>1, <2>3, <2>4 DEF LostInv, Kept, Taken
<1>21. CASE UNCHANGED vars
  <2>1. Placed' = Placed /\ cards' = cards /\ todo' = todo
    BY <1>21, NothingMoved DEF vars
  <2>. QED
    BY <1>1, <2>1 DEF LostInv, Kept, Pending
<1>. QED
  BY <1>5, <1>6, <1>7, <1>8, <1>9, <1>10, <1>11, <1>12, <1>13, <1>14, <1>15, <1>16, <1>17, <1>18, <1>19,
     <1>20, <1>21 DEF Next, Step

\* A card is never lost, in any deck: it is in a pile, or about to be put there
\* by the play or the Havoc that holds it.
THEOREM NeverLost == Spec => []NothingLost
<1>1. Init => LostInv
  BY InitPiles DEF LostInv, Kept
<1>2. TypeInv /\ LostInv => NothingLost
  <2>. SUFFICES ASSUME TypeInv, LostInv, NEW c \in cards
                PROVE  \/ Contains(AllPiles, c)
                       \/ \E i \in DOMAIN todo : todo[i][1] \in {"settle", "exhaust"} /\ todo[i][2] = c
    BY DEF NothingLost
  <2>1. DOMAIN todo = 1 .. Len(todo)
    BY LenProperties DEF TypeInv
  <2>2. CASE c \in Placed
    <3>1. AllPiles \in Seq(Cards) /\ c \in ToSet(AllPiles)
      BY <2>2, AllPlaced DEF TypeInv
    <3>2. \E i \in 1 .. Len(AllPiles) : AllPiles[i] = c
      BY <3>1, Elements
    <3>. QED
      BY <3>2 DEF Contains
  <2>3. CASE Pending(c)
    BY <2>1, <2>3 DEF Pending
  <2>. QED
    BY <2>2, <2>3 DEF LostInv, Kept
<1>. QED
  BY <1>1, <1>2, LostStep, TypesHold, PTL DEF Spec

-----------------------------------------------------------------------------
(* One place: the effects still to run *)

\* u is what is left of t when its first effect has called for m.
Follows(t, m, u) ==
    /\ Len(t) \in Nat /\ Len(m) \in Nat /\ Len(t) >= 1 /\ Len(u) = Len(m) + Len(t) - 1
    /\ \A i \in 1 .. Len(m) : u[i] = m[i]
    /\ \A i \in 2 .. Len(t) : u[Len(m) + i - 1] = t[i]
    /\ \A i \in 1 .. Len(u) :
          \/ i \in 1 .. Len(m) /\ u[i] = m[i]
          \/ i - Len(m) + 1 \in 2 .. Len(t) /\ u[i] = t[i - Len(m) + 1]

LEMMA ThenFollows ==
    ASSUME todo \in Seq(Effect), todo # <<>>, NEW more \in Seq(Effect), Then(more)
    PROVE  Follows(todo, more, todo')
BY Afterwards DEF Follows

\* Every position of u is one of m or, further on in t, one of t.
LEMMA Positions ==
    ASSUME NEW t, NEW m, NEW u, Follows(t, m, u), NEW i \in 1 .. Len(u)
    PROVE  \/ i \in 1 .. Len(m) /\ u[i] = m[i]
           \/ \E k \in 2 .. Len(t) : i = Len(m) + k - 1 /\ u[i] = t[k]
BY DEF Follows

\* A later effect comes after the effects called for, and those it came after.
LEMMA Before ==
    ASSUME NEW t, NEW m, NEW u, Follows(t, m, u), NEW k \in 2 .. Len(t), NEW j \in 1 .. Len(m) + k - 1 - 1
    PROVE  \/ j \in 1 .. Len(m) /\ u[j] = m[j]
           \/ \E l \in 2 .. k - 1 : u[j] = t[l]
<1>1. j \in 1 .. Len(u)
  BY DEF Follows
<1>2. CASE j \in 1 .. Len(m) /\ u[j] = m[j]
  BY <1>2
<1>3. CASE j - Len(m) + 1 \in 2 .. Len(t) /\ u[j] = t[j - Len(m) + 1]
  <2>1. j - Len(m) + 1 \in 2 .. k - 1
    BY <1>3 DEF Follows
  <2>. QED
    BY <1>3, <2>1
<1>. QED
  BY <1>1, <1>2, <1>3 DEF Follows

\* No effect after the first is to put a card of X into a pile, unless it is the
\* check of a card that is exhausted by then.
Clear(t, X, gone) ==
    /\ \A k \in 2 .. Len(t) : Placing(t[k]) => t[k][2] \notin X
    /\ \A k \in 2 .. Len(t) : t[k][1] = "settle" /\ t[k][2] \in X => Len(t) = 2 /\ t[k][2] \in gone

\* The effect that ran called for draws at most, and put only cards of X into a pile.
LEMMA OnlyDrawsFollow ==
    ASSUME NEW t, NEW m, NEW u, Follows(t, m, u), \A i \in 1 .. Len(m) : m[i][1] = "draw",
           NEW held, NEW heldAfter, NEW placed, NEW placedAfter, NEW gone, NEW goneAfter,
           NEW known, NEW knownAfter, NEW all, NEW X,
           Orderly(t, held, placed, gone, all, known), Clear(t, X, goneAfter),
           placedAfter \subseteq placed \cup X, known \subseteq knownAfter,
           Quiet(t[1]) => held \subseteq heldAfter \cup X,
           t[1][1] = "draw" => gone \subseteq goneAfter
    PROVE  Orderly(u, heldAfter, placedAfter, goneAfter, all, knownAfter)
<1>. USE DEF Orderly, Clear
<1>1. Len(t) \in Nat /\ Len(m) \in Nat /\ Len(t) >= 1 /\ Len(u) = Len(m) + Len(t) - 1
  BY DEF Follows
<1>2. ASSUME NEW i \in 1 .. Len(u), u[i][1] # "draw"
      PROVE  \E k \in 2 .. Len(t) : i = Len(m) + k - 1 /\ u[i] = t[k]
  BY <1>2, Positions
<1>3. ASSUME NEW k \in 2 .. Len(t), \A j \in 1 .. k - 1 : Quiet(t[j]), NEW j \in 1 .. Len(m) + k - 1 - 1
      PROVE  Quiet(u[j])
  <2>1. CASE j \in 1 .. Len(m) /\ u[j] = m[j]
    BY <2>1 DEF Quiet
  <2>2. CASE \E l \in 2 .. k - 1 : u[j] = t[l]
    BY <1>3, <2>2
  <2>. QED
    BY <2>1, <2>2, Before
<1>4. HeldInv(u, heldAfter, placedAfter)
  <2>. SUFFICES ASSUME NEW i \in 1 .. Len(u), Placing(u[i])
                PROVE  \/ u[i][2] \notin placedAfter
                       \/ u[i][2] \in heldAfter /\ \A j \in 1 .. i - 1 : Quiet(u[j])
    BY DEF HeldInv
  <2>1. PICK k \in 2 .. Len(t) : i = Len(m) + k - 1 /\ u[i] = t[k]
    BY <1>2 DEF Placing
  <2>2. k \in 1 .. Len(t) /\ 1 \in 1 .. k - 1
    BY <1>1
  <2>3. t[k][2] \notin X
    BY <2>1
  <2>4. CASE t[k][2] \notin placed
    BY <2>1, <2>3, <2>4
  <2>5. CASE t[k][2] \in held /\ \A j \in 1 .. k - 1 : Quiet(t[j])
    BY <1>3, <2>1, <2>2, <2>3, <2>5
  <2>. QED
    BY <2>1, <2>2, <2>4, <2>5 DEF HeldInv
<1>5. OnceInv(u)
  <2>. SUFFICES ASSUME NEW i \in 1 .. Len(u), NEW j \in 1 .. Len(u),
                       Placing(u[i]), Placing(u[j]), u[i][2] = u[j][2]
                PROVE  i = j
    BY DEF OnceInv
  <2>1. PICK k \in 2 .. Len(t) : i = Len(m) + k - 1 /\ u[i] = t[k]
    BY <1>2 DEF Placing
  <2>2. PICK l \in 2 .. Len(t) : j = Len(m) + l - 1 /\ u[j] = t[l]
    BY <1>2 DEF Placing
  <2>3. k = l
    BY <1>1, <2>1, <2>2 DEF OnceInv
  <2>. QED
    BY <2>1, <2>2, <2>3
<1>6. SettleInv(u, goneAfter, placedAfter)
  <2>. SUFFICES ASSUME NEW i \in 1 .. Len(u), u[i][1] = "settle"
                PROVE  /\ i = Len(u)
                       /\ \/ u[i][2] \notin placedAfter
                          \/ u[i][2] \in goneAfter /\ \A j \in 1 .. i - 1 : u[j][1] = "draw"
                       /\ \A j \in 1 .. Len(u) : Placing(u[j]) /\ u[j][2] = u[i][2]
                              => j = Len(u) - 1 /\ u[j][1] = "exhaust"
    BY DEF SettleInv
  <2>1. PICK k \in 2 .. Len(t) : i = Len(m) + k - 1 /\ u[i] = t[k]
    BY <1>2
  <2>2. k \in 1 .. Len(t) /\ 1 \in 1 .. k - 1
    BY <1>1
  <2>3. /\ k = Len(t)
        /\ \/ t[k][2] \notin placed
           \/ t[k][2] \in gone /\ \A j \in 1 .. k - 1 : t[j][1] = "draw"
        /\ \A j \in 1 .. Len(t) : Placing(t[j]) /\ t[j][2] = t[k][2] => j = Len(t) - 1 /\ t[j][1] = "exhaust"
    BY <2>1, <2>2 DEF SettleInv
  <2>4. \/ t[k][2] \notin placedAfter
        \/ t[k][2] \in goneAfter /\ \A j \in 1 .. i - 1 : u[j][1] = "draw"
    <3>1. CASE t[k][2] \in X
      <4>1. k = 2 /\ t[k][2] \in goneAfter
        BY <1>1, <2>1, <2>3, <3>1
      <4>2. ASSUME NEW j \in 1 .. i - 1 PROVE u[j][1] = "draw"
        <5>1. j \in 1 .. Len(m)
          BY <1>1, <2>1, <4>1
        <5>. QED
          BY <5>1 DEF Follows
      <4>. QED
        BY <4>1, <4>2
    <3>2. CASE t[k][2] \notin X /\ t[k][2] \notin placed
      BY <3>2
    <3>3. CASE t[k][2] \in gone /\ \A j \in 1 .. k - 1 : t[j][1] = "draw"
      <4>1. t[k][2] \in goneAfter
        BY <2>2, <3>3
      <4>2. ASSUME NEW j \in 1 .. i - 1 PROVE u[j][1] = "draw"
        <5>1. j \in 1 .. Len(m) + k - 1 - 1
          BY <2>1
        <5>2. CASE j \in 1 .. Len(m) /\ u[j] = m[j]
          BY <5>2
        <5>3. CASE \E l \in 2 .. k - 1 : u[j] = t[l]
          BY <3>3, <5>3
        <5>. QED
          BY <5>1, <5>2, <5>3, Before
      <4>. QED
        BY <4>1, <4>2
    <3>. QED
      BY <2>3, <3>1, <3>2, <3>3
  <2>5. ASSUME NEW j \in 1 .. Len(u), Placing(u[j]), u[j][2] = u[i][2]
        PROVE  j = Len(u) - 1 /\ u[j][1] = "exhaust"
    <3>1. PICK l \in 2 .. Len(t) : j = Len(m) + l - 1 /\ u[j] = t[l]
      BY <1>2, <2>5 DEF Placing
    <3>2. l = Len(t) - 1 /\ t[l][1] = "exhaust"
      <4>1. u[j][1] = t[l][1] /\ u[j][2] = t[l][2] /\ u[i][2] = t[k][2]
        BY <2>1, <3>1
      <4>2. Placing(t[l]) /\ t[l][2] = t[k][2]
        BY <2>5, <4>1 DEF Placing
      <4>3. l \in 1 .. Len(t)
        BY <1>1
      <4>. QED
        BY <2>3, <4>2, <4>3, Zenon
    <3>. QED
      BY <1>1, <3>1, <3>2
  <2>. QED
    BY <1>1, <2>1, <2>3, <2>4, <2>5
<1>7. PlayInv(u, all)
  <2>. SUFFICES ASSUME NEW c \in all, Is(c, SelfExhausting), NEW i \in 1 .. Len(u)
                PROVE  /\ u[i][1] = "play" => i = Len(u) - 1 /\ u[Len(u)] = <<"settle", u[i][2]>>
                       /\ u[i][1] \notin Replaying
    BY DEF PlayInv
  <2>1. CASE u[i][1] = "draw"
    BY <2>1 DEF Replaying
  <2>2. CASE u[i][1] # "draw"
    <3>1. PICK k \in 2 .. Len(t) : i = Len(m) + k - 1 /\ u[i] = t[k]
      BY <1>2, <2>2
    <3>2. /\ t[k][1] = "play" => k = Len(t) - 1 /\ t[Len(t)] = <<"settle", t[k][2]>>
          /\ t[k][1] \notin Replaying
      BY <1>1, <3>1 DEF PlayInv
    <3>3. Len(t) \in 2 .. Len(t) /\ Len(u) = Len(m) + Len(t) - 1
      BY <1>1, <3>1
    <3>4. u[Len(u)] = t[Len(t)]
      BY <3>3 DEF Follows
    <3>5. k = Len(t) - 1 => i = Len(u) - 1
      BY <1>1, <3>1
    <3>. HIDE DEF Replaying
    <3>6. u[i][1] = t[k][1] /\ u[i][2] = t[k][2]
      BY <3>1
    <3>. QED
      BY <3>2, <3>4, <3>5, <3>6, Zenon
  <2>. QED
    BY <2>1, <2>2
<1>8. KnownInv(u, knownAfter)
  <2>. SUFFICES ASSUME NEW i \in 1 .. Len(u), u[i][1] \in {"play", "settle", "exhaust", "leave"}
                PROVE  u[i][2] \in knownAfter
    BY DEF KnownInv
  <2>1. PICK k \in 2 .. Len(t) : i = Len(m) + k - 1 /\ u[i] = t[k]
    BY <1>2
  <2>. QED
    BY <1>1, <2>1 DEF KnownInv
<1>. QED
  BY <1>4, <1>5, <1>6, <1>7, <1>8

\* The effects of c's play() come first: those that exhaust other cards take
\* them from the hand, and an effect that exhausts c is followed by c's check
\* and nothing else.
LEMMA PlayFollows ==
    ASSUME NEW t, NEW m, NEW u, Follows(t, m, u), NEW c, t[1][1] = "play", t[1][2] = c,
           NEW held, NEW placed, NEW gone, NEW known, NEW all, held \subseteq placed, held \subseteq known,
           known \subseteq all, Separate(all),
           Orderly(t, held, placed, gone, all, known),
           \A i \in 1 .. Len(m) :
              /\ m[i][1] \in {"exhaust", "draw", "discard"} \cup Calls
              /\ m[i][1] \in Replaying => Is(c, Replaying)
              /\ m[i][1] = "exhaust" =>
                    \/ m[i][2] \in held \ {c} /\ \A j \in 1 .. i - 1 : Quiet(m[j])
                    \/ m[i][2] = c /\ i = Len(m) /\ Is(c, SelfExhausting),
           \A i, j \in 1 .. Len(m) : m[i][1] = "exhaust" /\ m[j][1] = "exhaust" /\ m[i][2] = m[j][2] => i = j
    PROVE  Orderly(u, held, placed, gone, all, known)
<1>0. \A i \in 1 .. Len(u) : \/ i \in 1 .. Len(m) /\ u[i] = m[i]
                            \/ \E k \in 2 .. Len(t) : i = Len(m) + k - 1 /\ u[i] = t[k]
  BY Positions
<1>. USE DEF Orderly
<1>1. Len(t) \in Nat /\ Len(m) \in Nat /\ Len(t) >= 1 /\ Len(u) = Len(m) + Len(t) - 1 /\ 1 \in 1 .. Len(t)
  BY DEF Follows
<1>2. ~Quiet(t[1]) /\ t[1][1] # "draw"
  BY DEF Quiet
\* The effects that were to follow the play() do not touch the cards in piles.
<1>3. ASSUME NEW k \in 2 .. Len(t), Placing(t[k]) PROVE t[k][2] \notin placed
  <2>1. k \in 1 .. Len(t) /\ 1 \in 1 .. k - 1
    BY <1>1
  <2>. QED
    BY <1>2, <1>3, <2>1 DEF HeldInv
<1>4. ASSUME NEW k \in 2 .. Len(t), t[k][1] = "settle" PROVE k = Len(t) /\ t[k][2] \notin placed
  <2>1. k \in 1 .. Len(t) /\ 1 \in 1 .. k - 1
    BY <1>1
  <2>. QED
    BY <1>2, <1>4, <2>1 DEF SettleInv
<1>5. c \in known /\ c \in all
  BY <1>1 DEF KnownInv
<1>6. ASSUME Is(c, SelfExhausting) PROVE Len(t) = 2 /\ t[2][1] = "settle" /\ c \notin placed
  <2>1. 1 = Len(t) - 1 /\ t[Len(t)] = <<"settle", c>>
    BY <1>1, <1>5, <1>6 DEF PlayInv
  <2>2. Len(t) = 2 /\ 2 \in 2 .. Len(t)
    BY <1>1, <2>1
  <2>3. t[2][1] = "settle" /\ t[2][2] = c
    BY <2>1, <2>2
  <2>. QED
    BY <1>4, <2>1, <2>2, <2>3
<1>7. ASSUME NEW i \in 1 .. Len(m), Placing(m[i])
      PROVE  /\ m[i][1] = "exhaust"
             /\ \/ m[i][2] \in held /\ \A j \in 1 .. i - 1 : Quiet(m[j])
                \/ m[i][2] = c /\ i = Len(m) /\ Is(c, SelfExhausting)
  BY <1>7 DEF Placing, Calls, Stacking
<1>8. ASSUME NEW i \in 1 .. Len(m) PROVE i \in 1 .. Len(u) /\ u[i] = m[i]
  BY <1>1 DEF Follows
<1>9. HeldInv(u, held, placed)
  <2>. SUFFICES ASSUME NEW i \in 1 .. Len(u), Placing(u[i])
                PROVE  \/ u[i][2] \notin placed
                       \/ u[i][2] \in held /\ \A j \in 1 .. i - 1 : Quiet(u[j])
    BY DEF HeldInv
  <2>1. CASE \E k \in 2 .. Len(t) : i = Len(m) + k - 1 /\ u[i] = t[k]
    BY <1>3, <2>1
  <2>2. CASE i \in 1 .. Len(m) /\ u[i] = m[i]
    <3>1. CASE m[i][2] \in held /\ \A j \in 1 .. i - 1 : Quiet(m[j])
      <4>1. \A j \in 1 .. i - 1 : j \in 1 .. Len(m)
        BY <1>1, <2>2
      <4>. QED
        BY <1>8, <2>2, <3>1, <4>1
    <3>2. CASE m[i][2] = c /\ Is(c, SelfExhausting)
      BY <1>6, <2>2, <3>2
    <3>. QED
      BY <1>7, <2>2, <3>1, <3>2
  <2>. QED
    BY <1>0, <2>1, <2>2
<1>10. OnceInv(u)
  <2>. SUFFICES ASSUME NEW i \in 1 .. Len(u), NEW j \in 1 .. Len(u),
                       Placing(u[i]), Placing(u[j]), u[i][2] = u[j][2]
                PROVE  i = j
    BY DEF OnceInv
  \* A card the play() exhausts is in hand, or is c, with nothing but its check to follow.
  <2>1. ASSUME NEW p \in 1 .. Len(m), Placing(m[p]), NEW k \in 2 .. Len(t), Placing(t[k])
        PROVE  m[p][2] # t[k][2]
    <3>1. CASE m[p][2] \in held
      BY <1>3, <2>1, <3>1
    <3>2. CASE Is(c, SelfExhausting)
      <4>1. Len(t) = 2 /\ t[2][1] = "settle"
        BY <1>6, <3>2
      <4>2. k = 2
        BY <2>1, <4>1
      <4>. QED
        BY <2>1, <4>1, <4>2 DEF Placing
    <3>. QED
      BY <1>7, <2>1, <3>1, <3>2
  <2>2. CASE i \in 1 .. Len(m) /\ u[i] = m[i] /\ j \in 1 .. Len(m) /\ u[j] = m[j]
    BY <1>7, <2>2
  <2>3. ASSUME NEW k \in 2 .. Len(t), i = Len(m) + k - 1, u[i] = t[k],
               NEW l \in 2 .. Len(t), j = Len(m) + l - 1, u[j] = t[l]
        PROVE  i = j
    <3>1. k = l
      BY <1>1, <2>3 DEF OnceInv
    <3>. QED
      BY <2>3, <3>1
  <2>. QED
    <3>1. \/ i \in 1 .. Len(m) /\ u[i] = m[i]
          \/ \E k \in 2 .. Len(t) : i = Len(m) + k - 1 /\ u[i] = t[k]
      BY <1>0
    <3>2. \/ j \in 1 .. Len(m) /\ u[j] = m[j]
          \/ \E k \in 2 .. Len(t) : j = Len(m) + k - 1 /\ u[j] = t[k]
      BY <1>0
    <3>. QED
      BY <2>1, <2>2, <2>3, <3>1, <3>2
<1>11. SettleInv(u, gone, placed)
  <2>. SUFFICES ASSUME NEW i \in 1 .. Len(u), u[i][1] = "settle"
                PROVE  /\ i = Len(u)
                       /\ u[i][2] \notin placed
                       /\ \A j \in 1 .. Len(u) : Placing(u[j]) /\ u[j][2] = u[i][2]
                              => j = Len(u) - 1 /\ u[j][1] = "exhaust"
    BY DEF SettleInv
  <2>1. PICK k \in 2 .. Len(t) : i = Len(m) + k - 1 /\ u[i] = t[k]
    <3>1. \A p \in 1 .. Len(m) : m[p][1] # "settle"
      BY DEF Calls, Stacking
    <3>. QED
      BY <1>0, <3>1
  <2>2. k = Len(t) /\ t[k][2] \notin placed
    BY <1>4, <2>1
  <2>3. \A j \in 1 .. Len(t) : Placing(t[j]) /\ t[j][2] = t[k][2] => j = Len(t) - 1 /\ t[j][1] = "exhaust"
    <3>1. k \in 1 .. Len(t) /\ t[k][1] = "settle"
      BY <1>1, <2>1
    <3>. QED
      BY <3>1 DEF SettleInv
  <2>4. ASSUME NEW j \in 1 .. Len(u), Placing(u[j]), u[j][2] = u[i][2]
        PROVE  j = Len(u) - 1 /\ u[j][1] = "exhaust"
    <3>1. ASSUME NEW l \in 2 .. Len(t), j = Len(m) + l - 1, u[j] = t[l]
          PROVE  j = Len(u) - 1 /\ u[j][1] = "exhaust"
      <4>1. l = Len(t) - 1 /\ t[l][1] = "exhaust"
        <5>1. u[j][1] = t[l][1] /\ u[j][2] = t[l][2] /\ u[i][2] = t[k][2]
          BY <2>1, <3>1
        <5>2. Placing(t[l]) /\ t[l][2] = t[k][2]
          BY <2>4, <5>1 DEF Placing
        <5>3. l \in 1 .. Len(t)
          BY <1>1
        <5>. QED
          BY <2>3, <5>2, <5>3, Zenon
      <4>. QED
        BY <1>1, <3>1, <4>1
    <3>2. CASE j \in 1 .. Len(m) /\ u[j] = m[j]
      <4>1. m[j][2] = t[k][2]
        BY <2>1, <2>4, <3>2
      <4>2. m[j][2] \notin held
        BY <2>2, <4>1
      <4>3. m[j][1] = "exhaust" /\ j = Len(m) /\ Is(c, SelfExhausting)
        BY <1>7, <2>4, <3>2, <4>2
      <4>. QED
        <5>1. Len(t) = 2
          BY <1>6, <4>3
        <5>2. Len(u) - 1 = Len(m)
          BY <1>1, <5>1
        <5>. QED
          BY <3>2, <4>3, <5>2
    <3>3. \/ j \in 1 .. Len(m) /\ u[j] = m[j]
          \/ \E l \in 2 .. Len(t) : j = Len(m) + l - 1 /\ u[j] = t[l]
      BY <1>0
    <3>. QED
      BY <3>1, <3>2, <3>3, Zenon
  <2>. QED
    BY <1>1, <2>1, <2>2, <2>4
<1>12. PlayInv(u, all)
  <2>. SUFFICES ASSUME NEW d \in all, Is(d, SelfExhausting), NEW i \in 1 .. Len(u)
                PROVE  /\ u[i][1] = "play" => i = Len(u) - 1 /\ u[Len(u)] = <<"settle", u[i][2]>>
                       /\ u[i][1] \notin Replaying
    BY DEF PlayInv
  <2>1. CASE i \in 1 .. Len(m) /\ u[i] = m[i]
    <3>1. ~Is(c, Replaying)
      BY <1>5 DEF Separate
    <3>2. m[i][1] \notin Replaying /\ m[i][1] # "play"
      BY <2>1, <3>1 DEF Calls, Stacking
    <3>. QED
      BY <2>1, <3>2
  <2>2. ASSUME NEW k \in 2 .. Len(t), i = Len(m) + k - 1, u[i] = t[k]
        PROVE  /\ u[i][1] = "play" => i = Len(u) - 1 /\ u[Len(u)] = <<"settle", u[i][2]>>
               /\ u[i][1] \notin Replaying
    <3>1. /\ t[k][1] = "play" => k = Len(t) - 1 /\ t[Len(t)] = <<"settle", t[k][2]>>
          /\ t[k][1] \notin Replaying
      BY <1>1, <2>2 DEF PlayInv
    <3>2. Len(t) \in 2 .. Len(t) /\ Len(u) = Len(m) + Len(t) - 1
      BY <1>1, <2>2
    <3>3. u[Len(u)] = t[Len(t)]
      BY <3>2 DEF Follows
    <3>4. k = Len(t) - 1 => i = Len(u) - 1
      BY <1>1, <2>2
    <3>5. u[i][1] = t[k][1] /\ u[i][2] = t[k][2]
      BY <2>2
    <3>. HIDE DEF Replaying
    <3>. QED
      BY <3>1, <3>3, <3>4, <3>5, Zenon
  <2>3. \/ i \in 1 .. Len(m) /\ u[i] = m[i]
        \/ \E k \in 2 .. Len(t) : i = Len(m) + k - 1 /\ u[i] = t[k]
    BY <1>0
  <2>. HIDE DEF Replaying
  <2>. QED
    BY <2>1, <2>2, <2>3, Zenon
<1>13. KnownInv(u, known)
  <2>. SUFFICES ASSUME NEW i \in 1 .. Len(u), u[i][1] \in {"play", "settle", "exhaust", "leave"}
                PROVE  u[i][2] \in known
    BY DEF KnownInv
  <2>1. CASE \E k \in 2 .. Len(t) : i = Len(m) + k - 1 /\ u[i] = t[k]
    BY <1>1, <2>1 DEF KnownInv
  <2>2. CASE i \in 1 .. Len(m) /\ u[i] = m[i]
    <3>1. m[i][1] = "exhaust"
      BY <2>2 DEF Calls, Stacking
    <3>. QED
      BY <1>5, <2>2, <3>1
  <2>. QED
    BY <1>0, <2>1, <2>2
<1>. QED
  BY <1>9, <1>10, <1>11, <1>12, <1>13

\* Havoc plays and exhausts x, which it has taken off the draw pile.
LEMMA HavocFollows ==
    ASSUME NEW t, NEW m, NEW u, Follows(t, m, u), t[1][1] = "havoc",
           NEW x, Len(m) = 2, m[1] = <<"play", x>>, m[2] = <<"exhaust", x>>,
           NEW held, NEW placed, NEW placedAfter, NEW gone, NEW known, NEW all,
           placedAfter \subseteq placed, x \in placed, x \notin placedAfter, x \in known,
           Orderly(t, held, placed, gone, all, known)
    PROVE  Orderly(u, held, placedAfter, gone, all, known)
<1>. USE DEF Orderly
<1>1. /\ Len(t) \in Nat /\ Len(m) \in Nat /\ Len(t) >= 1 /\ Len(u) = Len(m) + Len(t) - 1
      /\ 1 \in 1 .. Len(t) /\ 1 .. Len(m) = {1, 2}
  BY DEF Follows
<1>2. ~Quiet(t[1]) /\ t[1][1] # "draw" /\ t[1][1] \in Replaying
  BY DEF Quiet, Replaying
<1>3. ASSUME NEW k \in 2 .. Len(t), Placing(t[k]) PROVE t[k][2] \notin placed
  <2>1. k \in 1 .. Len(t) /\ 1 \in 1 .. k - 1
    BY <1>1
  <2>. QED
    BY <1>2, <1>3, <2>1 DEF HeldInv
<1>4. ASSUME NEW k \in 2 .. Len(t), t[k][1] = "settle" PROVE k = Len(t) /\ t[k][2] \notin placed
  <2>1. k \in 1 .. Len(t) /\ 1 \in 1 .. k - 1
    BY <1>1
  <2>. QED
    BY <1>2, <1>4, <2>1 DEF SettleInv
<1>5. /\ ~Placing(m[1]) /\ m[1][1] = "play" /\ m[1][2] = x
      /\ Placing(m[2]) /\ m[2][1] = "exhaust" /\ m[2][2] = x
  BY DEF Placing
\* The effects of u: the play(), the exhaust, and those there were.
<1>6. ASSUME NEW i \in 1 .. Len(u)
      PROVE  \/ i = 1 /\ u[i] = m[1]
             \/ i = 2 /\ u[i] = m[2]
             \/ \E k \in 2 .. Len(t) : i = Len(m) + k - 1 /\ u[i] = t[k]
  <2>1. \/ i \in 1 .. Len(m) /\ u[i] = m[i]
        \/ \E k \in 2 .. Len(t) : i = Len(m) + k - 1 /\ u[i] = t[k]
    BY DEF Follows
  <2>. QED
    BY <1>1, <2>1
<1>7. HeldInv(u, held, placedAfter)
  <2>. SUFFICES ASSUME NEW i \in 1 .. Len(u), Placing(u[i]) PROVE u[i][2] \notin placedAfter
    BY DEF HeldInv
  <2>. QED
    BY <1>3, <1>5, <1>6
<1>8. OnceInv(u)
  <2>. SUFFICES ASSUME NEW i \in 1 .. Len(u), NEW j \in 1 .. Len(u),
                       Placing(u[i]), Placing(u[j]), u[i][2] = u[j][2]
                PROVE  i = j
    BY DEF OnceInv
  <2>1. ASSUME NEW k \in 2 .. Len(t), i = Len(m) + k - 1, u[i] = t[k],
               NEW l \in 2 .. Len(t), j = Len(m) + l - 1, u[j] = t[l]
        PROVE  i = j
    <3>1. k = l
      BY <1>1, <2>1 DEF OnceInv
    <3>. QED
      BY <2>1, <3>1
  <2>2. \/ i = 2 /\ u[i] = m[2]
        \/ \E k \in 2 .. Len(t) : i = Len(m) + k - 1 /\ u[i] = t[k]
    BY <1>5, <1>6
  <2>3. \/ j = 2 /\ u[j] = m[2]
        \/ \E k \in 2 .. Len(t) : j = Len(m) + k - 1 /\ u[j] = t[k]
    BY <1>5, <1>6
  <2>4. \A k \in 2 .. Len(t) : Placing(t[k]) => t[k][2] # x
    BY <1>3
  <2>. QED
    BY <1>5, <2>1, <2>2, <2>3, <2>4
<1>9. SettleInv(u, gone, placedAfter)
  <2>. SUFFICES ASSUME NEW i \in 1 .. Len(u), u[i][1] = "settle"
                PROVE  /\ i = Len(u)
                       /\ u[i][2] \notin placedAfter
                       /\ \A j \in 1 .. Len(u) : Placing(u[j]) /\ u[j][2] = u[i][2]
                              => j = Len(u) - 1 /\ u[j][1] = "exhaust"
    BY DEF SettleInv
  <2>1. PICK k \in 2 .. Len(t) : i = Len(m) + k - 1 /\ u[i] = t[k]
    BY <1>5, <1>6
  <2>2. k = Len(t) /\ t[k][2] \notin placed
    BY <1>4, <2>1
  <2>3. \A j \in 1 .. Len(t) : Placing(t[j]) /\ t[j][2] = t[k][2] => j = Len(t) - 1 /\ t[j][1] = "exhaust"
    BY <1>1, <2>1 DEF SettleInv
  <2>4. ASSUME NEW j \in 1 .. Len(u), Placing(u[j]), u[j][2] = u[i][2]
        PROVE  j = Len(u) - 1 /\ u[j][1] = "exhaust"
    <3>1. u[j][2] # x
      BY <2>1, <2>2, <2>4
    <3>2. PICK l \in 2 .. Len(t) : j = Len(m) + l - 1 /\ u[j] = t[l]
      BY <1>5, <1>6, <2>4, <3>1
    <3>3. l = Len(t) - 1 /\ t[l][1] = "exhaust"
      BY <1>1, <2>1, <2>3, <2>4, <3>2
    <3>. QED
      BY <1>1, <3>2, <3>3
  <2>. QED
    BY <1>1, <2>1, <2>2, <2>4
<1>10. PlayInv(u, all)
  BY <1>1, <1>2 DEF PlayInv
<1>11. KnownInv(u, known)
  <2>. SUFFICES ASSUME NEW i \in 1 .. Len(u), u[i][1] \in {"play", "settle", "exhaust", "leave"}
                PROVE  u[i][2] \in known
    BY DEF KnownInv
  <2>1. CASE \E k \in 2 .. Len(t) : i = Len(m) + k - 1 /\ u[i] = t[k]
    BY <1>1, <2>1 DEF KnownInv
  <2>. QED
    BY <1>5, <1>6, <2>1
<1>. QED
  BY <1>7, <1>8, <1>9, <1>10, <1>11

\* The card that is played has left its pile, and nothing else is to be placed.
LEMMA PlayCardTodo ==
    ASSUME NEW u, NEW c,
           \/ Len(u) = 2 /\ u[1] = <<"play", c>> /\ u[2] = <<"settle", c>>
           \/ /\ Len(u) = 3 /\ u[1] = <<"play", c>> /\ u[2] = <<"play", c>> /\ u[3] = <<"settle", c>>,
           NEW held, NEW placed, NEW gone, NEW known, NEW all, c \notin placed, c \in known,
           (\E d \in all : Is(d, SelfExhausting)) => Len(u) = 2
    PROVE  Orderly(u, held, placed, gone, all, known)
<1>. USE DEF Orderly
<1>1. \A i \in 1 .. Len(u) : \/ u[i] = <<"play", c>> /\ i < Len(u)
                             \/ u[i] = <<"settle", c>> /\ i = Len(u)
  <2>1. CASE Len(u) = 2 /\ u[1] = <<"play", c>> /\ u[2] = <<"settle", c>>
    <3>1. \A i \in 1 .. Len(u) : (i = 1 \/ i = 2) /\ 1 < Len(u)
      BY <2>1
    <3>. QED
      BY <2>1, <3>1
  <2>2. CASE Len(u) = 3 /\ u[1] = <<"play", c>> /\ u[2] = <<"play", c>> /\ u[3] = <<"settle", c>>
    <3>1. \A i \in 1 .. Len(u) : (i = 1 \/ i = 2 \/ i = 3) /\ 1 < Len(u) /\ 2 < Len(u)
      BY <2>2
    <3>. QED
      BY <2>2, <3>1
  <2>. QED
    BY <2>1, <2>2
<1>2. \A i \in 1 .. Len(u) : u[i][2] = c /\ ~Placing(u[i]) /\ (u[i][1] = "settle" => i = Len(u))
  BY <1>1 DEF Placing
<1>3. HeldInv(u, held, placed) /\ OnceInv(u) /\ SettleInv(u, gone, placed) /\ KnownInv(u, known)
  BY <1>2 DEF HeldInv, OnceInv, SettleInv, KnownInv
<1>4. PlayInv(u, all)
  <2>. SUFFICES ASSUME NEW d \in all, Is(d, SelfExhausting), NEW i \in 1 .. Len(u)
                PROVE  /\ u[i][1] = "play" => i = Len(u) - 1 /\ u[Len(u)] = <<"settle", u[i][2]>>
                       /\ u[i][1] \notin Replaying
    BY DEF PlayInv
  <2>1. Len(u) = 2
    OBVIOUS
  <2>. QED
    BY <2>1 DEF Replaying
<1>. QED
  BY <1>3, <1>4

\* At the end of a turn the cards that leave are in hand, each of them once.
LEMMA EndTurnTodo ==
    ASSUME NEW u, NEW n \in Nat, Len(u) = n + 2, NEW held,
           \A i \in 1 .. n : /\ u[i][1] = "leave" /\ u[i][2] \in held
                             /\ \A j \in 1 .. n : u[i][2] = u[j][2] => i = j,
           u[n + 1][1] = "enemies", u[n + 2][1] = "draw",
           NEW placed, NEW gone, NEW known, NEW all, held \subseteq known
    PROVE  Orderly(u, held, placed, gone, all, known)
<1>. USE DEF Orderly
<1>1. ASSUME NEW i \in 1 .. Len(u)
      PROVE  i \in 1 .. n \/ i = n + 1 \/ i = n + 2
  OBVIOUS
<1>2. \A i \in 1 .. Len(u) : u[i][1] \in {"leave", "enemies", "draw"} /\ (u[i][1] = "leave" => i \in 1 .. n)
  BY <1>1
<1>3. \A i \in 1 .. Len(u) : Placing(u[i]) => i \in 1 .. n
  BY <1>2 DEF Placing
<1>4. HeldInv(u, held, placed)
  <2>. SUFFICES ASSUME NEW i \in 1 .. Len(u), Placing(u[i])
                PROVE  u[i][2] \in held /\ \A j \in 1 .. i - 1 : Quiet(u[j])
    BY DEF HeldInv
  <2>1. i \in 1 .. n /\ \A j \in 1 .. i - 1 : j \in 1 .. n
    BY <1>3
  <2>. QED
    BY <2>1 DEF Quiet
<1>5. OnceInv(u)
  BY <1>3 DEF OnceInv
<1>6. SettleInv(u, gone, placed)
  BY <1>2 DEF SettleInv
<1>7. PlayInv(u, all)
  BY <1>2 DEF PlayInv, Replaying
<1>8. KnownInv(u, known)
  BY <1>2 DEF KnownInv
<1>. QED
  BY <1>4, <1>5, <1>6, <1>7, <1>8

-----------------------------------------------------------------------------
(* One place: the steps *)

LEMMA Onward ==
    ASSUME TypeInv, TodoInv, todo # <<>>, NEW more, OnlyDraws(more), Then(more), NEW X,
           Placed' \subseteq Placed \cup X, cards \subseteq cards', Everything' = Everything,
           Quiet(todo[1]) => ToSet(hand) \subseteq ToSet(hand)' \cup X,
           todo[1][1] = "draw" => ToSet(exhaust) \subseteq ToSet(exhaust)',
           Clear(todo, X, ToSet(exhaust)')
    PROVE  TodoInv'
<1>1. more \in Seq(Effect) /\ \A i \in 1 .. Len(more) : more[i][1] = "draw"
  BY DEF OnlyDraws
<1>2. Follows(todo, more, todo')
  BY <1>1, ThenFollows DEF TypeInv
<1>3. Orderly(todo, ToSet(hand), Placed, ToSet(exhaust), Everything, cards)
  BY DEF TodoInv
<1>4. Orderly(todo', ToSet(hand)', Placed', ToSet(exhaust)', Everything, cards')
  BY <1>1, <1>2, <1>3, OnlyDrawsFollow
<1>. QED
  BY <1>4 DEF TodoInv

\* An effect that is to place its card: the card is in no pile or in hand, and
\* only its own check is to place it afterwards.
LEMMA PlacingHead ==
    ASSUME TypeInv, TodoInv, Running("exhaust") \/ Running("leave")
    PROVE  /\ todo # <<>> /\ Arg \in cards /\ (Arg \notin Placed \/ Arg \in ToSet(hand))
           /\ \A k \in 2 .. Len(todo) : Placing(todo[k]) => todo[k][2] # Arg
           /\ \A k \in 2 .. Len(todo) : todo[k][1] = "settle" /\ todo[k][2] = Arg
                  => Len(todo) = 2 /\ Running("exhaust")
<1>1. todo \in Seq(Effect)
  BY DEF TypeInv
<1>2. /\ todo # <<>> /\ todo[1][1] \in {"exhaust", "leave"} /\ Arg = todo[1][2]
      /\ todo[1][1] = "exhaust" => Running("exhaust")
  <2>1. CASE Running("exhaust")
    BY <1>1, <2>1, RunningEffect
  <2>2. CASE Running("leave")
    <3>1. todo # <<>> /\ todo[1][1] = "leave" /\ Arg = todo[1][2]
      BY <1>1, <2>2, RunningEffect
    <3>. QED
      BY <3>1
  <2>. QED
    BY <2>1, <2>2
<1>3. Len(todo) \in Nat /\ 1 \in 1 .. Len(todo)
  BY <1>1, <1>2, EmptySeq, LenProperties
<1>4. Placing(todo[1])
  BY <1>2 DEF Placing
<1>5. Arg \in cards
  BY <1>2, <1>3 DEF TodoInv, Orderly, KnownInv
<1>6. Arg \notin Placed \/ Arg \in ToSet(hand)
  BY <1>2, <1>3, <1>4 DEF TodoInv, Orderly, HeldInv
<1>7. ASSUME NEW k \in 2 .. Len(todo), Placing(todo[k]), todo[k][2] = Arg PROVE FALSE
  <2>1. k \in 1 .. Len(todo) /\ k # 1
    BY <1>3
  <2>. QED
    BY <1>2, <1>3, <1>4, <1>7, <2>1 DEF TodoInv, Orderly, OnceInv
<1>8. ASSUME NEW k \in 2 .. Len(todo), todo[k][1] = "settle", todo[k][2] = Arg
      PROVE  Len(todo) = 2 /\ Running("exhaust")
  <2>1. k \in 1 .. Len(todo)
    BY <1>3
  <2>2. 1 = Len(todo) - 1 /\ todo[1][1] = "exhaust"
    BY <1>2, <1>3, <1>4, <1>8, <2>1 DEF TodoInv, Orderly, SettleInv
  <2>. QED
    BY <1>2, <1>3, <2>2
<1>. QED
  BY <1>2, <1>5, <1>6, <1>7, <1>8

\* The check of the card played is the last effect: the card is in no pile, or
\* has exhausted itself.
LEMMA SettleHead ==
    ASSUME TypeInv, TodoInv, Running("settle")
    PROVE  /\ todo # <<>> /\ Arg \in cards /\ Len(todo) = 1
           /\ Arg \notin Placed \/ Arg \in ToSet(exhaust)
<1>1. todo \in Seq(Effect)
  BY DEF TypeInv
<1>2. todo # <<>> /\ todo[1][1] = "settle" /\ Arg = todo[1][2]
  BY <1>1, RunningEffect
<1>3. Len(todo) \in Nat /\ 1 \in 1 .. Len(todo)
  BY <1>1, <1>2, EmptySeq, LenProperties
<1>4. 1 = Len(todo) /\ (Arg \notin Placed \/ Arg \in ToSet(exhaust))
  BY <1>2, <1>3 DEF TodoInv, Orderly, SettleInv
<1>5. Arg \in cards
  BY <1>2, <1>3 DEF TodoInv, Orderly, KnownInv
<1>. QED
  BY <1>2, <1>4, <1>5

\* What PlaceInv says besides the types: the step lemmas give its parts.
LEMMA PlaceParts ==
    ASSUME PlaceInv, TypeInv', cards \subseteq cards', Everything' = Everything, Apart', Placed' \subseteq cards', TodoInv',
           (\E c \in Everything : Is(c, SelfExhausting)) => powers'["doubleTap"] = 0 /\ powers'["burst"] = 0
    PROVE  PlaceInv'
BY DEF PlaceInv

\* A step of an effect that calls for draws at most and puts only cards of X
\* into a pile.
LEMMA PlaceOnward ==
    ASSUME PlaceInv, TypeInv', todo # <<>>, NEW more, OnlyDraws(more), Then(more), NEW X, X \subseteq cards',
           powers' = powers, Placed' \subseteq Placed \cup X, cards \subseteq cards', Everything' = Everything, Apart',
           Quiet(todo[1]) => ToSet(hand) \subseteq ToSet(hand)' \cup X,
           todo[1][1] = "draw" => ToSet(exhaust) \subseteq ToSet(exhaust)',
           Clear(todo, X, ToSet(exhaust)')
    PROVE  PlaceInv'
<1>1. TodoInv'
  BY Onward DEF PlaceInv
<1>2. Placed' \subseteq cards'
  BY DEF PlaceInv
<1>. QED
  BY <1>1, <1>2, PlaceParts DEF PlaceInv

\* The same of an effect that only makes cards change places.
LEMMA PlaceMoved ==
    ASSUME PlaceInv, TypeInv', NEW name, Running(name), NEW more, OnlyDraws(more), Then(more),
           powers' = powers, cards' = cards, Moved,
           name \notin {"exhaust", "leave"},
           name = "draw" => ToSet(hand) \subseteq ToSet(hand)' /\ ToSet(exhaust)' = ToSet(exhaust)
    PROVE  PlaceInv'
<1>1. todo # <<>> /\ todo[1][1] = name
  BY RunningEffect DEF PlaceInv, TypeInv
<1>2. /\ Quiet(todo[1]) => ToSet(hand) \subseteq ToSet(hand)' \cup {}
      /\ todo[1][1] = "draw" => ToSet(exhaust) \subseteq ToSet(exhaust)'
  BY <1>1 DEF Quiet
<1>3. Clear(todo, {}, ToSet(exhaust)')
  BY DEF Clear
<1>4. Placed' \subseteq Placed \cup {} /\ Apart' /\ Everything' = Everything
  BY DEF Moved, PlaceInv, Everything
<1>. QED
  BY <1>1, <1>2, <1>3, <1>4, PlaceOnward

\* The same of an effect that puts its own card into a pile, out of the hand.
LEMMA PlacePut ==
    ASSUME PlaceInv, TypeInv', Running("exhaust") \/ Running("leave"), NEW more, OnlyDraws(more), Then(more),
           powers' = powers, cards' = cards, Put(Arg),
           ToSet(hand) \subseteq ToSet(hand)' \cup {Arg}, ToSet(exhaust) \subseteq ToSet(exhaust)',
           Running("exhaust") => Arg \in ToSet(exhaust)'
    PROVE  PlaceInv'
<1>1. /\ todo # <<>> /\ Arg \in cards /\ (Arg \notin Placed \/ Arg \in ToSet(hand))
      /\ \A k \in 2 .. Len(todo) : Placing(todo[k]) => todo[k][2] # Arg
      /\ \A k \in 2 .. Len(todo) : todo[k][1] = "settle" /\ todo[k][2] = Arg => Len(todo) = 2 /\ Running("exhaust")
  BY PlacingHead DEF PlaceInv
<1>2. Clear(todo, {Arg}, ToSet(exhaust)')
  BY <1>1 DEF Clear
<1>3. Apart' /\ Placed' \subseteq Placed \cup {Arg}
  BY <1>1 DEF PlaceInv, Put, Added
<1>4. Everything' = Everything
  BY DEF Everything
<1>. QED
  BY <1>1, <1>2, <1>3, <1>4, PlaceOnward

\* A step of the effects.  DrawEnds, DrawOne, DiscardFromHand, GainPower,
\* Headbutt, Warcry, Exhume and an idle enemy only move cards.
LEMMA PlaceEffect ==
    ASSUME PlaceInv, TypeInv', Step
    PROVE  PlaceInv'
<1>1. /\ TypeInv /\ TodoInv /\ Apart /\ Placed \subseteq cards
      /\ PilesTyped /\ todo \in Seq(Effect)
  BY DEF PlaceInv, TypeInv
<1>2. OnlyDraws(<<>>)
  BY OnlyDrawsLists
<1>3. CASE DrawEnds
  <2>1. Running("draw") /\ Then(<<>>) /\ powers' = powers /\ cards' = cards
    BY <1>3 DEF DrawEnds
  <2>2. Moved /\ ToSet(hand)' = ToSet(hand) /\ ToSet(exhaust)' = ToSet(exhaust)
    BY <1>1, <1>3, Unmoved DEF DrawEnds, piles
  <2>. QED
    BY <1>2, <2>1, <2>2, PlaceMoved
<1>4. CASE DrawOne
  <2>1. PICK more : OnlyDraws(more) /\ Then(more)
    BY <1>1, <1>4, DrawOneMoves
  <2>2. Running("draw") /\ powers' = powers /\ cards' = cards
    BY <1>4 DEF DrawOne
  <2>3. Moved /\ ToSet(hand) \subseteq ToSet(hand)' /\ ToSet(exhaust)' = ToSet(exhaust)
    BY <1>1, <1>4, DrawOneMoves
  <2>. QED
    BY <2>1, <2>2, <2>3, PlaceMoved
<1>5. CASE ExhaustCard
  <2>1. PICK more : OnlyDraws(more) /\ Then(more)
    BY <1>1, <1>5, ExhaustCardMoves
  <2>2. Running("exhaust") /\ powers' = powers /\ cards' = cards
    BY <1>5 DEF ExhaustCard
  <2>3. Put(Arg) /\ ToSet(hand) \subseteq ToSet(hand)' \cup {Arg} /\ ToSet(exhaust)' = ToSet(exhaust) \cup {Arg}
    BY <1>1, <1>5, ExhaustCardMoves
  <2>. QED
    BY <2>1, <2>2, <2>3, PlacePut
<1>6. CASE DiscardFromHand
  <2>1. PICK more : OnlyDraws(more) /\ Then(more)
    BY <1>1, <1>6, DiscardMoves
  <2>2. Running("discard") /\ powers' = powers /\ cards' = cards /\ Moved
    BY <1>1, <1>6, DiscardMoves DEF DiscardFromHand
  <2>. QED
    BY <2>1, <2>2, PlaceMoved
<1>7. CASE Play
  <2>1. Running("play") /\ Then(EffectsOf(Arg)) /\ powers' = powers /\ cards' = cards
    BY <1>7 DEF Play
  <2>2. todo # <<>> /\ todo[1][1] = "play" /\ todo[1][2] = Arg /\ Arg \in Cards
    BY <1>1, <2>1, RunningEffect DEF CardEffects
  <2>3. Placed' = Placed /\ ToSet(hand)' = ToSet(hand) /\ ToSet(exhaust)' = ToSet(exhaust) /\ Apart'
    BY <1>1, <1>7, NothingMoved DEF Play
  <2>. DEFINE m == EffectsOf(Arg)
              held == ToSet(hand)
              c == Arg
  <2>4. /\ m \in Seq(Effect)
        /\ \A i \in 1 .. Len(m) :
              /\ m[i][1] \in {"exhaust", "draw", "discard"} \cup Calls
              /\ m[i][1] \in Replaying => Is(c, Replaying)
              /\ m[i][1] = "exhaust" =>
                    \/ m[i][2] \in held \ {c} /\ \A j \in 1 .. i - 1 : Quiet(m[j])
                    \/ m[i][2] = c /\ i = Len(m) /\ Is(c, SelfExhausting)
        /\ \A i, j \in 1 .. Len(m) : m[i][1] = "exhaust" /\ m[j][1] = "exhaust" /\ m[i][2] = m[j][2] => i = j
    BY <1>1, <2>2, EffectsShape DEF PilesTyped, Apart
  <2>5. Follows(todo, m, todo')
    BY <1>1, <2>1, <2>2, <2>4, ThenFollows
  <2>6. Separate(Everything) /\ cards \subseteq Everything /\ held \subseteq Placed /\ held \subseteq cards
    BY <1>1 DEF PlaceInv, Everything, Placed
  <2>7. Orderly(todo, held, Placed, ToSet(exhaust), Everything, cards)
    BY <1>1 DEF TodoInv
  <2>8. Orderly(todo', held, Placed, ToSet(exhaust), Everything, cards)
    <3>. HIDE DEF m, held, c
    <3>1. todo[1][2] = c
      BY <2>2 DEF c
    <3>. QED
      BY <2>2, <2>4, <2>5, <2>6, <2>7, <3>1, PlayFollows
  <2>9. Everything' = Everything
    BY <2>1 DEF Everything
  <2>10. TodoInv'
    BY <2>1, <2>3, <2>8, <2>9 DEF TodoInv
  <2>. QED
    BY <1>1, <2>1, <2>3, <2>9, <2>10, PlaceParts DEF PlaceInv
<1>8. CASE GainPower
  <2>1. PICK p \in Stacking : /\ Running(p) /\ Then(<<>>)
                              /\ powers' = [powers EXCEPT ![p] = IF @ < MaxStacks THEN @ + 1 ELSE @]
    BY <1>8 DEF GainPower
  <2>2. UNCHANGED piles /\ cards' = cards
    BY <1>8 DEF GainPower
  <2>3. todo # <<>> /\ todo[1][1] = p
    BY <1>1, <2>1, RunningEffect
  <2>4. Placed' = Placed /\ ToSet(hand)' = ToSet(hand) /\ ToSet(exhaust)' = ToSet(exhaust) /\ Apart'
    BY <1>1, <2>2, NothingMoved
  <2>5. Everything' = Everything
    BY <2>2 DEF Everything
  <2>6. TodoInv'
    <3>1. ~(p = "draw") /\ ~Quiet(todo[1])
      BY <2>3 DEF Quiet, Stacking
    <3>2. Clear(todo, {}, ToSet(exhaust)') /\ Placed' \subseteq Placed \cup {} /\ cards \subseteq cards'
      BY <2>2, <2>4 DEF Clear
    <3>. QED
      BY <1>1, <1>2, <2>1, <2>3, <2>5, <3>1, <3>2, Onward
  <2>7. (\E c \in Everything : Is(c, SelfExhausting)) => powers'["doubleTap"] = 0 /\ powers'["burst"] = 0
    <3>. SUFFICES ASSUME NEW c \in Everything, Is(c, SelfExhausting)
                  PROVE  powers'["doubleTap"] = 0 /\ powers'["burst"] = 0
      OBVIOUS
    <3>1. 1 \in 1 .. Len(todo)
      BY <1>1, <2>3, EmptySeq, LenProperties
    <3>2. todo[1][1] \notin Replaying
      BY <1>1, <3>1 DEF TodoInv, Orderly, PlayInv
    <3>3. p # "doubleTap" /\ p # "burst"
      BY <2>3, <3>2 DEF Replaying
    <3>4. powers["doubleTap"] = 0 /\ powers["burst"] = 0
      BY DEF PlaceInv
    <3>5. powers \in [Stacking -> 0 .. MaxStacks] /\ "doubleTap" \in Stacking /\ "burst" \in Stacking
      BY <1>1 DEF TypeInv, Stacking
    <3>. QED
      BY <2>1, <3>3, <3>4, <3>5
  <2>. QED
    BY <1>1, <2>2, <2>4, <2>5, <2>6, <2>7, PlaceParts
<1>9. CASE Havoc /\ draw = <<>>
  <2>1. Running("havoc") /\ Then(<<>>) /\ powers' = powers /\ cards' = cards
    BY <1>9 DEF Havoc
  <2>2. Moved
    BY <1>1, <1>9, Unmoved DEF Havoc
  <2>. QED
    BY <1>2, <2>1, <2>2, PlaceMoved
<1>10. CASE Havoc /\ draw # <<>>
  <2>. DEFINE x == Last(draw)
              m == <<<<"play", x>>, <<"exhaust", x>>>>
  <2>1. Taken(x) /\ hand' = hand /\ exhaust' = exhaust /\ Then(m)
    BY <1>1, <1>10, HavocMoves
  <2>2. Running("havoc") /\ powers' = powers /\ cards' = cards
    BY <1>10 DEF Havoc
  <2>3. todo # <<>> /\ todo[1][1] = "havoc"
    BY <1>1, <2>2, RunningEffect
  <2>. HIDE DEF x
  <2>4. m \in Seq(Effect) /\ Len(m) = 2 /\ m[1] = <<"play", x>> /\ m[2] = <<"exhaust", x>>
    <3>1. <<"play", x>> \in Effect /\ <<"exhaust", x>> \in Effect
      BY <2>1, CardEffectList DEF CardEffects, Taken
    <3>. QED
      BY <3>1
  <2>. HIDE DEF m
  <2>5. Follows(todo, m, todo')
    BY <1>1, <2>1, <2>3, <2>4, ThenFollows
  <2>6. Placed' \subseteq Placed /\ x \in Placed /\ x \notin Placed' /\ x \in cards /\ Apart'
    BY <1>1, <2>1 DEF Taken
  <2>7. Orderly(todo, ToSet(hand), Placed, ToSet(exhaust), Everything, cards)
    BY <1>1 DEF TodoInv
  <2>8. Orderly(todo', ToSet(hand), Placed', ToSet(exhaust), Everything, cards)
    BY <2>3, <2>4, <2>5, <2>6, <2>7, HavocFollows
  <2>9. Everything' = Everything
    BY <2>2 DEF Everything
  <2>10. TodoInv'
    BY <2>1, <2>2, <2>8, <2>9 DEF TodoInv
  <2>. QED
    BY <1>1, <2>2, <2>6, <2>9, <2>10, PlaceParts DEF PlaceInv
<1>11. CASE Headbutt
  <2>1. Running("headbutt") /\ Then(<<>>) /\ powers' = powers /\ cards' = cards /\ Moved
    BY <1>1, <1>11, HeadbuttMoves DEF Headbutt
  <2>. QED
    BY <1>2, <2>1, PlaceMoved
<1>12. CASE Warcry
  <2>1. Running("warcry") /\ Then(<<>>) /\ powers' = powers /\ cards' = cards /\ Moved
    BY <1>1, <1>12, WarcryMoves DEF Warcry
  <2>. QED
    BY <1>2, <2>1, PlaceMoved
<1>13. CASE Exhume
  <2>1. Running("exhume") /\ Then(<<>>) /\ powers' = powers /\ cards' = cards /\ Moved
    BY <1>1, <1>13, ExhumeMoves DEF Exhume
  <2>. QED
    BY <1>2, <2>1, PlaceMoved
<1>14. CASE Settle
  <2>1. PICK more : OnlyDraws(more) /\ Then(more)
    BY <1>1, <1>14, SettleMoves
  <2>2. Running("settle") /\ powers' = powers /\ cards' = cards
    BY <1>14 DEF Settle
  <2>3. /\ todo # <<>> /\ Arg \in cards /\ Len(todo) = 1
        /\ Arg \notin Placed \/ Arg \in ToSet(exhaust)
    BY <1>1, <2>2, SettleHead
  <2>4. todo[1][1] = "settle"
    BY <1>1, <2>2, RunningEffect
  <2>5. Added(Arg) /\ Apart'
    BY <1>1, <1>14, <2>3, SettleMoves DEF Added
  <2>6. ~Quiet(todo[1]) /\ Everything' = Everything /\ Placed' \subseteq Placed \cup {Arg}
    BY <2>2, <2>4, <2>5 DEF Quiet, Everything, Added
  <2>7. Clear(todo, {Arg}, ToSet(exhaust)')
    <3>1. \A k \in 2 .. Len(todo) : FALSE
      BY <2>3
    <3>. QED
      BY <3>1 DEF Clear
  <2>. QED
    BY <1>1, <2>1, <2>2, <2>3, <2>4, <2>5, <2>6, <2>7, PlaceOnward
<1>15. CASE Leave
  <2>1. PICK more : OnlyDraws(more) /\ Then(more)
    BY <1>1, <1>15, LeaveMoves
  <2>2. Running("leave") /\ powers' = powers /\ cards' = cards /\ ~Running("exhaust")
    BY <1>15 DEF Leave, Running
  <2>3. Put(Arg) /\ ToSet(hand) \subseteq ToSet(hand)' \cup {Arg} /\ ToSet(exhaust) \subseteq ToSet(exhaust)'
    BY <1>1, <1>15, LeaveMoves
  <2>. QED
    BY <2>1, <2>2, <2>3, PlacePut
<1>16. CASE EnemiesAct
  <2>1. Running("enemies") /\ powers' = powers /\ Then(<<>>) /\ hand' = hand /\ exhaust' = exhaust
    BY <1>1, <1>16, EnemiesActMoves DEF EnemiesAct
  <2>2. CASE Moved /\ cards' = cards
    BY <1>2, <2>1, <2>2, PlaceMoved
  <2>3. ASSUME NEW c \in Created \ cards, Added(c), cards' = cards \cup {c} PROVE PlaceInv'
    <3>1. todo # <<>> /\ todo[1][1] = "enemies"
      BY <1>1, <2>1, RunningEffect
    <3>2. ~Quiet(todo[1]) /\ Everything' = Everything
      BY <2>3, <3>1 DEF Quiet, Everything
    <3>3. Clear(todo, {c}, ToSet(exhaust)')
      <4>1. ASSUME NEW k \in 2 .. Len(todo), Placing(todo[k]) \/ todo[k][1] = "settle" PROVE todo[k][2] \in cards
        <5>1. k \in 1 .. Len(todo)
          BY <1>1, LenProperties
        <5>. QED
          BY <1>1, <4>1, <5>1 DEF TodoInv, Orderly, KnownInv, Placing
      <4>. QED
        BY <4>1 DEF Clear
    <3>4. Apart' /\ Placed' \subseteq Placed \cup {c}
      BY <1>1, <2>3 DEF Added
    <3>5. todo[1][1] # "draw" /\ {c} \subseteq cards' /\ cards \subseteq cards'
      BY <2>3, <3>1
    <3>. QED
      BY <1>2, <2>1, <3>1, <3>2, <3>3, <3>4, <3>5, PlaceOnward
  <2>. QED
    BY <1>1, <1>16, <2>2, <2>3, EnemiesActMoves
<1>. QED
  BY <1>3, <1>4, <1>5, <1>6, <1>7, <1>8, <1>9, <1>10, <1>11, <1>12, <1>13, <1>14, <1>15, <1>16 DEF Step

LEMMA PlaceStep == PlaceInv /\ [Next]_vars => PlaceInv'
<1>. SUFFICES ASSUME PlaceInv, [Next]_vars PROVE PlaceInv'
  OBVIOUS
<1>1. TypeInv /\ Apart /\ Placed \subseteq cards /\ PilesTyped
  BY DEF PlaceInv, TypeInv
<1>2. TypeInv'
  BY <1>1, TypeStep
<1>3. CASE Step
  BY <1>2, <1>3, PlaceEffect
<1>4. CASE EndTurn
  <2>1. UNCHANGED piles /\ powers' = powers /\ cards' = cards /\ Everything' = Everything
    BY <1>4 DEF EndTurn, Everything
  <2>2. Placed' = Placed /\ ToSet(hand)' = ToSet(hand) /\ Apart'
    BY <1>1, <2>1, NothingMoved
  <2>3. PICK n \in Nat :
            /\ Len(todo') = n + 2
            /\ \A i \in 1 .. n : /\ todo'[i][1] = "leave" /\ todo'[i][2] \in ToSet(hand)
                                 /\ \A j \in 1 .. n : todo'[i][2] = todo'[j][2] => i = j
            /\ todo'[n + 1][1] = "enemies" /\ todo'[n + 2][1] = "draw"
    <3>1. IsInjective(hand)
      BY <1>1 DEF Apart
    <3>. QED
      BY <1>1, <1>4, <3>1, EndTurnEffects
  <2>. DEFINE u == todo'
  <2>4. ToSet(hand) \subseteq cards
    BY <1>1 DEF Placed
  <2>5. Orderly(u, ToSet(hand), Placed, ToSet(exhaust), Everything, cards)
    BY <2>3, <2>4, EndTurnTodo
  <2>6. TodoInv'
    BY <2>1, <2>2, <2>5 DEF TodoInv, piles
  <2>. QED
    BY <1>1, <1>2, <2>1, <2>2, <2>6, PlaceParts DEF PlaceInv
<1>5. ASSUME NEW c \in Cards, PlayCard(c) PROVE PlaceInv'
  <2>1. Taken(c) /\ exhaust' = exhaust /\ cards' = cards /\ Everything' = Everything
    BY <1>1, <1>5, PlayCardMoves DEF PlayCard, Everything
  <2>2. Apart' /\ c \notin Placed' /\ c \in cards /\ Placed' \subseteq cards'
    BY <1>1, <2>1 DEF Taken
  \* A card that exhausts itself and a replay do not come together.
  <2>3. (\E d \in Everything : Is(d, SelfExhausting))
            => Replays(c) = {} /\ powers'["doubleTap"] = 0 /\ powers'["burst"] = 0
    <3>. SUFFICES ASSUME powers["doubleTap"] = 0, powers["burst"] = 0
                  PROVE  Replays(c) = {} /\ powers'["doubleTap"] = 0 /\ powers'["burst"] = 0
      BY DEF PlaceInv
    <3>1. Replays(c) = {}
      BY DEF Replays
    <3>2. powers' = [p \in Stacking |-> powers[p]]
      BY <1>5, <3>1 DEF PlayCard
    <3>3. "doubleTap" \in Stacking /\ "burst" \in Stacking
      BY DEF Stacking
    <3>. QED
      BY <3>1, <3>2, <3>3
  <2>4. \/ Replays(c) = {} /\ Len(todo') = 2 /\ todo'[1] = <<"play", c>> /\ todo'[2] = <<"settle", c>>
        \/ /\ Replays(c) # {} /\ Len(todo') = 3
           /\ todo'[1] = <<"play", c>> /\ todo'[2] = <<"play", c>> /\ todo'[3] = <<"settle", c>>
    BY <1>1, <1>5, PlayCardEffects
  <2>. DEFINE u == todo'
              held == ToSet(hand)'
              placed == Placed'
              gone == ToSet(exhaust)'
  <2>5. Orderly(u, held, placed, gone, Everything, cards)
    <3>1. (\E d \in Everything : Is(d, SelfExhausting)) => Len(u) = 2
      BY <2>3, <2>4
    <3>2. \/ Len(u) = 2 /\ u[1] = <<"play", c>> /\ u[2] = <<"settle", c>>
          \/ Len(u) = 3 /\ u[1] = <<"play", c>> /\ u[2] = <<"play", c>> /\ u[3] = <<"settle", c>>
      BY <2>4
    <3>3. c \notin placed /\ c \in cards
      BY <2>2
    <3>. HIDE DEF u, held, placed, gone
    <3>. QED
      BY <3>1, <3>2, <3>3, PlayCardTodo
  <2>6. TodoInv'
    BY <2>1, <2>5 DEF TodoInv
  <2>. QED
    BY <1>2, <2>1, <2>2, <2>3, <2>6, PlaceParts
<1>6. CASE UNCHANGED vars
  <2>1. UNCHANGED piles /\ UNCHANGED <<todo, powers, cards>> /\ Everything' = Everything
    BY <1>6 DEF vars, Everything
  <2>2. Placed' = Placed /\ ToSet(hand)' = ToSet(hand) /\ ToSet(exhaust)' = ToSet(exhaust) /\ Apart'
    BY <1>1, <2>1, NothingMoved
  <2>3. TodoInv'
    BY <2>1, <2>2 DEF TodoInv, PlaceInv
  <2>. QED
    BY <1>1, <1>2, <2>1, <2>2, <2>3, PlaceParts DEF PlaceInv
<1>. QED
  BY <1>3, <1>4, <1>5, <1>6 DEF Next

\* No deck, with the statuses the enemies create, holds both a card that
\* exhausts itself and one that makes a play() run other than once.
DecksSeparate == \A deck \in Decks : Separate(deck \cup Created)

LEMMA PlaceInit == DecksSeparate /\ Init => PlaceInv
<1>. SUFFICES ASSUME DecksSeparate, Init PROVE PlaceInv
  OBVIOUS
<1>1. TypeInv
  BY TypeInit
<1>2. Separate(Everything)
  BY DEF DecksSeparate, Everything, Init
<1>3. Apart /\ Placed \subseteq cards
  BY InitPiles
<1>4. TodoInv
  <2>1. Len(todo) = 1 /\ todo[1] = <<"draw", TurnDraw>>
    BY ConstantsAssumption, DrawsList DEF Init
  <2>2. \A i \in 1 .. Len(todo) : todo[i][1] = "draw"
    BY <2>1
  <2>. QED
    BY <2>2 DEF TodoInv, Orderly, HeldInv, OnceInv, SettleInv, PlayInv, KnownInv, Placing, Replaying
<1>5. powers["doubleTap"] = 0 /\ powers["burst"] = 0
  BY DEF Init, Stacking
<1>. QED
  BY <1>1, <1>2, <1>3, <1>4, <1>5 DEF PlaceInv

\* The inductive invariant of the piles.
THEOREM PlacesHold == DecksSeparate => (Spec => []PlaceInv)
<1>. SUFFICES ASSUME DecksSeparate PROVE Spec => []PlaceInv
  OBVIOUS
<1>1. Init => PlaceInv
  BY PlaceInit
<1>. QED
  BY <1>1, PlaceStep, PTL DEF Spec

\* "Pile membership is by IDENTITY": a card object is in one place of one pile,
\* for any cards and bounds and any decks that do not hold both kinds of card.
THEOREM OneCardOnePlace == DecksSeparate => (Spec => []OnePlace)
<1>. SUFFICES ASSUME DecksSeparate PROVE Spec => []OnePlace
  OBVIOUS
<1>1. PlaceInv => OnePlace
  BY AllPlaced DEF PlaceInv, TypeInv, OnePlace
<1>. QED
  BY <1>1, PlacesHold, PTL

=============================================================================
