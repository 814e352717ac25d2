-------------------------------- MODULE ActMap --------------------------------
(****************************************************************************)
(* The map of an act (map_gen.py): floors of rooms in columns, each room     *)
(* with edges to columns of the next floor, and the boss above the last      *)
(* floor.  A map is a record: cols[f] the columns of floor f, kind[f][c] the *)
(* type of a room, edges[f][c] the columns its edges name.                   *)
(****************************************************************************)
EXTENDS Integers, FiniteSets

CONSTANTS
    EliteFloor,     \* no elite below this floor (the code: 4)
    MerchantFloor,  \* the lowest floor a merchant is put on (the code: 2)
    TreasureFloor   \* the lowest floor a treasure is put on (the code: 1)

ASSUME FloorsAssumption == {EliteFloor, MerchantFloor, TreasureFloor} \subseteq Nat

NodeTypes == {"MONSTER", "ELITE", "EVENT", "REST", "MERCHANT", "TREASURE"}

Distance(a, b) == IF a < b THEN b - a ELSE a - b

\* sorted(cols, key=|c - col|) is stable and cols ascend: the lower column
\* comes first among equally near ones.
Nearer(col, a, b) ==
    \/ Distance(a, col) < Distance(b, col)
    \/ Distance(a, col) = Distance(b, col) /\ a < b

Nearest(col, cols, k) == {c \in cols : Cardinality({d \in cols : Nearer(col, d, c)}) < k}
TheNearest(col, cols) == CHOOSE c \in Nearest(col, cols, 1) : TRUE

\* _wire_edges: each room to one or two of the nearest columns above it.
Wirings(cols, above) ==
    {edges \in [cols -> SUBSET above] :
        \A c \in cols : edges[c] \in {Nearest(c, above, 1), Nearest(c, above, 2)}}

\* The type the first room below with an edge to the column has.
PrevType(kinds, edges, col) ==
    LET parents == {c \in DOMAIN edges : col \in edges[c]}
    IN  IF parents = {} THEN "none"
        ELSE kinds[CHOOSE c \in parents : \A d \in parents : c <= d]

\* _roll_node_type: what the roll of a room may give.
Rolls(floor, prev) ==
    NodeTypes \ (   (IF prev = "REST" THEN {"REST"} ELSE {})
               \cup (IF floor < EliteFloor \/ prev = "ELITE" THEN {"ELITE"} ELSE {}))

\* Bug: only the rooms below are looked after, not the columns above.
Connected_NoParents(edges, cols, above) ==
    [c \in cols |-> IF edges[c] \cap above = {} THEN {TheNearest(c, above)} ELSE edges[c] \cap above]

\* _ensure_connectivity for one floor: edges to columns that do not exist are
\* dropped, a room left without any gets the nearest column, and every column
\* above that nothing reaches is given the nearest room below as its parent.
Connected(edges, cols, above) ==
    LET valid == [c \in cols |-> IF edges[c] \cap above = {}
                                 THEN {TheNearest(c, above)} ELSE edges[c] \cap above]
        orphans == above \ UNION {valid[c] : c \in cols}
    IN  [c \in cols |-> valid[c] \cup {o \in orphans : TheNearest(o, cols) = c}]

\* _ensure_node_type: the monster rooms one of which is replaced when the map
\* has no room of the type at all.
Replaceable(map, type, minFloor) ==
    IF \E f \in DOMAIN map.kind : \E c \in DOMAIN map.kind[f] : map.kind[f][c] = type THEN {}
    ELSE UNION {{<<f, c>> : c \in {d \in DOMAIN map.kind[f] : map.kind[f][d] = "MONSTER"}} :
                    f \in {g \in DOMAIN map.kind : g >= minFloor}}

\* reachable_from: the columns a room of a floor below the last leads to.
reachable_from(map, floor, col) == map.edges[floor][col] \cap map.cols[floor + 1]
==============================================================================
