------------------------------- MODULE Items -------------------------------
(***************************************************************************)
(* Where items lie: the cylinders of src/src (tiles, containers, the       *)
(* inventories of players) and what Game::internalMoveItem does with them. *)
(* A world is a record of the lists of the cylinders, the parent pointers  *)
(* of the items, and the counts of the stacks; operators take a world and  *)
(* return the changed one.                                                 *)
(*                                                                         *)
(* A tile is a position on a line and is never full; an inventory has      *)
(* Slots places that take anything, a bag BagSize.  Weight, item types and *)
(* scripts only refuse a move, and a refused move is no step.              *)
(***************************************************************************)
EXTENDS Naturals, FiniteSets, FiniteSetsExt

CONSTANTS Player, Bag, Stack, Thing,    \* disjoint sets; Bag, Stack and Thing are the items
          Tile,                         \* positions: \subseteq Nat
          Slots, BagSize, StackSize,    \* places of an inventory, of a bag; the largest count
          Nowhere                       \* the null parent

ASSUME ItemsAssumption ==
    /\ Tile \subseteq Nat
    /\ Slots \in Nat /\ BagSize \in Nat /\ StackSize \in Nat \ {0}
    /\ Nowhere \notin Player \cup Bag \cup Stack \cup Thing \cup Tile

Item == Bag \cup Stack \cup Thing
Cylinder == Player \cup Bag \cup Tile

World == [content : [Cylinder -> SUBSET Item],
          parent  : [Item -> Cylinder \cup {Nowhere}],
          count   : [Stack -> 0..StackSize]]
-----------------------------------------------------------------------------
(* The tree.                                                               *)

\* The parents of i, all the way up; Bag bounds the depth.
Above(w, i) ==
    LET up[n \in 0..Cardinality(Bag)] ==
            IF n = 0 THEN {w.parent[i]}
                     ELSE up[n - 1] \cup {w.parent[b] : b \in up[n - 1] \cap Bag}
    IN up[Cardinality(Bag)]

\* Cylinder::getTopParent: the tile or the player at the top.
TopOf(w, i) == CHOOSE c \in Above(w, i) \ Bag : TRUE

\* Container::isHoldingItem.
Holds(w, c, i) == c \in Above(w, i)

\* Thing::getPosition, with the players at these positions.
PositionOf(w, at, c) ==
    LET top == IF c \in Bag THEN TopOf(w, c) ELSE c
    IN IF top \in Player THEN at[top] ELSE top

Distance(x, y) == IF x < y THEN y - x ELSE x - y
-----------------------------------------------------------------------------
(* removeThing and addThing.                                               *)

SetParent(w, i, c) == [w EXCEPT !.parent[i] = c]
Listed(w, i, c)    == [w EXCEPT !.content[c] = @ \cup {i}]
Unlisted(w, i, c)  == [w EXCEPT !.content[c] = @ \ {i}]

\* The cylinder is the caller's, and what it does not list stays.
TakenOut(w, i, from) == IF i \in w.content[from]
                        THEN Unlisted(SetParent(w, i, Nowhere), i, from)
                        ELSE w

\* Where in a cylinder: at a place it has, at one beyond its capacity, or
\* anywhere.  The client counts the places of the window it shows.
Index == {"within", "beyond", "wherever"}

\* Container::queryDestination, before anything is taken out.
IndexIn_AsGiven(c, index) == index

IndexIn(c, index) == IF c \in Bag /\ index = "beyond" THEN "wherever" ELSE index

\* A bag returns without a word when the index is beyond its capacity.
PutIn(w, i, c, index) == IF c \in Bag /\ index = "beyond"
                         THEN w
                         ELSE Listed(SetParent(w, i, c), i, c)

Relocated(w, i, from, c, index) == PutIn(TakenOut(w, i, from), i, c, index)

\* A stack that ran out leaves the world.
Spent(w, i, from) == IF w.count[i] = 0 THEN TakenOut(w, i, from) ELSE w
-----------------------------------------------------------------------------
(* Where something may go.                                                 *)

Partial(w, i) == i \in Stack /\ w.parent[i] # Nowhere /\ w.count[i] < StackSize

HasPlace(w, c) == \/ c \in Tile
                  \/ c \in Player /\ Cardinality(w.content[c]) < Slots
                  \/ c \in Bag /\ Cardinality(w.content[c]) < BagSize

\* Container::queryAdd: neither into itself nor into what it holds.
FitsUnder(w, i, c) == c # i /\ (c \in Bag => ~Holds(w, i, c))

\* What else of the same kind in cylinder c could take some of i.
Mates(w, i, c) == IF i \in Stack THEN {j \in w.content[c] \ {i} : Partial(w, j)} ELSE {}

\* queryDestination of a tile or bag: the stack to merge with, Nowhere for
\* none.  A bag looks for one unless i lies in it already; a tile has none but
\* its topmost item, and a slot of an inventory the one that lies there.
Onto(w, i, c) ==
    IF c \in Bag /\ w.parent[i] # c /\ Mates(w, i, c) # {}
    THEN Mates(w, i, c)
    ELSE Mates(w, i, c) \cup {Nowhere}

\* queryMaxCount of the destination: how many of the stack i fit.
MostThatFits(w, i, c, onto) ==
    (IF c \in Tile THEN w.count[i] ELSE IF HasPlace(w, c) /\ (c \in Bag \/ onto = Nowhere)
                                        THEN StackSize ELSE 0)
    + (IF onto = Nowhere THEN 0 ELSE StackSize - w.count[onto])
-----------------------------------------------------------------------------
(* The transfer at the heart of internalMoveItem: m of the stack i go to   *)
(* cylinder c, first onto the stack there, the rest as a clone.  The clone *)
(* of a stack that went whole keeps its name.                              *)

MergedCount_All(w, onto, m) == IF onto = Nowhere THEN 0 ELSE m

MergedCount(w, onto, m) ==
    IF onto = Nowhere THEN 0 ELSE Min({StackSize - w.count[onto], m})

\* What is left for the clone.
Remainder_All(w, onto, m) == m

Remainder(w, onto, m) == m - MergedCount(w, onto, m)

Fresh(w) == {j \in Stack : w.parent[j] = Nowhere}

\* m of the stack i, listed by from, to cylinder c.
StackMoved(w, i, from, m, c, index, onto, clone) ==
    LET n == MergedCount(w, onto, m)
        rest == Remainder(w, onto, m)
        merged == IF n = 0 THEN w ELSE [w EXCEPT !.count[onto] = @ + n]
    IN CASE m = n        -> Spent([merged EXCEPT !.count[i] = @ - m], i, from)
         [] m # n /\ m = w.count[i] ->
                Relocated([merged EXCEPT !.count[i] = rest], i, from, c, index)
         [] m # n /\ m # w.count[i] ->
                PutIn([merged EXCEPT !.count[i] = @ - m, !.count[clone] = rest], clone, c, index)
=============================================================================
