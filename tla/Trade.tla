------------------------------- MODULE Trade -------------------------------
(***************************************************************************)
(* Trading between players, src/src/game.cpp and player.cpp: requests,     *)
(* counter offers, acceptance, and the hooks through which a trade is      *)
(* called off when an offered item or one of the players moves.  All of it *)
(* runs in tasks of the dispatcher, one task is one step.                  *)
(*                                                                         *)
(* A player reaches the items at a distance of one and trades at two.  A   *)
(* tile gives access to any of its items instead of the topmost.           *)
(***************************************************************************)
EXTENDS Items

CONSTANT ThrowRange      \* how far an item can be thrown

VARIABLES world,         \* see Items
          at,            \* the positions of the players
          trade,         \* tradeState, tradePartner, tradeItem of each player
          tradeItems,    \* Game::tradeItems: who offers an item
          up,            \* the server runs
          spent          \* history: how much of the stacks was used up

tVars == <<world, at, trade, tradeItems, up, spent>>

NoTrade == [state |-> "none",           \* none, initiated, accept, acknowledge
            with  |-> Nowhere,          \* tradePartner
            item  |-> Nowhere]          \* tradeItem

Offered(i) == i # Nowhere

\* Everything lies on the first tile, the players stand there, the stacks are full.
TInit == LET start == Min(Tile) IN
         /\ world = [content |-> [c \in Cylinder |-> IF c = start THEN Item ELSE {}],
                     parent  |-> [i \in Item |-> start],
                     count   |-> [s \in Stack |-> StackSize]]
         /\ at = [p \in Player |-> start]
         /\ trade = [p \in Player |-> NoTrade]
         /\ tradeItems = [i \in Item |-> Nowhere]
         /\ up = TRUE
         /\ spent = 0
-----------------------------------------------------------------------------
(* internalCloseTrade for the players in C: partners and offers go too.    *)

Partners(C) == C \cup {trade[p].with : p \in {q \in C : trade[q].with # Nowhere}}

Ended(C) == [p \in Player |-> IF p \in Partners(C) THEN NoTrade ELSE trade[p]]

Withdrawn(C) ==
    LET offers == {trade[p].item : p \in Partners(C)}
    IN [i \in Item |-> IF i \in offers THEN Nowhere ELSE tradeItems[i]]

CloseTrades(C) == /\ trade' = Ended(C)
                  /\ tradeItems' = Withdrawn(C)
-----------------------------------------------------------------------------
(* Whom the hooks of Player make call off the trade.                       *)

\* Container::on...ContainerItem tells the players next to the container.
Sees(w, p, c) == Distance(at[p], PositionOf(w, at, c)) <= 1

\* checkTradeState(i): i is the offer, or lies in it.
Touches(w, p, i) == LET offer == trade[p].item IN offer = i \/ Holds(w, offer, i)

\* onRemoveInventoryItem, onRemoveContainerItem, onRemoveTileItem: besides,
\* what is removed holds the offer, or what it is removed from does.
RemovalEnds(w, i) ==
    LET c == w.parent[i] IN
    {p \in Player : Offered(trade[p].item) /\
        LET offer == trade[p].item IN
        \/ c = p          /\ (Touches(w, p, i) \/ Holds(w, i, offer))
        \/ c \in Bag /\ Sees(w, p, c) /\ (\/ Touches(w, p, i)
                                          \/ w.parent[offer] # c /\ Holds(w, c, offer))
        \/ c \in Tile     /\ (offer = i \/ Holds(w, i, offer))}

\* onUpdateInventoryItem, onUpdateContainerItem, onUpdateTileItem.
UpdateEnds(w, i) ==
    LET c == w.parent[i] IN
    {p \in Player : Offered(trade[p].item) /\
        \/ c = p /\ Touches(w, p, i)
        \/ c \in Bag /\ Sees(w, p, c) /\ Touches(w, p, i)
        \/ c \in Tile /\ trade[p].item = i}

\* onAddContainerItem; nothing is done for an inventory or a tile.
AdditionEnds(w, i) ==
    LET c == w.parent[i] IN
    {p \in Player : Offered(trade[p].item) /\ c \in Bag /\ Sees(w, p, c) /\ Touches(w, p, i)}

\* All the hooks of one transfer from w to w2.
TransferEnds(w, w2, i, m, onto, clone) ==
    LET whole == i \notin Stack \/ m = w.count[i]
        n == IF i \in Stack THEN MergedCount(w, onto, m) ELSE 0
        new == IF whole THEN i ELSE clone
    IN (IF whole THEN RemovalEnds(w, i) ELSE UpdateEnds(w, i))
       \cup (IF n > 0 THEN UpdateEnds(w, onto) ELSE {})
       \cup (IF n = m THEN {} ELSE AdditionEnds(w2, new))
-----------------------------------------------------------------------------
(* Items are moved, used up, and players walk.                             *)

\* What player p has at hand: its own things and those on tiles next to it.
Reaches(p, i) == /\ world.parent[i] # Nowhere
                 /\ TopOf(world, i) \in {p} \cup {t \in Tile : Distance(at[p], t) <= 1}

Amounts(w, i) == IF i \in Stack THEN 1..w.count[i] ELSE {1}

\* How i can go from one cylinder to another in world w, at these indices:
\* the world after it, and whose trades end.
Transfers(w, i, from, c, indices, ontos, amounts) ==
    LET after(m, index, onto, clone) ==
            IF i \in Stack THEN StackMoved(w, i, from, m, c, IndexIn(c, index), onto, clone)
                           ELSE Relocated(w, i, from, c, IndexIn(c, index))
        ways == {x \in [onto : ontos, m : amounts, index : indices, clone : Stack \cup {Nowhere}] :
                   IF i \in Stack
                   THEN /\ x.m <= MostThatFits(w, i, c, x.onto)
                        /\ IF x.m = w.count[i] \/ x.m = MergedCount(w, x.onto, x.m)
                           THEN x.clone = Nowhere
                           ELSE x.clone \in Fresh(w)
                   ELSE x.clone = Nowhere /\ HasPlace(w, c)}
    IN {[world |-> after(x.m, x.index, x.onto, x.clone),
         ends  |-> TransferEnds(w, after(x.m, x.index, x.onto, x.clone), i, x.m, x.onto, x.clone)] :
           x \in ways}

\* playerMoveItem and internalMoveItem: to a tile, a bag at hand, or an own
\* slot.  Dropped on the capacity window it goes to one of these as well.
MoveItem(p, i, from, c) ==
    /\ i \in world.content[from] /\ Reaches(p, i)
    /\ \/ c = p
       \/ c \in Bag /\ Reaches(p, c)
       \/ c \in Tile /\ Distance(at[p], c) <= ThrowRange
    /\ FitsUnder(world, i, c)
    /\ \E to \in Transfers(world, i, from, c, Index, Onto(world, i, c), Amounts(world, i)) :
          /\ world' = to.world
          /\ CloseTrades(to.ends)
    /\ UNCHANGED <<at, up, spent>>

\* RETURNVALUE_NEEDEXCHANGE: i goes from a bag of p's to the slot of j, which
\* is no bag and no stack like i, and j to the bag of i.
Exchange(p, i, j) ==
    LET bag == world.parent[i]
        swapped == Relocated(world, j, p, bag, "within")
        jEnds == RemovalEnds(world, j) \cup AdditionEnds(swapped, j)
    IN /\ bag \in Bag /\ TopOf(world, i) = p
       /\ j \in world.content[p] \ Bag /\ ~(i \in Stack /\ j \in Stack)
       /\ FitsUnder(world, j, bag)
       /\ HasPlace(world, bag) \/ Mates(world, j, bag) # {}
       /\ \E to \in Transfers(swapped, i, bag, p, {"within"}, {Nowhere}, Amounts(swapped, i)) :
             /\ world' = to.world
             /\ CloseTrades(jEnds \cup to.ends)
       /\ UNCHANGED <<at, up, spent>>

\* internalRemoveItem of one of a stack: it is used, eaten, or decays.
UseUp(i) ==
    /\ i \in Stack /\ world.parent[i] # Nowhere
    /\ world' = Spent([world EXCEPT !.count[i] = @ - 1], i, world.parent[i])
    /\ spent' = spent + 1
    /\ CloseTrades(IF world.count[i] = 1 THEN RemovalEnds(world, i) ELSE UpdateEnds(world, i))
    /\ UNCHANGED <<at, up>>

\* Player::onCreatureMove: too far from the offer, or from the partner.
OutOfReach_OwnOfferOnly(p, pos) ==
    /\ trade[p].item # Nowhere
    /\ Distance(PositionOf(world, pos, world.parent[trade[p].item]), pos[p]) > 1

OutOfReach(p, pos) ==
    \/ /\ trade[p].item # Nowhere
       /\ Distance(PositionOf(world, pos, world.parent[trade[p].item]), pos[p]) > 1
    \/ /\ trade[p].with # Nowhere
       /\ Distance(pos[trade[p].with], pos[p]) > 2

\* A step or a teleport.
Walk(p) == /\ \E pos \in Tile \ {at[p]} : at' = [at EXCEPT ![p] = pos]
           /\ CloseTrades(IF OutOfReach(p, at') THEN {p} ELSE {})
           /\ UNCHANGED <<world, up, spent>>
-----------------------------------------------------------------------------
(* Requests and acceptance.                                                *)

\* playerRequestTrade: the item, what is in it, or what it is in.
BeingTraded(i) == \E j \in Item : /\ tradeItems[j] # Nowhere
                                  /\ i = j \/ Holds(world, i, j) \/ Holds(world, j, i)

\* internalStartTrade.
MayStart_PartnerBusy(p, q) ==
    trade[p].state = "none" \/ (trade[p].state = "acknowledge" /\ trade[p].with = q)

MayStart(p, q) ==
    /\ trade[p].state = "none" \/ (trade[p].state = "acknowledge" /\ trade[p].with = q)
    /\ trade[q].state = "none" \/ trade[q].with = p

RequestTrade(p, q, i) ==
    /\ p # q /\ Distance(at[p], at[q]) <= 2
    /\ Reaches(p, i)
    /\ ~BeingTraded(i)
    /\ MayStart(p, q)
    /\ trade' = [trade EXCEPT ![p] = [state |-> "initiated", with |-> q, item |-> i],
                              ![q] = IF @.state = "none"
                                     THEN [@ EXCEPT !.state = "acknowledge", !.with = p]
                                     ELSE @]
    /\ tradeItems' = [tradeItems EXCEPT ![i] = p]
    /\ UNCHANGED <<world, at, up, spent>>

\* Player::queryDestination for "wherever": a stack to add to (if merge) or a
\* free slot, else a bag, but not the offered one.
Destinations(w, q, i, merge) ==
    LET offer == trade[q].item
        slots == (IF merge THEN Mates(w, i, q) \ {offer} ELSE {})
                 \cup (IF HasPlace(w, q) THEN {Nowhere} ELSE {})
        skipped(b) == /\ Offered(offer) /\ (b = offer \/ Holds(w, offer, b))
                      /\ w.parent[offer] = q \/ (merge /\ i \in Stack)
        bags == {b \in Bag : /\ Holds(w, q, b) /\ ~skipped(b) /\ FitsUnder(w, i, b)
                             /\ HasPlace(w, b) \/ (merge /\ Mates(w, i, b) # {})}
    IN IF slots # {} THEN {q} \X slots
       ELSE UNION {{b} \X Onto(w, i, b) : b \in bags}

\* Player::queryMaxCount over all slots and bags, the offered one included.
Room(w, q, i) ==
    LET carried == {c \in {q} \cup Bag : c = q \/ Holds(w, q, c)}
    IN (IF \E c \in carried : HasPlace(w, c) THEN StackSize ELSE 0)
       + MapThenSumSet(LAMBDA j : StackSize - w.count[j], UNION {Mates(w, i, c) : c \in carried})

\* internalAddItem(test): would i find room with q?
Fits_Always(q, i) == TRUE

Fits(q, i) == /\ Destinations(world, q, i, TRUE) # {}
              /\ Room(world, q, i) >= (IF i \in Stack THEN world.count[i] ELSE 1)

\* internalMoveItem of the whole of i to q, FLAG_IGNOREAUTOSTACK; not into
\* the item that is traded for it.
Handed(w, q, i, not) ==
    UNION {Transfers(w, i, w.parent[i], d[1], {"within"}, {d[2]}, {IF i \in Stack THEN w.count[i] ELSE 1}) :
             d \in {e \in Destinations(w, q, i, FALSE) :
                      e[1] # not /\ (e[1] \in Bag => ~Holds(w, not, e[1]))}}

\* Both have accepted.  What comes of the second move is not looked at.
Swap(p, q) ==
    LET x == trade[p].item
        y == trade[q].item
    IN /\ Offered(x) /\ Offered(y)
       /\ Fits(q, x) /\ Fits(p, y)
       /\ \E first \in Handed(world, q, x, y) :
            LET seconds == Handed(first.world, p, y, Nowhere)
            IN \E second \in IF seconds # {} THEN seconds
                             ELSE {[world |-> first.world, ends |-> {}]} :
                 /\ world' = second.world
                 /\ CloseTrades({p} \cup ((first.ends \cup second.ends) \ {p, q}))

\* Who offers the backpack it wears is asked for the slot of the other item,
\* and that pointer is null when there is no counter offer.
OffersBackpackForNothing(p, q) ==
    /\ trade[p].item \in Bag /\ world.parent[trade[p].item] = p
    /\ ~Offered(trade[q].item)

\* A trade of which something stands in the way (walls, scripts, weight, room,
\* a missing counter offer) ends as if it had been closed.  The last disjunct
\* is the server reading through the null pointer; a bag in the inventory may
\* be the backpack, or lie in another slot.
AcceptTrade(p) ==
    /\ trade[p].state \in {"acknowledge", "initiated"}
    /\ LET q == trade[p].with IN
       \/ /\ trade[q].state # "accept"
          /\ trade' = [trade EXCEPT ![p].state = "accept"]
          /\ UNCHANGED <<world, tradeItems, up>>
       \/ /\ trade[q].state = "accept"
          /\ CloseTrades({p})
          /\ UNCHANGED <<world, up>>
       \/ /\ trade[q].state = "accept"
          /\ Swap(p, q)
          /\ UNCHANGED up
       \/ /\ trade[q].state = "accept"
          /\ OffersBackpackForNothing(p, q) \/ OffersBackpackForNothing(q, p)
          /\ up' = FALSE
          /\ UNCHANGED <<world, trade, tradeItems>>
    /\ UNCHANGED <<at, spent>>

\* playerCloseTrade, or the player leaves the game.
CloseTrade(p) == /\ trade[p].with # Nowhere
                 /\ CloseTrades({p})
                 /\ UNCHANGED <<world, at, up, spent>>
-----------------------------------------------------------------------------
TNext == /\ up
         /\ \E p \in Player :
           \/ \E i \in Item, from, c \in Cylinder : MoveItem(p, i, from, c)
           \/ \E i, j \in Item : Exchange(p, i, j)
           \/ \E q \in Player, i \in Item : RequestTrade(p, q, i)
           \/ Walk(p) \/ AcceptTrade(p) \/ CloseTrade(p)
           \/ \E i \in Item : UseUp(i)

TSpec == TInit /\ [][TNext]_tVars
-----------------------------------------------------------------------------
Someone == Player \cup {Nowhere}

TTypeOK == /\ world \in World
           /\ at \in [Player -> Tile]
           /\ trade \in [Player -> [state : {"none", "initiated", "accept", "acknowledge"},
                                    with : Someone, item : Item \cup {Nowhere}]]
           /\ tradeItems \in [Item -> Someone]
           /\ up \in BOOLEAN
           /\ spent \in 0..(StackSize * Cardinality(Stack))

\* No item is doubled, lost or lies in itself: the lists of the cylinders and
\* the parent pointers say the same after every transfer, which first takes
\* the item out and then puts it in or, in a bag, does not; and every item
\* hangs under a tile or a player, but a stack that was used up.
WorldIsATree ==
    /\ \A i \in Item, c \in Cylinder : i \in world.content[c] <=> world.parent[i] = c
    /\ \A b \in Bag : ~Holds(world, b, b)
    /\ \A i \in Item : world.parent[i] = Nowhere => i \in Stack /\ world.count[i] = 0

\* Splitting, merging and trading neither make nor lose money: what lies
\* somewhere and what was used up is what there was.
StacksConserved ==
    MapThenSumSet(LAMBDA s : world.count[s], {s \in Stack : world.parent[s] # Nowhere}) + spent
        = StackSize * Cardinality(Stack)

\* However requests, counter offers and acceptances of several players cross,
\* trades are between two, each of whom knows the other, who was only asked
\* offers nothing yet, and tradeItems lists just what they offer.
PartnersAgree ==
    /\ \A p \in Player : LET q == trade[p].with IN
         /\ trade[p].state = "none" <=> q = Nowhere
         /\ trade[p].state \in {"none", "acknowledge"} => ~Offered(trade[p].item)
         /\ q # Nowhere => /\ q # p /\ trade[q].with = p
                           /\ Offered(trade[p].item) \/ Offered(trade[q].item)
                           /\ ~(trade[p].state = "accept" /\ trade[q].state = "accept")
    /\ \A p \in Player, i \in Item : trade[p].item = i <=> tradeItems[i] = p

\* What is offered can still be reached by the one who offers it, is not part
\* of another offer, and the partners are near each other: whatever moves,
\* whoever moves it, some hook calls the trade off.
OffersAtHand ==
    \A p \in Player :
        /\ Offered(trade[p].item) =>
             /\ Reaches(p, trade[p].item)
             /\ \A q \in Player \ {p} : Offered(trade[q].item) =>
                    ~Holds(world, trade[q].item, trade[p].item)
        /\ trade[p].with # Nowhere => Distance(at[p], at[trade[p].with]) <= 2

\* A trade hands over both offers or none.  The exception is a stack that was
\* to go to a full inventory: the test counts room in other stacks, which the
\* move does not use, and nobody looks at the result of the second move.
Moves(i) == world'.parent[i] # world.parent[i]

TradeSwapsBoth ==
    [][\A p \in Player :
          LET x == trade[p].item
              y == trade[trade[p].with].item
          IN (AcceptTrade(p) /\ Offered(x) /\ Offered(y))
             => \/ Moves(x) <=> Moves(y)
                \/ y \in Stack /\ ~HasPlace(world, p)]_tVars
=============================================================================
