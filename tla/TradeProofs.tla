---------------------------- MODULE TradeProofs ----------------------------
(***************************************************************************)
(* Proofs about Trade.tla, for any set of players and items.  Where items  *)
(* lie does not matter to them: whichever trades the hooks call off, what  *)
(* is left are trades between two.                                         *)
(***************************************************************************)
EXTENDS Trade, TLAPS

TradeRecord == [state : {"none", "initiated", "accept", "acknowledge"},
                with  : Someone,
                item  : Item \cup {Nowhere}]

\* PartnersAgree and the types of the two variables it is about.
TradeInv == /\ trade \in [Player -> TradeRecord]
            /\ tradeItems \in [Item -> Someone]
            /\ PartnersAgree

\* Nobody's partner is null, and null is no item.
LEMMA NowhereIsNothing == Nowhere \notin Player /\ Nowhere \notin Item
  BY ItemsAssumption DEF ItemsAssumption, Item

\* internalCloseTrade ends whole trades: a player whose trade is left has a
\* partner whose trade is left.
LEMMA CloseTradesKeepsInv ==
  ASSUME TradeInv, NEW C \in SUBSET Player, CloseTrades(C)
  PROVE  TradeInv'
<1> DEFINE gone == Partners(C)
<1>1. gone \subseteq Player
  BY DEF TradeInv, Partners, TradeRecord, Someone
<1>2. \A p \in Player : trade'[p] = IF p \in gone THEN NoTrade ELSE trade[p]
  BY DEF CloseTrades, Ended
<1>3. \A i \in Item : tradeItems'[i] = IF \E p \in gone : trade[p].item = i
                                       THEN Nowhere ELSE tradeItems[i]
  BY DEF CloseTrades, Withdrawn
<1>4. \A p \in Player \ gone : trade[p].with \notin gone
  BY NowhereIsNothing DEF TradeInv, PartnersAgree, Partners, TradeRecord, Someone
<1>5. trade' \in [Player -> TradeRecord]
  BY DEF TradeInv, CloseTrades, Ended, NoTrade, TradeRecord, Someone
<1>6. tradeItems' \in [Item -> Someone]
  BY DEF TradeInv, CloseTrades, Withdrawn, Someone
<1>7. ASSUME NEW p \in Player, p \in gone
      PROVE  trade'[p] = NoTrade
  BY <1>2, <1>7
<1>8. ASSUME NEW p \in Player
      PROVE  LET q == trade'[p].with IN
             /\ trade'[p].state = "none" <=> q = Nowhere
             /\ trade'[p].state \in {"none", "acknowledge"} => ~Offered(trade'[p].item)
             /\ q # Nowhere => /\ q # p /\ trade'[q].with = p
                               /\ Offered(trade'[p].item) \/ Offered(trade'[q].item)
                               /\ ~(trade'[p].state = "accept" /\ trade'[q].state = "accept")
  <2>1. CASE p \in gone
    BY <2>1, <1>2 DEF NoTrade, Offered
  <2>2. CASE p \notin gone
    <3>1. trade'[p] = trade[p] /\ trade[p].with \notin gone
      BY <2>2, <1>2, <1>4
    <3>2. trade[p].with # Nowhere => trade'[trade[p].with] = trade[trade[p].with]
      BY <3>1, <1>2 DEF TradeInv, TradeRecord, Someone
    <3> QED  BY <3>1, <3>2 DEF TradeInv, PartnersAgree
  <2> QED  BY <2>1, <2>2
<1>9. ASSUME NEW p \in Player, NEW i \in Item
      PROVE  trade'[p].item = i <=> tradeItems'[i] = p
  <2>1. trade[p].item = i <=> tradeItems[i] = p
    BY DEF TradeInv, PartnersAgree
  <2>2. CASE p \in gone
    BY <2>1, <2>2, <1>2, <1>3, NowhereIsNothing DEF NoTrade
  <2>3. CASE p \notin gone
    <3>1. tradeItems[i] = p => ~\E r \in gone : trade[r].item = i
      BY <2>3, <1>1 DEF TradeInv, PartnersAgree
    <3> QED  BY <2>1, <2>3, <3>1, <1>2, <1>3, NowhereIsNothing
  <2> QED  BY <2>2, <2>3
<1> QED  BY <1>5, <1>6, <1>8, <1>9 DEF TradeInv, PartnersAgree

\* The hooks of the players call off trades of players only.
LEMMA HooksEndTradesOfPlayers ==
  /\ \A w, i : RemovalEnds(w, i) \in SUBSET Player
  /\ \A w, i : UpdateEnds(w, i) \in SUBSET Player
  /\ \A w, i : AdditionEnds(w, i) \in SUBSET Player
  BY DEF RemovalEnds, UpdateEnds, AdditionEnds

\* So do all those of a move.
LEMMA TransfersEndTradesOfPlayers ==
  ASSUME NEW w, NEW i, NEW from, NEW c, NEW indices, NEW ontos, NEW amounts,
         NEW to \in Transfers(w, i, from, c, indices, ontos, amounts)
  PROVE  to.ends \in SUBSET Player
<1>1. \A w2, m, onto, clone : TransferEnds(w, w2, i, m, onto, clone) \in SUBSET Player
  BY HooksEndTradesOfPlayers DEF TransferEnds
<1> QED  BY <1>1 DEF Transfers

\* And those of an item handed over in exchange.
LEMMA HandingOverEndsTradesOfPlayers ==
  ASSUME NEW w, NEW q, NEW i, NEW not, NEW to \in Handed(w, q, i, not)
  PROVE  to.ends \in SUBSET Player
<1>1. PICK d \in Destinations(w, q, i, FALSE) :
        to \in Transfers(w, i, w.parent[i], d[1], {"within"}, {d[2]},
                        {IF i \in Stack THEN w.count[i] ELSE 1})
  BY DEF Handed
<1> QED  BY <1>1, TransfersEndTradesOfPlayers

\* A request starts a trade or counters the partner's: neither of the two
\* has another partner, and nobody offers the item.
LEMMA RequestKeepsInv ==
  ASSUME TradeInv, NEW p \in Player, NEW q \in Player, NEW i \in Item, RequestTrade(p, q, i)
  PROVE  TradeInv'
<1> DEFINE mine == [state |-> "initiated", with |-> q, item |-> i]
           partners == IF trade[q].state = "none"
                       THEN [trade[q] EXCEPT !.state = "acknowledge", !.with = p]
                       ELSE trade[q]
<1>1. /\ p # q /\ tradeItems[i] = Nowhere
      /\ trade[p].state = "none" \/ (trade[p].state = "acknowledge" /\ trade[p].with = q)
      /\ trade[q].state = "none" \/ trade[q].with = p
  BY DEF RequestTrade, BeingTraded, MayStart
<1>2. /\ trade' = [trade EXCEPT ![p] = mine, ![q] = partners]
      /\ tradeItems' = [tradeItems EXCEPT ![i] = p]
  BY <1>1 DEF RequestTrade, TradeInv
<1>3. mine \in TradeRecord /\ partners \in TradeRecord
  BY DEF TradeInv, TradeRecord, Someone
<1>4. /\ trade' \in [Player -> TradeRecord]
      /\ tradeItems' \in [Item -> Someone]
  BY <1>2, <1>3 DEF TradeInv, Someone
<1>5. /\ trade'[p] = mine
      /\ trade'[q] = partners
      /\ \A r \in Player \ {p, q} : trade'[r] = trade[r]
  BY <1>1, <1>2 DEF TradeInv
<1>6. /\ partners.with = p
      /\ partners.item = trade[q].item
      /\ partners.state # "none"
      /\ trade[q].state # "none" => partners.state = trade[q].state
  BY <1>1, NowhereIsNothing DEF TradeInv, TradeRecord, PartnersAgree
<1>7. mine.state = "initiated" /\ mine.with = q /\ mine.item = i /\ Offered(mine.item)
  BY NowhereIsNothing DEF Offered
<1> HIDE DEF mine, partners
<1>8. \A r \in Player \ {p, q} : trade[r].with \notin {p, q}
  BY <1>1, NowhereIsNothing DEF TradeInv, PartnersAgree
<1>9. ~Offered(trade[p].item)
  BY <1>1 DEF TradeInv, PartnersAgree
<1>10. ASSUME NEW r \in Player
      PROVE  LET s == trade'[r].with IN
             /\ trade'[r].state = "none" <=> s = Nowhere
             /\ trade'[r].state \in {"none", "acknowledge"} => ~Offered(trade'[r].item)
             /\ s # Nowhere => /\ s # r /\ trade'[s].with = r
                               /\ Offered(trade'[r].item) \/ Offered(trade'[s].item)
                               /\ ~(trade'[r].state = "accept" /\ trade'[s].state = "accept")
  <2>1. CASE r = p
    BY <2>1, <1>1, <1>5, <1>6, <1>7, NowhereIsNothing
  <2>2. CASE r = q
    <3>1. trade[q].state = "none" => ~Offered(trade[q].item)
      BY DEF TradeInv, PartnersAgree
    <3>2. trade[q].state = "acknowledge" => ~Offered(trade[q].item)
      BY DEF TradeInv, PartnersAgree
    <3>3. partners.state = "acknowledge" => ~Offered(partners.item)
      BY <3>1, <3>2, <1>6
    <3> QED  BY <2>2, <3>3, <1>1, <1>5, <1>6, <1>7, NowhereIsNothing
  <2>3. CASE r \notin {p, q}
    <3>1. trade'[r] = trade[r] /\ trade[r].with \notin {p, q}
      BY <2>3, <1>5, <1>8
    <3>2. trade[r].with # Nowhere => trade'[trade[r].with] = trade[trade[r].with]
      BY <3>1, <1>5 DEF TradeInv, TradeRecord, Someone
    <3> QED  BY <3>1, <3>2 DEF TradeInv, PartnersAgree
  <2> QED  BY <2>1, <2>2, <2>3
<1>11. ASSUME NEW r \in Player, NEW j \in Item
       PROVE  trade'[r].item = j <=> tradeItems'[j] = r
  <2>1. trade[r].item = j <=> tradeItems[j] = r
    BY DEF TradeInv, PartnersAgree
  <2>2. tradeItems'[j] = IF j = i THEN p ELSE tradeItems[j]
    BY <1>2 DEF TradeInv
  <2>3. CASE r = p
    BY <2>1, <2>2, <2>3, <1>5, <1>7, <1>9, NowhereIsNothing DEF Offered
  <2>4. CASE r = q
    BY <2>1, <2>2, <2>4, <1>1, <1>5, <1>6, NowhereIsNothing
  <2>5. CASE r \notin {p, q}
    BY <2>1, <2>2, <2>5, <1>1, <1>5, NowhereIsNothing
  <2> QED  BY <2>3, <2>4, <2>5
<1> QED  BY <1>4, <1>10, <1>11 DEF TradeInv, PartnersAgree

\* The first of the two acceptances changes one field.
LEMMA AcceptanceKeepsInv ==
  ASSUME TradeInv, NEW p \in Player,
         trade[p].state \in {"acknowledge", "initiated"},
         trade[trade[p].with].state # "accept",
         trade' = [trade EXCEPT ![p].state = "accept"],
         UNCHANGED tradeItems
  PROVE  TradeInv'
<1>1. trade' \in [Player -> TradeRecord]
  BY DEF TradeInv, TradeRecord
<1>2. \A r \in Player : /\ trade'[r].with = trade[r].with
                        /\ trade'[r].item = trade[r].item
                        /\ trade'[r].state = IF r = p THEN "accept" ELSE trade[r].state
  BY DEF TradeInv, TradeRecord
<1>3. \A r \in Player : trade[r].with # Nowhere => trade[r].with \in Player
  BY DEF TradeInv, TradeRecord, Someone
<1>4. trade[p].with # Nowhere /\ trade[trade[p].with].with = p
  BY DEF TradeInv, PartnersAgree
<1>5. ASSUME NEW r \in Player
      PROVE  LET s == trade'[r].with IN
             /\ trade'[r].state = "none" <=> s = Nowhere
             /\ trade'[r].state \in {"none", "acknowledge"} => ~Offered(trade'[r].item)
             /\ s # Nowhere => /\ s # r /\ trade'[s].with = r
                               /\ Offered(trade'[r].item) \/ Offered(trade'[s].item)
                               /\ ~(trade'[r].state = "accept" /\ trade'[s].state = "accept")
  <2>1. CASE r = p
    BY <2>1, <1>2, <1>3, <1>4 DEF TradeInv, PartnersAgree
  <2>2. CASE r # p
    BY <2>2, <1>2, <1>3, <1>4 DEF TradeInv, PartnersAgree
  <2> QED  BY <2>1, <2>2
<1> QED  BY <1>1, <1>2, <1>5 DEF TradeInv, PartnersAgree

\* At the second, the trade is over, whatever came of it.
LEMMA SwapKeepsInv ==
  ASSUME TradeInv, NEW p \in Player, NEW q \in Player, Swap(p, q)
  PROVE  TradeInv'
<1> DEFINE x == trade[p].item
           y == trade[q].item
<1>1. PICK first \in Handed(world, q, x, y) :
        LET seconds == Handed(first.world, p, y, Nowhere)
        IN \E second \in IF seconds # {} THEN seconds
                         ELSE {[world |-> first.world, ends |-> {}]} :
             CloseTrades({p} \cup ((first.ends \cup second.ends) \ {p, q}))
  BY DEF Swap
<1> DEFINE seconds == Handed(first.world, p, y, Nowhere)
<1>2. PICK second \in IF seconds # {} THEN seconds
                      ELSE {[world |-> first.world, ends |-> {}]} :
        CloseTrades({p} \cup ((first.ends \cup second.ends) \ {p, q}))
  BY <1>1
<1>3. first.ends \in SUBSET Player
  BY <1>1, HandingOverEndsTradesOfPlayers
<1>4. second.ends \in SUBSET Player
  <2>1. CASE seconds # {}
    BY <2>1, <1>2, HandingOverEndsTradesOfPlayers
  <2>2. CASE seconds = {}
    BY <2>2, <1>2
  <2> QED  BY <2>1, <2>2
<1> QED  BY <1>2, <1>3, <1>4, CloseTradesKeepsInv

\* However many players cross their requests, counter offers and
\* acceptances, and whatever is moved meanwhile, a trade is between two who
\* both know of it, and Game::tradeItems lists just what is offered.
THEOREM TradePartnersAgree == TSpec => []PartnersAgree
<1>1. TInit => TradeInv
  BY NowhereIsNothing
     DEF TInit, TradeInv, NoTrade, TradeRecord, Someone, PartnersAgree, Offered
<1>2. TradeInv /\ [TNext]_tVars => TradeInv'
  <2> SUFFICES ASSUME TradeInv, [TNext]_tVars PROVE TradeInv'
    OBVIOUS
  <2>1. ASSUME NEW p \in Player, NEW i \in Item, NEW from \in Cylinder, NEW c \in Cylinder,
               MoveItem(p, i, from, c)
        PROVE  TradeInv'
    <3>1. PICK to \in Transfers(world, i, from, c, Index, Onto(world, i, c), Amounts(world, i)) :
            CloseTrades(to.ends)
      BY <2>1 DEF MoveItem
    <3> QED  BY <3>1, TransfersEndTradesOfPlayers, CloseTradesKeepsInv
  <2>2. ASSUME NEW p \in Player, NEW i \in Item, NEW j \in Item, Exchange(p, i, j)
        PROVE  TradeInv'
    <3> DEFINE swapped == Relocated(world, j, p, world.parent[i], "within")
               jEnds == RemovalEnds(world, j) \cup AdditionEnds(swapped, j)
    <3>1. PICK to \in Transfers(swapped, i, world.parent[i], p, {"within"}, {Nowhere}, Amounts(swapped, i)) :
            CloseTrades(jEnds \cup to.ends)
      BY <2>2 DEF Exchange
    <3>2. jEnds \in SUBSET Player
      BY HooksEndTradesOfPlayers
    <3> QED  BY <3>1, <3>2, TransfersEndTradesOfPlayers, CloseTradesKeepsInv
  <2>3. ASSUME NEW p \in Player, NEW q \in Player, NEW i \in Item, RequestTrade(p, q, i)
        PROVE  TradeInv'
    BY <2>3, RequestKeepsInv
  <2>4. ASSUME NEW p \in Player, Walk(p)
        PROVE  TradeInv'
    <3>1. PICK C \in SUBSET Player : CloseTrades(C)
      BY <2>4 DEF Walk
    <3> QED  BY <3>1, CloseTradesKeepsInv
  <2>5. ASSUME NEW p \in Player, AcceptTrade(p)
        PROVE  TradeInv'
    <3>1. trade[p].with \in Player
      BY <2>5 DEF AcceptTrade, TradeInv, TradeRecord, Someone, PartnersAgree
    <3>2. CASE /\ trade[trade[p].with].state # "accept"
               /\ trade' = [trade EXCEPT ![p].state = "accept"]
               /\ UNCHANGED tradeItems
      BY <2>5, <3>2, AcceptanceKeepsInv DEF AcceptTrade
    <3>3. CASE CloseTrades({p})
      BY <3>3, CloseTradesKeepsInv
    <3>4. CASE Swap(p, trade[p].with)
      BY <3>1, <3>4, SwapKeepsInv
    <3>5. CASE UNCHANGED <<trade, tradeItems>>
      BY <3>5 DEF TradeInv, PartnersAgree, Offered
    <3> QED  BY <2>5, <3>2, <3>3, <3>4, <3>5 DEF AcceptTrade
  <2>6. ASSUME NEW p \in Player, CloseTrade(p)
        PROVE  TradeInv'
    BY <2>6, CloseTradesKeepsInv DEF CloseTrade
  <2>7. ASSUME NEW i \in Item, UseUp(i)
        PROVE  TradeInv'
    <3>1. PICK C \in SUBSET Player : CloseTrades(C)
      BY <2>7, HooksEndTradesOfPlayers DEF UseUp
    <3> QED  BY <3>1, CloseTradesKeepsInv
  <2>8. CASE UNCHANGED tVars
    BY <2>8 DEF tVars, TradeInv, PartnersAgree, Offered
  <2> QED
    BY <2>1, <2>2, <2>3, <2>4, <2>5, <2>6, <2>7, <2>8 DEF TNext
<1>3. TradeInv => PartnersAgree
  BY DEF TradeInv
<1> QED
  BY <1>1, <1>2, <1>3, PTL DEF TSpec
=============================================================================
