CONSTANTS
    Player = {a, b, c}
    Bag = {g, h}
    Stack = {s1, s2}
    Thing = {}
    Tile <- MCTile
    Slots = 2
    BagSize = 2
    ThrowRange = 1
    StackSize = 2
    Nowhere = nowhere
SYMMETRY MCSymmetry
SPECIFICATION TSpec
INVARIANTS TTypeOK WorldIsATree StacksConserved PartnersAgree OffersAtHand
PROPERTIES TradeSwapsBoth
CHECK_DEADLOCK FALSE
