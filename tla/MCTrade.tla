------------------------------ MODULE MCTrade ------------------------------
EXTENDS Trade, TLC

MCTile == {0, 3}

MCSymmetry == Permutations(Player) \cup Permutations(Bag) \cup Permutations(Stack)
=============================================================================
