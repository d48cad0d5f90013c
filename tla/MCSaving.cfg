CONSTANTS
    Row = {r1, r2}
    MaxTries = 3
SYMMETRY MCSymmetry
SPECIFICATION SaSpec
INVARIANTS SaTypeOK NobodyReadsDrafts
PROPERTIES SavedWhole TrueMeansSaved
