SPECIFICATION Spec
CONSTANTS
    ByteAnd <- BitwiseAnd
    Slots <- OneSlot
    Sites = {x}
    Words = {v}
    Masters = {m1, m2}
    NoKey = NoKey
    MaxStored = 1
    Erased = Erased
    Garbage = Garbage
    FlashErrors = FALSE
    LossDuringStore = TRUE
INVARIANTS
    IdentMeansValid
