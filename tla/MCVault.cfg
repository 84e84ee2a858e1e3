SPECIFICATION FairSpec
CONSTANTS
    ByteAnd <- BitwiseAnd
    Slots <- TwoSlots
    Sites = {x, y}
    Words = {v}
    Masters = {m1, m2}
    NoKey = NoKey
    MaxStored = 2
    Erased = Erased
    Garbage = Garbage
    FlashErrors = FALSE
    LossDuringStore = FALSE
    NoVault = NoVault
    NoSession = NoSession
INVARIANTS
    IdentMeansValid
PROPERTIES
    SlotIsolation
    CommitCompletes
    ImplementsVault
    RemoveTakesItsOwn
