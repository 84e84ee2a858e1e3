SPECIFICATION Spec
CONSTANTS
    ByteAnd <- BitwiseAnd
    Slots <- OneSlot
    Sites = {x}
    Words = {v, w}
    Masters = {m1, m2}
    NoKey = NoKey
    MaxStored = 2
    Erased = Erased
    Garbage = Garbage
    FlashErrors = TRUE
    LossDuringStore = TRUE
SYMMETRY Symmetry
INVARIANTS
    TypeOK
    CleanMeansDurable
    OnlyTornCountOverruns
