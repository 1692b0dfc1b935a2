CONSTANTS
    Packages <- Builtin
    Half = 128
    FloatBase = 32
    SignBit = 80
    Derived = 9
    StackSize = 8
    HeapSize = 8
    TruthValues <- MCTruthValues
    Senders = {7}
    MaxChannels = 1
    ChannelSize = 1
    MaxQueued = 1
    MaxMessages = 2
    MaxUuid = 1
    Gifts <- MCGifts
    MaxSti = 8
    Preloads <- MCPreloads
    Programs <- MCPrograms
    Trees <- MCTrees
    Depth <- MCDepth
    MaxDepth = 8
    Literal <- MCLiteral
    Offset <- MCOffset
    TypeName = "MyAtom"
    MaxClauses = 2
    MaxBytes = 200
SPECIFICATION SpecElbo
INVARIANTS
    TypeOK
    StaysInSection
    CompiledAsGrammar
PROPERTIES
    HandlersHalt
    FormsConsume
