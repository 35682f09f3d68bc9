CONSTANTS
    TC <- MCTC
    Roots <- MCRoots
    BasicMetas <- MCBasicMetas
    MaxDepth = 12
    Depth = 4
    ConstInts <- MCConstInts
    Sliced <- MCSliced
SPECIFICATION Spec
INVARIANTS
    TypeOK
    TranslationBounded
    MetaMatchesType
    ConstValueKept
INVARIANT VariadicAgrees
INVARIANT ComponentTypesAgree
