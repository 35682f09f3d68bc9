CONSTANTS
    main = main
    outer = outer
    inner = inner
    inner2 = inner2
    Funcs = {main, outer, inner}
    Entry = main
    Vals = {0, 1}
    Zero = 0
    MaxDepth = 3
    MaxAct = 4
    MaxUV = 5
    MaxCls = 2
    UpPtrs <- MCUpPtrs
    NSlots <- MCNSlots
    Lits <- MCLits
    Calls <- MCCalls
SPECIFICATION Spec
INVARIANT VariableCoherence
