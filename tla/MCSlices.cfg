CONSTANTS
    a1 = a1
    s1 = s1
    s2 = s2
    Arrs = {a1}
    SVars = {s1, s2}
    Elems = {0, 1, 2, 7}
    Written = {7}
    Nil = Nil
    MaxLen = 3
    Zero = 0
    Literals <- MCLiterals
    InitData <- MCInitData
    InitSlices <- MCInitSlices
SPECIFICATION Spec
INVARIANT TypeOK
INVARIANT EndInArray
PROPERTY AppendContents
PROPERTY PushContents
PROPERTY LiteralContents
CHECK_DEADLOCK FALSE
