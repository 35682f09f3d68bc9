CONSTANTS
    Bytes = {x, y}
    MaxSize = 2
    MaxHandles = 2
    Flags <- MCFlags
    Slots = {"StdOut"}
    Input <- MCInput
    MaxStdIo = 2
SPECIFICATION Spec
PROPERTY ImplementsGoFile
