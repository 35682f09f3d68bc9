CONSTANTS
    MaxDepth = 2
SPECIFICATION Spec
CONSTRAINT FewLiveRanges
INVARIANT SlotsSuffice
