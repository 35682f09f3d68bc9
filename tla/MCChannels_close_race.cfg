CONSTANTS
    Fibers = {f1, f2, f3, f4}
    Chans = {c1, c2}
    Values = {a, b, d, e, g, h}
    NoValue = NoValue
    f1 = f1
    f2 = f2
    f3 = f3
    f4 = f4
    c1 = c1
    c2 = c2
    a = a
    b = b
    d = d
    e = e
    g = g
    h = h
    Cap <- MCCap
    Prog <- MCProgCloseRace
SPECIFICATION Spec
INVARIANT ChannelConservation
