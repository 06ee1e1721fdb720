CONSTANTS
    a1 = a1
    a2 = a2
    l1 = l1
    l2 = l2
    l3 = l3
    i1 = i1
    i2 = i2
    i3 = i3
    Turn = {t1, t2, t3, t4}
    Account = {a1, a2}
    Lane = {l1, l2, l3}
    AccountOf <- Owner
    Ident = {i1, i2, i3}
    Identities <- Identity
    Limits <- Equal
    MaxFrames = 1
    None = None
SPECIFICATION Spec
SYMMETRY Interchangeable
CHECK_DEADLOCK FALSE
INVARIANTS SocketCapKept
