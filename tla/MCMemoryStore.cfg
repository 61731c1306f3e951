SPECIFICATION Spec
CONSTANTS
    Stores = {s1, s2}
    Namespaces = {"users"}
    Keys = {k1, k2}
    Ids = {i1, i2}
    Times = {1, 2}
    Limit = 1
    NoRow = NoRow
    NoDraft = NoDraft
PROPERTIES
    ImplementsContract
    IdentityIsStable
