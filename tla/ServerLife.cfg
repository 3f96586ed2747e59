CONSTANTS
    k1 = k1
    k2 = k2
    Keys = {k1, k2}
    Absent = Absent
    Empty = Empty
    None = None
    LIMIT = 3
    Addresses = {"off", "v6", "v4"}
SPECIFICATION Spec
INVARIANTS OneKey EndsOnlyTheDeaf
PROPERTIES DeadSocketGoes
