SPECIFICATION Spec
CONSTANTS
    Node = {n1, n2, n3}
    Prio = {1, 2}
    Plist = head
    Null = Null
INVARIANTS
    OneEntryPerPriority
