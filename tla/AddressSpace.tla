------------------------------ MODULE AddressSpace ------------------------------
(***************************************************************************)
(* What a map of virtual memory promises: each page of the space maps at   *)
(* most one thing, a mapping is entered where nothing was mapped and a     *)
(* removal affects the pages of its range only.                            *)
(***************************************************************************)
EXTENDS Naturals

CONSTANTS
    Object,     \* objects that can be mapped
    Flags,      \* protection, inheritance and advice
    NullObject, \* the object of special kernel mappings
    Unmapped,
    Start,      \* first page of the space
    End         \* page that follows the last one

VARIABLE space  \* what each page maps

Page == Start..(End - 1)

avars == <<space>>

(* A page maps one page of an object, or memory that its owner manages. *)
Mapping(object, offset, flags) ==
    [object |-> object, flags |-> flags,
     offset |-> IF object = NullObject THEN 0 ELSE offset]

AInit == space = [p \in Page |-> Unmapped]

Enter(start, size) ==
    LET range == start..(start + size - 1) IN
    /\ range \subseteq Page
    /\ \A p \in Page : IF p \in range THEN space[p] = Unmapped
                       ELSE space'[p] = space[p]
    /\ \E object \in Object \cup {NullObject}, flags \in Flags, offset \in 0..End :
          \A p \in range : space'[p] = Mapping(object, offset + (p - start), flags)

Remove(start, end) ==
    \A p \in Page :
        space'[p] = IF p \in start..(end - 1) THEN Unmapped ELSE space[p]

ANext ==
    \/ \E start \in Page, end \in Start..End : Remove(start, end)
    \/ \E start \in Page, size \in 1..(End - Start) : Enter(start, size)
=================================================================================
