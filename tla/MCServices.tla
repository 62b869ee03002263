------------------------------- MODULE MCServices -------------------------------
(***************************************************************************)
(* The real-time mutex and, while its threads are idle, the page tables,   *)
(* whose variables are s1 and so on, in the order in which PageTable       *)
(* declares its own.                                                       *)
(*                                                                         *)
(* The threads are the tree of test/test_mutex_pi.c, cut down to what      *)
(* still inherits through an owner that waits: b owns m2 and waits for m1, *)
(* that a owns; c waits for m2, and d for m2 (Tree) or for m1 (Fork).  All *)
(* threads of that test have a processor each.                             *)
(***************************************************************************)
EXTENDS RtMutex, TLC

CONSTANTS a, b, c, d, m1, m2

Four == {a, b, c, d}
Priorities == a :> 1 @@ b :> 2 @@ c :> 4 @@ d :> 3
Tree == a :> <<m1>> @@ b :> <<m2, m1>> @@ c :> <<m2>> @@ d :> <<m2>>
Fork == a :> <<m1>> @@ b :> <<m2, m1>> @@ c :> <<m2>> @@ d :> <<m1>>

VARIABLES
    which,          \* the component that moves
    s1, s2, s3, s4, s5, s6, s7, s8, s9, s10, s11, s12

(* Three levels of tables: the lower half of the addresses, with the .boot *)
(* section, a hole, and the upper half, with physical memory, addresses    *)
(* that are entered and removed, and the kernel.  The two processors need  *)
(* at most 13 pages.                                                       *)
MaxCalls == 3
Tables == INSTANCE PageTable WITH
    Bits <- <<1, 2, 2>>, Top <- 64, EndAddress <- 16, StartKernel <- 48,
    EndKernel <- 63, LargeLevel <- 1, BootSection <- 1, DirectmapEnd <- 7,
    KernelStart <- 63, KernelOffset <- 60, Kmem <- {56, 57}, Frame <- {20},
    Ptp <- 100..112, GlobalPages <- TRUE, NrCpus <- 2, MaxOps <- 2,
    MaxMappings <- 1, Null <- Nobody, phase <- s1, pt <- s2, root <- s3,
    types <- s4, stale <- s5, oplist <- s6, op <- s7, next <- s8, failed <- s9,
    want <- s10, doubt <- s11, calls <- s12

ASSUME TablesAssumption == Tables!UpdateAssumption

--------------------------------------------------------------------------------

(* The real-time mutex uses none of these. *)
Unused ==
    /\ s1 = Nobody /\ s2 = Nobody /\ s3 = Nobody /\ s4 = Nobody /\ s5 = Nobody
    /\ s6 = Nobody /\ s7 = Nobody /\ s8 = Nobody /\ s9 = Nobody /\ s10 = Nobody
    /\ s11 = Nobody /\ s12 = Nobody

others == <<which, s1, s2, s3, s4, s5, s6, s7, s8, s9, s10, s11, s12>>
all == <<vars, others>>

AllInit ==
    /\ Init
    /\ \/ which = "rtmutex" /\ Unused
       \/ which = "tables" /\ Tables!Init

(* Once it has asked for all it may, the thread of the page tables goes on *)
(* with something else.                                                    *)
AllNext ==
    \/ which = "rtmutex" /\ Next /\ UNCHANGED others
    \/ which = "tables" /\ Tables!Next /\ UNCHANGED <<vars, which>>
    \/ which = "tables" /\ s12 = MaxCalls /\ UNCHANGED all

(* That of RtMutex. *)
AllFairness ==
    \A t \in Four :
        /\ SF_all(which = "rtmutex" /\ Progress(t) /\ UNCHANGED others)
        /\ WF_all(which = "rtmutex" /\ Timeout(t) /\ UNCHANGED others)

AllSpec == AllInit /\ [][AllNext]_all /\ AllFairness

(* What the code gets wrong, alone. *)
RtMutexAlone ==
    /\ Init /\ which = "rtmutex" /\ Unused
    /\ [][which = "rtmutex" /\ Next /\ UNCHANGED others]_all

--------------------------------------------------------------------------------

(* Each processor has page tables of its own, that translate what was      *)
(* mapped at boot and what was entered since, through copies, failures and *)
(* lists of operations; see PageTable.                                     *)
PageTablesSound ==
    which = "tables" =>
        /\ Tables!TypeOK /\ Tables!TablesSound
        /\ Tables!TranslationsSound /\ Tables!EntersUnmapped

(* A processor does not use a translation that was removed. *)
TlbSound == which = "tables" => Tables!TlbSound
================================================================================
