--------------------------------- MODULE InitGraph ---------------------------------
(***************************************************************************)
(* kern/init.c: the operations that set the kernel up, run in an order in  *)
(* which the dependencies of each come first, found by Kahn's algorithm.   *)
(* The initial states are all graphs on the operations.                    *)
(***************************************************************************)
EXTENDS Naturals, Sequences, FiniteSets, SequencesExt

CONSTANT Op     \* the operations, by their place in their section: 1..n

VARIABLES
    deps,       \* the dependencies of each operation, and the required ones
    required,
    nr_parents, \* operations not yet sorted that depend on each
    state,
    error,      \* what each function has returned, EAGAIN before
    stack,
    pending_ops,
    phase,      \* sorting, running, done, or halted
    called      \* history: the functions that were called

vars == <<deps, required, nr_parents, state, error, stack, pending_ops, phase, called>>

Parents(op) == {p \in Op : op \in deps[p]}

(* The operations of a set, pushed on a stack in some order. *)
Pushed(ops, s) == {order \o s : order \in SetToSeqs(ops)}

(* init_bootstrap() counts the parents of each, and init_scan_roots()      *)
(* pushes who has none.                                                    *)
Init ==
    /\ deps \in {d \in [Op -> SUBSET Op] : \A op \in Op : op \notin d[op]}
    /\ required \in {r \in [Op -> SUBSET Op] : \A op \in Op : r[op] \subseteq deps[op]}
    /\ nr_parents = [op \in Op |-> Cardinality(Parents(op))]
    /\ state = [op \in Op |-> "unlinked"]
    /\ error = [op \in Op |-> "EAGAIN"]
    /\ stack = SetToSortSeq({op \in Op : Parents(op) = {}}, >)
    /\ pending_ops = <<>>
    /\ phase = "sort"
    /\ called = {}

--------------------------------------------------------------------------------

(* A turn of the loop of init_scan_ops(), with init_op_visit().  An        *)
(* operation has its dependencies in any order.                            *)
init_scan_ops ==
    /\ phase = "sort" /\ stack /= <<>>
    /\ LET op == Head(stack)
           orphans == {d \in deps[op] : nr_parents[d] = 1}
       IN /\ state' = [state EXCEPT ![op] = "pending"]
          /\ pending_ops' = <<op>> \o pending_ops
          /\ nr_parents' = [d \in Op |-> nr_parents[d] - IF d \in deps[op] THEN 1 ELSE 0]
          /\ stack' \in Pushed(orphans, Tail(stack))
    /\ UNCHANGED <<deps, required, error, phase, called>>

(* Operations that are left depend on each other. *)
Sorted ==
    /\ phase = "sort" /\ stack = <<>>
    /\ phase' = IF Len(pending_ops) = Cardinality(Op) THEN "run" ELSE "halted"
    /\ UNCHANGED <<deps, required, nr_parents, state, error, stack, pending_ops, called>>

init_op_ready(op) ==
    /\ \A d \in deps[op] : state[d] = "complete"
    /\ \A d \in required[op] : error[d] = "none"

(* init_op_run() *)
init_run_ops ==
    /\ phase = "run" /\ pending_ops /= <<>>
    /\ LET op == Head(pending_ops)
       IN /\ pending_ops' = Tail(pending_ops)
          /\ state' = [state EXCEPT ![op] = "complete"]
          /\ IF init_op_ready(op)
             THEN /\ \E result \in {"none", "error"} : error' = [error EXCEPT ![op] = result]
                  /\ called' = called \cup {op}
             ELSE UNCHANGED <<error, called>>
    /\ UNCHANGED <<deps, required, nr_parents, stack, phase>>

Finish ==
    /\ phase = "run" /\ pending_ops = <<>>
    /\ phase' = "done"
    /\ UNCHANGED <<deps, required, nr_parents, state, error, stack, pending_ops, called>>

(* cpu_halt(), and what follows init_setup(). *)
Stays == phase \in {"halted", "done"} /\ UNCHANGED vars

Next == init_scan_ops \/ Sorted \/ init_run_ops \/ Finish \/ Stays

Spec == Init /\ [][Next]_vars

--------------------------------------------------------------------------------

TypeOK ==
    /\ nr_parents \in [Op -> 0..Cardinality(Op)]
    /\ state \in [Op -> {"unlinked", "pending", "complete"}]
    /\ error \in [Op -> {"EAGAIN", "none", "error"}]
    /\ stack \in Seq(Op) /\ pending_ops \in Seq(Op)
    /\ phase \in {"sort", "run", "halted", "done"}

(* An operation is on the stack once, and not sorted yet; the operations   *)
(* without parents left are those that were sorted or are on it.           *)
AssertsHold ==
    LET stacked == {stack[i] : i \in DOMAIN stack} IN
    /\ Cardinality(stacked) = Len(stack)
    /\ \A op \in stacked : state[op] = "unlinked"
    /\ phase = "sort" =>
           \A op \in Op : nr_parents[op] = 0 <=> op \in stacked \/ state[op] = "pending"
    /\ phase = "run" => \A i \in DOMAIN pending_ops : state[pending_ops[i]] = "pending"

(* Whatever the graph and the order of its operations, a function is       *)
(* called when those of all its dependencies were, or will never be, and   *)
(* only if the required ones have succeeded: who was not called lacks one. *)
(* Boot halts if and only if operations depend on each other in a circle.  *)
Circle(ops) == ops /= {} /\ \A op \in ops : deps[op] \cap ops /= {}

OrderSound ==
    /\ \A op \in called : \A d \in deps[op] :
           state[d] = "complete" /\ (d \in required[op] => d \in called /\ error[d] = "none")
    /\ phase = "done" =>
           \A op \in Op \ called : \E d \in required[op] : error[d] /= "none"
    /\ phase \in {"halted", "done"} =>
           (phase = "halted" <=> \E ops \in SUBSET Op : Circle(ops))
================================================================================
