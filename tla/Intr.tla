----------------------------------- MODULE Intr -----------------------------------
(***************************************************************************)
(* kern/intr.c: the entry of one interrupt vector.  Drivers add and remove *)
(* handlers, which share the interrupt, under the spin lock of the entry;  *)
(* the processor the interrupt goes to runs them with that lock held.  The *)
(* controller delivers the interrupt while it is enabled, one at a time    *)
(* until it is acknowledged.                                               *)
(***************************************************************************)
EXTENDS Sequences, FiniteSets

CONSTANT Handler    \* as given by the drivers

VARIABLES
    controller, \* there is one for the vector
    handlers,   \* the list of the entry
    ctl,        \* entry->ctl is set
    enabled,    \* the interrupt is, in the controller
    in_service, \* delivered, and not acknowledged
    driver,     \* where the driver of each handler is
    pc,         \* where intr_handle() is
    todo,       \* the handlers it has yet to run
    memory      \* the handlers that are allocated

vars == <<controller, handlers, ctl, enabled, in_service, driver, pc, todo, memory>>

Init ==
    /\ controller = FALSE
    /\ handlers = <<>>
    /\ ctl = FALSE
    /\ enabled = FALSE
    /\ in_service = FALSE
    /\ driver = [h \in Handler |-> "idle"]
    /\ pc = "idle"
    /\ todo = <<>>
    /\ memory = {}

Empty == handlers = <<>>
Unlocked == pc \in {"idle", "enter"}

Goto(h, from, to) == driver[h] = from /\ driver' = [driver EXCEPT ![h] = to]

--------------------------------------------------------------------------------
(* Drivers *)

(* Drivers that come before the controller get an error. *)
intr_register_ctl ==
    /\ ~controller
    /\ controller' = TRUE
    /\ UNCHANGED <<handlers, ctl, enabled, in_service, driver, pc, todo, memory>>

(* intr_handler_create(), which may fail. *)
intr_register(h) ==
    /\ Goto(h, "idle", "add")
    /\ memory' = memory \cup {h}
    /\ UNCHANGED <<controller, handlers, ctl, enabled, in_service, pc, todo>>

(* The first handler enables the interrupt. *)
intr_entry_add(h) ==
    /\ Unlocked
    /\ IF Empty /\ ~controller
       THEN Goto(h, "add", "destroy") /\ UNCHANGED <<handlers, ctl, enabled>>
       ELSE /\ Goto(h, "add", "registered")
            /\ handlers' = Append(handlers, h)
            /\ ctl' = TRUE /\ enabled' = TRUE
    /\ UNCHANGED <<controller, in_service, pc, todo, memory>>

(* The last one disables it. *)
intr_entry_remove(h) ==
    /\ Unlocked
    /\ Goto(h, "registered", "destroy")
    /\ handlers' = SelectSeq(handlers, LAMBDA other : other /= h)
    /\ enabled' = (handlers' /= <<>>)
    /\ UNCHANGED <<controller, ctl, in_service, pc, todo, memory>>

intr_handler_destroy(h) ==
    /\ Goto(h, "destroy", "idle")
    /\ memory' = memory \ {h}
    /\ UNCHANGED <<controller, handlers, ctl, enabled, in_service, pc, todo>>

--------------------------------------------------------------------------------
(* The processor *)

Deliver ==
    /\ enabled /\ ~in_service /\ pc = "idle"
    /\ in_service' = TRUE
    /\ pc' = "enter"
    /\ UNCHANGED <<controller, handlers, ctl, enabled, driver, todo, memory>>

(* intr_handle(), with the lock.  Handlers may be gone since the delivery. *)
intr_handle ==
    /\ pc = "enter"
    /\ pc' = IF Empty THEN "idle" ELSE "run"
    /\ todo' = handlers
    /\ UNCHANGED <<controller, handlers, ctl, enabled, in_service, driver, memory>>

(* A handler returns an error if the interrupt is not from its device. *)
intr_handler_run ==
    /\ pc = "run" /\ todo /= <<>>
    /\ \/ todo' = Tail(todo) /\ pc' = pc
       \/ todo' = <<>> /\ pc' = "eoi"
    /\ UNCHANGED <<controller, handlers, ctl, enabled, in_service, driver, memory>>

intr_entry_eoi ==
    /\ pc = "eoi" \/ (pc = "run" /\ todo = <<>>)
    /\ in_service' = FALSE
    /\ pc' = "idle"
    /\ todo' = <<>>
    /\ UNCHANGED <<controller, handlers, ctl, enabled, driver, memory>>

Next ==
    \/ \E h \in Handler :
           \/ intr_register(h) \/ intr_entry_add(h)
           \/ intr_entry_remove(h) \/ intr_handler_destroy(h)
    \/ intr_register_ctl \/ Deliver \/ intr_handle \/ intr_handler_run \/ intr_entry_eoi

Spec == Init /\ [][Next]_vars

--------------------------------------------------------------------------------

Listed(s) == {s[i] : i \in DOMAIN s}

TypeOK ==
    /\ handlers \in Seq(Handler) /\ todo \in Seq(Handler)
    /\ controller \in BOOLEAN /\ ctl \in BOOLEAN
    /\ enabled \in BOOLEAN /\ in_service \in BOOLEAN
    /\ driver \in [Handler -> {"idle", "add", "registered", "destroy"}]
    /\ pc \in {"idle", "enter", "run", "eoi"}
    /\ memory \subseteq Handler

(* What is acknowledged has a controller, and an interrupt is enabled as   *)
(* long as there is someone to handle it.                                  *)
AssertsHold ==
    /\ pc \in {"run", "eoi"} => controller /\ ctl /\ in_service
    /\ enabled <=> ~Empty

(* Handlers that the processor runs are those of drivers that have not     *)
(* removed them, and are allocated.                                        *)
HandlersLive ==
    /\ Listed(todo) \subseteq Listed(handlers)
    /\ Listed(handlers) = {h \in Handler : driver[h] = "registered"}
    /\ {h \in Handler : driver[h] /= "idle"} \subseteq memory
================================================================================
