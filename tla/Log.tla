------------------------------------ MODULE Log ------------------------------------
(***************************************************************************)
(* kern/log.c: the system log.  Producers push records in a circular       *)
(* buffer, erasing the oldest; the log thread consumes and prints them     *)
(* one by one, and the shell can dump the buffer meanwhile.  Each section  *)
(* with log_lock held is one step.                                         *)
(*                                                                         *)
(* A byte is known by its record, its index there and what it is; records  *)
(* of the producers are numbered in order, 0 is a report of overruns.      *)
(* Consumers read the buffer in chunks, so that they hold bytes of the     *)
(* next records when they release the lock.                                *)
(***************************************************************************)
EXTENDS Cbuf

CONSTANTS
    LastRecord, \* bound on the records that are logged
    Length,     \* the sizes of the texts
    MsgSize,    \* LOG_MSG_SIZE
    Shell       \* CONFIG_SHELL

VARIABLES
    logged,     \* records logged so far
    log_index,
    log_nr_overruns,
    pc,         \* where the log thread and the shell command are
    ctx,        \* the struct log_consume_ctx of each
    record,     \* the record each has consumed
    nr_overruns,    \* local variable of the log thread
    shell_started,
    printed,    \* history: the last record the log thread printed, and how
                \* many it has not while no overrun was reported
    moved,      \* history: the position of the log thread was changed while
                \* it had bytes left in its chunk
    blind       \* history: it sleeps and did not see the last records

lvars == <<logged, log_index, log_nr_overruns, pc, ctx, record, nr_overruns,
           shell_started, printed, moved, blind>>
vars == <<cvars, lvars>>

Consumer == {"log_run", "log_dump"}

\* offsetof(struct log_record, buffer), and sizeof(struct log_record).
Header == 2
RecordSize == Header + MsgSize

Bytes(r, n) ==
    [i \in 1..(Header + n + 1) |->
        [record |-> r, at |-> i,
         kind |-> CASE i = 1 -> "mark" [] i = 2 -> "level"
                    [] i = Header + n + 1 -> "null" [] OTHER -> "char"]]

LogByte ==
    [record : 0..LastRecord, at : 1..RecordSize, kind : {"mark", "level", "char", "null"}]

Index == 0..(IndexRange - 1)

TypeOK ==
    /\ CTypeOK
    /\ logged \in 0..LastRecord
    /\ log_index \in Index /\ log_nr_overruns \in Nat /\ nr_overruns \in Nat
    /\ pc \in [Consumer -> {"idle", "run", "shell", "asleep", "print", "report", "lost", "panic"}]
    /\ ctx \in [Consumer -> [cbuf_index : Index, buf : Seq(LogByte),
                             index : 0..MsgSize, size : 0..MsgSize]]
    /\ record \in [Consumer -> Seq(LogByte)]
    /\ shell_started \in BOOLEAN
    /\ printed \in [last : 0..LastRecord, missing : 0..LastRecord]
    /\ moved \in BOOLEAN /\ blind \in BOOLEAN

NewCtx(c) == [cbuf_index |-> c.start, buf |-> <<>>, index |-> 0, size |-> 0]

Init ==
    /\ CInit
    /\ logged = 0
    /\ log_index = InitIndex /\ log_nr_overruns = 0 /\ nr_overruns = 0
    /\ pc = [k \in Consumer |-> "idle"]
    /\ ctx = [k \in Consumer |-> NewCtx(cbuf)]
    /\ record = [k \in Consumer |-> <<>>]
    /\ shell_started = ~Shell
    /\ printed = [last |-> 0, missing |-> 0]
    /\ moved = FALSE /\ blind = FALSE

--------------------------------------------------------------------------------
(* Producers. *)

(* log_vmsg(): the records that the log thread had not consumed and that   *)
(* were erased are accounted, and it is woken up.                          *)
log_write(r) ==
    /\ \E n \in Length : cbuf_push(Bytes(r, n), TRUE)
    /\ IF cbuf_range_valid(cbuf', log_index, Plus(log_index, 1))
       THEN UNCHANGED <<log_index, log_nr_overruns>>
       ELSE /\ log_index' = cbuf'.start
            /\ log_nr_overruns' = log_nr_overruns + Minus(cbuf'.start, log_index)

log_vmsg ==
    /\ logged < LastRecord
    /\ logged' = logged + 1
    /\ log_write(logged + 1)
    /\ pc' = IF pc["log_run"] = "asleep" THEN [pc EXCEPT !["log_run"] = "run"] ELSE pc
    /\ blind' = FALSE
    /\ UNCHANGED <<ctx, record, nr_overruns, shell_started, printed, moved>>

--------------------------------------------------------------------------------
(* Consumers. *)

Empty(x) == x.cbuf_index = cbuf.end

(* The bytes that a consumer can read: those left of its chunk, then those *)
(* of the buffer, from its position plus as many.                          *)
Rest(x) == SubSeq(x.buf, x.index + 1, x.size)

Available(x) ==
    LET from == Plus(x.cbuf_index, Len(Rest(x))) IN
    Rest(x) \o cbuf_read(cbuf, from, Capacity)

(* The position is not valid any more when the chunk is exhausted.         *)
Lost(x) ==
    LET from == Plus(x.cbuf_index, Len(Rest(x))) IN
    from /= cbuf.end /\ ~cbuf_range_valid(cbuf, from, Plus(from, 1))

(* log_consume_ctx_pop(), n times: chunks are read one after the other.    *)
Popped(x, n) ==
    LET rest == Len(Rest(x))
        first == Plus(x.cbuf_index, rest + MsgSize * ((n - rest - 1) \div MsgSize))
        chunk == cbuf_read(cbuf, first, MsgSize)
        at == Plus(x.cbuf_index, n)
    IN  IF n <= rest THEN [x EXCEPT !.cbuf_index = at, !.index = @ + n]
        ELSE [cbuf_index |-> at, buf |-> chunk, index |-> Minus(at, first),
              size |-> Len(chunk)]

(* log_record_init_consume(): bytes are skipped up to a mark, the next is  *)
(* the level, and the record ends with a null, or where nothing is left.   *)
(* Without a mark, 0 here, there is no record.                             *)
Delimits(bytes, mark, end) ==
    LET Kind(i) == bytes[i].kind IN
    /\ \A i \in 1..Len(bytes) : (mark = 0 \/ i < mark) => Kind(i) /= "mark"
    /\ mark > 0 => Kind(mark) = "mark"
    /\ \A i \in (mark + 2)..(end - 1) : mark > 0 => Kind(i) /= "null"
    /\ \/ end = Len(bytes)
       \/ mark > 0 /\ end > mark + 1 /\ Kind(end) = "null"

(* Its assertions are that the level is one, and that the record fits. *)
Asserts(bytes, mark, end) ==
    mark > 0 => /\ end > mark => bytes[mark + 1].kind = "level"
                /\ end - mark < RecordSize

\* A consumer takes the record that is next in its bytes.
Consume(k, x, bytes, mark, end) ==
    /\ Delimits(bytes, mark, end)
    /\ ctx' = [ctx EXCEPT ![k] = Popped(x, end)]
    /\ record' = [record EXCEPT ![k] = IF mark = 0 THEN <<>> ELSE SubSeq(bytes, mark, end)]
    /\ pc' = [pc EXCEPT ![k] = IF Asserts(bytes, mark, end) THEN "print" ELSE "panic"]

(* log_run(), from where it takes the lock to where it releases it: it     *)
(* resumes at log_index, sleeps if there is nothing to consume, or         *)
(* consumes a record.                                                      *)
log_run ==
    /\ pc["log_run"] = "run"
    /\ \E x \in {[ctx["log_run"] EXCEPT !.cbuf_index = log_index]} :
          /\ moved' = (moved \/ (x /= ctx["log_run"] /\ Rest(x) /= <<>>))
          /\ \/ /\ Empty(x)
                /\ ctx' = [ctx EXCEPT !["log_run"] = x]
                /\ pc' = [pc EXCEPT !["log_run"] =
                              IF shell_started THEN "asleep" ELSE "shell"]
                /\ UNCHANGED <<log_index, log_nr_overruns, record, nr_overruns>>
             \/ /\ ~Empty(x)
                /\ \E bytes \in {Available(x)} :
                   \E mark \in 0..Len(bytes), end \in 1..Len(bytes) :
                      /\ Consume("log_run", x, bytes, mark, end)
                      /\ log_index' = Plus(x.cbuf_index, end)
                /\ IF log_index' = cbuf.end
                   THEN nr_overruns' = log_nr_overruns /\ log_nr_overruns' = 0
                   ELSE UNCHANGED <<nr_overruns, log_nr_overruns>>
    /\ UNCHANGED <<cvars, logged, shell_started, printed, blind>>

(* The log thread starts. *)
Start ==
    /\ pc["log_run"] = "idle"
    /\ ctx' = [ctx EXCEPT !["log_run"] = NewCtx(cbuf)]
    /\ log_index' = cbuf.start
    /\ pc' = [pc EXCEPT !["log_run"] = "run"]
    /\ UNCHANGED <<cvars, logged, log_nr_overruns, record, nr_overruns, shell_started,
                   printed, moved, blind>>

(* log_start_shell(), between two sections: the thread sleeps when it has  *)
(* the lock again, and did not see what was logged meanwhile.              *)
log_start_shell ==
    /\ pc["log_run"] = "shell"
    /\ shell_started' = TRUE
    /\ log_index' = ctx["log_run"].cbuf_index
    /\ pc' = [pc EXCEPT !["log_run"] = "asleep"]
    /\ blind' = (log_index' /= cbuf.end)
    /\ UNCHANGED <<cvars, logged, log_nr_overruns, ctx, record, nr_overruns, printed, moved>>

Whole(rec) ==
    /\ rec /= <<>> /\ rec[Len(rec)].kind = "null"
    /\ \A i \in 1..Len(rec) : rec[i].record = rec[1].record /\ rec[i].at = i

log_record_print ==
    LET rec == record["log_run"] IN
    /\ pc["log_run"] = "print"
    /\ pc' = [pc EXCEPT !["log_run"] = IF nr_overruns > 0 THEN "report" ELSE "run"]
    /\ printed' = IF ~Whole(rec) \/ rec[1].record = 0 THEN printed
                  ELSE [last |-> rec[1].record,
                        missing |-> printed.missing + rec[1].record - printed.last - 1]
    /\ UNCHANGED <<cvars, logged, log_index, log_nr_overruns, ctx, record, nr_overruns,
                   shell_started, moved, blind>>

(* Overruns are reported in the log itself. *)
Report ==
    /\ pc["log_run"] = "report"
    /\ log_write(0)
    /\ nr_overruns' = 0
    /\ printed' = [printed EXCEPT !.missing = 0]
    /\ pc' = [pc EXCEPT !["log_run"] = "run"]
    /\ UNCHANGED <<logged, ctx, record, shell_started, moved, blind>>

(* log_dump().  When records that it has not read are erased while it      *)
(* prints, it reads its last chunk again: what it prints then is not       *)
(* modelled, pc is "lost".                                                 *)
log_dump ==
    /\ pc["log_dump"] \in {"idle", "run"}
    /\ \E x \in {IF pc["log_dump"] = "idle" THEN NewCtx(cbuf) ELSE ctx["log_dump"]} :
          \/ /\ Lost(x)
             /\ pc' = [pc EXCEPT !["log_dump"] = "lost"]
             /\ UNCHANGED <<ctx, record>>
          \/ /\ ~Lost(x) /\ ~Empty(x)
             /\ \E bytes \in {Available(x)} :
                \E mark \in 1..Len(bytes), end \in 1..Len(bytes) :
                   Consume("log_dump", x, bytes, mark, end)
          \/ /\ ~Lost(x) /\ \A i \in 1..Len(Available(x)) : Available(x)[i].kind /= "mark"
             /\ pc' = [pc EXCEPT !["log_dump"] = "idle"]
             /\ ctx' = [ctx EXCEPT !["log_dump"] = NewCtx(cbuf)]
             /\ UNCHANGED record
    /\ UNCHANGED <<cvars, logged, log_index, log_nr_overruns, nr_overruns,
                   shell_started, printed, moved, blind>>

Dumped ==
    /\ \/ pc["log_dump"] = "print" /\ pc' = [pc EXCEPT !["log_dump"] = "run"]
       \/ pc["log_dump"] = "lost" /\ pc' = [pc EXCEPT !["log_dump"] = "idle"]
    /\ UNCHANGED <<cvars, logged, log_index, log_nr_overruns, ctx, record, nr_overruns,
                   shell_started, printed, moved, blind>>

Progress == log_run \/ Start \/ log_start_shell \/ log_record_print \/ Report

Next == log_vmsg \/ log_dump \/ Dumped \/ Progress

Spec == Init /\ [][Next]_vars

--------------------------------------------------------------------------------

(* A record that is printed is one that was logged, whole, and the         *)
(* assertions on its level and its size hold, however records overlap the  *)
(* chunks and the end of the buffer, until an overrun moves the log thread *)
(* while it has bytes left in its chunk: it puts both places together then. *)
AssertsHold ==
    \A k \in Consumer :
        k = "log_dump" \/ ~moved
        => /\ pc[k] /= "panic"
           /\ pc[k] = "print" => Whole(record[k])

(* The log thread prints the records in order, and what it has missed was  *)
(* counted and will be reported when it has drained the buffer.            *)
LossReported ==
    ~moved
    => /\ printed.missing > 0 => log_nr_overruns > 0 \/ nr_overruns > 0
       /\ LET r == record["log_run"][1].record IN
          pc["log_run"] = "print" /\ r > 0 => r > printed.last

(* What is logged is consumed in the end, unless the log thread has panicked, *)
(* or went to sleep blindly when it had started the shell.                 *)
Owed == log_index /= cbuf.end
Given == log_index = cbuf.end \/ pc["log_run"] = "panic" \/ blind
================================================================================
