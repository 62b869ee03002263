--------------------------------- MODULE Shell ---------------------------------
(***************************************************************************)
(* kern/shell.c: the line editor of the shell, with its history, escape    *)
(* sequences and completion of commands, and the row of the terminal that  *)
(* its output makes.  One thread runs it; commands are registered before.  *)
(* A character is a number, as strcmp() compares them.                     *)
(***************************************************************************)
EXTENDS Integers, Sequences, SequencesExt, FiniteSetsExt, TLAPS

CONSTANTS
    Char,           \* the characters of words
    Sep,            \* SHELL_SEPARATOR, less than the others
    Name,           \* the names commands may have
    LineMax,        \* SHELL_LINE_MAX_SIZE
    HistorySize,    \* SHELL_HISTORY_SIZE
    MaxArgs,        \* SHELL_MAX_ARGS
    EscMax,         \* SHELL_ESC_SEQ_MAX_SIZE
    EscChar,        \* the characters of escape sequences
    Keys,           \* the other keys that are used
    MaxPushes       \* how many lines are entered

HistoryAssumption == HistorySize \in Nat \ {0}

VARIABLES
    shell_list,     \* names of the commands
    history,        \* shell_history
    newest, oldest, index,
    cursor,
    escape,         \* the escape character and those after it, or nothing
    screen,         \* the row of the terminal, and the column in it
    entered,        \* history: the lines that were entered last
    argv,           \* the arguments of the last command
    phase

vars == <<shell_list, history, newest, oldest, index, cursor, escape, screen, entered,
          argv, phase>>

NoEscape == <<>>

Less(a, b) ==
    \/ IsStrictPrefix(a, b)
    \/ \E i \in DOMAIN a \cap DOMAIN b :
           a[i] < b[i] /\ \A j \in 1..(i - 1) : a[j] = b[j]

(* strncmp() *)
Same(a, b, n) == SubSeq(a, 1, Min({n, Len(a)})) = SubSeq(b, 1, Min({n, Len(b)}))

(* shell_cmd_register(), which sorts them. *)
shell_cmd_add(name) ==
    /\ phase = "boot"
    /\ shell_list' =
           IF name = <<>> \/ Sep \in ToSet(name) \/ name \in ToSet(shell_list)
           THEN shell_list
           ELSE InsertAt(shell_list,
                    1 + Cardinality({i \in DOMAIN shell_list : Less(shell_list[i], name)}),
                    name)
    /\ UNCHANGED <<history, newest, oldest, index, cursor, escape, screen, entered, argv,
                   phase>>

--------------------------------------------------------------------------------
(* Completion *)

(* How many characters a and b have in common, from a size that they have. *)
Common(a, b, size) ==
    LET s == Max({size, 1})
    IN  Max({s - 1} \cup {k \in s..Min({Len(a), Len(b)}) :
                             \A j \in s..k : a[j] = b[j]})


(* The first and the last that match say what all of them have in common. *)
shell_cmd_complete(list, str, size) ==
    LET found == {i \in DOMAIN list : Same(list[i], str, size)}
        first == Min(found)
        last == Max({k \in first..Len(list) :
                        \A i \in first..k : Same(list[first], list[i], size)})
    IN  IF found = {} THEN [matches |-> 0, name |-> <<>>, size |-> 0]
        ELSE IF last = first
        THEN [matches |-> 1, name |-> list[first], size |-> Len(list[first])]
        ELSE [matches |-> 2, name |-> list[first],
              size |-> Common(list[first], list[last], size)]

--------------------------------------------------------------------------------
(* The current line, the cursor and the row: an editor. *)

Slot(i) == i % HistorySize
Current == [line |-> history[Slot(newest)], cursor |-> cursor, text |-> screen.text,
            col |-> screen.col, error |-> FALSE]

(* The terminal writes over what is there. *)
Write(e, s) ==
    LET end == e.col + Len(s)
    IN  [e EXCEPT !.text = SubSeq(@, 1, e.col) \o s \o SubSeq(@, end + 1, Len(@)),
                  !.col = end]
BackBy(e, n) == [e EXCEPT !.col = @ - n]
Blanks(n) == [i \in 1..n |-> Sep]

After(e) == SubSeq(e.line, e.cursor + 1, Len(e.line))

shell_process_left(e) ==
    IF e.cursor = 0 THEN e ELSE [e EXCEPT !.cursor = @ - 1, !.col = @ - 1]

shell_process_right(e) ==
    IF e.cursor >= Len(e.line) THEN e ELSE [e EXCEPT !.cursor = @ + 1, !.col = @ + 1]

shell_process_backspace(e) ==
    IF e.cursor = 0 THEN e
    ELSE LET f == [e EXCEPT !.line = RemoveAt(@, e.cursor), !.cursor = @ - 1]
             g == Write(BackBy(f, 1), Append(After(f), Sep))
         IN  BackBy(g, Len(f.line) - f.cursor + 1)

(* What follows is written again, and the cursor brought back. *)
shell_process_raw_char(e, c) ==
    IF Len(e.line) + 1 = LineMax THEN [e EXCEPT !.error = TRUE]
    ELSE LET f == [e EXCEPT !.line = InsertAt(@, e.cursor + 1, c), !.cursor = @ + 1]
         IN  BackBy(Write(f, <<c>> \o After(f)), Len(f.line) - f.cursor)

shell_erase(e) ==
    [e EXCEPT !.text = SubSeq(@, 1, e.col - e.cursor) \o Blanks(Len(e.line)),
              !.col = @ - e.cursor, !.cursor = 0]

shell_restore(e) == [Write(e, e.line) EXCEPT !.cursor = Len(e.line)]

Times(f(_), e, n) == FoldLeft(LAMBDA x, i : f(x), e, Blanks(n))

Leading(line) == SelectInSeq(Append(line, 0), LAMBDA c : c /= Sep) - 1

(* The size, an unsigned number, is huge if the cursor is before the word. *)
Completion(e) ==
    LET w == Leading(e.line)
        size == IF e.cursor < w THEN 2 * LineMax ELSE e.cursor - w
    IN  shell_cmd_complete(shell_list, SubSeq(e.line, w + 1, Len(e.line)), size)

(* If there are several, a new row follows their list. *)
shell_process_tabulation(e) ==
    LET c == Completion(e)
        f == IF c.matches = 2 THEN [e EXCEPT !.text = e.line, !.col = e.cursor] ELSE e
        Back(x) == shell_process_backspace(x)
        g == Times(Back, f, e.cursor - Leading(e.line))
        Put(x, i) == IF x.error THEN x ELSE shell_process_raw_char(x, i)
    IN  IF c.matches = 0 THEN e ELSE FoldLeft(Put, g, SubSeq(c.name, 1, c.size))

(* The line as it is cut up: a nul character, 0, after each word, and the  *)
(* places where words begin.                                               *)
shell_process_args(line) ==
    LET Step(r, i) ==
            LET first == i = 1 \/ line[i - 1] = Sep
            IN  IF line[i] /= Sep
                THEN IF first /\ Len(r.argv) < MaxArgs THEN [r EXCEPT !.argv = Append(@, i)] ELSE r
                ELSE IF first THEN r ELSE [r EXCEPT !.tmp[i] = 0]
    IN  FoldLeft(Step, [tmp |-> line, argv |-> <<>>], [i \in 1..Len(line) |-> i])

(* The string at a place. *)
StringAt(tmp, i) ==
    SubSeq(tmp, i, Max({k \in i..Len(tmp) : \A j \in i..k : tmp[j] /= 0}))

Words(line) ==
    LET args == shell_process_args(line)
    IN  [n \in DOMAIN args.argv |-> StringAt(args.tmp, args.argv[n])]

--------------------------------------------------------------------------------
(* History *)

(* The current line is the newest one, and the template it is copied from *)
(* the one of the index.                                                  *)
Edited(e) ==
    /\ history' = [history EXCEPT ![Slot(newest)] = e.line]
    /\ cursor' = e.cursor
    /\ screen' = [text |-> e.text, col |-> e.col]

shell_history_back ==
    LET i == IF index = oldest THEN index ELSE index - 1
        e == shell_erase(Current)
    IN  /\ index' = i
        /\ Edited(shell_restore(IF i = index THEN e
                                ELSE [e EXCEPT !.line = history[Slot(i)]]))

shell_history_forward ==
    LET i == IF index = newest THEN index ELSE index + 1
        e == shell_erase(Current)
    IN  /\ index' = i
        /\ Edited(shell_restore(IF i = index THEN e
                                ELSE IF i = newest THEN [e EXCEPT !.line = <<>>]
                                ELSE [e EXCEPT !.line = history[Slot(i)]]))

shell_history_same_newest ==
    newest /= oldest /\ history[Slot(newest)] = history[Slot(newest - 1)]

Pushes == history[Slot(newest)] /= <<>> /\ ~shell_history_same_newest

(* Broken: the oldest line is kept one line too long. *)
PushPastOldest ==
    LET n == IF Pushes THEN newest + 1 ELSE newest
    IN  /\ newest' = n /\ index' = n
        /\ oldest' = IF Pushes /\ n - oldest > HistorySize THEN n - HistorySize + 1
                     ELSE oldest
        /\ history' = [history EXCEPT ![Slot(n)] = <<>>]

(* The current line stays in the history, if it is new; the one that then  *)
(* becomes the current line is no longer in it.                            *)
shell_history_push ==
    LET n == IF Pushes THEN newest + 1 ELSE newest
    IN  /\ newest' = n /\ index' = n
        /\ oldest' = IF Pushes /\ n - oldest >= HistorySize THEN n - HistorySize + 1
                     ELSE oldest
        /\ history' = [history EXCEPT ![Slot(n)] = <<>>]

(* shell_reset(): the prompt on a new row. *)
Prompted == cursor' = 0 /\ screen' = [text |-> <<>>, col |-> 0]

--------------------------------------------------------------------------------
(* The keys *)

Init ==
    /\ shell_list = <<>>
    /\ history = [i \in 0..(HistorySize - 1) |-> <<>>]
    /\ newest = 0 /\ oldest = 0 /\ index = 0
    /\ cursor = 0
    /\ escape = NoEscape
    /\ screen = [text |-> <<>>, col |-> 0]
    /\ entered = <<>> /\ argv = <<>>
    /\ phase = "boot"

shell_start ==
    /\ phase = "boot"
    /\ phase' = "edit"
    /\ UNCHANGED <<shell_list, history, newest, oldest, index, cursor, escape, screen,
                   entered, argv>>

(* A line that is too long is dropped. *)
Edits(e) ==
    /\ IF e.error
       THEN /\ history' = [history EXCEPT ![Slot(newest)] = <<>>]
            /\ Prompted
       ELSE Edited(e)
    /\ UNCHANGED index

Editing == phase = "edit" /\ UNCHANGED <<shell_list, newest, oldest, entered, argv>>

RawChar(c) ==
    /\ Editing /\ escape = NoEscape
    /\ Edits(shell_process_raw_char(Current, c))
    /\ UNCHANGED <<escape, phase>>

Backspace ==
    /\ Editing /\ escape = NoEscape
    /\ Edits(shell_process_backspace(Current))
    /\ UNCHANGED <<escape, phase>>

(* With the cursor before the word, the loop that erases up to it goes on  *)
(* for ever, and the thread keeps the lock of the commands.                *)
Tabulation ==
    /\ Editing /\ escape = NoEscape
    /\ IF cursor < Leading(Current.line)
       THEN /\ phase' = IF Completion(Current).matches = 0 THEN phase ELSE "stuck"
            /\ UNCHANGED <<history, cursor, screen, index>>
       ELSE Edits(shell_process_tabulation(Current)) /\ UNCHANGED phase
    /\ UNCHANGED escape

(* That loop. *)
Erase == phase = "stuck" /\ UNCHANGED vars

shell_process_line ==
    LET words == Words(history[Slot(newest)])
    IN  /\ phase = "edit" /\ escape = NoEscape /\ newest < MaxPushes
        /\ argv' = IF words /= <<>> /\ Len(words) < MaxArgs /\ words[1] \in ToSet(shell_list)
                   THEN words ELSE <<>>
        /\ entered' = IF ~Pushes THEN entered
                      ELSE LET all == Append(entered, history[Slot(newest)])
                           IN  SubSeq(all, Max({1, Len(all) - HistorySize + 2}), Len(all))
        /\ shell_history_push
        /\ Prompted
        /\ UNCHANGED <<shell_list, escape, phase>>

(* Escape sequences: the escape character, one of two others, and what     *)
(* shell_esc_seqs has.  Any character from @ to ~ ends them, known or not, *)
(* so do the two others when they come again; digits and ; do not.         *)
EscapeChar ==
    /\ Editing /\ escape = NoEscape
    /\ escape' = <<"esc">>
    /\ UNCHANGED <<history, index, cursor, screen, phase>>

Home(e) == [e EXCEPT !.cursor = 0, !.col = @ - e.cursor]
End(e) == [e EXCEPT !.cursor = Len(e.line), !.col = @ + Len(e.line) - e.cursor]
Delete(e) == IF e.cursor >= Len(e.line) THEN e
             ELSE shell_process_backspace(shell_process_right(e))

Ends(c) == c \notin {"1", "3", "4", ";"}

shell_esc_seq(str) ==
    CASE str = <<"A">> -> shell_history_back
      [] str = <<"B">> -> shell_history_forward
      [] str = <<"C">> -> Edits(shell_process_right(Current))
      [] str = <<"D">> -> Edits(shell_process_left(Current))
      [] str \in {<<"H">>, <<"1", "~">>} -> Edits(Home(Current))
      [] str \in {<<"F">>, <<"4", "~">>} -> Edits(End(Current))
      [] str = <<"3", "~">> -> Edits(Delete(Current))
      [] OTHER -> UNCHANGED <<history, index, cursor, screen>>

StartEscape(c) ==
    /\ Editing /\ escape = <<"esc">>
    /\ escape' = IF c \in {"[", "O"} THEN <<"esc", "[">> ELSE NoEscape
    /\ UNCHANGED <<history, index, cursor, screen, phase>>

shell_process_esc_sequence(c) ==
    LET str == Append(SubSeq(escape, 3, Len(escape)), c)
        long == Len(str) >= EscMax
    IN  /\ Editing /\ Len(escape) > 1
        /\ escape' = IF long \/ Ends(c) THEN NoEscape ELSE Append(escape, c)
        /\ IF ~long /\ Ends(c) THEN shell_esc_seq(str)
           ELSE UNCHANGED <<history, index, cursor, screen>>
        /\ UNCHANGED phase

Next ==
    \/ \E n \in Name : shell_cmd_add(n)
    \/ shell_start
    \/ \E c \in Char \cup {Sep} : RawChar(c)
    \/ "bs" \in Keys /\ Backspace
    \/ "tab" \in Keys /\ Tabulation
    \/ Erase
    \/ shell_process_line
    \/ EscapeChar
    \/ \E c \in EscChar : StartEscape(c) \/ shell_process_esc_sequence(c)

Spec == Init /\ [][Next]_vars

--------------------------------------------------------------------------------

Line == history[Slot(newest)]

TypeOK ==
    /\ \A i \in DOMAIN history : history[i] \in Seq(Char \cup {Sep})
    /\ newest \in 0..MaxPushes
    /\ oldest \in 0..newest /\ index \in oldest..newest
    /\ phase \in {"boot", "edit", "stuck"}


(* The history has the lines that were entered last, from the oldest one:  *)
(* editing, browsing and running over the end of the array change none.    *)
HistorySound ==
    /\ newest - oldest = Len(entered)
    /\ \A i \in 1..Len(entered) : history[Slot(oldest + i - 1)] = entered[i]

(* Each argument is a word, and each word an argument, up to the limit.    *)
ArgsSound ==
    LET starts == {i \in DOMAIN Line : Line[i] /= Sep /\ (i = 1 \/ Line[i - 1] = Sep)}
        WordAt(i) == SubSeq(Line, i, Max({k \in i..Len(Line) :
                                             \A j \in i..k : Line[j] /= Sep}))
        Rank(i) == Cardinality({k \in starts : k <= i})
    IN  /\ Len(Words(Line)) = Min({Cardinality(starts), MaxArgs})
        /\ \A i \in starts : Rank(i) <= MaxArgs => Words(Line)[Rank(i)] = WordAt(i)

(* The commands are sorted, and completion gives what all those have in    *)
(* common that begin with a string.                                        *)
Begins == {n \in Name : n /= <<>> /\ Sep \notin ToSet(n)} \cup {<<>>}
CompletionSound ==
    /\ \A i, k \in DOMAIN shell_list : i < k => Less(shell_list[i], shell_list[k])
    /\ \A n \in Begins : \A size \in 0..Len(n) :
           LET str == SubSeq(n, 1, size)
               all == {m \in ToSet(shell_list) : IsPrefix(str, m)}
               c == shell_cmd_complete(shell_list, n, size)
           IN  /\ (c.matches = 0) <=> (all = {})
               /\ (c.matches = 1) <=> (Cardinality(all) = 1)
               /\ all /= {} => SubSeq(c.name, 1, c.size) = LongestCommonPrefix(all)

--------------------------------------------------------------------------------
(* The history, for any size of it and whatever the editor does.           *)

(* The indexes are those of lines next to each other, with room in the     *)
(* array for the current line too.                                         *)
IndexesSound ==
    /\ newest \in Nat /\ oldest \in Nat
    /\ oldest <= newest /\ newest - oldest < HistorySize
    /\ DOMAIN history = 0..(HistorySize - 1)
    /\ \E S : entered \in Seq(S)

HistoryInv == IndexesSound /\ HistorySound

LEMMA Division ==
    ASSUME NEW k \in Nat, NEW H \in Nat \ {0}
    PROVE  k = H * (k \div H) + (k % H) /\ k \div H \in Int /\ k % H \in 0..(H - 1)
OBVIOUS

(* Lines in a row, as many as the array has room for, have places of their *)
(* own.                                                                    *)
LEMMA SlotsDiffer ==
    ASSUME HistoryAssumption, NEW i \in Nat, NEW j \in Nat, i < j, j - i < HistorySize
    PROVE  Slot(i) /= Slot(j) /\ Slot(i) \in 0..(HistorySize - 1)
<1> DEFINE H == HistorySize
<1>1. \A k \in Nat : k = H * (k \div H) + (k % H) /\ k \div H \in Int /\ k % H \in 0..(H - 1)
  BY Division DEF HistoryAssumption
<1>2. SUFFICES ASSUME i % H = j % H PROVE FALSE
  BY <1>1 DEF Slot
<1>3. j - i = H * ((j \div H) - (i \div H))
  BY <1>1, <1>2 DEF HistoryAssumption
<1>4. PICK p \in Int : j - i = H * p
  BY <1>1, <1>3
<1>5. p > 0
  BY <1>4 DEF HistoryAssumption
<1>6. H * p >= H
  BY <1>5 DEF HistoryAssumption
<1> QED BY <1>4, <1>6 DEF HistoryAssumption

(* The line that changes is the current one, which is not in the history. *)
LEMMA LineChanges ==
    ASSUME HistoryAssumption, HistoryInv, UNCHANGED <<newest, oldest, entered>>,
           \/ UNCHANGED history
           \/ \E x : history' = [history EXCEPT ![Slot(newest)] = x]
    PROVE  HistoryInv'
<1>1. Len(entered) \in Nat
  BY DEF HistoryInv, IndexesSound
<1>2. IndexesSound'
  BY DEF HistoryInv, IndexesSound
<1>3. ASSUME NEW i \in 1..Len(entered) PROVE history'[Slot(oldest + i - 1)] = entered[i]
  <2>1. history[Slot(oldest + i - 1)] = entered[i]
    BY DEF HistoryInv, HistorySound
  <2>2. oldest + i - 1 \in Nat /\ oldest + i - 1 < newest /\ newest - (oldest + i - 1) < HistorySize
    BY <1>1 DEF HistoryInv, HistorySound, IndexesSound, HistoryAssumption
  <2>3. /\ Slot(oldest + i - 1) /= Slot(newest)
        /\ Slot(oldest + i - 1) \in DOMAIN history
    BY <2>2, SlotsDiffer DEF HistoryInv, IndexesSound
  <2> QED BY <2>1, <2>3
<1>4. HistorySound'
  BY <1>3 DEF HistoryInv, HistorySound, Slot
<1> QED BY <1>2, <1>4 DEF HistoryInv

(* A line that is entered joins the history, which loses the oldest one    *)
(* when the array is full.                                                 *)
LEMMA LineEntered ==
    ASSUME HistoryAssumption, HistoryInv, shell_process_line
    PROVE  HistoryInv'
<1> DEFINE H == HistorySize
           n == newest + 1
           all == Append(entered, history[Slot(newest)])
           first == IF n - oldest >= H THEN 2 ELSE 1
<1>1. CASE ~Pushes
  <2>1. UNCHANGED <<newest, oldest, entered>>
    BY <1>1 DEF shell_process_line, shell_history_push, HistoryInv, IndexesSound
  <2>2. history' = [history EXCEPT ![Slot(newest)] = <<>>]
    BY <1>1 DEF shell_process_line, shell_history_push
  <2> QED BY <2>1, <2>2, LineChanges
<1>2. CASE Pushes
  <2>1. PICK S : entered \in Seq(S)
    BY DEF HistoryInv, IndexesSound
  <2>2. /\ newest \in Nat /\ oldest \in Nat /\ H \in Nat \ {0}
        /\ Len(entered) = newest - oldest /\ Len(entered) < H
        /\ DOMAIN history = 0..(H - 1)
    BY DEF HistoryInv, IndexesSound, HistorySound, HistoryAssumption
  <2>3. PICK T : T = S \cup {history[Slot(newest)]}
    OBVIOUS
  <2>4. /\ all \in Seq(T)
        /\ Len(all) = Len(entered) + 1
        /\ \A i \in 1..Len(entered) : all[i] = entered[i]
        /\ all[Len(entered) + 1] = history[Slot(newest)]
    BY <2>1, <2>2, <2>3
  <2>5. Max({1, Len(all) - H + 2}) = first
    BY <2>2, <2>4 DEF Max
  <2>6. /\ newest' = n
        /\ oldest' = oldest + first - 1
        /\ history' = [history EXCEPT ![Slot(n)] = <<>>]
        /\ entered' = SubSeq(all, first, Len(all))
    <3>1. entered' = SubSeq(all, Max({1, Len(all) - H + 2}), Len(all))
      BY <1>2 DEF shell_process_line
    <3>2. /\ newest' = n
          /\ oldest' = IF n - oldest >= H THEN n - H + 1 ELSE oldest
          /\ history' = [history EXCEPT ![Slot(n)] = <<>>]
      BY <1>2 DEF shell_process_line, shell_history_push
    <3>3. oldest' = oldest + first - 1
      BY <2>2, <3>2
    <3> QED BY <2>5, <3>1, <3>2, <3>3
  <2>7. first \in {1, 2} /\ n - (oldest + first - 1) \in 0..(H - 1)
    BY <2>2
  <2> HIDE DEF all, first
  <2>8. /\ entered' \in Seq(T)
        /\ Len(entered') = newest' - oldest'
        /\ \A i \in 1..Len(entered') : entered'[i] = all[i + first - 1]
    <3>1. first <= Len(all) + 1 /\ Len(all) \in Nat
      BY <2>2, <2>4, <2>7
    <3>2. /\ SubSeq(all, first, Len(all)) \in Seq(T)
          /\ Len(SubSeq(all, first, Len(all))) = Len(all) - first + 1
      BY <2>4, <2>7, <3>1
    <3>3. \A i \in 1..(Len(all) - first + 1) :
              SubSeq(all, first, Len(all))[i] = all[i + first - 1]
      BY <2>4, <2>7, <3>1
    <3>4. Len(all) - first + 1 = newest' - oldest'
      BY <2>2, <2>4, <2>6, <2>7
    <3> QED BY <2>6, <3>2, <3>3, <3>4
  <2>9. IndexesSound'
    BY <2>2, <2>6, <2>8, <2>7 DEF IndexesSound
  <2>10. ASSUME NEW i \in 1..Len(entered')
        PROVE  history'[Slot(oldest' + i - 1)] = entered'[i]
    <3> DEFINE k == oldest' + i - 1
    <3>1. k \in Nat /\ k < n /\ n - k < H /\ k = oldest + (i + first - 1) - 1
      BY <2>2, <2>6, <2>8, <2>7
    <3>2. Slot(k) /= Slot(n) /\ Slot(k) \in DOMAIN history
      BY <2>2, <3>1, SlotsDiffer
    <3>3. history'[Slot(k)] = history[Slot(k)]
      BY <2>6, <3>2
    <3>4. history[Slot(k)] = all[i + first - 1]
      <4>1. CASE k = newest
        <5>1. i + first - 1 = Len(entered) + 1
          BY <2>2, <2>7, <3>1, <4>1
        <5> QED BY <2>4, <4>1, <5>1
      <4>2. CASE k < newest
        <5>1. i + first - 1 \in 1..Len(entered)
          BY <2>2, <2>7, <2>8, <3>1, <4>2
        <5> QED BY <2>4, <3>1, <5>1 DEF HistoryInv, HistorySound
      <4> QED BY <2>2, <3>1, <4>1, <4>2
    <3> QED BY <2>8, <3>3, <3>4
  <2>11. HistorySound'
    BY <2>8, <2>10 DEF HistorySound, Slot
  <2> QED BY <2>9, <2>11 DEF HistoryInv
<1> QED BY <1>1, <1>2

LEMMA HistoryInit == ASSUME HistoryAssumption, Init PROVE HistoryInv
<1>1. entered = <<>> /\ entered \in Seq({})
  BY DEF Init
<1> QED BY <1>1 DEF Init, HistoryAssumption, HistoryInv, IndexesSound, HistorySound

(* What a key does to the current line leaves the rest alone. *)
LEMMA EditsLine ==
    ASSUME NEW e, Edits(e) \/ Edited(e)
    PROVE  \E x : history' = [history EXCEPT ![Slot(newest)] = x]
BY DEF Edits, Edited

LEMMA HistoryStep == ASSUME HistoryAssumption, HistoryInv, [Next]_vars PROVE HistoryInv'
<1>1. ASSUME NEW k \in Name, shell_cmd_add(k) PROVE HistoryInv'
  BY <1>1, LineChanges DEF shell_cmd_add
<1>2. ASSUME shell_start PROVE HistoryInv'
  BY <1>2, LineChanges DEF shell_start
<1>3. ASSUME NEW c, RawChar(c) PROVE HistoryInv'
  BY <1>3, LineChanges, EditsLine DEF RawChar, Editing
<1>4. ASSUME Backspace PROVE HistoryInv'
  BY <1>4, LineChanges, EditsLine DEF Backspace, Editing
<1>5. ASSUME Tabulation PROVE HistoryInv'
  BY <1>5, LineChanges, EditsLine DEF Tabulation, Editing
<1>6. ASSUME EscapeChar PROVE HistoryInv'
  BY <1>6, LineChanges DEF EscapeChar, Editing
<1>7. ASSUME NEW c, StartEscape(c) PROVE HistoryInv'
  BY <1>7, LineChanges DEF StartEscape, Editing
<1>8. ASSUME NEW c, shell_process_esc_sequence(c) PROVE HistoryInv'
  <2>1. ASSUME NEW str, shell_esc_seq(str)
        PROVE  \/ UNCHANGED history
               \/ \E x : history' = [history EXCEPT ![Slot(newest)] = x]
    BY <2>1, EditsLine DEF shell_esc_seq, shell_history_back, shell_history_forward
  <2>2. UNCHANGED <<newest, oldest, entered>>
    BY <1>8 DEF shell_process_esc_sequence, Editing
  <2>3. \/ UNCHANGED history
        \/ \E x : history' = [history EXCEPT ![Slot(newest)] = x]
    BY <1>8, <2>1 DEF shell_process_esc_sequence
  <2> QED BY <2>2, <2>3, LineChanges
<1>9. ASSUME UNCHANGED vars PROVE HistoryInv'
  BY <1>9, LineChanges DEF vars
<1> QED
  BY <1>1, <1>2, <1>3, <1>4, <1>5, <1>6, <1>7, <1>8, <1>9, LineEntered DEF Next, Erase

(* The history has the lines that were entered last, for any number of     *)
(* them and any size of the array: neither browsing nor editing, nor what  *)
(* completion or a line that is too long do to the current line, reaches   *)
(* one of them.                                                            *)
THEOREM HistoryKept == HistoryAssumption => (Spec => []HistorySound)
<1> SUFFICES ASSUME HistoryAssumption PROVE Spec => []HistorySound
  OBVIOUS
<1>1. Init => HistoryInv
  BY HistoryInit
<1>2. HistoryInv /\ [Next]_vars => HistoryInv'
  BY HistoryStep
<1>3. HistoryInv => HistorySound
  BY DEF HistoryInv
<1> QED BY <1>1, <1>2, <1>3, PTL DEF Spec
================================================================================
