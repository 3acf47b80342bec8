----------------------------- MODULE HistoryLog -----------------------------
(***************************************************************************)
(* What the history of a climinal session promises its user, with no ring: *)
(* the remembered commands are numbered 1, 2, 3, ... in the order they     *)
(* were given, the last Size of them can be recalled by number, and the    *)
(* arrow keys walk a cursor back from the newest of them.                  *)
(*                                                                         *)
(* The one liberty taken with a plain log is the code's own: while fewer   *)
(* than Size commands are remembered the cursor may walk past the oldest,  *)
(* over blank lines: get_history stops only at newid.                      *)
(***************************************************************************)
EXTENDS Integers

CONSTANTS Size, Commands, Blank, Recalls

VARIABLES
    total,     \* how many commands were remembered so far
    log,       \* the lines that can be recalled, by number
    cursor,    \* 0 below the newest command, k at the k-th from the newest
    buffer     \* the line on the terminal

logVars == <<total, log, cursor, buffer>>

Lines == Commands \cup {Blank} \cup Recalls

\* The numbers that can be recalled once n commands were remembered.
Window(n) == {i \in 1..n : i > n - Size}

LineAt(k) ==
    LET num == total - k + 1
    IN  IF k > 0 /\ num \in Window(total) THEN log[num] ELSE Blank

-----------------------------------------------------------------------------
LogInit ==
    /\ total = 0
    /\ log = [i \in Window(0) |-> Blank]
    /\ cursor = 0
    /\ buffer = Blank

\* A new prompt, or a key that edits the line.
Type(line) ==
    /\ buffer' = line
    /\ UNCHANGED <<total, log, cursor>>

Older ==
    /\ cursor' = IF cursor < Size THEN cursor + 1 ELSE cursor
    /\ buffer' = LineAt(cursor')
    /\ UNCHANGED <<total, log>>

Newer ==
    /\ cursor' = IF cursor > 0 THEN cursor - 1 ELSE cursor
    /\ buffer' = LineAt(cursor')
    /\ UNCHANGED <<total, log>>

\* A command becomes number total + 1 and pushes the one Size before it out;
\* one equal to the newest is not remembered twice.
Note(line) ==
    \/ /\ total > 0 /\ log[total] = line
       /\ UNCHANGED <<total, log, cursor>>
    \/ /\ total = 0 \/ log[total] # line
       /\ total' = total + 1
       /\ log' = [i \in Window(total + 1) |-> IF i = total + 1 THEN line ELSE log[i]]
       /\ cursor' = 0

\* The line is a command, given again by number or typed.
Give == buffer \in Commands /\ Note(buffer) /\ UNCHANGED buffer

GiveAgain ==
    \E num \in Window(total) :
        /\ buffer' = log[num]
        /\ Note(log[num])

\* The line is dealt with: the cursor goes back below the newest command.
Done == cursor' = 0 /\ UNCHANGED <<total, log, buffer>>

LogNext ==
    \/ \E line \in Lines : Type(line)
    \/ Older \/ Newer \/ Give \/ GiveAgain \/ Done

LogSpec == LogInit /\ [][LogNext]_logVars

=============================================================================
