------------------------------ MODULE History -------------------------------
(***************************************************************************)
(* The history of a climinal session at work: the loop of parseline        *)
(* (src/src/cli.c) around the line editor's keys that reach the history    *)
(* (readline, src/src/terminal.c).  One line is typed, browsed or recalled *)
(* by number, remembered, executed (elsewhere, see module Session) and the *)
(* browsing position goes back to the newest command.                      *)
(***************************************************************************)
EXTENDS Clihistory

CONSTANTS
    Recalls,        \* the lines whose first word is "!" and something more
    RecallNum,      \* what strtol reads after the "!", 0 when no number is there
    RecallExtra,    \* whether a second word follows
    MaxCmdnum       \* bound of the model: no command is added at this count

ASSUME RecallsAssumption ==
    /\ Recalls \cap Entries = {}
    /\ RecallNum \in [Recalls -> Nat]
    /\ RecallExtra \in [Recalls -> BOOLEAN]

VARIABLES
    hist,       \* session->term.history
    buffer,     \* session->term.buffer
    phase       \* where parseline stands

historyVars == <<hist, buffer, phase>>

Lines == Entries \cup Recalls

\* "prompt": between two calls of parseline; "reading": in readline;
\* "running": the line is remembered and being executed; "closed": the loop of
\* climinal_main has ended.
Phases == {"prompt", "reading", "running", "closed"}

HistoryTypeOK ==
    /\ hist \in History
    /\ buffer \in Lines
    /\ phase \in Phases

-----------------------------------------------------------------------------
\* climinal_main adds an empty line to the fresh history "as a separator".
HistoryInit ==
    /\ hist = AddHistory(InitHistory, Blank)
    /\ buffer = Blank
    /\ phase = "prompt"

\* readline empties the buffer and prints the prompt.
BeginLine ==
    /\ phase = "prompt"
    /\ phase' = "reading"
    /\ buffer' = Blank
    /\ UNCHANGED hist

\* Any key that edits the line leaves some line in the buffer.
Edit(line) ==
    /\ phase = "reading"
    /\ buffer' = line
    /\ UNCHANGED <<hist, phase>>

ArrowUp ==
    /\ phase = "reading"
    /\ hist' = BrowseBefore(hist)
    /\ buffer' = Shown(hist', buffer)
    /\ UNCHANGED phase

ArrowDown ==
    /\ phase = "reading"
    /\ hist' = BrowseAfter(hist)
    /\ buffer' = Shown(hist', buffer)
    /\ UNCHANGED phase

\* readline returns 1 and parseline jumps to its exit label.
EndOfInput ==
    /\ phase = "reading"
    /\ phase' = "closed"
    /\ UNCHANGED <<hist, buffer>>

\* Enter on a line with no word: parseline only rewinds.
SubmitBlank ==
    /\ phase = "reading"
    /\ buffer = Blank
    /\ hist' = Rewind(hist)
    /\ phase' = "prompt"
    /\ UNCHANGED buffer

\* The bound of the model on the number of commands.
MayRemember(line) == IsLastHistory(hist, line) \/ hist.cmdnum < MaxCmdnum

SubmitCommand ==
    /\ phase = "reading"
    /\ buffer \in Commands
    /\ MayRemember(buffer)
    /\ hist' = Remember(hist, buffer)
    /\ phase' = "running"
    /\ UNCHANGED buffer

CanRecall(line) ==
    /\ ~RecallExtra[line]
    /\ Available(hist, RecallNum[line])

\* "!n": the buffer becomes the recalled command, which is remembered again.
SubmitRecall ==
    /\ phase = "reading"
    /\ buffer \in Recalls
    /\ CanRecall(buffer)
    /\ buffer' = Recalled(hist, RecallNum[buffer])
    /\ MayRemember(buffer')
    /\ hist' = Remember(hist, buffer')
    /\ phase' = "running"

\* The two early returns of parseline; they skip the rewind at its end.
RejectRecall ==
    /\ phase = "reading"
    /\ buffer \in Recalls
    /\ ~CanRecall(buffer)
    /\ phase' = "prompt"
    /\ UNCHANGED <<hist, buffer>>

\* The command is over: parseline rewinds and returns ...
Finish ==
    /\ phase = "running"
    /\ hist' = Rewind(hist)
    /\ phase' = "prompt"
    /\ UNCHANGED buffer

\* ... or returns CLIMINAL_E_EXIT, which ends climinal_main.
Close ==
    /\ phase = "running"
    /\ hist' = Rewind(hist)
    /\ phase' = "closed"
    /\ UNCHANGED buffer

Submit == SubmitBlank \/ SubmitCommand \/ SubmitRecall \/ RejectRecall

HistoryNext ==
    \/ BeginLine
    \/ \E line \in Lines : Edit(line)
    \/ ArrowUp \/ ArrowDown
    \/ EndOfInput
    \/ Submit
    \/ Finish \/ Close

HistorySpec == HistoryInit /\ [][HistoryNext]_historyVars

-----------------------------------------------------------------------------
(* The ring: where a command number lives.  Everything the recall and the  *)
(* listing show rests on these facts.                                      *)

\* The indices follow from the count alone (getid is free).
IndicesFollowCount(h) ==
    /\ h.cmdnum >= 1
    /\ h.lastid = (h.cmdnum - 1) % (Size + 1)
    /\ h.newid = h.cmdnum % (Size + 1)

\* A number that can be recalled finds a command in its slot ...
WindowIsFilled(h) ==
    \A num \in 1..h.cmdnum : Available(h, num) => Recalled(h, num) \in Commands

\* ... and a slot is blank unless such a number owns it.
RestIsBlank(h) ==
    \A s \in Slots :
        h.entry[s] # Blank =>
            \E num \in 1..h.cmdnum : Available(h, num) /\ EntryId(num) = s

\* The ring of add_history and the arithmetic of parseline agree on what is where.
RingInv == IndicesFollowCount(hist) /\ WindowIsFilled(hist) /\ RestIsBlank(hist)

-----------------------------------------------------------------------------
(* Properties.                                                             *)

\* What "history" prints is what "!n" recalls: the listed numbers are exactly
\* the available ones, and each line is the one its number brings back
\* (dump_history numbers blindly while it walks the ring, parseline computes the
\* slot from the number).
DumpMatchesRecall ==
    LET dump == DumpHistory(hist)
    IN  /\ {dump[i].num : i \in DOMAIN dump} =
               {num \in 0..(hist.cmdnum + 1) : Available(hist, num)}
        /\ \A i \in DOMAIN dump : dump[i].line = Recalled(hist, dump[i].num)

\* A number never changes its meaning: as long as "!n" is available it recalls
\* the command it was first given to, however the ring wraps.
RecallStable(num) ==
    Available(hist, num) /\ Available(hist', num) =>
        Recalled(hist', num) = Recalled(hist, num)

RecallNumbersStable == [][\A num \in 1..hist.cmdnum : RecallStable(num)]_historyVars

\* The Down key takes back the Up key, and the Up key the Down key, except at the
\* two ends of the ring (get_history, both directions and both wraps).
DownUndoesUp ==
    /\ hist.getid # hist.newid => BrowseAfter(BrowseBefore(hist)) = hist
    /\ hist.getid # hist.lastid => BrowseBefore(BrowseAfter(hist)) = hist

-----------------------------------------------------------------------------
(* The abstract history: numbers instead of slots.                         *)

Distance == (hist.lastid - hist.getid) % (Size + 1)

WindowOf(n) == {i \in 1..n : i > n - Size}

Log == INSTANCE HistoryLog WITH
    total  <- hist.cmdnum - 1,
    log    <- [num \in WindowOf(hist.cmdnum - 1) |-> Recalled(hist, num)],
    cursor <- Distance

\* The ring of size + 1 slots behaves as the numbered log of module HistoryLog.
ImplementsLog == Log!LogSpec

=============================================================================
