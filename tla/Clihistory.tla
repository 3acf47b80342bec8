----------------------------- MODULE Clihistory -----------------------------
(***************************************************************************)
(* The command history of one climinal session (src/src/history.c and      *)
(* include/climinal/history.h): a ring of Size + 1 slots with three        *)
(* indices and a command counter, and the pure functions on it.            *)
(*                                                                         *)
(*   newid  - the slot the next command will take; kept blank, it is what  *)
(*            the user sees below the newest command                       *)
(*   lastid - the slot of the newest command                               *)
(*   getid  - where the Up and Down keys stand (one slot before the shown) *)
(*   cmdnum - the number the next command will have                        *)
(*                                                                         *)
(* A line is opaque: what it says matters to nobody here.                  *)
(***************************************************************************)
EXTENDS Integers, Sequences

CONSTANTS
    Size,       \* Clihistory.size, the history_size of the configuration
    Commands,   \* the lines that hold at least one word and no history recall
    Blank       \* the empty line

\* With a size of 0 the ring has one slot and add_history writes slot 1 of it;
\* the library never rejects it, every shipped configuration gives more.
ASSUME SizeAssumption == Size \in Nat \ {0}

ASSUME BlankAssumption == Blank \notin Commands

Slots == 0..Size

Entries == Commands \cup {Blank}

History ==
    [newid : Slots, getid : Slots, lastid : Slots, cmdnum : Nat,
     entry : [Slots -> Entries]]

InitHistory ==
    [newid |-> 0, getid |-> 0, lastid |-> 0, cmdnum |-> 0,
     entry |-> [s \in Slots |-> Blank]]

-----------------------------------------------------------------------------
(* Stepping around the ring.                                               *)

AfterSlotPastTop(s) == IF s <= Size THEN s + 1 ELSE 0

AfterSlot(s) == IF s < Size THEN s + 1 ELSE 0

BeforeSlotStopsAtZero(s) == IF s > 0 THEN s - 1 ELSE 0

BeforeSlot(s) == IF s > 0 THEN s - 1 ELSE Size

\* add_history: the first call takes slot 0 without advancing lastid.
AddHistory(h, line) ==
    LET first == h.newid = 0 /\ h.lastid = 0
        last  == IF first THEN h.lastid ELSE h.newid
    IN  [newid  |-> IF first THEN h.newid + 1 ELSE AfterSlot(h.newid),
         getid  |-> last,
         lastid |-> last,
         cmdnum |-> h.cmdnum + 1,
         entry  |-> [h.entry EXCEPT ![last] = line]]

-----------------------------------------------------------------------------
(* Browsing with the arrow keys (get_history).                             *)

IsEmpty(h) == h.newid = h.lastid

BrowseAfterUnbounded(h) ==
    IF IsEmpty(h) THEN h ELSE [h EXCEPT !.getid = AfterSlot(@)]

BrowseAfter(h) ==
    IF IsEmpty(h) \/ h.getid = h.lastid
    THEN h
    ELSE [h EXCEPT !.getid = AfterSlot(@)]

BrowseBeforeUnbounded(h) ==
    IF IsEmpty(h) THEN h ELSE [h EXCEPT !.getid = BeforeSlot(@)]

BrowseBefore(h) ==
    IF IsEmpty(h) \/ h.getid = h.newid
    THEN h
    ELSE [h EXCEPT !.getid = BeforeSlot(@)]

RetId(h) == (h.getid + 1) % (Size + 1)

\* The line editor's buffer after get_history: untouched when nothing was added.
Shown(h, buf) == IF IsEmpty(h) THEN buf ELSE h.entry[RetId(h)]

-----------------------------------------------------------------------------
(* Recalling by number, and remembering a submitted line (parseline).      *)

IsLastHistory(h, line) == ~IsEmpty(h) /\ line = h.entry[h.lastid]

\* One slot too many: as if every slot of the ring could be recalled.
AvailableWholeRing(h, num) ==
    /\ num > 0
    /\ num < h.cmdnum
    /\ h.cmdnum > Size + 1 => num >= h.cmdnum - (Size + 1)

Available(h, num) ==
    /\ num > 0
    /\ num < h.cmdnum
    /\ h.cmdnum > Size => num >= h.cmdnum - Size

EntryIdModSize(num) == num % Size

EntryId(num) == num % (Size + 1)

Recalled(h, num) == h.entry[EntryId(num)]

ClearNew(h) == [h EXCEPT !.entry[h.newid] = Blank]

\* A line equal to the newest one is not added again; in every case the slot
\* the next line will take is blanked.
RememberNoClear(h, line) == IF IsLastHistory(h, line) THEN h ELSE AddHistory(h, line)

Remember(h, line) ==
    ClearNew(IF IsLastHistory(h, line) THEN h ELSE AddHistory(h, line))

\* The end of parseline.
RewindToOldest(h) == [h EXCEPT !.getid = h.newid]

Rewind(h) == [h EXCEPT !.getid = h.lastid]

-----------------------------------------------------------------------------
(* The "history" command (dump_history): the slots from newid once around, *)
(* blank ones skipped, numbered consecutively.                             *)

FirstListedOffByOne(h) == IF h.cmdnum < Size THEN 1 ELSE h.cmdnum - Size

FirstListed(h) == IF h.cmdnum < Size + 1 THEN 1 ELSE h.cmdnum - Size

\* One turn of the loop, at the slot i steps behind newid.
PrintSlot(h, i, printed) ==
    LET line == h.entry[(h.newid + i) % (Size + 1)]
    IN  IF line = Blank THEN printed
        ELSE Append(printed, [num |-> FirstListed(h) + Len(printed), line |-> line])

DumpHistory(h) ==
    LET Printed[i \in 0..(Size + 1)] ==
            IF i = 0 THEN <<>> ELSE PrintSlot(h, i - 1, Printed[i - 1])
    IN  Printed[Size + 1]

=============================================================================
