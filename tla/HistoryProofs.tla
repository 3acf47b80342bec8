--------------------------- MODULE HistoryProofs ----------------------------
(***************************************************************************)
(* Theorems about module History, for every size of the ring, every set of *)
(* commands and every bound on their number.                               *)
(***************************************************************************)
EXTENDS History, Foundations

-----------------------------------------------------------------------------
(* The ring without its history: what the functions of Clihistory return.  *)

\* The newest slot and the next one differ: a session's history is never "empty"
\* in the sense of get_history, add_history never takes its first branch again.
LEMMA NeverEmpty ==
    ASSUME NEW h \in History, IndicesFollowCount(h)
    PROVE  ~IsEmpty(h) /\ ~(h.newid = 0 /\ h.lastid = 0)
<1>1. (h.cmdnum - 1) % (Size + 1) # h.cmdnum % (Size + 1)
  BY SizeAssumption, ModDistinct DEF History
<1> QED
  BY <1>1 DEF IsEmpty, IndicesFollowCount

\* The next slot follows the newest one around the ring.
LEMMA NewFollowsLast ==
    ASSUME NEW h \in History, IndicesFollowCount(h)
    PROVE  h.newid = AfterSlot(h.lastid)
<1> DEFINE n == h.cmdnum - 1
<1>1. n \in Int /\ n + 1 = h.cmdnum
  BY DEF History
<1>2. Size + 1 \in Nat \ {0}
  BY SizeAssumption
<1> HIDE DEF n
<1>3. (n + 1) % (Size + 1) =
          IF n % (Size + 1) < (Size + 1) - 1 THEN (n % (Size + 1)) + 1 ELSE 0
  BY <1>1, <1>2, ModStep
<1> QED
  BY <1>1, <1>3, SizeAssumption DEF n, IndicesFollowCount, AfterSlot

\* No command that can be recalled lives in the slot the next command will take.
LEMMA NewIsBlank ==
    ASSUME NEW h \in History, IndicesFollowCount(h), RestIsBlank(h)
    PROVE  h.entry[h.newid] = Blank
<1>1. SUFFICES ASSUME NEW num \in 1..h.cmdnum, Available(h, num)
               PROVE  EntryId(num) # h.newid
  BY DEF RestIsBlank, History
<1>2. num < h.cmdnum /\ h.cmdnum - num < Size + 1
  BY <1>1, SizeAssumption DEF Available, History
<1>3. num % (Size + 1) # h.cmdnum % (Size + 1)
  BY <1>2, SizeAssumption, ModDistinct DEF History
<1> QED
  BY <1>3 DEF EntryId, IndicesFollowCount

\* Clearing it therefore changes nothing.
LEMMA ClearNewIsIdle ==
    ASSUME NEW h \in History, IndicesFollowCount(h), RestIsBlank(h)
    PROVE  ClearNew(h) = h
BY NewIsBlank DEF ClearNew, History

\* What one more command does to the ring.
LEMMA AddHistoryFields ==
    ASSUME NEW h \in History, IndicesFollowCount(h), NEW line \in Commands,
           NEW g, g = ClearNew(AddHistory(h, line))
    PROVE  /\ g \in History
           /\ g.cmdnum = h.cmdnum + 1
           /\ g.lastid = h.newid
           /\ g.getid = h.newid
           /\ g.newid = AfterSlot(h.newid)
           /\ g.entry = [h.entry EXCEPT ![h.newid] = line, ![g.newid] = Blank]
<1> DEFINE k == AddHistory(h, line)
<1>1. k = [newid |-> AfterSlot(h.newid), getid |-> h.newid, lastid |-> h.newid,
           cmdnum |-> h.cmdnum + 1, entry |-> [h.entry EXCEPT ![h.newid] = line]]
  BY NeverEmpty DEF AddHistory
<1>2. AfterSlot(h.newid) \in Slots
  BY SizeAssumption DEF AfterSlot, Slots, History
<1>3. k \in History
  BY <1>1, <1>2 DEF History, Entries
<1> HIDE DEF k
<1>4. g = [k EXCEPT !.entry[k.newid] = Blank]
  BY DEF ClearNew, k
<1> QED
  BY <1>1, <1>2, <1>3, <1>4 DEF History, Entries

\* Adding a command keeps the ring right: the slot it takes is the one of its
\* number, and the number that drops out of the window is the one whose slot is
\* cleared.
LEMMA AddHistoryKeepsRing ==
    ASSUME NEW h \in History, NEW line \in Commands, NEW g,
           IndicesFollowCount(h), WindowIsFilled(h), RestIsBlank(h),
           g = ClearNew(AddHistory(h, line))
    PROVE  IndicesFollowCount(g) /\ WindowIsFilled(g) /\ RestIsBlank(g)
<1> DEFINE m == Size + 1
           n == h.cmdnum
<1>1. /\ Size \in Nat /\ m \in Nat \ {0} /\ m = Size + 1 /\ m > 1
      /\ n \in Nat /\ n \in Int /\ n >= 1 /\ n = h.cmdnum
  BY SizeAssumption DEF History, IndicesFollowCount
<1>2. /\ g \in History
      /\ g.cmdnum = n + 1
      /\ g.lastid = h.newid
      /\ g.newid = AfterSlot(h.newid)
      /\ g.entry = [h.entry EXCEPT ![h.newid] = line, ![g.newid] = Blank]
  BY AddHistoryFields
<1> HIDE DEF m, n
<1>3. h.newid = n % m
  BY <1>1 DEF IndicesFollowCount
<1>4. g.newid = (n + 1) % m
  <2>1. (n + 1) % m = IF n % m < m - 1 THEN (n % m) + 1 ELSE 0
    BY <1>1, ModStep
  <2> QED
    BY <1>1, <1>2, <1>3, <2>1, SizeAssumption DEF AfterSlot
<1>5. IndicesFollowCount(g)
  BY <1>1, <1>2, <1>3, <1>4 DEF IndicesFollowCount
<1>6. ASSUME NEW num \in 1..(n + 1), Available(g, num)
      PROVE  num <= n /\ num % m # (n + 1) % m
  <2>1. num <= n /\ (n + 1) - num < m
    BY <1>1, <1>2, <1>6 DEF Available
  <2> QED
    BY <2>1, <1>1, <1>6, ModDistinct
<1>7. h.newid # g.newid
  BY <1>1, <1>3, <1>4, ModDistinct
<1>8. WindowIsFilled(g)
  <2>1. SUFFICES ASSUME NEW num \in 1..(n + 1), Available(g, num)
                 PROVE  g.entry[num % m] \in Commands
    BY <1>1, <1>2 DEF WindowIsFilled, Recalled, EntryId
  <2>2. num % m \in Slots
    <3>1. num \in Int
      BY <1>1, <2>1
    <3>2. num % m \in 0..(m - 1)
      BY <1>1, <3>1, DivMod
    <3> QED
      BY <1>1, <3>2 DEF Slots
  <2>3. CASE num = n
    BY <1>2, <1>3, <1>7, <2>2, <2>3 DEF History
  <2>4. CASE num # n
    <3>1. num < n /\ n - num < m
      BY <1>1, <1>2, <2>1, <2>4 DEF Available
    <3>2. num % m # n % m
      BY <1>1, <2>1, <3>1, ModDistinct
    <3>3. Available(h, num)
      BY <1>1, <1>2, <2>1, <3>1 DEF Available
    <3>4. h.entry[num % m] \in Commands
      BY <1>1, <2>1, <3>1, <3>3 DEF WindowIsFilled, Recalled, EntryId
    <3> QED
      BY <1>2, <1>3, <1>4, <1>6, <2>1, <2>2, <3>2, <3>4 DEF History
  <2> QED
    BY <2>3, <2>4
<1>9. RestIsBlank(g)
  <2>1. SUFFICES ASSUME NEW s \in Slots, g.entry[s] # Blank
                 PROVE  \E num \in 1..(n + 1) : Available(g, num) /\ num % m = s
    BY <1>1, <1>2 DEF RestIsBlank, EntryId
  <2>2. s # g.newid
    BY <1>2, <2>1 DEF History
  <2>3. CASE s = h.newid
    <3>1. n \in 1..(n + 1) /\ Available(g, n)
      BY <1>1, <1>2 DEF Available
    <3> QED
      BY <3>1, <2>3, <1>3
  <2>4. CASE s # h.newid
    <3>1. h.entry[s] # Blank
      BY <1>2, <2>1, <2>2, <2>4 DEF History
    <3>2. PICK num \in 1..n : Available(h, num) /\ num % m = s
      BY <1>1, <3>1 DEF RestIsBlank, EntryId
    <3>3. num # (n + 1) - m
      <4>1. SUFFICES ASSUME num = (n + 1) - m
                     PROVE  FALSE
        OBVIOUS
      <4>2. num + m = n + 1 /\ num \in Int
        BY <1>1, <4>1
      <4>3. (num + m) % m = num % m
        BY <1>1, <4>2, ModTurn
      <4> QED
        BY <1>4, <2>2, <3>2, <4>2, <4>3
    <3>4. num \in 1..(n + 1) /\ Available(g, num)
      BY <1>1, <1>2, <3>2, <3>3 DEF Available
    <3> QED
      BY <3>2, <3>4
  <2> QED
    BY <2>3, <2>4
<1> QED
  BY <1>5, <1>8, <1>9

-----------------------------------------------------------------------------
(* The invariant of the session's history, and its preservation by every   *)
(* action.  What the actions do to the ring is one of four things.         *)

RingOK(h) ==
    h \in History /\ IndicesFollowCount(h) /\ WindowIsFilled(h) /\ RestIsBlank(h)

HistoryInv == HistoryTypeOK /\ RingInv

\* Browsing and rewinding move getid only, and keep it on the ring.
LEMMA BrowsingKeepsRing ==
    ASSUME NEW h \in History, RingOK(h), NEW g, NEW s \in Slots,
           g = [h EXCEPT !.getid = s]
    PROVE  RingOK(g)
BY DEF RingOK, History, IndicesFollowCount, WindowIsFilled, RestIsBlank,
       Available, Recalled

LEMMA BrowseStaysOnRing ==
    ASSUME NEW h, RingOK(h)
    PROVE  RingOK(BrowseBefore(h)) /\ RingOK(BrowseAfter(h)) /\ RingOK(Rewind(h))
<1>1. /\ h \in History
      /\ BeforeSlot(h.getid) \in Slots /\ AfterSlot(h.getid) \in Slots /\ h.lastid \in Slots
  BY SizeAssumption DEF RingOK, History, Slots, BeforeSlot, AfterSlot
<1>2. RingOK(BrowseBefore(h))
  BY <1>1, BrowsingKeepsRing DEF BrowseBefore
<1>3. RingOK(BrowseAfter(h))
  BY <1>1, BrowsingKeepsRing DEF BrowseAfter
<1>4. RingOK(Rewind(h))
  BY <1>1, BrowsingKeepsRing DEF Rewind
<1> QED
  BY <1>2, <1>3, <1>4

LEMMA RememberKeepsRing ==
    ASSUME NEW h, RingOK(h), NEW line \in Commands
    PROVE  RingOK(Remember(h, line))
<1>1. CASE IsLastHistory(h, line)
  BY <1>1, ClearNewIsIdle DEF Remember, RingOK
<1>2. CASE ~IsLastHistory(h, line)
  BY <1>2, AddHistoryFields, AddHistoryKeepsRing DEF Remember, RingOK
<1> QED
  BY <1>1, <1>2

\* The line that appears on the terminal is a line of the history.
LEMMA ShownIsALine ==
    ASSUME NEW h, RingOK(h), NEW line \in Lines
    PROVE  Shown(h, line) \in Lines
<1>1. RetId(h) \in Slots
  <2>1. h.getid + 1 \in Int /\ Size + 1 \in Nat \ {0} /\ Size \in Nat
    BY SizeAssumption DEF RingOK, History, Slots
  <2>2. (h.getid + 1) % (Size + 1) \in 0..((Size + 1) - 1)
    BY <2>1, DivMod
  <2> QED
    BY <2>1, <2>2 DEF RetId, Slots
<1> QED
  BY <1>1 DEF Shown, Lines, RingOK, History

\* The fresh history with its separator: one blank command, number 0.
LEMMA InitRing ==
    HistoryInit => HistoryInv
<1>1. SUFFICES ASSUME HistoryInit
               PROVE  HistoryInv
  OBVIOUS
<1>2. /\ hist.newid = 1 /\ hist.getid = 0 /\ hist.lastid = 0 /\ hist.cmdnum = 1
      /\ hist.entry = [s \in Slots |-> Blank]
      /\ hist \in History
  BY <1>1, SizeAssumption DEF HistoryInit, AddHistory, InitHistory, History, Slots, Entries
<1>3. 0 % (Size + 1) = 0 /\ 1 % (Size + 1) = 1
  <2>1. Size + 1 \in Nat \ {0} /\ 0 \in 0..((Size + 1) - 1) /\ 1 \in 0..((Size + 1) - 1)
    BY SizeAssumption
  <2> QED
    BY <2>1, ModSmall
<1>4. IndicesFollowCount(hist)
  BY <1>2, <1>3 DEF IndicesFollowCount
<1>5. WindowIsFilled(hist) /\ RestIsBlank(hist)
  BY <1>2 DEF WindowIsFilled, RestIsBlank, Available
<1> QED
  BY <1>1, <1>2, <1>4, <1>5 DEF HistoryInv, HistoryTypeOK, RingInv, HistoryInit, Lines,
     Entries, Phases

\* A number that can be recalled is one of the numbers RingInv speaks of.
LEMMA RecalledIsACommand ==
    ASSUME NEW h, RingOK(h), NEW num \in Nat, Available(h, num)
    PROVE  num \in 1..h.cmdnum /\ Recalled(h, num) \in Commands
BY DEF RingOK, History, WindowIsFilled, Available

LEMMA StepKeepsInv ==
    HistoryInv /\ [HistoryNext]_historyVars => HistoryInv'
<1> SUFFICES ASSUME HistoryInv, [HistoryNext]_historyVars
             PROVE  HistoryInv'
  OBVIOUS
<1>0. RingOK(hist) /\ buffer \in Lines /\ phase \in Phases
  BY DEF HistoryInv, HistoryTypeOK, RingInv, RingOK
<1>1. SUFFICES RingOK(hist') /\ buffer' \in Lines /\ phase' \in Phases
  BY DEF HistoryInv, HistoryTypeOK, RingInv, RingOK, History, IndicesFollowCount,
     WindowIsFilled, RestIsBlank, Available, Recalled, Lines, Phases
<1>2. CASE BeginLine
  BY <1>0, <1>2 DEF BeginLine, Lines, Entries, Phases
<1>3. ASSUME NEW line \in Lines, Edit(line)
      PROVE  RingOK(hist') /\ buffer' \in Lines /\ phase' \in Phases
  BY <1>0, <1>3 DEF Edit
<1>4. CASE ArrowUp
  BY <1>0, <1>4, BrowseStaysOnRing, ShownIsALine DEF ArrowUp
<1>5. CASE ArrowDown
  BY <1>0, <1>5, BrowseStaysOnRing, ShownIsALine DEF ArrowDown
<1>6. CASE EndOfInput
  BY <1>0, <1>6 DEF EndOfInput, Phases
<1>7. CASE SubmitBlank
  BY <1>0, <1>7, BrowseStaysOnRing DEF SubmitBlank, Phases
<1>8. CASE SubmitCommand
  BY <1>0, <1>8, RememberKeepsRing DEF SubmitCommand, Phases
<1>9. CASE SubmitRecall
  <2>1. RecallNum[buffer] \in Nat /\ Available(hist, RecallNum[buffer])
    BY <1>9, RecallsAssumption DEF SubmitRecall, CanRecall
  <2>2. buffer' \in Commands
    BY <1>0, <1>9, <2>1, RecalledIsACommand DEF SubmitRecall
  <2> QED
    BY <1>0, <1>9, <2>2, RememberKeepsRing DEF SubmitRecall, Lines, Entries, Phases
<1>10. CASE RejectRecall
  BY <1>0, <1>10 DEF RejectRecall, Phases
<1>11. CASE Finish
  BY <1>0, <1>11, BrowseStaysOnRing DEF Finish, Phases
<1>12. CASE Close
  BY <1>0, <1>12, BrowseStaysOnRing DEF Close, Phases
<1>13. CASE UNCHANGED historyVars
  BY <1>0, <1>13 DEF historyVars
<1> QED
  BY <1>2, <1>3, <1>4, <1>5, <1>6, <1>7, <1>8, <1>9, <1>10, <1>11, <1>12, <1>13
     DEF HistoryNext, Submit

LEMMA InvHolds == HistorySpec => []HistoryInv
BY InitRing, StepKeepsInv, PTL DEF HistorySpec

\* The indices stay on the ring, the slots hold lines, the line being edited is a
\* line, whatever is typed, browsed, recalled and executed.
THEOREM TypeCorrect == HistorySpec => []HistoryTypeOK
BY InvHolds, PTL DEF HistoryInv

\* The ring of add_history and the slot arithmetic of "!n" always agree: every
\* number that can be recalled finds its command, every other slot is blank.
THEOREM RingCorrect == HistorySpec => []RingInv
BY InvHolds, PTL DEF HistoryInv

-----------------------------------------------------------------------------
(* Recall by number.                                                       *)

\* Remembering a command leaves every number that stays available with its line.
LEMMA RememberKeepsNumbers ==
    ASSUME NEW h, RingOK(h), NEW line \in Commands,
           NEW num \in Nat, Available(h, num), Available(Remember(h, line), num)
    PROVE  Recalled(Remember(h, line), num) = Recalled(h, num)
<1>1. CASE IsLastHistory(h, line)
  BY <1>1, ClearNewIsIdle DEF Remember, RingOK
<1>2. CASE ~IsLastHistory(h, line)
  <2> DEFINE m == Size + 1
             n == h.cmdnum
             g == ClearNew(AddHistory(h, line))
  <2>1. Remember(h, line) = g
    BY <1>2 DEF Remember
  <2>2. /\ g.entry = [h.entry EXCEPT ![h.newid] = line, ![g.newid] = Blank]
        /\ g.cmdnum = n + 1 /\ g \in History /\ IndicesFollowCount(g)
    BY AddHistoryFields, AddHistoryKeepsRing DEF RingOK
  <2> HIDE DEF g
  <2>3. /\ Size \in Nat /\ m = Size + 1 /\ m \in Nat \ {0} /\ n \in Int /\ num \in Int
        /\ num < n /\ n - num < m /\ (n + 1) - num < m
        /\ h.newid = n % m /\ g.newid = (n + 1) % m
    BY <2>1, <2>2, SizeAssumption DEF RingOK, History, IndicesFollowCount, Available
  <2> HIDE DEF m, n
  <2>4. num % m # n % m /\ num % m # (n + 1) % m
    <3>1. n + 1 \in Int /\ num < n + 1
      BY <2>3
    <3>2. num % m # (n + 1) % m
      BY <2>3, <3>1, ModDistinct
    <3> QED
      BY <2>3, <3>2, ModDistinct
  <2>5. num % m \in Slots
    <3>1. num % m \in 0..(m - 1)
      BY <2>3, DivMod
    <3> QED
      BY <2>3, <3>1 DEF Slots
  <2> QED
    BY <2>1, <2>2, <2>3, <2>4, <2>5 DEF Recalled, EntryId, RingOK, History
<1> QED
  BY <1>1, <1>2

LEMMA StepKeepsNumbers ==
    HistoryInv /\ [HistoryNext]_historyVars =>
        \A num \in 1..hist.cmdnum : RecallStable(num)
<1> SUFFICES ASSUME HistoryInv, [HistoryNext]_historyVars, NEW num \in 1..hist.cmdnum,
                    Available(hist, num), Available(hist', num)
             PROVE  Recalled(hist', num) = Recalled(hist, num)
  BY DEF RecallStable
<1>1. RingOK(hist) /\ num \in Nat
  BY DEF HistoryInv, HistoryTypeOK, RingInv, RingOK, History
<1>2. CASE UNCHANGED hist
  BY <1>2
<1>3. CASE SubmitCommand
  BY <1>1, <1>3, RememberKeepsNumbers DEF SubmitCommand
<1>4. CASE SubmitRecall
  <2>1. RecallNum[buffer] \in Nat /\ Available(hist, RecallNum[buffer])
    BY <1>4, RecallsAssumption DEF SubmitRecall, CanRecall
  <2>2. buffer' \in Commands
    BY <1>1, <1>4, <2>1, RecalledIsACommand DEF SubmitRecall
  <2> QED
    BY <1>1, <1>4, <2>2, RememberKeepsNumbers DEF SubmitRecall
<1>5. CASE ArrowUp \/ ArrowDown \/ SubmitBlank \/ Finish \/ Close
  BY <1>1, <1>5 DEF ArrowUp, ArrowDown, SubmitBlank, Finish, Close, BrowseBefore,
     BrowseAfter, Rewind, Recalled, RingOK, History
<1> QED
  BY <1>2, <1>3, <1>4, <1>5 DEF HistoryNext, Submit, BeginLine, Edit, EndOfInput,
     RejectRecall, historyVars

\* "!n" recalls the command n was given to for as long as n is available, however
\* often the ring wraps.
THEOREM NumbersStable == HistorySpec => RecallNumbersStable
<1>1. HistoryInv /\ [HistoryNext]_historyVars =>
          [\A num \in 1..hist.cmdnum : RecallStable(num)]_historyVars
  BY StepKeepsNumbers
<1> QED
  BY <1>1, InvHolds, PTL DEF HistorySpec, RecallNumbersStable

\* The Down key takes back the Up key and the Up key the Down key, wherever the
\* ring has wrapped to, except at its two ends.
THEOREM BrowsingReversible == HistorySpec => []DownUndoesUp
<1>1. HistoryInv => DownUndoesUp
  <2> SUFFICES ASSUME HistoryInv
               PROVE  DownUndoesUp
    OBVIOUS
  <2>1. /\ hist \in History /\ ~IsEmpty(hist) /\ hist.newid = AfterSlot(hist.lastid)
        /\ Size \in Nat \ {0}
    BY NeverEmpty, NewFollowsLast, SizeAssumption DEF HistoryInv, HistoryTypeOK, RingInv
  <2>2. ASSUME hist.getid # hist.newid
        PROVE  BrowseAfter(BrowseBefore(hist)) = hist
    BY <2>1, <2>2 DEF BrowseAfter, BrowseBefore, IsEmpty, AfterSlot, BeforeSlot,
       History, Slots
  <2>3. ASSUME hist.getid # hist.lastid
        PROVE  BrowseBefore(BrowseAfter(hist)) = hist
    BY <2>1, <2>3 DEF BrowseAfter, BrowseBefore, IsEmpty, AfterSlot, BeforeSlot,
       History, Slots
  <2> QED
    BY <2>2, <2>3 DEF DownUndoesUp
<1> QED
  BY <1>1, InvHolds, PTL

-----------------------------------------------------------------------------
(* The listing.                                                            *)

\* The first lines of the listing.
FirstLines(h, count) ==
    [j \in 1..count |-> [num  |-> FirstListed(h) + j - 1,
                         line |-> Recalled(h, FirstListed(h) + j - 1)]]

\* How many lines the loop has printed after some turns: the slot at which a turn looks is
\* that of the number which is as far behind the ring's oldest.
CountAfter(h, turns) ==
    LET reached == h.cmdnum - (Size + 1) + turns
    IN  IF reached > FirstListed(h) THEN reached - FirstListed(h) ELSE 0

LEMMA SlotOfTurn ==
    ASSUME NEW h, RingOK(h), NEW i \in 0..Size
    PROVE  (h.newid + i) % (Size + 1) = (h.cmdnum - (Size + 1) + i) % (Size + 1)
<1>1. PICK m \in Nat \ {0} : m = Size + 1
  BY SizeAssumption
<1>2. PICK n \in Nat : n = h.cmdnum
  BY DEF RingOK, History
<1>3. h.newid = n % m
  BY <1>1, <1>2 DEF RingOK, IndicesFollowCount
<1>4. i \in Int /\ n \in Int
  BY SizeAssumption
<1>5. ((n % m) + i) % m = (n + i) % m
  BY <1>4, ModShift
<1>6. PICK p \in Int : p = n - m + i /\ n + i = p + m
  BY <1>4
<1>7. (p + m) % m = p % m
  BY ModTurn
<1> QED
  BY <1>1, <1>2, <1>3, <1>5, <1>6, <1>7, Zenon

\* Each turn prints the line of the number it has come to, and nothing where the ring
\* holds no number yet.
LEMMA TurnPrints ==
    ASSUME NEW h, RingOK(h), NEW i \in 0..Size
    PROVE  PrintSlot(h, i, FirstLines(h, CountAfter(h, i))) = FirstLines(h, CountAfter(h, i + 1))
<1>1. PICK m \in Nat \ {0} : m = Size + 1 /\ Size = m - 1
  BY SizeAssumption
<1>2. PICK n \in Nat : n = h.cmdnum /\ n >= 1
  BY DEF RingOK, History, IndicesFollowCount
<1>3. PICK first \in Nat : /\ first = FirstListed(h)
                           /\ n < m => first = 1
                           /\ n >= m => first = n - m + 1
  BY <1>1, <1>2 DEF FirstListed
<1>4. PICK p \in Int : p = n - m + i
  BY SizeAssumption
<1>5. i \in Nat /\ i < m
  BY <1>1, SizeAssumption
<1>6. /\ CountAfter(h, i) = IF p > first THEN p - first ELSE 0
      /\ CountAfter(h, i + 1) = IF p + 1 > first THEN p + 1 - first ELSE 0
  BY <1>1, <1>2, <1>3, <1>4, <1>5 DEF CountAfter
<1>7. PICK s : s = (h.newid + i) % (Size + 1)
  OBVIOUS
<1>8. s = p % m /\ s \in Slots
  <2>1. s = p % m
    BY <1>1, <1>2, <1>4, <1>7, SlotOfTurn, Zenon
  <2>2. p % m \in 0..(m - 1)
    BY DivMod
  <2> QED
    BY <1>1, <2>1, <2>2 DEF Slots
<1>9. PICK line : line = h.entry[s]
  OBVIOUS
<1>10. CASE p >= first /\ i > 0
  <2>1. Available(h, p) /\ p \in Nat
    BY <1>1, <1>2, <1>3, <1>4, <1>5, <1>10 DEF Available
  <2>2. line = Recalled(h, p) /\ line # Blank
    <3>1. Recalled(h, p) = line
      BY <1>1, <1>8, <1>9 DEF Recalled, EntryId
    <3>2. Recalled(h, p) \in Commands
      BY <2>1, RecalledIsACommand
    <3> QED
      BY <3>1, <3>2, BlankAssumption
  <2>3. PICK c \in Nat : c = p - first /\ CountAfter(h, i) = c /\ CountAfter(h, i + 1) = c + 1
    BY <1>3, <1>6, <1>10
  <2>4. PICK e : e = [num |-> first + c, line |-> line]
    OBVIOUS
  <2>5. Len(FirstLines(h, c)) = c
    BY DEF FirstLines
  <2>6. PrintSlot(h, i, FirstLines(h, c)) = Append(FirstLines(h, c), e)
    BY <1>3, <1>7, <1>9, <2>2, <2>4, <2>5, Zenon DEF PrintSlot
  <2>7. FirstLines(h, c + 1) = Append(FirstLines(h, c), e)
    <3> DEFINE entry(j) == [num  |-> FirstListed(h) + j - 1,
                            line |-> Recalled(h, FirstListed(h) + j - 1)]
    <3>1. entry(c + 1) = e
      <4>1. FirstListed(h) + (c + 1) - 1 = first + c /\ first + c = p
        BY <1>3, <1>4, <2>3
      <4> QED
        BY <2>2, <2>4, <4>1
    <3>2. /\ FirstLines(h, c) = [j \in 1..c |-> entry(j)]
          /\ FirstLines(h, c + 1) = [j \in 1..(c + 1) |-> entry(j)]
      BY DEF FirstLines
    <3> HIDE DEF entry
    <3> QED
      BY <3>1, <3>2
  <2> QED
    BY <2>3, <2>6, <2>7, Zenon
<1>11. CASE ~ (p >= first /\ i > 0)
  <2>1. h.entry[s] = Blank
    <3>1. CASE i = 0
      <4>1. s = h.newid
        <5>1. h.newid \in 0..(m - 1)
          BY <1>1 DEF RingOK, History, Slots
        <5>2. h.newid % m = h.newid
          BY <5>1, ModSmall
        <5> QED
          BY <1>1, <1>7, <3>1, <5>1, <5>2
      <4> QED
        BY <4>1, NewIsBlank DEF RingOK
    <3>2. CASE i > 0
      <4> SUFFICES ASSUME h.entry[s] # Blank
                   PROVE  FALSE
        OBVIOUS
      <4>1. PICK num \in 1..h.cmdnum : Available(h, num) /\ EntryId(num) = s
        BY <1>8 DEF RingOK, RestIsBlank
      <4>2. num \in Int /\ num < n /\ num >= 1
        BY <1>2, <4>1 DEF Available
      <4>3. p < num /\ num - p < m
        BY <1>1, <1>2, <1>3, <1>4, <1>5, <1>11, <3>2, <4>2
      <4>4. p % m # num % m
        BY <4>2, <4>3, ModDistinct
      <4> QED
        BY <1>1, <1>8, <4>1, <4>4 DEF EntryId
    <3> QED
      BY <1>5, <3>1, <3>2
  <2>2. CountAfter(h, i) = 0 /\ CountAfter(h, i + 1) = 0
    BY <1>2, <1>3, <1>4, <1>5, <1>6, <1>11
  <2> QED
    BY <1>7, <2>1, <2>2 DEF PrintSlot
<1> QED
  BY <1>10, <1>11

\* Around the ring the loop prints all the numbers that can be recalled, in their order.
LEMMA DumpIs ==
    ASSUME NEW h, RingOK(h)
    PROVE  DumpHistory(h) = FirstLines(h, h.cmdnum - FirstListed(h))
<1> DEFINE S == Seq([num : Int, line : Entries])
           D == 0..(Size + 1)
           Turn(g) == [i \in D |-> IF i = 0 THEN <<>> ELSE PrintSlot(h, i - 1, g[i - 1])]
           printed == CHOOSE g : g = Turn(g)
           step == [x \in Nat \X S |-> PrintSlot(h, x[1], x[2])]
<1>1. Size \in Nat /\ h.cmdnum \in Nat /\ h.cmdnum >= 1
  BY SizeAssumption DEF RingOK, History, IndicesFollowCount
<1>2. \E g : g = Turn(g)
  <2>1. <<>> \in S
    OBVIOUS
  <2>2. step \in StepsOn(S)
    <3>1. ASSUME NEW i \in Nat, NEW s \in S
          PROVE  PrintSlot(h, i, s) \in S
      <4>1. PICK k : k = (h.newid + i) % (Size + 1)
        OBVIOUS
      <4>2. k \in Slots
        <5>1. h.newid + i \in Int /\ Size + 1 \in Nat \ {0}
          BY <1>1 DEF RingOK, History, Slots
        <5>2. k \in 0..((Size + 1) - 1)
          BY <4>1, <5>1, DivMod
        <5> QED
          BY <1>1, <5>2 DEF Slots
      <4>3. h.entry[k] \in Entries
        BY <4>2 DEF RingOK, History
      <4>4. FirstListed(h) + Len(s) \in Int
        BY <1>1 DEF FirstListed
      <4>5. PICK e \in [num : Int, line : Entries] :
                e = [num |-> FirstListed(h) + Len(s), line |-> h.entry[k]]
        BY <4>3, <4>4
      <4>6. PrintSlot(h, i, s) = s \/ PrintSlot(h, i, s) = Append(s, e)
        BY <4>1, <4>5, Zenon DEF PrintSlot
      <4>7. Append(s, e) \in S
        OBVIOUS
      <4> HIDE DEF S
      <4> QED
        BY <3>1, <4>6, <4>7
    <3>2. \A x \in Nat \X S : PrintSlot(h, x[1], x[2]) \in S
      BY <3>1
    <3> QED
      BY <3>2 DEF StepsOn
  <2>3. PICK f : Recursive(f, S, <<>>, step)
    <3> HIDE DEF S, step
    <3> QED
      BY <2>1, <2>2, Recursion
  <2>4. \A i \in Nat : f[i] \in S /\ f[i + 1] = PrintSlot(h, i, f[i])
    <3>1. f \in [Nat -> S] /\ \A i \in Nat : f[i + 1] = step[<<i, f[i]>>]
      BY <2>3 DEF Recursive
    <3>2. ASSUME NEW i \in Nat
          PROVE  f[i] \in S /\ step[<<i, f[i]>>] = PrintSlot(h, i, f[i])
      <4>1. f[i] \in S
        <5> HIDE DEF S
        <5> QED
          BY <3>1
      <4>2. <<i, f[i]>> \in Nat \X S
        BY <4>1
      <4> HIDE DEF S
      <4> QED
        BY <4>1, <4>2
    <3> QED
      BY <3>1, <3>2
  <2> DEFINE g == [i \in D |-> f[i]]
  <2>5. g = Turn(g)
    <3>1. ASSUME NEW i \in D
          PROVE  g[i] = IF i = 0 THEN <<>> ELSE PrintSlot(h, i - 1, g[i - 1])
      <4>1. CASE i = 0
        BY <1>1, <2>3, <4>1 DEF Recursive
      <4>2. CASE i # 0
        <5>1. i - 1 \in Nat /\ i - 1 \in D /\ (i - 1) + 1 = i
          BY <1>1, <4>2
        <5>2. f[(i - 1) + 1] = PrintSlot(h, i - 1, f[i - 1])
          BY <2>4, <5>1
        <5> QED
          BY <4>2, <5>1, <5>2
      <4> QED
        BY <4>1, <4>2
    <3> QED
      BY <3>1
  <2> QED
    BY <2>5
<1>3. printed = Turn(printed)
  BY <1>2
<1>4. DumpHistory(h) = printed[Size + 1]
  BY DEF DumpHistory
<1> DEFINE Good == {i \in Nat : i <= Size + 1 => printed[i] = FirstLines(h, CountAfter(h, i))}
<1>5. \A i \in Nat : i \in Good
  <2>1. 0 \in Good
    <3>1. CountAfter(h, 0) = 0
      BY <1>1 DEF CountAfter, FirstListed
    <3>2. FirstLines(h, 0) = <<>>
      BY DEF FirstLines
    <3>3. printed[0] = <<>>
      <4> HIDE DEF printed
      <4> QED
        BY <1>1, <1>3
    <3> QED
      BY <3>1, <3>2, <3>3
  <2>2. ASSUME NEW i \in Nat, i \in Good
        PROVE  i + 1 \in Good
    <3> SUFFICES ASSUME i + 1 <= Size + 1
                 PROVE  printed[i + 1] = FirstLines(h, CountAfter(h, i + 1))
      OBVIOUS
    <3>1. i \in 0..Size /\ i + 1 \in D /\ i + 1 # 0 /\ (i + 1) - 1 = i
      BY <1>1
    <3>2. printed[i] = FirstLines(h, CountAfter(h, i))
      BY <1>1, <2>2, <3>1
    <3>3. printed[i + 1] = PrintSlot(h, i, printed[i])
      <4> HIDE DEF printed
      <4> QED
        BY <1>3, <3>1
    <3> QED
      BY <3>1, <3>2, <3>3, TurnPrints, Zenon
  <2> HIDE DEF Good
  <2> QED
    BY <2>1, <2>2, SetInduction
<1>6. printed[Size + 1] = FirstLines(h, CountAfter(h, Size + 1))
  <2> HIDE DEF printed
  <2> QED
    BY <1>1, <1>5
<1>7. CountAfter(h, Size + 1) = h.cmdnum - FirstListed(h)
  BY <1>1 DEF CountAfter, FirstListed
<1> QED
  BY <1>4, <1>6, <1>7, Zenon

\* "history" lists exactly the numbers that "!n" can recall, each with the line it
\* recalls, for every size of the ring and however often it has wrapped.
THEOREM ListingCorrect == HistorySpec => []DumpMatchesRecall
<1>1. HistoryInv => DumpMatchesRecall
  <2> SUFFICES ASSUME HistoryInv
               PROVE  DumpMatchesRecall
    OBVIOUS
  <2>1. RingOK(hist)
    BY DEF HistoryInv, HistoryTypeOK, RingInv, RingOK
  <2>2. PICK n \in Nat, first \in Nat : /\ n = hist.cmdnum /\ n >= 1
                                        /\ first = FirstListed(hist) /\ first >= 1 /\ first <= n
    BY <2>1, SizeAssumption DEF RingOK, History, IndicesFollowCount, FirstListed
  <2>3. PICK dump : dump = DumpHistory(hist)
    OBVIOUS
  <2>4. /\ DOMAIN dump = 1..(n - first)
        /\ \A i \in 1..(n - first) : /\ dump[i].num = first + i - 1
                                     /\ dump[i].line = Recalled(hist, first + i - 1)
    BY <2>1, <2>2, <2>3, DumpIs DEF FirstLines
  <2>5. \A num \in 0..(n + 1) : Available(hist, num) <=> num \in first..(n - 1)
    BY <2>2, SizeAssumption DEF Available, FirstListed
  <2>6. {dump[i].num : i \in DOMAIN dump} = {num \in 0..(n + 1) : Available(hist, num)}
    <3>1. ASSUME NEW num \in first..(n - 1)
          PROVE  \E i \in 1..(n - first) : num = first + i - 1
      <4>1. num - first + 1 \in 1..(n - first) /\ num = first + (num - first + 1) - 1
        BY <2>2
      <4> QED
        BY <4>1
    <3>2. \A i \in 1..(n - first) : first + i - 1 \in first..(n - 1)
      BY <2>2
    <3>3. first..(n - 1) \subseteq 0..(n + 1)
      BY <2>2
    <3>4. {dump[i].num : i \in DOMAIN dump} = first..(n - 1)
      <4>1. \A i \in DOMAIN dump : dump[i].num \in first..(n - 1)
        BY <2>4, <3>2
      <4>2. ASSUME NEW num \in first..(n - 1)
            PROVE  \E i \in DOMAIN dump : num = dump[i].num
        <5>1. PICK i \in 1..(n - first) : num = first + i - 1
          BY <3>1
        <5>2. i \in DOMAIN dump /\ num = dump[i].num
          BY <2>4, <5>1, Zenon
        <5> QED
          BY <5>2
      <4> QED
        BY <4>1, <4>2, Zenon
    <3>5. {num \in 0..(n + 1) : Available(hist, num)} = first..(n - 1)
      BY <2>5, <3>3
    <3> QED
      BY <3>4, <3>5
  <2>7. \A i \in DOMAIN dump : dump[i].line = Recalled(hist, dump[i].num)
    BY <2>4
  <2> QED
    BY <2>2, <2>3, <2>6, <2>7 DEF DumpMatchesRecall
<1> QED
  BY <1>1, InvHolds, PTL

-----------------------------------------------------------------------------
(* The ring implements the numbered log.                                   *)

\* The abstract window holds exactly the numbers parseline lets through.
LEMMA WindowIsAvailable ==
    ASSUME NEW h \in History, NEW num \in Int
    PROVE  num \in WindowOf(h.cmdnum - 1) <=> Available(h, num)
BY SizeAssumption DEF WindowOf, Available, History

\* How far the browsing position stands from the newest command.
DistanceOf(h) == (h.lastid - h.getid) % (Size + 1)

LEMMA DistanceCases ==
    ASSUME NEW h \in History
    PROVE  DistanceOf(h) = IF h.getid <= h.lastid
                           THEN h.lastid - h.getid
                           ELSE (h.lastid - h.getid) + (Size + 1)
<1> DEFINE s == h.getid
           t == h.lastid
           m == Size + 1
<1>1. m \in Nat \ {0} /\ s \in 0..(m - 1) /\ t \in 0..(m - 1)
  BY SizeAssumption DEF History, Slots
<1> HIDE DEF s, t, m
<1>2. (t - s) % m = IF s <= t THEN t - s ELSE (t - s) + m
  BY <1>1, ModDifference
<1> QED
  BY <1>2 DEF s, t, m, DistanceOf

\* One Up is one step away from the newest command, one Down one step back.
LEMMA BrowseDistance ==
    ASSUME NEW h, RingOK(h)
    PROVE  /\ DistanceOf(h) \in 0..Size
           /\ DistanceOf(BrowseBefore(h)) =
                  IF DistanceOf(h) < Size THEN DistanceOf(h) + 1 ELSE DistanceOf(h)
           /\ DistanceOf(BrowseAfter(h)) =
                  IF DistanceOf(h) > 0 THEN DistanceOf(h) - 1 ELSE DistanceOf(h)
           /\ DistanceOf(Rewind(h)) = 0
<1>1. /\ h \in History /\ ~IsEmpty(h) /\ h.newid = AfterSlot(h.lastid)
      /\ Size \in Nat \ {0}
  BY NeverEmpty, NewFollowsLast, SizeAssumption DEF RingOK
<1>2. /\ BrowseBefore(h) \in History /\ BrowseAfter(h) \in History
      /\ Rewind(h) \in History
  BY BrowseStaysOnRing DEF RingOK
<1>3. DistanceOf(h) \in 0..Size
  BY <1>1, DistanceCases DEF History, Slots
<1>4. DistanceOf(BrowseBefore(h)) =
          IF DistanceOf(h) < Size THEN DistanceOf(h) + 1 ELSE DistanceOf(h)
  <2> DEFINE g == BrowseBefore(h)
  <2>1. /\ g.lastid = h.lastid
        /\ g.getid = IF h.getid = h.newid THEN h.getid ELSE BeforeSlot(h.getid)
    BY <1>1 DEF BrowseBefore, History
  <2>2. g \in History
    BY <1>2
  <2> HIDE DEF g
  <2>3. DistanceOf(g) = IF g.getid <= g.lastid THEN g.lastid - g.getid
                        ELSE (g.lastid - g.getid) + (Size + 1)
    BY <2>2, DistanceCases
  <2>4. DistanceOf(g) = IF DistanceOf(h) < Size THEN DistanceOf(h) + 1 ELSE DistanceOf(h)
    BY <1>1, <2>1, <2>3, DistanceCases DEF BeforeSlot, AfterSlot, History, Slots
  <2> QED
    BY <2>4 DEF g
<1>5. DistanceOf(BrowseAfter(h)) =
          IF DistanceOf(h) > 0 THEN DistanceOf(h) - 1 ELSE DistanceOf(h)
  <2> DEFINE g == BrowseAfter(h)
  <2>1. /\ g.lastid = h.lastid
        /\ g.getid = IF h.getid = h.lastid THEN h.getid ELSE AfterSlot(h.getid)
    BY <1>1 DEF BrowseAfter, History
  <2>2. g \in History
    BY <1>2
  <2> HIDE DEF g
  <2>3. DistanceOf(g) = IF g.getid <= g.lastid THEN g.lastid - g.getid
                        ELSE (g.lastid - g.getid) + (Size + 1)
    BY <2>2, DistanceCases
  <2>4. DistanceOf(g) = IF DistanceOf(h) > 0 THEN DistanceOf(h) - 1 ELSE DistanceOf(h)
    BY <1>1, <2>1, <2>3, DistanceCases DEF AfterSlot, History, Slots
  <2> QED
    BY <2>4 DEF g
<1>6. DistanceOf(Rewind(h)) = 0
  <2>1. Rewind(h).getid = Rewind(h).lastid /\ Rewind(h).lastid \in Slots
    BY <1>1 DEF Rewind, History
  <2>2. Rewind(h).lastid - Rewind(h).getid = 0
    BY <2>1 DEF Slots
  <2>3. Size + 1 \in Nat \ {0} /\ 0 \in 0..((Size + 1) - 1)
    BY <1>1
  <2> QED
    BY <2>2, <2>3, ModSmall DEF DistanceOf
<1> QED
  BY <1>3, <1>4, <1>5, <1>6

\* The slot get_history shows is the one of the command that many steps back, or a
\* blank one when there is no such command.
LEMMA ShownByNumber ==
    ASSUME NEW h, RingOK(h), NEW line,
           NEW k, k = DistanceOf(h), NEW num, num = ((h.cmdnum - 1) - k) + 1
    PROVE  Shown(h, line) =
               IF k > 0 /\ num \in WindowOf(h.cmdnum - 1) THEN Recalled(h, num) ELSE Blank
<1> DEFINE m == Size + 1
           n == h.cmdnum
           s == RetId(h)
<1>1. /\ Size \in Nat \ {0} /\ m = Size + 1 /\ m \in Nat \ {0} /\ n \in Nat /\ n >= 1
      /\ n = h.cmdnum /\ k \in 0..Size /\ num = n - k /\ num \in Int /\ n \in Int
      /\ h \in History
  BY BrowseDistance, SizeAssumption DEF RingOK, History, IndicesFollowCount
<1>2. Shown(h, line) = h.entry[s]
  BY NeverEmpty DEF Shown, RingOK
<1>3. s = num % m /\ s \in Slots
  <2> DEFINE j == n - 1
             d == 1 - k
             e == h.getid + 1
  <2>1. /\ h.getid \in Int /\ h.lastid \in Int /\ j \in Int /\ d \in Int /\ e \in Int
        /\ num = j + d /\ e = h.getid + 1 /\ d = 1 - k
    <3> HIDE DEF m, n, s
    <3>1. h.getid \in Int /\ h.lastid \in Int /\ k \in Int
      BY <1>1 DEF History, Slots
    <3> QED
      BY <1>1, <3>1
  <2>2. h.lastid = j % m /\ s = e % m
    BY DEF RingOK, IndicesFollowCount, RetId
  <2> HIDE DEF j, d, e, n, s
  <2>3. \/ e = h.lastid + d
        \/ e = (h.lastid + d) + m
    <3>1. k = h.lastid - h.getid \/ k = (h.lastid - h.getid) + m
      BY <1>1, DistanceCases
    <3> HIDE DEF m
    <3> QED
      BY <1>1, <2>1, <3>1
  <2> HIDE DEF m
  <2>4. (h.lastid + d) \in Int
    BY <2>1
  <2>5. e % m = (h.lastid + d) % m
    BY <1>1, <2>3, <2>4, ModTurn
  <2>6. ((j % m) + d) % m = (j + d) % m
    BY <1>1, <2>1, ModShift, Zenon
  <2>7. s = num % m
    BY <2>1, <2>2, <2>5, <2>6
  <2>8. num % m \in 0..(m - 1)
    BY <1>1, DivMod
  <2> QED
    BY <1>1, <2>7, <2>8 DEF Slots
<1> HIDE DEF s, n
<1>4. CASE k = 0
  <2>1. s = h.newid
    BY <1>1, <1>3, <1>4 DEF RingOK, IndicesFollowCount
  <2> QED
    BY <1>2, <1>4, <2>1, NewIsBlank DEF RingOK
<1>5. CASE k > 0 /\ num \in WindowOf(h.cmdnum - 1)
  BY <1>2, <1>3, <1>5 DEF Recalled, EntryId
<1>6. CASE k > 0 /\ num \notin WindowOf(h.cmdnum - 1)
  <2>1. num <= 0
    BY <1>1, <1>6 DEF WindowOf
  <2>2. ASSUME NEW i \in 1..h.cmdnum, Available(h, i)
        PROVE  EntryId(i) # s
    <3>1. i \in Int /\ num < i /\ i - num < m
      BY <1>1, <1>6, <2>1, <2>2 DEF Available
    <3> HIDE DEF m
    <3>2. num % m # i % m
      BY <1>1, <3>1, ModDistinct
    <3> QED
      BY <1>1, <1>3, <3>2 DEF EntryId
  <2>3. h.entry[s] = Blank
    BY <1>3, <2>2 DEF RingOK, RestIsBlank
  <2> QED
    BY <1>2, <1>6, <2>3
<1> QED
  BY <1>1, <1>4, <1>5, <1>6

\* The log that the ring stands for, for any state of the ring.
LogOf(h) == [num \in WindowOf(h.cmdnum - 1) |-> Recalled(h, num)]

\* The line k steps back in that log, as HistoryLog reads it.
LineBack(h, k) ==
    LET num == ((h.cmdnum - 1) - k) + 1
    IN  IF k > 0 /\ num \in WindowOf(h.cmdnum - 1) THEN LogOf(h)[num] ELSE Blank

\* What the terminal shows after an arrow key, said of the ring before the key.
LEMMA ShownIsLineBack ==
    ASSUME NEW h, NEW g, RingOK(g), NEW line,
           g.cmdnum = h.cmdnum, LogOf(g) = LogOf(h)
    PROVE  Shown(g, line) = LineBack(h, DistanceOf(g))
<1> DEFINE k == DistanceOf(g)
           num == ((g.cmdnum - 1) - k) + 1
<1>1. Shown(g, line) =
          IF k > 0 /\ num \in WindowOf(g.cmdnum - 1) THEN Recalled(g, num) ELSE Blank
  BY ShownByNumber
<1>2. num \in WindowOf(g.cmdnum - 1) => LogOf(g)[num] = Recalled(g, num)
  BY DEF LogOf
<1> QED
  BY <1>1, <1>2 DEF LineBack

\* Browsing and rewinding leave the log alone.
LEMMA BrowsingKeepsLog ==
    ASSUME NEW h, RingOK(h), NEW g,
           g \in {BrowseBefore(h), BrowseAfter(h), Rewind(h)}
    PROVE  g.cmdnum = h.cmdnum /\ LogOf(g) = LogOf(h)
<1>1. h \in History /\ g.cmdnum = h.cmdnum /\ g.entry = h.entry
  BY DEF RingOK, History, BrowseBefore, BrowseAfter, Rewind
<1> QED
  BY <1>1 DEF LogOf, Recalled

\* The log once line is number n + 1, as HistoryLog makes it.
NotedLog(h, n, line) ==
    [i \in WindowOf(n + 1) |-> IF i = n + 1 THEN line ELSE LogOf(h)[i]]

\* Remembering a command is noting it in the log.
LEMMA RememberNotes ==
    ASSUME NEW h, RingOK(h), NEW line \in Commands, NEW g, g = Remember(h, line),
           NEW n, n = h.cmdnum - 1
    PROVE  \/ n > 0 /\ LogOf(h)[n] = line /\ g = h
           \/ /\ n = 0 \/ LogOf(h)[n] # line
              /\ g.cmdnum - 1 = n + 1
              /\ DistanceOf(g) = 0
              /\ LogOf(g) = NotedLog(h, n, line)
<1>1. /\ h \in History /\ n \in Nat /\ ~IsEmpty(h) /\ Size \in Nat \ {0}
      /\ h.lastid = n % (Size + 1)
  BY NeverEmpty, SizeAssumption DEF RingOK, History, IndicesFollowCount
<1>2. IsLastHistory(h, line) <=> n > 0 /\ LogOf(h)[n] = line
  <2>1. CASE n = 0
    <3>1. ASSUME NEW i \in 1..h.cmdnum
          PROVE  ~Available(h, i)
      BY <1>1, <2>1 DEF Available, History
    <3>2. h.entry[h.lastid] = Blank
      BY <1>1, <3>1 DEF RingOK, RestIsBlank, History
    <3> QED
      BY <2>1, <3>2, BlankAssumption DEF IsLastHistory
  <2>2. CASE n > 0
    <3>1. n \in WindowOf(h.cmdnum - 1)
      BY <1>1, <2>2 DEF WindowOf
    <3>2. LogOf(h)[n] = h.entry[h.lastid]
      BY <1>1, <3>1 DEF LogOf, Recalled, EntryId
    <3> QED
      BY <1>1, <2>2, <3>2 DEF IsLastHistory
  <2>3. n = 0 \/ n > 0
    BY <1>1 DEF History
  <2> QED
    BY <2>1, <2>2, <2>3
<1>3. CASE IsLastHistory(h, line)
  BY <1>2, <1>3, ClearNewIsIdle DEF Remember, RingOK
<1>4. CASE ~IsLastHistory(h, line)
  <2>1. g = ClearNew(AddHistory(h, line))
    BY <1>4 DEF Remember
  <2>2. /\ g \in History /\ g.cmdnum = h.cmdnum + 1
        /\ g.lastid = h.newid /\ g.getid = h.newid /\ g.newid = AfterSlot(h.newid)
        /\ g.entry = [h.entry EXCEPT ![h.newid] = line, ![g.newid] = Blank]
    BY <2>1, AddHistoryFields DEF RingOK
  <2>3. g.cmdnum - 1 = n + 1
    BY <1>1, <2>2 DEF History
  <2>4. DistanceOf(g) = 0
    <3>1. g.getid <= g.lastid /\ g.lastid - g.getid = 0
      BY <2>2 DEF History, Slots
    <3> QED
      BY <2>2, <3>1, DistanceCases
  <2>5. ASSUME NEW i \in WindowOf(n + 1)
        PROVE  Recalled(g, i) = IF i = n + 1 THEN line ELSE LogOf(h)[i]
    <3>1. i \in Int /\ i \in Nat
      BY <1>1 DEF WindowOf
    <3>2. CASE i = n + 1
      <4>1. EntryId(i) = h.newid
        BY <1>1, <3>2 DEF EntryId, RingOK, IndicesFollowCount, History
      <4>2. h.newid # g.newid
        BY <1>1, <2>2 DEF AfterSlot, History, Slots
      <4> QED
        BY <1>1, <2>2, <3>2, <4>1, <4>2 DEF Recalled, History
    <3>3. CASE i # n + 1
      <4>1. Available(h, i) /\ i \in WindowOf(h.cmdnum - 1)
        BY <1>1, <3>1, <3>3, WindowIsAvailable DEF WindowOf
      <4>2. Available(g, i)
        BY <2>2, <2>3, <3>1, WindowIsAvailable
      <4>3. Recalled(g, i) = Recalled(h, i)
        BY <3>1, <4>1, <4>2, RememberKeepsNumbers
      <4> QED
        BY <3>3, <4>1, <4>3 DEF LogOf
    <3> QED
      BY <3>2, <3>3
  <2>6. LogOf(g) = NotedLog(h, n, line)
    BY <2>3, <2>5 DEF LogOf, NotedLog
  <2>7. n = 0 \/ n > 0
    BY <1>1 DEF History
  <2> QED
    BY <1>2, <1>4, <2>3, <2>4, <2>6, <2>7
<1> QED
  BY <1>3, <1>4

LEMMA InitMaps ==
    HistoryInit => Log!LogInit
<1>1. SUFFICES ASSUME HistoryInit
               PROVE  Log!LogInit
  OBVIOUS
<1>2. /\ hist.cmdnum = 1 /\ hist.lastid = 0 /\ hist.getid = 0 /\ buffer = Blank
      /\ Size + 1 \in Nat \ {0} /\ 0 \in 0..((Size + 1) - 1)
  BY <1>1, SizeAssumption DEF HistoryInit, AddHistory, InitHistory
<1>3. Distance = 0
  <2>1. hist.lastid - hist.getid = 0
    BY <1>2
  <2> QED
    BY <1>2, <2>1, ModSmall DEF Distance
<1>4. hist.cmdnum - 1 = 0 /\ WindowOf(0) = {} /\ Log!Window(0) = {}
  BY <1>2 DEF WindowOf, Log!Window
<1> QED
  BY <1>2, <1>3, <1>4 DEF Log!LogInit

LEMMA StepMaps ==
    HistoryInv /\ HistoryInv' /\ [HistoryNext]_historyVars => [Log!LogNext]_(Log!logVars)
<1> SUFFICES ASSUME HistoryInv, HistoryInv', [HistoryNext]_historyVars
             PROVE  [Log!LogNext]_(Log!logVars)
  OBVIOUS
<1> DEFINE n == hist.cmdnum - 1
           cursor == DistanceOf(hist)
<1>1. RingOK(hist) /\ hist \in History /\ buffer \in Lines /\ buffer' \in Lines
  BY DEF HistoryInv, HistoryTypeOK, RingInv, RingOK
<1>2. Log!Lines = Lines /\ \A i : Log!Window(i) = WindowOf(i)
  BY DEF Log!Lines, Lines, Entries, Log!Window, WindowOf
<1>3. /\ Distance = DistanceOf(hist) /\ Distance' = DistanceOf(hist')
      /\ [num \in WindowOf(hist.cmdnum - 1) |-> Recalled(hist, num)] = LogOf(hist)
      /\ ([num \in WindowOf(hist.cmdnum - 1) |-> Recalled(hist, num)])' = LogOf(hist')
  BY DEF Distance, DistanceOf, LogOf, Recalled, WindowOf
<1>4. CASE UNCHANGED hist
  <2>1. UNCHANGED <<hist.cmdnum - 1, Distance>> /\ LogOf(hist') = LogOf(hist)
    BY <1>3, <1>4
  <2>2. Log!Type(buffer')
    BY <1>3, <1>4, <2>1 DEF Log!Type
  <2> QED
    BY <1>1, <1>2, <2>2 DEF Log!LogNext
<1>5. CASE ArrowUp
  <2>1. hist' = BrowseBefore(hist) /\ buffer' = Shown(hist', buffer)
    BY <1>5 DEF ArrowUp
  <2>2. /\ RingOK(hist') /\ hist'.cmdnum = hist.cmdnum /\ LogOf(hist') = LogOf(hist)
        /\ DistanceOf(hist') = IF cursor < Size THEN cursor + 1 ELSE cursor
    BY <1>1, <2>1, BrowsingKeepsLog, BrowseDistance, BrowseStaysOnRing
  <2>3. buffer' = LineBack(hist, DistanceOf(hist'))
    BY <1>1, <2>1, <2>2, ShownIsLineBack
  <2>4. Log!Older
    BY <1>2, <1>3, <2>2, <2>3 DEF Log!Older, Log!LineAt, LineBack
  <2> QED
    BY <2>4 DEF Log!LogNext
<1>6. CASE ArrowDown
  <2>1. hist' = BrowseAfter(hist) /\ buffer' = Shown(hist', buffer)
    BY <1>6 DEF ArrowDown
  <2>2. /\ RingOK(hist') /\ hist'.cmdnum = hist.cmdnum /\ LogOf(hist') = LogOf(hist)
        /\ DistanceOf(hist') = IF cursor > 0 THEN cursor - 1 ELSE cursor
    BY <1>1, <2>1, BrowsingKeepsLog, BrowseDistance, BrowseStaysOnRing
  <2>3. buffer' = LineBack(hist, DistanceOf(hist'))
    BY <1>1, <2>1, <2>2, ShownIsLineBack
  <2>4. Log!Newer
    BY <1>2, <1>3, <2>2, <2>3 DEF Log!Newer, Log!LineAt, LineBack
  <2> QED
    BY <2>4 DEF Log!LogNext
<1>7. CASE SubmitBlank \/ Finish \/ Close
  <2>1. hist' = Rewind(hist) /\ buffer' = buffer
    BY <1>7 DEF SubmitBlank, Finish, Close
  <2>2. /\ hist'.cmdnum = hist.cmdnum /\ LogOf(hist') = LogOf(hist)
        /\ DistanceOf(hist') = 0
    BY <1>1, <2>1, BrowsingKeepsLog, BrowseDistance
  <2>3. Log!Done
    BY <1>3, <2>1, <2>2 DEF Log!Done
  <2> QED
    BY <2>3 DEF Log!LogNext
<1>8. ASSUME buffer' \in Commands, hist' = Remember(hist, buffer')
      PROVE  Log!Note(buffer')
  <2>1. n = hist.cmdnum - 1
    OBVIOUS
  <2> HIDE DEF n
  <2>2. \/ n > 0 /\ LogOf(hist)[n] = buffer' /\ hist' = hist
        \/ /\ n = 0 \/ LogOf(hist)[n] # buffer'
           /\ hist'.cmdnum - 1 = n + 1
           /\ DistanceOf(hist') = 0
           /\ LogOf(hist') = NotedLog(hist, n, buffer')
    <3>1. \A line \in Commands : \A g, i :
             g = Remember(hist, line) /\ i = hist.cmdnum - 1 =>
                 \/ i > 0 /\ LogOf(hist)[i] = line /\ g = hist
                 \/ /\ i = 0 \/ LogOf(hist)[i] # line
                    /\ g.cmdnum - 1 = i + 1
                    /\ DistanceOf(g) = 0
                    /\ LogOf(g) = NotedLog(hist, i, line)
      BY <1>1, RememberNotes
    <3> QED
      BY <1>8, <2>1, <3>1, Zenon
  <2>3. CASE n > 0 /\ LogOf(hist)[n] = buffer' /\ hist' = hist
    BY <1>3, <2>1, <2>3 DEF Log!Note
  <2>4. CASE /\ n = 0 \/ LogOf(hist)[n] # buffer'
             /\ hist'.cmdnum - 1 = n + 1
             /\ DistanceOf(hist') = 0
             /\ LogOf(hist') = NotedLog(hist, n, buffer')
    BY <1>2, <1>3, <2>1, <2>4 DEF Log!Note, NotedLog
  <2> QED
    BY <2>2, <2>3, <2>4
<1>9. CASE SubmitCommand
  <2>1. buffer \in Commands /\ buffer' = buffer /\ hist' = Remember(hist, buffer)
    BY <1>9 DEF SubmitCommand
  <2>2. Log!Give
    BY <1>8, <2>1 DEF Log!Give
  <2> QED
    BY <2>2 DEF Log!LogNext
<1>10. CASE SubmitRecall
  <2> DEFINE num == RecallNum[buffer]
  <2>1. num \in Nat /\ Available(hist, num)
    BY <1>10, RecallsAssumption DEF SubmitRecall, CanRecall
  <2>2. buffer' = Recalled(hist, num) /\ hist' = Remember(hist, buffer')
    BY <1>10 DEF SubmitRecall
  <2>3. buffer' \in Commands
    BY <1>1, <2>1, <2>2, RecalledIsACommand
  <2> HIDE DEF num
  <2>4. num \in WindowOf(hist.cmdnum - 1) /\ buffer' = LogOf(hist)[num]
    BY <1>1, <2>1, <2>2, WindowIsAvailable DEF LogOf
  <2>5. Log!GiveAgain
    BY <1>2, <1>3, <1>8, <2>2, <2>3, <2>4 DEF Log!GiveAgain
  <2> QED
    BY <2>5 DEF Log!LogNext
<1> QED
  BY <1>4, <1>5, <1>6, <1>7, <1>9, <1>10 DEF HistoryNext, Submit, BeginLine, Edit,
     EndOfInput, RejectRecall, historyVars

\* The ring of src/src/history.c, with the recall of parseline, is the numbered log
\* of module HistoryLog, for every size of the ring.
THEOREM RefinesLog == HistorySpec => ImplementsLog
<1>1. HistoryInit => Log!LogInit
  BY InitMaps
<1>2. HistoryInv /\ HistoryInv' /\ [HistoryNext]_historyVars =>
          [Log!LogNext]_(Log!logVars)
  BY StepMaps
<1> QED
  BY <1>1, <1>2, InvHolds, PTL DEF HistorySpec, ImplementsLog, Log!LogSpec

=============================================================================
