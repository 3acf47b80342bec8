-------------------------- MODULE LineEditorProofs --------------------------
(***************************************************************************)
(* Theorems about module LineEditor, for every set of characters, every    *)
(* set of stored lines and every longest line.                             *)
(***************************************************************************)
EXTENDS LineEditor, Foundations

\* The buffer b holds a line of n characters, place p is in it or at its end.
LineOK(b, n, p) ==
    /\ b \in [Places -> Chars \cup {Nul}]
    /\ n \in Places /\ p \in Places /\ p <= n
    /\ EndsAt(b, n)

\* The terminal s shows that line, its cursor in column p.
Shows(s, b, n, p) ==
    /\ s \in [text : [Places -> Chars], col : Int]
    /\ s.col = p
    /\ \A x \in Places : s.text[x] = IF x < n THEN b[x] ELSE Blank

\* OneLength and ScreenShowsLine while readline runs; Tab has room for what it adds
\* and is done when readline returns.
EditorInv ==
    /\ EditorTypeOK
    /\ editing => /\ LineOK(buf, len, pos) /\ Shows(screen, buf, len, pos)
                  /\ len + Len(rest) <= MaxLen
    /\ ~editing => rest = <<>> /\ ~listing

LEMMA StrlenIs ==
    ASSUME NEW b \in [Places -> Chars \cup {Nul}], NEW n \in Places, EndsAt(b, n)
    PROVE  Strlen(b) = n
<1>1. MaxLen \in Nat
  BY EditorAssumption
<1>2. ASSUME NEW m \in Places, EndsAt(b, m)
      PROVE  m = n
  BY <1>1, <1>2 DEF EndsAt, Places
<1>3. EndsAt(b, Strlen(b)) /\ Strlen(b) \in Places
  BY DEF Strlen
<1> QED
  BY <1>2, <1>3

\* One call of addchar.
LEMMA AddCharKeepsLine ==
    ASSUME EditorInv, editing, len < MaxLen, NEW c \in Chars, AddChar(c)
    PROVE  /\ LineOK(buf', len', pos') /\ Shows(screen', buf', len', pos')
           /\ len' = len + 1
<1>1. /\ buf \in [Places -> Chars \cup {Nul}]
      /\ len \in Places /\ pos \in Places /\ pos <= len
      /\ EndsAt(buf, len) /\ MaxLen \in Nat
      /\ screen \in [text : [Places -> Chars], col : Int] /\ screen.col = pos
      /\ \A x \in Places : screen.text[x] = IF x < len THEN buf[x] ELSE Blank
  BY EditorAssumption DEF EditorInv, LineOK, Shows
<1>2. /\ buf' = [i \in Places |-> IF i = pos THEN c ELSE
                                  IF i \in (pos + 1)..(len + 1) THEN buf[i - 1] ELSE buf[i]]
      /\ len' = len + 1 /\ pos' = pos + 1
  BY DEF AddChar, ShiftedIn
<1>3. len' \in Places /\ pos' \in Places /\ pos' <= len'
  BY <1>1, <1>2 DEF Places
<1>4. buf' \in [Places -> Chars \cup {Nul}]
  BY <1>1, <1>2 DEF Places
<1>5. EndsAt(buf', len')
  BY <1>1, <1>2, <1>3, EditorAssumption DEF EndsAt, Places
<1>6. /\ screen'.col = pos'
      /\ screen' = [text |-> [x \in Places |->
                                 IF x \in pos..len THEN buf'[x - pos + pos] ELSE screen.text[x]],
                    col |-> pos + 1]
  <2>1. Written(screen, buf', pos, len) =
            [text |-> [x \in Places |->
                          IF x \in pos..len THEN buf'[x - pos + pos] ELSE screen.text[x]],
             col |-> len + 1]
    <3>1. pos + len - pos = len /\ pos + (len - pos) + 1 = len + 1
      BY <1>1 DEF Places
    <3> QED
      BY <1>1, <3>1 DEF Written
  <2>2. screen' = [Written(screen, buf', pos, len) EXCEPT !.col = @ - (len - pos)]
    BY DEF AddChar, CursL
  <2>3. (len + 1) - (len - pos) = pos + 1
    BY <1>1 DEF Places
  <2> DEFINE shown == [x \in Places |->
                          IF x \in pos..len THEN buf'[x - pos + pos] ELSE screen.text[x]]
  <2>4. Written(screen, buf', pos, len) = [text |-> shown, col |-> len + 1]
    BY <2>1
  <2> HIDE DEF shown
  <2>5. screen' = [text |-> shown, col |-> (len + 1) - (len - pos)]
    BY <2>2, <2>4
  <2>6. screen' = [text |-> shown, col |-> pos + 1]
    BY <2>3, <2>5
  <2>7. screen'.col = pos + 1
    BY <2>6
  <2> QED
    BY <1>2, <2>6, <2>7 DEF shown
<1>7. \A x \in Places : screen'.text[x] = IF x < len' THEN buf'[x] ELSE Blank
  BY <1>1, <1>2, <1>6 DEF Places
<1>8. \A x \in Places : screen'.text[x] \in Chars
  BY <1>3, <1>4, <1>5, <1>7, EditorAssumption DEF EndsAt, Places
<1>9. screen' \in [text : [Places -> Chars], col : Int]
  BY <1>1, <1>6, <1>8 DEF Places
<1> QED
  BY <1>2, <1>3, <1>4, <1>5, <1>6, <1>7, <1>9 DEF LineOK, Shows

-----------------------------------------------------------------------------
(* The terminal.                                                           *)

LEMMA CursorMoves ==
    ASSUME NEW s, NEW b, NEW n, NEW p \in Int, NEW k \in Int, Shows(s, b, n, p)
    PROVE  Shows(CursL(s, k), b, n, p - k)
BY DEF Shows, CursL

LEMMA CursorMovesRight ==
    ASSUME NEW s, NEW b, NEW n, NEW p \in Int, NEW k \in Int, Shows(s, b, n, p)
    PROVE  Shows(CursR(s, k), b, n, p + k)
BY DEF Shows, CursR

\* A line printed on a cleared one.
LEMMA PrintedLineShows ==
    ASSUME NEW b, NEW n, NEW p, LineOK(b, n, p), NEW s,
           s \in [text : [Places -> Chars], col : Int], s.col = 0,
           \A x \in Places : s.text[x] = Blank
    PROVE  Shows(Written(s, b, 0, Strlen(b) - 1), b, n, n)
<1>1. /\ Strlen(b) = n /\ n \in Places /\ MaxLen \in Nat
      /\ b \in [Places -> Chars \cup {Nul}] /\ EndsAt(b, n)
  BY StrlenIs, EditorAssumption DEF LineOK
<1>2. Written(s, b, 0, n - 1) =
          [text |-> [x \in Places |-> IF x \in 0..(n - 1) THEN b[x] ELSE s.text[x]],
           col |-> n]
  <2>1. /\ s.col + (n - 1) - 0 = n - 1 /\ s.col + ((n - 1) - 0) + 1 = n
        /\ \A x \in Places : x - s.col + 0 = x
    BY <1>1 DEF Places
  <2> QED
    BY <2>1 DEF Written
<1>3. \A x \in Places : (IF x \in 0..(n - 1) THEN b[x] ELSE s.text[x]) =
                         IF x < n THEN b[x] ELSE Blank
  BY <1>1 DEF Places
<1>4. \A x \in Places : (IF x < n THEN b[x] ELSE Blank) \in Chars
  BY <1>1, EditorAssumption DEF EndsAt, Places
<1> QED
  BY <1>1, <1>2, <1>3, <1>4 DEF Shows, Places

LEMMA FreshLineIsBlank ==
    /\ FreshLine \in [text : [Places -> Chars], col : Int]
    /\ FreshLine.col = 0
    /\ \A x \in Places : FreshLine.text[x] = Blank
BY EditorAssumption DEF FreshLine

LEMMA RedrawnShows ==
    ASSUME NEW k \in Int, LineOK(buf, len, pos)
    PROVE  Shows(Redrawn(k), buf, len, len - k)
<1>1. Shows(Written(FreshLine, buf, 0, Strlen(buf) - 1), buf, len, len)
  BY PrintedLineShows, FreshLineIsBlank
<1>2. len \in Int
  BY EditorAssumption DEF LineOK, Places
<1> QED
  BY <1>1, <1>2, CursorMoves DEF Redrawn

\* The line cleared from its start on.
LEMMA ClearedIsBlank ==
    ASSUME Shows(screen, buf, len, pos), pos \in Int
    PROVE  LET s == ClrLinR(CursL(screen, pos))
           IN  /\ s \in [text : [Places -> Chars], col : Int]
               /\ s.col = 0
               /\ \A x \in Places : s.text[x] = Blank
<1> DEFINE s == CursL(screen, pos)
<1>1. s.col = 0 /\ s \in [text : [Places -> Chars], col : Int]
  BY DEF Shows, CursL
<1>2. ClrLinR(s) = [s EXCEPT !.text = [x \in Places |-> IF x < s.col THEN s.text[x] ELSE Blank]]
  BY <1>1 DEF ClrLinR
<1>3. \A x \in Places : ~(x < s.col)
  BY <1>1, EditorAssumption DEF Places
<1> HIDE DEF s
<1>4. /\ ClrLinR(s) \in [text : [Places -> Chars], col : Int]
      /\ ClrLinR(s).col = 0
      /\ \A x \in Places : ClrLinR(s).text[x] = Blank
  BY <1>1, <1>2, <1>3, EditorAssumption
<1> QED
  BY <1>4 DEF s

-----------------------------------------------------------------------------
(* The keys.                                                               *)

LEMMA BackspaceKeepsLine ==
    ASSUME EditorInv, Backspace
    PROVE  LineOK(buf', len', pos') /\ Shows(screen', buf', len', pos')
<1>1. /\ LineOK(buf, len, pos) /\ Shows(screen, buf, len, pos)
      /\ MaxLen \in Nat /\ pos > 0 /\ len \in Places /\ pos \in Places /\ pos <= len
  BY EditorAssumption DEF EditorInv, Backspace, Idle, LineOK
<1>2. /\ buf' = [i \in Places |-> IF i \in (pos - 1)..(len - 1) THEN buf[i + 1] ELSE buf[i]]
      /\ len' = len - 1 /\ pos' = pos - 1
  BY DEF Backspace, ShiftedOut
<1>3. len' \in Places /\ pos' \in Places /\ pos' <= len'
  BY <1>1, <1>2 DEF Places
<1>4. buf' \in [Places -> Chars \cup {Nul}]
  BY <1>1, <1>2 DEF Places, LineOK
<1>5. EndsAt(buf', len')
  BY <1>1, <1>2, <1>3 DEF EndsAt, Places, LineOK
<1> DEFINE moved == CursL(screen, 1)
           printed == Written(moved, buf, pos, len - 1)
           wiped == WrittenBlank(printed)
<1>6. moved.col = pos - 1 /\ moved.text = screen.text
  BY <1>1 DEF CursL, Shows
<1>7. /\ printed.col = len - 1
      /\ printed.text = [x \in Places |->
                            IF x \in (pos - 1)..(len - 2) THEN buf[x + 1] ELSE screen.text[x]]
  <2> HIDE DEF moved
  <2>1. /\ moved.col + (len - 1) - pos = len - 2
        /\ moved.col + ((len - 1) - pos) + 1 = len - 1
        /\ \A x \in Places : x - moved.col + pos = x + 1
    BY <1>1, <1>6 DEF Places
  <2> QED
    BY <1>6, <2>1 DEF Written
<1>8. /\ wiped = [text |-> [x \in Places |-> IF x = len - 1 THEN Blank ELSE printed.text[x]],
                  col |-> len]
  <2> HIDE DEF printed
  <2>1. /\ printed.col + 0 - 0 = len - 1 /\ printed.col + (0 - 0) + 1 = len
        /\ \A x \in Places : x - printed.col + 0 = x - (len - 1)
        /\ \A x \in Places : x \in (len - 1)..(len - 1) <=> x = len - 1
    BY <1>1, <1>7 DEF Places
  <2>2. \A x \in Places : x = len - 1 => [i \in {0} |-> Blank][x - (len - 1)] = Blank
    BY <1>1 DEF Places
  <2> QED
    BY <1>7, <2>1, <2>2 DEF WrittenBlank, Written
<1>9. screen' = [text |-> wiped.text, col |-> pos - 1]
  <2>1. screen' = [wiped EXCEPT !.col = @ - (len - pos + 1)]
    BY DEF Backspace, CursL
  <2>2. len - (len - pos + 1) = pos - 1
    BY <1>1 DEF Places
  <2> QED
    BY <1>8, <2>1, <2>2
<1>10. \A x \in Places : screen'.text[x] =
           IF x = len - 1 THEN Blank
           ELSE IF x \in (pos - 1)..(len - 2) THEN buf[x + 1] ELSE screen.text[x]
  <2> HIDE DEF printed, wiped
  <2> QED
    BY <1>7, <1>8, <1>9
<1>11. \A x \in Places : screen'.text[x] = IF x < len' THEN buf'[x] ELSE Blank
  BY <1>1, <1>2, <1>10 DEF Places, Shows
<1>12. \A x \in Places : screen'.text[x] \in Chars
  BY <1>3, <1>4, <1>5, <1>11, EditorAssumption DEF EndsAt, Places
<1>13. wiped.text \in [Places -> Chars] /\ screen'.text = wiped.text /\ screen'.col = pos'
  <2> HIDE DEF printed, wiped
  <2>1. screen'.text = wiped.text /\ screen'.col = pos'
    BY <1>2, <1>9
  <2> QED
    BY <1>8, <1>12, <2>1
<1>14. screen' \in [text : [Places -> Chars], col : Int]
  <2> HIDE DEF wiped
  <2> QED
    BY <1>1, <1>9, <1>13 DEF Places
<1> QED
  BY <1>3, <1>4, <1>5, <1>11, <1>13, <1>14 DEF LineOK, Shows

LEMMA DeleteKeepsLine ==
    ASSUME EditorInv, Delete
    PROVE  LineOK(buf', len', pos') /\ Shows(screen', buf', len', pos')
<1>1. /\ LineOK(buf, len, pos) /\ Shows(screen, buf, len, pos)
      /\ MaxLen \in Nat /\ pos < len /\ len \in Places /\ pos \in Places
  BY EditorAssumption DEF EditorInv, Delete, Idle, LineOK
<1>2. /\ buf' = [i \in Places |-> IF i \in pos..(len - 1) THEN buf[i + 1] ELSE buf[i]]
      /\ len' = len - 1 /\ pos' = pos
  BY DEF Delete, ShiftedOut
<1>3. len' \in Places /\ pos' \in Places /\ pos' <= len'
  BY <1>1, <1>2 DEF Places
<1>4. buf' \in [Places -> Chars \cup {Nul}]
  BY <1>1, <1>2 DEF Places, LineOK
<1>5. EndsAt(buf', len')
  BY <1>1, <1>2, <1>3 DEF EndsAt, Places, LineOK
<1> DEFINE cleared == ClrLinR(screen)
           printed == Written(cleared, buf', pos, len - 2)
<1>6. /\ cleared.col = pos
      /\ cleared.text = [x \in Places |-> IF x < pos THEN screen.text[x] ELSE Blank]
  BY <1>1 DEF ClrLinR, Shows
<1>7. printed = [text |-> [x \in Places |->
                             IF x \in pos..(len - 2) THEN buf'[x] ELSE cleared.text[x]],
                 col |-> len - 1]
  <2> HIDE DEF cleared
  <2>1. /\ cleared.col + (len - 2) - pos = len - 2
        /\ cleared.col + ((len - 2) - pos) + 1 = len - 1
        /\ \A x \in Places : x - cleared.col + pos = x
        /\ cleared.col = pos
    BY <1>1, <1>6 DEF Places
  <2>2. printed = [text |-> [x \in Places |->
                               IF x \in pos..(len - 2) THEN buf'[x - cleared.col + pos]
                               ELSE cleared.text[x]],
                   col |-> len - 1]
    BY <2>1 DEF Written
  <2> QED
    BY <2>1, <2>2
<1>8. screen' = [text |-> printed.text, col |-> pos]
  <2>1. screen' = [printed EXCEPT !.col = @ - (len - 1 - pos)]
    BY DEF Delete, CursL
  <2>2. len - 1 - (len - 1 - pos) = pos
    BY <1>1 DEF Places
  <2> QED
    BY <1>7, <2>1, <2>2
<1>9. \A x \in Places : screen'.text[x] =
           IF x \in pos..(len - 2) THEN buf'[x] ELSE IF x < pos THEN screen.text[x] ELSE Blank
  <2> HIDE DEF cleared, printed
  <2> QED
    BY <1>6, <1>7, <1>8
<1>10. \A x \in Places : screen'.text[x] = IF x < len' THEN buf'[x] ELSE Blank
  BY <1>1, <1>2, <1>9 DEF Places, Shows
<1>11. \A x \in Places : screen'.text[x] \in Chars
  BY <1>3, <1>4, <1>5, <1>10, EditorAssumption DEF EndsAt, Places
<1>12. printed.text \in [Places -> Chars] /\ screen'.text = printed.text /\ screen'.col = pos'
  <2> HIDE DEF cleared, printed
  <2>1. screen'.text = printed.text /\ screen'.col = pos'
    BY <1>2, <1>8
  <2> QED
    BY <1>7, <1>11, <2>1
<1>13. screen' \in [text : [Places -> Chars], col : Int]
  <2> HIDE DEF printed
  <2> QED
    BY <1>1, <1>8, <1>12 DEF Places
<1> QED
  BY <1>3, <1>4, <1>5, <1>10, <1>12, <1>13 DEF LineOK, Shows

LEMMA ClearLineKeepsLine ==
    ASSUME EditorInv, ClearLine
    PROVE  LineOK(buf', len', pos') /\ Shows(screen', buf', len', pos')
<1>1. /\ LineOK(buf, len, pos) /\ Shows(screen, buf, len, pos)
      /\ MaxLen \in Nat /\ len \in Places /\ pos \in Int
      /\ buf \in [Places -> Chars \cup {Nul}] /\ EndsAt(buf, len)
  BY EditorAssumption DEF EditorInv, ClearLine, Idle, LineOK, Places
<1>2. /\ buf' = [i \in Places |-> IF i < len THEN Nul ELSE buf[i]]
      /\ len' = 0 /\ pos' = 0 /\ screen' = ClrLinR(CursL(screen, pos))
  BY DEF ClearLine
<1>3. buf'[0] = Nul /\ 0 \in Places
  BY <1>1, <1>2 DEF EndsAt, Places
<1>4. LineOK(buf', len', pos')
  BY <1>1, <1>2, <1>3 DEF LineOK, EndsAt
<1>5. Shows(screen', buf', len', pos')
  BY <1>1, <1>2, ClearedIsBlank DEF Shows, Places
<1> QED
  BY <1>4, <1>5

LEMMA MovingKeepsLine ==
    ASSUME EditorInv, ArrowRight \/ ArrowLeft \/ End \/ Home
    PROVE  LineOK(buf', len', pos') /\ Shows(screen', buf', len', pos')
<1>1. /\ LineOK(buf, len, pos) /\ Shows(screen, buf, len, pos)
      /\ MaxLen \in Nat /\ len \in Places /\ pos \in Places /\ pos <= len
      /\ len \in Int /\ pos \in Int
      /\ Strlen(buf) = len /\ UNCHANGED <<buf, len>>
  BY EditorAssumption, StrlenIs DEF EditorInv, ArrowRight, ArrowLeft, End, Home, MoveTo, Idle,
     LineOK, Places
<1>2. CASE ArrowRight
  <2>1. Shows(CursR(screen, 1), buf, len, pos + 1)
    BY <1>1, CursorMovesRight
  <2> QED
    BY <1>1, <1>2, <2>1 DEF ArrowRight, MoveTo, LineOK, Places
<1>3. CASE ArrowLeft
  <2>1. Shows(CursL(screen, 1), buf, len, pos - 1)
    BY <1>1, CursorMoves
  <2> QED
    BY <1>1, <1>3, <2>1 DEF ArrowLeft, MoveTo, LineOK, Places
<1>4. CASE End
  <2>1. len - pos \in Int
    BY <1>1
  <2>3. Shows(CursR(screen, len - pos), buf, len, pos + (len - pos))
    BY <1>1, <2>1, CursorMovesRight
  <2>2. pos + (len - pos) = len
    BY <1>1
  <2> QED
    BY <1>1, <1>4, <2>2, <2>3 DEF End, MoveTo, LineOK
<1>5. CASE Home
  <2>1. Shows(CursL(screen, pos), buf, len, pos - pos)
    BY <1>1, CursorMoves
  <2>2. pos - pos = 0
    BY <1>1
  <2> QED
    BY <1>1, <1>5, <2>1, <2>2 DEF Home, MoveTo, LineOK, Places
<1> QED
  BY <1>2, <1>3, <1>4, <1>5

\* A stored line, copied over the start of a buffer.
LEMMA CopiedIsALine ==
    ASSUME NEW line \in StoredLines, NEW b \in [Places -> Chars \cup {Nul}],
           b[Len(line)] = Nul, \A i \in Places : i < Len(line) => b[i] = line[i + 1]
    PROVE  LineOK(b, Len(line), Len(line))
<1>1. line \in Seq(Chars) /\ Len(line) \in Nat /\ Len(line) <= MaxLen /\ MaxLen \in Nat
  BY EditorAssumption
<1>2. \A i \in 0..(Len(line) - 1) : b[i] \in Chars
  BY <1>1 DEF Places
<1> QED
  BY <1>1, <1>2, EditorAssumption DEF LineOK, EndsAt, Places

LEMMA BrowseKeepsLine ==
    ASSUME EditorInv, NEW line \in StoredLines, Browse(line)
    PROVE  LineOK(buf', len', pos') /\ Shows(screen', buf', len', pos')
<1>1. /\ LineOK(buf, len, pos) /\ Shows(screen, buf, len, pos)
      /\ buf \in [Places -> Chars \cup {Nul}] /\ MaxLen \in Nat /\ pos \in Int
  BY EditorAssumption DEF EditorInv, Browse, Idle, LineOK, Places
<1>2. line \in Seq(Chars) /\ Len(line) \in Nat /\ Len(line) <= MaxLen
  BY EditorAssumption
<1>3. /\ buf' = [i \in Places |-> IF i < Len(line) THEN line[i + 1] ELSE
                                  IF i = Len(line) THEN Nul ELSE buf[i]]
      /\ len' = Strlen(buf') /\ pos' = Strlen(buf')
      /\ screen' = Written(ClrLinR(CursL(screen, pos)), buf', 0, Strlen(buf') - 1)
  BY DEF Browse, Copied
<1>4. buf' \in [Places -> Chars \cup {Nul}]
  BY <1>1, <1>2, <1>3 DEF Places
<1>5. LineOK(buf', Len(line), Len(line))
  <2>1. /\ buf'[Len(line)] = Nul
        /\ \A i \in Places : i < Len(line) => buf'[i] = line[i + 1]
    BY <1>1, <1>2, <1>3 DEF Places
  <2> QED
    BY <1>4, <2>1, CopiedIsALine
<1>6. Strlen(buf') = Len(line)
  BY <1>4, <1>5, StrlenIs DEF LineOK
<1>7. Shows(screen', buf', Len(line), Len(line))
  BY <1>1, <1>3, <1>5, ClearedIsBlank, PrintedLineShows
<1> QED
  BY <1>3, <1>5, <1>6, <1>7

-----------------------------------------------------------------------------
(* The invariant.                                                          *)

LEMMA EditorInitInv ==
    EditorInit => EditorInv
<1> SUFFICES ASSUME EditorInit
             PROVE  EditorInv
  OBVIOUS
<1>1. /\ buf = [i \in Places |-> Nul] /\ len = 0 /\ pos = 0 /\ screen = FreshLine
      /\ rest = <<>> /\ listing = FALSE /\ editing = FALSE /\ cut = FALSE
  BY DEF EditorInit
<1>2. 0 \in Places /\ <<>> \in Seq(Chars)
  BY EditorAssumption DEF Places
<1>3. FreshLine \in [text : [Places -> Chars], col : Int]
  BY EditorAssumption DEF FreshLine
<1>4. EditorTypeOK
  BY <1>1, <1>2, <1>3 DEF EditorTypeOK
<1> QED
  BY <1>1, <1>4 DEF EditorInv

\* What the conjuncts on the line give for the type invariant.
LEMMA LineIsTyped ==
    ASSUME LineOK(buf, len, pos)', Shows(screen, buf, len, pos)',
           rest' \in Seq(Chars), listing' \in BOOLEAN, editing' \in BOOLEAN, cut' \in BOOLEAN
    PROVE  EditorTypeOK'
BY DEF LineOK, Shows, EditorTypeOK

\* With nothing left to add, a line that fits still fits.
LEMMA NothingToAdd ==
    ASSUME NEW n \in Int, NEW limit \in Int, NEW k, k = 0, n <= limit
    PROVE  n + k <= limit
OBVIOUS

LEMMA EditingKeepsInv ==
    ASSUME EditorInv,
           (\E c \in Chars : Type(c)) \/ Backspace \/ Delete \/ ClearLine
    PROVE  EditorInv'
<1>1. /\ editing /\ rest = <<>> /\ ~listing /\ UNCHANGED <<rest, listing, editing, cut>>
      /\ rest \in Seq(Chars) /\ cut \in BOOLEAN /\ MaxLen \in Nat
  BY EditorAssumption DEF EditorInv, EditorTypeOK, Type, Backspace, Delete, ClearLine, Idle
<1>2. LineOK(buf', len', pos') /\ Shows(screen', buf', len', pos')
  <2>1. ASSUME NEW c \in Chars, Type(c)
        PROVE  LineOK(buf', len', pos') /\ Shows(screen', buf', len', pos')
    BY <1>1, <2>1, AddCharKeepsLine DEF Type
  <2> QED
    BY <2>1, BackspaceKeepsLine, DeleteKeepsLine, ClearLineKeepsLine
<1>3. LineOK(buf, len, pos)' /\ Shows(screen, buf, len, pos)'
  BY <1>2 DEF LineOK, Shows, EndsAt
<1>4. EditorTypeOK'
  BY <1>1, <1>3, LineIsTyped DEF EditorInv, EditorTypeOK
<1>5. len' \in Int /\ len' <= MaxLen /\ MaxLen \in Int
  BY <1>1, <1>2 DEF LineOK, Places
<1>6. Len(rest') = 0
  BY <1>1
<1>7. len' + Len(rest') <= MaxLen
  BY <1>5, <1>6, NothingToAdd
<1> QED
  BY <1>1, <1>3, <1>4, <1>7 DEF EditorInv

LEMMA BringingKeepsInv ==
    ASSUME EditorInv,
           \/ ArrowRight \/ ArrowLeft \/ End \/ Home
           \/ \E line \in StoredLines : Browse(line)
    PROVE  EditorInv'
<1>1. /\ editing /\ rest = <<>> /\ ~listing /\ UNCHANGED <<rest, listing, editing, cut>>
      /\ rest \in Seq(Chars) /\ cut \in BOOLEAN /\ MaxLen \in Nat
  BY EditorAssumption DEF EditorInv, EditorTypeOK, ArrowRight, ArrowLeft, End, Home, MoveTo,
     Browse, Idle
<1>2. LineOK(buf', len', pos') /\ Shows(screen', buf', len', pos')
  BY MovingKeepsLine, BrowseKeepsLine
<1>3. LineOK(buf, len, pos)' /\ Shows(screen, buf, len, pos)'
  BY <1>2 DEF LineOK, Shows, EndsAt
<1>4. EditorTypeOK'
  BY <1>1, <1>3, LineIsTyped DEF EditorInv, EditorTypeOK
<1>5. len' \in Int /\ len' <= MaxLen /\ MaxLen \in Int
  BY <1>1, <1>2 DEF LineOK, Places
<1>6. Len(rest') = 0
  BY <1>1
<1>7. len' + Len(rest') <= MaxLen
  BY <1>5, <1>6, NothingToAdd
<1> QED
  BY <1>1, <1>3, <1>4, <1>7 DEF EditorInv

LEMMA CompleteKeepsInv ==
    ASSUME EditorInv, Complete
    PROVE  EditorInv'
<1>1. /\ editing /\ rest # <<>> /\ UNCHANGED <<listing, editing, cut>>
      /\ rest \in Seq(Chars) /\ cut \in BOOLEAN /\ listing \in BOOLEAN /\ editing \in BOOLEAN
      /\ MaxLen \in Nat /\ len \in Places /\ len + Len(rest) <= MaxLen
  BY EditorAssumption DEF EditorInv, EditorTypeOK, Complete
<1>2. /\ Head(rest) \in Chars /\ Tail(rest) \in Seq(Chars)
      /\ Len(rest) \in Nat /\ Len(rest) > 0 /\ Len(Tail(rest)) = Len(rest) - 1
  BY <1>1
<1>3. len < MaxLen
  BY <1>1, <1>2 DEF Places
<1>4. AddChar(Head(rest)) /\ rest' = Tail(rest)
  BY DEF Complete
<1>5. LineOK(buf', len', pos') /\ Shows(screen', buf', len', pos') /\ len' = len + 1
  BY <1>1, <1>2, <1>3, <1>4, AddCharKeepsLine
<1>6. LineOK(buf, len, pos)' /\ Shows(screen, buf, len, pos)'
  BY <1>5 DEF LineOK, Shows, EndsAt
<1>7. EditorTypeOK'
  BY <1>1, <1>2, <1>4, <1>6, LineIsTyped
<1>8. len' + Len(rest') <= MaxLen
  BY <1>1, <1>2, <1>4, <1>5 DEF Places
<1> QED
  BY <1>1, <1>6, <1>7, <1>8 DEF EditorInv

LEMMA ShowingKeepsInv ==
    ASSUME EditorInv, Help \/ ListMatches
    PROVE  EditorInv'
<1>1. /\ editing /\ rest = <<>> /\ UNCHANGED <<buf, len, pos, rest, editing, cut>>
      /\ cut \in BOOLEAN /\ editing \in BOOLEAN /\ rest \in Seq(Chars) /\ listing' = FALSE
      /\ LineOK(buf, len, pos) /\ len + Len(rest) <= MaxLen
  BY DEF EditorInv, EditorTypeOK, Help, ListMatches, Idle
<1>2. Strlen(buf) = len /\ len \in Int /\ pos \in Int
  BY <1>1, StrlenIs, EditorAssumption DEF LineOK, Places
<1>3. screen' = Redrawn(len - pos)
  BY <1>2 DEF Help, ListMatches
<1>4. len - pos \in Int /\ len - (len - pos) = pos
  BY <1>2
<1>5. Shows(screen', buf, len, pos)
  BY <1>1, <1>3, <1>4, RedrawnShows
<1>6. LineOK(buf, len, pos)' /\ Shows(screen, buf, len, pos)'
  BY <1>1, <1>5 DEF LineOK, Shows, EndsAt
<1>7. EditorTypeOK'
  BY <1>1, <1>6, LineIsTyped
<1> QED
  BY <1>1, <1>6, <1>7 DEF EditorInv

\* What Tab sets aside is made of characters and fits.
LEMMA TabKeepsInv ==
    ASSUME EditorInv, CompleteWord \/ CompleteCommon \/ CompleteWithNul
    PROVE  EditorInv'
<1>1. MaxLen \in Nat /\ Blank \in Chars /\ Names \subseteq Seq(Chars)
      /\ pos \in Int /\ listing \in BOOLEAN /\ editing \in BOOLEAN /\ cut \in BOOLEAN
  BY EditorAssumption DEF EditorInv, EditorTypeOK, Places
<1>2. ASSUME NEW p \in Places, NEW match \in Names
      PROVE  /\ SubSeq(match, (pos - p) + 1, Len(match)) \in Seq(Chars) \/ pos < p
             /\ \A n \in 0..Len(match) :
                   /\ SubSeq(match, 1, n) \in Seq(Chars)
                   /\ pos >= p => SubSeq(match, (pos - p) + 1, n) \in Seq(Chars)
  <2>1. match \in Seq(Chars) /\ p \in Int /\ Len(match) \in Nat
    BY <1>1, <1>2 DEF Places
  <2>2. ASSUME NEW i \in Int, NEW n \in 0..Len(match), i >= 1
        PROVE  SubSeq(match, i, n) \in Seq(Chars)
    BY <2>1, <2>2
  <2>3. Len(match) \in 0..Len(match)
    BY <2>1
  <2>4. (pos - p) + 1 \in Int /\ (pos >= p => (pos - p) + 1 >= 1) /\ (pos >= p \/ pos < p)
    BY <1>1, <2>1
  <2> QED
    BY <2>2, <2>3, <2>4
<1>3. CASE CompleteWord
  <2>1. PICK p \in Places, match \in Names :
            rest' = Append(IF pos < p THEN <<>> ELSE SubSeq(match, (pos - p) + 1, Len(match)),
                           Blank)
    BY <1>3 DEF CompleteWord, MatchesAt
  <2>2. (IF pos < p THEN <<>> ELSE SubSeq(match, (pos - p) + 1, Len(match))) \in Seq(Chars)
    BY <1>2
  <2>3. rest' \in Seq(Chars)
    BY <1>1, <2>1, <2>2
  <2>4. editing /\ (len + Len(rest') <= MaxLen)
        /\ UNCHANGED <<buf, len, pos, screen, listing, editing, cut>>
    BY <1>3 DEF CompleteWord, Idle
  <2>5. LineOK(buf, len, pos)' /\ Shows(screen, buf, len, pos)'
    BY <2>4 DEF EditorInv, LineOK, Shows, EndsAt
  <2> QED
    BY <1>1, <2>3, <2>4, <2>5, LineIsTyped DEF EditorInv
<1>4. CASE CompleteCommon
  <2>1. PICK p \in Places, match \in Names : \E n \in 0..Len(match) :
            \/ pos >= p /\ rest' = SubSeq(match, (pos - p) + 1, n)
            \/ pos < p /\ \E byte \in Chars : rest' = <<byte>> \o SubSeq(match, 1, n)
    BY <1>4 DEF CompleteCommon, MatchesAt
  <2>2. PICK n \in 0..Len(match) :
            \/ pos >= p /\ rest' = SubSeq(match, (pos - p) + 1, n)
            \/ pos < p /\ \E byte \in Chars : rest' = <<byte>> \o SubSeq(match, 1, n)
    BY <2>1
  <2>3. SubSeq(match, 1, n) \in Seq(Chars)
        /\ (pos >= p => SubSeq(match, (pos - p) + 1, n) \in Seq(Chars))
    BY <1>2
  <2>4. ASSUME NEW byte \in Chars PROVE <<byte>> \o SubSeq(match, 1, n) \in Seq(Chars)
    BY <2>3
  <2>5. rest' \in Seq(Chars)
    BY <2>2, <2>3, <2>4
  <2>6. editing /\ listing' = TRUE /\ (len + Len(rest') <= MaxLen)
        /\ UNCHANGED <<buf, len, pos, screen, editing, cut>>
    BY <1>4 DEF CompleteCommon, Idle
  <2>7. LineOK(buf, len, pos)' /\ Shows(screen, buf, len, pos)'
    BY <2>6 DEF EditorInv, LineOK, Shows, EndsAt
  <2> QED
    BY <1>1, <2>5, <2>6, <2>7, LineIsTyped DEF EditorInv
<1>5. CASE CompleteWithNul
  BY <1>5 DEF CompleteWithNul, EditorInv, EditorTypeOK, LineOK, Shows, EndsAt
<1> QED
  BY <1>3, <1>4, <1>5

LEMMA CallingKeepsInv ==
    ASSUME EditorInv, Start \/ Return \/ \E line \in StoredLines : Recall(line)
    PROVE  EditorInv'
<1>0. MaxLen \in Nat /\ Blank \in Chars
  BY EditorAssumption
<1>2. CASE Start
  <2>1. /\ buf' = [i \in Places |-> Nul] /\ len' = 0 /\ pos' = 0 /\ screen' = FreshLine
        /\ editing' /\ rest' = <<>> /\ ~listing' /\ listing' \in BOOLEAN
        /\ editing' \in BOOLEAN /\ cut' \in BOOLEAN
    BY <1>2 DEF Start, EditorInv, EditorTypeOK
  <2>2. LineOK(buf, len, pos)' /\ Shows(screen, buf, len, pos)'
    BY <1>0, <2>1, FreshLineIsBlank DEF LineOK, Shows, EndsAt, Places
  <2>3. len' + Len(rest') <= MaxLen /\ rest' \in Seq(Chars)
    BY <1>0, <2>1
  <2> QED
    BY <2>1, <2>2, <2>3, LineIsTyped DEF EditorInv
<1>3. CASE Return
  BY <1>3 DEF Return, Idle, EditorInv, EditorTypeOK
<1>4. ASSUME NEW line \in StoredLines, Recall(line)
      PROVE  EditorInv'
  <2>1. line \in Seq(Chars) /\ Len(line) \in Nat /\ Len(line) <= MaxLen
    BY EditorAssumption
  <2>2. buf' = [i \in Places |-> IF i < Len(line) THEN line[i + 1] ELSE Nul]
    BY <1>4 DEF Recall
  <2>3. buf' \in [Places -> Chars \cup {Nul}] /\ len' \in Places
    BY <1>0, <1>4, <2>1, <2>2 DEF Recall, Places
  <2> QED
    BY <1>4, <2>3 DEF Recall, EditorInv, EditorTypeOK
<1> QED
  BY <1>2, <1>3, <1>4

LEMMA EditorStepKeepsInv ==
    EditorInv /\ [EditorNext]_editorVars => EditorInv'
<1> SUFFICES ASSUME EditorInv, [EditorNext]_editorVars
             PROVE  EditorInv'
  OBVIOUS
<1>1. CASE UNCHANGED editorVars
  BY <1>1 DEF editorVars, EditorInv, EditorTypeOK, LineOK, Shows, EndsAt
<1>2. CASE EditorNext
  BY <1>2, EditingKeepsInv, BringingKeepsInv, CompleteKeepsInv, ShowingKeepsInv,
     TabKeepsInv, CallingKeepsInv DEF EditorNext
<1> QED
  BY <1>1, <1>2

LEMMA EditorInvHolds == EditorSpec => []EditorInv
BY EditorInitInv, EditorStepKeepsInv, PTL DEF EditorSpec

-----------------------------------------------------------------------------
(* The theorems.                                                           *)

\* Places and columns stay in their ranges, the buffer holds characters.
THEOREM EditorTypeCorrect == EditorSpec => []EditorTypeOK
BY EditorInvHolds, PTL DEF EditorInv

\* However long the line and whatever lies behind it in the buffer, strlen and len are
\* the same while a line is edited, and the cursor is in the line.
THEOREM LengthsAgree == EditorSpec => []OneLength
<1>1. EditorInv => OneLength
  BY DEF EditorInv, OneLength, LineOK
<1> QED
  BY <1>1, EditorInvHolds, PTL

\* What readline and addchar print, and the moves between, always leave the line on
\* the terminal and the terminal's cursor at pos.
THEOREM ScreenCorrect == EditorSpec => []ScreenShowsLine
<1>1. EditorInv => ScreenShowsLine
  BY DEF EditorInv, ScreenShowsLine, Shows
<1> QED
  BY <1>1, EditorInvHolds, PTL

-----------------------------------------------------------------------------
(* The bytes implement the line.                                           *)

\* The line of n characters that a buffer b holds.
LineIn(b, n) == [i \in 1..n |-> b[i - 1]]

LEMMA LineIsASequence ==
    ASSUME NEW b, NEW n, NEW p, LineOK(b, n, p)
    PROVE  /\ LineIn(b, n) \in Seq(Chars) /\ Len(LineIn(b, n)) = n
           /\ n \in Nat /\ p \in Nat /\ p <= n /\ n <= MaxLen /\ MaxLen \in Nat
           /\ \A i \in 1..n : LineIn(b, n)[i] = b[i - 1] /\ b[i - 1] \in Chars
<1>1. /\ n \in Nat /\ p \in Nat /\ p <= n /\ n <= MaxLen /\ MaxLen \in Nat
      /\ \A j \in 0..(n - 1) : b[j] \in Chars
  BY EditorAssumption DEF LineOK, EndsAt, Places
<1>2. \A i \in 1..n : i - 1 \in 0..(n - 1)
  BY <1>1
<1>3. \A i \in 1..n : b[i - 1] \in Chars
  BY <1>1, <1>2
<1> QED
  BY <1>1, <1>3 DEF LineIn

\* What the refinement shows of the state, while a line is edited and while none is.
LEMMA LineShown ==
    /\ editing => /\ (IF editing THEN [i \in 1..len |-> buf[i - 1]] ELSE <<>>) = LineIn(buf, len)
                  /\ (IF editing THEN pos ELSE 0) = pos
    /\ ~editing => /\ (IF editing THEN [i \in 1..len |-> buf[i - 1]] ELSE <<>>) = <<>>
                   /\ (IF editing THEN pos ELSE 0) = 0
BY DEF LineIn

LEMMA LineShownNext ==
    /\ editing' => /\ (IF editing THEN [i \in 1..len |-> buf[i - 1]] ELSE <<>>)' = LineIn(buf', len')
                   /\ (IF editing THEN pos ELSE 0)' = pos'
    /\ ~editing' => /\ (IF editing THEN [i \in 1..len |-> buf[i - 1]] ELSE <<>>)' = <<>>
                    /\ (IF editing THEN pos ELSE 0)' = 0
BY DEF LineIn

\* A character added at the cursor, by a key or by Tab.
LEMMA AddCharMaps ==
    ASSUME EditorInv, editing, editing', len < MaxLen, NEW c \in Chars, AddChar(c)
    PROVE  Line!Insert(c)
<1>1. LineOK(buf, len, pos)
  BY DEF EditorInv
<1> DEFINE line == LineIn(buf, len)
           new == [i \in 1..(len + 1) |-> IF i <= pos THEN line[i]
                                          ELSE IF i = pos + 1 THEN c ELSE line[i - 1]]
<1>2. /\ line \in Seq(Chars) /\ Len(line) = len /\ pos \in 0..len
      /\ len \in Nat /\ pos \in Nat /\ pos <= len /\ len < MaxLen /\ MaxLen \in Nat
      /\ \A i \in 1..len : line[i] = buf[i - 1]
  BY <1>1, LineIsASequence
<1>3. /\ buf' = [i \in Places |-> IF i = pos THEN c
                                  ELSE IF i \in (pos + 1)..(len + 1) THEN buf[i - 1] ELSE buf[i]]
      /\ len' = len + 1 /\ pos' = pos + 1
  BY DEF AddChar, ShiftedIn
<1>4. ASSUME NEW i \in 1..(len + 1)
      PROVE  buf'[i - 1] = new[i]
  <2>1. i - 1 \in Places /\ i \in Int /\ new[i] = IF i <= pos THEN line[i] ELSE
                                       IF i = pos + 1 THEN c ELSE line[i - 1]
    BY <1>2 DEF Places
  <2>2. buf'[i - 1] = IF i - 1 = pos THEN c
                      ELSE IF i - 1 \in (pos + 1)..(len + 1) THEN buf[(i - 1) - 1] ELSE buf[i - 1]
    BY <1>3, <2>1
  <2>3. CASE i <= pos
    <3>1. i \in 1..len /\ i - 1 # pos /\ ~(i - 1 \in (pos + 1)..(len + 1))
      BY <1>2, <2>3
    <3> QED
      BY <1>2, <2>1, <2>2, <2>3, <3>1
  <2>4. CASE i = pos + 1
    <3>1. i - 1 = pos /\ ~(i <= pos)
      BY <1>2, <2>4
    <3> QED
      BY <2>1, <2>2, <2>4, <3>1
  <2>5. CASE i > pos + 1
    <3>1. i - 1 \in 1..len /\ i - 1 # pos /\ i - 1 \in (pos + 1)..(len + 1)
          /\ ~(i <= pos) /\ i # pos + 1
      BY <1>2, <2>5
    <3> QED
      BY <1>2, <2>1, <2>2, <3>1
  <2> QED
    BY <1>2, <2>3, <2>4, <2>5
<1>5. LineIn(buf', len') = new
  <2>1. LineIn(buf', len') = [i \in 1..(len + 1) |-> buf'[i - 1]]
    BY <1>3 DEF LineIn
  <2> HIDE DEF new
  <2>2. [i \in 1..(len + 1) |-> buf'[i - 1]] = [i \in 1..(len + 1) |-> new[i]]
    BY <1>4
  <2> QED
    BY <2>1, <2>2 DEF new
<1>6. SubSeq(line, 1, pos) \o <<c>> \o SubSeq(line, pos + 1, Len(line)) = new
  <2> HIDE DEF line
  <2>0. pos \in 0..Len(line)
    BY <1>2
  <2>1. SubSeq(line, 1, pos) \o <<c>> \o SubSeq(line, pos + 1, Len(line))
            = [i \in 1..(Len(line) + 1) |->
                  IF i <= pos THEN line[i] ELSE IF i = pos + 1 THEN c ELSE line[i - 1]]
    BY <1>2, <2>0, InsertIs, SMTT(60)
  <2> QED
    BY <1>2, <2>1
<1> QED
  BY <1>3, <1>5, <1>6, LineShown, LineShownNext DEF Line!Insert

\* One character less, in front of the cursor or under it.
LEMMA ShiftedOutIsWithout ==
    ASSUME LineOK(buf, len, pos), NEW p \in Nat, p < len,
           buf' = ShiftedOut(p), len' = len - 1
    PROVE  LineIn(buf', len') = SubSeq(LineIn(buf, len), 1, p)
                                    \o SubSeq(LineIn(buf, len), p + 2, len)
<1> DEFINE line == LineIn(buf, len)
           new == [i \in 1..(len - 1) |-> IF i < p + 1 THEN line[i] ELSE line[i + 1]]
<1>1. /\ line \in Seq(Chars) /\ Len(line) = len /\ p + 1 \in 1..len
      /\ len \in Nat /\ len <= MaxLen /\ MaxLen \in Nat
      /\ \A i \in 1..len : line[i] = buf[i - 1]
  BY LineIsASequence
<1>2. buf' = [i \in Places |-> IF i \in p..(len - 1) THEN buf[i + 1] ELSE buf[i]]
  BY DEF ShiftedOut
<1>3. ASSUME NEW i \in 1..(len - 1)
      PROVE  buf'[i - 1] = new[i]
  <2>1. i - 1 \in Places /\ i \in Int /\ i \in 1..len /\ i + 1 \in 1..len
        /\ new[i] = IF i < p + 1 THEN line[i] ELSE line[i + 1]
    BY <1>1 DEF Places
  <2>2. buf'[i - 1] = IF i - 1 \in p..(len - 1) THEN buf[(i - 1) + 1] ELSE buf[i - 1]
    BY <1>2, <2>1
  <2>3. i - 1 \in p..(len - 1) <=> ~(i < p + 1)
    BY <1>1, <2>1
  <2>4. (i + 1) - 1 = (i - 1) + 1
    BY <2>1
  <2> QED
    BY <1>1, <2>1, <2>2, <2>3, <2>4
<1>4. LineIn(buf', len') = new
  <2>1. LineIn(buf', len') = [i \in 1..(len - 1) |-> buf'[i - 1]]
    BY <1>2 DEF LineIn
  <2> HIDE DEF new
  <2>2. [i \in 1..(len - 1) |-> buf'[i - 1]] = [i \in 1..(len - 1) |-> new[i]]
    BY <1>3
  <2> QED
    BY <2>1, <2>2 DEF new
<1>5. SubSeq(line, 1, (p + 1) - 1) \o SubSeq(line, (p + 1) + 1, Len(line))
          = [i \in 1..(Len(line) - 1) |-> IF i < p + 1 THEN line[i] ELSE line[i + 1]]
  <2> HIDE DEF line
  <2> QED
    BY <1>1, RemoveIs
<1>6. (p + 1) - 1 = p /\ (p + 1) + 1 = p + 2
  OBVIOUS
<1> QED
  BY <1>1, <1>4, <1>5, <1>6

LEMMA BackspaceMaps ==
    ASSUME EditorInv, Backspace
    PROVE  Line!Rubout
<1>1. /\ editing /\ editing' /\ LineOK(buf, len, pos) /\ pos > 0
      /\ buf' = ShiftedOut(pos - 1) /\ len' = len - 1 /\ pos' = pos - 1
  BY DEF EditorInv, Backspace, Idle
<1>2. /\ Len(LineIn(buf, len)) = len /\ len \in Nat /\ pos \in Nat /\ pos <= len
      /\ pos - 1 \in Nat /\ pos - 1 < len /\ (pos - 1) + 2 = pos + 1
  BY <1>1, LineIsASequence
<1>3. LineIn(buf', len') = SubSeq(LineIn(buf, len), 1, pos - 1)
                               \o SubSeq(LineIn(buf, len), (pos - 1) + 2, len)
  BY <1>1, <1>2, ShiftedOutIsWithout
<1> QED
  BY <1>1, <1>2, <1>3, LineShown, LineShownNext DEF Line!Rubout, Line!Without

LEMMA DeleteMaps ==
    ASSUME EditorInv, Delete
    PROVE  Line!Remove
<1>1. /\ editing /\ editing' /\ LineOK(buf, len, pos) /\ pos < len
      /\ buf' = ShiftedOut(pos) /\ len' = len - 1 /\ pos' = pos
  BY DEF EditorInv, Delete, Idle
<1>2. /\ Len(LineIn(buf, len)) = len /\ len \in Nat /\ pos \in Nat
      /\ (pos + 1) - 1 = pos /\ (pos + 1) + 1 = pos + 2
  BY <1>1, LineIsASequence
<1>3. LineIn(buf', len') = SubSeq(LineIn(buf, len), 1, pos)
                               \o SubSeq(LineIn(buf, len), pos + 2, len)
  BY <1>1, <1>2, ShiftedOutIsWithout
<1> QED
  BY <1>1, <1>2, <1>3, LineShown, LineShownNext DEF Line!Remove, Line!Without

\* The arrows, Home, and End with the length it finds in the buffer.
LEMMA MovingMaps ==
    ASSUME EditorInv, ArrowRight \/ ArrowLeft \/ End \/ Home
    PROVE  Line!Move
<1>1. /\ editing /\ editing' /\ LineOK(buf, len, pos) /\ UNCHANGED <<buf, len>>
      /\ Strlen(buf) = len
  BY StrlenIs DEF EditorInv, ArrowRight, ArrowLeft, End, Home, MoveTo, Idle, LineOK
<1>2. Len(LineIn(buf, len)) = len /\ len \in Nat /\ pos \in Nat /\ pos <= len
  BY <1>1, LineIsASequence
<1>3. pos' \in {0, pos - 1, pos + 1, len} /\ pos' \in 0..len
  BY <1>1, <1>2 DEF ArrowRight, ArrowLeft, End, Home, MoveTo
<1> QED
  BY <1>1, <1>2, <1>3, LineShown, LineShownNext DEF Line!Move

\* Up and Down.
LEMMA BrowseMaps ==
    ASSUME EditorInv, NEW line \in StoredLines, Browse(line)
    PROVE  Line!Replace(line)
<1>1. /\ editing /\ editing' /\ LineOK(buf, len, pos)
      /\ buf' = Copied(line) /\ len' = Strlen(buf') /\ pos' = Strlen(buf')
  BY DEF EditorInv, Browse, Idle
<1>2. line \in Seq(Chars) /\ Len(line) \in Nat /\ Len(line) <= MaxLen /\ MaxLen \in Nat
  BY EditorAssumption
<1>3. buf' = [i \in Places |-> IF i < Len(line) THEN line[i + 1] ELSE
                                IF i = Len(line) THEN Nul ELSE buf[i]]
  BY <1>1 DEF Copied
<1>4. buf' \in [Places -> Chars \cup {Nul}]
  BY <1>1, <1>2, <1>3 DEF Places, LineOK
<1>5. buf'[Len(line)] = Nul /\ \A i \in Places : i < Len(line) => buf'[i] = line[i + 1]
  BY <1>2, <1>3 DEF Places
<1>6. LineOK(buf', Len(line), Len(line))
  BY <1>4, <1>5, CopiedIsALine
<1>7. len' = Len(line) /\ pos' = Len(line)
  BY <1>1, <1>4, <1>6, StrlenIs DEF LineOK
<1>8. ASSUME NEW i \in 1..Len(line)
      PROVE  LineIn(buf', len')[i] = line[i]
  <2>1. i - 1 \in Places /\ i - 1 < Len(line) /\ (i - 1) + 1 = i
    BY <1>2 DEF Places
  <2> QED
    BY <1>5, <1>7, <2>1 DEF LineIn
<1>9. LineIn(buf', len') \in Seq(Chars) /\ Len(LineIn(buf', len')) = Len(line)
  BY <1>6, <1>7, LineIsASequence
<1>10. LineIn(buf', len') = line
  BY <1>2, <1>8, <1>9, SeqEqual
<1> QED
  BY <1>1, <1>7, <1>10, LineShownNext DEF Line!Replace

\* The line given up, by Ctrl-U or by Enter.
LEMMA EmptyingMaps ==
    ASSUME EditorInv, ClearLine \/ Return
    PROVE  Line!Replace(<<>>)
<1>1. \/ editing' /\ len' = 0 /\ pos' = 0
      \/ ~editing'
  BY DEF ClearLine, Return, Idle
<1>2. LineIn(buf', 0) = <<>>
  BY DEF LineIn
<1> QED
  BY <1>1, <1>2, LineShownNext DEF Line!Replace

\* Everything else leaves the line and the cursor alone: the keys that print, what Tab
\* finds before it adds it, the start of readline and what happens between its calls.
LEMMA ShowingMaps ==
    ASSUME EditorInv,
           \/ Help \/ ListMatches \/ CompleteWord \/ CompleteCommon \/ CompleteWithNul
           \/ Start \/ \E line \in StoredLines : Recall(line)
           \/ UNCHANGED editorVars
    PROVE  UNCHANGED Line!lineVars
<1>1. CASE UNCHANGED <<buf, len, pos, editing>>
  BY <1>1 DEF Line!lineVars
<1>2. CASE Start
  <2>1. ~editing /\ editing' /\ len' = 0 /\ pos' = 0
    BY <1>2 DEF Start
  <2>2. LineIn(buf', 0) = <<>>
    BY DEF LineIn
  <2> QED
    BY <2>1, <2>2, LineShown, LineShownNext DEF Line!lineVars
<1>3. CASE \E line \in StoredLines : Recall(line)
  <2>1. ~editing /\ ~editing'
    BY <1>3 DEF Recall
  <2> QED
    BY <2>1, LineShown, LineShownNext DEF Line!lineVars
<1>4. (\/ Help \/ ListMatches \/ CompleteWord \/ CompleteCommon \/ CompleteWithNul
       \/ UNCHANGED editorVars) => UNCHANGED <<buf, len, pos, editing>>
  BY DEF Help, ListMatches, CompleteWord, CompleteCommon, CompleteWithNul, editorVars
<1> QED
  BY <1>1, <1>2, <1>3, <1>4

LEMMA EditorStepMaps ==
    ASSUME EditorInv, [EditorNext]_editorVars
    PROVE  [Line!LineNext]_(Line!lineVars)
<1>1. ASSUME NEW c \in Chars, Type(c)
      PROVE  Line!Insert(c)
  <2>1. editing /\ editing' /\ len < MaxLen /\ AddChar(c)
    BY <1>1 DEF Type, Idle
  <2> QED
    BY <2>1, AddCharMaps
<1>2. CASE Complete
  <2>1. /\ editing /\ editing' /\ rest # <<>> /\ rest \in Seq(Chars)
        /\ len + Len(rest) <= MaxLen /\ AddChar(Head(rest))
        /\ len \in Int /\ MaxLen \in Int
    BY <1>2, EditorAssumption DEF Complete, EditorInv, EditorTypeOK, Places
  <2>2. Head(rest) \in Chars /\ Len(rest) >= 1 /\ Len(rest) \in Int
    BY <2>1
  <2>3. len < MaxLen
    BY <2>1, <2>2
  <2>4. PICK c \in Chars : c = Head(rest)
    BY <2>2
  <2>5. AddChar(c)
    BY <2>1, <2>4 DEF AddChar, ShiftedIn
  <2>6. Line!Insert(c)
    BY <2>1, <2>3, <2>5, AddCharMaps
  <2> QED
    BY <2>6 DEF Line!LineNext
<1>3. CASE UNCHANGED editorVars
  BY <1>3, ShowingMaps
<1>4. ASSUME NEW line \in StoredLines, Browse(line)
      PROVE  Line!Replace(line)
  BY <1>4, BrowseMaps
<1> QED
  BY <1>1, <1>2, <1>3, <1>4, BackspaceMaps, DeleteMaps, MovingMaps, EmptyingMaps, ShowingMaps
     DEF EditorNext, Line!LineNext

LEMMA EditorInitMaps ==
    EditorInit => Line!LineInit
BY LineShown DEF EditorInit, Line!LineInit

\* Whatever the keys and the names Tab completes, the bytes in the buffer behave as a line
\* with a cursor: a key changes only the characters it should, Tab only inserts.
THEOREM RefinesLine == EditorSpec => ImplementsLine
<1>1. EditorInv /\ [EditorNext]_editorVars => [Line!LineNext]_(Line!lineVars)
  BY EditorStepMaps
<1> QED
  BY <1>1, EditorInitMaps, EditorInvHolds, PTL DEF EditorSpec, ImplementsLine, Line!LineSpec

=============================================================================
