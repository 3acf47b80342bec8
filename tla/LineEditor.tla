----------------------------- MODULE LineEditor -----------------------------
(***************************************************************************)
(* The line editor of a climinal session (src/src/terminal.c: readline,    *)
(* addchar, and what cli_complete and printhelp do to the line), byte by   *)
(* byte: a buffer with its terminating NUL, two counters, and a terminal   *)
(* that is only told which characters to print and how far to move.        *)
(*                                                                         *)
(* Characters are opaque and each takes one column; columns are counted    *)
(* from the end of the prompt, on a terminal wide enough for the line.     *)
(* The end of a stored line or of a printed one is its NUL, and what lies  *)
(* behind it in the buffer is left over from longer lines.                 *)
(***************************************************************************)
EXTENDS Integers, Sequences, SequencesExt

CONSTANTS
    Chars,          \* what addchar is given
    Blank,          \* the space, one of them
    Nul,            \* '\0'
    MaxLen,         \* bound of the model: the longest line (MAX_BUFLEN is 256)
    StoredLines,    \* what the history may put in the buffer
    Names           \* the words that the completer knows

ASSUME EditorAssumption ==
    /\ MaxLen \in Nat
    /\ Blank \in Chars /\ Nul \notin Chars
    /\ StoredLines \subseteq Seq(Chars) /\ \A line \in StoredLines : Len(line) <= MaxLen
    /\ Names \subseteq Seq(Chars)

VARIABLES
    buf,        \* term->buffer
    len, pos,   \* term->len, term->pos
    screen,     \* what the terminal shows from the prompt on, and its cursor's column
    rest,       \* the characters Tab has still to add
    listing,    \* whether Tab will list its matches
    editing,    \* whether readline runs
    cut         \* whether Tab added a byte from outside its strings that ends the line

editorVars == <<buf, len, pos, screen, rest, listing, editing, cut>>

Places == 0..MaxLen

\* The string in b ends at place n: strlen(b) = n.
EndsAt(b, n) == b[n] = Nul /\ \A i \in 0..(n - 1) : b[i] # Nul

Strlen(b) == CHOOSE n \in Places : EndsAt(b, n)

EditorTypeOK ==
    /\ buf \in [Places -> Chars \cup {Nul}]
    /\ len \in Places /\ pos \in Places
    /\ screen \in [text : [Places -> Chars], col : Int]
    /\ rest \in Seq(Chars)
    /\ listing \in BOOLEAN /\ editing \in BOOLEAN /\ cut \in BOOLEAN

-----------------------------------------------------------------------------
(* The terminal.                                                           *)

FreshLine == [text |-> [x \in Places |-> Blank], col |-> 0]

\* The characters of b from one place to another are printed.
Written(s, b, from, to) ==
    [text |-> [x \in Places |->
                  IF x \in s.col..(s.col + to - from) THEN b[x - s.col + from] ELSE s.text[x]],
     col  |-> s.col + (to - from) + 1]

WrittenBlank(s) == Written(s, [i \in {0} |-> Blank], 0, 0)

\* CURS_L and CURS_R.
CursL(s, n) == [s EXCEPT !.col = @ - n]

CursR(s, n) == [s EXCEPT !.col = @ + n]

\* CLR_LIN_R.
ClrLinR(s) == [s EXCEPT !.text = [x \in Places |-> IF x < s.col THEN @[x] ELSE Blank]]

-----------------------------------------------------------------------------
(* The keys that edit the line.                                            *)

Idle == editing /\ rest = <<>> /\ ~listing /\ ~cut

\* The NUL is not moved along.
ShiftedInWithoutNul(c) ==
    [i \in Places |->
        IF i = pos THEN c ELSE IF i \in (pos + 1)..len THEN buf[i - 1] ELSE buf[i]]

\* addchar moves everything from the cursor to the NUL one place on.
ShiftedIn(c) ==
    [i \in Places |->
        IF i = pos THEN c ELSE IF i \in (pos + 1)..(len + 1) THEN buf[i - 1] ELSE buf[i]]

AddChar(c) ==
    /\ buf' = ShiftedIn(c)
    /\ screen' = CursL(Written(screen, buf', pos, len), len - pos)
    /\ len' = len + 1
    /\ pos' = pos + 1

Type(c) ==
    /\ Idle /\ len < MaxLen
    /\ AddChar(c)
    /\ UNCHANGED <<rest, listing, editing, cut>>

\* The loop starts one place too late.
ShiftedOutLate(p) ==
    [i \in Places |-> IF i \in (p + 1)..(len - 1) THEN buf[i + 1] ELSE buf[i]]

\* Everything behind place p, the NUL too, moves back over it.
ShiftedOut(p) ==
    [i \in Places |-> IF i \in p..(len - 1) THEN buf[i + 1] ELSE buf[i]]

\* A forgotten test of the line's start.
BackspaceUnguarded ==
    /\ Idle
    /\ buf' = ShiftedOut(pos - 1)
    /\ screen' = CursL(WrittenBlank(Written(CursL(screen, 1), buf, pos, len - 1)), len - pos + 1)
    /\ len' = len - 1
    /\ pos' = pos - 1
    /\ UNCHANGED <<rest, listing, editing, cut>>

Backspace ==
    /\ Idle /\ pos > 0
    /\ buf' = ShiftedOut(pos - 1)
    /\ screen' = CursL(WrittenBlank(Written(CursL(screen, 1), buf, pos, len - 1)), len - pos + 1)
    /\ len' = len - 1
    /\ pos' = pos - 1
    /\ UNCHANGED <<rest, listing, editing, cut>>

Delete ==
    /\ Idle /\ pos < len
    /\ buf' = ShiftedOut(pos)
    /\ screen' = CursL(Written(ClrLinR(screen), buf', pos, len - 2), len - 1 - pos)
    /\ len' = len - 1
    /\ UNCHANGED <<pos, rest, listing, editing, cut>>

ClearLine ==
    /\ Idle
    /\ screen' = ClrLinR(CursL(screen, pos))
    /\ buf' = [i \in Places |-> IF i < len THEN Nul ELSE buf[i]]
    /\ len' = 0 /\ pos' = 0
    /\ UNCHANGED <<rest, listing, editing, cut>>

-----------------------------------------------------------------------------
(* The keys that move in it.                                               *)

MoveTo(p) ==
    /\ Idle
    /\ pos' = p
    /\ UNCHANGED <<buf, len, rest, listing, editing, cut>>

ArrowRight == pos < len /\ MoveTo(pos + 1) /\ screen' = CursR(screen, 1)

ArrowLeft == pos > 0 /\ MoveTo(pos - 1) /\ screen' = CursL(screen, 1)

\* The end is looked for in the buffer, not taken from len.
End == MoveTo(Strlen(buf)) /\ screen' = CursR(screen, Strlen(buf) - pos)

Home == MoveTo(0) /\ screen' = CursL(screen, pos)

-----------------------------------------------------------------------------
(* The keys that bring a line or show it again.                            *)

\* strcpy leaves what lies behind the copied NUL.
Copied(line) ==
    [i \in Places |->
        IF i < Len(line) THEN line[i + 1] ELSE IF i = Len(line) THEN Nul ELSE buf[i]]

\* Up and Down that take the cursor to the line's start for the old one's length.
BrowseFromEnd(line) ==
    /\ Idle
    /\ buf' = Copied(line)
    /\ screen' = Written(ClrLinR(CursL(screen, len)), buf', 0, Strlen(buf') - 1)
    /\ len' = Strlen(buf') /\ pos' = Strlen(buf')
    /\ UNCHANGED <<rest, listing, editing, cut>>

\* Up and Down.
Browse(line) ==
    /\ Idle
    /\ buf' = Copied(line)
    /\ screen' = Written(ClrLinR(CursL(screen, pos)), buf', 0, Strlen(buf') - 1)
    /\ len' = Strlen(buf') /\ pos' = Strlen(buf')
    /\ UNCHANGED <<rest, listing, editing, cut>>

\* A new prompt and the line after it, the cursor taken back by n.
Redrawn(n) == CursL(Written(FreshLine, buf, 0, Strlen(buf) - 1), n)

Help ==
    /\ Idle
    /\ screen' = Redrawn(len - pos)
    /\ UNCHANGED <<buf, len, pos, rest, listing, editing, cut>>

\* The word to complete starts at place p (last_word_pos): behind the last blank before
\* the cursor. With the cursor at the start of a line that begins with a blank it is
\* behind the cursor.
WordStartsAt(p) ==
    IF pos = 0 THEN p = IF buf[0] = Blank THEN 1 ELSE 0
    ELSE /\ p <= pos /\ (p > 0 => buf[p - 1] = Blank)
         /\ \A i \in p..(pos - 1) : buf[i] # Blank

Typed(p) == [i \in 1..(pos - p) |-> buf[p + i - 1]]

\* The completer returns names that start with what is typed. A word behind the cursor
\* has length -1 for it, and counts as a whole.
MatchesAt(p) ==
    {name \in Names :
        IF pos >= p THEN IsPrefix(Typed(p), name)
        ELSE len > p /\ IsPrefix([i \in 1..(len - p) |-> buf[p + i - 1]], name)}

\* The matches agree on their first n characters, and the common part ends there.
Agree(n, matches) ==
    \A a, b \in matches : n <= Len(a) /\ IsPrefix(SubSeq(a, 1, n), b)

CommonIs(n, matches) == Agree(n, matches) /\ ~Agree(n + 1, matches)

\* One match: its rest and a blank. The loop counts from pos - p to its length, but
\* compares without sign: from -1 it never turns.
CompleteWord ==
    /\ Idle
    /\ \E p \in Places : \E match \in MatchesAt(p) :
           /\ WordStartsAt(p)
           /\ rest' = Append(IF pos < p THEN <<>> ELSE SubSeq(match, (pos - p) + 1, Len(match)),
                             Blank)
    /\ len + Len(rest') <= MaxLen
    /\ UNCHANGED <<buf, len, pos, screen, listing, editing, cut>>

\* Several (or one name found twice): the rest of the common part, then the list. Here
\* the comparison has a sign: from -1 the loop starts with the byte before the string.
CompleteCommon ==
    /\ Idle
    /\ \E p \in Places : \E matches \in SUBSET MatchesAt(p) : \E match \in matches :
           \E n \in 0..Len(match) :
               /\ WordStartsAt(p) /\ CommonIs(n, matches)
               /\ \/ pos >= p /\ rest' = SubSeq(match, (pos - p) + 1, n)
                  \/ pos < p /\ \E byte \in Chars : rest' = <<byte>> \o SubSeq(match, 1, n)
    /\ len + Len(rest') <= MaxLen
    /\ listing' = TRUE
    /\ UNCHANGED <<buf, len, pos, screen, editing, cut>>

\* That byte is a NUL: the line is cut in two, and the model ends.
CompleteWithNul ==
    /\ Idle
    /\ \E p \in Places : WordStartsAt(p) /\ pos < p /\ MatchesAt(p) # {}
    /\ cut' = TRUE
    /\ UNCHANGED <<buf, len, pos, screen, rest, listing, editing>>

Complete ==
    /\ rest # <<>>
    /\ AddChar(Head(rest))
    /\ rest' = Tail(rest)
    /\ UNCHANGED <<listing, editing, cut>>

ListMatches ==
    /\ rest = <<>> /\ listing
    /\ screen' = Redrawn(Strlen(buf) - pos)
    /\ listing' = FALSE
    /\ UNCHANGED <<buf, len, pos, rest, editing, cut>>

-----------------------------------------------------------------------------
(* The calls of readline and what parseline does between them.             *)

Start ==
    /\ ~editing
    /\ buf' = [i \in Places |-> Nul]
    /\ len' = 0 /\ pos' = 0
    /\ screen' = FreshLine
    /\ editing' = TRUE
    /\ UNCHANGED <<rest, listing, cut>>

\* Enter, or the end of the input.
Return ==
    /\ Idle
    /\ editing' = FALSE
    /\ UNCHANGED <<buf, len, pos, screen, rest, listing, cut>>

\* parseline puts a recalled command in the buffer; pos stays where it was.
Recall(line) ==
    /\ ~editing
    /\ buf' = [i \in Places |-> IF i < Len(line) THEN line[i + 1] ELSE Nul]
    /\ len' = Len(line)
    /\ UNCHANGED <<pos, screen, rest, listing, editing, cut>>

EditorInit ==
    /\ buf = [i \in Places |-> Nul]
    /\ len = 0 /\ pos = 0
    /\ screen = FreshLine
    /\ rest = <<>> /\ listing = FALSE
    /\ editing = FALSE /\ cut = FALSE

EditorNext ==
    \/ \E c \in Chars : Type(c)
    \/ Backspace \/ Delete \/ ClearLine
    \/ ArrowRight \/ ArrowLeft \/ End \/ Home
    \/ \E line \in StoredLines : Browse(line) \/ Recall(line)
    \/ Help \/ CompleteWord \/ CompleteCommon \/ CompleteWithNul
    \/ Complete \/ ListMatches
    \/ Start \/ Return

EditorSpec == EditorInit /\ [][EditorNext]_editorVars

-----------------------------------------------------------------------------
(* Properties.                                                             *)

\* The line has one length: the counter len, which the editing keys maintain, and the
\* NUL in the buffer, which End, Up, Down and the redrawing rely on, agree whatever
\* was left over behind it; the cursor is in the line.
OneLength == editing => pos <= len /\ EndsAt(buf, len)

\* The terminal shows the line and nothing else, its cursor where pos says (the
\* characters printed and the moves counted by every key add up).
ScreenShowsLine ==
    editing =>
        /\ screen.col = pos
        /\ \A x \in Places : screen.text[x] = IF x < len THEN buf[x] ELSE Blank

\* The bytes behave as a line with a cursor: no key changes a character it should not,
\* and a completion only inserts at the cursor.
Line == INSTANCE EditedLine WITH
    line   <- IF editing THEN [i \in 1..len |-> buf[i - 1]] ELSE <<>>,
    cursor <- IF editing THEN pos ELSE 0

ImplementsLine == Line!LineSpec

=============================================================================
