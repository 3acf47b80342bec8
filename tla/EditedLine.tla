----------------------------- MODULE EditedLine -----------------------------
(***************************************************************************)
(* What the user of a line editor expects: a line and a cursor in it.      *)
(***************************************************************************)
EXTENDS Integers, Sequences

CONSTANTS
    Chars,
    StoredLines     \* the lines the arrow keys may bring

VARIABLES line, cursor

lineVars == <<line, cursor>>

LineInit == line = <<>> /\ cursor = 0

Insert(c) ==
    /\ line' = SubSeq(line, 1, cursor) \o <<c>> \o SubSeq(line, cursor + 1, Len(line))
    /\ cursor' = cursor + 1

\* The character at position i goes.
Without(i) == SubSeq(line, 1, i - 1) \o SubSeq(line, i + 1, Len(line))

Rubout ==
    /\ cursor > 0
    /\ line' = Without(cursor)
    /\ cursor' = cursor - 1

Remove ==
    /\ cursor < Len(line)
    /\ line' = Without(cursor + 1)
    /\ UNCHANGED cursor

Move ==
    /\ cursor' \in {0, cursor - 1, cursor + 1, Len(line)} \cap 0..Len(line)
    /\ UNCHANGED line

Replace(new) == line' = new /\ cursor' = Len(new)

LineNext ==
    \/ \E c \in Chars : Insert(c)
    \/ Rubout \/ Remove \/ Move
    \/ \E new \in StoredLines \cup {<<>>} : Replace(new)

LineSpec == LineInit /\ [][LineNext]_lineVars

=============================================================================
