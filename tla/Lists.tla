-------------------------------- MODULE Lists --------------------------------
(***************************************************************************)
(* What the modules about the command line ask of lists.                   *)
(***************************************************************************)
EXTENDS Integers, Sequences

\* The elements of a list that are in S, in their order.
Among(list, S) ==
    LET Upto[i \in 0..Len(list)] ==
            IF i = 0 THEN <<>>
            ELSE IF list[i] \in S THEN Append(Upto[i - 1], list[i]) ELSE Upto[i - 1]
    IN  Upto[Len(list)]

=============================================================================
