---------------------------- MODULE ParserProofs -----------------------------
(***************************************************************************)
(* Proofs about module Parser. They rest on what bison's tables make of    *)
(* the stack: under each state only a few others can stand, so that the    *)
(* states a reduction takes from the stack are known from the topmost one, *)
(* however long the document has been. Beneath lists them; it is computed  *)
(* from the tables, and the proofs check it against them.                  *)
(***************************************************************************)
EXTENDS Parser, Foundations
LOCAL INSTANCE SequencesExt

-----------------------------------------------------------------------------
(* The invariant.                                                          *)

\* The states that may stand under each state.
Beneath == <<
    {}, {0}, {1}, {1}, {1}, {1}, {1}, {3}, {5}, {6, 8, 31}, {6, 8}, {6, 8, 31}, {7}, {9},
    {11}, {12}, {13}, {14, 31}, {14}, {14}, {14, 31}, {14, 31}, {15}, {16}, {17}, {21},
    {21}, {24}, {25}, {25}, {26}, {26}, {26}, {27}, {30}, {30}, {31}, {33}, {34}, {35},
    {37}, {38}, {39}, {40}, {41}, {41}, {42, 64}, {42}, {43}, {44}, {45}, {46}, {47},
    {48}, {49}, {50}, {51}, {53}, {55}, {57}, {58}, {59}, {60}, {61}, {62}, {64}, {65}>>

States == 0..66

Path(stack) ==
    /\ stack \in Seq(States) /\ Len(stack) >= 1
    /\ stack[1] = 0
    /\ \A i \in 2..Len(stack) : stack[i - 1] \in At(Beneath, stack[i])

\* From a parameter's description to the parameter's end.
AfterDescription == {50, 55, 58, 60, 62, 64, 46, 51, 56, 65, 66}

InDescribed(stack) ==
    \E k \in 1..Len(stack) :
        stack[k] = 45 /\ \A j \in (k + 1)..Len(stack) : stack[j] \in AfterDescription

\* From a parameter's values to the parameter's end.
AfterValues == {47, 52, 65, 66}

GlobalsWait(stack, d, v) ==
    /\ d => InDescribed(stack)
    /\ v => Last(stack) \in AfterValues

\* The states of context_start and command_start: an element has begun.
Begun == {11, 21}

\* The places of a stack above m, up to l, whose state is of a set S.
Marked(stack, m, l, S) == {j \in (m + 1)..l : stack[j] \in S}

\* How many elements the first i states have begun.
Depth(stack, i) == Cardinality(Marked(stack, 0, i, Begun))

\* Behind the end of an element the builder knows no more of it.
Ended(stack) == One(Last(stack) \in {19, 29})

Told(stack, elements, j) == stack[j] \in Begun /\ Depth(stack, j) <= Len(elements)

\* Behind its commands' contexts a command cannot have commands.
PastCommands(stack, j) ==
    \/ j + 1 <= Len(stack) /\ stack[j + 1] = 25
    \/ j + 3 <= Len(stack) /\ stack[j + 3] \in {11, 36}

NestingAt(stack, elements, j) ==
    Told(stack, elements, j) =>
        LET element == elements[Depth(stack, j)]
        IN  /\ element.kind = IF stack[j] = 11 THEN "context" ELSE "command"
            /\ stack[j] = 21 /\ element.stage = "contexts" => PastCommands(stack, j)

Nesting(stack, elements) ==
    /\ Depth(stack, Len(stack)) = Len(elements) + Ended(stack)
    /\ \A j \in 1..Len(stack) : NestingAt(stack, elements, j)

StackInv ==
    /\ Path(yyss) /\ Len(yyss) < YYINITDEPTH
    /\ Top # YYFINAL

Elements ==
    [kind : {"context", "command"}, stage : {"parameters", "commands", "contexts"}]

RegisterInv ==
    /\ yychar \in Tokens \cup {YYEMPTY}
    /\ yyresult \in {"parsing", "accepted", "written", "syntax error", "exhausted"}
    /\ description \in BOOLEAN /\ values \in BOOLEAN /\ texts \in Nat
    /\ open \in Seq(Elements)

NestingInv ==
    /\ yyresult = "parsing" => Nesting(yyss, open)
    /\ yyresult = "accepted" => open = <<>>

ParserInv ==
    /\ StackInv /\ RegisterInv /\ TextsOwned /\ NestingInv
    /\ yyresult = "parsing" => GlobalsWait(yyss, description, values)

-----------------------------------------------------------------------------
(* The tables.                                                             *)

LEMMA NumberOfNames ==
    /\ Number["TXT"] = 25 /\ Number["STR"] = 23
    /\ Number["param_description"] = 52 /\ Number["param_values"] = 53
    /\ Number["ENDPAR"] = 14
<1>1. DOMAIN yytname = 1..54
  BY DEF yytname
<1>2. \A n \in 1..54 :
        /\ yytname[n] = "TXT" <=> n = 26
        /\ yytname[n] = "STR" <=> n = 24
        /\ yytname[n] = "param_description" <=> n = 53
        /\ yytname[n] = "param_values" <=> n = 54
        /\ yytname[n] = "ENDPAR" <=> n = 15
  BY DEF yytname
<1> HIDE DEF yytname
<1> QED
  BY <1>1, <1>2 DEF Number, ToSet

\* Only the shifts and the gotos of the table push a state, and each on a state
\* that may stand beneath it.
LEMMA ShiftTarget ==
    ASSUME Top \in 0..66, yychar \in Tokens \cup {YYEMPTY}, Decided, Decision < 0
    PROVE  /\ yychar # YYEMPTY
           /\ -Decision \in 1..66
           /\ Top \in At(Beneath, -Decision)
           /\ At(yystos, -Decision) = yychar
<1> DEFINE n == At(yypact, Top) + yychar
<1>1. yychar \in Int /\ yychar >= -2 /\ yychar <= 36
  BY DEF Tokens, YYNTOKENS, YYEMPTY
<1>2. /\ \A s \in 0..66 : At(yydefact, s) \in 0..26 /\ At(yypact, s) \in Int
      /\ \A k \in 0..63 : At(yycheck, k) \in Int /\ At(yycheck, k) >= -1
                          /\ At(yytable, k) \in Int
  BY DEF At, yypact, yydefact, yycheck, yytable
<1>3. n \in 0..63 /\ At(yycheck, n) = yychar /\ Decision = -At(yytable, n) /\ ~Consistent
  BY <1>1, <1>2 DEF Decision, YYLAST
<1>4. \A s \in 0..66 : \A k \in 0..63 :
        /\ At(yypact, s) # -37
        /\ k = At(yypact, s) + At(yycheck, k)
        /\ At(yytable, k) # 0
        => /\ At(yytable, k) \in 1..66 /\ s \in At(Beneath, At(yytable, k))
           /\ At(yystos, At(yytable, k)) = At(yycheck, k)
  BY DEF At, yypact, yycheck, yytable, yystos, Beneath
<1>5. At(yypact, Top) # -37
  BY <1>3 DEF Consistent, YYPACT_NINF
<1>6. At(yypact, Top) \in Int /\ At(yytable, n) \in Int /\ At(yycheck, n) >= -1
  BY <1>2, <1>3
<1>7. -Decision = At(yytable, n) /\ n = At(yypact, Top) + At(yycheck, n)
  BY <1>3, <1>6
<1>8. At(yytable, n) # 0
  BY <1>3, <1>6
<1>9. /\ At(yytable, n) \in 1..66 /\ Top \in At(Beneath, At(yytable, n))
      /\ At(yystos, At(yytable, n)) = At(yycheck, n)
  <2> HIDE DEF n
  <2> QED
    BY <1>3, <1>4, <1>5, <1>7, <1>8
<1> QED
  BY <1>3, <1>6, <1>7, <1>9 DEF YYEMPTY

\* What is reduced depends on the topmost state alone.
LEMMA ReducedRule ==
    ASSUME Top \in 0..66, yychar \in Tokens \cup {YYEMPTY}, Decided, Decision > 0
    PROVE  Decision = At(yydefact, Top) /\ Decision \in 1..26
<1>1. /\ \A s \in 0..66 : At(yydefact, s) \in 0..26
      /\ \A k \in 0..63 : At(yytable, k) \in Nat
  BY DEF At, yydefact, yytable
<1>2. /\ At(yypact, Top) \in Int /\ yychar \in Int
  <2>1. \A s \in 0..66 : At(yypact, s) \in Int
    BY DEF At, yypact
  <2> QED
    BY <2>1 DEF Tokens, YYNTOKENS, YYEMPTY
<1>3. Decision = At(yydefact, Top) \/ At(yypact, Top) + yychar \in 0..63
  BY <1>2 DEF Decision, YYLAST
<1> QED
  BY <1>1, <1>2, <1>3 DEF Decision, YYLAST

-----------------------------------------------------------------------------
(* What a reduction takes from the stack.                                  *)

\* The states of the right side of rule r, above place m of the stack, and the one that
\* comes to be the topmost.
HandleIs(stack, r, m) ==
    /\ r = 2 => stack[m] = 0
    /\ r = 3 => stack[m] = 0 /\ stack[m + 1] = 1 /\ stack[m + 2] = 4
    /\ r = 4 => stack[m] = 1 /\ stack[m + 1] = 6
    /\ r = 5 => stack[m] = 1 /\ stack[m + 1] = 5 /\ stack[m + 2] = 8
    /\ r = 6 =>
           /\ stack[m] = 1 /\ stack[m + 1] = 3 /\ stack[m + 2] = 7
           /\ stack[m + 3] = 12 /\ stack[m + 4] = 15 /\ stack[m + 5] = 22
    /\ r = 7 => stack[m] \in {1, 5}
    /\ r = 8 => stack[m] \in {1, 5} /\ stack[m + 1] \in {6, 8} /\ stack[m + 2] = 10
    /\ r = 9 =>
           /\ stack[m] \in {6, 8, 31} /\ stack[m + 1] = 11 /\ stack[m + 2] = 14
           /\ stack[m + 3] = 19
    /\ r = 10 =>
           /\ stack[m] \in {6, 8, 31} /\ stack[m + 1] = 9 /\ stack[m + 2] = 13
           /\ stack[m + 3] = 16 /\ stack[m + 4] = 23
    /\ r = 11 => stack[m] = 14 /\ stack[m + 1] = 18
    /\ r = 12 => stack[m] \in {11, 26}
    /\ r = 13 => stack[m] \in {11, 26} /\ stack[m + 1] \in {14, 31} /\ stack[m + 2] = 20
    /\ r = 14 =>
           /\ stack[m] \in {14, 31} /\ stack[m + 1] = 21 /\ stack[m + 2] = 25
           /\ stack[m + 3] = 29
    /\ r = 15 => stack[m] = 21 /\ stack[m + 1] = 26 /\ stack[m + 2] = 31
    /\ r = 16 =>
           /\ stack[m] = 21 /\ stack[m + 1] = 26 /\ stack[m + 2] = 31
           /\ stack[m + 3] = 36
    /\ r = 17 =>
           /\ stack[m] \in {14, 31} /\ stack[m + 1] = 17 /\ stack[m + 2] = 24
           /\ stack[m + 3] = 27 /\ stack[m + 4] = 33 /\ stack[m + 5] = 37
           /\ stack[m + 6] = 40 /\ stack[m + 7] = 43 /\ stack[m + 8] = 48
           /\ stack[m + 9] = 53 /\ stack[m + 10] = 57 /\ stack[m + 11] = 59
           /\ stack[m + 12] = 61 /\ stack[m + 13] = 63
    /\ r = 18 => stack[m] = 25 /\ stack[m + 1] = 28
    /\ r = 19 => stack[m] = 21
    /\ r = 20 => stack[m] = 21 /\ stack[m + 1] = 26 /\ stack[m + 2] = 32
    /\ r = 21 =>
           /\ stack[m] = 26 /\ stack[m + 1] = 30 /\ stack[m + 2] = 34
           /\ stack[m + 3] = 38 /\ stack[m + 4] = 41 /\ stack[m + 5] = 45
           /\ stack[m + 6] = 50 /\ stack[m + 7] = 55 /\ stack[m + 8] = 58
           /\ stack[m + 9] = 60 /\ stack[m + 10] = 62 /\ stack[m + 11] = 64
           /\ stack[m + 12] = 65 /\ stack[m + 13] = 66
    /\ r = 22 =>
           /\ stack[m] = 26 /\ stack[m + 1] = 30 /\ stack[m + 2] = 35
           /\ stack[m + 3] = 39 /\ stack[m + 4] = 42 /\ stack[m + 5] = 47
           /\ stack[m + 6] = 52
    /\ r = 23 =>
           /\ stack[m] = 41 /\ stack[m + 1] = 44 /\ stack[m + 2] = 49
           /\ stack[m + 3] = 54
    /\ r = 24 => stack[m] = 41
    /\ r = 25 =>
           /\ stack[m] \in {42, 64} /\ stack[m + 1] = 46 /\ stack[m + 2] = 51
           /\ stack[m + 3] = 56
    /\ r = 26 => stack[m] \in {42, 64}

\* A state that is not the first one's stands on another.
LEMMA Under ==
    ASSUME NEW stack, Path(stack), NEW i \in 1..Len(stack), stack[i] # 0
    PROVE  i - 1 \in 1..Len(stack) /\ stack[i - 1] \in At(Beneath, stack[i])
BY DEF Path

LEMMA PathOfStates ==
    ASSUME NEW stack, Path(stack)
    PROVE  /\ Len(stack) \in Nat /\ Len(stack) >= 1
           /\ \A i \in 1..Len(stack) : stack[i] \in 0..66
<1>1. stack \in Seq(States) /\ Len(stack) >= 1
  BY DEF Path
<1>2. \A i \in 1..Len(stack) : stack[i] \in States
  BY <1>1, ElementOfSeq
<1> QED
  BY <1>1, <1>2 DEF States

\* The entries of the tables the chains of states rest on.
LEMMA EachBeneath ==
    /\ At(Beneath, 0) = {} /\ At(Beneath, 1) = {0} /\ At(Beneath, 2) = {1}
    /\ At(Beneath, 3) = {1} /\ At(Beneath, 4) = {1} /\ At(Beneath, 5) = {1}
    /\ At(Beneath, 6) = {1} /\ At(Beneath, 7) = {3} /\ At(Beneath, 8) = {5}
    /\ At(Beneath, 9) = {6, 8, 31} /\ At(Beneath, 10) = {6, 8}
    /\ At(Beneath, 11) = {6, 8, 31} /\ At(Beneath, 12) = {7} /\ At(Beneath, 13) = {9}
    /\ At(Beneath, 14) = {11} /\ At(Beneath, 15) = {12} /\ At(Beneath, 16) = {13}
    /\ At(Beneath, 17) = {14, 31} /\ At(Beneath, 18) = {14} /\ At(Beneath, 19) = {14}
    /\ At(Beneath, 20) = {14, 31} /\ At(Beneath, 21) = {14, 31}
    /\ At(Beneath, 22) = {15} /\ At(Beneath, 23) = {16} /\ At(Beneath, 24) = {17}
    /\ At(Beneath, 25) = {21} /\ At(Beneath, 26) = {21} /\ At(Beneath, 27) = {24}
    /\ At(Beneath, 28) = {25} /\ At(Beneath, 29) = {25} /\ At(Beneath, 30) = {26}
    /\ At(Beneath, 31) = {26} /\ At(Beneath, 32) = {26} /\ At(Beneath, 33) = {27}
    /\ At(Beneath, 34) = {30} /\ At(Beneath, 35) = {30} /\ At(Beneath, 36) = {31}
    /\ At(Beneath, 37) = {33} /\ At(Beneath, 38) = {34} /\ At(Beneath, 39) = {35}
    /\ At(Beneath, 40) = {37} /\ At(Beneath, 41) = {38} /\ At(Beneath, 42) = {39}
    /\ At(Beneath, 43) = {40} /\ At(Beneath, 44) = {41} /\ At(Beneath, 45) = {41}
    /\ At(Beneath, 46) = {42, 64} /\ At(Beneath, 47) = {42} /\ At(Beneath, 48) = {43}
    /\ At(Beneath, 49) = {44} /\ At(Beneath, 50) = {45} /\ At(Beneath, 51) = {46}
    /\ At(Beneath, 52) = {47} /\ At(Beneath, 53) = {48} /\ At(Beneath, 54) = {49}
    /\ At(Beneath, 55) = {50} /\ At(Beneath, 56) = {51} /\ At(Beneath, 57) = {53}
    /\ At(Beneath, 58) = {55} /\ At(Beneath, 59) = {57} /\ At(Beneath, 60) = {58}
    /\ At(Beneath, 61) = {59} /\ At(Beneath, 62) = {60} /\ At(Beneath, 63) = {61}
    /\ At(Beneath, 64) = {62} /\ At(Beneath, 65) = {64} /\ At(Beneath, 66) = {65}
BY DEF At, Beneath

LEMMA SizesOfRules ==
    /\ At(yyr2, 1) = 2 /\ At(yyr2, 2) = 0 /\ At(yyr2, 3) = 2 /\ At(yyr2, 4) = 1
    /\ At(yyr2, 5) = 2 /\ At(yyr2, 6) = 5 /\ At(yyr2, 7) = 0 /\ At(yyr2, 8) = 2
    /\ At(yyr2, 9) = 3 /\ At(yyr2, 10) = 4 /\ At(yyr2, 11) = 1 /\ At(yyr2, 12) = 0
    /\ At(yyr2, 13) = 2 /\ At(yyr2, 14) = 3 /\ At(yyr2, 15) = 2 /\ At(yyr2, 16) = 3
    /\ At(yyr2, 17) = 13 /\ At(yyr2, 18) = 1 /\ At(yyr2, 19) = 0 /\ At(yyr2, 20) = 2
    /\ At(yyr2, 21) = 13 /\ At(yyr2, 22) = 6 /\ At(yyr2, 23) = 3 /\ At(yyr2, 24) = 0
    /\ At(yyr2, 25) = 3 /\ At(yyr2, 26) = 0
BY DEF At, yyr2

LEMMA ReducingStates ==
    ASSUME NEW s \in 0..66, s # 2
    PROVE  /\ At(yydefact, s) \in 0..26 /\ At(yydefact, s) # 1
           /\ At(yydefact, s) = 2 => s = 0
           /\ At(yydefact, s) = 3 => s = 4
           /\ At(yydefact, s) = 4 => s = 6
           /\ At(yydefact, s) = 5 => s = 8
           /\ At(yydefact, s) = 6 => s = 22
           /\ At(yydefact, s) = 7 => s \in {1, 5}
           /\ At(yydefact, s) = 8 => s = 10
           /\ At(yydefact, s) = 9 => s = 19
           /\ At(yydefact, s) = 10 => s = 23
           /\ At(yydefact, s) = 11 => s = 18
           /\ At(yydefact, s) = 12 => s \in {11, 26}
           /\ At(yydefact, s) = 13 => s = 20
           /\ At(yydefact, s) = 14 => s = 29
           /\ At(yydefact, s) = 15 => s = 31
           /\ At(yydefact, s) = 16 => s = 36
           /\ At(yydefact, s) = 17 => s = 63
           /\ At(yydefact, s) = 18 => s = 28
           /\ At(yydefact, s) = 19 => s = 21
           /\ At(yydefact, s) = 20 => s = 32
           /\ At(yydefact, s) = 21 => s = 66
           /\ At(yydefact, s) = 22 => s = 52
           /\ At(yydefact, s) = 23 => s = 54
           /\ At(yydefact, s) = 24 => s = 41
           /\ At(yydefact, s) = 25 => s = 56
           /\ At(yydefact, s) = 26 => s \in {42, 64}
BY DEF At, yydefact

\* Rule r is the one to reduce by, and m the place its right side is above.
Handle(stack, r, m) ==
    /\ Last(stack) # YYFINAL
    /\ r = At(yydefact, Last(stack)) /\ r # 0
    /\ m = Len(stack) - At(yyr2, r)

LEMMA Handles ==
    ASSUME NEW stack, Path(stack), NEW r, NEW m, Handle(stack, r, m)
    PROVE  r \in 2..26 /\ m \in 1..Len(stack) /\ HandleIs(stack, r, m)
<1>1. PICK l \in Nat : l = Len(stack) /\ l >= 1 /\ \A i \in 1..l : stack[i] \in 0..66
  BY PathOfStates
<1>2. stack[l] \in 0..66 /\ stack[l] # 2
  BY <1>1 DEF Handle, Last, YYFINAL
<1>3. r = At(yydefact, stack[l]) /\ r # 0 /\ m = l - At(yyr2, r)
  BY <1>1 DEF Handle, Last
<1>4. \A i \in 1..l : stack[i] # 0 => i > 1 /\ stack[i - 1] \in At(Beneath, stack[i])
  BY <1>1, Under
<1>5. r \in 2..26
  BY <1>2, <1>3, ReducingStates
<1>6. ASSUME NEW q \in 2..26, At(yydefact, stack[l]) = q, NEW n, n = l - At(yyr2, q)
      PROVE  n \in 1..l /\ HandleIs(stack, q, n)
  <2>1. CASE q = 2
    <3>1. stack[l] = 0
      <4>1. At(yydefact, stack[l]) = 2
        BY <1>6, <2>1, Zenon
      <4> QED
        BY <1>2, <4>1, ReducingStates
    <3>2. n = l
      <4>1. n = l - At(yyr2, 2)
        BY <1>6, <2>1, Zenon
      <4> QED
        BY <4>1, SizesOfRules
    <3>3. l \in 1..l /\ HandleIs(stack, 2, l)
      BY <1>1, <3>1 DEF HandleIs
    <3> QED
      BY <2>1, <3>2, <3>3, Zenon
  <2>2. CASE q = 3
    <3>1. stack[l] = 4
      <4>1. At(yydefact, stack[l]) = 3
        BY <1>6, <2>2, Zenon
      <4> QED
        BY <1>2, <4>1, ReducingStates
    <3>2. n = l - 2
      <4>1. n = l - At(yyr2, 3)
        BY <1>6, <2>2, Zenon
      <4> QED
        BY <4>1, SizesOfRules
    <3>3. /\ l - 2 \in 1..l /\ stack[l - 1] = 1 /\ stack[l - 2] = 0
      <4>1. /\ At(Beneath, 1) = {0} /\ At(Beneath, 4) = {1}
        BY EachBeneath
      <4> QED
        BY <1>1, <1>4, <3>1, <4>1
    <3>4. l - 2 \in 1..l /\ HandleIs(stack, 3, l - 2)
      BY <1>1, <3>1, <3>3 DEF HandleIs
    <3> QED
      BY <2>2, <3>2, <3>4, Zenon
  <2>3. CASE q = 4
    <3>1. stack[l] = 6
      <4>1. At(yydefact, stack[l]) = 4
        BY <1>6, <2>3, Zenon
      <4> QED
        BY <1>2, <4>1, ReducingStates
    <3>2. n = l - 1
      <4>1. n = l - At(yyr2, 4)
        BY <1>6, <2>3, Zenon
      <4> QED
        BY <4>1, SizesOfRules
    <3>3. /\ l - 1 \in 1..l /\ stack[l - 1] = 1
      <4>1. /\ At(Beneath, 6) = {1}
        BY EachBeneath
      <4> QED
        BY <1>1, <1>4, <3>1, <4>1
    <3>4. l - 1 \in 1..l /\ HandleIs(stack, 4, l - 1)
      BY <1>1, <3>1, <3>3 DEF HandleIs
    <3> QED
      BY <2>3, <3>2, <3>4, Zenon
  <2>4. CASE q = 5
    <3>1. stack[l] = 8
      <4>1. At(yydefact, stack[l]) = 5
        BY <1>6, <2>4, Zenon
      <4> QED
        BY <1>2, <4>1, ReducingStates
    <3>2. n = l - 2
      <4>1. n = l - At(yyr2, 5)
        BY <1>6, <2>4, Zenon
      <4> QED
        BY <4>1, SizesOfRules
    <3>3. /\ l - 2 \in 1..l /\ stack[l - 1] = 5 /\ stack[l - 2] = 1
      <4>1. /\ At(Beneath, 5) = {1} /\ At(Beneath, 8) = {5}
        BY EachBeneath
      <4> QED
        BY <1>1, <1>4, <3>1, <4>1
    <3>4. l - 2 \in 1..l /\ HandleIs(stack, 5, l - 2)
      BY <1>1, <3>1, <3>3 DEF HandleIs
    <3> QED
      BY <2>4, <3>2, <3>4, Zenon
  <2>5. CASE q = 6
    <3>1. stack[l] = 22
      <4>1. At(yydefact, stack[l]) = 6
        BY <1>6, <2>5, Zenon
      <4> QED
        BY <1>2, <4>1, ReducingStates
    <3>2. n = l - 5
      <4>1. n = l - At(yyr2, 6)
        BY <1>6, <2>5, Zenon
      <4> QED
        BY <4>1, SizesOfRules
    <3>3. /\ l - 4 \in 1..l /\ stack[l - 1] = 15 /\ stack[l - 2] = 12 /\ stack[l - 3] = 7
          /\ stack[l - 4] = 3
      <4>1. /\ At(Beneath, 7) = {3} /\ At(Beneath, 12) = {7} /\ At(Beneath, 15) = {12}
            /\ At(Beneath, 22) = {15}
        BY EachBeneath
      <4> QED
        BY <1>1, <1>4, <3>1, <4>1
    <3>4. /\ l - 5 \in 1..l /\ stack[l - 5] = 1
      <4>1. /\ At(Beneath, 3) = {1}
        BY EachBeneath
      <4>2. PICK i \in 1..l : i = l - 4 /\ stack[i] = 3
        BY <1>1, <3>3
      <4>3. stack[i] = 3
        BY <4>2
      <4>4. /\ i - 1 \in 1..l /\ stack[i - 1] = 1
        BY <1>1, <1>4, <4>1, <4>3
      <4>5. /\ i - 1 = l - 5
        BY <1>1, <4>2
      <4> QED
        BY <4>4, <4>5, Zenon
    <3>5. l - 5 \in 1..l /\ HandleIs(stack, 6, l - 5)
      BY <1>1, <3>1, <3>3, <3>4 DEF HandleIs
    <3> QED
      BY <2>5, <3>2, <3>5, Zenon
  <2>6. CASE q = 7
    <3>1. stack[l] \in {1, 5}
      <4>1. At(yydefact, stack[l]) = 7
        BY <1>6, <2>6, Zenon
      <4> QED
        BY <1>2, <4>1, ReducingStates
    <3>2. n = l
      <4>1. n = l - At(yyr2, 7)
        BY <1>6, <2>6, Zenon
      <4> QED
        BY <4>1, SizesOfRules
    <3>3. l \in 1..l /\ HandleIs(stack, 7, l)
      BY <1>1, <3>1 DEF HandleIs
    <3> QED
      BY <2>6, <3>2, <3>3, Zenon
  <2>7. CASE q = 8
    <3>1. stack[l] = 10
      <4>1. At(yydefact, stack[l]) = 8
        BY <1>6, <2>7, Zenon
      <4> QED
        BY <1>2, <4>1, ReducingStates
    <3>2. n = l - 2
      <4>1. n = l - At(yyr2, 8)
        BY <1>6, <2>7, Zenon
      <4> QED
        BY <4>1, SizesOfRules
    <3>3. /\ l - 2 \in 1..l /\ stack[l - 1] \in {6, 8} /\ stack[l - 2] \in {1, 5}
      <4>1. /\ At(Beneath, 6) = {1} /\ At(Beneath, 8) = {5} /\ At(Beneath, 10) = {6, 8}
        BY EachBeneath
      <4> QED
        BY <1>1, <1>4, <3>1, <4>1
    <3>4. l - 2 \in 1..l /\ HandleIs(stack, 8, l - 2)
      BY <1>1, <3>1, <3>3 DEF HandleIs
    <3> QED
      BY <2>7, <3>2, <3>4, Zenon
  <2>8. CASE q = 9
    <3>1. stack[l] = 19
      <4>1. At(yydefact, stack[l]) = 9
        BY <1>6, <2>8, Zenon
      <4> QED
        BY <1>2, <4>1, ReducingStates
    <3>2. n = l - 3
      <4>1. n = l - At(yyr2, 9)
        BY <1>6, <2>8, Zenon
      <4> QED
        BY <4>1, SizesOfRules
    <3>3. /\ l - 3 \in 1..l /\ stack[l - 1] = 14 /\ stack[l - 2] = 11
          /\ stack[l - 3] \in {6, 8, 31}
      <4>1. /\ At(Beneath, 11) = {6, 8, 31} /\ At(Beneath, 14) = {11}
            /\ At(Beneath, 19) = {14}
        BY EachBeneath
      <4> QED
        BY <1>1, <1>4, <3>1, <4>1
    <3>4. l - 3 \in 1..l /\ HandleIs(stack, 9, l - 3)
      BY <1>1, <3>1, <3>3 DEF HandleIs
    <3> QED
      BY <2>8, <3>2, <3>4, Zenon
  <2>9. CASE q = 10
    <3>1. stack[l] = 23
      <4>1. At(yydefact, stack[l]) = 10
        BY <1>6, <2>9, Zenon
      <4> QED
        BY <1>2, <4>1, ReducingStates
    <3>2. n = l - 4
      <4>1. n = l - At(yyr2, 10)
        BY <1>6, <2>9, Zenon
      <4> QED
        BY <4>1, SizesOfRules
    <3>3. /\ l - 4 \in 1..l /\ stack[l - 1] = 16 /\ stack[l - 2] = 13 /\ stack[l - 3] = 9
          /\ stack[l - 4] \in {6, 8, 31}
      <4>1. /\ At(Beneath, 9) = {6, 8, 31} /\ At(Beneath, 13) = {9} /\ At(Beneath, 16) = {13}
            /\ At(Beneath, 23) = {16}
        BY EachBeneath
      <4> QED
        BY <1>1, <1>4, <3>1, <4>1
    <3>4. l - 4 \in 1..l /\ HandleIs(stack, 10, l - 4)
      BY <1>1, <3>1, <3>3 DEF HandleIs
    <3> QED
      BY <2>9, <3>2, <3>4, Zenon
  <2>10. CASE q = 11
    <3>1. stack[l] = 18
      <4>1. At(yydefact, stack[l]) = 11
        BY <1>6, <2>10, Zenon
      <4> QED
        BY <1>2, <4>1, ReducingStates
    <3>2. n = l - 1
      <4>1. n = l - At(yyr2, 11)
        BY <1>6, <2>10, Zenon
      <4> QED
        BY <4>1, SizesOfRules
    <3>3. /\ l - 1 \in 1..l /\ stack[l - 1] = 14
      <4>1. /\ At(Beneath, 18) = {14}
        BY EachBeneath
      <4> QED
        BY <1>1, <1>4, <3>1, <4>1
    <3>4. l - 1 \in 1..l /\ HandleIs(stack, 11, l - 1)
      BY <1>1, <3>1, <3>3 DEF HandleIs
    <3> QED
      BY <2>10, <3>2, <3>4, Zenon
  <2>11. CASE q = 12
    <3>1. stack[l] \in {11, 26}
      <4>1. At(yydefact, stack[l]) = 12
        BY <1>6, <2>11, Zenon
      <4> QED
        BY <1>2, <4>1, ReducingStates
    <3>2. n = l
      <4>1. n = l - At(yyr2, 12)
        BY <1>6, <2>11, Zenon
      <4> QED
        BY <4>1, SizesOfRules
    <3>3. l \in 1..l /\ HandleIs(stack, 12, l)
      BY <1>1, <3>1 DEF HandleIs
    <3> QED
      BY <2>11, <3>2, <3>3, Zenon
  <2>12. CASE q = 13
    <3>1. stack[l] = 20
      <4>1. At(yydefact, stack[l]) = 13
        BY <1>6, <2>12, Zenon
      <4> QED
        BY <1>2, <4>1, ReducingStates
    <3>2. n = l - 2
      <4>1. n = l - At(yyr2, 13)
        BY <1>6, <2>12, Zenon
      <4> QED
        BY <4>1, SizesOfRules
    <3>3. /\ l - 2 \in 1..l /\ stack[l - 1] \in {14, 31} /\ stack[l - 2] \in {11, 26}
      <4>1. /\ At(Beneath, 14) = {11} /\ At(Beneath, 20) = {14, 31} /\ At(Beneath, 31) = {26}
        BY EachBeneath
      <4> QED
        BY <1>1, <1>4, <3>1, <4>1
    <3>4. l - 2 \in 1..l /\ HandleIs(stack, 13, l - 2)
      BY <1>1, <3>1, <3>3 DEF HandleIs
    <3> QED
      BY <2>12, <3>2, <3>4, Zenon
  <2>13. CASE q = 14
    <3>1. stack[l] = 29
      <4>1. At(yydefact, stack[l]) = 14
        BY <1>6, <2>13, Zenon
      <4> QED
        BY <1>2, <4>1, ReducingStates
    <3>2. n = l - 3
      <4>1. n = l - At(yyr2, 14)
        BY <1>6, <2>13, Zenon
      <4> QED
        BY <4>1, SizesOfRules
    <3>3. /\ l - 3 \in 1..l /\ stack[l - 1] = 25 /\ stack[l - 2] = 21
          /\ stack[l - 3] \in {14, 31}
      <4>1. /\ At(Beneath, 21) = {14, 31} /\ At(Beneath, 25) = {21} /\ At(Beneath, 29) = {25}
        BY EachBeneath
      <4> QED
        BY <1>1, <1>4, <3>1, <4>1
    <3>4. l - 3 \in 1..l /\ HandleIs(stack, 14, l - 3)
      BY <1>1, <3>1, <3>3 DEF HandleIs
    <3> QED
      BY <2>13, <3>2, <3>4, Zenon
  <2>14. CASE q = 15
    <3>1. stack[l] = 31
      <4>1. At(yydefact, stack[l]) = 15
        BY <1>6, <2>14, Zenon
      <4> QED
        BY <1>2, <4>1, ReducingStates
    <3>2. n = l - 2
      <4>1. n = l - At(yyr2, 15)
        BY <1>6, <2>14, Zenon
      <4> QED
        BY <4>1, SizesOfRules
    <3>3. /\ l - 2 \in 1..l /\ stack[l - 1] = 26 /\ stack[l - 2] = 21
      <4>1. /\ At(Beneath, 26) = {21} /\ At(Beneath, 31) = {26}
        BY EachBeneath
      <4> QED
        BY <1>1, <1>4, <3>1, <4>1
    <3>4. l - 2 \in 1..l /\ HandleIs(stack, 15, l - 2)
      BY <1>1, <3>1, <3>3 DEF HandleIs
    <3> QED
      BY <2>14, <3>2, <3>4, Zenon
  <2>15. CASE q = 16
    <3>1. stack[l] = 36
      <4>1. At(yydefact, stack[l]) = 16
        BY <1>6, <2>15, Zenon
      <4> QED
        BY <1>2, <4>1, ReducingStates
    <3>2. n = l - 3
      <4>1. n = l - At(yyr2, 16)
        BY <1>6, <2>15, Zenon
      <4> QED
        BY <4>1, SizesOfRules
    <3>3. /\ l - 3 \in 1..l /\ stack[l - 1] = 31 /\ stack[l - 2] = 26 /\ stack[l - 3] = 21
      <4>1. /\ At(Beneath, 26) = {21} /\ At(Beneath, 31) = {26} /\ At(Beneath, 36) = {31}
        BY EachBeneath
      <4> QED
        BY <1>1, <1>4, <3>1, <4>1
    <3>4. l - 3 \in 1..l /\ HandleIs(stack, 16, l - 3)
      BY <1>1, <3>1, <3>3 DEF HandleIs
    <3> QED
      BY <2>15, <3>2, <3>4, Zenon
  <2>16. CASE q = 17
    <3>1. stack[l] = 63
      <4>1. At(yydefact, stack[l]) = 17
        BY <1>6, <2>16, Zenon
      <4> QED
        BY <1>2, <4>1, ReducingStates
    <3>2. n = l - 13
      <4>1. n = l - At(yyr2, 17)
        BY <1>6, <2>16, Zenon
      <4> QED
        BY <4>1, SizesOfRules
    <3>3. /\ l - 4 \in 1..l /\ stack[l - 1] = 61 /\ stack[l - 2] = 59 /\ stack[l - 3] = 57
          /\ stack[l - 4] = 53
      <4>1. /\ At(Beneath, 57) = {53} /\ At(Beneath, 59) = {57} /\ At(Beneath, 61) = {59}
            /\ At(Beneath, 63) = {61}
        BY EachBeneath
      <4> QED
        BY <1>1, <1>4, <3>1, <4>1
    <3>4. /\ l - 8 \in 1..l /\ stack[l - 5] = 48 /\ stack[l - 6] = 43 /\ stack[l - 7] = 40
          /\ stack[l - 8] = 37
      <4>1. /\ At(Beneath, 40) = {37} /\ At(Beneath, 43) = {40} /\ At(Beneath, 48) = {43}
            /\ At(Beneath, 53) = {48}
        BY EachBeneath
      <4>2. PICK i \in 1..l : i = l - 4 /\ stack[i] = 53
        BY <1>1, <3>3
      <4>3. stack[i] = 53
        BY <4>2
      <4>4. /\ i - 4 \in 1..l /\ stack[i - 1] = 48 /\ stack[i - 2] = 43
            /\ stack[i - 3] = 40 /\ stack[i - 4] = 37
        BY <1>1, <1>4, <4>1, <4>3
      <4>5. /\ i - 1 = l - 5 /\ i - 2 = l - 6 /\ i - 3 = l - 7 /\ i - 4 = l - 8
        BY <1>1, <4>2
      <4> QED
        BY <4>4, <4>5, Zenon
    <3>5. /\ l - 12 \in 1..l /\ stack[l - 9] = 33 /\ stack[l - 10] = 27 /\ stack[l - 11] = 24
          /\ stack[l - 12] = 17
      <4>1. /\ At(Beneath, 24) = {17} /\ At(Beneath, 27) = {24} /\ At(Beneath, 33) = {27}
            /\ At(Beneath, 37) = {33}
        BY EachBeneath
      <4>2. PICK i \in 1..l : i = l - 8 /\ stack[i] = 37
        BY <1>1, <3>4
      <4>3. stack[i] = 37
        BY <4>2
      <4>4. /\ i - 4 \in 1..l /\ stack[i - 1] = 33 /\ stack[i - 2] = 27
            /\ stack[i - 3] = 24 /\ stack[i - 4] = 17
        BY <1>1, <1>4, <4>1, <4>3
      <4>5. /\ i - 1 = l - 9 /\ i - 2 = l - 10 /\ i - 3 = l - 11 /\ i - 4 = l - 12
        BY <1>1, <4>2
      <4> QED
        BY <4>4, <4>5, Zenon
    <3>6. /\ l - 13 \in 1..l /\ stack[l - 13] \in {14, 31}
      <4>1. /\ At(Beneath, 17) = {14, 31}
        BY EachBeneath
      <4>2. PICK i \in 1..l : i = l - 12 /\ stack[i] = 17
        BY <1>1, <3>5
      <4>3. stack[i] = 17
        BY <4>2
      <4>4. /\ i - 1 \in 1..l /\ stack[i - 1] \in {14, 31}
        BY <1>1, <1>4, <4>1, <4>3
      <4>5. /\ i - 1 = l - 13
        BY <1>1, <4>2
      <4> QED
        BY <4>4, <4>5, Zenon
    <3>7. l - 13 \in 1..l /\ HandleIs(stack, 17, l - 13)
      BY <1>1, <3>1, <3>3, <3>4, <3>5, <3>6 DEF HandleIs
    <3> QED
      BY <2>16, <3>2, <3>7, Zenon
  <2>17. CASE q = 18
    <3>1. stack[l] = 28
      <4>1. At(yydefact, stack[l]) = 18
        BY <1>6, <2>17, Zenon
      <4> QED
        BY <1>2, <4>1, ReducingStates
    <3>2. n = l - 1
      <4>1. n = l - At(yyr2, 18)
        BY <1>6, <2>17, Zenon
      <4> QED
        BY <4>1, SizesOfRules
    <3>3. /\ l - 1 \in 1..l /\ stack[l - 1] = 25
      <4>1. /\ At(Beneath, 28) = {25}
        BY EachBeneath
      <4> QED
        BY <1>1, <1>4, <3>1, <4>1
    <3>4. l - 1 \in 1..l /\ HandleIs(stack, 18, l - 1)
      BY <1>1, <3>1, <3>3 DEF HandleIs
    <3> QED
      BY <2>17, <3>2, <3>4, Zenon
  <2>18. CASE q = 19
    <3>1. stack[l] = 21
      <4>1. At(yydefact, stack[l]) = 19
        BY <1>6, <2>18, Zenon
      <4> QED
        BY <1>2, <4>1, ReducingStates
    <3>2. n = l
      <4>1. n = l - At(yyr2, 19)
        BY <1>6, <2>18, Zenon
      <4> QED
        BY <4>1, SizesOfRules
    <3>3. l \in 1..l /\ HandleIs(stack, 19, l)
      BY <1>1, <3>1 DEF HandleIs
    <3> QED
      BY <2>18, <3>2, <3>3, Zenon
  <2>19. CASE q = 20
    <3>1. stack[l] = 32
      <4>1. At(yydefact, stack[l]) = 20
        BY <1>6, <2>19, Zenon
      <4> QED
        BY <1>2, <4>1, ReducingStates
    <3>2. n = l - 2
      <4>1. n = l - At(yyr2, 20)
        BY <1>6, <2>19, Zenon
      <4> QED
        BY <4>1, SizesOfRules
    <3>3. /\ l - 2 \in 1..l /\ stack[l - 1] = 26 /\ stack[l - 2] = 21
      <4>1. /\ At(Beneath, 26) = {21} /\ At(Beneath, 32) = {26}
        BY EachBeneath
      <4> QED
        BY <1>1, <1>4, <3>1, <4>1
    <3>4. l - 2 \in 1..l /\ HandleIs(stack, 20, l - 2)
      BY <1>1, <3>1, <3>3 DEF HandleIs
    <3> QED
      BY <2>19, <3>2, <3>4, Zenon
  <2>20. CASE q = 21
    <3>1. stack[l] = 66
      <4>1. At(yydefact, stack[l]) = 21
        BY <1>6, <2>20, Zenon
      <4> QED
        BY <1>2, <4>1, ReducingStates
    <3>2. n = l - 13
      <4>1. n = l - At(yyr2, 21)
        BY <1>6, <2>20, Zenon
      <4> QED
        BY <4>1, SizesOfRules
    <3>3. /\ l - 4 \in 1..l /\ stack[l - 1] = 65 /\ stack[l - 2] = 64 /\ stack[l - 3] = 62
          /\ stack[l - 4] = 60
      <4>1. /\ At(Beneath, 62) = {60} /\ At(Beneath, 64) = {62} /\ At(Beneath, 65) = {64}
            /\ At(Beneath, 66) = {65}
        BY EachBeneath
      <4> QED
        BY <1>1, <1>4, <3>1, <4>1
    <3>4. /\ l - 8 \in 1..l /\ stack[l - 5] = 58 /\ stack[l - 6] = 55 /\ stack[l - 7] = 50
          /\ stack[l - 8] = 45
      <4>1. /\ At(Beneath, 50) = {45} /\ At(Beneath, 55) = {50} /\ At(Beneath, 58) = {55}
            /\ At(Beneath, 60) = {58}
        BY EachBeneath
      <4>2. PICK i \in 1..l : i = l - 4 /\ stack[i] = 60
        BY <1>1, <3>3
      <4>3. stack[i] = 60
        BY <4>2
      <4>4. /\ i - 4 \in 1..l /\ stack[i - 1] = 58 /\ stack[i - 2] = 55
            /\ stack[i - 3] = 50 /\ stack[i - 4] = 45
        BY <1>1, <1>4, <4>1, <4>3
      <4>5. /\ i - 1 = l - 5 /\ i - 2 = l - 6 /\ i - 3 = l - 7 /\ i - 4 = l - 8
        BY <1>1, <4>2
      <4> QED
        BY <4>4, <4>5, Zenon
    <3>5. /\ l - 12 \in 1..l /\ stack[l - 9] = 41 /\ stack[l - 10] = 38 /\ stack[l - 11] = 34
          /\ stack[l - 12] = 30
      <4>1. /\ At(Beneath, 34) = {30} /\ At(Beneath, 38) = {34} /\ At(Beneath, 41) = {38}
            /\ At(Beneath, 45) = {41}
        BY EachBeneath
      <4>2. PICK i \in 1..l : i = l - 8 /\ stack[i] = 45
        BY <1>1, <3>4
      <4>3. stack[i] = 45
        BY <4>2
      <4>4. /\ i - 4 \in 1..l /\ stack[i - 1] = 41 /\ stack[i - 2] = 38
            /\ stack[i - 3] = 34 /\ stack[i - 4] = 30
        BY <1>1, <1>4, <4>1, <4>3
      <4>5. /\ i - 1 = l - 9 /\ i - 2 = l - 10 /\ i - 3 = l - 11 /\ i - 4 = l - 12
        BY <1>1, <4>2
      <4> QED
        BY <4>4, <4>5, Zenon
    <3>6. /\ l - 13 \in 1..l /\ stack[l - 13] = 26
      <4>1. /\ At(Beneath, 30) = {26}
        BY EachBeneath
      <4>2. PICK i \in 1..l : i = l - 12 /\ stack[i] = 30
        BY <1>1, <3>5
      <4>3. stack[i] = 30
        BY <4>2
      <4>4. /\ i - 1 \in 1..l /\ stack[i - 1] = 26
        BY <1>1, <1>4, <4>1, <4>3
      <4>5. /\ i - 1 = l - 13
        BY <1>1, <4>2
      <4> QED
        BY <4>4, <4>5, Zenon
    <3>7. l - 13 \in 1..l /\ HandleIs(stack, 21, l - 13)
      BY <1>1, <3>1, <3>3, <3>4, <3>5, <3>6 DEF HandleIs
    <3> QED
      BY <2>20, <3>2, <3>7, Zenon
  <2>21. CASE q = 22
    <3>1. stack[l] = 52
      <4>1. At(yydefact, stack[l]) = 22
        BY <1>6, <2>21, Zenon
      <4> QED
        BY <1>2, <4>1, ReducingStates
    <3>2. n = l - 6
      <4>1. n = l - At(yyr2, 22)
        BY <1>6, <2>21, Zenon
      <4> QED
        BY <4>1, SizesOfRules
    <3>3. /\ l - 4 \in 1..l /\ stack[l - 1] = 47 /\ stack[l - 2] = 42 /\ stack[l - 3] = 39
          /\ stack[l - 4] = 35
      <4>1. /\ At(Beneath, 39) = {35} /\ At(Beneath, 42) = {39} /\ At(Beneath, 47) = {42}
            /\ At(Beneath, 52) = {47}
        BY EachBeneath
      <4> QED
        BY <1>1, <1>4, <3>1, <4>1
    <3>4. /\ l - 6 \in 1..l /\ stack[l - 5] = 30 /\ stack[l - 6] = 26
      <4>1. /\ At(Beneath, 30) = {26} /\ At(Beneath, 35) = {30}
        BY EachBeneath
      <4>2. PICK i \in 1..l : i = l - 4 /\ stack[i] = 35
        BY <1>1, <3>3
      <4>3. stack[i] = 35
        BY <4>2
      <4>4. /\ i - 2 \in 1..l /\ stack[i - 1] = 30 /\ stack[i - 2] = 26
        BY <1>1, <1>4, <4>1, <4>3
      <4>5. /\ i - 1 = l - 5 /\ i - 2 = l - 6
        BY <1>1, <4>2
      <4> QED
        BY <4>4, <4>5, Zenon
    <3>5. l - 6 \in 1..l /\ HandleIs(stack, 22, l - 6)
      BY <1>1, <3>1, <3>3, <3>4 DEF HandleIs
    <3> QED
      BY <2>21, <3>2, <3>5, Zenon
  <2>22. CASE q = 23
    <3>1. stack[l] = 54
      <4>1. At(yydefact, stack[l]) = 23
        BY <1>6, <2>22, Zenon
      <4> QED
        BY <1>2, <4>1, ReducingStates
    <3>2. n = l - 3
      <4>1. n = l - At(yyr2, 23)
        BY <1>6, <2>22, Zenon
      <4> QED
        BY <4>1, SizesOfRules
    <3>3. /\ l - 3 \in 1..l /\ stack[l - 1] = 49 /\ stack[l - 2] = 44 /\ stack[l - 3] = 41
      <4>1. /\ At(Beneath, 44) = {41} /\ At(Beneath, 49) = {44} /\ At(Beneath, 54) = {49}
        BY EachBeneath
      <4> QED
        BY <1>1, <1>4, <3>1, <4>1
    <3>4. l - 3 \in 1..l /\ HandleIs(stack, 23, l - 3)
      BY <1>1, <3>1, <3>3 DEF HandleIs
    <3> QED
      BY <2>22, <3>2, <3>4, Zenon
  <2>23. CASE q = 24
    <3>1. stack[l] = 41
      <4>1. At(yydefact, stack[l]) = 24
        BY <1>6, <2>23, Zenon
      <4> QED
        BY <1>2, <4>1, ReducingStates
    <3>2. n = l
      <4>1. n = l - At(yyr2, 24)
        BY <1>6, <2>23, Zenon
      <4> QED
        BY <4>1, SizesOfRules
    <3>3. l \in 1..l /\ HandleIs(stack, 24, l)
      BY <1>1, <3>1 DEF HandleIs
    <3> QED
      BY <2>23, <3>2, <3>3, Zenon
  <2>24. CASE q = 25
    <3>1. stack[l] = 56
      <4>1. At(yydefact, stack[l]) = 25
        BY <1>6, <2>24, Zenon
      <4> QED
        BY <1>2, <4>1, ReducingStates
    <3>2. n = l - 3
      <4>1. n = l - At(yyr2, 25)
        BY <1>6, <2>24, Zenon
      <4> QED
        BY <4>1, SizesOfRules
    <3>3. /\ l - 3 \in 1..l /\ stack[l - 1] = 51 /\ stack[l - 2] = 46
          /\ stack[l - 3] \in {42, 64}
      <4>1. /\ At(Beneath, 46) = {42, 64} /\ At(Beneath, 51) = {46} /\ At(Beneath, 56) = {51}
        BY EachBeneath
      <4> QED
        BY <1>1, <1>4, <3>1, <4>1
    <3>4. l - 3 \in 1..l /\ HandleIs(stack, 25, l - 3)
      BY <1>1, <3>1, <3>3 DEF HandleIs
    <3> QED
      BY <2>24, <3>2, <3>4, Zenon
  <2>25. CASE q = 26
    <3>1. stack[l] \in {42, 64}
      <4>1. At(yydefact, stack[l]) = 26
        BY <1>6, <2>25, Zenon
      <4> QED
        BY <1>2, <4>1, ReducingStates
    <3>2. n = l
      <4>1. n = l - At(yyr2, 26)
        BY <1>6, <2>25, Zenon
      <4> QED
        BY <4>1, SizesOfRules
    <3>3. l \in 1..l /\ HandleIs(stack, 26, l)
      BY <1>1, <3>1 DEF HandleIs
    <3> QED
      BY <2>25, <3>2, <3>3, Zenon
  <2> QED
    BY <2>1, <2>2, <2>3, <2>4, <2>5, <2>6, <2>7, <2>8, <2>9, <2>10, <2>11, <2>12, <2>13,
       <2>14, <2>15, <2>16, <2>17, <2>18, <2>19, <2>20, <2>21, <2>22, <2>23, <2>24, <2>25
<1> QED
  <2>1. m \in 1..l /\ HandleIs(stack, r, m)
    BY <1>3, <1>5, <1>6, Zenon
  <2> QED
    BY <1>1, <1>5, <2>1, Zenon

-----------------------------------------------------------------------------
(* Counting states.                                                        *)

LEMMA MarkedFinite ==
    ASSUME NEW stack, NEW m \in Nat, NEW l \in Nat, NEW S
    PROVE  /\ IsFiniteSet(Marked(stack, m, l, S))
           /\ Cardinality(Marked(stack, m, l, S)) \in Nat
<1>1. IsFiniteSet((m + 1)..l)
  BY FS_Interval
<1>2. Marked(stack, m, l, S) \subseteq (m + 1)..l
  BY DEF Marked
<1> QED
  BY <1>1, <1>2, FS_Subset, FS_CardinalityType

LEMMA MarkedSplit ==
    ASSUME NEW stack, NEW m \in Nat, NEW l \in Nat, m <= l, NEW S
    PROVE  Cardinality(Marked(stack, 0, l, S))
               = Cardinality(Marked(stack, 0, m, S)) + Cardinality(Marked(stack, m, l, S))
<1> DEFINE A == Marked(stack, 0, m, S)
           B == Marked(stack, m, l, S)
<1>1. Marked(stack, 0, l, S) = A \cup B /\ A \cap B = {}
  BY DEF Marked
<1>2. IsFiniteSet(A) /\ IsFiniteSet(B) /\ Cardinality(A) \in Nat /\ Cardinality(B) \in Nat
  BY MarkedFinite
<1> HIDE DEF A, B
<1>3. Cardinality(A \cup B) = Cardinality(A) + Cardinality(B) - Cardinality(A \cap B)
  BY <1>2, FS_Union
<1>4. Cardinality(A \cap B) = 0
  BY <1>1, FS_EmptySet
<1>5. Cardinality(A \cup B) = Cardinality(A) + Cardinality(B)
  BY <1>2, <1>3, <1>4
<1> QED
  BY <1>1, <1>5 DEF A, B

\* Only the marked places count, and those of a common beginning are the same.
LEMMA MarkedSame ==
    ASSUME NEW a, NEW b, NEW l \in Nat, \A j \in 1..l : a[j] = b[j], NEW S
    PROVE  Marked(a, 0, l, S) = Marked(b, 0, l, S)
BY DEF Marked

LEMMA MarkedOne ==
    ASSUME NEW stack, NEW l \in Nat, NEW S
    PROVE  Cardinality(Marked(stack, l, l + 1, S)) = One(stack[l + 1] \in S)
<1>1. CASE stack[l + 1] \in S
  <2>1. Marked(stack, l, l + 1, S) = {l + 1}
    BY <1>1 DEF Marked
  <2> QED
    BY <1>1, <2>1, FS_Singleton DEF One
<1>2. CASE stack[l + 1] \notin S
  <2>1. Marked(stack, l, l + 1, S) = {}
    BY <1>2 DEF Marked
  <2> QED
    BY <1>2, <2>1, FS_EmptySet DEF One
<1> QED
  BY <1>1, <1>2

LEMMA MarkedNone ==
    ASSUME NEW stack, NEW m, NEW l, NEW S, \A j \in (m + 1)..l : stack[j] \notin S
    PROVE  Cardinality(Marked(stack, m, l, S)) = 0
<1>1. Marked(stack, m, l, S) = {}
  BY DEF Marked
<1> QED
  BY <1>1, FS_EmptySet

\* The next place adds one or nothing.
LEMMA MarkedNext ==
    ASSUME NEW stack, NEW l \in Nat, NEW S
    PROVE  Cardinality(Marked(stack, 0, l + 1, S))
               = Cardinality(Marked(stack, 0, l, S)) + One(stack[l + 1] \in S)
<1>1. Cardinality(Marked(stack, 0, l + 1, S))
          = Cardinality(Marked(stack, 0, l, S)) + Cardinality(Marked(stack, l, l + 1, S))
  BY MarkedSplit
<1> QED
  BY <1>1, MarkedOne

-----------------------------------------------------------------------------
(* Pushing and popping.                                                    *)

LEMMA Pushed ==
    ASSUME NEW stack, Path(stack), NEW t \in 1..66, Last(stack) \in At(Beneath, t)
    PROVE  /\ Path(Append(stack, t))
           /\ Len(Append(stack, t)) = Len(stack) + 1
           /\ Last(Append(stack, t)) = t
           /\ Append(stack, t)[Len(stack) + 1] = t
           /\ \A j \in 1..Len(stack) : Append(stack, t)[j] = stack[j]
<1>1. PICK l \in Nat : l = Len(stack) /\ l >= 1 /\ \A i \in 1..l : stack[i] \in 0..66
  BY PathOfStates
<1>2. stack \in Seq(States) /\ t \in States
  BY DEF Path, States
<1>3. /\ Append(stack, t) \in Seq(States) /\ Len(Append(stack, t)) = l + 1
      /\ Append(stack, t)[l + 1] = t
      /\ \A j \in 1..l : Append(stack, t)[j] = stack[j]
  BY <1>1, <1>2, AppendProperties
<1>4. Append(stack, t)[1] = 0
  BY <1>1, <1>3 DEF Path
<1>5. ASSUME NEW i \in 2..(l + 1)
      PROVE  Append(stack, t)[i - 1] \in At(Beneath, Append(stack, t)[i])
  <2>1. CASE i = l + 1
    BY <1>1, <1>3, <2>1 DEF Last
  <2>2. CASE i # l + 1
    <3>1. i \in 2..l /\ i - 1 \in 1..l
      BY <1>1, <2>2
    <3>2. stack[i - 1] \in At(Beneath, stack[i])
      BY <1>1, <3>1 DEF Path
    <3> QED
      BY <1>3, <3>1, <3>2
  <2> QED
    BY <2>1, <2>2
<1> QED
  BY <1>1, <1>3, <1>4, <1>5 DEF Path, Last

LEMMA PoppedTo ==
    ASSUME NEW stack, Path(stack), NEW m \in 1..Len(stack)
    PROVE  /\ Path(SubSeq(stack, 1, m))
           /\ Len(SubSeq(stack, 1, m)) = m
           /\ Last(SubSeq(stack, 1, m)) = stack[m]
           /\ \A j \in 1..m : SubSeq(stack, 1, m)[j] = stack[j]
<1>1. PICK l \in Nat : l = Len(stack) /\ l >= 1 /\ \A i \in 1..l : stack[i] \in 0..66
  BY PathOfStates
<1>2. \A i \in 1..l : stack[i] \in States
  BY <1>1 DEF States
<1>3. /\ SubSeq(stack, 1, m) \in Seq(States) /\ Len(SubSeq(stack, 1, m)) = m
      /\ \A j \in 1..m : SubSeq(stack, 1, m)[j] = stack[j]
  BY <1>1, <1>2
<1>4. m \in Nat /\ m >= 1
  BY <1>1
<1>5. SubSeq(stack, 1, m)[1] = 0
  BY <1>3, <1>4 DEF Path
<1>6. ASSUME NEW i \in 2..m
      PROVE  SubSeq(stack, 1, m)[i - 1] \in At(Beneath, SubSeq(stack, 1, m)[i])
  <2>1. i \in 2..l /\ i \in 1..m /\ i - 1 \in 1..m
    BY <1>1, <1>4
  <2>2. stack[i - 1] \in At(Beneath, stack[i])
    BY <1>1, <2>1 DEF Path
  <2> QED
    BY <1>3, <2>1, <2>2
<1> QED
  BY <1>3, <1>4, <1>5, <1>6 DEF Path, Last

-----------------------------------------------------------------------------
(* Where a reduction goes.                                                 *)

LEMMA LeftSides ==
    /\ At(yyr1, 2) = 38 /\ At(yyr1, 3) = 38 /\ At(yyr1, 4) = 39 /\ At(yyr1, 5) = 39
    /\ At(yyr1, 6) = 40 /\ At(yyr1, 7) = 41 /\ At(yyr1, 8) = 41 /\ At(yyr1, 9) = 42
    /\ At(yyr1, 10) = 43 /\ At(yyr1, 11) = 44 /\ At(yyr1, 12) = 45 /\ At(yyr1, 13) = 45
    /\ At(yyr1, 14) = 46 /\ At(yyr1, 15) = 47 /\ At(yyr1, 16) = 47 /\ At(yyr1, 17) = 48
    /\ At(yyr1, 18) = 49 /\ At(yyr1, 19) = 50 /\ At(yyr1, 20) = 50 /\ At(yyr1, 21) = 51
    /\ At(yyr1, 22) = 51 /\ At(yyr1, 23) = 52 /\ At(yyr1, 24) = 52 /\ At(yyr1, 25) = 53
    /\ At(yyr1, 26) = 53
BY DEF At, yyr1

LEMMA Gotos ==
    /\ Goto(0, 38) = 1 /\ Goto(1, 39) = 4 /\ Goto(1, 40) = 5 /\ Goto(1, 41) = 6
    /\ Goto(5, 41) = 8 /\ Goto(6, 42) = 10 /\ Goto(8, 42) = 10 /\ Goto(31, 42) = 36
    /\ Goto(6, 43) = 11 /\ Goto(8, 43) = 11 /\ Goto(31, 43) = 11 /\ Goto(14, 44) = 19
    /\ Goto(11, 45) = 14 /\ Goto(26, 45) = 31 /\ Goto(14, 46) = 20 /\ Goto(31, 46) = 20
    /\ Goto(21, 47) = 25 /\ Goto(14, 48) = 21 /\ Goto(31, 48) = 21 /\ Goto(25, 49) = 29
    /\ Goto(21, 50) = 26 /\ Goto(26, 51) = 32 /\ Goto(41, 52) = 45 /\ Goto(42, 53) = 47
    /\ Goto(64, 53) = 65
BY DEF Goto, At, yypgoto, yycheck, yytable, yydefgoto, YYNTOKENS, YYLAST

\* The state after a reduction by rule r to a state.
GoesTo(r, state, target) ==
    /\ r = 2 => target = 1
    /\ r = 3 => target = 1
    /\ r = 4 => target = 4
    /\ r = 5 => target = 4
    /\ r = 6 => target = 5
    /\ r = 7 => (state = 1 => target = 6) /\ (state = 5 => target = 8)
    /\ r = 8 => (state = 1 => target = 6) /\ (state = 5 => target = 8)
    /\ r = 9 => (state \in {6, 8} => target = 10) /\ (state = 31 => target = 36)
    /\ r = 10 => target = 11
    /\ r = 11 => target = 19
    /\ r = 12 => (state = 11 => target = 14) /\ (state = 26 => target = 31)
    /\ r = 13 => (state = 11 => target = 14) /\ (state = 26 => target = 31)
    /\ r = 14 => target = 20
    /\ r = 15 => target = 25
    /\ r = 16 => target = 25
    /\ r = 17 => target = 21
    /\ r = 18 => target = 29
    /\ r = 19 => target = 26
    /\ r = 20 => target = 26
    /\ r = 21 => target = 32
    /\ r = 22 => target = 32
    /\ r = 23 => target = 45
    /\ r = 24 => target = 45
    /\ r = 25 => (state = 42 => target = 47) /\ (state = 64 => target = 65)
    /\ r = 26 => (state = 42 => target = 47) /\ (state = 64 => target = 65)

LEMMA GotoTarget ==
    ASSUME NEW stack, Path(stack), NEW r, NEW m, Handle(stack, r, m)
    PROVE  /\ Goto(stack[m], At(yyr1, r)) \in 1..66
           /\ Goto(stack[m], At(yyr1, r)) # YYFINAL
           /\ stack[m] \in At(Beneath, Goto(stack[m], At(yyr1, r)))
           /\ GoesTo(r, stack[m], Goto(stack[m], At(yyr1, r)))
<1>1. r \in 2..26 /\ m \in 1..Len(stack) /\ HandleIs(stack, r, m)
  BY Handles
<1>2. ASSUME NEW q \in 2..26, NEW s, HandleIs(stack, q, m), s = stack[m]
      PROVE  /\ Goto(s, At(yyr1, q)) \in 1..66 /\ Goto(s, At(yyr1, q)) # 2
             /\ s \in At(Beneath, Goto(s, At(yyr1, q)))
             /\ GoesTo(q, s, Goto(s, At(yyr1, q)))
  <2>1. CASE q = 2
    <3>1. s = 0
      BY <1>2, <2>1 DEF HandleIs
    <3>2. At(yyr1, q) = 38
      BY <2>1, LeftSides, Zenon
    <3>3. /\ Goto(0, 38) = 1 /\ At(Beneath, 1) = {0}
      BY Gotos, EachBeneath
    <3> QED
      BY <3>1, <3>2, <3>3, <2>1 DEF GoesTo
  <2>2. CASE q = 3
    <3>1. s = 0
      BY <1>2, <2>2 DEF HandleIs
    <3>2. At(yyr1, q) = 38
      BY <2>2, LeftSides, Zenon
    <3>3. /\ Goto(0, 38) = 1 /\ At(Beneath, 1) = {0}
      BY Gotos, EachBeneath
    <3> QED
      BY <3>1, <3>2, <3>3, <2>2 DEF GoesTo
  <2>3. CASE q = 4
    <3>1. s = 1
      BY <1>2, <2>3 DEF HandleIs
    <3>2. At(yyr1, q) = 39
      BY <2>3, LeftSides, Zenon
    <3>3. /\ Goto(1, 39) = 4 /\ At(Beneath, 4) = {1}
      BY Gotos, EachBeneath
    <3> QED
      BY <3>1, <3>2, <3>3, <2>3 DEF GoesTo
  <2>4. CASE q = 5
    <3>1. s = 1
      BY <1>2, <2>4 DEF HandleIs
    <3>2. At(yyr1, q) = 39
      BY <2>4, LeftSides, Zenon
    <3>3. /\ Goto(1, 39) = 4 /\ At(Beneath, 4) = {1}
      BY Gotos, EachBeneath
    <3> QED
      BY <3>1, <3>2, <3>3, <2>4 DEF GoesTo
  <2>5. CASE q = 6
    <3>1. s = 1
      BY <1>2, <2>5 DEF HandleIs
    <3>2. At(yyr1, q) = 40
      BY <2>5, LeftSides, Zenon
    <3>3. /\ Goto(1, 40) = 5 /\ At(Beneath, 5) = {1}
      BY Gotos, EachBeneath
    <3> QED
      BY <3>1, <3>2, <3>3, <2>5 DEF GoesTo
  <2>6. CASE q = 7
    <3>1. s \in {1, 5}
      BY <1>2, <2>6 DEF HandleIs
    <3>2. At(yyr1, q) = 41
      BY <2>6, LeftSides, Zenon
    <3>3. /\ Goto(1, 41) = 6 /\ Goto(5, 41) = 8 /\ At(Beneath, 6) = {1}
          /\ At(Beneath, 8) = {5}
      BY Gotos, EachBeneath
    <3> QED
      BY <3>1, <3>2, <3>3, <2>6 DEF GoesTo
  <2>7. CASE q = 8
    <3>1. s \in {1, 5}
      BY <1>2, <2>7 DEF HandleIs
    <3>2. At(yyr1, q) = 41
      BY <2>7, LeftSides, Zenon
    <3>3. /\ Goto(1, 41) = 6 /\ Goto(5, 41) = 8 /\ At(Beneath, 6) = {1}
          /\ At(Beneath, 8) = {5}
      BY Gotos, EachBeneath
    <3> QED
      BY <3>1, <3>2, <3>3, <2>7 DEF GoesTo
  <2>8. CASE q = 9
    <3>1. s \in {6, 8, 31}
      BY <1>2, <2>8 DEF HandleIs
    <3>2. At(yyr1, q) = 42
      BY <2>8, LeftSides, Zenon
    <3>3. /\ Goto(6, 42) = 10 /\ Goto(8, 42) = 10 /\ Goto(31, 42) = 36
          /\ At(Beneath, 10) = {6, 8} /\ At(Beneath, 36) = {31}
      BY Gotos, EachBeneath
    <3> QED
      BY <3>1, <3>2, <3>3, <2>8 DEF GoesTo
  <2>9. CASE q = 10
    <3>1. s \in {6, 8, 31}
      BY <1>2, <2>9 DEF HandleIs
    <3>2. At(yyr1, q) = 43
      BY <2>9, LeftSides, Zenon
    <3>3. /\ Goto(6, 43) = 11 /\ Goto(8, 43) = 11 /\ Goto(31, 43) = 11
          /\ At(Beneath, 11) = {6, 8, 31}
      BY Gotos, EachBeneath
    <3> QED
      BY <3>1, <3>2, <3>3, <2>9 DEF GoesTo
  <2>10. CASE q = 11
    <3>1. s = 14
      BY <1>2, <2>10 DEF HandleIs
    <3>2. At(yyr1, q) = 44
      BY <2>10, LeftSides, Zenon
    <3>3. /\ Goto(14, 44) = 19 /\ At(Beneath, 19) = {14}
      BY Gotos, EachBeneath
    <3> QED
      BY <3>1, <3>2, <3>3, <2>10 DEF GoesTo
  <2>11. CASE q = 12
    <3>1. s \in {11, 26}
      BY <1>2, <2>11 DEF HandleIs
    <3>2. At(yyr1, q) = 45
      BY <2>11, LeftSides, Zenon
    <3>3. /\ Goto(11, 45) = 14 /\ Goto(26, 45) = 31 /\ At(Beneath, 14) = {11}
          /\ At(Beneath, 31) = {26}
      BY Gotos, EachBeneath
    <3> QED
      BY <3>1, <3>2, <3>3, <2>11 DEF GoesTo
  <2>12. CASE q = 13
    <3>1. s \in {11, 26}
      BY <1>2, <2>12 DEF HandleIs
    <3>2. At(yyr1, q) = 45
      BY <2>12, LeftSides, Zenon
    <3>3. /\ Goto(11, 45) = 14 /\ Goto(26, 45) = 31 /\ At(Beneath, 14) = {11}
          /\ At(Beneath, 31) = {26}
      BY Gotos, EachBeneath
    <3> QED
      BY <3>1, <3>2, <3>3, <2>12 DEF GoesTo
  <2>13. CASE q = 14
    <3>1. s \in {14, 31}
      BY <1>2, <2>13 DEF HandleIs
    <3>2. At(yyr1, q) = 46
      BY <2>13, LeftSides, Zenon
    <3>3. /\ Goto(14, 46) = 20 /\ Goto(31, 46) = 20 /\ At(Beneath, 20) = {14, 31}
      BY Gotos, EachBeneath
    <3> QED
      BY <3>1, <3>2, <3>3, <2>13 DEF GoesTo
  <2>14. CASE q = 15
    <3>1. s = 21
      BY <1>2, <2>14 DEF HandleIs
    <3>2. At(yyr1, q) = 47
      BY <2>14, LeftSides, Zenon
    <3>3. /\ Goto(21, 47) = 25 /\ At(Beneath, 25) = {21}
      BY Gotos, EachBeneath
    <3> QED
      BY <3>1, <3>2, <3>3, <2>14 DEF GoesTo
  <2>15. CASE q = 16
    <3>1. s = 21
      BY <1>2, <2>15 DEF HandleIs
    <3>2. At(yyr1, q) = 47
      BY <2>15, LeftSides, Zenon
    <3>3. /\ Goto(21, 47) = 25 /\ At(Beneath, 25) = {21}
      BY Gotos, EachBeneath
    <3> QED
      BY <3>1, <3>2, <3>3, <2>15 DEF GoesTo
  <2>16. CASE q = 17
    <3>1. s \in {14, 31}
      BY <1>2, <2>16 DEF HandleIs
    <3>2. At(yyr1, q) = 48
      BY <2>16, LeftSides, Zenon
    <3>3. /\ Goto(14, 48) = 21 /\ Goto(31, 48) = 21 /\ At(Beneath, 21) = {14, 31}
      BY Gotos, EachBeneath
    <3> QED
      BY <3>1, <3>2, <3>3, <2>16 DEF GoesTo
  <2>17. CASE q = 18
    <3>1. s = 25
      BY <1>2, <2>17 DEF HandleIs
    <3>2. At(yyr1, q) = 49
      BY <2>17, LeftSides, Zenon
    <3>3. /\ Goto(25, 49) = 29 /\ At(Beneath, 29) = {25}
      BY Gotos, EachBeneath
    <3> QED
      BY <3>1, <3>2, <3>3, <2>17 DEF GoesTo
  <2>18. CASE q = 19
    <3>1. s = 21
      BY <1>2, <2>18 DEF HandleIs
    <3>2. At(yyr1, q) = 50
      BY <2>18, LeftSides, Zenon
    <3>3. /\ Goto(21, 50) = 26 /\ At(Beneath, 26) = {21}
      BY Gotos, EachBeneath
    <3> QED
      BY <3>1, <3>2, <3>3, <2>18 DEF GoesTo
  <2>19. CASE q = 20
    <3>1. s = 21
      BY <1>2, <2>19 DEF HandleIs
    <3>2. At(yyr1, q) = 50
      BY <2>19, LeftSides, Zenon
    <3>3. /\ Goto(21, 50) = 26 /\ At(Beneath, 26) = {21}
      BY Gotos, EachBeneath
    <3> QED
      BY <3>1, <3>2, <3>3, <2>19 DEF GoesTo
  <2>20. CASE q = 21
    <3>1. s = 26
      BY <1>2, <2>20 DEF HandleIs
    <3>2. At(yyr1, q) = 51
      BY <2>20, LeftSides, Zenon
    <3>3. /\ Goto(26, 51) = 32 /\ At(Beneath, 32) = {26}
      BY Gotos, EachBeneath
    <3> QED
      BY <3>1, <3>2, <3>3, <2>20 DEF GoesTo
  <2>21. CASE q = 22
    <3>1. s = 26
      BY <1>2, <2>21 DEF HandleIs
    <3>2. At(yyr1, q) = 51
      BY <2>21, LeftSides, Zenon
    <3>3. /\ Goto(26, 51) = 32 /\ At(Beneath, 32) = {26}
      BY Gotos, EachBeneath
    <3> QED
      BY <3>1, <3>2, <3>3, <2>21 DEF GoesTo
  <2>22. CASE q = 23
    <3>1. s = 41
      BY <1>2, <2>22 DEF HandleIs
    <3>2. At(yyr1, q) = 52
      BY <2>22, LeftSides, Zenon
    <3>3. /\ Goto(41, 52) = 45 /\ At(Beneath, 45) = {41}
      BY Gotos, EachBeneath
    <3> QED
      BY <3>1, <3>2, <3>3, <2>22 DEF GoesTo
  <2>23. CASE q = 24
    <3>1. s = 41
      BY <1>2, <2>23 DEF HandleIs
    <3>2. At(yyr1, q) = 52
      BY <2>23, LeftSides, Zenon
    <3>3. /\ Goto(41, 52) = 45 /\ At(Beneath, 45) = {41}
      BY Gotos, EachBeneath
    <3> QED
      BY <3>1, <3>2, <3>3, <2>23 DEF GoesTo
  <2>24. CASE q = 25
    <3>1. s \in {42, 64}
      BY <1>2, <2>24 DEF HandleIs
    <3>2. At(yyr1, q) = 53
      BY <2>24, LeftSides, Zenon
    <3>3. /\ Goto(42, 53) = 47 /\ Goto(64, 53) = 65 /\ At(Beneath, 47) = {42}
          /\ At(Beneath, 65) = {64}
      BY Gotos, EachBeneath
    <3> QED
      BY <3>1, <3>2, <3>3, <2>24 DEF GoesTo
  <2>25. CASE q = 26
    <3>1. s \in {42, 64}
      BY <1>2, <2>25 DEF HandleIs
    <3>2. At(yyr1, q) = 53
      BY <2>25, LeftSides, Zenon
    <3>3. /\ Goto(42, 53) = 47 /\ Goto(64, 53) = 65 /\ At(Beneath, 47) = {42}
          /\ At(Beneath, 65) = {64}
      BY Gotos, EachBeneath
    <3> QED
      BY <3>1, <3>2, <3>3, <2>25 DEF GoesTo
  <2> QED
    BY <2>1, <2>2, <2>3, <2>4, <2>5, <2>6, <2>7, <2>8, <2>9, <2>10, <2>11, <2>12, <2>13,
       <2>14, <2>15, <2>16, <2>17, <2>18, <2>19, <2>20, <2>21, <2>22, <2>23, <2>24, <2>25
<1> QED
  BY <1>1, <1>2, Zenon DEF YYFINAL

Reduced(stack, r, m) == Append(SubSeq(stack, 1, m), Goto(stack[m], At(yyr1, r)))

LEMMA ReducedStack ==
    ASSUME NEW stack, Path(stack), NEW r, NEW m, Handle(stack, r, m)
    PROVE  /\ Path(Reduced(stack, r, m))
           /\ Len(Reduced(stack, r, m)) = m + 1
           /\ Last(Reduced(stack, r, m)) = Goto(stack[m], At(yyr1, r))
           /\ Reduced(stack, r, m)[m + 1] = Goto(stack[m], At(yyr1, r))
           /\ \A j \in 1..m : Reduced(stack, r, m)[j] = stack[j]
<1>1. m \in 1..Len(stack)
  BY Handles
<1>2. /\ Goto(stack[m], At(yyr1, r)) \in 1..66
      /\ stack[m] \in At(Beneath, Goto(stack[m], At(yyr1, r)))
  BY GotoTarget
<1>3. PICK rest : rest = SubSeq(stack, 1, m)
  OBVIOUS
<1>4. PICK g \in 1..66 : g = Goto(stack[m], At(yyr1, r))
  BY <1>2
<1>5. Path(rest) /\ Len(rest) = m /\ Last(rest) = stack[m] /\ \A j \in 1..m : rest[j] = stack[j]
  BY <1>1, <1>3, PoppedTo
<1>6. Last(rest) \in At(Beneath, g)
  BY <1>2, <1>4, <1>5
<1>7. /\ Path(Append(rest, g)) /\ Len(Append(rest, g)) = m + 1 /\ Last(Append(rest, g)) = g
      /\ Append(rest, g)[m + 1] = g
      /\ \A j \in 1..m : Append(rest, g)[j] = rest[j]
  BY <1>5, <1>6, Pushed
<1>8. Reduced(stack, r, m) = Append(rest, g)
  BY <1>3, <1>4 DEF Reduced
<1> QED
  BY <1>4, <1>5, <1>7, <1>8

-----------------------------------------------------------------------------
(* The texts on the stack.                                                 *)

\* The states of the TXT and STR tokens.
TextStates == {16, 27, 38, 40, 49, 51, 53, 61}

Held(stack) == Cardinality(Marked(stack, 0, Len(stack), TextStates))

LEMMA TextsAreHeld ==
    ASSUME NEW stack, Path(stack)
    PROVE  Texts(Symbols(stack)) = Held(stack) /\ Held(stack) \in Nat
<1>1. PICK l \in Nat : l = Len(stack) /\ l >= 1 /\ \A i \in 1..l : stack[i] \in 0..66
  BY PathOfStates
<1>2. DOMAIN stack = 1..l
  BY <1>1 DEF Path
<1>3. Text = {23, 25}
  BY NumberOfNames DEF Text
<1>4. \A s \in 0..66 : At(yystos, s) \in {23, 25} <=> s \in TextStates
  BY DEF At, yystos, TextStates
<1>5. {i \in DOMAIN Symbols(stack) : Symbols(stack)[i] \in Text}
          = Marked(stack, 0, l, TextStates)
  <2>1. DOMAIN Symbols(stack) = 1..l /\ \A i \in 1..l : Symbols(stack)[i] = At(yystos, stack[i])
    BY <1>2 DEF Symbols
  <2>2. \A i \in 1..l : At(yystos, stack[i]) \in {23, 25} <=> stack[i] \in TextStates
    BY <1>1, <1>4
  <2>3. \A i \in 1..l : Symbols(stack)[i] \in Text <=> stack[i] \in TextStates
    BY <1>3, <2>1, <2>2, Zenon
  <2>4. Marked(stack, 0, l, TextStates) = {i \in 1..l : stack[i] \in TextStates}
    BY DEF Marked
  <2> QED
    BY <2>1, <2>3, <2>4, Zenon
<1> QED
  BY <1>1, <1>5, MarkedFinite DEF Texts, Held

LEMMA HeldPushed ==
    ASSUME NEW stack, Path(stack), NEW t \in 1..66, Last(stack) \in At(Beneath, t)
    PROVE  Held(Append(stack, t)) = Held(stack) + One(t \in TextStates)
<1>1. PICK l \in Nat : l = Len(stack)
  BY PathOfStates
<1>2. PICK new : new = Append(stack, t)
  OBVIOUS
<1>3. Len(new) = l + 1 /\ new[l + 1] = t /\ \A j \in 1..l : new[j] = stack[j]
  BY <1>1, <1>2, Pushed
<1>4. Marked(new, 0, l, TextStates) = Marked(stack, 0, l, TextStates)
  BY <1>3, MarkedSame
<1>5. Cardinality(Marked(new, 0, l + 1, TextStates))
          = Cardinality(Marked(new, 0, l, TextStates)) + One(new[l + 1] \in TextStates)
  BY MarkedNext
<1> QED
  BY <1>1, <1>2, <1>3, <1>4, <1>5 DEF Held

\* How many texts the right side of a rule holds.
TextsOf(r) == CASE r = 17 -> 4 [] r \in {10, 21, 23, 25} -> 1 [] OTHER -> 0

LEMMA TextsOfHandle ==
    ASSUME NEW stack, Path(stack), NEW r, NEW m, Handle(stack, r, m)
    PROVE  Cardinality(Marked(stack, m, Len(stack), TextStates)) = TextsOf(r)
<1>1. PICK l \in Nat : l = Len(stack) /\ l >= 1 /\ \A i \in 1..l : stack[i] \in 0..66
  BY PathOfStates
<1>2. r \in 2..26 /\ m \in 1..l /\ HandleIs(stack, r, m)
  BY <1>1, Handles
<1>3. m = l - At(yyr2, r)
  BY <1>1 DEF Handle
<1>4. At(yyr2, r) \in 0..13
  <2>1. \A q \in 2..26 : At(yyr2, q) \in 0..13
    BY DEF At, yyr2
  <2> QED
    BY <1>2, <2>1
<1>5. l = m + At(yyr2, r)
  BY <1>2, <1>3, <1>4
<1>6. CASE r = 17
  <2>1. l = m + 13
    BY <1>5, <1>6, SizesOfRules
  <2>2. Marked(stack, m, m + 13, TextStates) = {m + 3, m + 6, m + 9, m + 12}
    BY <1>2, <1>6 DEF HandleIs, Marked, TextStates
  <2>3. Cardinality({m + 3, m + 6, m + 9, m + 12}) = 4
    <3>1. /\ IsFiniteSet({m + 3}) /\ IsFiniteSet({m + 3} \cup {m + 6})
          /\ IsFiniteSet({m + 3} \cup {m + 6} \cup {m + 9})
      BY FS_Singleton, FS_AddElement
    <3>2. /\ m + 6 \notin {m + 3} /\ m + 9 \notin {m + 3} \cup {m + 6}
          /\ m + 12 \notin {m + 3} \cup {m + 6} \cup {m + 9}
      BY <1>2
    <3>3. Cardinality({m + 3}) = 1
      BY FS_Singleton
    <3>4. Cardinality({m + 3} \cup {m + 6}) = 2
      BY <3>1, <3>2, <3>3, FS_AddElement
    <3>5. Cardinality({m + 3} \cup {m + 6} \cup {m + 9}) = 3
      BY <3>1, <3>2, <3>4, FS_AddElement
    <3>6. Cardinality({m + 3} \cup {m + 6} \cup {m + 9} \cup {m + 12}) = 4
      <4>1. PICK S : S = {m + 3} \cup {m + 6} \cup {m + 9}
        OBVIOUS
      <4>2. IsFiniteSet(S) /\ m + 12 \notin S /\ Cardinality(S) = 3
        BY <3>1, <3>2, <3>5, <4>1
      <4>3. Cardinality(S \cup {m + 12}) = 4
        BY <4>2, FS_AddElement
      <4> QED
        BY <4>1, <4>3
    <3>7. {m + 3, m + 6, m + 9, m + 12} = {m + 3} \cup {m + 6} \cup {m + 9} \cup {m + 12}
      BY Zenon
    <3> QED
      BY <3>6, <3>7
  <2>4. TextsOf(r) = 4
    BY <1>6 DEF TextsOf
  <2> QED
    BY <1>1, <2>1, <2>2, <2>3, <2>4
<1>7. CASE r \in {10, 21}
  <2>1. Marked(stack, m, l, TextStates) = {m + 3}
    <3>1. CASE r = 10
      <4>1. l = m + 4
        BY <1>5, <3>1, SizesOfRules
      <4> QED
        BY <1>2, <3>1, <4>1 DEF HandleIs, Marked, TextStates
    <3>2. CASE r = 21
      <4>1. l = m + 13
        BY <1>5, <3>2, SizesOfRules
      <4> QED
        BY <1>2, <3>2, <4>1 DEF HandleIs, Marked, TextStates
    <3> QED
      BY <1>7, <3>1, <3>2
  <2>2. TextsOf(r) = 1
    BY <1>7 DEF TextsOf
  <2>3. Cardinality({m + 3}) = 1
    BY FS_Singleton
  <2> QED
    BY <1>1, <2>1, <2>2, <2>3
<1>8. CASE r \in {23, 25}
  <2>1. l = m + 3
    BY <1>5, <1>8, SizesOfRules
  <2>2. Marked(stack, m, m + 3, TextStates) = {m + 2}
    BY <1>2, <1>8 DEF HandleIs, Marked, TextStates
  <2>3. TextsOf(r) = 1
    BY <1>8 DEF TextsOf
  <2>4. Cardinality({m + 2}) = 1
    BY FS_Singleton
  <2> QED
    BY <1>1, <2>1, <2>2, <2>3, <2>4
<1>9. CASE r \notin {10, 17, 21, 23, 25}
  <2>1. \A j \in (m + 1)..l : stack[j] \notin TextStates
    <3>1. CASE r \in {2, 7, 12, 19, 24, 26}
      <4>1. l = m
        BY <1>2, <1>5, <3>1, SizesOfRules
      <4> QED
        BY <1>2, <4>1
    <3>2. CASE r = 3
      <4>1. l = m + 2
        BY <1>5, <3>2, SizesOfRules
      <4> QED
        BY <1>2, <3>2, <4>1 DEF HandleIs, TextStates
    <3>3. CASE r = 4
      <4>1. l = m + 1
        BY <1>5, <3>3, SizesOfRules
      <4> QED
        BY <1>2, <3>3, <4>1 DEF HandleIs, TextStates
    <3>4. CASE r = 5
      <4>1. l = m + 2
        BY <1>5, <3>4, SizesOfRules
      <4> QED
        BY <1>2, <3>4, <4>1 DEF HandleIs, TextStates
    <3>5. CASE r = 6
      <4>1. l = m + 5
        BY <1>5, <3>5, SizesOfRules
      <4> QED
        BY <1>2, <3>5, <4>1 DEF HandleIs, TextStates
    <3>6. CASE r = 8
      <4>1. l = m + 2
        BY <1>5, <3>6, SizesOfRules
      <4> QED
        BY <1>2, <3>6, <4>1 DEF HandleIs, TextStates
    <3>7. CASE r = 9
      <4>1. l = m + 3
        BY <1>5, <3>7, SizesOfRules
      <4> QED
        BY <1>2, <3>7, <4>1 DEF HandleIs, TextStates
    <3>8. CASE r = 11
      <4>1. l = m + 1
        BY <1>5, <3>8, SizesOfRules
      <4> QED
        BY <1>2, <3>8, <4>1 DEF HandleIs, TextStates
    <3>9. CASE r = 13
      <4>1. l = m + 2
        BY <1>5, <3>9, SizesOfRules
      <4> QED
        BY <1>2, <3>9, <4>1 DEF HandleIs, TextStates
    <3>10. CASE r = 14
      <4>1. l = m + 3
        BY <1>5, <3>10, SizesOfRules
      <4> QED
        BY <1>2, <3>10, <4>1 DEF HandleIs, TextStates
    <3>11. CASE r = 15
      <4>1. l = m + 2
        BY <1>5, <3>11, SizesOfRules
      <4> QED
        BY <1>2, <3>11, <4>1 DEF HandleIs, TextStates
    <3>12. CASE r = 16
      <4>1. l = m + 3
        BY <1>5, <3>12, SizesOfRules
      <4> QED
        BY <1>2, <3>12, <4>1 DEF HandleIs, TextStates
    <3>13. CASE r = 18
      <4>1. l = m + 1
        BY <1>5, <3>13, SizesOfRules
      <4> QED
        BY <1>2, <3>13, <4>1 DEF HandleIs, TextStates
    <3>14. CASE r = 20
      <4>1. l = m + 2
        BY <1>5, <3>14, SizesOfRules
      <4> QED
        BY <1>2, <3>14, <4>1 DEF HandleIs, TextStates
    <3>15. CASE r = 22
      <4>1. l = m + 6
        BY <1>5, <3>15, SizesOfRules
      <4> QED
        BY <1>2, <3>15, <4>1 DEF HandleIs, TextStates
    <3> QED
      BY <1>2, <1>9,
         <3>1, <3>2, <3>3, <3>4, <3>5, <3>6, <3>7, <3>8,
         <3>9, <3>10, <3>11, <3>12, <3>13, <3>14, <3>15
  <2>2. TextsOf(r) = 0
    BY <1>9 DEF TextsOf
  <2> QED
    BY <1>1, <2>1, <2>2, MarkedNone
<1> QED
  BY <1>6, <1>7, <1>8, <1>9

-----------------------------------------------------------------------------
(* The description and the values that wait in the globals.                *)

LEMMA GlobalsWaitPushed ==
    ASSUME NEW stack, Path(stack), NEW t \in 1..66, Last(stack) \in At(Beneath, t),
           NEW d, NEW v, GlobalsWait(stack, d, v)
    PROVE  GlobalsWait(Append(stack, t), d, v)
<1>1. PICK l \in Nat : l = Len(stack) /\ l >= 1
  BY PathOfStates
<1>2. PICK new : new = Append(stack, t)
  OBVIOUS
<1>3. Len(new) = l + 1 /\ new[l + 1] = t /\ Last(new) = t /\ \A j \in 1..l : new[j] = stack[j]
  BY <1>1, <1>2, Pushed
<1>4. \A q \in 1..66 : \A s \in At(Beneath, q) :
        /\ s \in {45} \cup AfterDescription => q \in AfterDescription
        /\ s \in AfterValues => q \in AfterValues
  BY DEF At, Beneath, AfterDescription, AfterValues
<1>5. ASSUME InDescribed(stack)
      PROVE  InDescribed(new)
  <2>1. PICK k \in 1..l : stack[k] = 45 /\ \A j \in (k + 1)..l : stack[j] \in AfterDescription
    BY <1>1, <1>5 DEF InDescribed
  <2>2. stack[l] \in {45} \cup AfterDescription
    BY <1>1, <2>1
  <2>3. t \in AfterDescription
    BY <1>1, <1>4, <2>2 DEF Last
  <2>4. k \in 1..(l + 1) /\ new[k] = 45
    BY <1>1, <1>3, <2>1
  <2>5. \A j \in (k + 1)..(l + 1) : new[j] \in AfterDescription
    BY <1>1, <1>3, <2>1, <2>3
  <2> QED
    BY <1>3, <2>4, <2>5 DEF InDescribed
<1>6. Last(stack) \in AfterValues => Last(new) \in AfterValues
  BY <1>3, <1>4
<1> QED
  BY <1>2, <1>5, <1>6 DEF GlobalsWait

\* While a description waits nothing but the values' part of its parameter is reduced.
LEMMA DescribedReduced ==
    ASSUME NEW stack, Path(stack), NEW r, NEW m, Handle(stack, r, m), InDescribed(stack)
    PROVE  r \in {21, 25, 26} /\ (r # 21 => InDescribed(Reduced(stack, r, m)))
<1>1. PICK l \in Nat : l = Len(stack) /\ l >= 1 /\ \A i \in 1..l : stack[i] \in 0..66
  BY PathOfStates
<1>2. PICK k \in 1..l : stack[k] = 45 /\ \A j \in (k + 1)..l : stack[j] \in AfterDescription
  BY <1>1 DEF InDescribed
<1>3. r = At(yydefact, stack[l]) /\ r # 0
  BY <1>1 DEF Handle, Last
<1>4. r \in {21, 25, 26}
  <2>1. \A s \in {45} \cup AfterDescription : At(yydefact, s) \in {0, 21, 25, 26}
    BY DEF At, yydefact, AfterDescription
  <2>2. stack[l] \in {45} \cup AfterDescription
    BY <1>1, <1>2
  <2> QED
    BY <1>3, <2>1, <2>2
<1>5. m \in 1..l /\ HandleIs(stack, r, m) /\ m = l - At(yyr2, r)
  BY <1>1, Handles DEF Handle
<1>6. PICK new : new = Reduced(stack, r, m)
  OBVIOUS
<1>7. PICK g : g = Goto(stack[m], At(yyr1, r))
  OBVIOUS
<1>8. /\ Len(new) = m + 1 /\ new[m + 1] = g /\ \A j \in 1..m : new[j] = stack[j]
      /\ GoesTo(r, stack[m], g)
  BY <1>6, <1>7, ReducedStack, GotoTarget
<1>9. ASSUME r \in {25, 26}
      PROVE  InDescribed(new)
  <2>1. stack[m] \in {42, 64}
    BY <1>5, <1>9 DEF HandleIs
  <2>2. k <= m
    <3>1. CASE r = 25
      <4>1. m = l - 3
        BY <1>5, <3>1, SizesOfRules
      <4>2. stack[l - 2] = 46 /\ stack[l - 1] = 51 /\ stack[l] = 56
        BY <1>1, <1>5, <3>1, <4>1 DEF HandleIs
      <4> QED
        BY <1>1, <1>2, <4>1, <4>2
    <3>2. CASE r = 26
      <4>1. m = l - 0
        BY <1>5, <3>2, SizesOfRules
      <4> QED
        BY <1>1, <4>1
    <3> QED
      BY <1>9, <3>1, <3>2
  <2>3. k < m /\ stack[m] \in AfterDescription
    BY <1>1, <1>2, <1>5, <2>1, <2>2
  <2>4. stack[m] = 64
    BY <2>1, <2>3 DEF AfterDescription
  <2>5. g = 65
    BY <1>8, <1>9, <2>4 DEF GoesTo
  <2>6. k \in 1..(m + 1) /\ new[k] = 45
    BY <1>1, <1>2, <1>5, <1>8, <2>3
  <2>7. \A j \in (k + 1)..(m + 1) : new[j] \in AfterDescription
    <3>1. 65 \in AfterDescription
      BY DEF AfterDescription
    <3> QED
      BY <1>1, <1>2, <1>5, <1>8, <2>5, <3>1
  <2> QED
    BY <1>8, <2>6, <2>7 DEF InDescribed
<1> QED
  BY <1>4, <1>6, <1>9

\* While values wait only their parameter is reduced.
LEMMA ValuedReduced ==
    ASSUME NEW stack, NEW r, NEW m, Handle(stack, r, m), Last(stack) \in AfterValues
    PROVE  r \in {21, 22}
<1>1. \A s \in AfterValues : At(yydefact, s) \in {0, 21, 22}
  BY DEF At, yydefact, AfterValues
<1> QED
  BY <1>1 DEF Handle

-----------------------------------------------------------------------------
(* The elements.                                                           *)

\* The right sides in which elements, or the parts behind their commands, end are three.
LEMMA PlainHandle ==
    ASSUME NEW stack, Path(stack), NEW r, NEW m, Handle(stack, r, m), r \notin {9, 14, 16}
    PROVE  \A j \in (m + 1)..Len(stack) : stack[j] \notin {11, 21, 25, 36}
<1>1. PICK l \in Nat : l = Len(stack) /\ l >= 1 /\ \A i \in 1..l : stack[i] \in 0..66
  BY PathOfStates
<1>2. r \in 2..26 /\ m \in 1..l /\ HandleIs(stack, r, m)
  BY <1>1, Handles
<1>3. m = l - At(yyr2, r)
  BY <1>1 DEF Handle
<1>4. At(yyr2, r) \in 0..13
  <2>1. \A q \in 2..26 : At(yyr2, q) \in 0..13
    BY DEF At, yyr2
  <2> QED
    BY <1>2, <2>1
<1>5. l = m + At(yyr2, r)
  BY <1>2, <1>3, <1>4
<1>6. \A j \in (m + 1)..l : stack[j] \notin {11, 21, 25, 36}
  <2>1. CASE r \in {2, 7, 12, 19, 24, 26}
    <3>1. l = m
      BY <1>2, <1>5, <2>1, SizesOfRules
    <3> QED
      BY <1>2, <3>1
  <2>2. CASE r = 3
    <3>1. l = m + 2
      BY <1>5, <2>2, SizesOfRules
    <3> QED
      BY <1>2, <2>2, <3>1 DEF HandleIs
  <2>3. CASE r = 4
    <3>1. l = m + 1
      BY <1>5, <2>3, SizesOfRules
    <3> QED
      BY <1>2, <2>3, <3>1 DEF HandleIs
  <2>4. CASE r = 5
    <3>1. l = m + 2
      BY <1>5, <2>4, SizesOfRules
    <3> QED
      BY <1>2, <2>4, <3>1 DEF HandleIs
  <2>5. CASE r = 6
    <3>1. l = m + 5
      BY <1>5, <2>5, SizesOfRules
    <3> QED
      BY <1>2, <2>5, <3>1 DEF HandleIs
  <2>6. CASE r = 8
    <3>1. l = m + 2
      BY <1>5, <2>6, SizesOfRules
    <3> QED
      BY <1>2, <2>6, <3>1 DEF HandleIs
  <2>7. CASE r = 10
    <3>1. l = m + 4
      BY <1>5, <2>7, SizesOfRules
    <3> QED
      BY <1>2, <2>7, <3>1 DEF HandleIs
  <2>8. CASE r = 11
    <3>1. l = m + 1
      BY <1>5, <2>8, SizesOfRules
    <3> QED
      BY <1>2, <2>8, <3>1 DEF HandleIs
  <2>9. CASE r = 13
    <3>1. l = m + 2
      BY <1>5, <2>9, SizesOfRules
    <3> QED
      BY <1>2, <2>9, <3>1 DEF HandleIs
  <2>10. CASE r = 15
    <3>1. l = m + 2
      BY <1>5, <2>10, SizesOfRules
    <3> QED
      BY <1>2, <2>10, <3>1 DEF HandleIs
  <2>11. CASE r = 17
    <3>1. l = m + 13
      BY <1>5, <2>11, SizesOfRules
    <3> QED
      BY <1>2, <2>11, <3>1 DEF HandleIs
  <2>12. CASE r = 18
    <3>1. l = m + 1
      BY <1>5, <2>12, SizesOfRules
    <3> QED
      BY <1>2, <2>12, <3>1 DEF HandleIs
  <2>13. CASE r = 20
    <3>1. l = m + 2
      BY <1>5, <2>13, SizesOfRules
    <3> QED
      BY <1>2, <2>13, <3>1 DEF HandleIs
  <2>14. CASE r = 21
    <3>1. l = m + 13
      BY <1>5, <2>14, SizesOfRules
    <3> QED
      BY <1>2, <2>14, <3>1 DEF HandleIs
  <2>15. CASE r = 22
    <3>1. l = m + 6
      BY <1>5, <2>15, SizesOfRules
    <3> QED
      BY <1>2, <2>15, <3>1 DEF HandleIs
  <2>16. CASE r = 23
    <3>1. l = m + 3
      BY <1>5, <2>16, SizesOfRules
    <3> QED
      BY <1>2, <2>16, <3>1 DEF HandleIs
  <2>17. CASE r = 25
    <3>1. l = m + 3
      BY <1>5, <2>17, SizesOfRules
    <3> QED
      BY <1>2, <2>17, <3>1 DEF HandleIs
  <2> QED
    BY <1>2,
       <2>1, <2>2, <2>3, <2>4, <2>5, <2>6, <2>7, <2>8, <2>9,
       <2>10, <2>11, <2>12, <2>13, <2>14, <2>15, <2>16, <2>17
<1> QED
  BY <1>1, <1>6

LEMMA DepthOf ==
    ASSUME NEW stack, NEW i \in Nat
    PROVE  /\ Depth(stack, i) \in Nat
           /\ Depth(stack, i + 1) = Depth(stack, i) + One(stack[i + 1] \in Begun)
BY MarkedFinite, MarkedNext DEF Depth

\* An element begun later is deeper.
LEMMA Deeper ==
    ASSUME NEW stack, NEW i \in Nat, NEW j \in Nat, i <= j
    PROVE  /\ Depth(stack, i) <= Depth(stack, j)
           /\ i < j /\ stack[j] \in Begun => Depth(stack, i) < Depth(stack, j)
<1>1. ASSUME NEW k \in Nat, i <= k
      PROVE  Depth(stack, i) <= Depth(stack, k)
  <2>1. Depth(stack, k) = Depth(stack, i) + Cardinality(Marked(stack, i, k, Begun))
    BY <1>1, MarkedSplit DEF Depth
  <2> QED
    BY <1>1, <2>1, MarkedFinite, DepthOf
<1>2. ASSUME i < j, stack[j] \in Begun
      PROVE  Depth(stack, i) < Depth(stack, j)
  <2>1. PICK k \in Nat : j = k + 1 /\ i <= k
    <3>1. j - 1 \in Nat /\ i <= j - 1 /\ j = (j - 1) + 1
      BY <1>2
    <3> QED
      BY <3>1
  <2>2. Depth(stack, k + 1) = Depth(stack, k) + 1
    BY <1>2, <2>1, DepthOf DEF One
  <2> QED
    BY <1>1, <2>1, <2>2, DepthOf
<1> QED
  BY <1>1, <1>2

LEMMA DepthSame ==
    ASSUME NEW a, NEW b, NEW m \in Nat, \A j \in 1..m : a[j] = b[j], NEW i \in 0..m
    PROVE  Depth(a, i) = Depth(b, i)
<1>1. \A j \in 1..i : a[j] = b[j]
  OBVIOUS
<1> QED
  BY <1>1, MarkedSame DEF Depth

\* Where an element ends its rule is reduced at once.
LEMMA NothingOnEnds == \A q \in 1..66 : \A s \in At(Beneath, q) : s \notin {19, 29}
BY DEF At, Beneath

LEMMA NestingPushed ==
    ASSUME NEW stack, Path(stack), NEW t \in 1..66, Last(stack) \in At(Beneath, t),
           t \notin {11, 19, 21, 29},
           NEW elements, Len(elements) \in Nat, Nesting(stack, elements)
    PROVE  Nesting(Append(stack, t), elements)
<1>1. PICK l \in Nat : l = Len(stack) /\ l >= 1
  BY PathOfStates
<1>2. PICK new : new = Append(stack, t)
  OBVIOUS
<1>3. Len(new) = l + 1 /\ new[l + 1] = t /\ Last(new) = t /\ \A j \in 1..l : new[j] = stack[j]
  BY <1>1, <1>2, Pushed
<1>4. Last(stack) \notin {19, 29}
  BY NothingOnEnds
<1>5. \A i \in 0..l : Depth(new, i) = Depth(stack, i)
  BY <1>3, DepthSame
<1>6. Depth(stack, l) = Len(elements)
  <2>1. Ended(stack) = 0
    BY <1>4 DEF Ended, One
  <2> QED
    BY <1>1, <2>1 DEF Nesting
<1>7. Depth(new, l + 1) = Len(elements) /\ Ended(new) = 0
  <2>1. One(new[l + 1] \in Begun) = 0 /\ Ended(new) = 0
    BY <1>3 DEF One, Begun, Ended
  <2> QED
    BY <1>5, <1>6, <2>1, DepthOf
<1>8. ASSUME NEW j \in 1..(l + 1)
      PROVE  NestingAt(new, elements, j)
  <2>1. CASE j = l + 1
    BY <1>3, <2>1 DEF NestingAt, Told, Begun
  <2>2. CASE j # l + 1
    <3>1. j \in 1..l /\ new[j] = stack[j] /\ Depth(new, j) = Depth(stack, j)
      BY <1>3, <1>5, <2>2
    <3>2. NestingAt(stack, elements, j)
      BY <1>1, <3>1 DEF Nesting
    <3>3. PastCommands(stack, j) => PastCommands(new, j)
      BY <1>1, <1>3, <3>1 DEF PastCommands
    <3> QED
      BY <3>1, <3>2, <3>3 DEF NestingAt, Told
  <2> QED
    BY <2>1, <2>2
<1> QED
  BY <1>2, <1>3, <1>7, <1>8 DEF Nesting

\* A command past its commands stays so until it has ended.
LEMMA PastKept ==
    ASSUME NEW stack, Path(stack), NEW r, NEW m, Handle(stack, r, m),
           NEW j \in 1..m, stack[j] = 21, PastCommands(stack, j)
    PROVE  PastCommands(Reduced(stack, r, m), j)
<1>1. PICK l \in Nat : l = Len(stack) /\ l >= 1 /\ \A i \in 1..l : stack[i] \in 0..66
  BY PathOfStates
<1>2. r \in 2..26 /\ m \in 1..l /\ HandleIs(stack, r, m) /\ m = l - At(yyr2, r)
  BY <1>1, Handles DEF Handle
<1>3. PICK new : new = Reduced(stack, r, m)
  OBVIOUS
<1>4. PICK g : g = Goto(stack[m], At(yyr1, r))
  OBVIOUS
<1>5. /\ Len(new) = m + 1 /\ new[m + 1] = g /\ \A i \in 1..m : new[i] = stack[i]
      /\ GoesTo(r, stack[m], g)
  BY <1>3, <1>4, ReducedStack, GotoTarget
<1>6. \/ j + 1 <= l /\ stack[j + 1] = 25
      \/ j + 3 <= l /\ stack[j + 3] \in {11, 36}
  BY <1>1 DEF PastCommands
<1>7. j \in Nat /\ m \in Nat /\ j <= m
  BY <1>2
<1>8. ASSUME \/ j + 1 <= m + 1 /\ new[j + 1] = 25
             \/ j + 3 <= m + 1 /\ new[j + 3] \in {11, 36}
      PROVE  PastCommands(new, j)
  BY <1>5, <1>8 DEF PastCommands
<1>9. j + 1 <= m /\ stack[j + 1] = 25 => PastCommands(new, j)
  <2>1. j + 1 <= m => j + 1 <= m + 1 /\ new[j + 1] = stack[j + 1]
    BY <1>5, <1>7
  <2> QED
    BY <1>8, <2>1
<1>10. j + 3 <= m /\ stack[j + 3] \in {11, 36} => PastCommands(new, j)
  <2>1. j + 3 <= m => j + 3 <= m + 1 /\ new[j + 3] = stack[j + 3]
    BY <1>5, <1>7
  <2> QED
    BY <1>8, <2>1
<1> SUFFICES PastCommands(new, j)
  BY <1>3
<1>11. CASE r \notin {9, 14, 16}
  <2>1. \A i \in (m + 1)..l : stack[i] \notin {11, 21, 25, 36}
    BY <1>1, <1>11, PlainHandle
  <2>2. j + 1 <= l /\ stack[j + 1] = 25 => j + 1 <= m
    BY <1>1, <1>7, <2>1
  <2>3. j + 3 <= l /\ stack[j + 3] \in {11, 36} => j + 3 <= m
    BY <1>1, <1>7, <2>1
  <2> QED
    BY <1>6, <1>9, <1>10, <2>2, <2>3
<1>12. CASE r = 9
  <2>1. l = m + 3
    <3>1. m = l - 3
      BY <1>2, <1>12, SizesOfRules
    <3> QED
      BY <1>1, <3>1
  <2>2. stack[m] \in {6, 8, 31} /\ stack[m + 1] = 11 /\ stack[m + 2] = 14 /\ stack[m + 3] = 19
    BY <1>2, <1>12 DEF HandleIs
  <2>3. CASE j + 1 <= l /\ stack[j + 1] = 25
    <3>1. j + 1 <= m
      BY <1>2, <2>1, <2>2, <2>3
    <3> QED
      BY <1>9, <2>3, <3>1
  <2>4. CASE j + 3 <= m /\ stack[j + 3] \in {11, 36}
    BY <1>10, <2>4
  <2>5. CASE j + 3 > m /\ j + 3 <= l /\ stack[j + 3] \in {11, 36}
    <3>1. j + 3 = m + 1
      BY <1>2, <2>1, <2>2, <2>5
    <3>2. m - 2 \in 1..l /\ m - 1 \in 1..l /\ j = m - 2 /\ stack[m - 2] = 21
      BY <1>2, <3>1
    <3>3. stack[m] = 31
      <4>1. At(Beneath, 6) = {1} /\ At(Beneath, 8) = {5} /\ At(Beneath, 1) = {0}
            /\ At(Beneath, 5) = {1}
        BY EachBeneath
      <4>2. stack[m - 1] \in At(Beneath, stack[m])
        <5>1. m \in 1..Len(stack) /\ stack[m] # 0
          BY <1>1, <1>2, <2>2
        <5> QED
          BY <5>1, Under
      <4>3. stack[m - 1] # 0 => stack[m - 2] \in At(Beneath, stack[m - 1])
        <5>1. PICK i \in 1..l : i = m - 1 /\ i - 1 = m - 2
          BY <1>2, <3>2
        <5>2. stack[i] # 0 => stack[i - 1] \in At(Beneath, stack[i])
          BY <1>1, Under
        <5> QED
          BY <5>1, <5>2
      <4>4. stack[m] \in {6, 8} => stack[m - 1] \in {1, 5}
        BY <4>1, <4>2
      <4>5. stack[m - 1] \in {1, 5} => stack[m - 2] \in {0, 1}
        BY <4>1, <4>3
      <4> QED
        BY <2>2, <3>2, <4>4, <4>5
    <3>4. g = 36
      BY <1>5, <1>12, <3>3 DEF GoesTo
    <3> QED
      BY <1>5, <1>7, <1>8, <3>1, <3>4
  <2> QED
    BY <1>6, <1>7, <2>3, <2>4, <2>5
<1>13. CASE r = 14
  <2>1. l = m + 3
    <3>1. m = l - 3
      BY <1>2, <1>13, SizesOfRules
    <3> QED
      BY <1>1, <3>1
  <2>2. stack[m + 1] = 21 /\ stack[m + 2] = 25 /\ stack[m + 3] = 29
    BY <1>2, <1>13 DEF HandleIs
  <2>3. CASE j + 1 <= l /\ stack[j + 1] = 25
    <3>1. j + 1 <= m
      BY <1>2, <2>1, <2>2, <2>3
    <3> QED
      BY <1>9, <2>3, <3>1
  <2>4. CASE j + 3 <= l /\ stack[j + 3] \in {11, 36}
    <3>1. j + 3 <= m
      BY <1>2, <2>1, <2>2, <2>4
    <3> QED
      BY <1>10, <2>4, <3>1
  <2> QED
    BY <1>6, <2>3, <2>4
<1>14. CASE r = 16
  <2>1. l = m + 3
    <3>1. m = l - 3
      BY <1>2, <1>14, SizesOfRules
    <3> QED
      BY <1>1, <3>1
  <2>2. stack[m] = 21 /\ stack[m + 1] = 26 /\ stack[m + 2] = 31 /\ stack[m + 3] = 36
    BY <1>2, <1>14 DEF HandleIs
  <2>3. g = 25
    BY <1>5, <1>14 DEF GoesTo
  <2>4. CASE j = m
    BY <1>5, <1>7, <1>8, <2>3, <2>4
  <2>5. CASE j < m /\ j + 1 <= l /\ stack[j + 1] = 25
    <3>1. j + 1 <= m
      BY <1>2, <2>5
    <3> QED
      BY <1>9, <2>5, <3>1
  <2>6. CASE j < m /\ j + 3 <= l /\ stack[j + 3] \in {11, 36}
    <3>1. j + 3 <= m
      BY <1>2, <2>1, <2>2, <2>6
    <3> QED
      BY <1>10, <2>6, <3>1
  <2> QED
    BY <1>6, <1>7, <2>4, <2>5, <2>6
<1> QED
  BY <1>11, <1>12, <1>13, <1>14

\* How deep the elements are where the right side begins.
LEMMA DepthUnderHandle ==
    ASSUME NEW stack, Path(stack), NEW r, NEW m, Handle(stack, r, m),
           NEW elements, Len(elements) \in Nat, Nesting(stack, elements)
    PROVE  Depth(stack, m) = Len(elements)
<1>1. PICK l \in Nat : l = Len(stack) /\ l >= 1
  BY PathOfStates
<1>2. r \in 2..26 /\ m \in 1..l /\ HandleIs(stack, r, m) /\ m = l - At(yyr2, r)
  BY <1>1, Handles DEF Handle
<1>3. Depth(stack, l) = Depth(stack, m) + Cardinality(Marked(stack, m, l, Begun))
  BY <1>1, <1>2, MarkedSplit DEF Depth
<1>4. Depth(stack, m) \in Nat
  BY <1>2, DepthOf
<1>5. Depth(stack, l) = Len(elements) + Ended(stack)
  BY <1>1 DEF Nesting
<1>6. CASE r \in {9, 14}
  <2>1. m = l - 3
    BY <1>2, <1>6, SizesOfRules
  <2>2. /\ stack[l] \in {19, 29} /\ stack[m + 1] \in Begun
        /\ stack[m + 2] \notin Begun /\ stack[m + 3] \notin Begun
    <3>1. l = m + 3
      BY <1>1, <2>1
    <3> QED
      BY <1>2, <1>6, <3>1 DEF HandleIs, Begun
  <2>3. Marked(stack, m, l, Begun) = {m + 1}
    BY <1>1, <1>2, <2>1, <2>2 DEF Marked
  <2>4. Cardinality(Marked(stack, m, l, Begun)) = 1
    BY <2>3, FS_Singleton
  <2>5. Ended(stack) = 1
    BY <1>1, <2>2 DEF Ended, One, Last
  <2> QED
    BY <1>3, <1>4, <1>5, <2>4, <2>5
<1>7. CASE r \notin {9, 14}
  <2>1. \A j \in (m + 1)..l : stack[j] \notin Begun
    <3>1. CASE r = 16
      <4>1. l = m + 3
        <5>1. At(yyr2, 16) = 3
          BY SizesOfRules, Zenon
        <5>2. m = l - 3
          BY <1>2, <3>1, <5>1, Zenon
        <5> QED
          BY <1>1, <1>2, <5>2
      <4>2. stack[m + 1] = 26 /\ stack[m + 2] = 31 /\ stack[m + 3] = 36
        BY <1>2, <3>1 DEF HandleIs
      <4>3. \A j \in (m + 1)..l : j = m + 1 \/ j = m + 2 \/ j = m + 3
        BY <1>1, <1>2, <4>1
      <4> QED
        BY <4>2, <4>3 DEF Begun
    <3>2. CASE r # 16
      BY <1>1, <1>7, <3>2, PlainHandle DEF Begun
    <3> QED
      BY <3>1, <3>2
  <2>2. Cardinality(Marked(stack, m, l, Begun)) = 0
    BY <2>1, MarkedNone
  <2>3. Ended(stack) = 0
    <3>1. At(yydefact, 19) = 9 /\ At(yydefact, 29) = 14
      BY DEF At, yydefact
    <3>2. Last(stack) \notin {19, 29}
      BY <1>7, <3>1 DEF Handle
    <3> QED
      BY <3>2 DEF Ended, One
  <2> QED
    BY <1>3, <1>4, <1>5, <2>2, <2>3
<1> QED
  BY <1>6, <1>7

\* What a reduction leaves of the nesting: the elements told of before.
LEMMA NestingBelow ==
    ASSUME NEW stack, Path(stack), NEW r, NEW m, Handle(stack, r, m),
           NEW elements, Len(elements) \in Nat, Nesting(stack, elements)
    PROVE  /\ \A i \in 0..m : Depth(Reduced(stack, r, m), i) = Depth(stack, i)
           /\ Depth(Reduced(stack, r, m), m + 1) = Len(elements)
                  + One(Goto(stack[m], At(yyr1, r)) \in Begun)
           /\ \A j \in 1..m : NestingAt(Reduced(stack, r, m), elements, j)
<1>1. PICK l \in Nat : l = Len(stack) /\ l >= 1
  BY PathOfStates
<1>2. m \in 1..l
  BY <1>1, Handles
<1>3. PICK new : new = Reduced(stack, r, m)
  OBVIOUS
<1>4. PICK g : g = Goto(stack[m], At(yyr1, r))
  OBVIOUS
<1>5. Len(new) = m + 1 /\ new[m + 1] = g /\ \A i \in 1..m : new[i] = stack[i]
  BY <1>3, <1>4, ReducedStack
<1>6. \A i \in 0..m : Depth(new, i) = Depth(stack, i)
  BY <1>2, <1>5, DepthSame
<1>7. Depth(new, m + 1) = Len(elements) + One(g \in Begun)
  <2>1. m \in Nat /\ m \in 0..m
    BY <1>1, <1>2
  <2>2. Depth(new, m) = Len(elements)
    BY <1>6, <2>1, DepthUnderHandle
  <2>3. Depth(new, m + 1) = Depth(new, m) + One(new[m + 1] \in Begun)
    BY <2>1, DepthOf
  <2> QED
    BY <1>5, <2>2, <2>3, Zenon
<1>8. ASSUME NEW j \in 1..m
      PROVE  NestingAt(new, elements, j)
  <2>1. j \in 1..l /\ new[j] = stack[j] /\ Depth(new, j) = Depth(stack, j)
    BY <1>2, <1>5, <1>6
  <2>2. NestingAt(stack, elements, j)
    BY <1>1, <2>1 DEF Nesting
  <2>3. stack[j] = 21 /\ PastCommands(stack, j) => PastCommands(new, j)
    BY <1>3, PastKept
  <2> QED
    BY <2>1, <2>2, <2>3 DEF NestingAt, Told
<1> QED
  BY <1>3, <1>4, <1>6, <1>7, <1>8

\* An element begins or ends where its own rules are reduced and nowhere else.
LEMMA PlainTarget ==
    ASSUME NEW r \in 2..26, r \notin {10, 11, 17, 18}, NEW state, NEW target,
           GoesTo(r, state, target),
           r \in {7, 8} => state \in {1, 5}, r = 9 => state \in {6, 8, 31},
           r \in {12, 13} => state \in {11, 26}, r \in {25, 26} => state \in {42, 64}
    PROVE  target \notin {11, 19, 21, 29}
<1>1. CASE r \in 2..6
  <2>1. target = 1 \/ target = 4 \/ target = 5
    BY <1>1 DEF GoesTo
  <2> QED
    BY <2>1
<1>2. CASE r \in {7, 8}
  <2>1. target = 6 \/ target = 8
    BY <1>2 DEF GoesTo
  <2> QED
    BY <2>1
<1>3. CASE r = 9
  <2>1. target = 10 \/ target = 36
    BY <1>3 DEF GoesTo
  <2> QED
    BY <2>1
<1>4. CASE r \in {12, 13}
  <2>1. target = 14 \/ target = 31
    BY <1>4 DEF GoesTo
  <2> QED
    BY <2>1
<1>5. CASE r \in 14..16
  <2>1. target = 20 \/ target = 25
    BY <1>5 DEF GoesTo
  <2> QED
    BY <2>1
<1>6. CASE r \in 19..24
  <2>1. target = 26 \/ target = 32 \/ target = 45
    BY <1>6 DEF GoesTo
  <2> QED
    BY <2>1
<1>7. CASE r \in {25, 26}
  <2>1. target = 47 \/ target = 65
    BY <1>7 DEF GoesTo
  <2> QED
    BY <2>1
<1> QED
  BY <1>1, <1>2, <1>3, <1>4, <1>5, <1>6, <1>7

\* The rules that tell the builder nothing.
LEMMA NestingKept ==
    ASSUME NEW stack, Path(stack), NEW r, NEW m, Handle(stack, r, m),
           NEW elements, Len(elements) \in Nat, Nesting(stack, elements),
           r \notin {10, 11, 17, 18}
    PROVE  Nesting(Reduced(stack, r, m), elements)
<1>1. PICK new : new = Reduced(stack, r, m)
  OBVIOUS
<1>2. PICK g : g = Goto(stack[m], At(yyr1, r))
  OBVIOUS
<1>3. m \in Nat /\ r \in 2..26 /\ HandleIs(stack, r, m) /\ GoesTo(r, stack[m], g)
  <2>1. m \in 1..Len(stack) /\ Len(stack) \in Nat
    BY Handles, PathOfStates
  <2> QED
    BY <1>2, <2>1, Handles, GotoTarget
<1>4. Len(new) = m + 1 /\ new[m + 1] = g /\ Last(new) = g
  BY <1>1, <1>2, ReducedStack
<1>5. g \notin {11, 19, 21, 29}
  <2>1. /\ r \in {7, 8} => stack[m] \in {1, 5}
        /\ r = 9 => stack[m] \in {6, 8, 31}
        /\ r \in {12, 13} => stack[m] \in {11, 26}
        /\ r \in {25, 26} => stack[m] \in {42, 64}
    BY <1>3 DEF HandleIs
  <2> QED
    BY <1>3, <2>1, PlainTarget
<1>6. Ended(new) = 0 /\ One(g \in Begun) = 0
  BY <1>4, <1>5 DEF Ended, One, Begun
<1>7. Depth(new, m + 1) = Len(elements) /\ \A j \in 1..m : NestingAt(new, elements, j)
  BY <1>1, <1>2, <1>6, NestingBelow
<1>8. NestingAt(new, elements, m + 1)
  BY <1>4, <1>5 DEF NestingAt, Told, Begun
<1>9. \A j \in 1..(m + 1) : j \in 1..m \/ j = m + 1
  BY <1>3
<1> QED
  BY <1>1, <1>3, <1>4, <1>6, <1>7, <1>8, <1>9 DEF Nesting

\* Nothing has begun on the first states.
LEMMA NothingBegun ==
    ASSUME NEW stack, Path(stack), NEW i \in 1..Len(stack), stack[i] \in {0, 1, 5, 6, 8}
    PROVE  Depth(stack, i) = 0
<1>1. PICK l \in Nat : l = Len(stack) /\ l >= 1
  BY PathOfStates
<1> DEFINE C == {0, 1, 5, 6, 8}
           T == {k \in Nat : k \in 1..l /\ stack[k] \in C => Depth(stack, k) = 0}
<1>2. 0 \in T
  BY <1>1
<1>3. ASSUME NEW k \in Nat, k \in T
      PROVE  k + 1 \in T
  <2>1. SUFFICES ASSUME k + 1 \in 1..l, stack[k + 1] \in C
                 PROVE  Depth(stack, k + 1) = 0
    BY <1>3
  <2>2. Depth(stack, k + 1) = Depth(stack, k)
    <3>1. One(stack[k + 1] \in Begun) = 0
      BY <2>1 DEF One, Begun
    <3> QED
      BY <3>1, DepthOf
  <2>3. CASE k = 0
    <3>1. Depth(stack, 0) = 0
      BY MarkedNone DEF Depth
    <3> QED
      BY <2>2, <2>3, <3>1
  <2>4. CASE k # 0
    <3>1. k \in 1..l /\ k + 1 # 1
      BY <1>1, <2>1, <2>4
    <3>2. stack[k + 1] # 0 => stack[k] \in At(Beneath, stack[k + 1])
      <4>1. PICK n \in 1..Len(stack) : n = k + 1 /\ n - 1 = k
        BY <1>1, <2>1
      <4> QED
        BY <4>1, Under
    <3>3. stack[k + 1] # 0
      <4>1. stack[k] \in At(Beneath, stack[k + 1])
        <5>1. PICK n \in 2..Len(stack) : n = k + 1 /\ n - 1 = k
          BY <1>1, <2>1, <3>1
        <5> QED
          BY <5>1 DEF Path
      <4> QED
        BY <4>1, EachBeneath
    <3>4. \A c \in C : c # 0 => \A s \in At(Beneath, c) : s \in C
      BY EachBeneath
    <3>5. stack[k] \in C
      BY <2>1, <3>2, <3>3, <3>4, Zenon
    <3>6. Depth(stack, k) = 0
      BY <1>3, <3>1, <3>5
    <3> QED
      BY <2>2, <3>6
  <2> QED
    BY <2>3, <2>4
<1>4. i \in T
  <2> HIDE DEF T
  <2>1. \A k \in Nat : k \in T
    BY <1>2, <1>3, SetInduction, Zenon
  <2>2. i \in Nat
    BY <1>1
  <2> QED
    BY <2>1, <2>2
<1> QED
  BY <1>1, <1>4

\* The innermost element.
LEMMA InnermostIs ==
    ASSUME NEW stack, Path(stack), NEW elements, Len(elements) \in Nat,
           Nesting(stack, elements),
           NEW j \in 1..Len(stack), stack[j] \in Begun, Depth(stack, j) = Len(elements)
    PROVE  /\ Len(elements) >= 1
           /\ elements[Len(elements)].kind = IF stack[j] = 11 THEN "context" ELSE "command"
           /\ stack[j] = 21 /\ elements[Len(elements)].stage = "contexts"
                => PastCommands(stack, j)
<1>1. PICK k \in Nat : j = k + 1
  <2>1. Len(stack) \in Nat
    BY PathOfStates
  <2>2. j - 1 \in Nat /\ j = (j - 1) + 1
    BY <2>1
  <2> QED
    BY <2>2
<1>2. Depth(stack, j) = Depth(stack, k) + 1 /\ Depth(stack, k) \in Nat
  BY <1>1, DepthOf DEF One
<1>3. NestingAt(stack, elements, j)
  BY DEF Nesting
<1>4. Told(stack, elements, j)
  BY DEF Told
<1> QED
  BY <1>2, <1>3, <1>4 DEF NestingAt

\* Where the innermost element has begun.
LEMMA InnermostBelow ==
    ASSUME NEW stack, Path(stack), NEW m \in 1..Len(stack), stack[m] \in {14, 25, 31}
    PROVE  \E j \in 1..Len(stack) :
               /\ j < m /\ Depth(stack, j) = Depth(stack, m)
               /\ stack[j] = IF stack[m] = 14 THEN 11 ELSE 21
               /\ stack[m] = 31 => j = m - 2 /\ stack[j + 1] = 26
<1>1. PICK l \in Nat : l = Len(stack) /\ l >= 1
  BY PathOfStates
<1>2. m \in Nat /\ m \in 1..l
  BY <1>1
<1>3. PICK k \in Nat : m = k + 1
  <2>1. m - 1 \in Nat /\ m = (m - 1) + 1
    BY <1>2
  <2> QED
    BY <2>1
<1>4. k \in 1..l /\ stack[k] \in At(Beneath, stack[m])
  <2>1. m - 1 \in 1..l /\ stack[m - 1] \in At(Beneath, stack[m])
    BY <1>1, <1>2, Under
  <2>2. m - 1 = k
    BY <1>3
  <2> QED
    BY <2>1, <2>2
<1>5. Depth(stack, m) = Depth(stack, k) /\ Depth(stack, k) \in Nat
  <2>1. One(stack[m] \in Begun) = 0
    BY DEF One, Begun
  <2> QED
    BY <1>3, <2>1, DepthOf
<1>6. CASE stack[m] # 31
  <2>1. stack[k] = IF stack[m] = 14 THEN 11 ELSE 21
    BY <1>4, <1>6, EachBeneath
  <2>2. k < m
    BY <1>3
  <2> QED
    BY <1>1, <1>4, <1>5, <1>6, <2>1, <2>2
<1>7. CASE stack[m] = 31
  <2>1. stack[k] = 26
    BY <1>4, <1>7, EachBeneath
  <2>2. k - 1 \in 1..l /\ stack[k - 1] \in At(Beneath, 26)
    BY <1>1, <1>4, <2>1, Under
  <2>3. stack[k - 1] = 21
    BY <2>2, EachBeneath
  <2>4. k - 1 = m - 2 /\ (k - 1) + 1 = k /\ k - 1 < m /\ k - 1 \in Nat
    BY <1>3, <2>2
  <2>5. Depth(stack, (k - 1) + 1) = Depth(stack, k - 1) /\ Depth(stack, k - 1) \in Nat
    <3>1. One(stack[(k - 1) + 1] \in Begun) = 0
      BY <2>1, <2>4 DEF One, Begun
    <3> QED
      BY <2>4, <3>1, DepthOf
  <2>6. PICK j \in 1..l : j = k - 1
    BY <2>2
  <2>7. Depth(stack, j) = Depth(stack, m)
    BY <1>5, <2>4, <2>5, <2>6
  <2>8. j < m /\ j = m - 2 /\ stack[j] = 21 /\ stack[j + 1] = 26
    BY <2>1, <2>3, <2>4, <2>6
  <2> QED
    BY <1>1, <1>7, <2>7, <2>8
<1> QED
  BY <1>6, <1>7

\* There is an element where one ends.
LEMMA SomethingEnds ==
    ASSUME NEW stack, Path(stack), NEW r, NEW m, Handle(stack, r, m),
           NEW elements, Len(elements) \in Nat, Nesting(stack, elements), r \in {11, 18}
    PROVE  Len(elements) >= 1
<1>1. m \in 1..Len(stack) /\ HandleIs(stack, r, m)
  BY Handles
<1>2. stack[m] \in {14, 25}
  BY <1>1 DEF HandleIs
<1>3. PICK j \in 1..Len(stack) : Depth(stack, j) = Depth(stack, m) /\ stack[j] \in Begun
  BY <1>1, <1>2, InnermostBelow DEF Begun
<1>4. Depth(stack, m) = Len(elements)
  BY DepthUnderHandle
<1> QED
  BY <1>3, <1>4, InnermostIs

\* The end of an element is told of before its last symbol is off the stack.
LEMMA NestingEnds ==
    ASSUME NEW stack, Path(stack), NEW r, NEW m, Handle(stack, r, m),
           NEW elements, Len(elements) \in Nat, Nesting(stack, elements), r \in {11, 18},
           NEW others, Len(others) = Len(elements) - 1,
           \A i \in 1..Len(others) : others[i] = elements[i]
    PROVE  Nesting(Reduced(stack, r, m), others)
<1>1. PICK new : new = Reduced(stack, r, m)
  OBVIOUS
<1>2. PICK g : g = Goto(stack[m], At(yyr1, r))
  OBVIOUS
<1>3. /\ m \in 1..Len(stack) /\ Len(stack) \in Nat
      /\ HandleIs(stack, r, m) /\ GoesTo(r, stack[m], g)
  BY <1>2, Handles, PathOfStates, GotoTarget
<1>4. /\ Len(new) = m + 1 /\ Last(new) = g /\ new[m + 1] = g
      /\ \A j \in 1..m : new[j] = stack[j]
  BY <1>1, <1>2, ReducedStack
<1>5. stack[m] \in {14, 25} /\ g \in {19, 29}
  BY <1>3 DEF HandleIs, GoesTo
<1>6. Len(elements) >= 1
  BY SomethingEnds
<1>7. Ended(new) = 1 /\ One(g \in Begun) = 0 /\ g \notin Begun
  BY <1>4, <1>5 DEF Ended, One, Begun
<1>8. Depth(new, m + 1) = Len(elements) /\ \A j \in 1..m : NestingAt(new, elements, j)
  BY <1>1, <1>2, <1>7, NestingBelow
<1>9. ASSUME NEW j \in 1..m
      PROVE  NestingAt(new, others, j)
  <2>1. SUFFICES ASSUME Told(new, others, j)
                 PROVE  NestingAt(new, others, j)
    BY DEF NestingAt
  <2>2. new[j] \in Begun /\ Depth(new, j) <= Len(others)
    BY <2>1 DEF Told
  <2>3. Depth(new, j) \in 1..Len(others)
    <3>1. PICK k \in Nat : j = k + 1
      <4>1. j - 1 \in Nat /\ j = (j - 1) + 1
        BY <1>3
      <4> QED
        BY <4>1
    <3>2. Depth(new, j) = Depth(new, k) + 1 /\ Depth(new, k) \in Nat
      BY <2>2, <3>1, DepthOf DEF One
    <3> QED
      BY <2>2, <3>2
  <2>4. others[Depth(new, j)] = elements[Depth(new, j)]
    BY <2>3
  <2>5. Told(new, elements, j)
    BY <2>2, <2>3 DEF Told
  <2> QED
    BY <1>8, <2>4, <2>5 DEF NestingAt
<1>10. NestingAt(new, others, m + 1)
  BY <1>4, <1>7 DEF NestingAt, Told
<1>11. \A j \in 1..(m + 1) : j \in 1..m \/ j = m + 1
  BY <1>3
<1>12. \A j \in 1..(m + 1) : NestingAt(new, others, j)
  BY <1>9, <1>10, <1>11
<1>13. Depth(new, m + 1) = Len(others) + Ended(new)
  BY <1>7, <1>8
<1> QED
  BY <1>1, <1>4, <1>12, <1>13 DEF Nesting

\* The beginning of an element is told of in the one it is read in, and only where the
\* document has a place for it.
LEMMA NestingBegins ==
    ASSUME NEW stack, Path(stack), NEW r, NEW m, Handle(stack, r, m),
           NEW elements, Len(elements) \in Nat, Nesting(stack, elements), r \in {10, 17},
           NEW kind, kind = IF r = 10 THEN "context" ELSE "command",
           NEW stage, stage = IF r = 10 THEN "contexts" ELSE "commands",
           NEW others, Len(others) = Len(elements) + 1,
           \A i \in 1..Len(elements) :
               /\ others[i].kind = elements[i].kind
               /\ others[i].stage = IF i = Len(elements) /\ elements[i].kind = "command"
                                    THEN stage ELSE elements[i].stage,
           others[Len(others)] = Element(kind)
    PROVE  /\ Nesting(Reduced(stack, r, m), others)
           /\ r = 10 /\ Len(elements) >= 1 => elements[Len(elements)].kind = "command"
           /\ r = 17 =>
                /\ Len(elements) >= 1
                /\ \/ elements[Len(elements)].kind = "context"
                   \/ /\ elements[Len(elements)].kind = "command"
                      /\ elements[Len(elements)].stage # "contexts"
<1>1. PICK new : new = Reduced(stack, r, m)
  OBVIOUS
<1>2. PICK g : g = Goto(stack[m], At(yyr1, r))
  OBVIOUS
<1>3. PICK n \in Nat : n = Len(elements)
  OBVIOUS
<1>4. /\ m \in 1..Len(stack) /\ Len(stack) \in Nat
      /\ HandleIs(stack, r, m) /\ GoesTo(r, stack[m], g)
  BY <1>2, Handles, PathOfStates, GotoTarget
<1>5. /\ Len(new) = m + 1 /\ Last(new) = g /\ new[m + 1] = g
      /\ \A j \in 1..m : new[j] = stack[j]
  BY <1>1, <1>2, ReducedStack
<1>6. Depth(stack, m) = n
  BY <1>3, DepthUnderHandle
<1>7. g = (IF r = 10 THEN 11 ELSE 21) /\ g \in Begun
  BY <1>4 DEF GoesTo, Begun
<1>8. Ended(new) = 0 /\ One(g \in Begun) = 1
  BY <1>5, <1>7 DEF Ended, One, Begun
<1>9. /\ Depth(new, m + 1) = n + 1
      /\ \A j \in 1..m : NestingAt(new, elements, j) /\ Depth(new, j) = Depth(stack, j)
  <2>1. \A j \in 1..m : j \in 0..m
    OBVIOUS
  <2> QED
    BY <1>1, <1>2, <1>3, <1>8, <2>1, NestingBelow
<1>10. r = 10 /\ stack[m] # 31 => n = 0
  <2>1. r = 10 /\ stack[m] # 31 => stack[m] \in {0, 1, 5, 6, 8}
    BY <1>4 DEF HandleIs
  <2> QED
    BY <1>4, <1>6, <2>1, NothingBegun
<1>11. r = 17 \/ stack[m] = 31 => stack[m] \in {14, 31}
  BY <1>4 DEF HandleIs
<1>12. ASSUME NEW j \in 1..Len(stack), Depth(stack, j) = n,
              stack[j] = IF stack[m] = 14 THEN 11 ELSE 21
       PROVE  /\ n >= 1
              /\ elements[n].kind = IF stack[m] = 14 THEN "context" ELSE "command"
              /\ stack[m] # 14 /\ elements[n].stage = "contexts" => PastCommands(stack, j)
  <2>1. /\ stack[j] \in Begun /\ (stack[j] = 11 <=> stack[m] = 14)
        /\ (stack[m] # 14 => stack[j] = 21)
    BY <1>12 DEF Begun
  <2>2. /\ n >= 1 /\ elements[n].kind = (IF stack[j] = 11 THEN "context" ELSE "command")
        /\ stack[j] = 21 /\ elements[n].stage = "contexts" => PastCommands(stack, j)
    BY <1>3, <1>12, <2>1, InnermostIs
  <2> QED
    BY <2>1, <2>2
<1>13. r = 10 /\ n >= 1 => elements[n].kind = "command"
  <2>1. SUFFICES ASSUME r = 10, n >= 1
                 PROVE  elements[n].kind = "command"
    OBVIOUS
  <2>2. stack[m] = 31
    BY <1>10, <2>1
  <2>3. PICK j \in 1..Len(stack) :
            Depth(stack, j) = n /\ stack[j] = IF stack[m] = 14 THEN 11 ELSE 21
    BY <1>4, <1>6, <2>2, InnermostBelow
  <2> QED
    BY <1>12, <2>2, <2>3
<1>14. r = 17 =>
         /\ n >= 1
         /\ \/ elements[n].kind = "context"
            \/ elements[n].kind = "command" /\ elements[n].stage # "contexts"
  <2>1. SUFFICES ASSUME r = 17
                 PROVE  /\ n >= 1
                        /\ \/ elements[n].kind = "context"
                           \/ elements[n].kind = "command" /\ elements[n].stage # "contexts"
    OBVIOUS
  <2>2. stack[m] \in {14, 31}
    BY <1>11, <2>1
  <2>3. PICK j \in 1..Len(stack) :
            /\ Depth(stack, j) = n /\ stack[j] = IF stack[m] = 14 THEN 11 ELSE 21
            /\ stack[m] = 31 => j = m - 2 /\ stack[j + 1] = 26
    BY <1>4, <1>6, <2>2, InnermostBelow
  <2>4. /\ n >= 1
        /\ elements[n].kind = IF stack[m] = 14 THEN "context" ELSE "command"
        /\ stack[m] # 14 /\ elements[n].stage = "contexts" => PastCommands(stack, j)
    BY <1>12, <2>3
  <2>5. stack[m] = 31 => ~ PastCommands(stack, j)
    <3>1. stack[m + 1] = 17
      BY <1>4, <2>1 DEF HandleIs
    <3>2. m \in Nat /\ (j = m - 2 => j + 3 = m + 1)
      BY <1>4
    <3> SUFFICES ASSUME stack[m] = 31
                 PROVE  ~ PastCommands(stack, j)
      OBVIOUS
    <3>3. stack[j + 1] = 26 /\ stack[j + 3] = 17
      <4>1. j = m - 2 /\ stack[j + 1] = 26
        BY <2>3
      <4> QED
        BY <3>1, <3>2, <4>1, Zenon
    <3> QED
      BY <3>3 DEF PastCommands
  <2> QED
    BY <2>2, <2>4, <2>5
<1>15. ASSUME NEW i \in 1..m
       PROVE  NestingAt(new, others, i)
  <2>1. SUFFICES ASSUME Told(new, others, i)
                 PROVE  NestingAt(new, others, i)
    BY DEF NestingAt
  <2>2. i \in Nat /\ i <= m /\ m \in Nat /\ i \in 1..Len(stack) /\ new[i] = stack[i]
    BY <1>4, <1>5
  <2>3. PICK d : d = Depth(new, i)
    OBVIOUS
  <2>4. d = Depth(stack, i) /\ d \in 1..n
    <3>1. PICK k \in Nat : i = k + 1
      <4>1. i - 1 \in Nat /\ i = (i - 1) + 1
        BY <2>2
      <4> QED
        BY <4>1
    <3>2. new[i] \in Begun
      BY <2>1 DEF Told
    <3>3. Depth(new, i) = Depth(new, k) + 1 /\ Depth(new, k) \in Nat
      BY <3>1, <3>2, DepthOf DEF One
    <3>4. Depth(stack, i) <= n
      BY <1>6, <2>2, Deeper
    <3> QED
      BY <1>9, <2>3, <3>3, <3>4
  <2>5. /\ elements[d].kind = IF new[i] = 11 THEN "context" ELSE "command"
        /\ new[i] = 21 /\ elements[d].stage = "contexts" => PastCommands(new, i)
    <3>1. Told(new, elements, i)
      BY <1>3, <2>1, <2>3, <2>4 DEF Told
    <3>2. NestingAt(new, elements, i)
      BY <1>9
    <3> QED
      BY <2>3, <3>1, <3>2 DEF NestingAt
  <2>6. /\ others[d].kind = elements[d].kind
        /\ others[d].stage = IF d = n /\ elements[d].kind = "command"
                             THEN stage ELSE elements[d].stage
    BY <1>3, <2>4
  <2>7. new[i] = 21 /\ others[d].stage = "contexts" => PastCommands(new, i)
    <3>1. SUFFICES ASSUME new[i] = 21, others[d].stage = "contexts"
                   PROVE  PastCommands(new, i)
      OBVIOUS
    <3>2. CASE d # n
      BY <2>5, <2>6, <3>1, <3>2
    <3>3. CASE d = n
      <4>1. r = 10
        BY <2>5, <2>6, <3>1, <3>3
      <4>2. stack[m] = 31
        BY <1>10, <2>4, <4>1
      <4>3. PICK j \in 1..Len(stack) :
                /\ Depth(stack, j) = n /\ stack[j] = 21 /\ j = m - 2
        BY <1>4, <1>6, <4>2, InnermostBelow
      <4>4. j \in Nat /\ j + 3 = m + 1
        BY <1>4, <4>3
      <4>5. i = j
        <5>1. stack[i] \in Begun /\ stack[j] \in Begun
          BY <2>2, <3>1, <4>3 DEF Begun
        <5>2. Depth(stack, i) = n /\ Depth(stack, j) = n
          BY <2>4, <3>3, <4>3
        <5>3. ~ (i < j) /\ ~ (j < i)
          BY <2>2, <4>4, <5>1, <5>2, Deeper
        <5> QED
          BY <2>2, <4>4, <5>3
      <4>6. new[m + 1] = 11 /\ Len(new) = m + 1
        BY <1>5, <1>7, <4>1
      <4>7. i + 3 <= Len(new) /\ new[i + 3] \in {11, 36}
        BY <2>2, <4>4, <4>5, <4>6
      <4> QED
        BY <4>7 DEF PastCommands
    <3> QED
      BY <3>2, <3>3
  <2> QED
    BY <2>3, <2>5, <2>6, <2>7 DEF NestingAt
<1>16. NestingAt(new, others, m + 1)
  <2>1. others[n + 1] = Element(kind)
    BY <1>3
  <2>2. /\ others[n + 1].kind = IF new[m + 1] = 11 THEN "context" ELSE "command"
        /\ others[n + 1].stage # "contexts"
    BY <1>5, <1>7, <2>1 DEF Element
  <2> QED
    BY <1>9, <2>2 DEF NestingAt
<1>17. \A j \in 1..(m + 1) : NestingAt(new, others, j)
  <2>1. \A j \in 1..(m + 1) : j \in 1..m \/ j = m + 1
    BY <1>4
  <2> QED
    BY <1>15, <1>16, <2>1
<1>18. Nesting(new, others)
  <2>1. Depth(new, m + 1) = Len(others) + Ended(new)
    BY <1>3, <1>8, <1>9
  <2> QED
    BY <1>5, <1>17, <2>1 DEF Nesting
<1> QED
  BY <1>1, <1>3, <1>13, <1>14, <1>18

-----------------------------------------------------------------------------
(* The steps.                                                              *)

LEMMA TextsOfOne ==
    /\ Texts(<<>>) = 0
    /\ \A c : Texts(<<c>>) = One(c \in Text)
<1>1. Texts(<<>>) = 0
  <2>1. {i \in DOMAIN <<>> : <<>>[i] \in Text} = {}
    OBVIOUS
  <2> QED
    BY <2>1, FS_EmptySet DEF Texts
<1>2. ASSUME NEW c
      PROVE  Texts(<<c>>) = One(c \in Text)
  <2>1. CASE c \in Text
    <3>1. {i \in DOMAIN <<c>> : <<c>>[i] \in Text} = {1}
      BY <2>1
    <3> QED
      BY <2>1, <3>1, FS_Singleton DEF Texts, One
  <2>2. CASE c \notin Text
    <3>1. {i \in DOMAIN <<c>> : <<c>>[i] \in Text} = {}
      BY <2>2
    <3> QED
      BY <2>2, <3>1, FS_EmptySet DEF Texts, One
  <2> QED
    BY <2>1, <2>2
<1> QED
  BY <1>1, <1>2

LEMMA LookaheadOwns ==
    /\ Texts(Lookahead) = One(yychar # YYEMPTY /\ yychar \in Text)
    /\ Texts(Lookahead) \in Nat
<1>1. CASE yychar = YYEMPTY
  BY <1>1, TextsOfOne DEF Lookahead, One
<1>2. CASE yychar # YYEMPTY
  BY <1>2, TextsOfOne DEF Lookahead, One
<1> QED
  BY <1>1, <1>2

\* The stack of a parser that has not begun, or has returned.
LEMMA EmptyStack ==
    /\ Path(<<0>>) /\ Len(<<0>>) = 1 /\ Last(<<0>>) = 0
    /\ Texts(Symbols(<<0>>)) = 0
<1>1. Len(<<0>>) = 1 /\ <<0>>[1] = 0 /\ Last(<<0>>) = 0
  BY DEF Last
<1>2. <<0>> \in Seq(States)
  BY DEF States
<1>3. Path(<<0>>)
  BY <1>1, <1>2 DEF Path
<1>4. Held(<<0>>) = 0
  <2>1. \A j \in (0 + 1)..Len(<<0>>) : <<0>>[j] \notin TextStates
    BY <1>1 DEF TextStates
  <2> QED
    BY <2>1, MarkedNone DEF Held
<1> QED
  BY <1>1, <1>3, <1>4, TextsAreHeld

\* What a new state leaves, whether there is room for it or not.
LEMMA NewStateKeeps ==
    ASSUME NEW stack, Path(stack), NEW lookahead, lookahead \in {<<>>, Lookahead},
           NEW d, NEW v, NEW held \in Int,
           held = Texts(Symbols(stack)) + Texts(lookahead) + One(d) + One(v),
           yychar \in Tokens \cup {YYEMPTY}, yyresult = "parsing",
           NewState(stack, lookahead, held)
    PROVE  /\ StackInv'
           /\ yychar' \in Tokens \cup {YYEMPTY}
           /\ yyresult' \in {"parsing", "accepted", "exhausted"}
           /\ texts' \in Nat
           /\ texts' = Texts(Symbols(yyss')) + Texts(Lookahead') + One(d) + One(v)
           /\ yyresult' = "parsing" => yyss' = stack
           /\ yyresult' = "accepted" => Last(stack) = YYFINAL
<1>1. /\ Texts(Symbols(stack)) \in Nat /\ Texts(lookahead) \in Nat
      /\ One(d) \in Nat /\ One(v) \in Nat /\ Len(stack) \in Nat
  <2>1. Texts(lookahead) \in Nat
    BY TextsOfOne, LookaheadOwns
  <2> QED
    BY <2>1, TextsAreHeld, PathOfStates DEF One
<1>2. ASSUME CleanUp(stack, lookahead, held), yyresult' \in {"accepted", "exhausted"},
             yyresult' = "accepted" => Last(stack) = YYFINAL
      PROVE  /\ StackInv'
             /\ yychar' \in Tokens \cup {YYEMPTY}
             /\ yyresult' \in {"parsing", "accepted", "exhausted"}
             /\ texts' \in Nat
             /\ texts' = Texts(Symbols(yyss')) + Texts(Lookahead') + One(d) + One(v)
             /\ yyresult' = "parsing" => yyss' = stack
             /\ yyresult' = "accepted" => Last(stack) = YYFINAL
  <2>1. /\ yyss' = <<0>> /\ yychar' = YYEMPTY
        /\ texts' = held - Texts(Symbols(stack)) - Texts(lookahead)
    BY <1>2 DEF CleanUp
  <2>2. StackInv'
    BY <2>1, EmptyStack, ParserAssumption DEF StackInv, Top, YYFINAL
  <2>3. texts' = One(d) + One(v)
    BY <1>1, <2>1
  <2>4. Texts(Symbols(yyss')) = 0 /\ Texts(Lookahead') = 0
    BY <2>1, EmptyStack, TextsOfOne DEF Lookahead
  <2>5. yychar' \in Tokens \cup {YYEMPTY}
    BY <2>1
  <2>6. texts' \in Nat /\ texts' = Texts(Symbols(yyss')) + Texts(Lookahead') + One(d) + One(v)
    BY <1>1, <2>3, <2>4
  <2> QED
    BY <1>2, <2>2, <2>5, <2>6
<1>3. CASE Len(stack) >= YYINITDEPTH
  BY <1>2, <1>3 DEF NewState
<1>4. CASE Len(stack) < YYINITDEPTH /\ Last(stack) = YYFINAL
  BY <1>1, <1>2, <1>4, ParserAssumption DEF NewState
<1>5. CASE Len(stack) < YYINITDEPTH /\ Last(stack) # YYFINAL
  <2>1. /\ yyss' = stack /\ texts' = held /\ yyresult' = yyresult
        /\ yychar' = IF lookahead = <<>> THEN YYEMPTY ELSE yychar
    BY <1>1, <1>5, ParserAssumption DEF NewState
  <2>2. StackInv'
    BY <1>5, <2>1 DEF StackInv, Top
  <2>3. Lookahead' = lookahead
    <3>1. CASE lookahead = <<>>
      BY <2>1, <3>1 DEF Lookahead
    <3>2. CASE lookahead # <<>>
      BY <2>1, <3>2 DEF Lookahead
    <3> QED
      BY <3>1, <3>2
  <2>4. yychar' \in Tokens \cup {YYEMPTY}
    BY <2>1
  <2>5. texts' \in Nat /\ texts' = Texts(Symbols(yyss')) + Texts(Lookahead') + One(d) + One(v)
    BY <1>1, <2>1, <2>3
  <2> QED
    BY <2>1, <2>2, <2>4, <2>5
<1>6. YYINITDEPTH \in Nat
  BY ParserAssumption
<1> QED
  BY <1>1, <1>3, <1>4, <1>5, <1>6

LEMMA InitInv == ParserInit => ParserInv
<1> SUFFICES ASSUME ParserInit
             PROVE  ParserInv
  OBVIOUS
<1>1. /\ yyss = <<0>> /\ yychar = YYEMPTY /\ yyresult = "parsing"
      /\ description = FALSE /\ values = FALSE /\ texts = 0 /\ open = <<>>
  BY DEF ParserInit
<1>2. StackInv
  BY <1>1, EmptyStack, ParserAssumption DEF StackInv, Top, YYFINAL
<1>3. RegisterInv
  <2>1. open \in Seq(Elements)
    BY <1>1
  <2> QED
    BY <1>1, <2>1 DEF RegisterInv
<1>4. TextsOwned
  BY <1>1, EmptyStack, TextsOfOne DEF TextsOwned, Lookahead, One
<1>5. Nesting(<<0>>, <<>>)
  <2>1. Depth(<<0>>, 1) = 0
    <3>1. \A j \in (0 + 1)..1 : <<0>>[j] \notin Begun
      BY DEF Begun
    <3> QED
      BY <3>1, MarkedNone DEF Depth
  <2>2. Ended(<<0>>) = 0
    BY EmptyStack DEF Ended, One
  <2>3. \A j \in 1..1 : NestingAt(<<0>>, <<>>, j)
    BY DEF NestingAt, Told, Begun
  <2> QED
    BY <2>1, <2>2, <2>3, EmptyStack DEF Nesting
<1>6. NestingInv
  BY <1>1, <1>5 DEF NestingInv
<1>7. GlobalsWait(yyss, description, values)
  BY <1>1 DEF GlobalsWait
<1> QED
  BY <1>2, <1>3, <1>4, <1>6, <1>7 DEF ParserInv

LEMMA TopIsState ==
    ASSUME ParserInv
    PROVE  Path(yyss) /\ Top \in 0..66 /\ Top = Last(yyss) /\ Top # YYFINAL
<1>1. Path(yyss) /\ Top # YYFINAL
  BY DEF ParserInv, StackInv
<1> QED
  BY <1>1, PathOfStates DEF Top, Last

LEMMA ReadTokenKeeps ==
    ASSUME ParserInv, ReadToken
    PROVE  ParserInv'
<1>1. /\ yyresult = "parsing" /\ yychar = YYEMPTY /\ yychar' \in Tokens
      /\ texts' = texts + Texts(<<yychar'>>)
      /\ UNCHANGED <<yyss, yyresult, description, values, open>>
  BY DEF ReadToken
<1>2. yychar' # YYEMPTY
  BY <1>1 DEF Tokens, YYNTOKENS, YYEMPTY
<1>3. StackInv'
  BY <1>1 DEF ParserInv, StackInv, Top
<1>4. /\ Texts(Lookahead) = 0 /\ Texts(Lookahead') = Texts(<<yychar'>>)
      /\ Texts(<<yychar'>>) \in Nat
  BY <1>1, <1>2, TextsOfOne DEF Lookahead, One
<1>5. RegisterInv'
  BY <1>1, <1>4 DEF ParserInv, RegisterInv
<1>6. TextsOwned'
  <2>1. /\ Texts(Symbols(yyss)) \in Nat /\ One(description) \in Nat /\ One(values) \in Nat
    BY TopIsState, TextsAreHeld DEF One
  <2>2. texts = Texts(Symbols(yyss)) + Texts(Lookahead) + One(description) + One(values)
    BY DEF ParserInv, TextsOwned
  <2>3. texts' = Texts(Symbols(yyss)) + Texts(Lookahead') + One(description) + One(values)
    BY <1>1, <1>4, <2>1, <2>2
  <2> QED
    BY <1>1, <2>3 DEF TextsOwned
<1>7. NestingInv'
  BY <1>1 DEF ParserInv, NestingInv
<1>8. GlobalsWait(yyss, description, values)' /\ yyresult' = "parsing"
  BY <1>1 DEF ParserInv
<1> QED
  BY <1>3, <1>5, <1>6, <1>7, <1>8 DEF ParserInv

LEMMA ShiftKeeps ==
    ASSUME ParserInv, Shift
    PROVE  ParserInv'
<1>1. /\ Path(yyss) /\ Top \in 0..66 /\ Top = Last(yyss)
      /\ yychar \in Tokens \cup {YYEMPTY} /\ yyresult = "parsing"
  BY TopIsState DEF ParserInv, RegisterInv, Shift, Decided
<1>2. PICK t : t = -Decision
  OBVIOUS
<1>3. PICK s : s = Append(yyss, t)
  OBVIOUS
<1>4. /\ NewState(s, <<>>, texts)
      /\ UNCHANGED <<description, values, open>>
  BY <1>2, <1>3 DEF Shift
<1>5. /\ yychar # YYEMPTY /\ t \in 1..66 /\ Last(yyss) \in At(Beneath, t)
      /\ At(yystos, t) = yychar
  BY <1>1, <1>2, ShiftTarget DEF Shift
<1>6. Path(s) /\ Last(s) = t
  BY <1>1, <1>3, <1>5, Pushed
<1>7. t \notin {11, 19, 21, 29} /\ (t \in TextStates <=> yychar \in Text)
  <2>1. yychar \in Tokens
    BY <1>1, <1>5
  <2>2. yychar < 37
    BY <2>1 DEF Tokens, YYNTOKENS
  <2>3. \A q \in 1..66 : /\ q \in {11, 19, 21, 29} => At(yystos, q) \in {43, 44, 48, 49}
                         /\ q \in TextStates <=> At(yystos, q) \in {23, 25}
    BY DEF At, yystos, TextStates
  <2>4. Text = {23, 25}
    BY NumberOfNames DEF Text
  <2> QED
    BY <1>5, <2>2, <2>3, <2>4
<1>8. texts \in Int /\ texts = Texts(Symbols(s)) + Texts(<<>>) + One(description) + One(values)
  <2>1. texts \in Nat /\ texts
            = Texts(Symbols(yyss)) + Texts(Lookahead) + One(description) + One(values)
    BY DEF ParserInv, RegisterInv, TextsOwned
  <2>2. Texts(Lookahead) = One(t \in TextStates)
    BY <1>5, <1>7, LookaheadOwns
  <2>3. Texts(Symbols(s)) = Texts(Symbols(yyss)) + One(t \in TextStates)
    BY <1>1, <1>3, <1>5, <1>6, HeldPushed, TextsAreHeld
  <2>4. Texts(Symbols(yyss)) \in Nat /\ One(t \in TextStates) \in Nat
    BY <1>1, TextsAreHeld DEF One
  <2> QED
    BY <2>1, <2>2, <2>3, <2>4, TextsOfOne
<1>9. /\ StackInv'
      /\ yychar' \in Tokens \cup {YYEMPTY}
      /\ yyresult' \in {"parsing", "accepted", "exhausted"}
      /\ texts' \in Nat
      /\ texts' = Texts(Symbols(yyss')) + Texts(Lookahead') + One(description) + One(values)
      /\ yyresult' = "parsing" => yyss' = s
      /\ yyresult' = "accepted" => Last(s) = YYFINAL
  <2>1. <<>> \in {<<>>, Lookahead}
    OBVIOUS
  <2> QED
    BY <1>1, <1>4, <1>6, <1>8, <2>1, NewStateKeeps
<1>10. RegisterInv'
  BY <1>4, <1>9 DEF ParserInv, RegisterInv
<1>11. TextsOwned'
  BY <1>4, <1>9 DEF TextsOwned
<1>12. Nesting(yyss, open) /\ GlobalsWait(yyss, description, values)
  BY <1>1 DEF ParserInv, NestingInv
<1>13. open \in Seq(Elements) /\ Len(open) \in Nat
  <2>1. open \in Seq(Elements)
    BY DEF ParserInv, RegisterInv
  <2> QED
    BY <2>1
<1>14. Nesting(s, open) /\ GlobalsWait(s, description, values)
  BY <1>1, <1>3, <1>5, <1>7, <1>12, <1>13, NestingPushed, GlobalsWaitPushed
<1>15. t = YYFINAL => open = <<>>
  <2>1. SUFFICES ASSUME t = YYFINAL
                 PROVE  Len(open) = 0
    BY <1>13
  <2>2. Last(yyss) = 1
    BY <1>5, <2>1, EachBeneath DEF YYFINAL
  <2>3. Depth(yyss, Len(yyss)) = 0
    <3>1. Len(yyss) \in 1..Len(yyss) /\ yyss[Len(yyss)] = 1
      BY <1>1, <2>2, PathOfStates DEF Last
    <3> QED
      BY <1>1, <3>1, NothingBegun
  <2>4. Ended(yyss) = 0
    BY <2>2 DEF Ended, One
  <2> QED
    BY <1>12, <1>13, <2>3, <2>4 DEF Nesting
<1>16. NestingInv'
  BY <1>4, <1>6, <1>9, <1>14, <1>15 DEF NestingInv
<1>17. yyresult' = "parsing" => GlobalsWait(yyss, description, values)'
  BY <1>4, <1>9, <1>14
<1> QED
  BY <1>9, <1>10, <1>11, <1>16, <1>17 DEF ParserInv

\* The states gone to hold no text.
LEMMA TextlessTarget ==
    ASSUME NEW r \in 2..26, NEW state, NEW target, GoesTo(r, state, target),
           r \in {7, 8} => state \in {1, 5}, r = 9 => state \in {6, 8, 31},
           r \in {12, 13} => state \in {11, 26}, r \in {25, 26} => state \in {42, 64}
    PROVE  target \notin TextStates
BY DEF GoesTo, TextStates

\* A reduction takes the texts of its right side from the stack and no others.
LEMMA TextsReduced ==
    ASSUME NEW stack, Path(stack), NEW r, NEW m, Handle(stack, r, m)
    PROVE  Texts(Symbols(stack)) = Texts(Symbols(Reduced(stack, r, m))) + TextsOf(r)
<1>1. PICK new : new = Reduced(stack, r, m)
  OBVIOUS
<1>2. PICK g : g = Goto(stack[m], At(yyr1, r))
  OBVIOUS
<1>3. PICK l \in Nat : l = Len(stack) /\ m \in 1..l
  BY Handles, PathOfStates
<1>4. r \in 2..26 /\ HandleIs(stack, r, m) /\ GoesTo(r, stack[m], g)
  BY <1>2, Handles, GotoTarget
<1>5. g \notin TextStates
  <2>1. /\ r \in {7, 8} => stack[m] \in {1, 5}
        /\ r = 9 => stack[m] \in {6, 8, 31}
        /\ r \in {12, 13} => stack[m] \in {11, 26}
        /\ r \in {25, 26} => stack[m] \in {42, 64}
    BY <1>4 DEF HandleIs
  <2> QED
    BY <1>4, <2>1, TextlessTarget
<1>6. /\ Path(new) /\ Len(new) = m + 1 /\ new[m + 1] = g
      /\ \A j \in 1..m : new[j] = stack[j]
  BY <1>1, <1>2, ReducedStack
<1>7. m \in Nat /\ m <= l
  BY <1>3
<1>8. Held(stack) = Cardinality(Marked(stack, 0, m, TextStates)) + TextsOf(r)
  <2>1. Cardinality(Marked(stack, 0, l, TextStates))
            = Cardinality(Marked(stack, 0, m, TextStates))
                + Cardinality(Marked(stack, m, l, TextStates))
    BY <1>3, <1>7, MarkedSplit
  <2>2. Cardinality(Marked(stack, m, l, TextStates)) = TextsOf(r)
    BY <1>3, TextsOfHandle
  <2> QED
    BY <1>3, <2>1, <2>2 DEF Held
<1>9. Held(new) = Cardinality(Marked(stack, 0, m, TextStates))
  <2>1. Cardinality(Marked(new, 0, m + 1, TextStates))
            = Cardinality(Marked(new, 0, m, TextStates)) + One(new[m + 1] \in TextStates)
    BY <1>7, MarkedNext
  <2>2. One(new[m + 1] \in TextStates) = 0
    BY <1>5, <1>6 DEF One
  <2>3. Marked(new, 0, m, TextStates) = Marked(stack, 0, m, TextStates)
    BY <1>6, <1>7, MarkedSame
  <2>4. Cardinality(Marked(stack, 0, m, TextStates)) \in Nat
    BY <1>7, MarkedFinite
  <2> QED
    BY <1>6, <2>1, <2>2, <2>3, <2>4 DEF Held
<1> QED
  BY <1>1, <1>6, <1>8, <1>9, TextsAreHeld

\* What is freed, kept in a global or left there is what was on the stack or waited.
LEMMA Balanced ==
    ASSUME NEW r \in 2..26, NEW d \in BOOLEAN, NEW v \in BOOLEAN,
           d => r \in {21, 25, 26}, v => r \in {21, 22},
           description = d, values = v
    PROVE  TextsOf(r) + One(d) + One(v)
               = Freed(r) + One(r = 23 \/ (d /\ r # 21))
                    + One(r = 25 \/ (v /\ r \notin {21, 22}))
<1>1. CASE r = 10
  BY <1>1 DEF TextsOf, Freed, One
<1>2. CASE r = 17
  BY <1>2 DEF TextsOf, Freed, One
<1>3. CASE r = 21
  BY <1>3 DEF TextsOf, Freed, One
<1>4. CASE r = 22
  BY <1>4 DEF TextsOf, Freed, One
<1>5. CASE r = 23
  BY <1>5 DEF TextsOf, Freed, One
<1>6. CASE r = 25
  BY <1>6 DEF TextsOf, Freed, One
<1>7. CASE r \notin {10, 17, 21, 22, 23, 25}
  BY <1>7 DEF TextsOf, Freed, One
<1> QED
  BY <1>1, <1>2, <1>3, <1>4, <1>5, <1>6, <1>7

\* The globals after a reduction.
LEMMA GlobalsWaitReduced ==
    ASSUME NEW stack, Path(stack), NEW r, NEW m, Handle(stack, r, m),
           NEW d \in BOOLEAN, NEW v \in BOOLEAN, GlobalsWait(stack, d, v)
    PROVE  /\ d => r \in {21, 25, 26}
           /\ v => r \in {21, 22}
           /\ GlobalsWait(Reduced(stack, r, m), r = 23 \/ (d /\ r # 21),
                          r = 25 \/ (v /\ r \notin {21, 22}))
<1>1. d => r \in {21, 25, 26} /\ (r # 21 => InDescribed(Reduced(stack, r, m)))
  BY DescribedReduced DEF GlobalsWait
<1>2. v => r \in {21, 22}
  BY ValuedReduced DEF GlobalsWait
<1>3. PICK new : new = Reduced(stack, r, m)
  OBVIOUS
<1>4. PICK g : g = Goto(stack[m], At(yyr1, r))
  OBVIOUS
<1>5. /\ m \in 1..Len(stack) /\ Len(stack) \in Nat
      /\ HandleIs(stack, r, m) /\ GoesTo(r, stack[m], g)
  BY <1>4, Handles, PathOfStates, GotoTarget
<1>6. Len(new) = m + 1 /\ Last(new) = g /\ new[m + 1] = g
  BY <1>3, <1>4, ReducedStack
<1>7. r = 23 => InDescribed(new)
  <2>1. SUFFICES ASSUME r = 23
                 PROVE  InDescribed(new)
    OBVIOUS
  <2>2. g = 45
    BY <1>5, <2>1 DEF GoesTo
  <2>3. m + 1 \in 1..Len(new) /\ new[m + 1] = 45
    BY <1>5, <1>6, <2>2
  <2>4. \A j \in ((m + 1) + 1)..Len(new) : new[j] \in AfterDescription
    BY <1>5, <1>6
  <2> QED
    BY <2>3, <2>4 DEF InDescribed
<1>8. r = 25 => Last(new) \in AfterValues
  BY <1>5, <1>6 DEF GoesTo, HandleIs, AfterValues
<1>9. GlobalsWait(new, r = 23 \/ (d /\ r # 21), r = 25 \/ (v /\ r \notin {21, 22}))
  BY <1>1, <1>2, <1>3, <1>7, <1>8 DEF GlobalsWait
<1> QED
  BY <1>1, <1>2, <1>3, <1>9

\* The elements once one begins in the innermost of them.
LEMMA InsideIs ==
    ASSUME NEW stage \in {"parameters", "commands", "contexts"}, open \in Seq(Elements)
    PROVE  /\ Inside(stage) \in Seq(Elements)
           /\ Len(Inside(stage)) = Len(open)
           /\ \A i \in 1..Len(open) :
                /\ Inside(stage)[i].kind = open[i].kind
                /\ Inside(stage)[i].stage = IF i = Len(open) /\ open[i].kind = "command"
                                            THEN stage ELSE open[i].stage
           /\ open # <<>> /\ open[Len(open)].kind = "command"
                => Inside(stage) = AsDocument!Entering(stage)
           /\ open = <<>> \/ open[Len(open)].kind = "context" => Inside(stage) = open
<1>1. PICK n \in Nat : n = Len(open) /\ DOMAIN open = 1..n
  OBVIOUS
<1>2. \A i \in 1..n : open[i] \in Elements
  BY <1>1
<1> DEFINE In(i) == IF i = n /\ open[i].kind = "command"
                    THEN [open[i] EXCEPT !.stage = stage] ELSE open[i]
<1>3. \A i \in 1..n : /\ In(i) \in Elements /\ In(i).kind = open[i].kind
                      /\ In(i).stage = IF i = n /\ open[i].kind = "command"
                                       THEN stage ELSE open[i].stage
  BY <1>2 DEF Elements
<1>4. Inside(stage) = [i \in 1..n |-> In(i)]
  BY <1>1 DEF Inside
<1>5. \A i \in 1..n : Inside(stage)[i] = In(i)
  BY <1>4
<1>6. Inside(stage) \in Seq(Elements) /\ Len(Inside(stage)) = n
  <2> HIDE DEF In
  <2>1. [i \in 1..n |-> In(i)] \in Seq(Elements) /\ Len([i \in 1..n |-> In(i)]) = n
    BY <1>3
  <2> QED
    BY <1>4, <2>1
<1>7. ASSUME open # <<>>, open[Len(open)].kind = "command"
      PROVE  Inside(stage) = AsDocument!Entering(stage)
  <2>1. In(n) = [open[n] EXCEPT !.stage = stage] /\ \A i \in 1..n : i # n => In(i) = open[i]
    BY <1>1, <1>7
  <2>2. [open EXCEPT ![n] = [open[n] EXCEPT !.stage = stage]] = [i \in 1..n |-> In(i)]
    <3> HIDE DEF In
    <3> QED
      BY <1>1, <2>1
  <2> QED
    BY <1>1, <1>4, <2>2 DEF AsDocument!Entering
<1>8. ASSUME open = <<>> \/ open[Len(open)].kind = "context"
      PROVE  Inside(stage) = open
  <2>1. \A i \in 1..n : In(i) = open[i]
    BY <1>1, <1>8
  <2>2. open = [i \in 1..n |-> open[i]]
    BY <1>1
  <2> HIDE DEF In
  <2> QED
    BY <1>4, <2>1, <2>2
<1> QED
  BY <1>1, <1>3, <1>5, <1>6, <1>7, <1>8

\* What the builder is told keeps the elements nested.
LEMMA TellKeeps ==
    ASSUME NEW r, NEW m, Path(yyss), Handle(yyss, r, m), Nesting(yyss, open),
           open \in Seq(Elements), Tell(r)
    PROVE  /\ open' \in Seq(Elements)
           /\ Nesting(Reduced(yyss, r, m), open')
           /\ \/ AsDocument!StartContext \/ AsDocument!StartCommand
              \/ AsDocument!EndElement \/ UNCHANGED open
<1>1. PICK elements : elements = open
  OBVIOUS
<1>2. PICK others : others = open'
  OBVIOUS
<1>3. PICK n \in Nat : n = Len(open)
  OBVIOUS
<1>4. r \in 2..26
  BY Handles
<1>5. n >= 1 <=> open # <<>>
  BY <1>3
<1>6. CASE r \in {10, 17}
  <2>1. PICK kind \in {"context", "command"} : kind = IF r = 10 THEN "context" ELSE "command"
    OBVIOUS
  <2>2. PICK stage \in {"contexts", "commands"} :
            stage = IF r = 10 THEN "contexts" ELSE "commands"
    OBVIOUS
  <2>3. open' = Append(Inside(stage), Element(kind))
    BY <1>6, <2>1, <2>2 DEF Tell
  <2>4. /\ Inside(stage) \in Seq(Elements) /\ Len(Inside(stage)) = n
        /\ \A i \in 1..n :
                /\ Inside(stage)[i].kind = open[i].kind
                /\ Inside(stage)[i].stage = IF i = n /\ open[i].kind = "command"
                                            THEN stage ELSE open[i].stage
        /\ open # <<>> /\ open[n].kind = "command"
              => Inside(stage) = AsDocument!Entering(stage)
        /\ open = <<>> \/ open[n].kind = "context" => Inside(stage) = open
    <3>1. stage \in {"parameters", "commands", "contexts"}
      BY <2>2
    <3> QED
      BY <1>3, <3>1, InsideIs
  <2>5. PICK inside : inside = Inside(stage)
    OBVIOUS
  <2>6. Element(kind) \in Elements
    BY <2>1 DEF Element, Elements
  <2>7. /\ Append(inside, Element(kind)) \in Seq(Elements)
        /\ Len(Append(inside, Element(kind))) = n + 1
        /\ Append(inside, Element(kind))[n + 1] = Element(kind)
        /\ \A i \in 1..n : Append(inside, Element(kind))[i] = inside[i]
    <3>1. inside \in Seq(Elements) /\ Len(inside) = n
      BY <2>4, <2>5
    <3> QED
      BY <2>6, <3>1, AppendProperties
  <2>8. others = Append(inside, Element(kind))
    BY <1>2, <2>3, <2>5
  <2>9. /\ others \in Seq(Elements) /\ Len(others) = n + 1 /\ others[n + 1] = Element(kind)
        /\ \A i \in 1..n :
             /\ others[i].kind = elements[i].kind
             /\ others[i].stage = IF i = n /\ elements[i].kind = "command"
                                  THEN stage ELSE elements[i].stage
    BY <1>1, <2>4, <2>5, <2>7, <2>8
  <2>10. /\ Nesting(Reduced(yyss, r, m), others)
         /\ r = 10 /\ n >= 1 => elements[n].kind = "command"
         /\ r = 17 =>
              /\ n >= 1
              /\ \/ elements[n].kind = "context"
                 \/ elements[n].kind = "command" /\ elements[n].stage # "contexts"
    <3>1. /\ Nesting(yyss, elements) /\ Len(elements) = n /\ Len(elements) \in Nat
          /\ Len(others) = Len(elements) + 1 /\ others[Len(others)] = Element(kind)
      BY <1>1, <1>3, <2>9
    <3>2. \A i \in 1..Len(elements) :
              /\ others[i].kind = elements[i].kind
              /\ others[i].stage = IF i = Len(elements) /\ elements[i].kind = "command"
                                   THEN stage ELSE elements[i].stage
      BY <2>9, <3>1
    <3>3. /\ Nesting(Reduced(yyss, r, m), others)
          /\ r = 10 /\ Len(elements) >= 1 => elements[Len(elements)].kind = "command"
          /\ r = 17 =>
               /\ Len(elements) >= 1
               /\ \/ elements[Len(elements)].kind = "context"
                  \/ /\ elements[Len(elements)].kind = "command"
                     /\ elements[Len(elements)].stage # "contexts"
      BY <1>6, <2>1, <2>2, <3>1, <3>2, NestingBegins, SMTT(60)
    <3> QED
      BY <3>1, <3>3
  <2>11. r = 10 => AsDocument!StartContext
    <3>1. SUFFICES ASSUME r = 10
                   PROVE  AsDocument!StartContext
      OBVIOUS
    <3>2. Element(kind) = AsDocument!Begun("context") /\ stage = "contexts"
      BY <2>1, <2>2, <3>1 DEF Element, AsDocument!Begun
    <3>3. CASE open = <<>>
      <4>1. Inside(stage) = <<>>
        BY <2>4, <3>3
      <4>2. open' = Append(<<>>, AsDocument!Begun("context"))
        BY <2>3, <3>2, <4>1, Zenon
      <4>3. open' = <<AsDocument!Begun("context")>>
        BY <4>2
      <4> QED
        BY <3>3, <4>3 DEF AsDocument!StartContext
    <3>4. CASE open # <<>>
      <4>1. open[n].kind = "command"
        BY <1>1, <1>5, <2>10, <3>1, <3>4
      <4>2. open' = Append(AsDocument!Entering("contexts"), AsDocument!Begun("context"))
        BY <2>3, <2>4, <3>2, <3>4, <4>1
      <4> QED
        BY <1>3, <3>4, <4>1, <4>2 DEF AsDocument!StartContext, AsDocument!Innermost
    <3> QED
      BY <3>3, <3>4
  <2>12. r = 17 => AsDocument!StartCommand
    <3>1. SUFFICES ASSUME r = 17
                   PROVE  AsDocument!StartCommand
      OBVIOUS
    <3>2. Element(kind) = AsDocument!Begun("command") /\ stage = "commands"
      BY <2>1, <2>2, <3>1 DEF Element, AsDocument!Begun
    <3>3. open # <<>>
      BY <1>5, <2>10, <3>1
    <3>4. CASE open[n].kind = "context"
      <4>1. open' = Append(open, AsDocument!Begun("command"))
        BY <2>3, <2>4, <3>2, <3>4
      <4> QED
        BY <1>3, <3>3, <3>4, <4>1 DEF AsDocument!StartCommand, AsDocument!Innermost
    <3>5. CASE open[n].kind = "command" /\ open[n].stage # "contexts"
      <4>1. open' = Append(AsDocument!Entering("commands"), AsDocument!Begun("command"))
        BY <2>3, <2>4, <3>2, <3>3, <3>5
      <4> QED
        BY <1>3, <3>3, <3>5, <4>1
        DEF AsDocument!StartCommand, AsDocument!Innermost, AsDocument!Stage
    <3> QED
      BY <1>1, <2>10, <3>1, <3>4, <3>5
  <2> QED
    BY <1>2, <1>6, <2>9, <2>10, <2>11, <2>12
<1>7. CASE r \in {11, 18}
  <2>1. n >= 1 /\ open # <<>>
    <3>1. n >= 1
      BY <1>3, <1>7, SomethingEnds
    <3> QED
      BY <1>5, <3>1
  <2>2. open' = SubSeq(open, 1, n - 1)
    <3>1. open' = Front(open)
      BY <1>7, <2>1 DEF Tell
    <3> QED
      BY <1>3, <3>1 DEF Front
  <2>3. /\ SubSeq(open, 1, n - 1) \in Seq(Elements) /\ Len(SubSeq(open, 1, n - 1)) = n - 1
        /\ \A i \in 1..(n - 1) : SubSeq(open, 1, n - 1)[i] = open[i]
    <3>1. \A i \in 1..n : open[i] \in Elements
      BY <1>3
    <3> QED
      BY <1>3, <2>1, <3>1
  <2>4. /\ others \in Seq(Elements) /\ Len(others) = n - 1
        /\ \A i \in 1..(n - 1) : others[i] = elements[i]
    BY <1>1, <1>2, <2>2, <2>3
  <2>5. Nesting(Reduced(yyss, r, m), others)
    <3>1. Nesting(yyss, elements) /\ Len(elements) = n
      BY <1>1, <1>3
    <3> QED
      BY <1>7, <2>4, <3>1, NestingEnds
  <2>6. AsDocument!EndElement
    BY <1>3, <2>1, <2>2 DEF AsDocument!EndElement
  <2> QED
    BY <1>2, <2>4, <2>5, <2>6
<1>8. CASE r \notin {10, 11, 17, 18}
  <2>1. open' = open
    BY <1>8 DEF Tell
  <2>2. Nesting(Reduced(yyss, r, m), open)
    BY <1>3, <1>8, NestingKept
  <2> QED
    BY <2>1, <2>2
<1> QED
  BY <1>6, <1>7, <1>8

LEMMA RuleApplies ==
    ASSUME ParserInv, Decided, Decision > 0
    PROVE  \E m : Handle(yyss, Decision, m)
<1>1. /\ Top \in 0..66 /\ Top = Last(yyss) /\ Top # YYFINAL
      /\ yychar \in Tokens \cup {YYEMPTY}
  BY TopIsState DEF ParserInv, RegisterInv
<1>2. Decision = At(yydefact, Top) /\ Decision > 0
  BY <1>1, ReducedRule
<1>3. PICK m : m = Len(yyss) - At(yyr2, Decision)
  OBVIOUS
<1>4. Decision # 0
  <2>1. PICK r : r = Decision
    OBVIOUS
  <2>2. r > 0 => r # 0
    <3>1. r = 0 => ~ (r > 0)
      OBVIOUS
    <3> QED
      BY <3>1
  <2> QED
    BY <1>2, <2>1, <2>2
<1>5. Handle(yyss, Decision, m)
  BY <1>1, <1>2, <1>3, <1>4, Zenon DEF Handle
<1> QED
  BY <1>5

LEMMA ReduceIs ==
    ASSUME ParserInv, Reduce
    PROVE  \E m : /\ Handle(yyss, Decision, m)
                  /\ NewState(Reduced(yyss, Decision, m), Lookahead, texts - Freed(Decision))
<1>1. Path(yyss)
  BY TopIsState
<1>2. PICK m : Handle(yyss, Decision, m)
  BY RuleApplies DEF Reduce
<1>3. m = Len(yyss) - At(yyr2, Decision)
  BY <1>2 DEF Handle
<1>4. Last(SubSeq(yyss, 1, m)) = yyss[m]
  BY <1>1, <1>2, Handles, PoppedTo
<1>5. Popped(Decision) = SubSeq(yyss, 1, m)
  BY <1>3, Zenon DEF Popped
<1>6. Append(Popped(Decision), Goto(Last(Popped(Decision)), At(yyr1, Decision)))
          = Reduced(yyss, Decision, m)
  BY <1>4, <1>5, Zenon DEF Reduced
<1>7. NewState(Append(Popped(Decision), Goto(Last(Popped(Decision)), At(yyr1, Decision))),
               Lookahead, texts - Freed(Decision))
  BY DEF Reduce
<1> QED
  BY <1>2, <1>6, <1>7, Zenon

LEMMA ReduceKeeps ==
    ASSUME ParserInv, Reduce
    PROVE  /\ ParserInv'
           /\ \/ AsDocument!StartContext \/ AsDocument!StartCommand
              \/ AsDocument!EndElement \/ UNCHANGED open
<1>1. /\ Path(yyss) /\ yychar \in Tokens \cup {YYEMPTY} /\ yyresult = "parsing"
  BY TopIsState DEF ParserInv, RegisterInv, Reduce, Decided
<1>2. PICK r : r = Decision
  OBVIOUS
<1>3. PICK m : /\ Handle(yyss, r, m)
               /\ NewState(Reduced(yyss, r, m), Lookahead, texts - Freed(r))
  BY <1>2, ReduceIs
<1>4. Keep(r) /\ Tell(r)
  BY <1>2 DEF Reduce
<1>5. PICK s : s = Reduced(yyss, r, m)
  OBVIOUS
<1>6. r \in 2..26
  BY <1>1, <1>3, Handles
<1>7. Path(s) /\ Last(s) # YYFINAL
  BY <1>1, <1>3, <1>5, ReducedStack, GotoTarget
<1>8. /\ description \in BOOLEAN /\ values \in BOOLEAN /\ texts \in Nat
      /\ open \in Seq(Elements)
      /\ Nesting(yyss, open) /\ GlobalsWait(yyss, description, values)
  BY <1>1 DEF ParserInv, RegisterInv, NestingInv
<1>9. /\ description' = (r = 23 \/ (description /\ r # 21))
      /\ values' = (r = 25 \/ (values /\ r \notin {21, 22}))
  BY <1>4 DEF Keep
<1>10. description' \in BOOLEAN /\ values' \in BOOLEAN
  BY <1>9
<1>11. /\ description => r \in {21, 25, 26}
       /\ values => r \in {21, 22}
       /\ GlobalsWait(s, r = 23 \/ (description /\ r # 21),
                      r = 25 \/ (values /\ r \notin {21, 22}))
  BY <1>1, <1>3, <1>5, <1>8, GlobalsWaitReduced
<1>12. GlobalsWait(s, description', values')
  BY <1>9, <1>11, Zenon
<1>13. PICK held : held = texts - Freed(r)
  OBVIOUS
<1>14. /\ held \in Int
       /\ held = Texts(Symbols(s)) + Texts(Lookahead) + One(description') + One(values')
  <2>1. texts = Texts(Symbols(yyss)) + Texts(Lookahead) + One(description) + One(values)
    BY DEF ParserInv, TextsOwned
  <2>2. Texts(Symbols(yyss)) = Texts(Symbols(s)) + TextsOf(r)
    BY <1>1, <1>3, <1>5, TextsReduced
  <2>3. TextsOf(r) + One(description) + One(values)
            = Freed(r) + One(r = 23 \/ (description /\ r # 21))
                + One(r = 25 \/ (values /\ r \notin {21, 22}))
    BY <1>6, <1>8, <1>11, Balanced
  <2>4. TextsOf(r) + One(description) + One(values)
            = Freed(r) + One(description') + One(values')
    BY <1>9, <2>3, Zenon
  <2>5. /\ Texts(Symbols(s)) \in Nat /\ Texts(Lookahead) \in Nat
        /\ One(description) \in Nat /\ One(values) \in Nat
        /\ One(description') \in Nat /\ One(values') \in Nat
    BY <1>7, TextsAreHeld, LookaheadOwns DEF One
  <2>6. Freed(r) \in Nat /\ TextsOf(r) \in Nat
    <3>1. TextsOf(r) \in Nat
      BY DEF TextsOf
    <3>2. Freed(r) \in Nat
      BY DEF Freed, One
    <3> QED
      BY <3>1, <3>2
  <2> QED
    <3>1. texts \in Nat
      BY <1>8
    <3>2. PICK a \in Nat, p \in Nat, q \in Nat, x \in Nat, f \in Nat :
              /\ a = Texts(Symbols(s)) /\ p = One(description) /\ q = One(values)
              /\ x = TextsOf(r) /\ f = Freed(r)
      BY <2>5, <2>6
    <3>3. PICK b \in Nat, d \in Nat, v \in Nat :
              b = Texts(Lookahead) /\ d = One(description') /\ v = One(values')
      BY <2>5
    <3>4. texts = (a + x) + b + p + q /\ x + p + q = f + d + v
      BY <2>1, <2>2, <2>4, <3>2, <3>3, Zenon
    <3>5. texts - f \in Int /\ texts - f = a + b + d + v
      BY <3>1, <3>4
    <3> QED
      BY <1>13, <3>2, <3>3, <3>5, Zenon
<1>15. /\ StackInv'
       /\ yychar' \in Tokens \cup {YYEMPTY}
       /\ yyresult' \in {"parsing", "accepted", "exhausted"}
       /\ texts' \in Nat
       /\ texts' = Texts(Symbols(yyss')) + Texts(Lookahead') + One(description') + One(values')
       /\ yyresult' = "parsing" => yyss' = s
       /\ yyresult' = "accepted" => Last(s) = YYFINAL
  <2>1. Lookahead \in {<<>>, Lookahead}
    OBVIOUS
  <2>2. NewState(s, Lookahead, held)
    BY <1>3, <1>5, <1>13, Zenon
  <2>3. PICK d, v : d = description' /\ v = values'
    OBVIOUS
  <2>4. held = Texts(Symbols(s)) + Texts(Lookahead) + One(d) + One(v)
    BY <1>14, <2>3, Zenon
  <2>5. /\ StackInv'
        /\ yychar' \in Tokens \cup {YYEMPTY}
        /\ yyresult' \in {"parsing", "accepted", "exhausted"}
        /\ texts' \in Nat
        /\ texts' = Texts(Symbols(yyss')) + Texts(Lookahead') + One(d) + One(v)
        /\ yyresult' = "parsing" => yyss' = s
        /\ yyresult' = "accepted" => Last(s) = YYFINAL
    BY <1>1, <1>7, <1>14, <2>1, <2>2, <2>4, NewStateKeeps
  <2> QED
    BY <2>3, <2>5, Zenon
<1>16. /\ open' \in Seq(Elements) /\ Nesting(s, open')
       /\ \/ AsDocument!StartContext \/ AsDocument!StartCommand
          \/ AsDocument!EndElement \/ UNCHANGED open
  BY <1>1, <1>3, <1>4, <1>5, <1>8, TellKeeps
<1>17. RegisterInv'
  BY <1>10, <1>15, <1>16 DEF RegisterInv
<1>18. TextsOwned'
  BY <1>15 DEF TextsOwned
<1>19. NestingInv'
  BY <1>7, <1>15, <1>16 DEF NestingInv
<1>20. yyresult' = "parsing" => GlobalsWait(yyss, description, values)'
  BY <1>12, <1>15
<1> QED
  BY <1>15, <1>16, <1>17, <1>18, <1>19, <1>20 DEF ParserInv

LEMMA SyntaxErrorKeeps ==
    ASSUME ParserInv, SyntaxError
    PROVE  ParserInv'
<1>1. /\ yyresult' = "syntax error" /\ CleanUp(yyss, Lookahead, texts)
      /\ UNCHANGED <<description, values, open>>
  BY DEF SyntaxError
<1>2. /\ yyss' = <<0>> /\ yychar' = YYEMPTY
      /\ texts' = texts - Texts(Symbols(yyss)) - Texts(Lookahead)
  BY <1>1 DEF CleanUp
<1>3. StackInv'
  BY <1>2, EmptyStack, ParserAssumption DEF StackInv, Top, YYFINAL
<1>4. /\ texts \in Nat
      /\ texts = Texts(Symbols(yyss)) + Texts(Lookahead) + One(description) + One(values)
  BY DEF ParserInv, RegisterInv, TextsOwned
<1>5. /\ Texts(Symbols(yyss)) \in Nat /\ Texts(Lookahead) \in Nat
      /\ One(description) \in Nat /\ One(values) \in Nat
  BY TopIsState, TextsAreHeld, LookaheadOwns DEF One
<1>6. texts' = One(description) + One(values)
  BY <1>2, <1>4, <1>5
<1>7. Texts(Symbols(yyss')) = 0 /\ Texts(Lookahead') = 0
  BY <1>2, EmptyStack, TextsOfOne DEF Lookahead
<1>8. TextsOwned'
  <2>1. texts' = Texts(Symbols(yyss')) + Texts(Lookahead') + One(description) + One(values)
    BY <1>5, <1>6, <1>7
  <2> QED
    BY <1>1, <2>1 DEF TextsOwned
<1>9. RegisterInv'
  <2>1. texts' \in Nat
    BY <1>5, <1>6
  <2> QED
    BY <1>1, <1>2, <2>1 DEF ParserInv, RegisterInv
<1>10. NestingInv' /\ yyresult' # "parsing"
  BY <1>1 DEF NestingInv
<1> QED
  BY <1>3, <1>8, <1>9, <1>10 DEF ParserInv

LEMMA WriteFilesKeeps ==
    ASSUME ParserInv, WriteFiles
    PROVE  ParserInv'
<1>1. /\ yyresult' = "written"
      /\ UNCHANGED <<yyss, yychar, description, values, texts, open>>
  BY DEF WriteFiles
<1>2. StackInv' /\ RegisterInv' /\ TextsOwned' /\ NestingInv' /\ yyresult' # "parsing"
  BY <1>1 DEF ParserInv, StackInv, Top, RegisterInv, TextsOwned, Lookahead, NestingInv
<1> QED
  BY <1>2 DEF ParserInv

LEMMA StutterKeeps ==
    ASSUME ParserInv, UNCHANGED parserVars
    PROVE  ParserInv'
<1>1. UNCHANGED <<yyss, yychar, yyresult, description, values, texts, open>>
  BY DEF parserVars
<1>2. StackInv' /\ RegisterInv' /\ TextsOwned' /\ NestingInv'
  BY <1>1 DEF ParserInv, StackInv, Top, RegisterInv, TextsOwned, Lookahead, NestingInv
<1> QED
  BY <1>1, <1>2 DEF ParserInv

\* The tables keep the stack a path of their states, and what the actions of the rules do
\* keeps the texts, the globals and the elements in step with it.
THEOREM ParserInvariant == ParserSpec => []ParserInv
<1>1. ParserInit => ParserInv
  BY InitInv
<1>2. ParserInv /\ [ParserNext]_parserVars => ParserInv'
  BY ReadTokenKeeps, ShiftKeeps, ReduceKeeps, SyntaxErrorKeeps, WriteFilesKeeps, StutterKeeps
  DEF ParserNext
<1> QED
  BY <1>1, <1>2, PTL DEF ParserSpec

\* The stack holds states and has room for the next one, the lookahead is a token, and the
\* counts are in range: y.tab.cpp reads none of its tables outside of their bounds.
THEOREM ParserTypeCorrect == ParserSpec => []ParserTypeOK
<1>1. ParserInv => ParserTypeOK
  <2> SUFFICES ASSUME ParserInv
               PROVE  ParserTypeOK
    OBVIOUS
  <2>1. Path(yyss) /\ Len(yyss) < YYINITDEPTH /\ RegisterInv
    BY DEF ParserInv, StackInv
  <2>2. yyss \in Seq(0..66)
    BY <2>1 DEF Path, States
  <2>3. Len(yyss) \in 1..(YYINITDEPTH - 1)
    BY <2>1, PathOfStates, ParserAssumption
  <2> QED
    BY <2>1, <2>2, <2>3 DEF ParserTypeOK, RegisterInv, Elements
<1> QED
  BY <1>1, ParserInvariant, PTL

\* Every string the scanner allocates has one owner, and is freed once, for any document
\* and however the parse ends.
THEOREM TextsHaveOneOwner == ParserSpec => []TextsOwned
<1>1. ParserInv => TextsOwned
  BY DEF ParserInv
<1> QED
  BY <1>1, ParserInvariant, PTL

\* A description or values waiting in a global belong to the parameter being read.
THEOREM GlobalsAreOneParameters == ParserSpec => []GlobalsAreThisParameters
<1>1. ParserInv => GlobalsAreThisParameters
  <2> SUFFICES ASSUME ParserInv, yyresult = "parsing"
               PROVE  /\ description => Number["param_description"] \in ToSet(Symbols(yyss))
                      /\ values => \/ At(yystos, Top) = Number["param_values"]
                                   \/ At(yystos, Top) = Number["ENDPAR"]
    BY DEF GlobalsAreThisParameters
  <2>1. Path(yyss) /\ GlobalsWait(yyss, description, values)
    BY TopIsState DEF ParserInv
  <2>2. ASSUME description
        PROVE  Number["param_description"] \in ToSet(Symbols(yyss))
    <3>1. PICK k \in 1..Len(yyss) : yyss[k] = 45
      BY <2>1, <2>2 DEF GlobalsWait, InDescribed
    <3>2. At(yystos, 45) = 52
      BY DEF At, yystos
    <3>3. DOMAIN yyss = 1..Len(yyss)
      BY <2>1 DEF Path
    <3>4. /\ DOMAIN Symbols(yyss) = DOMAIN yyss
          /\ \A i \in DOMAIN yyss : Symbols(yyss)[i] = At(yystos, yyss[i])
      BY DEF Symbols
    <3>5. k \in DOMAIN Symbols(yyss) /\ Symbols(yyss)[k] = 52
      BY <3>1, <3>2, <3>3, <3>4
    <3> QED
      BY <3>5, NumberOfNames DEF ToSet
  <2>3. ASSUME values
        PROVE  At(yystos, Top) = 53 \/ At(yystos, Top) = 14
    <3>1. Top \in AfterValues
      BY <2>1, <2>3 DEF GlobalsWait, Top
    <3>2. \A q \in AfterValues : At(yystos, q) = 53 \/ At(yystos, q) = 14
      BY DEF At, yystos, AfterValues
    <3> QED
      BY <3>1, <3>2
  <2> QED
    BY <2>2, <2>3, NumberOfNames
<1> QED
  BY <1>1, ParserInvariant, PTL

\* The builder's functions are called as a document nests its elements, for any tokens:
\* every end closes an element that has begun, commands begin in contexts or in commands
\* without contexts, contexts outside of all or in a command, and the tables are written
\* only when every element has ended.
THEOREM CallsNested == ParserSpec => CallsFollowDocument
<1>1. ParserInit => AsDocument!DocumentInit
  <2>1. ParserInit => open = <<>> /\ Outcome = "reading"
    BY DEF ParserInit, Outcome
  <2> QED
    BY <2>1 DEF AsDocument!DocumentInit
<1>2. ParserInv /\ [ParserNext]_parserVars => [AsDocument!DocumentNext]_AsDocument!documentVars
  <2> SUFFICES ASSUME ParserInv, [ParserNext]_parserVars
               PROVE  AsDocument!DocumentNext \/ UNCHANGED AsDocument!documentVars
    OBVIOUS
  <2>1. UNCHANGED <<open, Outcome>> => UNCHANGED AsDocument!documentVars
    BY DEF AsDocument!documentVars
  <2>2. Outcome = "reading" /\ Outcome' = "failed" => AsDocument!DocumentNext
    BY DEF AsDocument!DocumentNext, AsDocument!Failed
  <2>3. /\ yyresult \in {"parsing", "accepted"} => Outcome = "reading"
        /\ yyresult' \in {"parsing", "accepted"} => Outcome' = "reading"
        /\ yyresult' \in {"exhausted", "syntax error"} => Outcome' = "failed"
        /\ yyresult' = "written" => Outcome' = "written"
    BY DEF Outcome
  <2>4. CASE ReadToken
    <3>1. UNCHANGED <<open, yyresult>>
      BY <2>4 DEF ReadToken
    <3> QED
      BY <2>1, <3>1 DEF Outcome
  <2>5. CASE Shift
    <3>1. yyresult = "parsing" /\ yyresult' \in {"parsing", "accepted", "exhausted"}
      BY <2>5 DEF Shift, NewState, Decided
    <3>2. UNCHANGED open
      BY <2>5 DEF Shift
    <3> QED
      BY <2>1, <2>2, <2>3, <3>1, <3>2
  <2>6. CASE Reduce
    <3>1. yyresult = "parsing" /\ yyresult' \in {"parsing", "accepted", "exhausted"}
      BY <2>6 DEF Reduce, NewState, Decided
    <3>2. \/ AsDocument!StartContext \/ AsDocument!StartCommand
          \/ AsDocument!EndElement \/ UNCHANGED open
      BY <2>6, ReduceKeeps
    <3>3. CASE yyresult' = "exhausted"
      BY <2>2, <2>3, <3>1, <3>3
    <3>4. CASE yyresult' \in {"parsing", "accepted"}
      <4>1. Outcome = "reading" /\ Outcome' = Outcome
        BY <2>3, <3>1, <3>4
      <4> QED
        BY <2>1, <3>2, <4>1 DEF AsDocument!DocumentNext
    <3> QED
      BY <3>1, <3>3, <3>4
  <2>7. CASE SyntaxError
    <3>1. yyresult = "parsing" /\ yyresult' = "syntax error"
      BY <2>7 DEF SyntaxError, Decided
    <3> QED
      BY <2>2, <2>3, <3>1
  <2>8. CASE WriteFiles
    <3>1. yyresult = "accepted" /\ yyresult' = "written" /\ UNCHANGED open
      BY <2>8 DEF WriteFiles
    <3>2. open = <<>>
      BY <3>1 DEF ParserInv, NestingInv
    <3>3. Outcome = "reading" /\ Outcome' = "written"
      BY <2>3, <3>1
    <3> QED
      BY <3>1, <3>2, <3>3 DEF AsDocument!DocumentNext, AsDocument!Written
  <2>9. CASE UNCHANGED parserVars
    BY <2>1, <2>9 DEF parserVars, Outcome
  <2> QED
    BY <2>4, <2>5, <2>6, <2>7, <2>8, <2>9 DEF ParserNext
<1> QED
  BY <1>1, <1>2, ParserInvariant, PTL
  DEF ParserSpec, CallsFollowDocument, AsDocument!DocumentSpec

-----------------------------------------------------------------------------
(* The tables decide as the grammar they were generated from: the states   *)
(* on the stack are those of the symbols read, a rule is reduced where its *)
(* right side has been read, and in each state the tables take every token *)
(* that some right side begun there goes on with. The facts about single   *)
(* states are read off the tables; that they apply to every stack comes    *)
(* from the invariant above.                                               *)

\* The numbers of the symbols.
LEMMA SymbolNumbers ==
    \A n \in 0..53 :
        /\ (At(yytname, n) = "$end" => n = 0) /\ (At(yytname, n) = "CONFIG" => n = 3)
        /\ (At(yytname, n) = "ENDCONFIG" => n = 4)
        /\ (At(yytname, n) = "HISTORY_SIZE" => n = 5)
        /\ (At(yytname, n) = "ENDHISTORY_SIZE" => n = 6)
        /\ (At(yytname, n) = "NAME" => n = 7) /\ (At(yytname, n) = "ENDNAME" => n = 8)
        /\ (At(yytname, n) = "CTX" => n = 9) /\ (At(yytname, n) = "CMD" => n = 10)
        /\ (At(yytname, n) = "PAR" => n = 11) /\ (At(yytname, n) = "ENDCTX" => n = 12)
        /\ (At(yytname, n) = "ENDCMD" => n = 13) /\ (At(yytname, n) = "ENDPAR" => n = 14)
        /\ (At(yytname, n) = "REQUIRED" => n = 15) /\ (At(yytname, n) = "BRIEF" => n = 16)
        /\ (At(yytname, n) = "HELP" => n = 17) /\ (At(yytname, n) = "FUNCTION" => n = 18)
        /\ (At(yytname, n) = "PROMPT" => n = 19) /\ (At(yytname, n) = "NUMVAL" => n = 20)
        /\ (At(yytname, n) = "DESCRIPTION" => n = 21)
        /\ (At(yytname, n) = "VALUES" => n = 22) /\ (At(yytname, n) = "STR" => n = 23)
        /\ (At(yytname, n) = "NUM" => n = 24) /\ (At(yytname, n) = "TXT" => n = 25)
        /\ (At(yytname, n) = "ENDBRIEF" => n = 28) /\ (At(yytname, n) = "ENDHELP" => n = 29)
        /\ (At(yytname, n) = "ENDFUNCTION" => n = 30)
        /\ (At(yytname, n) = "ENDREQUIRED" => n = 31)
        /\ (At(yytname, n) = "ENDNUMVAL" => n = 32)
        /\ (At(yytname, n) = "ENDDESCRIPTION" => n = 33)
        /\ (At(yytname, n) = "ENDVALUES" => n = 34)
        /\ (At(yytname, n) = "ENDPROMPT" => n = 35) /\ (At(yytname, n) = "BOOL" => n = 36)
        /\ (At(yytname, n) = "rules" => n = 38) /\ (At(yytname, n) = "rule" => n = 39)
        /\ (At(yytname, n) = "config" => n = 40) /\ (At(yytname, n) = "contexts" => n = 41)
        /\ (At(yytname, n) = "context" => n = 42)
        /\ (At(yytname, n) = "context_start" => n = 43)
        /\ (At(yytname, n) = "context_end" => n = 44)
        /\ (At(yytname, n) = "commands" => n = 45) /\ (At(yytname, n) = "command" => n = 46)
        /\ (At(yytname, n) = "command_content" => n = 47)
        /\ (At(yytname, n) = "command_start" => n = 48)
        /\ (At(yytname, n) = "command_end" => n = 49)
        /\ (At(yytname, n) = "params" => n = 50) /\ (At(yytname, n) = "param" => n = 51)
        /\ (At(yytname, n) = "param_description" => n = 52)
        /\ (At(yytname, n) = "param_values" => n = 53)
BY DEF At, yytname

\* The right sides, symbol by symbol.
LEMMA RightSideLengths ==
    /\ DOMAIN RightSide = 1..26 /\ Len(RightSide[1]) = 2 /\ Len(RightSide[2]) = 0
    /\ Len(RightSide[3]) = 2 /\ Len(RightSide[4]) = 1 /\ Len(RightSide[5]) = 2
    /\ Len(RightSide[6]) = 5 /\ Len(RightSide[7]) = 0 /\ Len(RightSide[8]) = 2
    /\ Len(RightSide[9]) = 3 /\ Len(RightSide[10]) = 4 /\ Len(RightSide[11]) = 1
    /\ Len(RightSide[12]) = 0 /\ Len(RightSide[13]) = 2 /\ Len(RightSide[14]) = 3
    /\ Len(RightSide[15]) = 2 /\ Len(RightSide[16]) = 3 /\ Len(RightSide[17]) = 13
    /\ Len(RightSide[18]) = 1 /\ Len(RightSide[19]) = 0 /\ Len(RightSide[20]) = 2
    /\ Len(RightSide[21]) = 13 /\ Len(RightSide[22]) = 6 /\ Len(RightSide[23]) = 3
    /\ Len(RightSide[24]) = 0 /\ Len(RightSide[25]) = 3 /\ Len(RightSide[26]) = 0
BY DEF RightSide, ElementName, Required

LEMMA RightSideOf1 ==
    /\ Len(RightSide[1]) = 2 /\ RightSide[1][1] = "rules" /\ RightSide[1][2] = "$end"
BY RightSideLengths DEF RightSide

LEMMA RightSideOf3 ==
    /\ Len(RightSide[3]) = 2 /\ RightSide[3][1] = "rules" /\ RightSide[3][2] = "rule"
BY RightSideLengths DEF RightSide

LEMMA RightSideOf4 ==
    /\ Len(RightSide[4]) = 1 /\ RightSide[4][1] = "contexts"
BY RightSideLengths DEF RightSide

LEMMA RightSideOf5 ==
    /\ Len(RightSide[5]) = 2 /\ RightSide[5][1] = "config" /\ RightSide[5][2] = "contexts"
BY RightSideLengths DEF RightSide

LEMMA RightSideOf6 ==
    /\ Len(RightSide[6]) = 5 /\ RightSide[6][1] = "CONFIG" /\ RightSide[6][2] = "HISTORY_SIZE"
    /\ RightSide[6][3] = "NUM" /\ RightSide[6][4] = "ENDHISTORY_SIZE"
    /\ RightSide[6][5] = "ENDCONFIG"
BY RightSideLengths DEF RightSide

LEMMA RightSideOf8 ==
    /\ Len(RightSide[8]) = 2 /\ RightSide[8][1] = "contexts" /\ RightSide[8][2] = "context"
BY RightSideLengths DEF RightSide

LEMMA RightSideOf9 ==
    /\ Len(RightSide[9]) = 3 /\ RightSide[9][1] = "context_start"
    /\ RightSide[9][2] = "commands" /\ RightSide[9][3] = "context_end"
BY RightSideLengths DEF RightSide

LEMMA RightSideOf10 ==
    /\ Len(RightSide[10]) = 4 /\ RightSide[10][1] = "CTX" /\ RightSide[10][2] = "PROMPT"
    /\ RightSide[10][3] = "TXT" /\ RightSide[10][4] = "ENDPROMPT"
BY RightSideLengths DEF RightSide

LEMMA RightSideOf11 ==
    /\ Len(RightSide[11]) = 1 /\ RightSide[11][1] = "ENDCTX"
BY RightSideLengths DEF RightSide

LEMMA RightSideOf13 ==
    /\ Len(RightSide[13]) = 2 /\ RightSide[13][1] = "commands" /\ RightSide[13][2] = "command"
BY RightSideLengths DEF RightSide

LEMMA RightSideOf14 ==
    /\ Len(RightSide[14]) = 3 /\ RightSide[14][1] = "command_start"
    /\ RightSide[14][2] = "command_content" /\ RightSide[14][3] = "command_end"
BY RightSideLengths DEF RightSide

LEMMA RightSideOf15 ==
    /\ Len(RightSide[15]) = 2 /\ RightSide[15][1] = "params" /\ RightSide[15][2] = "commands"
BY RightSideLengths DEF RightSide

LEMMA RightSideOf16 ==
    /\ Len(RightSide[16]) = 3 /\ RightSide[16][1] = "params" /\ RightSide[16][2] = "commands"
    /\ RightSide[16][3] = "context"
BY RightSideLengths DEF RightSide

LEMMA RightSideOf17 ==
    /\ Len(RightSide[17]) = 13 /\ RightSide[17][1] = "CMD" /\ RightSide[17][2] = "NAME"
    /\ RightSide[17][3] = "TXT" /\ RightSide[17][4] = "ENDNAME" /\ RightSide[17][5] = "BRIEF"
    /\ RightSide[17][6] = "STR" /\ RightSide[17][7] = "ENDBRIEF" /\ RightSide[17][8] = "HELP"
    /\ RightSide[17][9] = "STR" /\ RightSide[17][10] = "ENDHELP"
    /\ RightSide[17][11] = "FUNCTION" /\ RightSide[17][12] = "TXT"
    /\ RightSide[17][13] = "ENDFUNCTION"
BY RightSideLengths DEF RightSide, ElementName, Required

LEMMA RightSideOf18 ==
    /\ Len(RightSide[18]) = 1 /\ RightSide[18][1] = "ENDCMD"
BY RightSideLengths DEF RightSide

LEMMA RightSideOf20 ==
    /\ Len(RightSide[20]) = 2 /\ RightSide[20][1] = "params" /\ RightSide[20][2] = "param"
BY RightSideLengths DEF RightSide

LEMMA RightSideOf21 ==
    /\ Len(RightSide[21]) = 13 /\ RightSide[21][1] = "PAR" /\ RightSide[21][2] = "NAME"
    /\ RightSide[21][3] = "TXT" /\ RightSide[21][4] = "ENDNAME"
    /\ RightSide[21][5] = "param_description" /\ RightSide[21][6] = "REQUIRED"
    /\ RightSide[21][7] = "BOOL" /\ RightSide[21][8] = "ENDREQUIRED"
    /\ RightSide[21][9] = "NUMVAL" /\ RightSide[21][10] = "NUM"
    /\ RightSide[21][11] = "ENDNUMVAL" /\ RightSide[21][12] = "param_values"
    /\ RightSide[21][13] = "ENDPAR"
BY RightSideLengths DEF RightSide, ElementName, Required

LEMMA RightSideOf22 ==
    /\ Len(RightSide[22]) = 6 /\ RightSide[22][1] = "PAR" /\ RightSide[22][2] = "REQUIRED"
    /\ RightSide[22][3] = "BOOL" /\ RightSide[22][4] = "ENDREQUIRED"
    /\ RightSide[22][5] = "param_values" /\ RightSide[22][6] = "ENDPAR"
BY RightSideLengths DEF RightSide, ElementName, Required

LEMMA RightSideOf23 ==
    /\ Len(RightSide[23]) = 3 /\ RightSide[23][1] = "DESCRIPTION" /\ RightSide[23][2] = "STR"
    /\ RightSide[23][3] = "ENDDESCRIPTION"
BY RightSideLengths DEF RightSide

LEMMA RightSideOf25 ==
    /\ Len(RightSide[25]) = 3 /\ RightSide[25][1] = "VALUES" /\ RightSide[25][2] = "TXT"
    /\ RightSide[25][3] = "ENDVALUES"
BY RightSideLengths DEF RightSide

LEMMA Beginnings ==
    /\ Begins("$end") = "$end" /\ Begins("ENDCONFIG") = "ENDCONFIG"
    /\ Begins("HISTORY_SIZE") = "HISTORY_SIZE"
    /\ Begins("ENDHISTORY_SIZE") = "ENDHISTORY_SIZE" /\ Begins("NAME") = "NAME"
    /\ Begins("ENDNAME") = "ENDNAME" /\ Begins("ENDPAR") = "ENDPAR"
    /\ Begins("REQUIRED") = "REQUIRED" /\ Begins("BRIEF") = "BRIEF"
    /\ Begins("HELP") = "HELP" /\ Begins("FUNCTION") = "FUNCTION"
    /\ Begins("PROMPT") = "PROMPT" /\ Begins("NUMVAL") = "NUMVAL" /\ Begins("STR") = "STR"
    /\ Begins("NUM") = "NUM" /\ Begins("TXT") = "TXT" /\ Begins("ENDBRIEF") = "ENDBRIEF"
    /\ Begins("ENDHELP") = "ENDHELP" /\ Begins("ENDFUNCTION") = "ENDFUNCTION"
    /\ Begins("ENDREQUIRED") = "ENDREQUIRED" /\ Begins("ENDNUMVAL") = "ENDNUMVAL"
    /\ Begins("ENDDESCRIPTION") = "ENDDESCRIPTION" /\ Begins("ENDVALUES") = "ENDVALUES"
    /\ Begins("ENDPROMPT") = "ENDPROMPT" /\ Begins("BOOL") = "BOOL"
    /\ Begins("rule") = "rule" /\ Begins("contexts") = "contexts"
    /\ Begins("context") = "CTX" /\ Begins("context_end") = "ENDCTX"
    /\ Begins("commands") = "commands" /\ Begins("command") = "CMD"
    /\ Begins("command_content") = "command_content" /\ Begins("command_end") = "ENDCMD"
    /\ Begins("param") = "PAR" /\ Begins("param_description") = "DESCRIPTION"
    /\ Begins("param_values") = "VALUES"
BY DEF Begins

\* The tables have a shift for a token in a state.
Taken(state, token) ==
    /\ At(yypact, state) # YYPACT_NINF
    /\ At(yypact, state) + token \in 0..YYLAST
    /\ At(yycheck, At(yypact, state) + token) = token

\* The states with no rule to reduce by, by their symbol.
LEMMA ShiftingStates ==
    ASSUME NEW s \in 0..66, At(yydefact, s) = 0
    PROVE
        /\ (At(yystos, s) = 3 => s = 3) /\ (At(yystos, s) = 5 => s = 7)
        /\ (At(yystos, s) = 6 => s = 15) /\ (At(yystos, s) = 7 => s \in {24, 34})
        /\ (At(yystos, s) = 8 => s = 33) /\ (At(yystos, s) = 9 => s = 9)
        /\ (At(yystos, s) = 10 => s = 17) /\ (At(yystos, s) = 11 => s = 30)
        /\ (At(yystos, s) = 15 => s \in {35, 50}) /\ (At(yystos, s) = 16 => s = 37)
        /\ (At(yystos, s) = 17 => s = 48) /\ (At(yystos, s) = 18 => s = 59)
        /\ (At(yystos, s) = 19 => s = 13) /\ (At(yystos, s) = 20 => s = 60)
        /\ (At(yystos, s) = 21 => s = 44) /\ (At(yystos, s) = 22 => s = 46)
        /\ (At(yystos, s) = 23 => s \in {40, 49, 53})
        /\ (At(yystos, s) = 24 => s \in {12, 62})
        /\ (At(yystos, s) = 25 => s \in {16, 27, 38, 51, 61})
        /\ (At(yystos, s) = 28 => s = 43) /\ (At(yystos, s) = 29 => s = 57)
        /\ (At(yystos, s) = 31 => s = 58) /\ At(yystos, s) # 32
        /\ (At(yystos, s) = 36 => s \in {39, 55}) /\ At(yystos, s) # 38
        /\ At(yystos, s) # 41 /\ (At(yystos, s) = 45 => s = 14)
        /\ (At(yystos, s) = 47 => s = 25) /\ At(yystos, s) # 50
        /\ (At(yystos, s) = 52 => s = 45) /\ (At(yystos, s) = 53 => s \in {47, 65})
BY DEF At, yydefact, yystos

LEMMA ShiftsTaken ==
    /\ Taken(3, 5) /\ Taken(7, 24) /\ Taken(9, 19) /\ Taken(12, 6) /\ Taken(13, 25)
    /\ Taken(14, 10) /\ Taken(14, 12) /\ Taken(15, 4) /\ Taken(16, 35) /\ Taken(17, 7)
    /\ Taken(24, 25) /\ Taken(25, 13) /\ Taken(27, 8) /\ Taken(30, 7) /\ Taken(30, 15)
    /\ Taken(33, 16) /\ Taken(34, 25) /\ Taken(35, 36) /\ Taken(37, 23) /\ Taken(38, 8)
    /\ Taken(39, 31) /\ Taken(40, 28) /\ Taken(43, 17) /\ Taken(44, 23) /\ Taken(45, 15)
    /\ Taken(46, 25) /\ Taken(47, 14) /\ Taken(48, 23) /\ Taken(49, 33) /\ Taken(50, 36)
    /\ Taken(51, 34) /\ Taken(53, 29) /\ Taken(55, 31) /\ Taken(57, 18) /\ Taken(58, 20)
    /\ Taken(59, 25) /\ Taken(60, 24) /\ Taken(61, 30) /\ Taken(62, 32) /\ Taken(65, 14)
<1>1. /\ At(yypact, 3) = -3 /\ At(yypact, 7) = -18 /\ At(yypact, 9) = -8
      /\ At(yypact, 12) = 6 /\ At(yypact, 13) = -12 /\ At(yypact, 14) = -5
      /\ At(yypact, 15) = 10 /\ At(yypact, 16) = -20 /\ At(yypact, 17) = 9
      /\ At(yypact, 24) = -4 /\ At(yypact, 25) = 4 /\ At(yypact, 27) = 11
      /\ At(yypact, 30) = -7 /\ At(yypact, 33) = 8 /\ At(yypact, 34) = -2
      /\ At(yypact, 35) = -16 /\ At(yypact, 37) = -1 /\ At(yypact, 38) = 17
      /\ At(yypact, 39) = 2 /\ At(yypact, 40) = 3 /\ At(yypact, 43) = 13
      /\ At(yypact, 44) = 14 /\ At(yypact, 45) = 20 /\ At(yypact, 46) = 15
      /\ At(yypact, 47) = 18 /\ At(yypact, 48) = 16 /\ At(yypact, 49) = 19
      /\ At(yypact, 50) = -9 /\ At(yypact, 51) = 21 /\ At(yypact, 53) = 22
      /\ At(yypact, 55) = 23 /\ At(yypact, 57) = 24 /\ At(yypact, 58) = 25
      /\ At(yypact, 59) = 28 /\ At(yypact, 60) = 26 /\ At(yypact, 61) = 27
      /\ At(yypact, 62) = 29 /\ At(yypact, 65) = 30
  BY DEF At, yypact
<1>2. /\ At(yycheck, 0) = 7 /\ At(yycheck, 2) = 5 /\ At(yycheck, 5) = 10
      /\ At(yycheck, 6) = 24 /\ At(yycheck, 7) = 12 /\ At(yycheck, 8) = 15
      /\ At(yycheck, 11) = 19 /\ At(yycheck, 12) = 6 /\ At(yycheck, 13) = 25
      /\ At(yycheck, 14) = 4 /\ At(yycheck, 15) = 35 /\ At(yycheck, 16) = 7
      /\ At(yycheck, 17) = 13 /\ At(yycheck, 19) = 8 /\ At(yycheck, 20) = 36
      /\ At(yycheck, 21) = 25 /\ At(yycheck, 22) = 23 /\ At(yycheck, 23) = 25
      /\ At(yycheck, 24) = 16 /\ At(yycheck, 25) = 8 /\ At(yycheck, 27) = 36
      /\ At(yycheck, 30) = 17 /\ At(yycheck, 31) = 28 /\ At(yycheck, 32) = 14
      /\ At(yycheck, 33) = 31 /\ At(yycheck, 35) = 15 /\ At(yycheck, 37) = 23
      /\ At(yycheck, 39) = 23 /\ At(yycheck, 40) = 25 /\ At(yycheck, 42) = 18
      /\ At(yycheck, 44) = 14 /\ At(yycheck, 45) = 20 /\ At(yycheck, 50) = 24
      /\ At(yycheck, 51) = 29 /\ At(yycheck, 52) = 33 /\ At(yycheck, 53) = 25
      /\ At(yycheck, 54) = 31 /\ At(yycheck, 55) = 34 /\ At(yycheck, 57) = 30
      /\ At(yycheck, 61) = 32
  BY DEF At, yycheck
<1> QED
  BY <1>1, <1>2 DEF Taken, YYPACT_NINF, YYLAST

LEMMA SymbolsUnder ==
    /\ (\A t \in At(Beneath, 12) : At(yystos, t) = 5)
    /\ (\A t \in At(Beneath, 14) : At(yystos, t) = 43)
    /\ (\A t \in At(Beneath, 16) : At(yystos, t) = 19)
    /\ (\A t \in At(Beneath, 27) : At(yystos, t) = 7)
    /\ (\A t \in At(Beneath, 38) : At(yystos, t) = 7)
    /\ (\A t \in At(Beneath, 40) : At(yystos, t) = 16)
    /\ (\A t \in At(Beneath, 49) : At(yystos, t) = 21)
    /\ (\A t \in At(Beneath, 51) : At(yystos, t) = 22)
    /\ (\A t \in At(Beneath, 53) : At(yystos, t) = 17)
    /\ (\A t \in At(Beneath, 61) : At(yystos, t) = 18)
    /\ (\A t \in At(Beneath, 62) : At(yystos, t) = 20)
BY DEF At, Beneath, yystos

\* The topmost symbol of a state with no rule to reduce by, with the one under it where it
\* matters, decides what can be read next.
LEMMA TokensShifted ==
    ASSUME NEW s \in 0..66, At(yydefact, s) = 0, NEW t \in At(Beneath, s)
    PROVE
        /\ (At(yystos, s) = 3 => Taken(s, 5)) /\ (At(yystos, s) = 5 => Taken(s, 24))
        /\ (At(yystos, s) = 6 => Taken(s, 4)) /\ (At(yystos, s) = 45 => Taken(s, 12))
        /\ (At(yystos, s) = 9 => Taken(s, 19)) /\ (At(yystos, s) = 19 => Taken(s, 25))
        /\ (At(yystos, s) = 45 => Taken(s, 10)) /\ (At(yystos, s) = 47 => Taken(s, 13))
        /\ (At(yystos, s) = 10 => Taken(s, 7)) /\ (At(yystos, s) = 7 => Taken(s, 25))
        /\ (At(yystos, s) = 8 => Taken(s, 16)) /\ (At(yystos, s) = 16 => Taken(s, 23))
        /\ (At(yystos, s) = 28 => Taken(s, 17)) /\ (At(yystos, s) = 17 => Taken(s, 23))
        /\ (At(yystos, s) = 29 => Taken(s, 18)) /\ (At(yystos, s) = 18 => Taken(s, 25))
        /\ (At(yystos, s) = 11 => Taken(s, 7)) /\ (At(yystos, s) = 52 => Taken(s, 15))
        /\ (At(yystos, s) = 15 => Taken(s, 36)) /\ (At(yystos, s) = 36 => Taken(s, 31))
        /\ (At(yystos, s) = 31 => Taken(s, 20)) /\ (At(yystos, s) = 20 => Taken(s, 24))
        /\ (At(yystos, s) = 53 => Taken(s, 14)) /\ (At(yystos, s) = 11 => Taken(s, 15))
        /\ (At(yystos, s) = 21 => Taken(s, 23)) /\ (At(yystos, s) = 22 => Taken(s, 25))
        /\ (At(yystos, s) = 24 /\ At(yystos, t) = 5 => Taken(s, 6))
        /\ (At(yystos, s) = 25 /\ At(yystos, t) = 19 => Taken(s, 35))
        /\ (At(yystos, s) = 45 /\ At(yystos, t) = 50 => Taken(s, 9))
        /\ (At(yystos, s) = 25 /\ At(yystos, t) = 7 => Taken(s, 8))
        /\ (At(yystos, s) = 23 /\ At(yystos, t) = 16 => Taken(s, 28))
        /\ (At(yystos, s) = 23 /\ At(yystos, t) = 17 => Taken(s, 29))
        /\ (At(yystos, s) = 25 /\ At(yystos, t) = 18 => Taken(s, 30))
        /\ (At(yystos, s) = 24 /\ At(yystos, t) = 20 => Taken(s, 32))
        /\ (At(yystos, s) = 23 /\ At(yystos, t) = 21 => Taken(s, 33))
        /\ (At(yystos, s) = 25 /\ At(yystos, t) = 22 => Taken(s, 34))
BY ShiftingStates, ShiftsTaken, SymbolsUnder

\* The symbols of the right sides.
SymbolNames ==
    {"$end", "CONFIG", "ENDCONFIG", "HISTORY_SIZE", "ENDHISTORY_SIZE", "NAME", "ENDNAME",
     "CTX", "CMD", "PAR", "ENDCTX", "ENDCMD", "ENDPAR", "REQUIRED", "BRIEF", "HELP",
     "FUNCTION", "PROMPT", "NUMVAL", "DESCRIPTION", "VALUES", "STR", "NUM", "TXT",
     "ENDBRIEF", "ENDHELP", "ENDFUNCTION", "ENDREQUIRED", "ENDNUMVAL", "ENDDESCRIPTION",
     "ENDVALUES", "ENDPROMPT", "BOOL", "rules", "rule", "config", "contexts", "context",
     "context_start", "context_end", "commands", "command", "command_content",
     "command_start", "command_end", "params", "param", "param_description",
     "param_values"}

LEMMA RightSidesAreSequences == \A q \in 1..26 : RightSide[q] \in Seq(SymbolNames)
<1>1. /\ "$end" \in SymbolNames /\ "CONFIG" \in SymbolNames /\ "ENDCONFIG" \in SymbolNames
      /\ "HISTORY_SIZE" \in SymbolNames /\ "ENDHISTORY_SIZE" \in SymbolNames
      /\ "NAME" \in SymbolNames /\ "ENDNAME" \in SymbolNames /\ "CTX" \in SymbolNames
      /\ "CMD" \in SymbolNames /\ "PAR" \in SymbolNames /\ "ENDCTX" \in SymbolNames
      /\ "ENDCMD" \in SymbolNames /\ "ENDPAR" \in SymbolNames /\ "REQUIRED" \in SymbolNames
      /\ "BRIEF" \in SymbolNames /\ "HELP" \in SymbolNames /\ "FUNCTION" \in SymbolNames
      /\ "PROMPT" \in SymbolNames /\ "NUMVAL" \in SymbolNames
      /\ "DESCRIPTION" \in SymbolNames /\ "VALUES" \in SymbolNames /\ "STR" \in SymbolNames
      /\ "NUM" \in SymbolNames /\ "TXT" \in SymbolNames /\ "ENDBRIEF" \in SymbolNames
      /\ "ENDHELP" \in SymbolNames /\ "ENDFUNCTION" \in SymbolNames
      /\ "ENDREQUIRED" \in SymbolNames /\ "ENDNUMVAL" \in SymbolNames
      /\ "ENDDESCRIPTION" \in SymbolNames /\ "ENDVALUES" \in SymbolNames
      /\ "ENDPROMPT" \in SymbolNames /\ "BOOL" \in SymbolNames /\ "rules" \in SymbolNames
      /\ "rule" \in SymbolNames /\ "config" \in SymbolNames /\ "contexts" \in SymbolNames
      /\ "context" \in SymbolNames /\ "context_start" \in SymbolNames
      /\ "context_end" \in SymbolNames /\ "commands" \in SymbolNames
      /\ "command" \in SymbolNames /\ "command_content" \in SymbolNames
      /\ "command_start" \in SymbolNames /\ "command_end" \in SymbolNames
      /\ "params" \in SymbolNames /\ "param" \in SymbolNames
      /\ "param_description" \in SymbolNames /\ "param_values" \in SymbolNames
  BY DEF SymbolNames
<1>2. ElementName \in Seq(SymbolNames) /\ Required \in Seq(SymbolNames)
  BY <1>1 DEF ElementName, Required
<1> DEFINE Tail17 == <<"BRIEF", "STR", "ENDBRIEF", "HELP", "STR", "ENDHELP",
                       "FUNCTION", "TXT", "ENDFUNCTION">>
           Tail21 == <<"NUMVAL", "NUM", "ENDNUMVAL", "param_values", "ENDPAR">>
           Tail22 == <<"param_values", "ENDPAR">>
<1>3. /\ <<"CMD">> \in Seq(SymbolNames) /\ <<"PAR">> \in Seq(SymbolNames)
      /\ <<"param_description">> \in Seq(SymbolNames) /\ Tail17 \in Seq(SymbolNames)
      /\ Tail21 \in Seq(SymbolNames) /\ Tail22 \in Seq(SymbolNames)
  BY <1>1
<1>4. /\ RightSide[17] = <<"CMD">> \o ElementName \o Tail17
      /\ RightSide[21] = <<"PAR">> \o ElementName \o <<"param_description">> \o Required
                             \o Tail21
      /\ RightSide[22] = <<"PAR">> \o Required \o Tail22
  BY DEF RightSide
<1>5. /\ RightSide[17] \in Seq(SymbolNames) /\ RightSide[21] \in Seq(SymbolNames)
      /\ RightSide[22] \in Seq(SymbolNames)
  <2> HIDE DEF Tail17, Tail21, Tail22
  <2> QED
    BY <1>2, <1>3, <1>4
<1>6. /\ RightSide[1] = <<"rules", "$end">> /\ RightSide[2] = <<>>
      /\ RightSide[3] = <<"rules", "rule">> /\ RightSide[4] = <<"contexts">>
      /\ RightSide[5] = <<"config", "contexts">>
      /\ RightSide[6] = <<"CONFIG", "HISTORY_SIZE", "NUM", "ENDHISTORY_SIZE", "ENDCONFIG">>
      /\ RightSide[7] = <<>> /\ RightSide[8] = <<"contexts", "context">>
      /\ RightSide[9] = <<"context_start", "commands", "context_end">>
      /\ RightSide[10] = <<"CTX", "PROMPT", "TXT", "ENDPROMPT">>
      /\ RightSide[11] = <<"ENDCTX">> /\ RightSide[12] = <<>>
      /\ RightSide[13] = <<"commands", "command">>
      /\ RightSide[14] = <<"command_start", "command_content", "command_end">>
      /\ RightSide[15] = <<"params", "commands">>
      /\ RightSide[16] = <<"params", "commands", "context">> /\ RightSide[18] = <<"ENDCMD">>
      /\ RightSide[19] = <<>> /\ RightSide[20] = <<"params", "param">>
      /\ RightSide[23] = <<"DESCRIPTION", "STR", "ENDDESCRIPTION">> /\ RightSide[24] = <<>>
      /\ RightSide[25] = <<"VALUES", "TXT", "ENDVALUES">> /\ RightSide[26] = <<>>
  BY DEF RightSide
<1>7. /\ RightSide[1] \in Seq(SymbolNames) /\ RightSide[2] \in Seq(SymbolNames)
      /\ RightSide[3] \in Seq(SymbolNames) /\ RightSide[4] \in Seq(SymbolNames)
      /\ RightSide[5] \in Seq(SymbolNames) /\ RightSide[6] \in Seq(SymbolNames)
      /\ RightSide[7] \in Seq(SymbolNames) /\ RightSide[8] \in Seq(SymbolNames)
      /\ RightSide[9] \in Seq(SymbolNames) /\ RightSide[10] \in Seq(SymbolNames)
      /\ RightSide[11] \in Seq(SymbolNames) /\ RightSide[12] \in Seq(SymbolNames)
      /\ RightSide[13] \in Seq(SymbolNames) /\ RightSide[14] \in Seq(SymbolNames)
      /\ RightSide[15] \in Seq(SymbolNames) /\ RightSide[16] \in Seq(SymbolNames)
      /\ RightSide[18] \in Seq(SymbolNames) /\ RightSide[19] \in Seq(SymbolNames)
      /\ RightSide[20] \in Seq(SymbolNames) /\ RightSide[23] \in Seq(SymbolNames)
      /\ RightSide[24] \in Seq(SymbolNames) /\ RightSide[25] \in Seq(SymbolNames)
      /\ RightSide[26] \in Seq(SymbolNames)
  BY <1>1, <1>6
<1> QED
  BY <1>5, <1>7

LEMMA LengthsAgree == \A q \in 2..26 : Len(RightSide[q]) = At(yyr2, q)
<1> DEFINE size(q) == Len(RightSide[q])
<1>1. /\ size(2) = 0 /\ size(3) = 2 /\ size(4) = 1 /\ size(5) = 2 /\ size(6) = 5
      /\ size(7) = 0 /\ size(8) = 2 /\ size(9) = 3 /\ size(10) = 4 /\ size(11) = 1
      /\ size(12) = 0 /\ size(13) = 2 /\ size(14) = 3 /\ size(15) = 2 /\ size(16) = 3
      /\ size(17) = 13 /\ size(18) = 1 /\ size(19) = 0 /\ size(20) = 2 /\ size(21) = 13
      /\ size(22) = 6 /\ size(23) = 3 /\ size(24) = 0 /\ size(25) = 3 /\ size(26) = 0
  BY RightSideLengths, Zenon
<1>2. \A q \in 2..26 : size(q) = At(yyr2, q)
  <2> HIDE DEF size
  <2> QED
    BY <1>1, SizesOfRules
<1> QED
  BY <1>2

\* The name of a state's symbol.
NameOf(state) == At(yytname, At(yystos, state))

LEMMA NamesOfStates ==
    /\ NameOf(1) = "rules" /\ NameOf(2) = "$end" /\ NameOf(3) = "CONFIG"
    /\ NameOf(4) = "rule" /\ NameOf(5) = "config" /\ NameOf(6) = "contexts"
    /\ NameOf(7) = "HISTORY_SIZE" /\ NameOf(8) = "contexts" /\ NameOf(9) = "CTX"
    /\ NameOf(10) = "context" /\ NameOf(11) = "context_start" /\ NameOf(12) = "NUM"
    /\ NameOf(13) = "PROMPT" /\ NameOf(14) = "commands" /\ NameOf(15) = "ENDHISTORY_SIZE"
    /\ NameOf(16) = "TXT" /\ NameOf(17) = "CMD" /\ NameOf(18) = "ENDCTX"
    /\ NameOf(19) = "context_end" /\ NameOf(20) = "command" /\ NameOf(21) = "command_start"
    /\ NameOf(22) = "ENDCONFIG" /\ NameOf(23) = "ENDPROMPT" /\ NameOf(24) = "NAME"
    /\ NameOf(25) = "command_content" /\ NameOf(26) = "params" /\ NameOf(27) = "TXT"
    /\ NameOf(28) = "ENDCMD" /\ NameOf(29) = "command_end" /\ NameOf(30) = "PAR"
    /\ NameOf(31) = "commands" /\ NameOf(32) = "param" /\ NameOf(33) = "ENDNAME"
    /\ NameOf(34) = "NAME" /\ NameOf(35) = "REQUIRED" /\ NameOf(36) = "context"
    /\ NameOf(37) = "BRIEF" /\ NameOf(38) = "TXT" /\ NameOf(39) = "BOOL"
    /\ NameOf(40) = "STR" /\ NameOf(41) = "ENDNAME" /\ NameOf(42) = "ENDREQUIRED"
    /\ NameOf(43) = "ENDBRIEF" /\ NameOf(44) = "DESCRIPTION"
    /\ NameOf(45) = "param_description" /\ NameOf(46) = "VALUES"
    /\ NameOf(47) = "param_values" /\ NameOf(48) = "HELP" /\ NameOf(49) = "STR"
    /\ NameOf(50) = "REQUIRED" /\ NameOf(51) = "TXT" /\ NameOf(52) = "ENDPAR"
    /\ NameOf(53) = "STR" /\ NameOf(54) = "ENDDESCRIPTION" /\ NameOf(55) = "BOOL"
    /\ NameOf(56) = "ENDVALUES" /\ NameOf(57) = "ENDHELP" /\ NameOf(58) = "ENDREQUIRED"
    /\ NameOf(59) = "FUNCTION" /\ NameOf(60) = "NUMVAL" /\ NameOf(61) = "TXT"
    /\ NameOf(62) = "NUM" /\ NameOf(63) = "ENDFUNCTION" /\ NameOf(64) = "ENDNUMVAL"
    /\ NameOf(65) = "param_values" /\ NameOf(66) = "ENDPAR"
BY DEF NameOf, At, yytname, yystos

\* The states taken from the stack are those of the right side's symbols.
LEMMA SymbolsOfHandle ==
    ASSUME NEW stack, Path(stack), NEW r, NEW m, Handle(stack, r, m)
    PROVE  /\ r \in 2..26 /\ Len(RightSide[r]) = At(yyr2, r)
           /\ \A i \in 1..Len(RightSide[r]) : NameOf(stack[m + i]) = RightSide[r][i]
<1>1. r \in 2..26 /\ HandleIs(stack, r, m)
  BY Handles
<1>2. Len(RightSide[r]) = At(yyr2, r)
  <2>1. \A q \in 2..26 : Len(RightSide[q]) = At(yyr2, q)
    BY LengthsAgree
  <2> QED
    BY <1>1, <2>1
<1>3. \A i \in 1..Len(RightSide[r]) : NameOf(stack[m + i]) = RightSide[r][i]
  <2>1. CASE r = 3
    <3>1. /\ NameOf(stack[m + 1]) = "rules" /\ NameOf(stack[m + 2]) = "rule"
      BY <1>1, <2>1, NamesOfStates DEF HandleIs
    <3>2. /\ Len(RightSide[3]) = 2 /\ RightSide[3][1] = "rules" /\ RightSide[3][2] = "rule"
      BY RightSideOf3, Zenon
    <3>3. \A i \in 1..Len(RightSide[3]) : NameOf(stack[m + i]) = RightSide[3][i]
      BY <3>1, <3>2
    <3> QED
      BY <2>1, <3>3, Zenon
  <2>2. CASE r = 4
    <3>1. NameOf(stack[m + 1]) = "contexts"
      BY <1>1, <2>2, NamesOfStates DEF HandleIs
    <3>2. /\ Len(RightSide[4]) = 1 /\ RightSide[4][1] = "contexts"
      BY RightSideOf4, Zenon
    <3>3. \A i \in 1..Len(RightSide[4]) : NameOf(stack[m + i]) = RightSide[4][i]
      BY <3>1, <3>2
    <3> QED
      BY <2>2, <3>3, Zenon
  <2>3. CASE r = 5
    <3>1. /\ NameOf(stack[m + 1]) = "config" /\ NameOf(stack[m + 2]) = "contexts"
      BY <1>1, <2>3, NamesOfStates DEF HandleIs
    <3>2. /\ Len(RightSide[5]) = 2 /\ RightSide[5][1] = "config"
          /\ RightSide[5][2] = "contexts"
      BY RightSideOf5, Zenon
    <3>3. \A i \in 1..Len(RightSide[5]) : NameOf(stack[m + i]) = RightSide[5][i]
      BY <3>1, <3>2
    <3> QED
      BY <2>3, <3>3, Zenon
  <2>4. CASE r = 6
    <3>1. /\ NameOf(stack[m + 1]) = "CONFIG" /\ NameOf(stack[m + 2]) = "HISTORY_SIZE"
          /\ NameOf(stack[m + 3]) = "NUM" /\ NameOf(stack[m + 4]) = "ENDHISTORY_SIZE"
          /\ NameOf(stack[m + 5]) = "ENDCONFIG"
      BY <1>1, <2>4, NamesOfStates DEF HandleIs
    <3>2. /\ Len(RightSide[6]) = 5 /\ RightSide[6][1] = "CONFIG"
          /\ RightSide[6][2] = "HISTORY_SIZE" /\ RightSide[6][3] = "NUM"
          /\ RightSide[6][4] = "ENDHISTORY_SIZE" /\ RightSide[6][5] = "ENDCONFIG"
      BY RightSideOf6, Zenon
    <3>3. \A i \in 1..Len(RightSide[6]) : NameOf(stack[m + i]) = RightSide[6][i]
      BY <3>1, <3>2
    <3> QED
      BY <2>4, <3>3, Zenon
  <2>5. CASE r = 8
    <3>1. /\ NameOf(stack[m + 1]) = "contexts" /\ NameOf(stack[m + 2]) = "context"
      BY <1>1, <2>5, NamesOfStates DEF HandleIs
    <3>2. /\ Len(RightSide[8]) = 2 /\ RightSide[8][1] = "contexts"
          /\ RightSide[8][2] = "context"
      BY RightSideOf8, Zenon
    <3>3. \A i \in 1..Len(RightSide[8]) : NameOf(stack[m + i]) = RightSide[8][i]
      BY <3>1, <3>2
    <3> QED
      BY <2>5, <3>3, Zenon
  <2>6. CASE r = 9
    <3>1. /\ NameOf(stack[m + 1]) = "context_start" /\ NameOf(stack[m + 2]) = "commands"
          /\ NameOf(stack[m + 3]) = "context_end"
      BY <1>1, <2>6, NamesOfStates DEF HandleIs
    <3>2. /\ Len(RightSide[9]) = 3 /\ RightSide[9][1] = "context_start"
          /\ RightSide[9][2] = "commands" /\ RightSide[9][3] = "context_end"
      BY RightSideOf9, Zenon
    <3>3. \A i \in 1..Len(RightSide[9]) : NameOf(stack[m + i]) = RightSide[9][i]
      BY <3>1, <3>2
    <3> QED
      BY <2>6, <3>3, Zenon
  <2>7. CASE r = 10
    <3>1. /\ NameOf(stack[m + 1]) = "CTX" /\ NameOf(stack[m + 2]) = "PROMPT"
          /\ NameOf(stack[m + 3]) = "TXT" /\ NameOf(stack[m + 4]) = "ENDPROMPT"
      BY <1>1, <2>7, NamesOfStates DEF HandleIs
    <3>2. /\ Len(RightSide[10]) = 4 /\ RightSide[10][1] = "CTX"
          /\ RightSide[10][2] = "PROMPT" /\ RightSide[10][3] = "TXT"
          /\ RightSide[10][4] = "ENDPROMPT"
      BY RightSideOf10, Zenon
    <3>3. \A i \in 1..Len(RightSide[10]) : NameOf(stack[m + i]) = RightSide[10][i]
      BY <3>1, <3>2
    <3> QED
      BY <2>7, <3>3, Zenon
  <2>8. CASE r = 11
    <3>1. NameOf(stack[m + 1]) = "ENDCTX"
      BY <1>1, <2>8, NamesOfStates DEF HandleIs
    <3>2. /\ Len(RightSide[11]) = 1 /\ RightSide[11][1] = "ENDCTX"
      BY RightSideOf11, Zenon
    <3>3. \A i \in 1..Len(RightSide[11]) : NameOf(stack[m + i]) = RightSide[11][i]
      BY <3>1, <3>2
    <3> QED
      BY <2>8, <3>3, Zenon
  <2>9. CASE r = 13
    <3>1. /\ NameOf(stack[m + 1]) = "commands" /\ NameOf(stack[m + 2]) = "command"
      BY <1>1, <2>9, NamesOfStates DEF HandleIs
    <3>2. /\ Len(RightSide[13]) = 2 /\ RightSide[13][1] = "commands"
          /\ RightSide[13][2] = "command"
      BY RightSideOf13, Zenon
    <3>3. \A i \in 1..Len(RightSide[13]) : NameOf(stack[m + i]) = RightSide[13][i]
      BY <3>1, <3>2
    <3> QED
      BY <2>9, <3>3, Zenon
  <2>10. CASE r = 14
    <3>1. /\ NameOf(stack[m + 1]) = "command_start"
          /\ NameOf(stack[m + 2]) = "command_content"
          /\ NameOf(stack[m + 3]) = "command_end"
      BY <1>1, <2>10, NamesOfStates DEF HandleIs
    <3>2. /\ Len(RightSide[14]) = 3 /\ RightSide[14][1] = "command_start"
          /\ RightSide[14][2] = "command_content" /\ RightSide[14][3] = "command_end"
      BY RightSideOf14, Zenon
    <3>3. \A i \in 1..Len(RightSide[14]) : NameOf(stack[m + i]) = RightSide[14][i]
      BY <3>1, <3>2
    <3> QED
      BY <2>10, <3>3, Zenon
  <2>11. CASE r = 15
    <3>1. /\ NameOf(stack[m + 1]) = "params" /\ NameOf(stack[m + 2]) = "commands"
      BY <1>1, <2>11, NamesOfStates DEF HandleIs
    <3>2. /\ Len(RightSide[15]) = 2 /\ RightSide[15][1] = "params"
          /\ RightSide[15][2] = "commands"
      BY RightSideOf15, Zenon
    <3>3. \A i \in 1..Len(RightSide[15]) : NameOf(stack[m + i]) = RightSide[15][i]
      BY <3>1, <3>2
    <3> QED
      BY <2>11, <3>3, Zenon
  <2>12. CASE r = 16
    <3>1. /\ NameOf(stack[m + 1]) = "params" /\ NameOf(stack[m + 2]) = "commands"
          /\ NameOf(stack[m + 3]) = "context"
      BY <1>1, <2>12, NamesOfStates DEF HandleIs
    <3>2. /\ Len(RightSide[16]) = 3 /\ RightSide[16][1] = "params"
          /\ RightSide[16][2] = "commands" /\ RightSide[16][3] = "context"
      BY RightSideOf16, Zenon
    <3>3. \A i \in 1..Len(RightSide[16]) : NameOf(stack[m + i]) = RightSide[16][i]
      BY <3>1, <3>2
    <3> QED
      BY <2>12, <3>3, Zenon
  <2>13. CASE r = 17
    <3>1. /\ NameOf(stack[m + 1]) = "CMD" /\ NameOf(stack[m + 2]) = "NAME"
          /\ NameOf(stack[m + 3]) = "TXT" /\ NameOf(stack[m + 4]) = "ENDNAME"
          /\ NameOf(stack[m + 5]) = "BRIEF" /\ NameOf(stack[m + 6]) = "STR"
          /\ NameOf(stack[m + 7]) = "ENDBRIEF" /\ NameOf(stack[m + 8]) = "HELP"
          /\ NameOf(stack[m + 9]) = "STR" /\ NameOf(stack[m + 10]) = "ENDHELP"
          /\ NameOf(stack[m + 11]) = "FUNCTION" /\ NameOf(stack[m + 12]) = "TXT"
          /\ NameOf(stack[m + 13]) = "ENDFUNCTION"
      BY <1>1, <2>13, NamesOfStates DEF HandleIs
    <3>2. /\ Len(RightSide[17]) = 13 /\ RightSide[17][1] = "CMD"
          /\ RightSide[17][2] = "NAME" /\ RightSide[17][3] = "TXT"
          /\ RightSide[17][4] = "ENDNAME" /\ RightSide[17][5] = "BRIEF"
          /\ RightSide[17][6] = "STR" /\ RightSide[17][7] = "ENDBRIEF"
          /\ RightSide[17][8] = "HELP" /\ RightSide[17][9] = "STR"
          /\ RightSide[17][10] = "ENDHELP" /\ RightSide[17][11] = "FUNCTION"
          /\ RightSide[17][12] = "TXT" /\ RightSide[17][13] = "ENDFUNCTION"
      BY RightSideOf17, Zenon
    <3>3. \A i \in 1..Len(RightSide[17]) : NameOf(stack[m + i]) = RightSide[17][i]
      BY <3>1, <3>2
    <3> QED
      BY <2>13, <3>3, Zenon
  <2>14. CASE r = 18
    <3>1. NameOf(stack[m + 1]) = "ENDCMD"
      BY <1>1, <2>14, NamesOfStates DEF HandleIs
    <3>2. /\ Len(RightSide[18]) = 1 /\ RightSide[18][1] = "ENDCMD"
      BY RightSideOf18, Zenon
    <3>3. \A i \in 1..Len(RightSide[18]) : NameOf(stack[m + i]) = RightSide[18][i]
      BY <3>1, <3>2
    <3> QED
      BY <2>14, <3>3, Zenon
  <2>15. CASE r = 20
    <3>1. /\ NameOf(stack[m + 1]) = "params" /\ NameOf(stack[m + 2]) = "param"
      BY <1>1, <2>15, NamesOfStates DEF HandleIs
    <3>2. /\ Len(RightSide[20]) = 2 /\ RightSide[20][1] = "params"
          /\ RightSide[20][2] = "param"
      BY RightSideOf20, Zenon
    <3>3. \A i \in 1..Len(RightSide[20]) : NameOf(stack[m + i]) = RightSide[20][i]
      BY <3>1, <3>2
    <3> QED
      BY <2>15, <3>3, Zenon
  <2>16. CASE r = 21
    <3>1. /\ NameOf(stack[m + 1]) = "PAR" /\ NameOf(stack[m + 2]) = "NAME"
          /\ NameOf(stack[m + 3]) = "TXT" /\ NameOf(stack[m + 4]) = "ENDNAME"
          /\ NameOf(stack[m + 5]) = "param_description" /\ NameOf(stack[m + 6]) = "REQUIRED"
          /\ NameOf(stack[m + 7]) = "BOOL" /\ NameOf(stack[m + 8]) = "ENDREQUIRED"
          /\ NameOf(stack[m + 9]) = "NUMVAL" /\ NameOf(stack[m + 10]) = "NUM"
          /\ NameOf(stack[m + 11]) = "ENDNUMVAL" /\ NameOf(stack[m + 12]) = "param_values"
          /\ NameOf(stack[m + 13]) = "ENDPAR"
      BY <1>1, <2>16, NamesOfStates DEF HandleIs
    <3>2. /\ Len(RightSide[21]) = 13 /\ RightSide[21][1] = "PAR"
          /\ RightSide[21][2] = "NAME" /\ RightSide[21][3] = "TXT"
          /\ RightSide[21][4] = "ENDNAME" /\ RightSide[21][5] = "param_description"
          /\ RightSide[21][6] = "REQUIRED" /\ RightSide[21][7] = "BOOL"
          /\ RightSide[21][8] = "ENDREQUIRED" /\ RightSide[21][9] = "NUMVAL"
          /\ RightSide[21][10] = "NUM" /\ RightSide[21][11] = "ENDNUMVAL"
          /\ RightSide[21][12] = "param_values" /\ RightSide[21][13] = "ENDPAR"
      BY RightSideOf21, Zenon
    <3>3. \A i \in 1..Len(RightSide[21]) : NameOf(stack[m + i]) = RightSide[21][i]
      BY <3>1, <3>2
    <3> QED
      BY <2>16, <3>3, Zenon
  <2>17. CASE r = 22
    <3>1. /\ NameOf(stack[m + 1]) = "PAR" /\ NameOf(stack[m + 2]) = "REQUIRED"
          /\ NameOf(stack[m + 3]) = "BOOL" /\ NameOf(stack[m + 4]) = "ENDREQUIRED"
          /\ NameOf(stack[m + 5]) = "param_values" /\ NameOf(stack[m + 6]) = "ENDPAR"
      BY <1>1, <2>17, NamesOfStates DEF HandleIs
    <3>2. /\ Len(RightSide[22]) = 6 /\ RightSide[22][1] = "PAR"
          /\ RightSide[22][2] = "REQUIRED" /\ RightSide[22][3] = "BOOL"
          /\ RightSide[22][4] = "ENDREQUIRED" /\ RightSide[22][5] = "param_values"
          /\ RightSide[22][6] = "ENDPAR"
      BY RightSideOf22, Zenon
    <3>3. \A i \in 1..Len(RightSide[22]) : NameOf(stack[m + i]) = RightSide[22][i]
      BY <3>1, <3>2
    <3> QED
      BY <2>17, <3>3, Zenon
  <2>18. CASE r = 23
    <3>1. /\ NameOf(stack[m + 1]) = "DESCRIPTION" /\ NameOf(stack[m + 2]) = "STR"
          /\ NameOf(stack[m + 3]) = "ENDDESCRIPTION"
      BY <1>1, <2>18, NamesOfStates DEF HandleIs
    <3>2. /\ Len(RightSide[23]) = 3 /\ RightSide[23][1] = "DESCRIPTION"
          /\ RightSide[23][2] = "STR" /\ RightSide[23][3] = "ENDDESCRIPTION"
      BY RightSideOf23, Zenon
    <3>3. \A i \in 1..Len(RightSide[23]) : NameOf(stack[m + i]) = RightSide[23][i]
      BY <3>1, <3>2
    <3> QED
      BY <2>18, <3>3, Zenon
  <2>19. CASE r = 25
    <3>1. /\ NameOf(stack[m + 1]) = "VALUES" /\ NameOf(stack[m + 2]) = "TXT"
          /\ NameOf(stack[m + 3]) = "ENDVALUES"
      BY <1>1, <2>19, NamesOfStates DEF HandleIs
    <3>2. /\ Len(RightSide[25]) = 3 /\ RightSide[25][1] = "VALUES"
          /\ RightSide[25][2] = "TXT" /\ RightSide[25][3] = "ENDVALUES"
      BY RightSideOf25, Zenon
    <3>3. \A i \in 1..Len(RightSide[25]) : NameOf(stack[m + i]) = RightSide[25][i]
      BY <3>1, <3>2
    <3> QED
      BY <2>19, <3>3, Zenon
  <2>20. CASE r \in {2, 7, 12, 19, 24, 26}
    <3>1. Len(RightSide[r]) = 0
      BY <2>20, RightSideLengths
    <3> QED
      BY <3>1
  <2>21. \/ r = 2 \/ r = 7 \/ r = 12 \/ r = 19 \/ r = 24 \/ r = 26
        \/ r = 3 \/ r = 4 \/ r = 5 \/ r = 6 \/ r = 8 \/ r = 9 \/ r = 10 \/ r = 11
        \/ r = 13 \/ r = 14
        \/ r = 15 \/ r = 16 \/ r = 17 \/ r = 18 \/ r = 20 \/ r = 21 \/ r = 22 \/ r = 23 \/ r = 25
    BY <1>1
  <2> QED
    BY <2>1, <2>2, <2>3, <2>4, <2>5, <2>6, <2>7, <2>8, <2>9, <2>10, <2>11, <2>12,
       <2>13, <2>14, <2>15, <2>16, <2>17, <2>18, <2>19, <2>20, <2>21, Zenon
<1> QED
  BY <1>1, <1>2, <1>3

\* What the top of the stack reads, with the symbol under it, has a shift for what the
\* grammar goes on with.
LEMMA Offered ==
    ASSUME NEW s \in 0..66, At(yydefact, s) = 0, NEW t \in At(Beneath, s), t \in 0..66,
           NEW c \in 0..36, ~ Taken(s, c)
    PROVE
        /\ NameOf(s) # "rules"
        /\ At(yytname, c) # "rule"
        /\ At(yytname, c) # "contexts"
        /\ NameOf(s) = "CONFIG" => At(yytname, c) # "HISTORY_SIZE"
        /\ NameOf(s) = "HISTORY_SIZE" => At(yytname, c) # "NUM"
        /\ NameOf(s) = "NUM" /\ NameOf(t) = "HISTORY_SIZE"
             => At(yytname, c) # "ENDHISTORY_SIZE"
        /\ NameOf(s) = "ENDHISTORY_SIZE" => At(yytname, c) # "ENDCONFIG"
        /\ NameOf(s) # "contexts"
        /\ At(yytname, c) # "commands"
        /\ NameOf(s) = "commands" => At(yytname, c) # "ENDCTX"
        /\ NameOf(s) = "CTX" => At(yytname, c) # "PROMPT"
        /\ NameOf(s) = "PROMPT" => At(yytname, c) # "TXT"
        /\ NameOf(s) = "TXT" /\ NameOf(t) = "PROMPT" => At(yytname, c) # "ENDPROMPT"
        /\ NameOf(s) = "commands" => At(yytname, c) # "CMD"
        /\ At(yytname, c) # "command_content"
        /\ NameOf(s) = "command_content" => At(yytname, c) # "ENDCMD"
        /\ NameOf(s) = "commands" /\ NameOf(t) = "params" => At(yytname, c) # "CTX"
        /\ NameOf(s) = "CMD" => At(yytname, c) # "NAME"
        /\ NameOf(s) = "NAME" => At(yytname, c) # "TXT"
        /\ NameOf(s) = "TXT" /\ NameOf(t) = "NAME" => At(yytname, c) # "ENDNAME"
        /\ NameOf(s) = "ENDNAME" => At(yytname, c) # "BRIEF"
        /\ NameOf(s) = "BRIEF" => At(yytname, c) # "STR"
        /\ NameOf(s) = "STR" /\ NameOf(t) = "BRIEF" => At(yytname, c) # "ENDBRIEF"
        /\ NameOf(s) = "ENDBRIEF" => At(yytname, c) # "HELP"
        /\ NameOf(s) = "HELP" => At(yytname, c) # "STR"
        /\ NameOf(s) = "STR" /\ NameOf(t) = "HELP" => At(yytname, c) # "ENDHELP"
        /\ NameOf(s) = "ENDHELP" => At(yytname, c) # "FUNCTION"
        /\ NameOf(s) = "FUNCTION" => At(yytname, c) # "TXT"
        /\ NameOf(s) = "TXT" /\ NameOf(t) = "FUNCTION" => At(yytname, c) # "ENDFUNCTION"
        /\ NameOf(s) # "params"
        /\ NameOf(s) = "PAR" => At(yytname, c) # "NAME"
        /\ NameOf(s) = "param_description" => At(yytname, c) # "REQUIRED"
        /\ NameOf(s) = "REQUIRED" => At(yytname, c) # "BOOL"
        /\ NameOf(s) = "BOOL" => At(yytname, c) # "ENDREQUIRED"
        /\ NameOf(s) = "ENDREQUIRED" => At(yytname, c) # "NUMVAL"
        /\ NameOf(s) = "NUMVAL" => At(yytname, c) # "NUM"
        /\ NameOf(s) = "NUM" /\ NameOf(t) = "NUMVAL" => At(yytname, c) # "ENDNUMVAL"
        /\ NameOf(s) # "ENDNUMVAL"
        /\ NameOf(s) = "param_values" => At(yytname, c) # "ENDPAR"
        /\ NameOf(s) = "PAR" => At(yytname, c) # "REQUIRED"
        /\ NameOf(s) = "DESCRIPTION" => At(yytname, c) # "STR"
        /\ NameOf(s) = "STR" /\ NameOf(t) = "DESCRIPTION"
             => At(yytname, c) # "ENDDESCRIPTION"
        /\ NameOf(s) = "VALUES" => At(yytname, c) # "TXT"
        /\ NameOf(s) = "TXT" /\ NameOf(t) = "VALUES" => At(yytname, c) # "ENDVALUES"
<1>1. At(yystos, s) \in 0..53 /\ At(yystos, t) \in 0..53 /\ c \in 0..53 /\ c < 37
  <2>1. \A q \in 0..66 : At(yystos, q) \in 0..53
    BY DEF At, yystos
  <2> QED
    BY <2>1
<1>2. NameOf(s) # "rules"
  <2>1. At(yystos, s) # 38
    BY ShiftingStates
  <2> QED
    BY <1>1, <2>1, SymbolNumbers DEF NameOf
<1>3. At(yytname, c) # "rule"
  BY <1>1, SymbolNumbers
<1>4. At(yytname, c) # "contexts"
  BY <1>1, SymbolNumbers
<1>5. NameOf(s) = "CONFIG" => At(yytname, c) # "HISTORY_SIZE"
  <2>1. At(yystos, s) = 3 => c # 5
    BY TokensShifted
  <2> QED
    BY <1>1, <2>1, SymbolNumbers DEF NameOf
<1>6. NameOf(s) = "HISTORY_SIZE" => At(yytname, c) # "NUM"
  <2>1. At(yystos, s) = 5 => c # 24
    BY TokensShifted
  <2> QED
    BY <1>1, <2>1, SymbolNumbers DEF NameOf
<1>7. NameOf(s) = "NUM" /\ NameOf(t) = "HISTORY_SIZE"
        => At(yytname, c) # "ENDHISTORY_SIZE"
  <2>1. At(yystos, s) = 24 /\ At(yystos, t) = 5 => c # 6
    BY TokensShifted
  <2> QED
    BY <1>1, <2>1, SymbolNumbers DEF NameOf
<1>8. NameOf(s) = "ENDHISTORY_SIZE" => At(yytname, c) # "ENDCONFIG"
  <2>1. At(yystos, s) = 6 => c # 4
    BY TokensShifted
  <2> QED
    BY <1>1, <2>1, SymbolNumbers DEF NameOf
<1>9. NameOf(s) # "contexts"
  <2>1. At(yystos, s) # 41
    BY ShiftingStates
  <2> QED
    BY <1>1, <2>1, SymbolNumbers DEF NameOf
<1>10. At(yytname, c) # "commands"
  BY <1>1, SymbolNumbers
<1>11. NameOf(s) = "commands" => At(yytname, c) # "ENDCTX"
  <2>1. At(yystos, s) = 45 => c # 12
    BY TokensShifted
  <2> QED
    BY <1>1, <2>1, SymbolNumbers DEF NameOf
<1>12. NameOf(s) = "CTX" => At(yytname, c) # "PROMPT"
  <2>1. At(yystos, s) = 9 => c # 19
    BY TokensShifted
  <2> QED
    BY <1>1, <2>1, SymbolNumbers DEF NameOf
<1>13. NameOf(s) = "PROMPT" => At(yytname, c) # "TXT"
  <2>1. At(yystos, s) = 19 => c # 25
    BY TokensShifted
  <2> QED
    BY <1>1, <2>1, SymbolNumbers DEF NameOf
<1>14. NameOf(s) = "TXT" /\ NameOf(t) = "PROMPT"
        => At(yytname, c) # "ENDPROMPT"
  <2>1. At(yystos, s) = 25 /\ At(yystos, t) = 19 => c # 35
    BY TokensShifted
  <2> QED
    BY <1>1, <2>1, SymbolNumbers DEF NameOf
<1>15. NameOf(s) = "commands" => At(yytname, c) # "CMD"
  <2>1. At(yystos, s) = 45 => c # 10
    BY TokensShifted
  <2> QED
    BY <1>1, <2>1, SymbolNumbers DEF NameOf
<1>16. At(yytname, c) # "command_content"
  BY <1>1, SymbolNumbers
<1>17. NameOf(s) = "command_content" => At(yytname, c) # "ENDCMD"
  <2>1. At(yystos, s) = 47 => c # 13
    BY TokensShifted
  <2> QED
    BY <1>1, <2>1, SymbolNumbers DEF NameOf
<1>18. NameOf(s) = "commands" /\ NameOf(t) = "params"
        => At(yytname, c) # "CTX"
  <2>1. At(yystos, s) = 45 /\ At(yystos, t) = 50 => c # 9
    BY TokensShifted
  <2> QED
    BY <1>1, <2>1, SymbolNumbers DEF NameOf
<1>19. NameOf(s) = "CMD" => At(yytname, c) # "NAME"
  <2>1. At(yystos, s) = 10 => c # 7
    BY TokensShifted
  <2> QED
    BY <1>1, <2>1, SymbolNumbers DEF NameOf
<1>20. NameOf(s) = "NAME" => At(yytname, c) # "TXT"
  <2>1. At(yystos, s) = 7 => c # 25
    BY TokensShifted
  <2> QED
    BY <1>1, <2>1, SymbolNumbers DEF NameOf
<1>21. NameOf(s) = "TXT" /\ NameOf(t) = "NAME"
        => At(yytname, c) # "ENDNAME"
  <2>1. At(yystos, s) = 25 /\ At(yystos, t) = 7 => c # 8
    BY TokensShifted
  <2> QED
    BY <1>1, <2>1, SymbolNumbers DEF NameOf
<1>22. NameOf(s) = "ENDNAME" => At(yytname, c) # "BRIEF"
  <2>1. At(yystos, s) = 8 => c # 16
    BY TokensShifted
  <2> QED
    BY <1>1, <2>1, SymbolNumbers DEF NameOf
<1>23. NameOf(s) = "BRIEF" => At(yytname, c) # "STR"
  <2>1. At(yystos, s) = 16 => c # 23
    BY TokensShifted
  <2> QED
    BY <1>1, <2>1, SymbolNumbers DEF NameOf
<1>24. NameOf(s) = "STR" /\ NameOf(t) = "BRIEF"
        => At(yytname, c) # "ENDBRIEF"
  <2>1. At(yystos, s) = 23 /\ At(yystos, t) = 16 => c # 28
    BY TokensShifted
  <2> QED
    BY <1>1, <2>1, SymbolNumbers DEF NameOf
<1>25. NameOf(s) = "ENDBRIEF" => At(yytname, c) # "HELP"
  <2>1. At(yystos, s) = 28 => c # 17
    BY TokensShifted
  <2> QED
    BY <1>1, <2>1, SymbolNumbers DEF NameOf
<1>26. NameOf(s) = "HELP" => At(yytname, c) # "STR"
  <2>1. At(yystos, s) = 17 => c # 23
    BY TokensShifted
  <2> QED
    BY <1>1, <2>1, SymbolNumbers DEF NameOf
<1>27. NameOf(s) = "STR" /\ NameOf(t) = "HELP"
        => At(yytname, c) # "ENDHELP"
  <2>1. At(yystos, s) = 23 /\ At(yystos, t) = 17 => c # 29
    BY TokensShifted
  <2> QED
    BY <1>1, <2>1, SymbolNumbers DEF NameOf
<1>28. NameOf(s) = "ENDHELP" => At(yytname, c) # "FUNCTION"
  <2>1. At(yystos, s) = 29 => c # 18
    BY TokensShifted
  <2> QED
    BY <1>1, <2>1, SymbolNumbers DEF NameOf
<1>29. NameOf(s) = "FUNCTION" => At(yytname, c) # "TXT"
  <2>1. At(yystos, s) = 18 => c # 25
    BY TokensShifted
  <2> QED
    BY <1>1, <2>1, SymbolNumbers DEF NameOf
<1>30. NameOf(s) = "TXT" /\ NameOf(t) = "FUNCTION"
        => At(yytname, c) # "ENDFUNCTION"
  <2>1. At(yystos, s) = 25 /\ At(yystos, t) = 18 => c # 30
    BY TokensShifted
  <2> QED
    BY <1>1, <2>1, SymbolNumbers DEF NameOf
<1>31. NameOf(s) # "params"
  <2>1. At(yystos, s) # 50
    BY ShiftingStates
  <2> QED
    BY <1>1, <2>1, SymbolNumbers DEF NameOf
<1>32. NameOf(s) = "PAR" => At(yytname, c) # "NAME"
  <2>1. At(yystos, s) = 11 => c # 7
    BY TokensShifted
  <2> QED
    BY <1>1, <2>1, SymbolNumbers DEF NameOf
<1>33. NameOf(s) = "param_description" => At(yytname, c) # "REQUIRED"
  <2>1. At(yystos, s) = 52 => c # 15
    BY TokensShifted
  <2> QED
    BY <1>1, <2>1, SymbolNumbers DEF NameOf
<1>34. NameOf(s) = "REQUIRED" => At(yytname, c) # "BOOL"
  <2>1. At(yystos, s) = 15 => c # 36
    BY TokensShifted
  <2> QED
    BY <1>1, <2>1, SymbolNumbers DEF NameOf
<1>35. NameOf(s) = "BOOL" => At(yytname, c) # "ENDREQUIRED"
  <2>1. At(yystos, s) = 36 => c # 31
    BY TokensShifted
  <2> QED
    BY <1>1, <2>1, SymbolNumbers DEF NameOf
<1>36. NameOf(s) = "ENDREQUIRED" => At(yytname, c) # "NUMVAL"
  <2>1. At(yystos, s) = 31 => c # 20
    BY TokensShifted
  <2> QED
    BY <1>1, <2>1, SymbolNumbers DEF NameOf
<1>37. NameOf(s) = "NUMVAL" => At(yytname, c) # "NUM"
  <2>1. At(yystos, s) = 20 => c # 24
    BY TokensShifted
  <2> QED
    BY <1>1, <2>1, SymbolNumbers DEF NameOf
<1>38. NameOf(s) = "NUM" /\ NameOf(t) = "NUMVAL"
        => At(yytname, c) # "ENDNUMVAL"
  <2>1. At(yystos, s) = 24 /\ At(yystos, t) = 20 => c # 32
    BY TokensShifted
  <2> QED
    BY <1>1, <2>1, SymbolNumbers DEF NameOf
<1>39. NameOf(s) # "ENDNUMVAL"
  <2>1. At(yystos, s) # 32
    BY ShiftingStates
  <2> QED
    BY <1>1, <2>1, SymbolNumbers DEF NameOf
<1>40. NameOf(s) = "param_values" => At(yytname, c) # "ENDPAR"
  <2>1. At(yystos, s) = 53 => c # 14
    BY TokensShifted
  <2> QED
    BY <1>1, <2>1, SymbolNumbers DEF NameOf
<1>41. NameOf(s) = "PAR" => At(yytname, c) # "REQUIRED"
  <2>1. At(yystos, s) = 11 => c # 15
    BY TokensShifted
  <2> QED
    BY <1>1, <2>1, SymbolNumbers DEF NameOf
<1>42. NameOf(s) = "DESCRIPTION" => At(yytname, c) # "STR"
  <2>1. At(yystos, s) = 21 => c # 23
    BY TokensShifted
  <2> QED
    BY <1>1, <2>1, SymbolNumbers DEF NameOf
<1>43. NameOf(s) = "STR" /\ NameOf(t) = "DESCRIPTION"
        => At(yytname, c) # "ENDDESCRIPTION"
  <2>1. At(yystos, s) = 23 /\ At(yystos, t) = 21 => c # 33
    BY TokensShifted
  <2> QED
    BY <1>1, <2>1, SymbolNumbers DEF NameOf
<1>44. NameOf(s) = "VALUES" => At(yytname, c) # "TXT"
  <2>1. At(yystos, s) = 22 => c # 25
    BY TokensShifted
  <2> QED
    BY <1>1, <2>1, SymbolNumbers DEF NameOf
<1>45. NameOf(s) = "TXT" /\ NameOf(t) = "VALUES"
        => At(yytname, c) # "ENDVALUES"
  <2>1. At(yystos, s) = 25 /\ At(yystos, t) = 22 => c # 34
    BY TokensShifted
  <2> QED
    BY <1>1, <2>1, SymbolNumbers DEF NameOf
<1> QED
  BY <1>2, <1>3, <1>4, <1>5, <1>6, <1>7, <1>8, <1>9, <1>10, <1>11, <1>12, <1>13,
     <1>14, <1>15, <1>16, <1>17, <1>18, <1>19, <1>20, <1>21, <1>22, <1>23,
     <1>24, <1>25, <1>26, <1>27, <1>28, <1>29, <1>30, <1>31, <1>32, <1>33,
     <1>34, <1>35, <1>36, <1>37, <1>38, <1>39, <1>40, <1>41, <1>42, <1>43,
     <1>44, <1>45

\* The same, rule by rule: only the fourth symbols of the parameters' rules need a look at
\* what is further down.
LEMMA Continued ==
    ASSUME NEW s \in 0..66, At(yydefact, s) = 0, NEW t \in At(Beneath, s), t \in 0..66,
           NEW c \in 0..36, ~ Taken(s, c),
           NEW rule \in 1..26, NEW n \in 1..(Len(RightSide[rule]) - 1),
           ~ (rule \in {21, 22} /\ n = 4),
           NameOf(s) = RightSide[rule][n], n > 1 => NameOf(t) = RightSide[rule][n - 1],
           At(yytname, c) = Begins(RightSide[rule][n + 1])
    PROVE  FALSE
<1>1. PICK x, y, z : x = NameOf(s) /\ y = NameOf(t) /\ z = At(yytname, c)
  OBVIOUS
<1>2. PICK right : right = RightSide[rule]
  OBVIOUS
<1>3. /\ n \in 1..(Len(right) - 1) /\ x = right[n] /\ (n > 1 => y = right[n - 1])
      /\ z = Begins(right[n + 1])
  BY <1>1, <1>2, Zenon
<1>4. CASE rule = 1
  <2>1. /\ Len(right) = 2 /\ right[1] = "rules" /\ right[2] = "$end"
    BY <1>2, <1>4, RightSideOf1, Zenon
  <2>2. x # "rules"
    BY <1>1, Offered, Zenon
  <2>3. Begins("$end") = "$end"
    BY Beginnings, Zenon
  <2>4. n = 1
    BY <1>3, <2>1
  <2> QED
    BY <1>3, <2>1, <2>2, <2>3, <2>4
<1>5. CASE rule = 3
  <2>1. /\ Len(right) = 2 /\ right[1] = "rules" /\ right[2] = "rule"
    BY <1>2, <1>5, RightSideOf3, Zenon
  <2>2. z # "rule"
    BY <1>1, Offered, Zenon
  <2>3. Begins("rule") = "rule"
    BY Beginnings, Zenon
  <2>4. n = 1
    BY <1>3, <2>1
  <2> QED
    BY <1>3, <2>1, <2>2, <2>3, <2>4
<1>6. CASE rule = 5
  <2>1. /\ Len(right) = 2 /\ right[1] = "config" /\ right[2] = "contexts"
    BY <1>2, <1>6, RightSideOf5, Zenon
  <2>2. z # "contexts"
    BY <1>1, Offered, Zenon
  <2>3. Begins("contexts") = "contexts"
    BY Beginnings, Zenon
  <2>4. n = 1
    BY <1>3, <2>1
  <2> QED
    BY <1>3, <2>1, <2>2, <2>3, <2>4
<1>7. CASE rule = 6
  <2>1. /\ Len(right) = 5 /\ right[1] = "CONFIG" /\ right[2] = "HISTORY_SIZE"
        /\ right[3] = "NUM" /\ right[4] = "ENDHISTORY_SIZE" /\ right[5] = "ENDCONFIG"
    BY <1>2, <1>7, RightSideOf6, Zenon
  <2>2. /\ (x = "CONFIG" => z # "HISTORY_SIZE") /\ (x = "HISTORY_SIZE" => z # "NUM")
        /\ (x = "NUM" /\ y = "HISTORY_SIZE" => z # "ENDHISTORY_SIZE")
        /\ (x = "ENDHISTORY_SIZE" => z # "ENDCONFIG")
    BY <1>1, Offered, Zenon
  <2>3. /\ Begins("HISTORY_SIZE") = "HISTORY_SIZE" /\ Begins("NUM") = "NUM"
        /\ Begins("ENDHISTORY_SIZE") = "ENDHISTORY_SIZE"
        /\ Begins("ENDCONFIG") = "ENDCONFIG"
    BY Beginnings, Zenon
  <2>4. n = 1 \/ n = 2 \/ n = 3 \/ n = 4
    BY <1>3, <2>1
  <2> QED
    BY <1>3, <2>1, <2>2, <2>3, <2>4
<1>8. CASE rule = 8
  <2>1. /\ Len(right) = 2 /\ right[1] = "contexts" /\ right[2] = "context"
    BY <1>2, <1>8, RightSideOf8, Zenon
  <2>2. x # "contexts"
    BY <1>1, Offered, Zenon
  <2>3. Begins("context") = "CTX"
    BY Beginnings, Zenon
  <2>4. n = 1
    BY <1>3, <2>1
  <2> QED
    BY <1>3, <2>1, <2>2, <2>3, <2>4
<1>9. CASE rule = 9
  <2>1. /\ Len(right) = 3 /\ right[1] = "context_start" /\ right[2] = "commands"
        /\ right[3] = "context_end"
    BY <1>2, <1>9, RightSideOf9, Zenon
  <2>2. /\ z # "commands" /\ (x = "commands" => z # "ENDCTX")
    BY <1>1, Offered, Zenon
  <2>3. /\ Begins("commands") = "commands" /\ Begins("context_end") = "ENDCTX"
    BY Beginnings, Zenon
  <2>4. n = 1 \/ n = 2
    BY <1>3, <2>1
  <2> QED
    BY <1>3, <2>1, <2>2, <2>3, <2>4
<1>10. CASE rule = 10
  <2>1. /\ Len(right) = 4 /\ right[1] = "CTX" /\ right[2] = "PROMPT" /\ right[3] = "TXT"
        /\ right[4] = "ENDPROMPT"
    BY <1>2, <1>10, RightSideOf10, Zenon
  <2>2. /\ (x = "CTX" => z # "PROMPT") /\ (x = "PROMPT" => z # "TXT")
        /\ (x = "TXT" /\ y = "PROMPT" => z # "ENDPROMPT")
    BY <1>1, Offered, Zenon
  <2>3. /\ Begins("PROMPT") = "PROMPT" /\ Begins("TXT") = "TXT"
        /\ Begins("ENDPROMPT") = "ENDPROMPT"
    BY Beginnings, Zenon
  <2>4. n = 1 \/ n = 2 \/ n = 3
    BY <1>3, <2>1
  <2> QED
    BY <1>3, <2>1, <2>2, <2>3, <2>4
<1>11. CASE rule = 13
  <2>1. /\ Len(right) = 2 /\ right[1] = "commands" /\ right[2] = "command"
    BY <1>2, <1>11, RightSideOf13, Zenon
  <2>2. (x = "commands" => z # "CMD")
    BY <1>1, Offered, Zenon
  <2>3. Begins("command") = "CMD"
    BY Beginnings, Zenon
  <2>4. n = 1
    BY <1>3, <2>1
  <2> QED
    BY <1>3, <2>1, <2>2, <2>3, <2>4
<1>12. CASE rule = 14
  <2>1. /\ Len(right) = 3 /\ right[1] = "command_start" /\ right[2] = "command_content"
        /\ right[3] = "command_end"
    BY <1>2, <1>12, RightSideOf14, Zenon
  <2>2. /\ z # "command_content" /\ (x = "command_content" => z # "ENDCMD")
    BY <1>1, Offered, Zenon
  <2>3. /\ Begins("command_content") = "command_content" /\ Begins("command_end") = "ENDCMD"
    BY Beginnings, Zenon
  <2>4. n = 1 \/ n = 2
    BY <1>3, <2>1
  <2> QED
    BY <1>3, <2>1, <2>2, <2>3, <2>4
<1>13. CASE rule = 15
  <2>1. /\ Len(right) = 2 /\ right[1] = "params" /\ right[2] = "commands"
    BY <1>2, <1>13, RightSideOf15, Zenon
  <2>2. z # "commands"
    BY <1>1, Offered, Zenon
  <2>3. Begins("commands") = "commands"
    BY Beginnings, Zenon
  <2>4. n = 1
    BY <1>3, <2>1
  <2> QED
    BY <1>3, <2>1, <2>2, <2>3, <2>4
<1>14. CASE rule = 16
  <2>1. /\ Len(right) = 3 /\ right[1] = "params" /\ right[2] = "commands"
        /\ right[3] = "context"
    BY <1>2, <1>14, RightSideOf16, Zenon
  <2>2. /\ z # "commands" /\ (x = "commands" /\ y = "params" => z # "CTX")
    BY <1>1, Offered, Zenon
  <2>3. /\ Begins("commands") = "commands" /\ Begins("context") = "CTX"
    BY Beginnings, Zenon
  <2>4. n = 1 \/ n = 2
    BY <1>3, <2>1
  <2> QED
    BY <1>3, <2>1, <2>2, <2>3, <2>4
<1>15. CASE rule = 17
  <2>1. /\ Len(right) = 13 /\ right[1] = "CMD" /\ right[2] = "NAME" /\ right[3] = "TXT"
        /\ right[4] = "ENDNAME" /\ right[5] = "BRIEF" /\ right[6] = "STR"
        /\ right[7] = "ENDBRIEF" /\ right[8] = "HELP" /\ right[9] = "STR"
        /\ right[10] = "ENDHELP" /\ right[11] = "FUNCTION" /\ right[12] = "TXT"
        /\ right[13] = "ENDFUNCTION"
    BY <1>2, <1>15, RightSideOf17, Zenon
  <2>2. /\ (x = "CMD" => z # "NAME") /\ (x = "NAME" => z # "TXT")
        /\ (x = "TXT" /\ y = "NAME" => z # "ENDNAME") /\ (x = "ENDNAME" => z # "BRIEF")
        /\ (x = "BRIEF" => z # "STR") /\ (x = "STR" /\ y = "BRIEF" => z # "ENDBRIEF")
        /\ (x = "ENDBRIEF" => z # "HELP") /\ (x = "HELP" => z # "STR")
        /\ (x = "STR" /\ y = "HELP" => z # "ENDHELP") /\ (x = "ENDHELP" => z # "FUNCTION")
        /\ (x = "FUNCTION" => z # "TXT")
        /\ (x = "TXT" /\ y = "FUNCTION" => z # "ENDFUNCTION")
    BY <1>1, Offered, Zenon
  <2>3. /\ Begins("NAME") = "NAME" /\ Begins("TXT") = "TXT" /\ Begins("ENDNAME") = "ENDNAME"
        /\ Begins("BRIEF") = "BRIEF" /\ Begins("STR") = "STR"
        /\ Begins("ENDBRIEF") = "ENDBRIEF" /\ Begins("HELP") = "HELP"
        /\ Begins("ENDHELP") = "ENDHELP" /\ Begins("FUNCTION") = "FUNCTION"
        /\ Begins("ENDFUNCTION") = "ENDFUNCTION"
    BY Beginnings, Zenon
  <2>4. n \in 1..12
    BY <1>3, <2>1
  <2>5. n # 1
    BY <1>3, <2>1, <2>2, <2>3
  <2>6. n # 2
    BY <1>3, <2>1, <2>2, <2>3
  <2>7. n # 3
    BY <1>3, <2>1, <2>2, <2>3
  <2>8. n # 4
    BY <1>3, <2>1, <2>2, <2>3
  <2>9. n # 5
    BY <1>3, <2>1, <2>2, <2>3
  <2>10. n # 6
    BY <1>3, <2>1, <2>2, <2>3
  <2>11. n # 7
    BY <1>3, <2>1, <2>2, <2>3
  <2>12. n # 8
    BY <1>3, <2>1, <2>2, <2>3
  <2>13. n # 9
    BY <1>3, <2>1, <2>2, <2>3
  <2>14. n # 10
    BY <1>3, <2>1, <2>2, <2>3
  <2>15. n # 11
    BY <1>3, <2>1, <2>2, <2>3
  <2>16. n # 12
    BY <1>3, <2>1, <2>2, <2>3
  <2> QED
    BY <2>4, <2>5, <2>6, <2>7, <2>8, <2>9, <2>10, <2>11, <2>12, <2>13, <2>14,
       <2>15, <2>16
<1>16. CASE rule = 20
  <2>1. /\ Len(right) = 2 /\ right[1] = "params" /\ right[2] = "param"
    BY <1>2, <1>16, RightSideOf20, Zenon
  <2>2. x # "params"
    BY <1>1, Offered, Zenon
  <2>3. Begins("param") = "PAR"
    BY Beginnings, Zenon
  <2>4. n = 1
    BY <1>3, <2>1
  <2> QED
    BY <1>3, <2>1, <2>2, <2>3, <2>4
<1>17. CASE rule = 21
  <2>1. /\ Len(right) = 13 /\ right[1] = "PAR" /\ right[2] = "NAME" /\ right[3] = "TXT"
        /\ right[4] = "ENDNAME" /\ right[5] = "param_description" /\ right[6] = "REQUIRED"
        /\ right[7] = "BOOL" /\ right[8] = "ENDREQUIRED" /\ right[9] = "NUMVAL"
        /\ right[10] = "NUM" /\ right[11] = "ENDNUMVAL" /\ right[12] = "param_values"
        /\ right[13] = "ENDPAR"
    BY <1>2, <1>17, RightSideOf21, Zenon
  <2>2. /\ (x = "PAR" => z # "NAME") /\ (x = "NAME" => z # "TXT")
        /\ (x = "TXT" /\ y = "NAME" => z # "ENDNAME")
        /\ (x = "param_description" => z # "REQUIRED") /\ (x = "REQUIRED" => z # "BOOL")
        /\ (x = "BOOL" => z # "ENDREQUIRED") /\ (x = "ENDREQUIRED" => z # "NUMVAL")
        /\ (x = "NUMVAL" => z # "NUM") /\ (x = "NUM" /\ y = "NUMVAL" => z # "ENDNUMVAL")
        /\ x # "ENDNUMVAL" /\ (x = "param_values" => z # "ENDPAR")
    BY <1>1, Offered, Zenon
  <2>3. /\ Begins("NAME") = "NAME" /\ Begins("TXT") = "TXT" /\ Begins("ENDNAME") = "ENDNAME"
        /\ Begins("REQUIRED") = "REQUIRED" /\ Begins("BOOL") = "BOOL"
        /\ Begins("ENDREQUIRED") = "ENDREQUIRED" /\ Begins("NUMVAL") = "NUMVAL"
        /\ Begins("NUM") = "NUM" /\ Begins("ENDNUMVAL") = "ENDNUMVAL"
        /\ Begins("param_values") = "VALUES" /\ Begins("ENDPAR") = "ENDPAR"
    BY Beginnings, Zenon
  <2>4. n \in 1..12
    BY <1>3, <2>1
  <2>5. n # 1
    BY <1>3, <2>1, <2>2, <2>3
  <2>6. n # 2
    BY <1>3, <2>1, <2>2, <2>3
  <2>7. n # 3
    BY <1>3, <2>1, <2>2, <2>3
  <2>8. n # 4
    BY <1>3, <1>17, <2>1, <2>2, <2>3
  <2>9. n # 5
    BY <1>3, <2>1, <2>2, <2>3
  <2>10. n # 6
    BY <1>3, <2>1, <2>2, <2>3
  <2>11. n # 7
    BY <1>3, <2>1, <2>2, <2>3
  <2>12. n # 8
    BY <1>3, <2>1, <2>2, <2>3
  <2>13. n # 9
    BY <1>3, <2>1, <2>2, <2>3
  <2>14. n # 10
    BY <1>3, <2>1, <2>2, <2>3
  <2>15. n # 11
    BY <1>3, <2>1, <2>2, <2>3
  <2>16. n # 12
    BY <1>3, <2>1, <2>2, <2>3
  <2> QED
    BY <2>4, <2>5, <2>6, <2>7, <2>8, <2>9, <2>10, <2>11, <2>12, <2>13, <2>14,
       <2>15, <2>16
<1>18. CASE rule = 22
  <2>1. /\ Len(right) = 6 /\ right[1] = "PAR" /\ right[2] = "REQUIRED" /\ right[3] = "BOOL"
        /\ right[4] = "ENDREQUIRED" /\ right[5] = "param_values" /\ right[6] = "ENDPAR"
    BY <1>2, <1>18, RightSideOf22, Zenon
  <2>2. /\ (x = "PAR" => z # "REQUIRED") /\ (x = "REQUIRED" => z # "BOOL")
        /\ (x = "BOOL" => z # "ENDREQUIRED") /\ (x = "param_values" => z # "ENDPAR")
    BY <1>1, Offered, Zenon
  <2>3. /\ Begins("REQUIRED") = "REQUIRED" /\ Begins("BOOL") = "BOOL"
        /\ Begins("ENDREQUIRED") = "ENDREQUIRED" /\ Begins("ENDPAR") = "ENDPAR"
    BY Beginnings, Zenon
  <2>4. n = 1 \/ n = 2 \/ n = 3 \/ n = 4 \/ n = 5
    BY <1>3, <2>1
  <2> QED
    BY <1>3, <1>18, <2>1, <2>2, <2>3, <2>4
<1>19. CASE rule = 23
  <2>1. /\ Len(right) = 3 /\ right[1] = "DESCRIPTION" /\ right[2] = "STR"
        /\ right[3] = "ENDDESCRIPTION"
    BY <1>2, <1>19, RightSideOf23, Zenon
  <2>2. /\ (x = "DESCRIPTION" => z # "STR")
        /\ (x = "STR" /\ y = "DESCRIPTION" => z # "ENDDESCRIPTION")
    BY <1>1, Offered, Zenon
  <2>3. /\ Begins("STR") = "STR" /\ Begins("ENDDESCRIPTION") = "ENDDESCRIPTION"
    BY Beginnings, Zenon
  <2>4. n = 1 \/ n = 2
    BY <1>3, <2>1
  <2> QED
    BY <1>3, <2>1, <2>2, <2>3, <2>4
<1>20. CASE rule = 25
  <2>1. /\ Len(right) = 3 /\ right[1] = "VALUES" /\ right[2] = "TXT"
        /\ right[3] = "ENDVALUES"
    BY <1>2, <1>20, RightSideOf25, Zenon
  <2>2. /\ (x = "VALUES" => z # "TXT") /\ (x = "TXT" /\ y = "VALUES" => z # "ENDVALUES")
    BY <1>1, Offered, Zenon
  <2>3. /\ Begins("TXT") = "TXT" /\ Begins("ENDVALUES") = "ENDVALUES"
    BY Beginnings, Zenon
  <2>4. n = 1 \/ n = 2
    BY <1>3, <2>1
  <2> QED
    BY <1>3, <2>1, <2>2, <2>3, <2>4
<1>21. Len(RightSide[rule]) > 1
  <2>1. n >= 1 /\ n <= Len(RightSide[rule]) - 1 /\ Len(RightSide[rule]) \in Nat
    <3>1. RightSide[rule] \in Seq(SymbolNames)
      BY RightSidesAreSequences
    <3>2. PICK l \in Nat : l = Len(RightSide[rule])
      BY <3>1
    <3>3. n \in 1..(l - 1)
      BY <3>2
    <3> QED
      BY <3>2, <3>3
  <2> QED
    BY <2>1
<1>22. rule \in {1, 3, 5, 6, 8, 9, 10, 13, 14, 15, 16, 17, 20, 21, 22, 23, 25}
  <2>1. \A q \in 1..26 :
            Len(RightSide[q]) > 1 =>
                q \in {1, 3, 5, 6, 8, 9, 10, 13, 14, 15, 16, 17, 20, 21, 22, 23, 25}
    <3> DEFINE size(q) == Len(RightSide[q])
    <3>1. /\ size(2) = 0 /\ size(4) = 1 /\ size(7) = 0 /\ size(11) = 1 /\ size(12) = 0
          /\ size(18) = 1 /\ size(19) = 0 /\ size(24) = 0 /\ size(26) = 0
      BY RightSideLengths, Zenon
    <3>2. \A q \in 1..26 :
              size(q) > 1 =>
                  q \in {1, 3, 5, 6, 8, 9, 10, 13, 14, 15, 16, 17, 20, 21, 22, 23, 25}
      <4> HIDE DEF size
      <4> QED
        BY <3>1
    <3> QED
      BY <3>2
  <2> QED
    BY <1>21, <2>1
<1> QED
  BY <1>4, <1>5, <1>6, <1>7, <1>8, <1>9, <1>10, <1>11, <1>12, <1>13, <1>14,
     <1>15, <1>16, <1>17, <1>18, <1>19, <1>20, <1>22

LEMMA SpelledIs ==
    ASSUME NEW n \in Nat
    PROVE  /\ DOMAIN Spelled(n) = 1..n
           /\ \A i \in 1..n : Spelled(n)[i] = NameOf(yyss[Len(yyss) - n + i])
           /\ Spelled(n) = [i \in 1..n |-> NameOf(yyss[Len(yyss) - n + i])]
BY DEF Spelled, NameOf

LEMMA ReductionsRead == ParserInv => ReducesRightSides
<1> SUFFICES ASSUME ParserInv, Decided, Decision > 0
             PROVE  /\ Len(yyss) > Len(RightSide[Decision])
                    /\ Spelled(Len(RightSide[Decision])) = RightSide[Decision]
  BY DEF ReducesRightSides
<1>1. PICK r : r = Decision
  OBVIOUS
<1>2. PICK m : Handle(yyss, r, m)
  BY <1>1, RuleApplies
<1>3. Path(yyss)
  BY TopIsState
<1>4. PICK l \in Nat : l = Len(yyss) /\ m \in 1..l
  BY <1>2, <1>3, Handles, PathOfStates
<1>5. /\ r \in 2..26 /\ Len(RightSide[r]) = At(yyr2, r)
      /\ \A i \in 1..Len(RightSide[r]) : NameOf(yyss[m + i]) = RightSide[r][i]
  BY <1>2, <1>3, SymbolsOfHandle
<1>6. PICK right : right = RightSide[r]
  OBVIOUS
<1>7. PICK n \in Nat : /\ n = Len(right) /\ DOMAIN right = 1..n
                       /\ right = [i \in 1..n |-> right[i]]
  <2>1. right \in Seq(SymbolNames)
    <3>1. r \in 1..26
      BY <1>5
    <3> QED
      BY <1>6, <3>1, RightSidesAreSequences
  <2> QED
    BY <2>1
<1>8. m = l - n
  <2>1. m = Len(yyss) - At(yyr2, r)
    BY <1>2 DEF Handle
  <2>2. At(yyr2, r) = n
    BY <1>5, <1>6, <1>7, Zenon
  <2> QED
    BY <1>4, <2>1, <2>2, Zenon
<1>9. l > n
  BY <1>4, <1>8
<1>10. \A i \in 1..n : NameOf(yyss[l - n + i]) = right[i]
  <2>1. \A i \in 1..n : NameOf(yyss[m + i]) = right[i]
    BY <1>5, <1>6, <1>7, Zenon
  <2> QED
    BY <1>8, <2>1, Zenon
<1>11. Spelled(n) = right
  <2>1. Spelled(n) = [i \in 1..n |-> NameOf(yyss[l - n + i])]
    BY <1>4, SpelledIs
  <2>2. [i \in 1..n |-> NameOf(yyss[l - n + i])] = [i \in 1..n |-> right[i]]
    BY <1>10, Zenon
  <2> QED
    BY <1>7, <2>1, <2>2, Zenon
<1> QED
  BY <1>1, <1>4, <1>6, <1>7, <1>9, <1>11

\* Where a token is refused the tables have neither a shift for it nor a rule.
LEMMA RefusedToken ==
    ASSUME ParserInv, Decided, Decision = 0
    PROVE  yychar \in 0..36 /\ At(yydefact, Top) = 0 /\ ~ Taken(Top, yychar)
<1>1. Top \in 0..66 /\ Top # 2 /\ yychar \in Tokens \cup {YYEMPTY}
  BY TopIsState DEF ParserInv, RegisterInv, YYFINAL
<1>2. \A s \in 0..66 : At(yypact, s) = -37 /\ s # 2 => At(yydefact, s) # 0
  BY DEF At, yypact, yydefact
<1>3. Consistent => Decision = At(yydefact, Top)
  BY DEF Decision
<1>4. ~ Consistent
  BY <1>1, <1>2, <1>3 DEF Consistent, YYPACT_NINF
<1>5. yychar \in 0..36
  <2>1. yychar \in Tokens
    BY <1>1, <1>4 DEF Decided
  <2> QED
    BY <2>1 DEF Tokens, YYNTOKENS
<1>6. ~ Taken(Top, yychar)
  <2> SUFFICES ASSUME Taken(Top, yychar)
               PROVE  FALSE
    OBVIOUS
  <2>1. PICK k \in 0..63 : k = At(yypact, Top) + yychar
    BY DEF Taken, YYLAST
  <2>2. At(yycheck, k) = yychar
    BY <2>1 DEF Taken
  <2>3. Decision = -At(yytable, k)
    BY <1>4, <2>1, <2>2 DEF Decision, YYLAST
  <2>4. \A q \in 0..63 : At(yycheck, q) # -1 => At(yytable, q) \in Nat /\ At(yytable, q) # 0
    BY DEF At, yycheck, yytable
  <2>5. At(yytable, k) \in Nat /\ At(yytable, k) # 0
    <3>1. At(yycheck, k) # -1
      BY <1>5, <2>2
    <3> QED
      BY <2>4, <3>1
  <2> QED
    BY <2>3, <2>5
<1>7. At(yydefact, Top) = 0
  <2>1. PICK k : k = At(yypact, Top) + yychar
    OBVIOUS
  <2>2. ~ (k \in 0..63 /\ At(yycheck, k) = yychar)
    BY <1>4, <1>6, <2>1 DEF Taken, Consistent, YYLAST
  <2> QED
    BY <2>1, <2>2 DEF Decision, YYLAST
<1> QED
  BY <1>5, <1>6, <1>7

\* The states whose symbols come fourth in two rules, and the states three under them.
LEMMA FourthSymbols ==
    /\ \A q \in 0..66 : At(yystos, q) \in 0..53
    /\ \A q \in 0..66 : At(yystos, q) = 8 /\ At(yydefact, q) = 0 => q = 33
    /\ \A q \in 0..66 : At(yystos, q) = 31 /\ At(yydefact, q) = 0 => q = 58
    /\ At(Beneath, 33) = {27} /\ At(Beneath, 27) = {24} /\ At(Beneath, 24) = {17}
    /\ At(Beneath, 58) = {55} /\ At(Beneath, 55) = {50} /\ At(Beneath, 50) = {45}
<1>1. \A q \in 0..66 : At(yystos, q) \in 0..53
  BY DEF At, yystos
<1>2. \A q \in 0..66 : At(yystos, q) = 8 /\ At(yydefact, q) = 0 => q = 33
  BY DEF At, yystos, yydefact
<1>3. \A q \in 0..66 : At(yystos, q) = 31 /\ At(yydefact, q) = 0 => q = 58
  BY DEF At, yystos, yydefact
<1>4. /\ At(Beneath, 33) = {27} /\ At(Beneath, 27) = {24} /\ At(Beneath, 24) = {17}
      /\ At(Beneath, 58) = {55} /\ At(Beneath, 55) = {50} /\ At(Beneath, 50) = {45}
  BY EachBeneath, Zenon
<1> QED
  BY <1>1, <1>2, <1>3, <1>4, Zenon

LEMMA NamesBeneath == NameOf(17) # "PAR" /\ NameOf(45) # "PAR"
BY DEF NameOf, At, yytname, yystos

\* The two fourth symbols: what is under them tells one rule from another.
LEMMA FarBeneath ==
    ASSUME NEW stack, Path(stack), NEW l \in Nat, l = Len(stack), l > 4,
           At(yydefact, stack[l]) = 0
    PROVE  /\ NameOf(stack[l]) = "ENDNAME" => NameOf(stack[l - 3]) # "PAR"
           /\ NameOf(stack[l]) = "ENDREQUIRED" => NameOf(stack[l - 3]) # "PAR"
<1>1. /\ l \in 1..l /\ l - 1 \in 1..l /\ l - 2 \in 1..l
      /\ (l - 1) - 1 = l - 2 /\ (l - 2) - 1 = l - 3
  OBVIOUS
<1>2. \A i \in 1..l : /\ stack[i] \in 0..66
                      /\ stack[i] # 0 => stack[i - 1] \in At(Beneath, stack[i])
  BY PathOfStates, Under
<1>3. PICK a, b, c, d : a = stack[l] /\ b = stack[l - 1] /\ c = stack[l - 2] /\ d = stack[l - 3]
  OBVIOUS
<1>4. /\ a \in 0..66
      /\ a # 0 => b \in At(Beneath, a)
      /\ b # 0 => c \in At(Beneath, b)
      /\ c # 0 => d \in At(Beneath, c)
  BY <1>1, <1>2, <1>3
<1>5. NameOf(a) = "ENDNAME" => a = 33
  <2> SUFFICES ASSUME NameOf(a) = "ENDNAME"
               PROVE  a = 33
    OBVIOUS
  <2>1. At(yystos, a) \in 0..53
    BY <1>4, FourthSymbols, Zenon
  <2>2. At(yystos, a) = 8
    BY <2>1, SymbolNumbers, Zenon DEF NameOf
  <2> QED
    BY <1>3, <1>4, <2>2, FourthSymbols, Zenon
<1>6. NameOf(a) = "ENDREQUIRED" => a = 58
  <2> SUFFICES ASSUME NameOf(a) = "ENDREQUIRED"
               PROVE  a = 58
    OBVIOUS
  <2>1. At(yystos, a) \in 0..53
    BY <1>4, FourthSymbols, Zenon
  <2>2. At(yystos, a) = 31
    BY <2>1, SymbolNumbers, Zenon DEF NameOf
  <2> QED
    BY <1>3, <1>4, <2>2, FourthSymbols, Zenon
<1>7. a = 33 => d = 17
  <2> SUFFICES ASSUME a = 33
               PROVE  d = 17
    OBVIOUS
  <2>1. /\ At(Beneath, 33) = {27} /\ At(Beneath, 27) = {24} /\ At(Beneath, 24) = {17}
    BY FourthSymbols, Zenon
  <2>2. b = 27
    <3>1. a # 0
      OBVIOUS
    <3>2. b \in {27}
      BY <1>4, <2>1, <3>1, Zenon
    <3> QED
      BY <3>2, Zenon
  <2>3. c = 24
    <3>1. b # 0
      BY <2>2
    <3>2. c \in {24}
      BY <1>4, <2>1, <2>2, <3>1, Zenon
    <3> QED
      BY <3>2, Zenon
  <2>4. c # 0
    BY <2>3
  <2>5. d \in {17}
    BY <1>4, <2>1, <2>3, <2>4, Zenon
  <2> QED
    BY <2>5, Zenon
<1>8. a = 58 => d = 45
  <2> SUFFICES ASSUME a = 58
               PROVE  d = 45
    OBVIOUS
  <2>1. /\ At(Beneath, 58) = {55} /\ At(Beneath, 55) = {50} /\ At(Beneath, 50) = {45}
    BY FourthSymbols, Zenon
  <2>2. b = 55
    <3>1. a # 0
      OBVIOUS
    <3>2. b \in {55}
      BY <1>4, <2>1, <3>1, Zenon
    <3> QED
      BY <3>2, Zenon
  <2>3. c = 50
    <3>1. b # 0
      BY <2>2
    <3>2. c \in {50}
      BY <1>4, <2>1, <2>2, <3>1, Zenon
    <3> QED
      BY <3>2, Zenon
  <2>4. c # 0
    BY <2>3
  <2>5. d \in {45}
    BY <1>4, <2>1, <2>3, <2>4, Zenon
  <2> QED
    BY <2>5, Zenon
<1>9. a = 33 \/ a = 58 => NameOf(d) # "PAR"
  <2>1. a = 33 => NameOf(d) # "PAR"
    BY <1>7, NamesBeneath, Zenon
  <2>2. a = 58 => NameOf(d) # "PAR"
    BY <1>8, NamesBeneath, Zenon
  <2> QED
    BY <2>1, <2>2, Zenon
<1> QED
  BY <1>3, <1>5, <1>6, <1>9, Zenon

LEMMA ErrorsAreReal == ParserInv => OnlyRealErrors
<1> SUFFICES ASSUME ParserInv, Decided, Decision = 0,
                    NEW rule \in DOMAIN RightSide,
                    NEW n \in 1..(Len(RightSide[rule]) - 1), n < Len(yyss),
                    Spelled(n) = SubSeq(RightSide[rule], 1, n),
                    Begins(RightSide[rule][n + 1]) = At(yytname, yychar)
             PROVE  FALSE
  BY DEF OnlyRealErrors
<1>1. rule \in 1..26
  BY RightSideLengths
<1>2. PICK right \in Seq(SymbolNames) : right = RightSide[rule]
  BY <1>1, RightSidesAreSequences
<1>3. n \in Nat /\ n >= 1 /\ n < Len(right) /\ Len(right) \in Nat
  <2>1. n \in 1..(Len(right) - 1)
    BY <1>2, Zenon
  <2> QED
    BY <1>2, <2>1
<1>4. Path(yyss) /\ Top = Last(yyss) /\ Top \in 0..66
  BY TopIsState
<1>5. PICK l \in Nat : l = Len(yyss)
  BY <1>4, PathOfStates
<1>6. n < l /\ l > 1
  BY <1>3, <1>5
<1>7. \A i \in 1..n : NameOf(yyss[l - n + i]) = right[i]
  <2>1. \A i \in 1..n : SubSeq(right, 1, n)[i] = right[i]
    BY <1>2, <1>3
  <2>2. \A i \in 1..n : Spelled(n)[i] = NameOf(yyss[l - n + i])
    BY <1>3, <1>5, SpelledIs
  <2>3. Spelled(n) = SubSeq(right, 1, n)
    BY <1>2, Zenon
  <2> QED
    BY <2>1, <2>2, <2>3, Zenon
<1>8. PICK s \in 0..66 : s = Top /\ s = yyss[l]
  BY <1>4, <1>5 DEF Last
<1>9. PICK t : t = yyss[l - 1]
  OBVIOUS
<1>10. t \in At(Beneath, s) /\ t \in 0..66
  <2>1. l \in 2..l /\ l - 1 \in 1..l
    BY <1>6
  <2>2. yyss[l - 1] \in At(Beneath, yyss[l])
    BY <1>4, <1>5, <2>1 DEF Path
  <2> QED
    BY <1>4, <1>5, <1>8, <1>9, <2>1, <2>2, PathOfStates
<1>11. NameOf(s) = right[n] /\ (n > 1 => NameOf(t) = right[n - 1])
  <2>1. n \in 1..n /\ l - n + n = l
    BY <1>3
  <2>2. n > 1 => n - 1 \in 1..n /\ l - n + (n - 1) = l - 1
    BY <1>3
  <2> QED
    BY <1>7, <1>8, <1>9, <2>1, <2>2
<1>12. PICK c \in 0..36 : c = yychar /\ At(yydefact, s) = 0 /\ ~ Taken(s, c)
  BY <1>8, RefusedToken
<1>13. CASE ~ (rule \in {21, 22} /\ n = 4)
  <2>1. /\ NameOf(s) = RightSide[rule][n] /\ (n > 1 => NameOf(t) = RightSide[rule][n - 1])
        /\ At(yytname, c) = Begins(RightSide[rule][n + 1])
    BY <1>2, <1>11, <1>12, Zenon
  <2> QED
    BY <1>1, <1>10, <1>12, <1>13, <2>1, Continued
<1>14. CASE rule \in {21, 22} /\ n = 4
  <2>1. l > 4
    BY <1>6, <1>14
  <2>2. /\ 1 \in 1..n /\ 2 \in 1..n /\ 3 \in 1..n /\ 4 \in 1..n
        /\ l - n + 1 = l - 3 /\ l - n + 2 = l - 2 /\ l - n + 3 = l - 1 /\ l - n + 4 = l
    BY <1>14
  <2>3. /\ NameOf(yyss[l - 3]) = right[1] /\ NameOf(yyss[l - 2]) = right[2]
        /\ NameOf(yyss[l - 1]) = right[3] /\ NameOf(yyss[l]) = right[4]
    BY <1>7, <2>2
  <2>4. At(yydefact, yyss[l]) = 0
    BY <1>8, <1>12
  <2>5. rule = 21 => right[1] = "PAR" /\ right[4] = "ENDNAME"
    <3>1. RightSide[21][1] = "PAR" /\ RightSide[21][4] = "ENDNAME"
      BY RightSideOf21, Zenon
    <3> QED
      BY <1>2, <3>1, Zenon
  <2>6. rule = 22 => /\ right[1] = "PAR" /\ right[2] = "REQUIRED" /\ right[3] = "BOOL"
                     /\ right[4] = "ENDREQUIRED"
    <3>1. /\ RightSide[22][1] = "PAR" /\ RightSide[22][2] = "REQUIRED"
          /\ RightSide[22][3] = "BOOL" /\ RightSide[22][4] = "ENDREQUIRED"
      BY RightSideOf22, Zenon
    <3> QED
      BY <1>2, <3>1, Zenon
  <2>7. /\ NameOf(yyss[l]) = "ENDNAME" => NameOf(yyss[l - 3]) # "PAR"
        /\ NameOf(yyss[l]) = "ENDREQUIRED" => NameOf(yyss[l - 3]) # "PAR"
    BY <1>4, <1>5, <2>1, <2>4, FarBeneath
  <2> QED
    BY <1>14, <2>3, <2>5, <2>6, <2>7
<1> QED
  BY <1>13, <1>14

\* The generated tables decide as the grammar of climinalbuilder.y says, on every stack
\* they can come to: a rule is reduced by the symbols of its right side, and a token is
\* refused only where no right side that has begun goes on with it.
THEOREM TablesDecideAsGrammar == ParserSpec => []DecidesAsGrammar
<1>1. ParserInv => DecidesAsGrammar
  BY ReductionsRead, ErrorsAreReal DEF DecidesAsGrammar
<1> QED
  BY <1>1, ParserInvariant, PTL

=============================================================================
