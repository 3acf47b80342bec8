--------------------------- MODULE SessionProofs ----------------------------
(***************************************************************************)
(* Theorems about module Session, for every tree of contexts, every table  *)
(* of commands and every size of the history.                              *)
(***************************************************************************)
EXTENDS Session, HistoryProofs, Foundations

-----------------------------------------------------------------------------
(* The session around the history.                                         *)

LEMMA StepIsAHistoryStep ==
    [SessionNext]_sessionVars => [HistoryNext]_historyVars
<1> SUFFICES ASSUME [SessionNext]_sessionVars
             PROVE  [HistoryNext]_historyVars
  OBVIOUS
<1> USE DEF historyVars, HistoryNext
<1>1. CASE StartLine
  BY <1>1 DEF StartLine
<1>2. CASE User
  BY <1>2 DEF User, Key, Help, ListMatches, Eof, Enter
<1>3. CASE Common
  BY <1>3 DEF Common, Bye, Exit, EndClimbs, EndArrives, ListHistory
<1>4. CASE Execute
  BY <1>4 DEF Execute, NotFound, NothingToCall, Incomplete, CallBack
<1>5. CASE CallbackReturns
  BY <1>5 DEF CallbackReturns, CallbackSucceeds, CallbackFails, CallbackExits
<1>6. CASE UNCHANGED sessionVars
  BY <1>6 DEF sessionVars
<1> QED
  BY <1>1, <1>2, <1>3, <1>4, <1>5, <1>6 DEF SessionNext

\* A session is a behaviour of module History, so what is proved of the history (its
\* ring, its numbers, the log it implements) holds while contexts are entered and
\* left and callbacks run.
THEOREM SessionIsAHistory == SessionSpec => HistorySpec
<1>1. SessionInit => HistoryInit
  BY DEF SessionInit
<1> QED
  BY <1>1, StepIsAHistoryStep, PTL DEF SessionSpec, HistorySpec

-----------------------------------------------------------------------------
(* The tree of contexts.                                                   *)

\* The father of a context other than Main is the one before it on its path, and is
\* one level up.
LEMMA ParentIsAbove ==
    ASSUME NEW c \in Contexts, c # Main
    PROVE  /\ Parent(c) \in Contexts
           /\ Level[c] \in Nat /\ Level[c] > 0
           /\ Level[Parent(c)] = Level[c] - 1
           /\ InitialFather[c] = Parent(c)
<1>1. /\ PathTo[c] \in Seq(Contexts) /\ Len(PathTo[c]) > 1
      /\ PathTo[Parent(c)] = SubSeq(PathTo[c], 1, Len(PathTo[c]) - 1)
  BY TreeAssumption DEF Parent
<1>2. Len(PathTo[c]) \in Nat /\ Parent(c) \in Contexts
  BY <1>1 DEF Parent
<1>3. Len(PathTo[Parent(c)]) = Len(PathTo[c]) - 1
  BY <1>1, <1>2
<1> QED
  BY <1>1, <1>2, <1>3 DEF Level, InitialFather

LEMMA MainIsTheRoot ==
    /\ Level[Main] = 0
    /\ InitialFather[Main] = NoContext
    /\ \A c \in Contexts : InitialFather[c] = NoContext => c = Main
<1>1. Level[Main] = 0
  <2>1. Main \in Contexts /\ PathTo[Main] = <<Main>>
    BY TreeAssumption
  <2>2. Level[Main] = Len(<<Main>>) - 1
    BY <2>1 DEF Level
  <2>3. Len(<<Main>>) = 1
    OBVIOUS
  <2> QED
    BY <2>2, <2>3
<1>2. ASSUME NEW c \in Contexts, c # Main
      PROVE  InitialFather[c] # NoContext
  BY <1>2, ParentIsAbove, TreeAssumption
<1> QED
  BY <1>1, <1>2, TreeAssumption DEF InitialFather

\* The subcontext of a command is one level below the context that lists it, and its
\* father is that context.
LEMMA SubContextIsBelow ==
    ASSUME NEW c \in Contexts, NEW cmd \in ListedIn(c), SubContext[cmd] # NoContext
    PROVE  /\ SubContext[cmd] \in Contexts
           /\ Level[SubContext[cmd]] = Level[c] + 1
           /\ InitialFather[SubContext[cmd]] = c
<1> DEFINE sub == SubContext[cmd]
<1>1. cmd \in Cmds
  BY CommandAssumption DEF ListedIn
<1>2. sub \in Contexts /\ sub # Main
  BY <1>1, CommandAssumption
<1>3. /\ PathTo[sub] = Append(PathTo[c], sub) /\ PathTo[c] \in Seq(Contexts)
      /\ PathTo[c] # <<>> /\ PathTo[c][Len(PathTo[c])] = c
  BY CommandAssumption, TreeAssumption
<1>4. Len(PathTo[c]) \in Nat /\ Len(PathTo[c]) >= 1
  BY <1>3
<1>5. Len(PathTo[sub]) = Len(PathTo[c]) + 1
  BY <1>2, <1>3
<1>6. PathTo[sub][Len(PathTo[sub]) - 1] = c
  BY <1>2, <1>3, <1>4, <1>5
<1> QED
  BY <1>2, <1>4, <1>5, <1>6 DEF Level, InitialFather, Parent

LEMMA LevelsAreDeepEnough ==
    ASSUME NEW c \in Contexts
    PROVE  Level[c] \in Levels
<1>1. PathTo[c] \in Seq(Contexts) /\ PathTo[c] # <<>>
  BY TreeAssumption
<1>2. Len(PathTo[c]) \in Nat /\ Len(PathTo[c]) >= 1
  BY <1>1
<1>3. Level[c] \in Nat /\ Level[c] < ContextDepth /\ ContextDepth \in Nat
  BY <1>2, TreeAssumption DEF Level
<1> QED
  BY <1>3 DEF Levels

-----------------------------------------------------------------------------
(* The invariant.  Of the line being executed it says that it is a command *)
(* (a recall has been replaced), of a running callback that its command is *)
(* one of the active context's and that "end" is not climbing.             *)

LineIsACommand == phase = "running" => buffer \in Commands

CallingIsListed ==
    calling # NoCmd =>
        /\ phase = "running"
        /\ calling \in ListedIn(active_context)
        /\ cur_depth = Level[active_context]

TtyInv ==
    /\ term_io = user_mode
    /\ calling # NoCmd => phase = "running"
    /\ tty = IF calling # NoCmd \/ phase = "closed" THEN user_mode ELSE Raw

NavTypeOK ==
    /\ active_context \in Contexts
    /\ prompt_stack \in [Levels -> Prompts \cup {NoPrompt}]
    /\ cur_depth \in Levels
    /\ calling \in Cmds \cup {NoCmd}
    /\ shown \in Prompts \cup {NoPrompt}

SessionInv ==
    /\ HistoryInv
    /\ LineIsACommand
    /\ NavTypeOK
    /\ PositionAgrees
    /\ CallingIsListed

\* What a line that is submitted becomes.
LEMMA StepKeepsLine ==
    HistoryInv /\ LineIsACommand /\ [HistoryNext]_historyVars => LineIsACommand'
<1> SUFFICES ASSUME HistoryInv, LineIsACommand, [HistoryNext]_historyVars
             PROVE  LineIsACommand'
  OBVIOUS
<1>1. CASE SubmitRecall
  <2>1. RecallNum[buffer] \in Nat /\ Available(hist, RecallNum[buffer]) /\ RingOK(hist)
    BY <1>1, RecallsAssumption DEF SubmitRecall, CanRecall, HistoryInv, HistoryTypeOK,
       RingInv, RingOK
  <2> QED
    BY <1>1, <2>1, RecalledIsACommand DEF SubmitRecall, LineIsACommand
<1>2. CASE ~SubmitRecall
  BY <1>2 DEF LineIsACommand, HistoryNext, Submit, BeginLine, Edit, ArrowUp, ArrowDown,
     EndOfInput, SubmitBlank, SubmitCommand, RejectRecall, Finish, Close, historyVars
<1> QED
  BY <1>1, <1>2

LEMMA PromptsKnown ==
    ASSUME NEW c \in Contexts
    PROVE  ContextPrompt[c] \in Prompts
BY DEF Prompts

LEMMA SessionInitInv ==
    SessionInit => SessionInv
<1> SUFFICES ASSUME SessionInit
             PROVE  SessionInv
  OBVIOUS
<1>1. HistoryInv /\ LineIsACommand
  BY InitRing DEF SessionInit, HistoryInit, LineIsACommand
<1>2. Main \in Contexts /\ 0 \in Levels
  BY TreeAssumption, LevelsAreDeepEnough, MainIsTheRoot
<1>3. NavTypeOK
  BY <1>2, PromptsKnown DEF SessionInit, NavTypeOK
<1>4. PositionAgrees /\ CallingIsListed
  BY MainIsTheRoot DEF SessionInit, PositionAgrees, CallingIsListed
<1> QED
  BY <1>1, <1>3, <1>4 DEF SessionInv

\* Going into the subcontext of a command of the active context.
LEMMA SwitchKeepsPosition ==
    ASSUME SessionInv, NEW cmd \in ListedIn(active_context),
           cur_depth = Level[active_context],
           SwitchContext(cmd), calling' = NoCmd
    PROVE  /\ active_context' \in Contexts /\ cur_depth' \in Levels
           /\ PositionAgrees' /\ CallingIsListed'
<1>1. /\ active_context \in Contexts /\ cur_depth \in Levels /\ father = InitialFather
  BY DEF SessionInv, NavTypeOK, PositionAgrees
<1>2. CASE SubContext[cmd] = NoContext
  BY <1>1, <1>2 DEF SwitchContext, PositionAgrees, CallingIsListed
<1>3. CASE SubContext[cmd] # NoContext
  <2>1. /\ SubContext[cmd] \in Contexts
        /\ Level[SubContext[cmd]] = cur_depth + 1
        /\ InitialFather[SubContext[cmd]] = active_context
    BY <1>1, <1>3, SubContextIsBelow
  <2>2. active_context' = SubContext[cmd] /\ cur_depth' = cur_depth + 1
    BY <1>3 DEF SwitchContext
  <2>3. father' = InitialFather
    BY <1>1, <1>3, <2>1 DEF SwitchContext, InitialFather
  <2>4. cur_depth' \in Levels
    BY <2>1, <2>2, LevelsAreDeepEnough
  <2> QED
    BY <2>1, <2>2, <2>3, <2>4 DEF PositionAgrees, CallingIsListed
<1> QED
  BY <1>2, <1>3

\* A command that is found is one of the active context's.
LEMMA FoundIsListed ==
    ASSUME SessionInv, phase = "running", Found # NoCmd
    PROVE  Found \in ListedIn(active_context) /\ Found \in Cmds
<1>1. buffer \in Commands /\ active_context \in Contexts
  BY DEF SessionInv, LineIsACommand, NavTypeOK
<1> QED
  BY <1>1, CommandAssumption DEF Found, ListedIn

\* Leaving a context for its father.
LEMMA FatherIsAbove ==
    ASSUME SessionInv, father[active_context] # NoContext
    PROVE  /\ father[active_context] \in Contexts
           /\ Level[active_context] \in Nat /\ Level[active_context] > 0
           /\ Level[father[active_context]] = Level[active_context] - 1
<1>1. active_context \in Contexts /\ father = InitialFather
  BY DEF SessionInv, NavTypeOK, PositionAgrees
<1>2. active_context # Main
  BY <1>1, MainIsTheRoot
<1> QED
  BY <1>1, <1>2, ParentIsAbove

LEMMA ClearingKeepsType ==
    ASSUME prompt_stack \in [Levels -> Prompts \cup {NoPrompt}], NEW depth \in Levels
    PROVE  /\ ClearedBelow(prompt_stack, depth) \in [Levels -> Prompts \cup {NoPrompt}]
           /\ [prompt_stack EXCEPT ![depth] = NoPrompt] \in [Levels -> Prompts \cup {NoPrompt}]
<1>1. DOMAIN prompt_stack = Levels
  OBVIOUS
<1> QED
  BY <1>1 DEF ClearedBelow

LEMMA ExitKeepsPosition ==
    SessionInv /\ Exit => NavTypeOK' /\ PositionAgrees' /\ CallingIsListed'
<1> SUFFICES ASSUME SessionInv, Exit
             PROVE  NavTypeOK' /\ PositionAgrees' /\ CallingIsListed'
  OBVIOUS
<1>1. /\ NavTypeOK /\ PositionAgrees
      /\ calling = NoCmd /\ calling' = NoCmd /\ shown' = shown
  BY DEF SessionInv, Exit, Executing
<1>2. ~Climbing /\ ~Climbing' /\ cur_depth = Level[active_context]
  BY <1>1 DEF Exit, Finish, Executing, Climbing, PositionAgrees
<1>3. CASE father[active_context] = NoContext
  BY <1>1, <1>2, <1>3 DEF Exit, navVars, NavTypeOK, PositionAgrees, CallingIsListed
<1>4. CASE father[active_context] # NoContext
  <2>1. /\ active_context' = father[active_context]
        /\ prompt_stack' = [prompt_stack EXCEPT ![cur_depth] = NoPrompt]
        /\ cur_depth' = cur_depth - 1 /\ father' = father
    BY <1>4 DEF Exit
  <2>2. /\ active_context' \in Contexts
        /\ cur_depth' = Level[active_context']
    BY <1>2, <1>4, <2>1, FatherIsAbove
  <2>3. cur_depth' \in Levels
    BY <2>2, LevelsAreDeepEnough
  <2>4. prompt_stack' \in [Levels -> Prompts \cup {NoPrompt}]
    BY <1>1, <2>1, ClearingKeepsType DEF NavTypeOK
  <2> QED
    BY <1>1, <2>1, <2>2, <2>3, <2>4 DEF NavTypeOK, PositionAgrees, CallingIsListed
<1> QED
  BY <1>3, <1>4

LEMMA EndKeepsPosition ==
    SessionInv /\ (EndClimbs \/ EndArrives) =>
        NavTypeOK' /\ PositionAgrees' /\ CallingIsListed'
<1> SUFFICES ASSUME SessionInv, EndClimbs \/ EndArrives
             PROVE  NavTypeOK' /\ PositionAgrees' /\ CallingIsListed'
  OBVIOUS
<1>1. /\ NavTypeOK /\ PositionAgrees
      /\ calling = NoCmd /\ calling' = NoCmd /\ shown' = shown
  BY DEF SessionInv, EndClimbs, EndArrives, Executing
<1>2. CASE EndClimbs
  <2>1. /\ active_context' = father[active_context]
        /\ prompt_stack' = ClearedBelow(prompt_stack, cur_depth)
        /\ cur_depth' = 0 /\ father' = father
        /\ UNCHANGED <<phase, buffer>>
        /\ active_context' \in Contexts
    BY <1>2, FatherIsAbove DEF EndClimbs, historyVars
  <2>2. Climbing'
    BY <1>1, <1>2, <2>1 DEF EndClimbs, Climbing, Executing
  <2>3. 0 \in Levels
    BY TreeAssumption, LevelsAreDeepEnough, MainIsTheRoot
  <2>4. prompt_stack' \in [Levels -> Prompts \cup {NoPrompt}]
    BY <1>1, <2>1, ClearingKeepsType DEF NavTypeOK
  <2> QED
    BY <1>1, <2>1, <2>2, <2>3, <2>4 DEF NavTypeOK, PositionAgrees, CallingIsListed
<1>3. CASE EndArrives
  <2>1. active_context = Main
    BY <1>1, <1>3, MainIsTheRoot DEF EndArrives, NavTypeOK, PositionAgrees
  <2>2. cur_depth = Level[active_context]
    BY <1>1, <2>1, MainIsTheRoot DEF PositionAgrees, Climbing
  <2> QED
    BY <1>1, <1>3, <2>2 DEF EndArrives, navVars, NavTypeOK, PositionAgrees, CallingIsListed
<1> QED
  BY <1>2, <1>3

\* The steps that only type, show a prompt or finish the line.
LEMMA ReadingKeepsPosition ==
    SessionInv /\ (StartLine \/ User) => NavTypeOK' /\ PositionAgrees' /\ CallingIsListed'
<1> SUFFICES ASSUME SessionInv, StartLine \/ User
             PROVE  NavTypeOK' /\ PositionAgrees' /\ CallingIsListed'
  OBVIOUS
<1>1. /\ NavTypeOK /\ PositionAgrees /\ CallingIsListed
  BY DEF SessionInv
<1>2. /\ phase # "running"
      /\ UNCHANGED <<active_context, father, cur_depth, calling>>
  BY DEF StartLine, BeginLine, User, Key, Help, ListMatches, Eof, Enter, Edit, ArrowUp,
     ArrowDown, EndOfInput, Submit, SubmitBlank, SubmitCommand, SubmitRecall, RejectRecall,
     navVars
<1>3. /\ ~Climbing /\ calling = NoCmd
  BY <1>1, <1>2 DEF Climbing, Executing, CallingIsListed
<1>4. PositionAgrees' /\ CallingIsListed'
  BY <1>1, <1>2, <1>3 DEF PositionAgrees, CallingIsListed
<1>5. CASE StartLine
  <2>1. DOMAIN prompt_stack = Levels /\ ContextPrompt[active_context] \in Prompts
    BY <1>1, PromptsKnown DEF NavTypeOK
  <2>2. FilledPrompts \in [Levels -> Prompts \cup {NoPrompt}]
    BY <1>1, <2>1 DEF NavTypeOK, FilledPrompts
  <2>3. /\ prompt_stack' \in [Levels -> Prompts \cup {NoPrompt}]
        /\ shown' = prompt_stack'[cur_depth] /\ cur_depth \in Levels
    BY <1>1, <1>5, <2>2 DEF StartLine, NavTypeOK
  <2>4. shown' \in Prompts \cup {NoPrompt}
    BY <2>3
  <2> QED
    BY <1>1, <1>2, <1>4, <2>3, <2>4 DEF NavTypeOK
<1>6. CASE User
  <2>1. UNCHANGED prompt_stack
    BY <1>6 DEF User, Key, Help, ListMatches, Eof, Enter, navVars
  <2>2. shown' \in Prompts \cup {NoPrompt}
    BY <1>1, <1>6, PromptsKnown DEF User, Key, Help, ListMatches, Eof, Enter, NavTypeOK
  <2> QED
    BY <1>1, <1>2, <1>4, <2>1, <2>2 DEF NavTypeOK
<1> QED
  BY <1>5, <1>6

\* The executions that end without moving.
LEMMA StayingKeepsPosition ==
    SessionInv /\ (Bye \/ ListHistory \/ NotFound \/ Incomplete) =>
        NavTypeOK' /\ PositionAgrees' /\ CallingIsListed'
<1> SUFFICES ASSUME SessionInv, Bye \/ ListHistory \/ NotFound \/ Incomplete
             PROVE  NavTypeOK' /\ PositionAgrees' /\ CallingIsListed'
  OBVIOUS
<1>1. NavTypeOK /\ PositionAgrees
  BY DEF SessionInv
<1>2. calling = NoCmd /\ UNCHANGED <<navVars, calling, shown>> /\ ~Climbing
  BY DEF Bye, ListHistory, NotFound, Incomplete, NotCommon, Executing, Climbing
<1> QED
  BY <1>1, <1>2 DEF navVars, NavTypeOK, PositionAgrees, CallingIsListed

LEMMA CommandKeepsPosition ==
    SessionInv /\ (NothingToCall \/ CallBack) =>
        NavTypeOK' /\ PositionAgrees' /\ CallingIsListed'
<1> SUFFICES ASSUME SessionInv, NothingToCall \/ CallBack
             PROVE  NavTypeOK' /\ PositionAgrees' /\ CallingIsListed'
  OBVIOUS
<1>1. NavTypeOK /\ PositionAgrees
  BY DEF SessionInv
<1>2. /\ calling = NoCmd /\ phase = "running" /\ ~Climbing /\ Found # NoCmd
      /\ UNCHANGED <<prompt_stack, shown>>
  BY DEF NothingToCall, CallBack, NotCommon, Executing, Climbing, navVars
<1>3. cur_depth = Level[active_context] /\ father = InitialFather
  BY <1>1, <1>2 DEF PositionAgrees
<1>4. Found \in ListedIn(active_context) /\ Found \in Cmds
  BY <1>2, FoundIsListed
<1>5. CASE NothingToCall
  <2>1. SwitchContext(Found) /\ calling' = NoCmd
    BY <1>2, <1>5 DEF NothingToCall
  <2>2. /\ active_context' \in Contexts /\ cur_depth' \in Levels
        /\ PositionAgrees' /\ CallingIsListed'
    BY <1>3, <1>4, <2>1, SwitchKeepsPosition
  <2> QED
    BY <1>1, <1>2, <2>1, <2>2 DEF NavTypeOK
<1>6. CASE CallBack
  <2>1. /\ calling' = Found
        /\ UNCHANGED <<hist, buffer, phase, active_context, father, cur_depth>>
    BY <1>6 DEF CallBack, navVars, historyVars
  <2>2. PositionAgrees' /\ CallingIsListed'
    BY <1>2, <1>3, <1>4, <2>1 DEF PositionAgrees, CallingIsListed
  <2> QED
    BY <1>1, <1>2, <1>4, <2>1, <2>2 DEF NavTypeOK
<1> QED
  BY <1>5, <1>6

\* While a callback runs there is a level for the prompt it asks for.
LEMMA CallingHasRoom ==
    ASSUME SessionInv, calling # NoCmd, SubContext[calling] # NoContext
    PROVE  cur_depth + 1 \in Levels
<1>1. /\ calling \in ListedIn(active_context) /\ active_context \in Contexts
      /\ cur_depth = Level[active_context]
  BY DEF SessionInv, CallingIsListed, NavTypeOK
<1>2. /\ SubContext[calling] \in Contexts
      /\ Level[SubContext[calling]] = cur_depth + 1
  BY <1>1, SubContextIsBelow
<1> QED
  BY <1>2, LevelsAreDeepEnough

LEMMA ReturnKeepsPosition ==
    SessionInv /\ CallbackReturns => NavTypeOK' /\ PositionAgrees' /\ CallingIsListed'
<1> SUFFICES ASSUME SessionInv, CallbackReturns
             PROVE  NavTypeOK' /\ PositionAgrees' /\ CallingIsListed'
  OBVIOUS
<1>1. /\ NavTypeOK /\ PositionAgrees /\ CallingIsListed
      /\ calling # NoCmd /\ calling' = NoCmd /\ shown' = shown
  BY DEF SessionInv, CallbackReturns, CallbackSucceeds, CallbackFails, CallbackExits
<1>2. /\ calling \in ListedIn(active_context)
      /\ cur_depth = Level[active_context] /\ father = InitialFather
  BY <1>1 DEF CallingIsListed, PositionAgrees
<1>3. ASSUME NEW mode, NEW prompt \in RuntimePrompts \cup {NoPrompt},
             CallbackSucceeds(prompt, mode)
      PROVE  NavTypeOK' /\ PositionAgrees' /\ CallingIsListed'
  <2>1. /\ active_context' \in Contexts /\ cur_depth' \in Levels
        /\ PositionAgrees' /\ CallingIsListed'
    <3>1. SwitchContext(calling)
      BY <1>3 DEF CallbackSucceeds
    <3> QED
      BY <1>1, <1>2, <3>1, SwitchKeepsPosition
  <2>2. prompt \in Prompts \cup {NoPrompt}
    BY DEF Prompts
  <2>3. prompt_stack' \in [Levels -> Prompts \cup {NoPrompt}]
    <3>1. prompt_stack' = PromptsAfter(calling, prompt)
      BY <1>3 DEF CallbackSucceeds
    <3> QED
      BY <1>1, <2>2, <3>1, CallingHasRoom DEF PromptsAfter, NavTypeOK
  <2> QED
    BY <1>1, <2>1, <2>3 DEF NavTypeOK
<1>4. ASSUME NEW mode, CallbackFails(mode) \/ CallbackExits(mode)
      PROVE  NavTypeOK' /\ PositionAgrees' /\ CallingIsListed'
  BY <1>1, <1>2, <1>4 DEF CallbackFails, CallbackExits, navVars, NavTypeOK, PositionAgrees,
     CallingIsListed
<1> QED
  BY <1>3, <1>4 DEF CallbackReturns

LEMMA StepKeepsSession ==
    SessionInv /\ [SessionNext]_sessionVars => SessionInv'
<1> SUFFICES ASSUME SessionInv, [SessionNext]_sessionVars
             PROVE  SessionInv'
  OBVIOUS
<1>1. HistoryInv' /\ LineIsACommand'
  BY StepIsAHistoryStep, StepKeepsInv, StepKeepsLine DEF SessionInv
<1>2. NavTypeOK' /\ PositionAgrees' /\ CallingIsListed'
  <2>1. CASE UNCHANGED sessionVars
    BY <2>1 DEF sessionVars, navVars, historyVars, SessionInv, NavTypeOK, PositionAgrees,
       CallingIsListed, Climbing, Executing
  <2>2. CASE Common
    BY <2>2, StayingKeepsPosition, ExitKeepsPosition, EndKeepsPosition DEF Common
  <2>3. CASE Execute
    BY <2>3, StayingKeepsPosition, CommandKeepsPosition DEF Execute
  <2> QED
    BY <2>1, <2>2, <2>3, ReadingKeepsPosition, ReturnKeepsPosition DEF SessionNext
<1> QED
  BY <1>1, <1>2 DEF SessionInv

LEMMA SessionInvHolds == SessionSpec => []SessionInv
BY SessionInitInv, StepKeepsSession, PTL DEF SessionSpec

-----------------------------------------------------------------------------
(* The theorems.                                                           *)

\* At every moment of a session the depth counter is the level of the active context
\* (but for the moment "end" has reset it and still climbs), and every father pointer
\* is the one of the generated tables: "exit" and "end" always follow the tree.
THEOREM PositionCorrect == SessionSpec => []PositionAgrees
BY SessionInvHolds, PTL DEF SessionInv

\* Whatever the tree, the commands and the callbacks: the prompt a callback asks for
\* is written inside the prompt stack initsession allocated.
THEOREM PromptStackNeverOverrun == SessionSpec => []PromptHasRoom
<1>1. SessionInv => PromptHasRoom
  BY CallingHasRoom DEF PromptHasRoom
<1> QED
  BY <1>1, SessionInvHolds, PTL

-----------------------------------------------------------------------------
(* The terminal.                                                           *)

LEMMA StepKeepsTty ==
    TtyInv /\ [SessionNext]_sessionVars => TtyInv'
<1> SUFFICES ASSUME TtyInv, [SessionNext]_sessionVars
             PROVE  TtyInv'
  OBVIOUS
<1>1. CASE StartLine \/ Key \/ Help \/ ListMatches \/ Enter
  BY <1>1 DEF TtyInv, StartLine, Key, Help, ListMatches, Enter, ttyVars, historyVars,
     BeginLine, Edit, ArrowUp, ArrowDown, Submit, SubmitBlank, SubmitCommand, SubmitRecall,
     RejectRecall
<1>2. CASE Eof \/ Bye
  BY <1>2 DEF TtyInv, Eof, Bye, Executing, EndOfInput, Close
<1>3. CASE Exit \/ EndArrives \/ ListHistory
  BY <1>3 DEF TtyInv, Exit, EndArrives, ListHistory, Executing, ttyVars, Finish
<1>4. CASE EndClimbs
  BY <1>4 DEF TtyInv, EndClimbs, Executing, ttyVars, historyVars
<1>5. CASE NotFound \/ NothingToCall \/ Incomplete
  BY <1>5 DEF TtyInv, NotFound, NothingToCall, Incomplete, NotCommon, Executing, ttyVars,
     Finish
<1>6. CASE CallBack
  BY <1>6 DEF TtyInv, CallBack, NotCommon, Executing, historyVars
<1>7. CASE CallbackReturns
  BY <1>7 DEF TtyInv, CallbackReturns, CallbackSucceeds, CallbackFails, CallbackExits,
     SetTerminal, Finish, Close
<1>8. CASE UNCHANGED sessionVars
  BY <1>8 DEF TtyInv, sessionVars, ttyVars, historyVars
<1> QED
  BY <1>1, <1>2, <1>3, <1>4, <1>5, <1>6, <1>7, <1>8 DEF SessionNext, User, Common, Execute

\* Every res_terminal is matched by a set_terminal on every path of execute and
\* climinal_main: lines are read raw, callbacks and the program after the session
\* find the terminal as they left it.
THEOREM TerminalRestored == SessionSpec => []TerminalMode
<1>1. SessionInit => TtyInv
  BY DEF SessionInit, HistoryInit, TtyInv
<1>2. TtyInv => TerminalMode
  BY DEF TtyInv, TerminalMode
<1> QED
  BY <1>1, <1>2, StepKeepsTty, PTL DEF SessionSpec

-----------------------------------------------------------------------------
(* Where "end" ends.                                                       *)

LEMMA EndStopsInMain ==
    SessionInv /\ [SessionNext]_sessionVars
        => (Executing("end") /\ HasContexts /\ phase' = "prompt" =>
               active_context' = Main /\ cur_depth' = 0)
<1> SUFFICES ASSUME SessionInv, [SessionNext]_sessionVars,
                    Executing("end"), HasContexts, phase' = "prompt"
             PROVE  active_context' = Main /\ cur_depth' = 0
  OBVIOUS
<1>1. phase = "running" /\ calling = NoCmd /\ MainCmd[buffer] = "end"
  BY DEF Executing
<1>2. ~(StartLine \/ User)
  BY <1>1 DEF StartLine, BeginLine, User, Key, Help, ListMatches, Eof, Enter, Edit, ArrowUp,
     ArrowDown, EndOfInput, Submit, SubmitBlank, SubmitCommand, SubmitRecall, RejectRecall
<1>3. ~CallbackReturns /\ ~Execute
  BY <1>1 DEF CallbackReturns, CallbackSucceeds, CallbackFails, CallbackExits, Execute,
     NotFound, NothingToCall, Incomplete, CallBack, NotCommon, Executing
<1>4. ~(Bye \/ Exit \/ ListHistory)
  BY <1>1 DEF Bye, Exit, ListHistory, Executing
<1>5. ~EndClimbs /\ ~UNCHANGED sessionVars
  BY <1>1 DEF EndClimbs, sessionVars, historyVars
<1>6. EndArrives
  BY <1>2, <1>3, <1>4, <1>5 DEF SessionNext, Common
<1>7. /\ father[active_context] = NoContext
      /\ UNCHANGED <<active_context, cur_depth>>
  BY <1>6 DEF EndArrives, navVars
<1>8. active_context \in Contexts /\ father = InitialFather /\ PositionAgrees
  BY DEF SessionInv, NavTypeOK, PositionAgrees
<1>9. active_context = Main
  BY <1>7, <1>8, MainIsTheRoot
<1> QED
  BY <1>7, <1>8, <1>9, MainIsTheRoot DEF PositionAgrees, Climbing

\* From any depth "end" brings the user to the main context, the depth counter back
\* at the bottom of the prompt stack.
THEOREM EndAlwaysReachesMain == SessionSpec => EndReachesMain
<1>1. SessionInv /\ [SessionNext]_sessionVars
         => [Executing("end") /\ HasContexts /\ phase' = "prompt" =>
                active_context' = Main /\ cur_depth' = 0]_sessionVars
  BY EndStopsInMain
<1> QED
  BY <1>1, SessionInvHolds, PTL DEF SessionSpec, EndReachesMain

-----------------------------------------------------------------------------
(* The type invariant.                                                     *)

LEMMA ModesKnown ==
    user_mode \in UserModes /\ [SessionNext]_sessionVars => user_mode' \in UserModes
<1> SUFFICES ASSUME user_mode \in UserModes, [SessionNext]_sessionVars
             PROVE  user_mode' \in UserModes
  OBVIOUS
<1>1. CASE CallbackReturns
  BY <1>1 DEF CallbackReturns, CallbackSucceeds, CallbackFails, CallbackExits
<1>2. CASE UNCHANGED user_mode
  BY <1>2
<1>3. StartLine \/ User => UNCHANGED user_mode
  BY DEF StartLine, User, Key, Help, ListMatches, Eof, Enter, ttyVars
<1>4. Common => UNCHANGED user_mode
  BY DEF Common, Bye, Exit, EndClimbs, EndArrives, ListHistory, ttyVars
<1>5. Execute => UNCHANGED user_mode
  BY DEF Execute, NotFound, NothingToCall, Incomplete, CallBack, ttyVars
<1> QED
  BY <1>1, <1>2, <1>3, <1>4, <1>5 DEF SessionNext, sessionVars, ttyVars

\* The indices, pointers and prompts of a session stay in their ranges: in particular
\* cur_depth never leaves the prompt stack.
THEOREM SessionTypeCorrect == SessionSpec => []SessionTypeOK
<1> DEFINE Inv == SessionInv /\ TtyInv /\ user_mode \in UserModes
<1>1. SessionInit => Inv
  <2>1. SessionInit => TtyInv /\ user_mode \in UserModes
    BY DEF SessionInit, HistoryInit, TtyInv
  <2> QED
    BY <2>1, SessionInitInv
<1>2. Inv /\ [SessionNext]_sessionVars => Inv'
  BY StepKeepsSession, StepKeepsTty, ModesKnown
<1>3. Inv => SessionTypeOK
  <2> SUFFICES ASSUME Inv
               PROVE  SessionTypeOK
    OBVIOUS
  <2>1. father \in [Contexts -> Contexts \cup {NoContext}]
    <3>1. father = InitialFather
      BY DEF SessionInv, PositionAgrees
    <3>2. \A c \in Contexts : InitialFather[c] \in Contexts \cup {NoContext}
      BY ParentIsAbove, MainIsTheRoot
    <3> QED
      BY <3>1, <3>2 DEF InitialFather
  <2>2. tty \in UserModes \cup {Raw} /\ term_io \in UserModes
    BY DEF TtyInv
  <2> QED
    BY <2>1, <2>2 DEF SessionInv, HistoryInv, NavTypeOK, SessionTypeOK
<1> QED
  BY <1>1, <1>2, <1>3, PTL DEF SessionSpec

-----------------------------------------------------------------------------
(* The stack of levels.                                                    *)

LevelStack ==
    [i \in 1..(cur_depth + 1) |->
        [context |-> PathTo[active_context][i], prompt |-> LevelPrompt(i - 1)]]

LEMMA LevelStackIs ==
    ASSUME SessionInv
    PROVE  /\ LevelStack \in Seq({LevelStack[i] : i \in 1..(cur_depth + 1)})
           /\ Len(LevelStack) = cur_depth + 1
           /\ cur_depth \in Nat
           /\ \A i \in 0..cur_depth :
                  /\ LevelStack[i + 1].context = PathTo[active_context][i + 1]
                  /\ LevelStack[i + 1].prompt = LevelPrompt(i)
<1>1. cur_depth \in Nat
  BY TreeAssumption DEF SessionInv, NavTypeOK, Levels
<1>2. \A i \in 1..(cur_depth + 1) : i - 1 \in 0..cur_depth
  BY <1>1
<1>3. \A i \in 0..cur_depth : i + 1 \in 1..(cur_depth + 1) /\ (i + 1) - 1 = i
  BY <1>1
<1>4. /\ LevelStack \in Seq({LevelStack[i] : i \in 1..(cur_depth + 1)})
      /\ Len(LevelStack) = cur_depth + 1
  <2>1. DOMAIN LevelStack = 1..(cur_depth + 1)
    BY DEF LevelStack
  <2>2. LevelStack = [i \in 1..(cur_depth + 1) |-> LevelStack[i]]
    BY <2>1 DEF LevelStack
  <2> QED
    BY <1>1, <2>1, <2>2
<1> QED
  BY <1>1, <1>2, <1>3, <1>4 DEF LevelStack

LEMMA OneBelow ==
    ASSUME NEW d \in Nat, NEW n \in Nat, d <= n, NEW i \in 1..(d + 1)
    PROVE  i - 1 \in 0..d /\ i \in 1..(n + 1) /\ (i - 1) + 1 = i
OBVIOUS

\* Levels taken off: those that stay keep their contexts and prompts.
LEMMA StackIsCut ==
    ASSUME SessionInv, cur_depth' \in 0..cur_depth,
           \A i \in 0..cur_depth' :
               /\ PathTo[active_context'][i + 1] = PathTo[active_context][i + 1]
               /\ LevelPrompt(i)' = LevelPrompt(i)
    PROVE  LevelStack' = SubSeq(LevelStack, 1, cur_depth' + 1)
<1> DEFINE d == cur_depth'
<1>1. cur_depth \in Nat /\ d \in Nat /\ d <= cur_depth
  BY LevelStackIs
<1>2. SubSeq(LevelStack, 1, d + 1) = [i \in 1..(d + 1) |-> LevelStack[i]]
  BY <1>1, LevelStackIs
<1>3. ASSUME NEW i \in 1..(d + 1)
      PROVE  /\ i - 1 \in 0..d /\ i \in 1..(cur_depth + 1)
             /\ PathTo[active_context'][i] = PathTo[active_context][i]
             /\ LevelPrompt(i - 1)' = LevelPrompt(i - 1)
  <2>1. i - 1 \in 0..d /\ i \in 1..(cur_depth + 1) /\ (i - 1) + 1 = i
    <3> HIDE DEF d
    <3> QED
      BY <1>1, <1>3, OneBelow, Zenon
  <2>2. LevelPrompt(i - 1)' = LevelPrompt(i - 1)
    BY <2>1
  <2>3. PathTo[active_context'][i] = PathTo[active_context][i]
    BY <2>1
  <2> QED
    BY <2>1, <2>2, <2>3, Zenon
<1>4. LevelStack' = [i \in 1..(d + 1) |->
          [context |-> PathTo[active_context'][i], prompt |-> LevelPrompt(i - 1)']]
  BY DEF LevelStack
<1> QED
  BY <1>2, <1>3, <1>4 DEF LevelStack

LEMMA StackStays ==
    ASSUME SessionInv, cur_depth' = cur_depth,
           \A i \in 0..cur_depth :
               /\ PathTo[active_context'][i + 1] = PathTo[active_context][i + 1]
               /\ LevelPrompt(i)' = LevelPrompt(i)
    PROVE  LevelStack' = LevelStack
<1>1. cur_depth \in Nat
  BY LevelStackIs
<1>2. LevelStack' = SubSeq(LevelStack, 1, cur_depth + 1)
  BY <1>1, StackIsCut
<1> QED
  BY <1>1, <1>2, LevelStackIs

\* The path to a context ends with it, and begins with the path to its father.
LEMMA PathsLeadThere ==
    ASSUME NEW c \in Contexts
    PROVE  /\ Level[c] \in Nat /\ PathTo[c][Level[c] + 1] = c
           /\ c # Main => \A i \in 0..(Level[c] - 1) :
                              PathTo[Parent(c)][i + 1] = PathTo[c][i + 1]
<1>1. PathTo[c] \in Seq(Contexts) /\ PathTo[c] # <<>> /\ PathTo[c][Len(PathTo[c])] = c
  BY TreeAssumption
<1>2. Len(PathTo[c]) \in Nat /\ Len(PathTo[c]) >= 1
  BY <1>1
<1>3. Level[c] \in Nat /\ Len(PathTo[c]) = Level[c] + 1
  BY <1>2 DEF Level
<1>4. ASSUME c # Main, NEW i \in 0..(Level[c] - 1)
      PROVE  PathTo[Parent(c)][i + 1] = PathTo[c][i + 1]
  <2>1. PathTo[Parent(c)] = SubSeq(PathTo[c], 1, Level[c])
    <3>1. PathTo[Parent(c)] = SubSeq(PathTo[c], 1, Len(PathTo[c]) - 1)
      BY <1>4, TreeAssumption DEF Parent
    <3> QED
      BY <1>3, <3>1
  <2>2. i + 1 \in 1..Level[c] /\ Level[c] <= Len(PathTo[c])
    BY <1>3, <1>4
  <2> QED
    BY <1>1, <1>3, <2>1, <2>2
<1> QED
  BY <1>1, <1>3, <1>4

\* Steps that neither move nor give a prompt.
LEMMA StayingMaps ==
    SessionInv /\ UNCHANGED <<active_context, cur_depth, prompt_stack>> => UNCHANGED LevelStack
BY DEF LevelStack, LevelPrompt

\* The present level shows its context's prompt when it has none of its own, before and
\* after parseline writes it on the stack.
LEMMA StartLineMaps ==
    SessionInv /\ StartLine => UNCHANGED LevelStack
<1> SUFFICES ASSUME SessionInv, StartLine
             PROVE  LevelStack' = LevelStack
  OBVIOUS
<1>1. /\ active_context \in Contexts /\ cur_depth \in Levels
      /\ prompt_stack \in [Levels -> Prompts \cup {NoPrompt}]
      /\ UNCHANGED <<active_context, cur_depth>> /\ prompt_stack' = FilledPrompts
  BY DEF SessionInv, NavTypeOK, StartLine
<1>2. cur_depth = Level[active_context]
  BY DEF SessionInv, PositionAgrees, StartLine, BeginLine, Climbing, Executing
<1>3. PathTo[active_context][cur_depth + 1] = active_context
  BY <1>1, <1>2, PathsLeadThere
<1>4. ASSUME NEW i \in 0..cur_depth
      PROVE  LevelPrompt(i)' = LevelPrompt(i)
  <2>1. i \in Levels
    BY <1>1, TreeAssumption DEF Levels
  <2>2. CASE i = cur_depth
    BY <1>1, <1>3, <2>1, <2>2 DEF LevelPrompt, FilledPrompts
  <2>3. CASE i # cur_depth
    BY <1>1, <2>1, <2>3 DEF LevelPrompt, FilledPrompts
  <2> QED
    BY <2>2, <2>3
<1> QED
  BY <1>1, <1>4, StackStays

\* "exit" takes the last level off.
LEMMA ExitMaps ==
    SessionInv /\ Exit =>
        \/ UNCHANGED LevelStack
        \/ cur_depth > 0 /\ LevelStack' = SubSeq(LevelStack, 1, cur_depth)
<1> SUFFICES ASSUME SessionInv, Exit, father[active_context] # NoContext
             PROVE  cur_depth > 0 /\ LevelStack' = SubSeq(LevelStack, 1, cur_depth)
  BY StayingMaps DEF Exit, navVars
<1>1. /\ active_context \in Contexts /\ cur_depth \in Levels /\ father = InitialFather
      /\ prompt_stack \in [Levels -> Prompts \cup {NoPrompt}]
      /\ cur_depth = Level[active_context]
  BY DEF SessionInv, NavTypeOK, PositionAgrees, Exit, Executing, Climbing
<1>2. active_context # Main
  BY <1>1, MainIsTheRoot
<1>3. /\ active_context' = Parent(active_context) /\ cur_depth' = cur_depth - 1
      /\ prompt_stack' = [prompt_stack EXCEPT ![cur_depth] = NoPrompt]
      /\ cur_depth > 0
  BY <1>1, <1>2, ParentIsAbove DEF Exit
<1>4. cur_depth \in Nat /\ cur_depth' \in 0..cur_depth /\ cur_depth' + 1 = cur_depth
  BY <1>3, LevelStackIs
<1>5. ASSUME NEW i \in 0..cur_depth'
      PROVE  /\ PathTo[active_context'][i + 1] = PathTo[active_context][i + 1]
             /\ LevelPrompt(i)' = LevelPrompt(i)
  <2>1. i \in Levels /\ i # cur_depth /\ i \in 0..(Level[active_context] - 1)
    <3>1. cur_depth = Level[active_context] /\ cur_depth < ContextDepth /\ ContextDepth \in Nat
      BY <1>1, TreeAssumption
    <3>2. i \in 0..(ContextDepth - 1) /\ i # cur_depth /\ i \in 0..(cur_depth - 1)
      BY <1>4, <1>5, <3>1
    <3> QED
      BY <3>1, <3>2, Zenon DEF Levels
  <2>2. PathTo[active_context'][i + 1] = PathTo[active_context][i + 1]
    <3>1. PICK c \in Contexts : c = active_context
      BY <1>1
    <3>2. c # Main => \A j \in 0..(Level[c] - 1) : PathTo[Parent(c)][j + 1] = PathTo[c][j + 1]
      BY PathsLeadThere, Zenon
    <3>3. PathTo[Parent(c)][i + 1] = PathTo[c][i + 1]
      BY <1>2, <2>1, <3>1, <3>2, Zenon
    <3> QED
      BY <1>3, <3>1, <3>3, Zenon
  <2> QED
    BY <1>1, <1>3, <2>1, <2>2 DEF LevelPrompt
<1> QED
  BY <1>3, <1>4, <1>5, StackIsCut

\* The first turn of the loop of "end" takes all levels but the first off; the others
\* find nothing left to take off.
LEMMA EndClimbsMaps ==
    SessionInv /\ EndClimbs =>
        \/ UNCHANGED LevelStack
        \/ cur_depth > 0 /\ LevelStack' = SubSeq(LevelStack, 1, 1)
<1> SUFFICES ASSUME SessionInv, EndClimbs
             PROVE  LevelStack' = SubSeq(LevelStack, 1, 1) /\
                    (cur_depth > 0 \/ LevelStack' = LevelStack)
  OBVIOUS
<1>1. /\ active_context \in Contexts /\ cur_depth \in Levels /\ father = InitialFather
      /\ prompt_stack \in [Levels -> Prompts \cup {NoPrompt}]
  BY DEF SessionInv, NavTypeOK, PositionAgrees
<1>2. active_context # Main
  BY <1>1, MainIsTheRoot DEF EndClimbs
<1>3. /\ active_context' = Parent(active_context) /\ cur_depth' = 0
      /\ prompt_stack' = ClearedBelow(prompt_stack, cur_depth)
  BY <1>1, <1>2, ParentIsAbove DEF EndClimbs
<1>4. cur_depth \in Nat /\ cur_depth' \in 0..cur_depth /\ cur_depth' + 1 = 1 /\ 0 \in Levels
  BY <1>1, <1>3, LevelStackIs, TreeAssumption DEF Levels
<1>5. ASSUME NEW i \in 0..cur_depth'
      PROVE  /\ PathTo[active_context'][i + 1] = PathTo[active_context][i + 1]
             /\ LevelPrompt(i)' = LevelPrompt(i)
  <2>1. i = 0
    BY <1>3, <1>5
  <2>2. 0 \in 0..(Level[active_context] - 1)
    BY <1>1, <1>2, ParentIsAbove
  <2>3. PathTo[active_context'][0 + 1] = PathTo[active_context][0 + 1]
    BY <1>1, <1>2, <1>3, <2>2, PathsLeadThere
  <2>4. prompt_stack'[0] = prompt_stack[0]
    BY <1>1, <1>3, <1>4 DEF ClearedBelow
  <2> QED
    BY <2>1, <2>3, <2>4 DEF LevelPrompt
<1>6. LevelStack' = SubSeq(LevelStack, 1, 1)
  BY <1>4, <1>5, StackIsCut
<1>7. cur_depth = 0 => LevelStack' = LevelStack
  BY <1>3, <1>4, <1>5, StackStays
<1> QED
  BY <1>4, <1>6, <1>7

LEMMA AppendedIs ==
    ASSUME NEW S, NEW s \in Seq(S), NEW d \in Nat, Len(s) = d + 1, NEW e \in S
    PROVE  (\A i \in 1..(d + 1) : Append(s, e)[i] = s[i]) /\ Append(s, e)[d + 2] = e
OBVIOUS

\* The end of parseline for a command adds the level of its subcontext.
LEMMA SwitchMaps ==
    ASSUME SessionInv, NEW cmd \in ListedIn(active_context),
           cur_depth = Level[active_context], SwitchContext(cmd),
           prompt_stack' \in [Levels -> Prompts \cup {NoPrompt}],
           SubContext[cmd] = NoContext => prompt_stack' = prompt_stack,
           \A i \in 0..cur_depth : prompt_stack'[i] = prompt_stack[i]
    PROVE  \/ UNCHANGED LevelStack
           \/ \E context \in Contexts, prompt \in Prompts :
                 /\ LevelStack' = Append(LevelStack, [context |-> context, prompt |-> prompt])
                 /\ <<active_context, context>> \in ContextEdges
<1> SUFFICES ASSUME SubContext[cmd] # NoContext
             PROVE  \E context \in Contexts, prompt \in Prompts :
                       /\ LevelStack' = Append(LevelStack,
                                               [context |-> context, prompt |-> prompt])
                       /\ <<active_context, context>> \in ContextEdges
  BY StayingMaps DEF SwitchContext
<1> PICK d \in Nat : d = cur_depth
  BY LevelStackIs
<1> DEFINE sub == SubContext[cmd]
           shows == LevelPrompt(d + 1)'
<1>1. /\ active_context \in Contexts /\ sub \in Contexts
      /\ active_context' = sub /\ cur_depth' = d + 1
      /\ PathTo[active_context] \in Seq(Contexts) /\ Len(PathTo[active_context]) = d + 1
      /\ PathTo[sub] = Append(PathTo[active_context], sub)
  <2>1. active_context \in Contexts /\ sub \in Contexts
    BY SubContextIsBelow DEF SessionInv, NavTypeOK
  <2>2. PathTo[active_context] \in Seq(Contexts) /\ Len(PathTo[active_context]) = d + 1
    BY <2>1, TreeAssumption DEF Level
  <2> QED
    BY <2>1, <2>2, LevelStackIs, CommandAssumption DEF SwitchContext
<1>2. <<active_context, sub>> \in ContextEdges
  BY <1>1 DEF ContextEdges
<1>3. /\ \A i \in 1..(d + 1) : PathTo[sub][i] = PathTo[active_context][i]
      /\ PathTo[sub][d + 2] = sub
  <2> HIDE DEF sub
  <2>1. PICK path \in Seq(Contexts) : path = PathTo[active_context] /\ Len(path) = d + 1
    BY <1>1, Zenon
  <2>2. PICK longer : longer = PathTo[sub] /\ longer = Append(path, sub)
    BY <1>1, <2>1, Zenon
  <2>3. (\A i \in 1..(d + 1) : longer[i] = path[i]) /\ longer[d + 2] = sub
    <3>1. sub \in Contexts
      BY <1>1
    <3>2. /\ \A i \in 1..(d + 1) : Append(path, sub)[i] = path[i]
          /\ Append(path, sub)[d + 2] = sub
      BY <2>1, <3>1, AppendedIs
    <3> QED
      BY <2>2, <3>2, Zenon
  <2> QED
    BY <2>1, <2>2, <2>3, Zenon
<1>4. d + 1 \in Levels
  BY <1>1, LevelsAreDeepEnough, SubContextIsBelow
<1>5. shows \in Prompts
  <2>1. shows = IF prompt_stack'[d + 1] = NoPrompt THEN ContextPrompt[PathTo[sub][d + 2]]
                ELSE prompt_stack'[d + 1]
    <3>1. (d + 1) + 1 = d + 2
      BY <1>1
    <3> QED
      BY <1>1, <3>1 DEF LevelPrompt
  <2> QED
    BY <1>1, <1>3, <1>4, <2>1, PromptsKnown
<1>6. LevelStack' = Append(LevelStack, [context |-> sub, prompt |-> shows])
  <2>1. LevelStack' = [i \in 1..(d + 2) |->
            [context |-> PathTo[sub][i], prompt |-> LevelPrompt(i - 1)']]
    <3>1. cur_depth' + 1 = d + 2
      BY <1>1
    <3> QED
      BY <1>1, <3>1 DEF LevelStack
  <2>2. ASSUME NEW i \in 1..(d + 1)
        PROVE  [context |-> PathTo[sub][i], prompt |-> LevelPrompt(i - 1)'] = LevelStack[i]
    <3>1. i - 1 \in 0..d /\ (i - 1) + 1 = i
      BY <1>1, <2>2
    <3>2. LevelPrompt(i - 1)' = LevelPrompt(i - 1)
      BY <1>1, <1>3, <3>1 DEF LevelPrompt
    <3> QED
      BY <1>3, <3>2 DEF LevelStack
  <2>3. [context |-> PathTo[sub][d + 2], prompt |-> LevelPrompt((d + 2) - 1)']
            = [context |-> sub, prompt |-> shows]
    <3>1. (d + 2) - 1 = d + 1
      BY <1>1
    <3> QED
      BY <1>3, <3>1
  <2>4. LevelStack \in Seq({LevelStack[i] : i \in 1..(d + 1)}) /\ Len(LevelStack) = d + 1
    BY LevelStackIs
  <2> DEFINE new == [context |-> sub, prompt |-> shows]
             at(i) == [context |-> PathTo[sub][i], prompt |-> LevelPrompt(i - 1)']
             old == {LevelStack[i] : i \in 1..(d + 1)}
  <2>5. Append(LevelStack, new) = [i \in 1..(d + 2) |-> IF i = d + 2 THEN new ELSE LevelStack[i]]
    <3> HIDE DEF new, old
    <3>1. LevelStack \in Seq(old)
      BY <2>4 DEF old
    <3>2. (d + 1) + 1 = d + 2
      OBVIOUS
    <3> QED
      BY <2>4, <3>1, <3>2, AppendIs
  <2> HIDE DEF new, at, shows
  <2>6. \A i \in 1..(d + 2) : at(i) = IF i = d + 2 THEN new ELSE LevelStack[i]
    BY <1>1, <2>2, <2>3 DEF at, new
  <2>7. LevelStack' = [i \in 1..(d + 2) |-> at(i)]
    BY <2>1 DEF at
  <2>8. LevelStack' = Append(LevelStack, new)
    BY <2>5, <2>6, <2>7
  <2> QED
    BY <2>8 DEF new
<1> HIDE DEF shows
<1> QED
  BY <1>1, <1>2, <1>5, <1>6

LEMMA CommandMaps ==
    SessionInv /\ SessionInv' /\ NothingToCall =>
        \/ UNCHANGED LevelStack
        \/ \E context \in Contexts, prompt \in Prompts :
              /\ LevelStack' = Append(LevelStack, [context |-> context, prompt |-> prompt])
              /\ <<active_context, context>> \in ContextEdges
<1> SUFFICES ASSUME SessionInv, SessionInv', NothingToCall
             PROVE  \/ UNCHANGED LevelStack
                    \/ \E context \in Contexts, prompt \in Prompts :
                          /\ LevelStack' = Append(LevelStack,
                                                  [context |-> context, prompt |-> prompt])
                          /\ <<active_context, context>> \in ContextEdges
  OBVIOUS
<1>1. phase = "running" /\ Found # NoCmd /\ SwitchContext(Found) /\ UNCHANGED prompt_stack
      /\ ~Climbing
  BY DEF NothingToCall, NotCommon, Executing, Climbing
<1>2. Found \in ListedIn(active_context)
  BY <1>1, FoundIsListed
<1>3. /\ cur_depth = Level[active_context]
      /\ prompt_stack' \in [Levels -> Prompts \cup {NoPrompt}]
  BY <1>1 DEF SessionInv, PositionAgrees, NavTypeOK
<1> QED
  BY <1>1, <1>2, <1>3, SwitchMaps

LEMMA ReturnMaps ==
    SessionInv /\ SessionInv' /\ CallbackReturns =>
        \/ UNCHANGED LevelStack
        \/ \E context \in Contexts, prompt \in Prompts :
              /\ LevelStack' = Append(LevelStack, [context |-> context, prompt |-> prompt])
              /\ <<active_context, context>> \in ContextEdges
<1> SUFFICES ASSUME SessionInv, SessionInv', CallbackReturns
             PROVE  \/ UNCHANGED LevelStack
                    \/ \E context \in Contexts, prompt \in Prompts :
                          /\ LevelStack' = Append(LevelStack,
                                                  [context |-> context, prompt |-> prompt])
                          /\ <<active_context, context>> \in ContextEdges
  OBVIOUS
<1>1. CASE UNCHANGED navVars
  BY <1>1, StayingMaps DEF navVars
<1>2. ASSUME NEW mode, NEW prompt \in RuntimePrompts \cup {NoPrompt},
             CallbackSucceeds(prompt, mode)
      PROVE  \/ UNCHANGED LevelStack
             \/ \E context \in Contexts, new \in Prompts :
                   /\ LevelStack' = Append(LevelStack, [context |-> context, prompt |-> new])
                   /\ <<active_context, context>> \in ContextEdges
  <2>1. /\ calling # NoCmd /\ SwitchContext(calling)
        /\ prompt_stack' = PromptsAfter(calling, prompt)
    BY <1>2 DEF CallbackSucceeds
  <2>2. calling \in ListedIn(active_context) /\ cur_depth = Level[active_context]
    BY <2>1 DEF SessionInv, CallingIsListed
  <2>3. /\ prompt_stack \in [Levels -> Prompts \cup {NoPrompt}]
        /\ prompt_stack' \in [Levels -> Prompts \cup {NoPrompt}]
        /\ cur_depth \in Levels
    BY DEF SessionInv, NavTypeOK
  <2>4. \A i \in 0..cur_depth : prompt_stack'[i] = prompt_stack[i]
    BY <2>1, <2>3, TreeAssumption DEF PromptsAfter, Levels
  <2>5. SubContext[calling] = NoContext => prompt_stack' = prompt_stack
    BY <2>1 DEF PromptsAfter
  <2> QED
    BY <2>1, <2>2, <2>3, <2>4, <2>5, SwitchMaps
<1> QED
  BY <1>1, <1>2 DEF CallbackReturns, CallbackFails, CallbackExits

LEMMA InitMapsToLevels ==
    SessionInit => Nav!NavInit
<1> SUFFICES ASSUME SessionInit
             PROVE  Nav!NavInit
  OBVIOUS
<1>1. /\ active_context = Main /\ cur_depth = 0 /\ PathTo[Main] = <<Main>> /\ 0 \in Levels
      /\ prompt_stack[0] = ContextPrompt[Main]
  BY TreeAssumption, LevelsAreDeepEnough, MainIsTheRoot DEF SessionInit
<1>2. PathTo[active_context][1] = Main /\ LevelPrompt(0) = ContextPrompt[Main]
  BY <1>1 DEF LevelPrompt
<1>3. LevelStack = [i \in 1..1 |-> [context |-> Main, prompt |-> ContextPrompt[Main]]]
  <2>1. cur_depth + 1 = 1 /\ \A i \in 1..1 : i = 1 /\ i - 1 = 0
    BY <1>1
  <2>2. \A i \in 1..1 : /\ PathTo[active_context][i] = Main
                        /\ LevelPrompt(i - 1) = ContextPrompt[Main]
    BY <1>2, <2>1
  <2> QED
    BY <2>1, <2>2 DEF LevelStack
<1>4. LevelStack = <<[context |-> Main, prompt |-> ContextPrompt[Main]]>>
  BY <1>3
<1> QED
  BY <1>4 DEF Nav!NavInit, LevelStack

LEMMA StepMapsToLevels ==
    SessionInv /\ SessionInv' /\ [SessionNext]_sessionVars => [Nav!NavNext]_LevelStack
<1> SUFFICES ASSUME SessionInv, SessionInv', [SessionNext]_sessionVars
             PROVE  Nav!NavNext \/ UNCHANGED LevelStack
  OBVIOUS
<1>1. CASE cur_depth > 0 /\ LevelStack' = SubSeq(LevelStack, 1, cur_depth)
  <2>1. Len(LevelStack) > 1 /\ Len(LevelStack) - 1 = cur_depth
    BY <1>1, LevelStackIs
  <2>2. Nav!Leave
    BY <1>1, <2>1 DEF Nav!Leave, LevelStack
  <2> QED
    BY <2>2 DEF Nav!NavNext
<1>2. CASE cur_depth > 0 /\ LevelStack' = SubSeq(LevelStack, 1, 1)
  <2>1. Len(LevelStack) > 1
    BY <1>2, LevelStackIs
  <2>2. Nav!LeaveAll
    BY <1>2, <2>1 DEF Nav!LeaveAll, LevelStack
  <2> QED
    BY <2>2 DEF Nav!NavNext
<1>3. ASSUME NEW context \in Contexts, NEW prompt \in Prompts,
             LevelStack' = Append(LevelStack, [context |-> context, prompt |-> prompt]),
             <<active_context, context>> \in ContextEdges, cur_depth = Level[active_context]
      PROVE  Nav!NavNext
  <2>1. active_context \in Contexts
    BY DEF SessionInv, NavTypeOK
  <2>2. LevelStack[Len(LevelStack)].context = active_context
    <3>1. Len(LevelStack) = cur_depth + 1 /\ cur_depth \in 0..cur_depth
      BY LevelStackIs
    <3>2. LevelStack[cur_depth + 1].context = PathTo[active_context][cur_depth + 1]
      BY <3>1, LevelStackIs
    <3>3. PathTo[active_context][cur_depth + 1] = active_context
      BY <1>3, <2>1, PathsLeadThere
    <3> QED
      BY <3>1, <3>2, <3>3
  <2>3. Nav!Enter(context, prompt)
    BY <1>3, <2>2 DEF Nav!Enter, Nav!Here, LevelStack
  <2> QED
    BY <2>3 DEF Nav!NavNext
<1>4. CASE StartLine \/ Exit \/ EndClimbs
  BY <1>1, <1>2, <1>4, StartLineMaps, ExitMaps, EndClimbsMaps
<1>5. CASE UNCHANGED <<active_context, cur_depth, prompt_stack>>
  BY <1>5, StayingMaps
<1>6. CASE NothingToCall \/ CallbackReturns
  <2>1. cur_depth = Level[active_context]
    BY <1>6 DEF NothingToCall, NotCommon, Executing, Climbing, CallbackReturns,
       CallbackSucceeds, CallbackFails, CallbackExits, SessionInv, PositionAgrees,
       CallingIsListed
  <2> QED
    BY <1>3, <1>6, <2>1, CommandMaps, ReturnMaps
<1>7. User \/ Bye \/ EndArrives \/ ListHistory \/ NotFound \/ Incomplete \/ CallBack
          => UNCHANGED <<active_context, cur_depth, prompt_stack>>
  BY DEF User, Key, Help, ListMatches, Eof, Enter, Bye, EndArrives, ListHistory, NotFound,
     Incomplete, CallBack, navVars
<1> QED
  BY <1>4, <1>5, <1>6, <1>7 DEF SessionNext, Common, Execute, sessionVars, navVars

\* Going into contexts, "exit" and "end", with the prompts that callbacks ask for, are
\* the operations of a stack of levels (module Navigation), for every tree of contexts:
\* the levels below keep their contexts and prompts until they are shown again.
THEOREM RefinesNavigation == SessionSpec => ImplementsNavigation
<1>1. SessionInv /\ SessionInv' /\ [SessionNext]_sessionVars => [Nav!NavNext]_LevelStack
  BY StepMapsToLevels
<1> QED
  BY <1>1, InitMapsToLevels, SessionInvHolds, PTL
     DEF SessionSpec, ImplementsNavigation, Nav!NavSpec, LevelStack

=============================================================================
