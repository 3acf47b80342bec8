# Verification of climinal

TLA+ models, model-checking runs and machine-checked proofs about
[climinal](../src/README.md), a C library for interactive command lines, and
`climinalbuilder`, the tool that generates its command tables. Everything is
translated from the C and C++ sources under `src/`; where the documentation
says something else, a run shows the difference.

## 1. The system

A program hands `climinal_main` two streams and a `Clihandle` (the command
tables and a configuration). The library owns the thread until the session is
over: it prints a prompt, edits a line, finds the command the line names in the
active context, calls the program's callback for it and starts again. The tables
are generated beforehand by `climinalbuilder` from an XML or JSON description.

| Component | State | Operations | Talks to |
|---|---|---|---|
| History (`history.c`, parts of `parseline`, `dump_history`) | `newid`, `getid`, `lastid`, `cmdnum`, `entry[size+1]` | `add_history`, `get_history`, `islast_history`, `init_history`, recall by `!n`, `history` | called by the editor (arrows) and by `parseline` |
| Session (`cli.c`: `climinal_main`, `parseline`, `parsecommon`, `execute`) | `active_context`, `father` of every context, `prompt_stack`, `cur_depth` | prompt, read, remember, common commands, command, callback, switch of context | editor, history, callbacks, terminal |
| Terminal mode (`set_terminal`, `res_terminal`) | the tty's mode, `term_io` | save and make raw, put back | called by `initsession`, `execute`, `climinal_main` |
| Line editor (`readline`, `addchar`, `get_c_type`) | `buffer`, `len`, `pos` | one per key | history, completion, help |
| Command line (`find_active_cmd`, `next_word`, `createcmdinfo`, `findparam`) | `active_cmd`, a `Cmdinfo` for one execution (reads `buffer`, `pos`) | find a command; collect parameters and values | called by `execute`, completion, help |
| Completion (`completion`, the generators, `print_and_free_matches`) | function-static iterators | one match at a time | editor; value callbacks of the program |
| Help (`printhelp`, `printusage`, `printallcmd`) | none | print | editor |
| Builder core (`clistruct.cpp`, `CCurrentItem.cpp`, ...) | map of contexts, current path, depth count | `create_*`, `end_*` | called by the two front ends |
| Builder export (`CExportFiles.cpp`) | none | write the tables | reads the builder core |
| Builder front ends (`climinalbuilder.y` and the parser `y.tab.cpp` made of it, JSON reader) | the parser's stack, lookahead, two global strings | call the core in document order | builder core |
| Examples, build files | - | - | - |

### What is hard here

* The ring. Four functions in two files step around it, each with its own
  arithmetic: `add_history` advances by comparison, `parseline` finds the slot
  of a number with a modulus, `dump_history` counts numbers while skipping
  blanks, `get_history` stands one slot before what it shows. Tests of such code
  rarely go round twice.
* One position, three records. `active_context`, `cur_depth` and the `father`
  pointers are each changed by "exit", "end" and by commands, in different
  ways; `cur_depth` is unsigned and indexes an array of `context_depth` prompts
  without any test.
* State that outlives its purpose: the prompt of a level that was left, the
  browsing position after an early return, the slot below the newest command.
* Callbacks: they end in several ways, ask for prompts, and change the terminal
  behind the library's back.
* Success reported for work not done (`execute` without command information).
* A line with two lengths (`len`, and the NUL in the buffer) and a terminal that
  is never asked where its cursor is: every key must leave both right for the
  next one. The buffer has no length limit.
* The builder keeps its place in the document by paths, strings joined with
  underscores and split again, and its callers go on after a call has failed.
* Two readings of one line: the completer goes by the cursor and the last blank,
  the parser by words from the start, and both step through a buffer that still
  holds bytes of longer lines behind its NUL.
* Several sessions in threads of one process (`examples/cpp`) sharing the static
  iterators of the completion generators.
* A generated parser whose grammar can repeat nothing for ever, whose stack cannot
  grow, and whose strings have to be freed by whoever holds them when it ends.
* Tables written by separate walks over a tree, each with its own conditions, under
  names joined with underscores.

There is no persistence and no message passing: crash recovery and lost or
reordered messages are not questions of this code. `PROJECT.json` lists the
hazards one by one with the properties that cover them.

### What makes each component correct

* History: `!n` and `history` agree; a number keeps its meaning; Up and Down are
  inverse; only submitting a line remembers it; in short, the ring is a numbered
  log of the last `size` commands.
* Session: the records of the position agree; the prompt stack is not overrun;
  outer levels keep their prompts; "end" arrives; each line is answered.
* Terminal: raw while a line is read, as the program left it otherwise.
* Line editor: `pos <= len`, the line on the screen is the line in the buffer.
* Command line: the command found is the one a reference reading of the words
  gives; parameters get the values that follow them, and a callback runs only with
  all it requires.
* Completion: every Tab is answered, with what the line calls for, also after
  another completion; what it inserts is understood at Enter.
* Builder: the tree in the tables is the tree of the description; the depth is
  enough for it.
* Export: what the tables use is declared, what is declared is defined, nothing twice.
* Front ends: the builder is told of a document's elements in their order, the tables
  are written after whole documents only, no string is lost or freed twice, every
  token is taken or refused.

## 2. The modules

| Module | Role |
|---|---|
| `Clihistory` | the ring as pure operators, one per function or expression of the code |
| `History` | the history at work: prompt, editing, arrows, Enter, recall, end of line; its invariants and properties |
| `HistoryLog` | abstract specification: a numbered log with a cursor, no ring |
| `Session` | everything of `History`, plus contexts, prompt stack, dispatch, callbacks and terminal mode |
| `Navigation` | abstract specification: a stack of levels, each a context and a prompt |
| `LineEditor` | `readline` key by key on the bytes of the buffer, with `addchar`, the completion of a word and the terminal's screen |
| `EditedLine` | abstract specification: a line with a cursor |
| `Lists` | the one operator on lists that `CommandLine` and the proofs share |
| `CommandLine` | how the words of a line are read, as pure operators on the bytes of the buffer: the command found, what the completer offers |
| `Completion` | the completion generators at work: loops over static variables that all sessions share |
| `Shell` | from the keys to the callback: `LineEditor` with the answers of `CommandLine` to Tab, and `createcmdinfo` and `execute` word by word at Enter |
| `Builder` | the builder core's calls with their error returns, in the order the front ends make them |
| `Export` | the identifiers `CExportFiles.cpp` declares, defines and uses for `Builder`'s tree |
| `Parser` | the table-driven parser of the XML front end, the actions of its rules and `main_bison` |
| `Document` | abstract specification: contexts, commands and their ends, properly nested, the tables written at the end or not at all |
| `MCHistory`, `MCSession`, `MCLineEditor`, `MCCompletion`, `MCShell`, `MCBuilder` | small instances for TLC (`Parser` needs none: its only constant is the size of its stack) |
| `Foundations` | lemmas about numbers and sequences that the proofs share: induction, functions defined by recursion, inserting and removing, `Among`, `%` |
| `HistoryProofs`, `SessionProofs`, `LineEditorProofs`, `CompletionProofs`, `ShellProofs`, `BuilderProofs` | theorems about the module each is named after, with the abstract specification it implements (`BuilderProofs`: about `Builder` and `Export`) |
| `ParserProofs` | theorems about `Parser`: what its stack looks like and what follows from that; the tables against the grammar |

`Session` EXTENDS `History`: each of its actions contains one action of `History`
or leaves `historyVars` alone. `SessionIsAHistory` proves it, so all that is
proved of the history holds inside a session.

`LineEditor` looks inside the line that is one value in `History` and `Session`. It
stands beside them: their `Edit` action (any line may come out of editing) is
what all its keys together look like from outside.

`Shell` EXTENDS `LineEditor` and instantiates `CommandLine`. Where `LineEditor` lets Tab insert the rest of
any name, `Shell` computes the names from the command table; `ImplementsEditor` says
that this is one of the things `LineEditor` allows, so what is proved of the editor's
lines holds under the real completer. `Session` asks of a line only which command it
names and whether its arguments suit (`FoundCmd`, `Arguments`, any tables); `Shell` is where
both get computed, in one context. `Completion` takes one Tab apart into the calls of
the generator, and compares the result with the operator `Matches`, which `Shell` uses
in one step.

`Builder` is the other program, run beforehand. What it owes `Session` is what
`TreeAssumption` and `CommandAssumption` ask of the tables: `DocumentsGiveTrees` and
`DepthEnough` state it of the builder's own structures. `Export` EXTENDS `Builder`, so the run
`builder` looks at the tables of every tree the builder can end with. `Parser` and `Builder`
meet in `Document`: the first makes its calls in the order of a document
(`CallsFollowDocument`), the second reads what its callers give it as one
(`ReadsDocuments`).

### State

`hist` is `session->term.history` with its five fields; `buffer` is
`session->term.buffer`, a whole line as one value: a member of `Commands` (at
least one word), of `Recalls` (first word `!` and something more), or `Blank`
(no word). `phase` says where `parseline` stands: between two calls (`prompt`), in
`readline` (`reading`), after `add_history` (`running`), or the loop of
`climinal_main` is over (`closed`). `active_context`, `prompt_stack`, `cur_depth`
and `term_io` are the fields of those names; `father` collects the `father` fields
of all `Clicontext`s; `calling` is the command whose callback runs, `shown` the
prompt in front of the line on the screen, `tty` the real mode of the terminal
and `user_mode` the mode last set by the program or one of its callbacks (a
history variable: no code reads it).

In `LineEditor`, `buf`, `len` and `pos` are the fields of `Cliterm`, the buffer a
function from places to characters and NUL. `screen` is what the terminal shows to
the right of the prompt and the column its cursor is in, computed from nothing but
what the code sends: characters, cursor steps, clear to the right. `rest` holds
the characters `print_and_free_matches` has still to hand to `addchar`, `listing`
says that it will list the matches afterwards. `editing` is true inside `readline`.
`cut` marks the end of the model: see the differences of the editor below.

In `Builder`, a name is the sequence of its parts between underscores, and a path
the parts of all its names one after the other: joining is concatenation, and
splitting at underscores gives a name to each part, which is where the code loses
information. `mapCtx` gives each context's father, `mapCommands` collects the nested
`mapCommands` and `mcSubCommands` by context and names from the outermost command
in; of a command it keeps the subcontext and the names of the parameters.
`stCtxs`, `lstCmds`, `cur_depth` and `context_depth` are the variables of those
names. `open` is the document's side: the elements being read, and how far the content
of each is. `errors` counts the calls that returned
an error (no code reads it), `status` tells a builder still at work from one that
wrote its tables or crashed. In `Export` an identifier is the sequence of its parts, with
what it is the name of (`ctx`, `cmd`, `subcmd`, `prm`, `brf`, `hlp`) as the last.

`CommandLine` reads `buf` and `pos` alone. In `Shell`, `active_cmd` is the session's field, set
by Tab and "?"; `stage`, `cmd`, `word` (`current` and `curlen`), `info` (the `Cmdinfo`) and
`defval_found` are `execute` and `createcmdinfo` in the middle of a line. In `Completion`
every session has its line, `active_cmd` and the `matches` so far; `list_index`, `param_num`,
`subcmd_num`, `cmdlist` and `matched` (the flags of the common commands) are the `static`
variables, one for all sessions.

In `Parser`, `yyss` and `yychar` are bison's; the tables are those of `y.tab.cpp`, entry by
entry, and `RightSide` is the grammar of `climinalbuilder.y`, against which they are
checked. `description` and `values` tell whether the globals of those names hold a string,
`texts` counts the strings of tokens allocated and not yet freed, `open` the
elements the builder has been told of (no code reads the last two).

### Actions and code

| Action | Code |
|---|---|
| `BeginLine`, `StartLine` | `parseline` up to `readline`'s loop |
| `Edit`, `ArrowUp`, `ArrowDown`, `Key` | the cases of `readline` |
| `Help`, `ListMatches` | `printhelp`; Tab with several matches |
| `EndOfInput`, `Eof` | `C_EOF` and `parseline`'s `goto exit` |
| `SubmitBlank`, `SubmitCommand`, `SubmitRecall`, `RejectRecall` | `parseline`, from `readline`'s return to `add_history` |
| `Bye`, `Exit`, `EndClimbs`, `EndArrives`, `ListHistory` | `parsecommon`; `EndClimbs` is one turn of the loop of "end" |
| `NotFound`, `NothingToCall`, `Incomplete`, `CallBack` | `find_active_cmd` and `execute` up to the callback |
| `CallbackSucceeds`, `CallbackFails`, `CallbackExits` | from the callback's return to the end of `parseline` |
| `Finish`, `Close` | the rewind at the end of `parseline`, back to or out of the loop |
| `Type`, `Backspace`, `Delete`, `ClearLine`, `ArrowLeft`, `ArrowRight`, `Home`, `End`, `Browse` | the cases of `readline` on the bytes of the line |
| `CompleteWord`, `CompleteCommon`, `Complete`, `ListMatches` | `cli_complete` and `print_and_free_matches`; `Complete` is one turn of their loops over `addchar` |
| `Start`, `Return`, `Recall` | `readline` called and left; what `parseline` puts in the buffer in between |
| `ContextStart`, `CommandStart`, `Parameter`, `CommandEnd`, `ContextEnd` | the rules of the grammar and the functions of the JSON reader, each with the builder call it makes (`CreateContext`, `CreateCommand`, `CreateParam`, `EndCommand`, `EndContext`) |
| `WriteFiles` | `write_files` |
| `Tab` (`TabNone`, `TabOne`, `TabMany`), `HelpKey`, `PlainKey` | `cli_complete` with `completion`; `printhelp` with `find_active_param`; the other cases of `readline` |
| `EnterCommand`, `EnterNothing` | `parseline`, from the line to `execute` |
| `TakeName`, `TakeValue`, `TakeOther`, `NoMoreWords`, `MissingValue` | one word of `createcmdinfo`'s nested loops each |
| `MissingParameter`, `CallBack`, `CallbackReturns` (`Shell`) | `execute` around the callback; `destroycmdinfo` |
| `Tab`, `StartGenerator`, `GenerateCommon`, `Generate`, `NoMore` (`Completion`) | `completion`; a call of `command_generator` from `completion_matches`: the first, one that returns a name, the last |
| `ReadToken`, `Shift`, `Reduce`, `SyntaxError` | `yyparse`: `yylex` called, `yyshift`, `yyreduce` with the rule's action, `yyerrlab` to `yyreturn` |
| `WriteFiles` (`Parser`) | `main_bison` after `yyparse` |

The callback is the one place where foreign code runs inside the library, so
an execution is cut there: `CallBack` starts it with the terminal restored, one of
the three returns ends it. Cutting the loop of "end" at its turns lets TLC look
at the intermediate states and gives the liveness property a loop to terminate.

`FoundCmd` and `Arguments` are parameters: which command a line names in a context,
and whether the rest of it suits. Theorems hold for every such table.

The two front ends differ in what they let through (the grammar several contexts
at the top, the JSON reader several in one command); `Builder` reads whatever one
of them reads. Where `create_context` follows pointers that lead nowhere, the
builder may crash or, when what it finds there compares unequal, return an error:
`ContextWithoutCommand` takes both.

A call of a generator is one step of `Completion`: two sessions interleave between
calls, not inside one. That is enough to show that they disturb each other.

The command line was also compared with the compiled code: `Matches` with `cli.c`'s
`completion` on 7,108 pairs of line and cursor, and the command and `Cmdinfo` of `Shell` with
those a callback gets from `parseline` on 13,429 inputs (2,621 callbacks); there was
no difference.

## 3. Runs

| Run | Instance | Shows |
|---|---|---|
| `history` | ring of 4 slots (`Size = 3`), 3 commands, 10 recalls, at most 8 commands remembered (`MaxCmdnum = 9`) | the ring fills, and wraps twice; type, ring invariant, listing against recall, stable numbers, Up against Down; the ring implements `HistoryLog` |
| `session` | contexts main > net > if and main > log, a depth of 3, one runtime prompt, two user modes | type, position, room on the prompt stack, terminal mode, "end"; the session implements `Navigation`; each submitted line is answered |
| `editor` | lines of up to 5 characters over `a`, `b` and the blank, three names to complete, one a prefix of another, three stored lines | the two lengths agree, the screen shows the line; the bytes implement `EditedLine` |
| `shell` | lines of up to 6 characters; a command with a required, a default parameter and a subcommand, and one whose parameters' names begin alike | the command found is the one the words name; a callback gets what stands on the line, and all that is required; names are never taken for values; what Tab completes is understood; the keys implement `LineEditor` |
| `completion` | one session, every line of up to 3 characters and 7 longer ones, the cursor anywhere | the generator's state suits the tables, every Tab is answered, with exactly what the line calls for |
| `builder` | documents of up to 7 elements, commands `a`, `b` and `a_b`, parameters `a` and the default one; `b` has no help | state, names and depth whatever fails; place in the document and tree of contexts while nothing fails; the tables declare what they use and define it once; the calls implement `Document` |
| `parser` | any sequence of tokens, a stack of 25 states | the generated tables decide as the grammar does; strings have one owner; descriptions and values belong to their parameter; the calls implement `Document`; inside a context each token is used or refused |
| `session_stale` | as `session` | a statement of the manual about prompts that the code does not keep |
| `shell_stale` | as `shell` | a comment on the search for the command that the code does not keep |
| `completion_threads` | two sessions, two lines | the manual of the examples has sessions in threads; their completions disturb each other |
| `builder_split` | as `builder`, fewer names and elements | a comment on when a command can be created that the code does not keep |
| `parser_spins` | as `parser`, a stack of 10 states | a misplaced token is reported, says the grammar file; the parser may run for ever instead |

Each property of a passing run is about a hazard of the code and has a mutant, a
plausible mistake in a definition that the run then finds.

Deadlock is not checked where the system stops: after `bye`, the end of the input or a
callback that asks for it the session is over; the bound on `cmdnum` stops a line from
being submitted; the editor's and the shell's models stop at a state marked by `cut`, the
builder's after writing its tables or a crash, the parser's with its result. With two
sessions `Completion` stops where the code would read outside its tables. With one it never
stops, and the run `completion` checks that.

### Bounds

* `MaxCmdnum`: no command is added at this count (`MayRemember`). `Size = 3`
  with 9 numbers takes `newid` round the ring of four slots twice, so each
  slot is overwritten, each index passes from `Size` to 0 more than once, and the
  window of available numbers slides. Three commands suffice to tell the slots
  of a window apart; equal neighbours are not added by the code.
* In `session` the ring has 2 slots: the history is checked by its own run,
  here it only has to be there. Three levels below each other let `exit` come
  back over two of them, and let "end" find one level to clear and one it
  forgets. `log` is the second context at level 1, entered without a callback. The
  word `go` names different commands in two contexts. `ContextDepth` is the
  smallest the assumption allows: with the builder's larger counts an overrun
  would stay unseen.
* `MaxLen = 5` in `editor`: guards of `Type` and of the completions. The code has no
  limit of its own (`MAX_BUFLEN` is 256 and nothing is compared with it); what an
  endless line overwrites is not a question a model can answer. Five characters
  hold a word, a blank and the beginning of a name, and let each key work at
  the start, in the middle and at the end of a line, after longer lines have left
  their bytes behind it.
* `MaxElements = 7` in `builder`: guard of `Read` and `Parameter`. Seven elements are
  the fewest in which two contexts can get one path (main, a command, a
  subcommand, its context, the command's context, a command in that, its
  context). Two plain names give siblings, `a_b` next to `a` a path that can be
  read in two ways; one named parameter can clash with a subcommand.
* `MaxLen = 6` in `shell`: the shortest lines with a command, a named parameter and its value
  (`a bb a`), a subcommand and its default value (`a ab a`), words that are the beginning of a
  parameter's name (`b a`), and, after them, shorter lines with such bytes behind their NUL.
* `Lines` in `completion`: all lines of up to three characters, which cover every position of
  cursor and blanks in a first and second word, and longer ones for values of a
  parameter, of the default parameter, and subcommands. Between completions the
  statics carry over from any line to any other. For two threads two lines are enough.
* `YYINITDEPTH = 25` in `parser`; it is 200 in `y.tab.cpp`. The longest right side
  takes 13 states, a context below another one 10 before it, so every rule is reduced, a
  context inside a command included, and the limit is met in the middle of a
  parameter of a nested document. The run `parser_spins` needs a few states only.

### Fairness

`LineCompletes` is checked under weak fairness of the library's own steps
(`StartLine`, `Common`, `Execute`: `parseline` is a straight run of code without
waiting) and of `CallbackReturns` (a callback that never returns takes the
thread with it; the property is about the library). The user owes nothing:
no fairness is put on `User`, so a session may stop at the prompt for ever.

`TabIsAnswered` assumes weak fairness of the calls of the generator (`Completes`): `completion_matches`
is a loop without waiting. Nobody has to press Tab. `TokensTaken` and `NeverSpins` assume weak
fairness of `ParserNext`: `yyparse` runs until it returns, on a file that can be read.

### What the findings say

1. "end" does not clear the deepest level's prompt, which reappears in the next
   context entered at that level, even when no callback ever asked for a prompt
   (`session_stale`). `Navigation` therefore leaves the prompt of a new level open.
2. `find_active_cmd` steps over a word and the byte behind it, be it the NUL, and reads on in
   what longer lines have left there: with `show ip` and `show` in the history, Up, Up,
   Down and Enter run `show ip` while the line says `show` (`shell_stale`). `FindsWhatIsMeant`
   therefore asks for a buffer without such bytes.
3. The generators' static variables are shared by all sessions of the process: one
   that completes while another is between two names takes over its place
   (`completion_threads`).
4. A command with an underscore in its name (the manual has `add_user`) and a
   context of its own leaves the builder one command too deep: what follows goes
   to a wrong father or is refused (`builder_split`).
5. `rule` may be empty and `rules` repeats it, so outside a context the parser's default
   is to reduce one more empty rule: a stray `</context>` or a `<command>` at the top is
   never reported, the builder runs for ever (`parser_spins`). `TokensTaken` is what does hold.

Smaller differences are in the models without a run of their own.

* History: `!!` reads as number 0 and is rejected, where the manual repeats the last
  command. The two early returns for a bad recall (`cli.c:694`) skip the rewind, so the
  next Up starts where the last browsing stopped. Before the ring is full Up walks
  past the oldest command over empty lines, which `HistoryLog` takes over.
* Session: a line that ends before a parameter's value switches context without
  running the callback (`cli.c:723`). Tab shows the context's prompt instead of the one a
  callback asked for (`terminal.c:229`).
* Editor: with the cursor in front of a line that begins with a blank, `cli_complete`
  places the word behind the cursor and its length becomes -1. The loop over
  the only match compares that with an unsigned length and never turns; the
  loop over the common part of several starts at the byte before the string and
  adds it to the line (`terminal.c:188`). `CompleteCommon` takes any character for
  that byte. Were it a NUL, the line would end in the middle: `CompleteWithNul`
  marks such a state with `cut`, and the model stops there.
* Command line: a parameter whose name begins the name of an earlier one can never be
  given (`cli.c:984`, `cli.c:901`): `NamesTaken` excepts such tables. Words that name nothing are
  ignored. Two blanks in a row let the search for a subcommand resume inside a word.
  Help looks for its parameter in the command an earlier Tab or "?" left behind
  (`cli.c:222`), so help for one command may describe a parameter of another.
* Completion: behind a command with a default parameter that has values nothing but these
  is offered. A complete subcommand name at the line's end is looked up among the
  context's commands. If the command was found behind the NUL and does not stand on the
  line, the code follows a null pointer where `AwaitingDefault` finds nothing.
* Builder: two contexts can get one path without any underscore in a name (the
  subcommand `a` of main's command `a`, and the command `a` in the context of main's
  `a`, both lead to `main_a_a`, `CCurrentItem.cpp:118`); the second context is refused and its
  commands join the first. The end of a command that was refused closes the
  command around it (`clistruct.cpp:404`): the front ends ignore every error and write the
  tables all the same, as `bConsistent`, on which `write_files` depends, is never cleared. A
  context without a father command is not refused but looked up through an empty list
  (`ContextWithoutCommand`).
* Export: a command with both subcommands and a context that holds a command of the same
  name as one of them gives C definitions of one name; `DefinedOnce` excepts such
  documents (`OneWayDown`), as the manual says a command has one or the other
  (`README.md:270`). A command without help or brief leaves its list of subcommands undeclared
  (`CExportFiles.cpp:563`), which `DeclaredBeforeUse` excepts (`TextsComplete`).
* Front ends: the scanner's copies of numbers and booleans are never freed (`TextsOwned`
  counts names and strings only); the parser's stack cannot grow (`y.tab.cpp:1170`), so
  a document some forty contexts deep ends with "memory exhausted".

## 4. Proofs

All theorems hold for every value of the constants that satisfies the
assumptions:

* `SizeAssumption`: `history_size` is at least 1 (with 0 `add_history` writes
  outside its only slot; the library does not test it).
* `BlankAssumption`, `RecallsAssumption`, `DisplayAssumption`: the kinds of lines,
  prompts and modes are distinct and the tables total.
* `TreeAssumption`: the contexts form a tree whose fathers are those of the
  generated tables and whose deepest level is below `context_depth`. The builder
  counts one level per context, which is at least the depth needed: the run
  `builder` checks `DepthEnough` for every document and `DocumentsGiveTrees` for those
  read without an error, and `BuilderProofs` proves both. Finding 4, and the first two differences of the builder, are
  documents whose tables break the assumption; the theorems say nothing of a session
  on such tables.
* `CommandAssumption`: a command's subcontext is a child of the context that lists it.
* `LinesAssumption`, `WordsAssumption` (`Completion`): every line is a sequence that fits
  the buffer and has no NUL in it; the four words common to all contexts are different and the parameters
  of a command are an array.
* `OneWordAssumption` (`Shell`): no name holds a blank (the builder's scanner takes none,
  `climinalbuilder.l:96`), and no value a callback returns is empty or holds one. Only
  `CompletedWordIsUnderstood` uses it: completing a value of two words makes two words.

**History** (`HistoryProofs`). The inductive invariant is `HistoryInv`:
`HistoryTypeOK` and `RingInv`. `RingInv` says that `lastid` and `newid` are
`cmdnum - 1` and `cmdnum` modulo `Size + 1`, that each available number finds a
command in its slot and that the other slots are blank. Types alone are not
inductive for what matters: without the indices following the count nothing
relates a slot to a number. The heart is `AddHistoryKeepsRing`, where the
comparison in `add_history` meets the modulus in `parseline`; it rests on the lemmas of
`Foundations` (`ModStep`, `ModDistinct`, `ModDifference`). `RefinesLog` maps the ring to
`HistoryLog`: `total` is `cmdnum - 1`, `log` reads the slots of the available
numbers, `cursor` is the distance from `getid` back to `lastid` round the ring;
`StepMaps` treats each action. `ListingCorrect` is about a loop: `TurnPrints` says what
one turn of `dump_history` adds to the lines printed so far, `DumpIs` goes round by
induction, and what comes out is compared with the numbers `!n` takes.

**Session** (`SessionProofs`). `SessionInv` strengthens `PositionAgrees` by the
history's invariant, by `LineIsACommand` (what is executed is a command even
after a recall, so the tables are defined on it) and by `CallingIsListed` (the
command whose callback runs belongs to the active context, and "end" is not
climbing meanwhile). `PositionAgrees` alone is not inductive: a callback's
return switches context, and only `CallingIsListed` says that the new context is
one level below. From it follow `PositionCorrect`, `PromptStackNeverOverrun`,
`EndAlwaysReachesMain` and, with `TtyInv`, `SessionTypeCorrect`. `TtyInv` gives the
exact mode in every state and is inductive by itself (`TerminalRestored`).
`RefinesNavigation` maps a session to a stack of levels: the contexts are the path from
main to the active one, so a command's step puts one level on top and "exit" takes
one off because `PositionAgrees` holds before and after.

**Editor** (`LineEditorProofs`). The assumption is that stored lines fit and that
lines and names are made of characters (`EditorAssumption`). `EditorInv` says of a
session inside `readline` that `buf` holds a line of `len` characters ended by a
NUL, `pos` in it (`LineOK`), that the screen shows just that (`Shows`), and that
there is room for what Tab has still to add; outside, that Tab is done.
`OneLength` and `ScreenShowsLine` need each other: Up prints by the NUL and
goes back by `pos`, and what Delete leaves on the screen depends on both. There is
one lemma per primitive (`AddCharKeepsLine`, `PrintedLineShows`, `RedrawnShows`,
...) and one per group of keys. `RefinesLine` maps the bytes to the line in front of the NUL:
the loops of `addchar` and Delete over the buffer are an insertion and a removal in
that sequence (`AddCharMaps`, `ShiftedOutIsWithout`).

**Shell** (`ShellProofs`). `ShellAssumption` says of the command table what its C type says:
commands list commands, parameters have a name, a flag, a count and perhaps values,
names are made of characters. `ShellInv` has three parts.

* `StateInv`: the editor's invariant; the buffer's last byte is a NUL (`BufOK`, without which
  `next_word` need not stop); and the `Cmdinfo` fits its table, each parameter having all its values
  but the last one while these are read (`ArgsOK`). `CallbackHasRequired` follows.
* `SpreadInv`: the first `m` words behind the command have been read, and each parameter stands with
  its values at a place among them, one behind the other; what is left are the words
  from `word` on. The places are chosen anew at each step, which is why the invariant
  asks for some of them (`\E at`). `CallbackGetsTheLine` follows.
* `CountInv`: names on the line = names taken + names still to be read. `NamesAlwaysTaken` follows.

The line a callback gets is defined by `FindActiveCmd`, a recursive function; `FindActiveCmdIs`
shows from the lemma `DescentExists` that it has a value, as every turn resumes further
behind and a search that is past the line finds nothing. `StepsAreEditors` shows for
each key that what `CommandLine` computes is among the things `LineEditor` allows; for Tab
that every name offered begins with what is typed of the word (`TabOffers`). So
`ShellImplementsEditor` carries the editor's theorems over (`ShellShowsTheLine`).

Two more theorems compare the readings of one line. Both are about lines with single blanks and
no blank in front (`Plain`), in a buffer with nothing behind its NUL (`Clean`); finding 2 and the differences
below it are what happens elsewhere.

* `SearchFindsTheCommand`: `find_active_cmd` resumes at the length of a word behind the place
  where it looked for it, which is where the next word begins only if none but single blanks
  were passed, and stops early when a length happens to be the cursor's. `Reached` says of a
  search that it is at the start of a word, and that the `n` words before it name, each below the one
  before, the chain of commands that `CommandsOf` reads off the words; `ReachedGoesOn` is one turn, and
  with it goes the early stop, which cannot happen there. Where the search stops, the next word adds
  nothing to the chain, nor does any behind it (`ChainStays`).
* `CompletedWordIsUnderstood`: two buffers that agree up to the start of a word have the same words before
  it (`Splits`), so what Tab adds for its only match makes one more word of the line, and the last
  (`LineContinued`). The command the completer found was named by words before the one completed, as a blank
  stands behind its name (`CommandBefore`); `ReachedByFront` says that these words alone name it. In the first
  word no value can be asked for (`NoValuesInFirstWord`), and behind a word that names nothing
  nothing is offered.

**Completion** (`CompletionProofs`). The statics are shared by all sessions, so nothing can be said of one
session whatever the others do: `completion_threads` shows what happens. The theorems assume
`[]OneAtATime`, that no session starts to complete while another is at it, and for a single session
that holds by itself (`OneSessionOffersOwn`). Lines, cursors, tables, and what earlier completions left
in the statics are arbitrary. `CompletionInv` says of the session that completes that the static list and the two counts are
those of the command its line names (`Tables`, `LaidOut`), that `list_index` is inside them, and that what was
handed out so far is what a beginning of the list has to offer (`Offering`, `Upto`): a call skips what does not fit, so
each call moves to the next longer beginning with one more name (`CommonWordOffered`, `ListedNameOffered`), and the last call has
come to the list's end. `Matches`, which filters the whole list at once, is then what all the calls
gave (`CompletionOffersOwn`). The common words come first, by their flags.

**Builder and Export** (`BuilderProofs`). The assumption is `BuilderAssumption`: names are not empty and made
of parts, and the two values that stand for no name are none. `CoreInv` says that maps and
their keys are well formed, a command's subcontext is known and has the path of its
command, what is open is known, and `Counted`: there are at most `context_depth` contexts.
`DepthEnough` is about chains of commands, of which the code only has a count; `StackDeepEnough` gets it
from `Counted`: a command leads to a longer path than that of its own context, so a context `n`
commands away from main has at least `n` known contexts with shorter paths (`WaysAreLong`).
`NamesUnambiguous` is part of the invariant: `create_command` checks the parameters and `create_param`
the subcommands. All this holds with underscores in names and whatever is refused.
`BuilderReadsDocuments` maps `open` to the open elements of `Document`. Three more invariants are
inductive next to `CoreInv`:

* `TreesInv`, as long as no call has failed: a path new to the map is one to which no other
  command leads, so each context has one command that does (`TreesFromDocuments`).
  It needs no plain names, though `DocumentsGiveTrees` asks for them.
* `TablesInv`, whatever fails: fathers are known contexts, a subcommand's command and a
  context's command exist. From it, the writer comes to every command when the texts are
  complete (`TablesDeclareWhatTheyUse`). `TablesDefineOnce` shows that plain names joined to paths
  can be told apart (`HierarchyIsOnce`): take two commands with one shortest path; were their contexts
  different, the deeper context would have been reached from a command that is, as no shorter
  path is shared, also an outer command of the other one, which `OneWayDown` excludes.
* `PositionInv`, with plain names and as long as no call has failed: the contexts on the stack are
  the open ones, each with the path of the one below and the names of the commands open in
  between, and `lstCommands` has the names behind the last of them (`AtItsPlace`). The code keeps no
  copy of that list: `BackToFatherCtx` gets it out of the path by cutting it up behind the
  father's, one name for each part (`NamesBack`). That is the list only if each name was one part,
  and `PlainNames` speaks of the commands stored, so the invariant also says that the open ones
  are stored (`OpenNamesKnown`). `ContextEndStands` is the step out of a context;
  `BuilderFollowsDocument` follows.

**Parser** (`ParserProofs`). Which states may stand under which (`Beneath`) is read
off the tables; `Path` says of a stack that each state is on one of these. From it
`Handles` computes, rule by rule, what the top of the stack looks like when a rule is
reduced, whatever is below. The rest of `ParserInv` counts along the stack: strings are
held by the states that shifted them (`TextsOwned`), a global is set only between the states
after a description or values and the end of the parameter (`GlobalsWait`), and the states of
elements begun are those of the elements the builder was told of (`Nesting`). It is inductive for
stacks of any depth, up to any `YYINITDEPTH`. `TablesDecideAsGrammar` reads the symbols off such a
stack: each reduction has the right side of its rule there, and a token is refused only
where no right side begun goes on with it.

**Foundations.** The provers cannot instantiate a theorem that has a formula as its parameter, which
is how the library states induction. It is stated here for sets: a set of numbers that holds
0 and with a number the next one holds all (`SetInduction`); the proof goes through finite sets,
whose well-foundedness the library has as a plain fact. `Recursion` and `DescentExists` give
functions defined by recursion their values in the same way. That is enough for the loops of this
code, not for the library's own recursive operators (`SelectSeq`, the folds), which the provers cannot
expand; the models use `Among` for the one (what it keeps, and that it filters a list piece by piece, is
proved here too) and recursive functions.

Only model-checked: `LineCompletes`, `TabIsAnswered` and `TokensTaken`, as liveness under fairness
is beyond the prover. Every invariant and every action property of the passing runs, and
every implementation of an abstract specification, is a theorem.

## 5. Not modelled

Opaque by choice: layout and wording of what is printed (the help texts among it),
`malloc` failures, failures of `tcgetattr` and `tcsetattr` (ignored by every caller). In
the editor: the decoding of bytes into keys (`get_c_type`), lines wider than the
terminal, characters wider or narrower than a column, lines beyond `MAX_BUFLEN`. On
the command line: more than `MAX_PARAM_NUM` parameters or `MAX_VAL_NUM` values, which
`createcmdinfo` does not count; the value callbacks of a program, which return a fixed list
here. In the builder: the order, layout and fixed text of the files written; the scanner
(`climinalbuilder.l`, and `lex.yy.cpp` generated from it), for which `Parser` takes any
sequence of tokens; boost's readers. The examples and build files have no logic of the
library's own.
