-------------------------- MODULE CompletionProofs ---------------------------
(***************************************************************************)
(* Theorems about module Completion: with one completion at a time, in     *)
(* whichever of any number of sessions, the generator's static variables   *)
(* do no harm. (ThreadsKeepApart is what becomes of two at a time.)        *)
(***************************************************************************)
EXTENDS Completion, Foundations

-----------------------------------------------------------------------------
(* Words in a buffer.                                                      *)

BufOK(b) == DOMAIN b = 0..MaxLen /\ b[MaxLen] = Nul

LEMMA NulBehind ==
    ASSUME NEW b, BufOK(b), NEW i \in Nat, i >= MaxLen
    PROVE  ByteAt(b, i) = Nul
<1>1. MaxLen \in Nat
  BY TableAssumption
<1> QED
  BY <1>1 DEF BufOK, ByteAt

LEMMA WordEndIn ==
    ASSUME NEW b, BufOK(b), NEW i \in 0..(MaxLen + 1)
    PROVE  WordEnd(b, i) \in i..(MaxLen + 1) /\ (i <= MaxLen => WordEnd(b, i) <= MaxLen)
<1> DEFINE Good(j) == ByteAt(b, j) \in {Blank, Nul}
                      /\ \A k \in i..(j - 1) : ~(ByteAt(b, k) \in {Blank, Nul})
           last == IF i <= MaxLen THEN MaxLen ELSE MaxLen + 1
           T == {k \in Nat : ByteAt(b, k) \in {Blank, Nul}}
           e == WordEnd(b, i)
<1>1. MaxLen \in Nat /\ i \in Nat /\ last \in Nat /\ last >= MaxLen /\ i <= last /\ last <= MaxLen + 1
  BY TableAssumption
<1>2. last \in T
  BY <1>1, NulBehind
<1>3. PICK j \in i..last : j \in T /\ \A k \in i..(j - 1) : k \notin T
  <2> HIDE DEF T, last
  <2> QED
    BY <1>1, <1>2, FirstPlace
<1>4. Good(j) /\ j \in i..(i + MaxLen + 1)
  BY <1>1, <1>3
<1>5. e = CHOOSE x \in i..(i + MaxLen + 1) : Good(x)
  BY DEF WordEnd, FirstFrom
<1>6. e \in i..(i + MaxLen + 1) /\ Good(e)
  <2> HIDE DEF Good, e
  <2> QED
    BY <1>4, <1>5
<1>7. e <= j
  <2> SUFFICES ASSUME j < e
               PROVE  FALSE
    BY <1>1, <1>6
  <2>1. j \in i..(e - 1)
    BY <1>1, <1>6
  <2> QED
    BY <1>4, <1>6, <2>1
<1> QED
  BY <1>1, <1>6, <1>7

LEMMA NextWordIn ==
    ASSUME NEW b, BufOK(b), NEW i \in 0..(MaxLen + 1), NEW w, w = NextWord(b, i)
    PROVE  /\ w.start \in i..(MaxLen + 1) /\ w.end \in w.start..(MaxLen + 1)
           /\ i <= MaxLen => w.end <= MaxLen
<1> DEFINE Good(j) == ByteAt(b, j) # Blank /\ \A k \in i..(j - 1) : ~(ByteAt(b, k) # Blank)
           last == IF i <= MaxLen THEN MaxLen ELSE MaxLen + 1
           T == {k \in Nat : ByteAt(b, k) # Blank}
           s == CHOOSE x \in i..(i + MaxLen + 1) : Good(x)
<1>1. /\ MaxLen \in Nat /\ i \in Nat /\ last \in Nat /\ last >= MaxLen /\ i <= last
      /\ last <= MaxLen + 1
      /\ Nul # Blank
  BY TableAssumption
<1>2. last \in T
  BY <1>1, NulBehind
<1>3. PICK j \in i..last : j \in T /\ \A k \in i..(j - 1) : k \notin T
  <2> HIDE DEF T, last
  <2> QED
    BY <1>1, <1>2, FirstPlace
<1>4. Good(j) /\ j \in i..(i + MaxLen + 1)
  BY <1>1, <1>3
<1>5. w = [start |-> s, end |-> WordEnd(b, s)]
  BY DEF NextWord, FirstFrom
<1>6. s \in i..(i + MaxLen + 1) /\ Good(s)
  <2> HIDE DEF Good
  <2> QED
    BY <1>4
<1> HIDE DEF s
<1>7. s <= j
  <2> SUFFICES ASSUME j < s
               PROVE  FALSE
    BY <1>1, <1>6
  <2>1. j \in i..(s - 1)
    BY <1>1, <1>6
  <2> QED
    BY <1>4, <1>6, <2>1
<1>8. s \in i..(MaxLen + 1) /\ s \in 0..(MaxLen + 1) /\ (i <= MaxLen => s <= MaxLen)
  BY <1>1, <1>6, <1>7
<1>9. w.start = s /\ w.end = WordEnd(b, s)
  BY <1>5
<1> QED
  BY <1>8, <1>9, WordEndIn

-----------------------------------------------------------------------------
(* The search for the command.                                             *)

LEMMA SearchDescends ==
    ASSUME NEW b, BufOK(b), NEW search \in Searches, Hit(b, search)
    PROVE  /\ Descend(b, search) \in Searches
           /\ Descend(b, search).cmd \in Cmds
           /\ Descend(b, search).at > search.at
<1> DEFINE i == search.at
           w == NextWord(b, i)
           list == ListBelow(search.cmd)
           hits == Hits(b, search)
<1>1. MaxLen \in Nat /\ i \in 0..(MaxLen + 1) /\ search.cmd \in Cmds \cup {NoCmd}
  BY TableAssumption DEF Searches
<1>2. /\ w.start \in i..(MaxLen + 1) /\ w.end \in w.start..(MaxLen + 1)
      /\ i <= MaxLen => w.end <= MaxLen
  <2> HIDE DEF w
  <2> QED
    BY <1>1, NextWordIn DEF w
<1>3. w.start < w.end
  BY DEF Hit, IsWord
<1> HIDE DEF w, i
<1>4. w.end \in 0..MaxLen /\ i + (w.end - w.start) + 1 \in 0..(MaxLen + 1)
      /\ i + (w.end - w.start) + 1 > i
  BY <1>1, <1>2, <1>3
<1>5. list \in Seq(Cmds)
  BY <1>1, TableAssumption DEF ListBelow
<1>6. hits # {} /\ hits \subseteq DOMAIN list /\ hits \subseteq Nat
  BY <1>5 DEF Hit, Hits, Named
<1>7. Min(hits) \in hits
  <2> HIDE DEF hits
  <2>1. \E x \in hits : \A y \in hits : x <= y
    BY <1>6, LeastNumber
  <2> QED
    BY <2>1 DEF Min
<1>8. list[Min(hits)] \in Cmds
  BY <1>5, <1>6, <1>7
<1>9. Descend(b, search) = [at |-> i + (w.end - w.start) + 1, cmd |-> list[Min(hits)],
                            next |-> w.end]
  BY DEF Descend, ResumesAt, w, i
<1> HIDE DEF list, hits
<1> QED
  BY <1>4, <1>8, <1>9 DEF Searches, i

\* find_active_cmd comes to an end, with a command of the tables or none.
LEMMA FindActiveCmdIn ==
    ASSUME NEW b, BufOK(b), NEW p
    PROVE  FindActiveCmd(b, p) \in Searches
<1> DEFINE S == Searches
           F(f) == [search \in S |->
                       IF ~Hit(b, search) THEN search
                       ELSE IF Descend(b, search).next = Descend(b, search).at + p
                            THEN Descend(b, search)
                            ELSE f[Descend(b, search)]]
           stops == {x \in S : ~Hit(b, x) \/ Descend(b, x).next = Descend(b, x).at + p}
           val == [x \in S |-> IF ~Hit(b, x) THEN x ELSE Descend(b, x)]
           next == [x \in S |-> Descend(b, x)]
           step == [x \in S \X S |-> x[2]]
           mu == [x \in S |-> (MaxLen + 1) - x.at]
           start == [at |-> 0, cmd |-> NoCmd, next |-> 0]
           found == CHOOSE f : f = F(f)
<1>1. MaxLen \in Nat
  BY TableAssumption
<1>2. mu \in [S -> Nat]
  BY <1>1 DEF Searches
<1>3. val \in [S -> S] /\ step \in StepsBack(S, S)
  BY SearchDescends DEF StepsBack
<1>4. ASSUME NEW x \in S \ stops
      PROVE  next[x] \in S /\ mu[next[x]] < mu[x]
  <2>1. Hit(b, x) /\ x \in S /\ next[x] = Descend(b, x)
    OBVIOUS
  <2>2. Descend(b, x) \in S /\ Descend(b, x).at > x.at
    BY <2>1, SearchDescends
  <2>3. x.at \in Int /\ Descend(b, x).at \in Int
    BY <2>1, <2>2 DEF Searches
  <2> QED
    BY <1>1, <2>1, <2>2, <2>3
<1>5. ASSUME NEW f, f \in [S -> S]
      PROVE  Descends(f, S, stops, val, next, step) => f = F(f)
  <2>1. ASSUME NEW x \in S
        PROVE  (IF x \in stops THEN val[x] ELSE step[<<x, f[next[x]]>>]) = F(f)[x]
    <3>1. CASE ~Hit(b, x)
      BY <3>1
    <3>2. CASE Hit(b, x)
      <4>1. Descend(b, x) \in S
        BY <3>2, SearchDescends
      <4>2. next[x] = Descend(b, x) /\ val[x] = Descend(b, x)
        BY <3>2
      <4>3. f[next[x]] \in S
        BY <1>5, <4>1, <4>2, Zenon
      <4>4. step[<<x, f[next[x]]>>] = f[next[x]]
        BY <4>3
      <4> HIDE DEF val, next, step
      <4> QED
        BY <3>2, <4>2, <4>4
    <3> QED
      BY <3>1, <3>2
  <2>2. F(f) = [x \in S |-> F(f)[x]]
    OBVIOUS
  <2> HIDE DEF F, stops, val, next, step
  <2> QED
    BY <2>1, <2>2 DEF Descends
<1>6. \E f : f = F(f)
  <2>1. \E f : f \in [S -> S] /\ Descends(f, S, stops, val, next, step)
    <3> HIDE DEF S, stops, val, next, step, mu
    <3> QED
      BY <1>2, <1>3, <1>4, DescentExists
  <2> HIDE DEF F, S, stops, val, next, step
  <2> QED
    BY <1>5, <2>1
<1>7. found = F(found)
  <2> HIDE DEF F
  <2> QED
    BY <1>6
<1>8. FindActiveCmd(b, p) = found[start]
  BY DEF FindActiveCmd
<1> HIDE DEF found
<1>9. ASSUME NEW x \in S
      PROVE  found[x] = IF ~Hit(b, x) THEN x
                        ELSE IF Descend(b, x).next = Descend(b, x).at + p THEN Descend(b, x)
                             ELSE found[Descend(b, x)]
  BY <1>7
<1> DEFINE T == {x \in S : found[x] \in S}
<1>10. ASSUME NEW x \in S, \A y \in S : mu[y] < mu[x] => y \in T
       PROVE  x \in T
  <2>1. CASE ~Hit(b, x)
    BY <1>9, <2>1
  <2>2. CASE Hit(b, x)
    <3>1. Descend(b, x) \in S /\ Descend(b, x).at > x.at
      BY <2>2, SearchDescends
    <3>2. mu[Descend(b, x)] < mu[x]
      <4>1. x.at \in Int /\ Descend(b, x).at \in Int
        BY <3>1 DEF Searches
      <4> QED
        BY <1>1, <3>1, <4>1
    <3>3. found[Descend(b, x)] \in S
      BY <1>10, <3>1, <3>2
    <3> QED
      BY <1>9, <2>2, <3>1, <3>3
  <2> QED
    BY <2>1, <2>2
<1>11. S \subseteq T
  <2> HIDE DEF T, S, mu
  <2> QED
    BY <1>2, <1>10, MeasureInduction
<1>12. start \in S
  BY <1>1 DEF Searches
<1> QED
  BY <1>8, <1>11, <1>12

-----------------------------------------------------------------------------
(* What a line calls for. A terminal t is a buffer and a cursor.           *)

TermOK(t) ==
    \E line \in Lines \cup {<<>>} : \E pos \in 0..Len(line) : t = [buf |-> Buffer(line), pos |-> pos]

PlaceOf(t) == WordStart(t.buf, t.pos)

Own(t) == FindActiveCmd(t.buf, t.pos)

Done(t) == Values(t.buf, t.pos, Own(t).cmd).done

None(t) == NothingToOffer(t.buf, t.pos, PlaceOf(t))

CommonOf(t) == IF Own(t).cmd = NoCmd THEN CommonOffered(t.buf, PlaceOf(t)) ELSE <<>>

ListOf(t) == Listed(t.buf, t.pos)

Wanted(t) == {name \in Range(ListOf(t)) : Offers(t.buf, t.pos, PlaceOf(t), name)}

Answer(t) == Matches(t.buf, t.pos, PlaceOf(t))

LEMMA TermIs ==
    ASSUME NEW t, TermOK(t)
    PROVE  BufOK(t.buf) /\ t.pos \in 0..StrEnd(t.buf) /\ Own(t) \in Searches
<1>0. PICK line \in Lines \cup {<<>>} : \E pos \in 0..Len(line) : t = [buf |-> Buffer(line), pos |-> pos]
  BY DEF TermOK
<1>1. PICK pos \in 0..Len(line) : t = [buf |-> Buffer(line), pos |-> pos]
  BY <1>0
<1>2. PICK n \in Nat : n = Len(line) /\ n <= MaxLen /\ \A i \in 1..n : line[i] # Nul
  <2>1. CASE line \in Lines
    <3>1. line \in Seq(Range(line)) /\ Len(line) <= MaxLen /\ Nul \notin Range(line)
      BY <2>1, LinesAssumption
    <3>2. Len(line) \in Nat /\ DOMAIN line = 1..Len(line)
      BY <3>1
    <3> QED
      BY <3>1, <3>2 DEF Range
  <2>2. CASE line = <<>>
    <3>1. Len(line) = 0 /\ MaxLen \in Nat
      BY <2>2, TableAssumption
    <3> QED
      BY <3>1
  <2> QED
    BY <2>1, <2>2
<1>3. MaxLen \in Nat
  BY TableAssumption
<1>4. PICK b : b = Buffer(line)
  OBVIOUS
<1>5. b = [i \in 0..MaxLen |-> IF i < n THEN line[i + 1] ELSE Nul]
  BY <1>2, <1>4 DEF Buffer
<1>6. BufOK(b)
  BY <1>2, <1>3, <1>5 DEF BufOK
<1>7. StrEnd(b) = n
  <2> DEFINE Good(j) == ByteAt(b, j) = Nul /\ \A k \in 0..(j - 1) : ~(ByteAt(b, k) = Nul)
             e == CHOOSE x \in 0..(0 + MaxLen + 1) : Good(x)
  <2>1. ByteAt(b, n) = Nul /\ \A k \in 0..(n - 1) : ByteAt(b, k) # Nul
    <3>1. \A k \in 0..n : k \in 0..MaxLen
      BY <1>2, <1>3
    <3> QED
      BY <1>2, <1>5, <3>1 DEF ByteAt
  <2>2. Good(n) /\ n \in 0..(0 + MaxLen + 1)
    BY <1>2, <1>3, <2>1
  <2>3. e \in 0..(0 + MaxLen + 1) /\ Good(e)
    <3> HIDE DEF Good
    <3> QED
      BY <2>2
  <2>4. StrEnd(b) = e
    BY DEF StrEnd, FirstFrom
  <2> HIDE DEF e
  <2>5. ~(e < n)
    <3> SUFFICES ASSUME e < n
                 PROVE  FALSE
      OBVIOUS
    <3>1. e \in 0..(n - 1)
      BY <2>3
    <3> QED
      BY <2>1, <2>3, <3>1
  <2>6. ~(n < e)
    <3> SUFFICES ASSUME n < e
                 PROVE  FALSE
      OBVIOUS
    <3>1. n \in 0..(e - 1)
      BY <2>3
    <3> QED
      BY <2>1, <2>3, <3>1
  <2> QED
    BY <2>3, <2>4, <2>5, <2>6
<1>8. t.buf = b /\ t.pos = pos
  BY <1>1, <1>4
<1> QED
  BY <1>2, <1>6, <1>7, <1>8, FindActiveCmdIn DEF Own

\* Each of the common words is offered once.
LEMMA CommonOfIs ==
    ASSUME NEW t
    PROVE  CommonOf(t) \in Seq(CommonWords) /\ NoRepetition(CommonOf(t))
<1> DEFINE all == IF HasContexts THEN <<ByeWord, HistoryWord, ExitWord, EndWord>>
                  ELSE <<ByeWord, HistoryWord>>
           S == {name \in CommonWords : IsPrefix(Bytes(t.buf, PlaceOf(t), StrEnd(t.buf)), name)}
<1>1. all \in Seq(CommonWords)
  <2>1. CASE HasContexts
    <3>1. {ByeWord, HistoryWord, ExitWord, EndWord} \subseteq CommonWords
      BY <2>1 DEF CommonWords
    <3>2. all = <<ByeWord, HistoryWord, ExitWord, EndWord>>
      BY <2>1
    <3> QED
      BY <3>1, <3>2
  <2>2. CASE ~HasContexts
    <3>1. {ByeWord, HistoryWord} \subseteq CommonWords
      BY <2>2 DEF CommonWords
    <3>2. all = <<ByeWord, HistoryWord>>
      BY <2>2
    <3> QED
      BY <3>1, <3>2
  <2> QED
    BY <2>1, <2>2
<1>2. NoRepetition(all)
  <2> DEFINE four == <<ByeWord, HistoryWord, ExitWord, EndWord>>
  <2>1. \A i, j \in DOMAIN four : four[i] = four[j] => i = j
    BY WordsAssumption DEF IsInjective
  <2>2. DOMAIN four = 1..4
    OBVIOUS
  <2>3. \A i \in 1..Len(all) : i \in 1..4 /\ all[i] = four[i]
    OBVIOUS
  <2> QED
    BY <2>1, <2>2, <2>3 DEF NoRepetition
<1>3. CommonOffered(t.buf, PlaceOf(t)) = Among(all, S)
  BY DEF CommonOffered
<1> HIDE DEF all, S
<1>4. Among(all, S) \in Seq({x \in CommonWords : x \in S}) /\ NoRepetition(Among(all, S))
  BY <1>1, <1>2, AmongIs, AmongApart
<1>5. Among(all, S) \in Seq(CommonWords)
  BY <1>4
<1>6. <<>> \in Seq(CommonWords) /\ NoRepetition(<<>>)
  BY DEF NoRepetition
<1> QED
  BY <1>3, <1>4, <1>5, <1>6 DEF CommonOf

\* The tables that the generator goes through for a line.
Below(t) == Own(t).cmd # NoCmd /\ ByteAt(t.buf, Own(t).next) = Blank

Tables(t, params, subcmds, list) ==
    /\ list = IF Below(t) THEN SubCmds[Own(t).cmd] ELSE CmdList
    /\ params = IF Below(t) THEN Len(Params[Own(t).cmd]) ELSE 0
    /\ subcmds = Len(list)

\* How the names to go through lie in them.
LaidOut(t, params, subcmds, list) ==
    /\ params \in Nat /\ subcmds \in Nat /\ list \in Seq(Cmds)
    /\ ListOf(t) \in Seq(Range(ListOf(t))) /\ Len(ListOf(t)) = params + subcmds
    /\ \A i \in 1..params :
           /\ Own(t).cmd # NoCmd /\ i \in DOMAIN Params[Own(t).cmd]
           /\ ListOf(t)[i] = Params[Own(t).cmd][i].name
    /\ \A i \in (params + 1)..(params + subcmds) :
           i - params \in DOMAIN list /\ ListOf(t)[i] = NameOf[list[i - params]]

LEMMA ListOfIs ==
    ASSUME NEW t, TermOK(t), NEW params, NEW subcmds, NEW list, Tables(t, params, subcmds, list)
    PROVE  LaidOut(t, params, subcmds, list)
<1>1. Own(t).cmd \in Cmds \cup {NoCmd}
  BY TermIs DEF Searches
<1>2. list \in Seq(Cmds)
  BY <1>1, TableAssumption DEF Tables, Below
<1>3. subcmds \in Nat /\ subcmds = Len(list) /\ DOMAIN list = 1..subcmds
  BY <1>2 DEF Tables
<1> DEFINE names == [i \in 1..subcmds |-> NameOf[list[i]]]
<1>4. NamesOf(list) = names
  BY <1>3 DEF NamesOf
<1>5. CASE Below(t)
  <2>1. Own(t).cmd \in Cmds
    BY <1>1, <1>5 DEF Below
  <2>2. PICK table : table = Params[Own(t).cmd]
    OBVIOUS
  <2>3. table \in Seq(Range(table)) /\ params = Len(table)
    BY <1>5, <2>1, <2>2, WordsAssumption DEF Tables
  <2>4. params \in Nat /\ DOMAIN table = 1..params
    BY <2>3
  <2> DEFINE own == [i \in 1..params |-> table[i].name]
             both == own \o names
  <2>5. ListOf(t) = both
    BY <1>4, <1>5, <2>2, <2>4 DEF ListOf, Listed, Own, Below, Tables
  <2>6. /\ Len(both) = params + subcmds /\ DOMAIN both = 1..(params + subcmds)
        /\ \A i \in 1..params : both[i] = table[i].name
        /\ \A i \in (params + 1)..(params + subcmds) : both[i] = NameOf[list[i - params]]
    <3> DEFINE V == {table[i].name : i \in 1..params} \cup {NameOf[list[i]] : i \in 1..subcmds}
    <3>1. own \in Seq(V) /\ Len(own) = params
      BY <2>4
    <3>2. names \in Seq(V) /\ Len(names) = subcmds
      BY <1>3
    <3> HIDE DEF own, names, V
    <3>3. /\ both \in Seq(V) /\ Len(both) = params + subcmds
          /\ \A i \in 1..params : both[i] = own[i]
          /\ \A i \in (params + 1)..(params + subcmds) : both[i] = names[i - params]
      BY <1>3, <2>4, <3>1, <3>2
    <3>4. \A i \in (params + 1)..(params + subcmds) : i - params \in 1..subcmds
      BY <1>3, <2>4
    <3>5. DOMAIN both = 1..(params + subcmds)
      BY <3>3
    <3> QED
      BY <3>3, <3>4, <3>5 DEF own, names
  <2> HIDE DEF both
  <2>7. both \in Seq(Range(both))
    <3>1. \A i \in 1..(params + subcmds) : both[i] \in Range(both)
      BY <2>6 DEF Range
    <3>2. both = [i \in 1..(params + subcmds) |-> both[i]]
      <4>1. \E S : both \in Seq(S)
        <5> DEFINE V == {table[i].name : i \in 1..params} \cup {NameOf[list[i]] : i \in 1..subcmds}
        <5>1. own \in Seq(V) /\ names \in Seq(V)
          BY <1>3, <2>4
        <5> HIDE DEF V, own, names
        <5>2. own \o names \in Seq(V)
          BY <5>1
        <5> QED
          BY <5>2 DEF both
      <4> QED
        BY <2>6, <4>1
    <3>3. params + subcmds \in Nat
      BY <1>3, <2>4
    <3> QED
      BY <3>1, <3>2, <3>3
  <2>8. \A i \in (params + 1)..(params + subcmds) : i - params \in DOMAIN list
    BY <1>3, <2>4
  <2>9. Own(t).cmd # NoCmd /\ \A i \in 1..params : i \in DOMAIN Params[Own(t).cmd]
    BY <1>5, <2>2, <2>4 DEF Below
  <2> QED
    BY <1>2, <1>3, <2>2, <2>4, <2>5, <2>6, <2>7, <2>8, <2>9 DEF LaidOut
<1>6. CASE ~Below(t)
  <2>1. params = 0 /\ list = CmdList
    BY <1>6 DEF Tables
  <2>2. ListOf(t) = names
    BY <1>4, <1>6, <2>1 DEF ListOf, Listed, Own, Below
  <2>3. names \in Seq(Range(names)) /\ Len(names) = subcmds
    <3>1. \A i \in 1..subcmds : names[i] \in Range(names)
      BY DEF Range
    <3> QED
      BY <1>3, <3>1
  <2>4. \A i \in (params + 1)..(params + subcmds) : i - params = i /\ i \in 1..subcmds
    BY <1>3, <2>1
  <2>5. params + subcmds = subcmds /\ 1..params = {}
    BY <1>3, <2>1
  <2>6. \A i \in 1..subcmds : names[i] = NameOf[list[i]]
    OBVIOUS
  <2> HIDE DEF names
  <2> QED
    BY <1>2, <1>3, <2>1, <2>2, <2>3, <2>4, <2>5, <2>6 DEF LaidOut
<1> QED
  BY <1>5, <1>6

-----------------------------------------------------------------------------
(* The loop of completion_matches.                                         *)

\* The first k common words, and what a beginning of the list has to offer.
Upto(t, k, i) == SubSeq(CommonOf(t), 1, k) \o Among(SubSeq(ListOf(t), 1, i), Wanted(t))

\* The names handed out are those up to the place where the generator is: matched says how
\* many of the common words, and the list has its turn when there are no more of these.
Offering(t, names, index, words) ==
    \E k \in 0..Len(CommonOf(t)) :
        /\ names = Upto(t, k, index)
        /\ Own(t).cmd = NoCmd => words = {CommonOf(t)[j] : j \in 1..k}
        /\ k < Len(CommonOf(t)) => index = 0

\* CommonLeft, for any terminal.
LeftCommon(t, words) ==
    IF Own(t).cmd # NoCmd THEN <<>>
    ELSE Among(CommonOffered(t.buf, PlaceOf(t)), CommonWords \ words)

LEMMA StartOffers ==
    ASSUME NEW t, ListOf(t) \in Seq(Range(ListOf(t))), NEW words, Own(t).cmd = NoCmd => words = {}
    PROVE  Offering(t, <<>>, 0, words)
<1>1. CommonOf(t) \in Seq(CommonWords)
  BY CommonOfIs
<1>2. SubSeq(CommonOf(t), 1, 0) = <<>>
  BY <1>1
<1>3. Among(SubSeq(ListOf(t), 1, 0), Wanted(t)) = <<>>
  BY AmongWhole
<1>4. Upto(t, 0, 0) = <<>>
  BY <1>2, <1>3 DEF Upto
<1>5. 0 \in 0..Len(CommonOf(t)) /\ {CommonOf(t)[j] : j \in 1..0} = {}
  BY <1>1
<1> QED
  BY <1>4, <1>5 DEF Offering

LEMMA LeftIs ==
    ASSUME NEW t, NEW k \in 0..Len(CommonOf(t)), NEW words,
           Own(t).cmd = NoCmd => words = {CommonOf(t)[j] : j \in 1..k}
    PROVE  /\ k = Len(CommonOf(t)) => LeftCommon(t, words) = <<>>
           /\ k < Len(CommonOf(t)) =>
                  /\ Own(t).cmd = NoCmd /\ k + 1 \in 1..Len(CommonOf(t))
                  /\ LeftCommon(t, words) # <<>>
                  /\ Head(LeftCommon(t, words)) = CommonOf(t)[k + 1]
<1>1. CASE Own(t).cmd # NoCmd
  <2>1. CommonOf(t) = <<>> /\ LeftCommon(t, words) = <<>>
    BY <1>1 DEF CommonOf, LeftCommon
  <2>2. Len(CommonOf(t)) = 0
    BY <2>1
  <2> QED
    BY <2>1, <2>2
<1>2. CASE Own(t).cmd = NoCmd
  <2>1. PICK all, S : all = CommonOf(t) /\ S = CommonWords \ words
    OBVIOUS
  <2>2. LeftCommon(t, words) = Among(all, S)
    BY <1>2, <2>1 DEF LeftCommon, CommonOf
  <2>3. all \in Seq(CommonWords) /\ NoRepetition(all)
    BY <2>1, CommonOfIs
  <2>4. PICK n \in Nat : n = Len(all) /\ k \in 0..n
    BY <2>1, <2>3
  <2>5. words = {all[j] : j \in 1..k}
    BY <1>2, <2>1
  <2>6. \A i \in 1..k : all[i] \notin S
    BY <2>1, <2>5
  <2>7. CASE k = n
    <3>1. Among(all, S) = <<>>
      BY <2>3, <2>4, <2>6, <2>7, AmongHead
    <3> QED
      BY <2>1, <2>2, <2>4, <2>7, <3>1
  <2>8. CASE k < n
    <3>1. PICK m \in 1..n : m = k + 1 /\ 1..(m - 1) = 1..k
      BY <2>4, <2>8
    <3>2. all[m] \in CommonWords
      BY <2>3, <2>4, <3>1
    <3>3. all[m] \notin words
      <4> SUFFICES ASSUME NEW j \in 1..k, all[m] = all[j]
                   PROVE  FALSE
        BY <2>5
      <4>1. j \in 1..n /\ j # m
        BY <2>4, <3>1
      <4> QED
        BY <2>3, <2>4, <3>1, <4>1 DEF NoRepetition
    <3>4. all[m] \in S /\ \A i \in 1..(m - 1) : all[i] \notin S
      BY <2>1, <2>6, <3>1, <3>2, <3>3
    <3>5. Among(all, S) # <<>> /\ Head(Among(all, S)) = all[m]
      BY <2>3, <2>4, <3>1, <3>4, AmongHead
    <3> QED
      BY <1>2, <2>1, <2>2, <2>4, <2>8, <3>1, <3>5
  <2> QED
    BY <2>1, <2>4, <2>7, <2>8
<1> QED
  BY <1>1, <1>2

\* One of the common words more.
LEMMA CommonWordOffered ==
    ASSUME NEW t, ListOf(t) \in Seq(Range(ListOf(t))), NEW names, NEW index, NEW words,
           Offering(t, names, index, words), LeftCommon(t, words) # <<>>,
           NEW next, next = Head(LeftCommon(t, words))
    PROVE  /\ Offering(t, Append(names, next), index, words \cup {next})
           /\ next \in CommonWords
<1>1. PICK k \in 0..Len(CommonOf(t)) :
          /\ names = Upto(t, k, index)
          /\ Own(t).cmd = NoCmd => words = {CommonOf(t)[j] : j \in 1..k}
          /\ k < Len(CommonOf(t)) => index = 0
  BY DEF Offering
<1>2. PICK all : all = CommonOf(t)
  OBVIOUS
<1>3. all \in Seq(CommonWords)
  BY <1>2, CommonOfIs
<1>4. PICK n \in Nat : n = Len(all) /\ k \in 0..n
  BY <1>2, <1>3
<1>5. k < n /\ Own(t).cmd = NoCmd /\ next = all[k + 1] /\ index = 0
  <2>1. k # Len(CommonOf(t))
    BY <1>1, LeftIs
  <2>2. k < Len(CommonOf(t))
    BY <1>2, <1>4, <2>1
  <2> QED
    BY <1>1, <1>2, <1>4, <2>2, LeftIs
<1>6. PICK m \in 1..n : m = k + 1
  BY <1>4, <1>5
<1>7. next \in CommonWords
  BY <1>3, <1>4, <1>5, <1>6
<1>8. Among(SubSeq(ListOf(t), 1, 0), Wanted(t)) = <<>>
  BY AmongWhole
<1>9. Append(SubSeq(all, 1, k) \o <<>>, next) = SubSeq(all, 1, m) \o <<>>
  <2>1. PICK before : before = SubSeq(all, 1, k)
    OBVIOUS
  <2>2. before \in Seq(CommonWords) /\ Len(before) = k /\ \A i \in 1..k : before[i] = all[i]
    BY <1>3, <1>4, <2>1
  <2>3. Append(before, next) = SubSeq(all, 1, m)
    <3>1. Append(before, next) = [i \in 1..(k + 1) |-> IF i = k + 1 THEN next ELSE before[i]]
      BY <1>4, <1>7, <2>2, AppendIs
    <3>2. SubSeq(all, 1, m) = [i \in 1..m |-> all[i]]
      BY <1>3, <1>4, <1>6
    <3>3. \A i \in 1..m : (IF i = k + 1 THEN next ELSE before[i]) = all[i]
      BY <1>4, <1>5, <1>6, <2>2
    <3> QED
      BY <1>6, <3>1, <3>2, <3>3
  <2>4. SubSeq(all, 1, m) \in Seq(CommonWords)
    BY <1>3, <1>4, <1>6
  <2>5. before \o <<>> = before /\ SubSeq(all, 1, m) \o <<>> = SubSeq(all, 1, m)
    BY <2>2, <2>4
  <2> QED
    BY <2>1, <2>3, <2>5
<1>10. Append(names, next) = Upto(t, m, index)
  BY <1>1, <1>2, <1>5, <1>8, <1>9 DEF Upto
<1>11. words \cup {next} = {all[j] : j \in 1..m}
  <2>1. words = {all[j] : j \in 1..k}
    BY <1>1, <1>2, <1>5
  <2>2. \A j \in 1..m : j \in 1..k \/ j = m
    BY <1>4, <1>6
  <2>3. m \in 1..m /\ \A j \in 1..k : j \in 1..m
    BY <1>4, <1>6
  <2>4. next = all[m]
    BY <1>5, <1>6
  <2>5. words \cup {next} \subseteq {all[j] : j \in 1..m}
    BY <2>1, <2>3, <2>4, Zenon
  <2>6. \A j \in 1..m : all[j] \in words \cup {next}
    BY <2>1, <2>2, <2>4, Zenon
  <2> QED
    BY <2>5, <2>6
<1>12. m \in 0..Len(CommonOf(t))
  BY <1>2, <1>4
<1> QED
  BY <1>2, <1>5, <1>7, <1>10, <1>11, <1>12 DEF Offering

\* One of the list's names more, those in between not being wanted.
LEMMA ListedNameOffered ==
    ASSUME NEW t, ListOf(t) \in Seq(Range(ListOf(t))), NEW names, NEW words,
           NEW index \in 0..Len(ListOf(t)), Offering(t, names, index, words),
           LeftCommon(t, words) = <<>>,
           NEW i \in (index + 1)..Len(ListOf(t)), ListOf(t)[i] \in Wanted(t),
           \A j \in (index + 1)..(i - 1) : ListOf(t)[j] \notin Wanted(t)
    PROVE  Offering(t, Append(names, ListOf(t)[i]), i, words)
<1>1. PICK k \in 0..Len(CommonOf(t)) :
          /\ names = Upto(t, k, index)
          /\ Own(t).cmd = NoCmd => words = {CommonOf(t)[j] : j \in 1..k}
          /\ k < Len(CommonOf(t)) => index = 0
  BY DEF Offering
<1>2. CommonOf(t) \in Seq(CommonWords)
  BY CommonOfIs
<1>3. k = Len(CommonOf(t))
  <2>1. ~(k < Len(CommonOf(t)))
    BY <1>1, LeftIs
  <2> QED
    BY <1>2, <2>1
<1>4. PICK list, S, U : list = ListOf(t) /\ S = Wanted(t) /\ U = Range(ListOf(t))
  OBVIOUS
<1>5. list \in Seq(U) /\ index \in 0..Len(list) /\ i \in 1..Len(list) /\ list[i] \in S
  BY <1>4
<1>6. Among(SubSeq(list, 1, i - 1), S) = Among(SubSeq(list, 1, index), S)
  <2>1. i - 1 \in index..Len(list)
    BY <1>4, <1>5
  <2>2. \A j \in (index + 1)..(i - 1) : list[j] \notin S
    BY <1>4
  <2> QED
    BY <1>5, <2>1, <2>2, AmongSkips
<1>7. Among(SubSeq(list, 1, i), S) = Append(Among(SubSeq(list, 1, index), S), list[i])
  BY <1>5, <1>6, AmongUpto
<1>8. PICK before, kept, W : /\ before = SubSeq(CommonOf(t), 1, k)
                             /\ kept = Among(SubSeq(list, 1, index), S) /\ W = CommonWords \cup U
  OBVIOUS
<1>9. before \in Seq(W) /\ kept \in Seq(W) /\ list[i] \in W
  <2>1. before \in Seq(CommonWords)
    BY <1>2, <1>8
  <2>2. SubSeq(list, 1, index) \in Seq(U)
    BY <1>5
  <2>3. kept \in Seq({x \in U : x \in S})
    BY <1>8, <2>2, AmongIs
  <2>4. list[i] \in U
    BY <1>5
  <2> QED
    BY <1>8, <2>1, <2>3, <2>4
<1>10. Append(before \o kept, list[i]) = before \o Append(kept, list[i])
  <2>1. <<list[i]>> \in Seq(W)
    BY <1>9
  <2>2. Append(kept, list[i]) = kept \o <<list[i]>>
    BY <1>9
  <2>3. before \o kept \in Seq(W)
    BY <1>9
  <2>4. Append(before \o kept, list[i]) = (before \o kept) \o <<list[i]>>
    BY <1>9, <2>3
  <2>5. (before \o kept) \o <<list[i]>> = before \o (kept \o <<list[i]>>)
    BY <1>9, <2>1
  <2> QED
    BY <2>2, <2>4, <2>5
<1>11. Append(names, list[i]) = Upto(t, k, i)
  BY <1>1, <1>4, <1>7, <1>8, <1>10 DEF Upto
<1> QED
  BY <1>1, <1>3, <1>4, <1>11 DEF Offering

\* When the rest of the list is not wanted, all that is has been handed out.
LEMMA AllOffered ==
    ASSUME NEW t, ListOf(t) \in Seq(Range(ListOf(t))), NEW names, NEW words,
           NEW index \in 0..Len(ListOf(t)), Offering(t, names, index, words),
           LeftCommon(t, words) = <<>>, ~Done(t), ~None(t),
           \A j \in (index + 1)..Len(ListOf(t)) : ListOf(t)[j] \notin Wanted(t)
    PROVE  names = Answer(t)
<1>1. PICK k \in 0..Len(CommonOf(t)) :
          /\ names = Upto(t, k, index)
          /\ Own(t).cmd = NoCmd => words = {CommonOf(t)[j] : j \in 1..k}
  BY DEF Offering
<1>2. CommonOf(t) \in Seq(CommonWords)
  BY CommonOfIs
<1>3. k = Len(CommonOf(t))
  <2>1. ~(k < Len(CommonOf(t)))
    BY <1>1, LeftIs
  <2> QED
    BY <1>2, <2>1
<1>4. SubSeq(CommonOf(t), 1, k) = CommonOf(t)
  BY <1>2, <1>3
<1>5. PICK n \in Nat : n = Len(ListOf(t))
  OBVIOUS
<1>6. Among(SubSeq(ListOf(t), 1, index), Wanted(t)) = Among(ListOf(t), Wanted(t))
  <2>1. n \in index..Len(ListOf(t)) /\ \A j \in (index + 1)..n : ListOf(t)[j] \notin Wanted(t)
    BY <1>5
  <2>2. Among(SubSeq(ListOf(t), 1, n), Wanted(t)) = Among(SubSeq(ListOf(t), 1, index), Wanted(t))
    BY <2>1, AmongSkips
  <2>3. Among(SubSeq(ListOf(t), 1, n), Wanted(t)) = Among(ListOf(t), Wanted(t))
    BY <1>5, AmongWhole
  <2> QED
    BY <2>2, <2>3
<1>7. names = CommonOf(t) \o Among(ListOf(t), Wanted(t))
  BY <1>1, <1>4, <1>6 DEF Upto
<1>8. NamesOffered(t.buf, t.pos, PlaceOf(t)) = CommonOf(t) \o Among(ListOf(t), Wanted(t))
  BY DEF NamesOffered, None, CommonOf, ListOf, Wanted, Own
<1> QED
  BY <1>7, <1>8 DEF Answer, Matches, Done, Own

-----------------------------------------------------------------------------
(* The invariant.                                                          *)

Busy(s) == phase[s] \in {"starting", "searching"}

\* What is asked of the threads: a completion begins when no other is under way.
OneAtATime == \A s, t \in Sessions : Busy(s) /\ Busy(t) => s = t

StateInv ==
    /\ DOMAIN term = Sessions /\ DOMAIN matches = Sessions
    /\ active_cmd \in [Sessions -> Cmds \cup {NoCmd}]
    /\ phase \in [Sessions -> {"editing", "starting", "searching", "returned"}]
    /\ param_num \in Nat /\ subcmd_num \in Nat /\ list_index \in 0..(param_num + subcmd_num)
    /\ matched \subseteq CommonWords

\* The statics are those of the session that searches.
SearchInv(s) ==
    /\ ~Done(term[s]) /\ ~None(term[s])
    /\ active_cmd[s] = Own(term[s]).cmd
    /\ Tables(term[s], param_num, subcmd_num, cmdlist)
    /\ Offering(term[s], matches[s], list_index, matched)

SessionInv(s) ==
    /\ TermOK(term[s])
    /\ phase[s] = "starting" => matches[s] = <<>> /\ ~Done(term[s])
    /\ phase[s] = "searching" => SearchInv(s)
    /\ phase[s] = "returned" => matches[s] = Answer(term[s])

CompletionInv == StateInv /\ \A s \in Sessions : SessionInv(s)

\* What another session's completer does while this one is not in its own.
LEMMA OthersKeep ==
    ASSUME NEW s \in Sessions, SessionInv(s), ~(phase[s] = "searching") \/ UNCHANGED staticVars,
           term'[s] = term[s], active_cmd'[s] = active_cmd[s], matches'[s] = matches[s],
           phase'[s] = phase[s]
    PROVE  SessionInv(s)'
<1>1. CASE phase[s] = "searching"
  <2>1. SearchInv(s)'
    BY <1>1 DEF SessionInv, SearchInv, staticVars
  <2> QED
    BY <1>1, <2>1 DEF SessionInv
<1>2. CASE phase[s] # "searching"
  BY <1>2 DEF SessionInv
<1> QED
  BY <1>1, <1>2

\* A step of one session, as the others see it.
LEMMA StepAdds ==
    ASSUME CompletionInv, NEW s \in Sessions, SessionInv(s)', StateInv',
           \A t \in Sessions \ {s} :
               /\ term'[t] = term[t] /\ active_cmd'[t] = active_cmd[t]
               /\ matches'[t] = matches[t] /\ phase'[t] = phase[t],
           (OneAtATime /\ Busy(s)) \/ UNCHANGED staticVars
    PROVE  CompletionInv'
<1>1. ASSUME NEW t \in Sessions \ {s}
      PROVE  SessionInv(t)'
  <2>1. ~(phase[t] = "searching") \/ UNCHANGED staticVars
    BY DEF OneAtATime, Busy
  <2>2. SessionInv(t)
    BY DEF CompletionInv
  <2> QED
    BY <2>1, <2>2, OthersKeep
<1> QED
  BY <1>1 DEF CompletionInv

\* values_generator offers something only when it says that nothing else is to be offered.
LEMMA NothingUnlessDone ==
    ASSUME NEW b, NEW pos, NEW c, ~Values(b, pos, c).done
    PROVE  Values(b, pos, c).matches = <<>>
<1>1. CASE c = NoCmd
  BY <1>1 DEF Values
<1>2. CASE c # NoCmd
  BY <1>2 DEF Values
<1> QED
  BY <1>1, <1>2

LEMMA TabKeepsInv ==
    ASSUME CompletionInv, NEW s \in Sessions, Tab(s)
    PROVE  CompletionInv'
<1>1. PICK line \in Lines : \E pos \in 0..Len(line) :
          LET b      == Buffer(line)
              cmd    == FindActiveCmd(b, pos).cmd
              values == Values(b, pos, cmd)
          IN  /\ term' = [term EXCEPT ![s] = [buf |-> b, pos |-> pos]]
              /\ active_cmd' = [active_cmd EXCEPT ![s] = cmd]
              /\ matches' = [matches EXCEPT ![s] = values.matches]
              /\ phase' = [phase EXCEPT ![s] = IF values.done THEN "returned" ELSE "starting"]
  BY DEF Tab
<1>2. PICK pos \in 0..Len(line) :
          /\ term' = [term EXCEPT ![s] = [buf |-> Buffer(line), pos |-> pos]]
          /\ active_cmd' = [active_cmd EXCEPT ![s] = FindActiveCmd(Buffer(line), pos).cmd]
          /\ matches' = [matches EXCEPT ![s] =
                            Values(Buffer(line), pos, FindActiveCmd(Buffer(line), pos).cmd).matches]
          /\ phase' = [phase EXCEPT ![s] =
                          IF Values(Buffer(line), pos, FindActiveCmd(Buffer(line), pos).cmd).done
                          THEN "returned" ELSE "starting"]
  BY <1>1
<1>3. PICK t : t = [buf |-> Buffer(line), pos |-> pos]
  OBVIOUS
<1>4. t.buf = Buffer(line) /\ t.pos = pos /\ TermOK(t)
  BY <1>3 DEF TermOK
<1>5. Own(t) \in Searches /\ Own(t).cmd \in Cmds \cup {NoCmd}
  BY <1>4, TermIs DEF Searches
<1>6. PICK v : v = Values(t.buf, t.pos, Own(t).cmd)
  OBVIOUS
<1>7. /\ term' = [term EXCEPT ![s] = t] /\ active_cmd' = [active_cmd EXCEPT ![s] = Own(t).cmd]
      /\ matches' = [matches EXCEPT ![s] = v.matches]
      /\ phase' = [phase EXCEPT ![s] = IF v.done THEN "returned" ELSE "starting"]
  BY <1>2, <1>3, <1>4, <1>6 DEF Own
<1>8. UNCHANGED staticVars
  BY DEF Tab
<1>9. StateInv'
  BY <1>5, <1>7, <1>8 DEF CompletionInv, StateInv, staticVars
<1>10. term'[s] = t /\ matches'[s] = v.matches /\ phase'[s] = IF v.done THEN "returned" ELSE "starting"
  BY <1>7 DEF CompletionInv, StateInv
<1>11. SessionInv(s)'
  <2>1. CASE v.done
    <3>1. v.matches = Answer(t)
      BY <1>6, <2>1 DEF Answer, Matches, Own
    <3> QED
      BY <1>4, <1>10, <2>1, <3>1 DEF SessionInv
  <2>2. CASE ~v.done
    <3>1. v.matches = <<>> /\ ~Done(t)
      BY <1>6, <2>2, NothingUnlessDone DEF Done
    <3> QED
      BY <1>4, <1>10, <2>2, <3>1 DEF SessionInv
  <2> QED
    BY <2>1, <2>2
<1>12. \A u \in Sessions \ {s} :
           /\ term'[u] = term[u] /\ active_cmd'[u] = active_cmd[u]
           /\ matches'[u] = matches[u] /\ phase'[u] = phase[u]
  BY <1>7 DEF CompletionInv, StateInv
<1> QED
  BY <1>8, <1>9, <1>11, <1>12, StepAdds

LEMMA EmptyLineIs == TermOK(EmptyLine)
<1>1. 0 \in 0..Len(<<>>)
  OBVIOUS
<1> QED
  BY <1>1 DEF TermOK, EmptyLine

LEMMA EditKeepsInv ==
    ASSUME CompletionInv, NEW s \in Sessions, Edit(s)
    PROVE  CompletionInv'
<1>1. StateInv' /\ UNCHANGED staticVars
  BY DEF CompletionInv, StateInv, Edit, staticVars
<1>2. term'[s] = EmptyLine /\ phase'[s] = "editing"
  BY DEF CompletionInv, StateInv, Edit
<1>3. SessionInv(s)'
  BY <1>2, EmptyLineIs DEF SessionInv
<1>4. \A u \in Sessions \ {s} :
          /\ term'[u] = term[u] /\ active_cmd'[u] = active_cmd[u]
          /\ matches'[u] = matches[u] /\ phase'[u] = phase[u]
  BY DEF Edit, CompletionInv, StateInv
<1> QED
  BY <1>1, <1>3, <1>4, StepAdds

LEMMA StartKeepsInv ==
    ASSUME CompletionInv, OneAtATime, NEW s \in Sessions, StartGenerator(s)
    PROVE  CompletionInv'
<1>1. PICK t : t = term[s]
  OBVIOUS
<1>2. phase[s] = "starting" /\ TermOK(t) /\ matches[s] = <<>> /\ ~Done(t)
  BY <1>1 DEF StartGenerator, CompletionInv, SessionInv
<1>3. Own(t).cmd \in Cmds \cup {NoCmd}
  BY <1>2, TermIs DEF Searches
<1>4. /\ active_cmd' = [active_cmd EXCEPT ![s] = Own(t).cmd]
      /\ list_index' = 0
      /\ cmdlist' = IF Below(t) THEN SubCmds[Own(t).cmd] ELSE CmdList
      /\ param_num' = IF Below(t) THEN Len(Params[Own(t).cmd]) ELSE 0
      /\ subcmd_num' = IF None(t) THEN 0 ELSE Len(cmdlist')
      /\ matched' = IF Own(t).cmd = NoCmd /\ ~None(t) THEN {} ELSE matched
      /\ phase' = [phase EXCEPT ![s] = IF None(t) THEN "returned" ELSE "searching"]
      /\ UNCHANGED <<term, matches>>
  BY <1>1 DEF StartGenerator, Own, Below, None, PlaceOf, At
<1>5. PICK list, params : /\ list = IF Below(t) THEN SubCmds[Own(t).cmd] ELSE CmdList
                          /\ params = IF Below(t) THEN Len(Params[Own(t).cmd]) ELSE 0
  OBVIOUS
<1>6. PICK subcmds : subcmds = Len(list)
  OBVIOUS
<1>7. Tables(t, params, subcmds, list)
  BY <1>5, <1>6 DEF Tables
<1>8. params \in Nat /\ subcmds \in Nat /\ ListOf(t) \in Seq(Range(ListOf(t)))
  BY <1>2, <1>7, ListOfIs DEF LaidOut
<1>9. /\ cmdlist' = list /\ param_num' = params
      /\ subcmd_num' = IF None(t) THEN 0 ELSE subcmds
  BY <1>4, <1>5, <1>6
<1>10. StateInv'
  <2>1. param_num' \in Nat /\ subcmd_num' \in Nat
    BY <1>8, <1>9
  <2>2. list_index' \in 0..(param_num' + subcmd_num')
    <3>1. \A x, y \in Nat : 0 \in 0..(x + y)
      OBVIOUS
    <3>2. list_index' = 0
      BY <1>4
    <3> QED
      BY <2>1, <3>1, <3>2, Zenon
  <2>3. matched' \subseteq CommonWords
    BY <1>4 DEF CompletionInv, StateInv
  <2>4. /\ DOMAIN term' = Sessions /\ DOMAIN matches' = Sessions
        /\ active_cmd' \in [Sessions -> Cmds \cup {NoCmd}]
        /\ phase' \in [Sessions -> {"editing", "starting", "searching", "returned"}]
    BY <1>3, <1>4 DEF CompletionInv, StateInv
  <2> QED
    BY <2>1, <2>2, <2>3, <2>4 DEF StateInv
<1>11. /\ term'[s] = t /\ matches'[s] = <<>> /\ active_cmd'[s] = Own(t).cmd
       /\ phase'[s] = IF None(t) THEN "returned" ELSE "searching"
  BY <1>1, <1>2, <1>4 DEF CompletionInv, StateInv
<1>12. CASE None(t)
  <2>1. Answer(t) = <<>>
    BY <1>2, <1>12 DEF Answer, Matches, NamesOffered, None, Done, Own
  <2>2. SessionInv(s)'
    BY <1>2, <1>11, <1>12, <2>1 DEF SessionInv
  <2> QED
    BY <1>2, <1>4, <1>10, <2>2, StepAdds DEF Busy, CompletionInv, StateInv
<1>13. CASE ~None(t)
  <2>1. Own(t).cmd = NoCmd => matched' = {}
    BY <1>4, <1>13
  <2>2. PICK words : words = matched'
    OBVIOUS
  <2>3. Offering(t, <<>>, 0, words)
    BY <1>8, <2>1, <2>2, StartOffers
  <2>4. Tables(t, param_num', subcmd_num', cmdlist')
    BY <1>7, <1>9, <1>13
  <2>5. Offering(term'[s], matches'[s], list_index', matched')
    BY <1>4, <1>11, <2>2, <2>3
  <2>6. SearchInv(s)'
    BY <1>2, <1>11, <1>13, <2>4, <2>5 DEF SearchInv
  <2>7. SessionInv(s)'
    BY <1>2, <1>11, <1>13, <2>6 DEF SessionInv
  <2> QED
    BY <1>2, <1>4, <1>10, <2>7, StepAdds DEF Busy, CompletionInv, StateInv
<1> QED
  BY <1>12, <1>13

LEMMA CommonLeftIs ==
    ASSUME NEW s, active_cmd[s] = Own(term[s]).cmd
    PROVE  CommonLeft(s) = LeftCommon(term[s], matched)
BY DEF CommonLeft, LeftCommon, At, PlaceOf

LEMMA GenerateCommonKeepsInv ==
    ASSUME CompletionInv, OneAtATime, NEW s \in Sessions, GenerateCommon(s)
    PROVE  CompletionInv'
<1>1. PICK t, next, words : t = term[s] /\ next = Head(CommonLeft(s)) /\ words = matched
  OBVIOUS
<1>2. phase[s] = "searching" /\ SearchInv(s) /\ TermOK(t)
  BY <1>1 DEF GenerateCommon, CompletionInv, SessionInv
<1>3. CommonLeft(s) = LeftCommon(t, words)
  BY <1>1, <1>2, CommonLeftIs DEF SearchInv
<1>4. /\ matched' = words \cup {next}
      /\ matches' = [matches EXCEPT ![s] = Append(matches[s], next)]
      /\ UNCHANGED <<term, active_cmd, phase, param_num, subcmd_num, cmdlist, list_index>>
      /\ LeftCommon(t, words) # <<>> /\ next = Head(LeftCommon(t, words))
  BY <1>1, <1>3 DEF GenerateCommon, Found
<1>5. ListOf(t) \in Seq(Range(ListOf(t)))
  BY <1>1, <1>2, ListOfIs DEF SearchInv, LaidOut
<1>6. Offering(t, matches[s], list_index, words)
  BY <1>1, <1>2 DEF SearchInv
<1>7. Offering(t, Append(matches[s], next), list_index, words \cup {next}) /\ next \in CommonWords
  BY <1>4, <1>5, <1>6, CommonWordOffered
<1>8. matches'[s] = Append(matches[s], next)
  BY <1>4 DEF CompletionInv, StateInv
<1>9. SearchInv(s)'
  <2>1. Offering(term'[s], matches'[s], list_index', matched')
    BY <1>1, <1>4, <1>7, <1>8
  <2> QED
    BY <1>2, <1>4, <2>1 DEF SearchInv
<1>10. SessionInv(s)'
  BY <1>1, <1>2, <1>4, <1>9 DEF SessionInv
<1>11. StateInv'
  <2>1. words \cup {next} \subseteq CommonWords
    BY <1>1, <1>7 DEF CompletionInv, StateInv
  <2> QED
    BY <1>4, <2>1 DEF CompletionInv, StateInv
<1>12. \A u \in Sessions \ {s} :
           /\ term'[u] = term[u] /\ active_cmd'[u] = active_cmd[u]
           /\ matches'[u] = matches[u] /\ phase'[u] = phase[u]
  BY <1>4 DEF CompletionInv, StateInv
<1> QED
  BY <1>2, <1>10, <1>11, <1>12, StepAdds DEF Busy

\* What stands in the tables at the places that are left.
LEMMA LeftInTables ==
    ASSUME StateInv, NEW s \in Sessions, TermOK(term[s]), SearchInv(s)
    PROVE  /\ ListOf(term[s]) \in Seq(Range(ListOf(term[s])))
           /\ Len(ListOf(term[s])) = param_num + subcmd_num
           /\ \A i \in Left : InTables(s, i) /\ NameAt(s, i) = ListOf(term[s])[i]
           /\ \A i \in Left : i \in OfferedAt(s) <=> ListOf(term[s])[i] \in Wanted(term[s])
<1>1. PICK t, n, m, list : t = term[s] /\ n = param_num /\ m = subcmd_num /\ list = cmdlist
  OBVIOUS
<1>2. TermOK(t) /\ Tables(t, n, m, list) /\ active_cmd[s] = Own(t).cmd
  BY <1>1 DEF SearchInv
<1>3. /\ n \in Nat /\ m \in Nat /\ list \in Seq(Cmds)
      /\ ListOf(t) \in Seq(Range(ListOf(t))) /\ Len(ListOf(t)) = n + m
      /\ \A i \in 1..n :
             /\ Own(t).cmd # NoCmd /\ i \in DOMAIN Params[Own(t).cmd]
             /\ ListOf(t)[i] = Params[Own(t).cmd][i].name
      /\ \A i \in (n + 1)..(n + m) :
             i - n \in DOMAIN list /\ ListOf(t)[i] = NameOf[list[i - n]]
  <2>1. LaidOut(t, n, m, list)
    BY <1>2, ListOfIs
  <2> QED
    BY <2>1 DEF LaidOut
<1>4. list_index \in Nat
  BY DEF StateInv
<1>5. ASSUME NEW i \in Left
      PROVE  InTables(s, i) /\ NameAt(s, i) = ListOf(t)[i] /\ i \in 1..(n + m)
  <2>1. i \in 1..(n + m)
    BY <1>1, <1>3, <1>4 DEF Left
  <2>2. CASE i <= n
    <3>1. i \in 1..n
      BY <1>3, <2>1, <2>2
    <3> QED
      BY <1>1, <1>2, <1>3, <2>1, <2>2, <3>1 DEF InTables, NameAt
  <2>3. CASE ~(i <= n)
    <3>1. i \in (n + 1)..(n + m)
      BY <1>3, <2>1, <2>3
    <3> QED
      BY <1>1, <1>3, <2>1, <2>3, <3>1 DEF InTables, NameAt
  <2> QED
    BY <2>2, <2>3
<1>6. \A i \in Left : ListOf(t)[i] \in Range(ListOf(t))
  <2>1. \A i \in 1..(n + m) : i \in DOMAIN ListOf(t)
    BY <1>3
  <2> QED
    BY <1>5, <2>1 DEF Range
<1>7. ASSUME NEW i \in Left
      PROVE  i \in OfferedAt(s) <=> ListOf(t)[i] \in Wanted(t)
  <2>1. i \in OfferedAt(s) <=> Offers(t.buf, t.pos, PlaceOf(t), NameAt(s, i))
    BY <1>1 DEF OfferedAt, PlaceOf, At
  <2>2. ListOf(t)[i] \in Wanted(t) <=> Offers(t.buf, t.pos, PlaceOf(t), ListOf(t)[i])
    BY <1>6 DEF Wanted
  <2> QED
    BY <1>5, <2>1, <2>2
<1> QED
  BY <1>1, <1>3, <1>5, <1>7

LEMMA GenerateKeepsInv ==
    ASSUME CompletionInv, OneAtATime, NEW s \in Sessions, Generate(s)
    PROVE  CompletionInv'
<1>1. PICK t, words, i : t = term[s] /\ words = matched /\ i = Min(OfferedAt(s))
  OBVIOUS
<1>2. phase[s] = "searching" /\ SearchInv(s) /\ TermOK(t) /\ StateInv
  BY <1>1 DEF Generate, Searching, CompletionInv, SessionInv
<1>3. CommonLeft(s) = LeftCommon(t, words)
  BY <1>1, <1>2, CommonLeftIs DEF SearchInv
<1>4. LeftCommon(t, words) = <<>> /\ OfferedAt(s) # {}
  BY <1>3 DEF Generate, Searching
<1>5. PICK index, n : index = list_index /\ n = param_num + subcmd_num
  OBVIOUS
<1>6. index \in 0..n /\ n \in Nat /\ Left = (index + 1)..n
  BY <1>2, <1>5 DEF StateInv, Left
<1>7. /\ ListOf(t) \in Seq(Range(ListOf(t))) /\ Len(ListOf(t)) = n
      /\ \A j \in Left : NameAt(s, j) = ListOf(t)[j]
      /\ \A j \in Left : j \in OfferedAt(s) <=> ListOf(t)[j] \in Wanted(t)
  BY <1>1, <1>2, <1>5, LeftInTables
<1>8. i \in OfferedAt(s) /\ \A j \in OfferedAt(s) : i <= j
  <2>1. OfferedAt(s) \subseteq Nat
    BY <1>6 DEF OfferedAt
  <2>2. \E x \in OfferedAt(s) : \A y \in OfferedAt(s) : x <= y
    BY <1>4, <2>1, LeastNumber
  <2> QED
    BY <1>1, <2>2 DEF Min
<1>9. i \in Left
  BY <1>8 DEF OfferedAt
<1>10. i \in (index + 1)..n /\ ListOf(t)[i] \in Wanted(t)
  BY <1>6, <1>7, <1>8, <1>9
<1>11. \A j \in (index + 1)..(i - 1) : ListOf(t)[j] \notin Wanted(t)
  <2> SUFFICES ASSUME NEW j \in (index + 1)..(i - 1)
               PROVE  ListOf(t)[j] \notin Wanted(t)
    OBVIOUS
  <2>1. j \in Left /\ ~(i <= j)
    BY <1>6, <1>10
  <2> QED
    BY <1>7, <1>8, <2>1
<1>12. Offering(t, matches[s], index, words)
  BY <1>1, <1>2, <1>5 DEF SearchInv
<1>13. Offering(t, Append(matches[s], ListOf(t)[i]), i, words)
  <2>1. index \in 0..Len(ListOf(t)) /\ i \in (index + 1)..Len(ListOf(t))
    BY <1>6, <1>7, <1>10
  <2> QED
    BY <1>4, <1>7, <1>10, <1>11, <1>12, <2>1, ListedNameOffered
<1>14. /\ matches' = [matches EXCEPT ![s] = Append(matches[s], ListOf(t)[i])]
       /\ list_index' = i
       /\ UNCHANGED <<term, active_cmd, phase, param_num, subcmd_num, cmdlist, matched>>
  <2>1. NameAt(s, i) = ListOf(t)[i]
    BY <1>7, <1>9
  <2> QED
    BY <1>1, <2>1 DEF Generate, Found
<1>15. matches'[s] = Append(matches[s], ListOf(t)[i])
  BY <1>2, <1>14 DEF StateInv
<1>16. SearchInv(s)'
  <2>1. Offering(term'[s], matches'[s], list_index', matched')
    BY <1>1, <1>13, <1>14, <1>15
  <2> QED
    BY <1>2, <1>14, <2>1 DEF SearchInv
<1>17. SessionInv(s)'
  BY <1>1, <1>2, <1>14, <1>16 DEF SessionInv
<1>18. StateInv'
  <2>1. i \in 0..n
    BY <1>6, <1>10
  <2>2. list_index' \in 0..(param_num' + subcmd_num')
    BY <1>5, <1>14, <2>1
  <2> QED
    BY <1>2, <1>14, <2>2 DEF StateInv
<1>19. \A u \in Sessions \ {s} :
           /\ term'[u] = term[u] /\ active_cmd'[u] = active_cmd[u]
           /\ matches'[u] = matches[u] /\ phase'[u] = phase[u]
  BY <1>2, <1>14 DEF StateInv
<1> QED
  BY <1>2, <1>17, <1>18, <1>19, StepAdds DEF Busy

LEMMA NoMoreKeepsInv ==
    ASSUME CompletionInv, OneAtATime, NEW s \in Sessions, NoMore(s)
    PROVE  CompletionInv'
<1>1. PICK t, words : t = term[s] /\ words = matched
  OBVIOUS
<1>2. phase[s] = "searching" /\ SearchInv(s) /\ TermOK(t) /\ StateInv
  BY <1>1 DEF NoMore, Searching, CompletionInv, SessionInv
<1>3. CommonLeft(s) = LeftCommon(t, words)
  BY <1>1, <1>2, CommonLeftIs DEF SearchInv
<1>4. LeftCommon(t, words) = <<>> /\ OfferedAt(s) = {}
  BY <1>3 DEF NoMore, Searching
<1>5. PICK index, n : index = list_index /\ n = param_num + subcmd_num
  OBVIOUS
<1>6. index \in 0..n /\ n \in Nat /\ Left = (index + 1)..n
  BY <1>2, <1>5 DEF StateInv, Left
<1>7. /\ ListOf(t) \in Seq(Range(ListOf(t))) /\ Len(ListOf(t)) = n
      /\ \A j \in Left : j \in OfferedAt(s) <=> ListOf(t)[j] \in Wanted(t)
  BY <1>1, <1>2, <1>5, LeftInTables
<1>8. \A j \in (index + 1)..Len(ListOf(t)) : ListOf(t)[j] \notin Wanted(t)
  BY <1>4, <1>6, <1>7
<1>9. Offering(t, matches[s], index, words) /\ ~Done(t) /\ ~None(t)
  BY <1>1, <1>2, <1>5 DEF SearchInv
<1>10. matches[s] = Answer(t)
  <2>1. index \in 0..Len(ListOf(t))
    BY <1>6, <1>7
  <2> QED
    BY <1>4, <1>7, <1>8, <1>9, <2>1, AllOffered
<1>11. /\ list_index' = param_num + subcmd_num
       /\ phase' = [phase EXCEPT ![s] = "returned"]
       /\ UNCHANGED <<term, active_cmd, matches, param_num, subcmd_num, cmdlist, matched>>
  BY DEF NoMore
<1>12. phase'[s] = "returned"
  BY <1>2, <1>11 DEF StateInv
<1>13. SessionInv(s)'
  <2>1. matches'[s] = Answer(term'[s]) /\ TermOK(term'[s])
    BY <1>1, <1>2, <1>10, <1>11
  <2> QED
    BY <1>12, <2>1 DEF SessionInv
<1>14. StateInv'
  <2>1. list_index' \in 0..(param_num' + subcmd_num')
    BY <1>5, <1>6, <1>11
  <2>2. phase' \in [Sessions -> {"editing", "starting", "searching", "returned"}]
    BY <1>2, <1>11 DEF StateInv
  <2> QED
    BY <1>2, <1>11, <2>1, <2>2 DEF StateInv
<1>15. \A u \in Sessions \ {s} :
           /\ term'[u] = term[u] /\ active_cmd'[u] = active_cmd[u]
           /\ matches'[u] = matches[u] /\ phase'[u] = phase[u]
  BY <1>2, <1>11 DEF StateInv
<1> QED
  BY <1>2, <1>13, <1>14, <1>15, StepAdds DEF Busy

LEMMA InitEstablishesInv == CompletionInit => CompletionInv
<1> SUFFICES ASSUME CompletionInit
             PROVE  CompletionInv
  OBVIOUS
<1>1. StateInv
  BY DEF CompletionInit, StateInv
<1>2. ASSUME NEW s \in Sessions
      PROVE  SessionInv(s)
  <2>1. term[s] = EmptyLine /\ phase[s] = "editing"
    BY DEF CompletionInit
  <2> QED
    BY <2>1, EmptyLineIs DEF SessionInv
<1> QED
  BY <1>1, <1>2 DEF CompletionInv

LEMMA CompletionStepKeepsInv ==
    CompletionInv /\ OneAtATime /\ [CompletionNext]_completionVars => CompletionInv'
<1> SUFFICES ASSUME CompletionInv, OneAtATime, [CompletionNext]_completionVars
             PROVE  CompletionInv'
  OBVIOUS
<1>1. CASE CompletionNext
  <2>1. PICK s \in Sessions : Tab(s) \/ Completes(s) \/ Edit(s)
    BY <1>1 DEF CompletionNext
  <2>2. CASE Tab(s)
    BY <2>2, TabKeepsInv
  <2>3. CASE StartGenerator(s)
    BY <2>3, StartKeepsInv
  <2>4. CASE GenerateCommon(s)
    BY <2>4, GenerateCommonKeepsInv
  <2>5. CASE Generate(s)
    BY <2>5, GenerateKeepsInv
  <2>6. CASE NoMore(s)
    BY <2>6, NoMoreKeepsInv
  <2>7. CASE Edit(s)
    BY <2>7, EditKeepsInv
  <2> QED
    BY <2>1, <2>2, <2>3, <2>4, <2>5, <2>6, <2>7 DEF Completes
<1>2. CASE UNCHANGED completionVars
  <2>1. UNCHANGED <<term, active_cmd, matches, phase, list_index, param_num, subcmd_num, cmdlist, matched>>
    BY <1>2 DEF completionVars, staticVars
  <2>2. StateInv'
    BY <2>1 DEF CompletionInv, StateInv
  <2>3. ASSUME NEW s \in Sessions
        PROVE  SessionInv(s)'
    <3>1. SessionInv(s)
      BY DEF CompletionInv
    <3> QED
      BY <2>1, <3>1, OthersKeep DEF staticVars
  <2> QED
    BY <2>2, <2>3 DEF CompletionInv
<1> QED
  BY <1>1, <1>2

LEMMA InvImpliesTypes == CompletionInv => CompletionTypeOK
<1> SUFFICES ASSUME CompletionInv
             PROVE  CompletionTypeOK
  OBVIOUS
<1>1. ASSUME NEW s \in Sessions
      PROVE  DOMAIN term[s].buf = 0..MaxLen /\ term[s].pos \in 0..StrEnd(term[s].buf)
  <2>1. TermOK(term[s])
    BY DEF CompletionInv, SessionInv
  <2> QED
    BY <2>1, TermIs DEF BufOK
<1>2. ASSUME NEW s \in Sessions, phase[s] = "searching"
      PROVE  \A i \in Left : InTables(s, i)
  <2>1. StateInv /\ TermOK(term[s]) /\ SearchInv(s)
    BY <1>2 DEF CompletionInv, SessionInv
  <2> QED
    BY <2>1, LeftInTables
<1> QED
  BY <1>1, <1>2 DEF CompletionInv, StateInv, CompletionTypeOK

LEMMA InvImpliesOffers == CompletionInv => OffersOwnMatches
BY DEF CompletionInv, SessionInv, OffersOwnMatches, Answer, PlaceOf, At

-----------------------------------------------------------------------------
(* Theorems.                                                               *)

LEMMA InvHolds == CompletionSpec /\ []OneAtATime => []CompletionInv
<1>1. CompletionInit => CompletionInv
  BY InitEstablishesInv
<1>2. CompletionInv /\ OneAtATime /\ [CompletionNext]_completionVars => CompletionInv'
  BY CompletionStepKeepsInv
<1> QED
  BY <1>1, <1>2, PTL DEF CompletionSpec

\* With one completion at a time, command_generator never looks outside the tables it goes
\* through, whatever the completions before left in its statics.
THEOREM CompletionTypeCorrect == CompletionSpec /\ []OneAtATime => []CompletionTypeOK
<1>1. CompletionInv => CompletionTypeOK
  BY InvImpliesTypes
<1> QED
  BY <1>1, InvHolds, PTL

\* With one completion at a time, every Tab is answered with what the session's own line
\* calls for, whichever session pressed it and whatever was completed before.
THEOREM CompletionOffersOwn == CompletionSpec /\ []OneAtATime => []OffersOwnMatches
<1>1. CompletionInv => OffersOwnMatches
  BY InvImpliesOffers
<1> QED
  BY <1>1, InvHolds, PTL

\* A program with a single session has one completion at a time.
THEOREM OneSessionOffersOwn ==
    ASSUME \A s, t \in Sessions : s = t
    PROVE  CompletionSpec => [](CompletionTypeOK /\ OffersOwnMatches)
<1>1. OneAtATime
  BY DEF OneAtATime
<1>2. []OneAtATime
  BY <1>1, PTL
<1> QED
  BY <1>2, CompletionTypeCorrect, CompletionOffersOwn, PTL

=============================================================================
