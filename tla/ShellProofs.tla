---------------------------- MODULE ShellProofs -----------------------------
(***************************************************************************)
(* Theorems about module Shell, for every command table, every set of      *)
(* characters and every longest line.                                      *)
(***************************************************************************)
EXTENDS Shell, LineEditorProofs

-----------------------------------------------------------------------------
(* Words in a buffer.                                                      *)

Byte == Chars \cup {Nul}

\* What readline leaves in the buffer ends with a NUL at the last place at the latest.
BufOK(b) == b \in [Places -> Byte] /\ b[MaxLen] = Nul

LEMMA ByteAtIs ==
    ASSUME NEW b, BufOK(b), NEW i \in Nat
    PROVE  ByteAt(b, i) \in Byte /\ (i >= MaxLen => ByteAt(b, i) = Nul)
<1>1. MaxLen \in Nat
  BY EditorAssumption
<1>2. DOMAIN b = 0..MaxLen
  BY DEF BufOK, Places
<1>3. Nul \in Byte
  BY DEF Byte
<1>4. CASE i \in 0..MaxLen
  BY <1>1, <1>2, <1>4 DEF ByteAt, BufOK, Places
<1>5. CASE i \notin 0..MaxLen
  BY <1>1, <1>2, <1>3, <1>5 DEF ByteAt
<1> QED
  BY <1>4, <1>5

LEMMA WordEndIs ==
    ASSUME NEW b, BufOK(b), NEW i \in 0..(MaxLen + 1)
    PROVE  /\ WordEnd(b, i) \in i..(MaxLen + 1) /\ (i <= MaxLen => WordEnd(b, i) <= MaxLen)
           /\ ByteAt(b, WordEnd(b, i)) \in {Blank, Nul}
           /\ \A k \in i..(WordEnd(b, i) - 1) : ByteAt(b, k) \notin {Blank, Nul}
<1> DEFINE Good(j) == ByteAt(b, j) \in {Blank, Nul}
                      /\ \A k \in i..(j - 1) : ~(ByteAt(b, k) \in {Blank, Nul})
           T == {k \in Nat : ByteAt(b, k) \in {Blank, Nul}}
           last == IF i <= MaxLen THEN MaxLen ELSE MaxLen + 1
           e == WordEnd(b, i)
<1>1. MaxLen \in Nat
  BY EditorAssumption
<1>2. i \in Nat /\ last \in Nat /\ i <= last /\ last >= MaxLen /\ last <= MaxLen + 1
  BY <1>1
<1>3. last \in T
  BY <1>2, ByteAtIs
<1>4. PICK j \in i..last : j \in T /\ \A k \in i..(j - 1) : k \notin T
  <2> HIDE DEF T, last
  <2> QED
    BY <1>2, <1>3, FirstPlace
<1>5. Good(j) /\ j \in i..(i + MaxLen + 1)
  BY <1>1, <1>2, <1>4
<1>6. e = CHOOSE x \in i..(i + MaxLen + 1) : Good(x)
  BY DEF WordEnd, FirstFrom
<1>7. e \in i..(i + MaxLen + 1) /\ Good(e)
  <2> HIDE DEF Good, e
  <2> QED
    BY <1>5, <1>6
<1>8. e <= j
  <2> SUFFICES ASSUME j < e
               PROVE  FALSE
    BY <1>2, <1>7
  <2>1. j \in i..(e - 1)
    BY <1>2, <1>7
  <2> QED
    BY <1>5, <1>7, <2>1
<1> QED
  BY <1>1, <1>2, <1>7, <1>8

LEMMA NextWordIs ==
    ASSUME NEW b, BufOK(b), NEW i \in 0..(MaxLen + 1),
           NEW w, w = NextWord(b, i)
    PROVE  /\ w.start \in i..(MaxLen + 1) /\ w.end \in w.start..(MaxLen + 1)
           /\ i <= MaxLen => w.end <= MaxLen
           /\ ByteAt(b, w.start) # Blank
           /\ \A k \in i..(w.start - 1) : ByteAt(b, k) = Blank
           /\ ByteAt(b, w.end) \in {Blank, Nul}
           /\ \A k \in w.start..(w.end - 1) : ByteAt(b, k) \notin {Blank, Nul}
<1> DEFINE Good(j) == ByteAt(b, j) # Blank /\ \A k \in i..(j - 1) : ~(ByteAt(b, k) # Blank)
           T == {k \in Nat : ByteAt(b, k) # Blank}
           last == IF i <= MaxLen THEN MaxLen ELSE MaxLen + 1
           s == CHOOSE x \in i..(i + MaxLen + 1) : Good(x)
<1>1. MaxLen \in Nat /\ Nul # Blank
  BY EditorAssumption
<1>2. i \in Nat /\ last \in Nat /\ i <= last /\ last >= MaxLen /\ last <= MaxLen + 1
  BY <1>1
<1>3. last \in T
  BY <1>1, <1>2, ByteAtIs
<1>4. PICK j \in i..last : j \in T /\ \A k \in i..(j - 1) : k \notin T
  <2> HIDE DEF T, last
  <2> QED
    BY <1>2, <1>3, FirstPlace
<1>5. Good(j) /\ j \in i..(i + MaxLen + 1)
  BY <1>1, <1>2, <1>4
<1>6. w = [start |-> s, end |-> WordEnd(b, s)]
  BY DEF NextWord, FirstFrom
<1>7. s \in i..(i + MaxLen + 1) /\ Good(s)
  <2> HIDE DEF Good
  <2> QED
    BY <1>5
<1> HIDE DEF s
<1>8. s <= j
  <2> SUFFICES ASSUME j < s
               PROVE  FALSE
    BY <1>2, <1>7
  <2>1. j \in i..(s - 1)
    BY <1>2, <1>7
  <2> QED
    BY <1>5, <1>7, <2>1
<1>9. s \in i..(MaxLen + 1) /\ s \in 0..(MaxLen + 1) /\ (i <= MaxLen => s <= MaxLen)
  BY <1>1, <1>2, <1>7, <1>8
<1>10. w.start = s /\ w.end = WordEnd(b, s)
  BY <1>6
<1> QED
  BY <1>7, <1>9, <1>10, WordEndIs

-----------------------------------------------------------------------------
(* The search for the command.                                             *)

LEMMA SearchDescends ==
    ASSUME NEW b, BufOK(b), NEW search \in Searches, Hit(b, search)
    PROVE  /\ Descend(b, search) \in Searches
           /\ Descend(b, search).cmd \in Cmds
           /\ Descend(b, search).at > search.at
<1> DEFINE i == search.at
           w == NextWord(b, i)
           list == ListBelow(search.cmd)
           hits == Hits(b, search)
<1>1. MaxLen \in Nat /\ i \in 0..(MaxLen + 1) /\ search.cmd \in Cmds \cup {NoCmd}
  BY EditorAssumption DEF Searches
<1>2. /\ w.start \in i..(MaxLen + 1) /\ w.end \in w.start..(MaxLen + 1)
      /\ i <= MaxLen => w.end <= MaxLen
  <2> HIDE DEF w
  <2> QED
    BY <1>1, NextWordIs DEF w
<1>3. w.start < w.end
  BY DEF Hit, IsWord
<1> HIDE DEF w, i
<1>4. w.end \in 0..MaxLen /\ i + (w.end - w.start) + 1 \in 0..(MaxLen + 1)
      /\ i + (w.end - w.start) + 1 > i
  BY <1>1, <1>2, <1>3
<1>5. list \in Seq(Cmds)
  BY <1>1, ShellAssumption DEF ListBelow
<1>6. hits # {} /\ hits \subseteq DOMAIN list /\ hits \subseteq Nat
  BY <1>5 DEF Hit, Hits, Named
<1>7. Min(hits) \in hits
  <2> HIDE DEF hits
  <2>1. \E x \in hits : \A y \in hits : x <= y
    BY <1>6, LeastNumber
  <2> QED
    BY <2>1 DEF Min
<1>8. list[Min(hits)] \in Cmds
  BY <1>5, <1>6, <1>7
<1>9. Descend(b, search) = [at |-> i + (w.end - w.start) + 1, cmd |-> list[Min(hits)],
                            next |-> w.end]
  BY DEF Descend, ResumesAt, w, i
<1> HIDE DEF list, hits
<1> QED
  BY <1>4, <1>8, <1>9 DEF Searches, i

\* What find_active_cmd finds from each place on.
FoundBy(b, p) ==
    CHOOSE f : f = [search \in Searches |->
                       IF ~Hit(b, search) THEN search
                       ELSE IF Descend(b, search).next = Descend(b, search).at + p
                            THEN Descend(b, search)
                            ELSE f[Descend(b, search)]]

LineStart == [at |-> 0, cmd |-> NoCmd, next |-> 0]

LEMMA FoundIs ==
    ASSUME NEW b, BufOK(b), NEW p
    PROVE  /\ FindActiveCmd(b, p) = FoundBy(b, p)[LineStart]
           /\ \A x \in Searches :
                  FoundBy(b, p)[x] = IF ~Hit(b, x) THEN x
                                     ELSE IF Descend(b, x).next = Descend(b, x).at + p
                                          THEN Descend(b, x)
                                          ELSE FoundBy(b, p)[Descend(b, x)]
<1> DEFINE S == Searches
           F(f) == [search \in S |->
                       IF ~Hit(b, search) THEN search
                       ELSE IF Descend(b, search).next = Descend(b, search).at + p
                            THEN Descend(b, search)
                            ELSE f[Descend(b, search)]]
           stops == {x \in S : ~Hit(b, x) \/ Descend(b, x).next = Descend(b, x).at + p}
           val == [x \in S |-> IF ~Hit(b, x) THEN x ELSE Descend(b, x)]
           next == [x \in S |-> Descend(b, x)]
           step == [x \in S \X S |-> x[2]]
           mu == [x \in S |-> (MaxLen + 1) - x.at]
           found == CHOOSE f : f = F(f)
<1>1. MaxLen \in Nat
  BY EditorAssumption
<1>2. mu \in [S -> Nat]
  BY <1>1 DEF Searches
<1>3. val \in [S -> S] /\ step \in StepsBack(S, S)
  BY SearchDescends DEF StepsBack
<1>4. ASSUME NEW x \in S \ stops
      PROVE  next[x] \in S /\ mu[next[x]] < mu[x]
  <2>1. Hit(b, x) /\ x \in S /\ next[x] = Descend(b, x)
    OBVIOUS
  <2>2. Descend(b, x) \in S /\ Descend(b, x).at > x.at
    BY <2>1, SearchDescends
  <2>3. x.at \in Int /\ Descend(b, x).at \in Int
    BY <2>1, <2>2 DEF Searches
  <2> QED
    BY <1>1, <2>1, <2>2, <2>3
<1>5. ASSUME NEW f, f \in [S -> S]
      PROVE  Descends(f, S, stops, val, next, step) => f = F(f)
  <2>1. ASSUME NEW x \in S
        PROVE  (IF x \in stops THEN val[x] ELSE step[<<x, f[next[x]]>>]) = F(f)[x]
    <3>1. CASE ~Hit(b, x)
      BY <3>1
    <3>2. CASE Hit(b, x)
      <4>1. Descend(b, x) \in S
        BY <3>2, SearchDescends
      <4>2. next[x] = Descend(b, x) /\ val[x] = Descend(b, x)
        BY <3>2
      <4>3. f[next[x]] \in S
        BY <1>5, <4>1, <4>2, Zenon
      <4>4. step[<<x, f[next[x]]>>] = f[next[x]]
        BY <4>3
      <4> HIDE DEF val, next, step
      <4> QED
        BY <3>2, <4>2, <4>4
    <3> QED
      BY <3>1, <3>2
  <2>2. F(f) = [x \in S |-> F(f)[x]]
    OBVIOUS
  <2> HIDE DEF F, stops, val, next, step
  <2> QED
    BY <2>1, <2>2 DEF Descends
<1>6. \E f : f = F(f)
  <2>1. \E f : f \in [S -> S] /\ Descends(f, S, stops, val, next, step)
    <3> HIDE DEF S, stops, val, next, step, mu
    <3> QED
      BY <1>2, <1>3, <1>4, DescentExists
  <2> HIDE DEF F, S, stops, val, next, step
  <2> QED
    BY <1>5, <2>1
<1>7. found = F(found)
  <2> HIDE DEF F
  <2> QED
    BY <1>6
<1>8. FindActiveCmd(b, p) = found[LineStart] /\ FoundBy(b, p) = found
  BY DEF FindActiveCmd, FoundBy, LineStart
<1> HIDE DEF found
<1>9. ASSUME NEW x \in S
      PROVE  found[x] = IF ~Hit(b, x) THEN x
                        ELSE IF Descend(b, x).next = Descend(b, x).at + p THEN Descend(b, x)
                             ELSE found[Descend(b, x)]
  BY <1>7
<1> QED
  BY <1>8, <1>9

\* find_active_cmd comes to an end, with a command of the tables or none.
LEMMA FindActiveCmdIs ==
    ASSUME NEW b, BufOK(b), NEW p
    PROVE  /\ FindActiveCmd(b, p) \in Searches
           /\ ~Hit(b, LineStart) => FindActiveCmd(b, p).cmd = NoCmd
<1> DEFINE S == Searches
           mu == [x \in S |-> (MaxLen + 1) - x.at]
           start == LineStart
<1>1. MaxLen \in Nat
  BY EditorAssumption
<1>2. mu \in [S -> Nat]
  BY <1>1 DEF Searches
<1>3. PICK found : found = FoundBy(b, p)
  OBVIOUS
<1>4. FindActiveCmd(b, p) = found[start]
  BY <1>3, FoundIs
<1>5. ASSUME NEW x \in S
      PROVE  found[x] = IF ~Hit(b, x) THEN x
                        ELSE IF Descend(b, x).next = Descend(b, x).at + p THEN Descend(b, x)
                             ELSE found[Descend(b, x)]
  BY <1>3, FoundIs
<1> DEFINE T == {x \in S : found[x] \in S}
<1>6. ASSUME NEW x \in S, \A y \in S : mu[y] < mu[x] => y \in T
       PROVE  x \in T
  <2>1. CASE ~Hit(b, x)
    BY <1>5, <2>1
  <2>2. CASE Hit(b, x)
    <3>1. Descend(b, x) \in S /\ Descend(b, x).at > x.at
      BY <2>2, SearchDescends
    <3>2. mu[Descend(b, x)] < mu[x]
      <4>1. x.at \in Int /\ Descend(b, x).at \in Int
        BY <3>1 DEF Searches
      <4> QED
        BY <1>1, <3>1, <4>1
    <3>3. found[Descend(b, x)] \in S
      BY <1>6, <3>1, <3>2
    <3> QED
      BY <1>5, <2>2, <3>1, <3>3
  <2> QED
    BY <2>1, <2>2
<1>7. S \subseteq T
  <2> HIDE DEF T, S, mu
  <2> QED
    BY <1>2, <1>6, MeasureInduction
<1>8. start \in S /\ start.cmd = NoCmd
  BY <1>1 DEF Searches, LineStart
<1>9. ~Hit(b, start) => found[start] = start
  BY <1>5, <1>8
<1> QED
  BY <1>4, <1>7, <1>8, <1>9

-----------------------------------------------------------------------------
(* The parameters of a Cmdinfo.                                            *)

Param == [name : Names, required : BOOLEAN, numval : Nat, val : {NoVal} \cup Seq(Names)]

Arg == [param : Nat, values : Seq(Seq(Byte))]

\* Each parameter given is one of the table and has its values; the last one has not yet
\* as long as they are read.
ArgsOK(table, args, filling) ==
    /\ args \in Seq(Arg)
    /\ \A j \in 1..Len(args) :
           /\ args[j].param \in DOMAIN table
           /\ IF filling /\ j = Len(args)
              THEN Len(args[j].values) < table[args[j].param].numval
              ELSE Len(args[j].values) = table[args[j].param].numval
    /\ filling => Len(args) > 0

LEMMA NoArgs == ASSUME NEW table PROVE ArgsOK(table, <<>>, FALSE)
BY DEF ArgsOK

LEMMA ArgIsNamed ==
    ASSUME NEW table \in Seq(Param), NEW args, ArgsOK(table, args, FALSE),
           NEW i \in DOMAIN table
    PROVE  ArgsOK(table, Append(args, [param |-> i, values |-> <<>>]), table[i].numval > 0)
<1> DEFINE arg == [param |-> i, values |-> <<>>]
           more == Append(args, arg)
<1>1. i \in Nat /\ table[i].numval \in Nat
  <2>1. i \in Nat /\ table[i] \in Param
    OBVIOUS
  <2> QED
    BY <2>1 DEF Param
<1>2. args \in Seq(Arg) /\ arg \in Arg /\ Len(args) \in Nat
  BY <1>1 DEF ArgsOK, Arg
<1>3. Len(arg.values) = 0 /\ arg.param = i
  OBVIOUS
<1> HIDE DEF arg
<1>4. /\ more \in Seq(Arg) /\ Len(more) = Len(args) + 1 /\ more[Len(args) + 1] = arg
      /\ \A j \in 1..Len(args) : more[j] = args[j]
  BY <1>2
<1> HIDE DEF more
<1>5. ASSUME NEW j \in 1..Len(more)
      PROVE  /\ more[j].param \in DOMAIN table
             /\ IF table[i].numval > 0 /\ j = Len(more)
                THEN Len(more[j].values) < table[more[j].param].numval
                ELSE Len(more[j].values) = table[more[j].param].numval
  <2>1. CASE j = Len(args) + 1
    BY <1>1, <1>2, <1>3, <1>4, <2>1
  <2>2. CASE j # Len(args) + 1
    <3>1. j \in 1..Len(args) /\ j # Len(more)
      BY <1>2, <1>4, <1>5, <2>2
    <3>2. more[j] = args[j]
      BY <1>4, <3>1
    <3> QED
      BY <3>1, <3>2 DEF ArgsOK
  <2> QED
    BY <2>1, <2>2
<1>6. ArgsOK(table, more, table[i].numval > 0)
  BY <1>2, <1>4, <1>5 DEF ArgsOK
<1> QED
  BY <1>6 DEF more, arg

LEMMA ArgIsFilled ==
    ASSUME NEW table \in Seq(Param), NEW args, ArgsOK(table, args, TRUE),
           NEW text \in Seq(Byte),
           NEW n, n = Len(args)
    PROVE  ArgsOK(table, [args EXCEPT ![n].values = Append(@, text)],
                  Len(args[n].values) + 1 < table[args[n].param].numval)
<1> DEFINE old == args[n]
           values == Append(old.values, text)
           new == [old EXCEPT !.values = values]
           more == [args EXCEPT ![n] = new]
<1>1. /\ args \in Seq(Arg) /\ n \in Nat /\ n > 0 /\ n \in 1..Len(args)
      /\ old \in Arg /\ old.param \in DOMAIN table
      /\ Len(old.values) < table[old.param].numval
  BY DEF ArgsOK
<1>2. table[old.param].numval \in Nat /\ old.values \in Seq(Seq(Byte)) /\ old.param \in Nat
  <2> HIDE DEF old
  <2>1. table[old.param] \in Param
    BY <1>1
  <2> QED
    BY <1>1, <2>1 DEF Param, Arg
<1>3. values \in Seq(Seq(Byte)) /\ Len(values) = Len(old.values) + 1 /\ Len(old.values) \in Nat
  BY <1>2
<1>4. more = [args EXCEPT ![n].values = Append(@, text)]
  OBVIOUS
<1> HIDE DEF values
<1>5. new \in Arg /\ new.values = values /\ new.param = old.param
  BY <1>1, <1>3 DEF Arg
<1> HIDE DEF old, new
<1>6. /\ more \in Seq(Arg) /\ Len(more) = n /\ more[n] = new
      /\ \A j \in 1..n : j # n => more[j] = args[j]
  BY <1>1, <1>5
<1> HIDE DEF more
<1>7. ASSUME NEW j \in 1..Len(more)
      PROVE  /\ more[j].param \in DOMAIN table
             /\ IF Len(old.values) + 1 < table[old.param].numval /\ j = Len(more)
                THEN Len(more[j].values) < table[more[j].param].numval
                ELSE Len(more[j].values) = table[more[j].param].numval
  <2>1. CASE j = n
    <3>1. more[j].param = old.param /\ more[j].values = values /\ j = Len(more)
      BY <1>5, <1>6, <2>1, Zenon
    <3>2. PICK full \in Nat : full = table[old.param].numval
      BY <1>2
    <3>3. table[more[j].param].numval = full /\ Len(more[j].values) = Len(old.values) + 1
      BY <1>3, <3>1, <3>2, Zenon
    <3>4. Len(old.values) \in Nat /\ Len(old.values) < full
      BY <1>1, <1>3, <3>2, Zenon
    <3> QED
      BY <1>1, <3>1, <3>2, <3>3, <3>4
  <2>2. CASE j # n
    <3>1. more[j] = args[j] /\ j \in 1..Len(args) /\ j # Len(args)
      BY <1>1, <1>6, <1>7, <2>2
    <3> QED
      BY <1>6, <2>2, <3>1 DEF ArgsOK
  <2> QED
    BY <2>1, <2>2
<1>8. ArgsOK(table, more, Len(old.values) + 1 < table[old.param].numval)
  BY <1>1, <1>6, <1>7 DEF ArgsOK
<1> QED
  BY <1>4, <1>8 DEF old

-----------------------------------------------------------------------------
(* Lists.                                                                  *)

LEMMA PrefixIs ==
    ASSUME NEW S, NEW s \in Seq(S), NEW t \in Seq(S)
    PROVE  IsPrefix(s, t) <=> Len(s) <= Len(t) /\ \A i \in 1..Len(s) : s[i] = t[i]
<1>1. Len(s) \in Nat /\ Len(t) \in Nat
  OBVIOUS
<1>2. CASE Len(s) <= Len(t)
  <2>1. SubSeq(s, 1, Len(s)) = [i \in 1..Len(s) |-> s[i]]
    BY <1>1
  <2>2. SubSeq(t, 1, Len(s)) = [i \in 1..Len(s) |-> t[i]]
    BY <1>1, <1>2
  <2> QED
    BY <1>2, <2>1, <2>2 DEF IsPrefix
<1>3. CASE ~(Len(s) <= Len(t))
  BY <1>3 DEF IsPrefix
<1> QED
  BY <1>2, <1>3

-----------------------------------------------------------------------------
(* What Tab completes.                                                     *)

LEMMA LineIsABuffer ==
    ASSUME LineOK(buf, len, pos), buf[MaxLen] = Nul
    PROVE  /\ BufOK(buf) /\ pos \in Nat /\ len \in Nat /\ pos <= len /\ len <= MaxLen
           /\ MaxLen \in Nat
           /\ \A i \in 0..MaxLen : ByteAt(buf, i) = buf[i]
           /\ \A i \in 0..(len - 1) : buf[i] \in Chars
           /\ buf[len] = Nul
<1>1. MaxLen \in Nat
  BY EditorAssumption
<1>2. BufOK(buf) /\ DOMAIN buf = 0..MaxLen
  BY DEF LineOK, BufOK, Byte, Places
<1>3. pos \in Nat /\ len \in Nat /\ pos <= len /\ len <= MaxLen
  BY <1>1 DEF LineOK, Places
<1>4. buf[len] = Nul /\ \A i \in 0..(len - 1) : buf[i] \in Chars
  BY <1>1, <1>3 DEF LineOK, EndsAt, Places
<1> QED
  BY <1>1, <1>2, <1>3, <1>4 DEF ByteAt

LEMMA StrEndIs ==
    ASSUME LineOK(buf, len, pos), buf[MaxLen] = Nul
    PROVE  StrEnd(buf) = len
<1> DEFINE Good(j) == ByteAt(buf, j) = Nul /\ \A k \in 0..(j - 1) : ~(ByteAt(buf, k) = Nul)
           e == CHOOSE x \in 0..(0 + MaxLen + 1) : Good(x)
<1>1. /\ len \in Nat /\ len <= MaxLen /\ MaxLen \in Nat
      /\ \A i \in 0..MaxLen : ByteAt(buf, i) = buf[i]
      /\ \A i \in 0..(len - 1) : buf[i] \in Chars
      /\ buf[len] = Nul
  BY LineIsABuffer
<1>2. StrEnd(buf) = e
  BY DEF StrEnd, FirstFrom
<1>3. Good(len) /\ len \in 0..(0 + MaxLen + 1)
  BY <1>1, EditorAssumption
<1>4. e \in 0..(0 + MaxLen + 1) /\ Good(e)
  <2> HIDE DEF Good
  <2> QED
    BY <1>3
<1> HIDE DEF e
<1>5. e = len
  <2>1. ~(e < len)
    <3> SUFFICES ASSUME e < len
                 PROVE  FALSE
      OBVIOUS
    <3>1. e \in 0..(len - 1)
      BY <1>1, <1>4
    <3> QED
      BY <1>3, <1>4, <3>1
  <2>2. ~(len < e)
    <3> SUFFICES ASSUME len < e
                 PROVE  FALSE
      OBVIOUS
    <3>1. len \in 0..(e - 1)
      BY <1>1, <1>4
    <3> QED
      BY <1>3, <1>4, <3>1
  <2> QED
    BY <1>1, <1>4, <2>1, <2>2
<1> QED
  BY <1>2, <1>5

\* The place from which Tab completes is where the line editor says.
LEMMA WordStartIs ==
    ASSUME LineOK(buf, len, pos), buf[MaxLen] = Nul,
           NEW p, p = WordStart(buf, pos)
    PROVE  /\ p \in Places /\ WordStartsAt(p)
           /\ p > pos => pos = 0 /\ p = 1 /\ buf[0] = Blank /\ len >= 1
<1>1. /\ pos \in Nat /\ len \in Nat /\ pos <= len /\ len <= MaxLen /\ MaxLen \in Nat
      /\ \A i \in 0..MaxLen : ByteAt(buf, i) = buf[i]
      /\ buf[len] = Nul /\ Nul # Blank
  BY LineIsABuffer, EditorAssumption
<1>2. CASE pos = 0
  <2>1. ByteAt(buf, 0) = buf[0]
    BY <1>1
  <2>2. p = IF buf[0] = Blank THEN 1 ELSE 0
    BY <1>2, <2>1 DEF WordStart
  <2>3. buf[0] = Blank => len >= 1
    BY <1>1
  <2> QED
    BY <1>1, <1>2, <2>2, <2>3 DEF WordStartsAt, Places
<1>3. CASE pos # 0
  <2> DEFINE T == {0} \cup {i \in 1..pos : buf[i - 1] = Blank}
  <2>1. T \subseteq 0..pos /\ T # {}
    BY <1>1
  <2>2. p = Max(T)
    BY <1>3 DEF WordStart
  <2>3. p \in T /\ \A y \in T : p >= y
    <3> HIDE DEF T
    <3>1. \E x \in T : \A y \in T : x >= y
      BY <1>1, <2>1, GreatestNumber
    <3> QED
      BY <2>2, <3>1 DEF Max
  <2>4. p \in 0..pos /\ (p > 0 => buf[p - 1] = Blank)
    BY <1>1, <2>3
  <2>5. ASSUME NEW i \in p..(pos - 1), buf[i] = Blank
        PROVE  FALSE
    <3>1. i + 1 \in 1..pos /\ (i + 1) - 1 = i /\ i + 1 > p /\ i \in Int /\ p \in Int
      BY <1>1, <2>4, <2>5
    <3>2. i + 1 \in T
      BY <2>5, <3>1
    <3> QED
      BY <2>3, <3>1, <3>2
  <2> QED
    BY <1>1, <1>3, <2>4, <2>5 DEF WordStartsAt, Places
<1> QED
  BY <1>2, <1>3

\* What is typed of the word begins the text that values_generator takes for it.
LEMMA PartialHasTyped ==
    ASSUME LineOK(buf, len, pos), buf[MaxLen] = Nul,
           NEW p, p = WordStart(buf, pos), p < pos
    PROVE  \E end \in pos..(MaxLen + 1) : Partial(buf, pos) = Bytes(buf, p, end)
<1> DEFINE E == {e \in 1..(pos - 1) : buf[e - 1] # Blank /\ buf[e] = Blank}
           from == LastWord(buf, pos).end
           w == NextWord(buf, from)
<1>1. /\ pos \in Nat /\ len \in Nat /\ pos <= len /\ len <= MaxLen /\ MaxLen \in Nat
      /\ \A i \in 0..MaxLen : ByteAt(buf, i) = buf[i]
      /\ \A i \in 0..(len - 1) : buf[i] \in Chars
      /\ Nul \notin Chars /\ BufOK(buf)
  BY LineIsABuffer, EditorAssumption
<1>2. p \in Nat /\ (p > 0 => buf[p - 1] = Blank) /\ \A i \in p..(pos - 1) : buf[i] # Blank
  BY <1>1, WordStartIs DEF WordStartsAt, Places
<1>3. from \in {0} \cup E /\ \A y \in E : from >= y
  <2> DEFINE T == {0} \cup E
  <2>1. T \subseteq 0..pos /\ T # {}
    BY <1>1
  <2>2. from = Max(T)
    BY DEF LastWord
  <2> HIDE DEF T, from
  <2>3. \E x \in T : \A y \in T : x >= y
    BY <1>1, <2>1, GreatestNumber
  <2>4. from \in T /\ \A y \in T : from >= y
    BY <2>2, <2>3 DEF Max
  <2> QED
    BY <2>4 DEF T
<1> HIDE DEF from
<1>4. from \in 0..p
  <2>1. CASE from = 0
    BY <1>2, <2>1
  <2>2. CASE from \in E
    <3>1. from \in 1..(pos - 1) /\ buf[from] = Blank
      BY <2>2
    <3>2. from \notin p..(pos - 1)
      BY <1>2, <3>1
    <3> QED
      BY <1>1, <1>2, <3>1, <3>2
  <2> QED
    BY <1>3, <2>1, <2>2
<1>5. ASSUME NEW k \in from..(p - 1)
      PROVE  buf[k] = Blank
  <2> SUFFICES ASSUME buf[k] # Blank
               PROVE  FALSE
    OBVIOUS
  <2> DEFINE T == {m \in Nat : buf[m] = Blank}
  <2>1. k \in Nat /\ k + 1 \in Nat /\ p - 1 \in Nat /\ p > 0 /\ buf[p - 1] = Blank
    BY <1>2, <1>4, <1>5
  <2>2. k # p - 1
    BY <2>1
  <2>3. k + 1 <= p - 1 /\ p - 1 \in T
    BY <1>2, <1>5, <2>1, <2>2
  <2>4. PICK m \in (k + 1)..(p - 1) : m \in T /\ \A x \in (k + 1)..(m - 1) : x \notin T
    <3> HIDE DEF T
    <3> QED
      BY <2>1, <2>3, FirstPlace
  <2>5. buf[m - 1] # Blank
    <3>1. CASE m = k + 1
      BY <2>1, <3>1
    <3>2. CASE m # k + 1
      <4>1. m - 1 \in (k + 1)..(m - 1) /\ m - 1 \in Nat
        BY <2>1, <2>4, <3>2
      <4> QED
        BY <2>4, <4>1
    <3> QED
      BY <3>1, <3>2
  <2>6. m \in E
    <3>1. m \in 1..(pos - 1)
      BY <1>1, <1>2, <2>1, <2>4
    <3> QED
      BY <2>4, <2>5, <3>1
  <2>7. m > from
    BY <1>4, <1>5, <2>1, <2>4
  <2>8. from >= m
    BY <1>3, <2>6
  <2> QED
    BY <1>4, <2>1, <2>4, <2>7, <2>8
<1>6. /\ w.start \in from..(MaxLen + 1) /\ w.end \in w.start..(MaxLen + 1)
      /\ ByteAt(buf, w.start) # Blank
      /\ \A k \in from..(w.start - 1) : ByteAt(buf, k) = Blank
      /\ ByteAt(buf, w.end) \in {Blank, Nul}
  <2>1. from \in 0..(MaxLen + 1)
    BY <1>1, <1>2, <1>4
  <2> HIDE DEF w
  <2> QED
    BY <1>1, <2>1, NextWordIs DEF w
<1> HIDE DEF w
<1>7. w.start = p
  <2>1. ~(w.start < p)
    <3> SUFFICES ASSUME w.start < p
                 PROVE  FALSE
      OBVIOUS
    <3>1. w.start \in from..(p - 1) /\ w.start \in 0..MaxLen
      BY <1>1, <1>2, <1>4, <1>6
    <3> QED
      BY <1>1, <1>5, <1>6, <3>1
  <2>2. ~(p < w.start)
    <3> SUFFICES ASSUME p < w.start
                 PROVE  FALSE
      OBVIOUS
    <3>1. p \in from..(w.start - 1) /\ p \in 0..MaxLen /\ p \in p..(pos - 1)
      BY <1>1, <1>2, <1>4, <1>6
    <3>2. ByteAt(buf, p) = Blank /\ ByteAt(buf, p) = buf[p] /\ buf[p] # Blank
      BY <1>1, <1>2, <1>6, <3>1
    <3> QED
      BY <3>2
  <2> QED
    BY <1>2, <1>4, <1>6, <2>1, <2>2
<1>8. w.end >= pos
  <2> SUFFICES ASSUME w.end < pos
               PROVE  FALSE
    BY <1>1, <1>6, <1>7
  <2>1. w.end \in p..(pos - 1) /\ w.end \in 0..MaxLen /\ w.end \in 0..(len - 1)
    BY <1>1, <1>2, <1>6, <1>7
  <2> QED
    BY <1>1, <1>2, <1>6, <2>1
<1>9. Partial(buf, pos) = Bytes(buf, p, w.end)
  <2>1. Partial(buf, pos) = IF w.start < pos THEN Text(buf, w) ELSE <<>>
    BY DEF Partial, w, from
  <2> QED
    BY <1>7, <2>1 DEF Text
<1>10. w.end \in pos..(MaxLen + 1)
  BY <1>1, <1>6, <1>7, <1>8
<1> QED
  BY <1>9, <1>10

LEMMA BytesAre ==
    ASSUME NEW b, BufOK(b), NEW i \in Nat, NEW j \in Nat
    PROVE  /\ Bytes(b, i, j) \in Seq(Byte)
           /\ i <= j => Len(Bytes(b, i, j)) = j - i
           /\ \A k \in 1..(j - i) : Bytes(b, i, j)[k] = ByteAt(b, i + k - 1)
<1>1. ASSUME NEW k \in 1..(j - i)
      PROVE  ByteAt(b, i + k - 1) \in Byte
  <2>1. i + k - 1 \in Nat
    BY <1>1
  <2> QED
    BY <2>1, ByteAtIs
<1>2. Bytes(b, i, j) = [k \in 1..(j - i) |-> ByteAt(b, i + k - 1)]
  BY DEF Bytes
<1>3. CASE i <= j
  <2>1. j - i \in Nat
    BY <1>3
  <2> QED
    BY <1>1, <1>2, <2>1
<1>4. CASE ~(i <= j)
  <2>1. 1..(j - i) = {}
    BY <1>4
  <2>2. Bytes(b, i, j) = <<>>
    BY <1>2, <2>1
  <2> QED
    BY <1>4, <2>1, <2>2
<1> QED
  BY <1>3, <1>4

LEMMA ShorterPrefix ==
    ASSUME NEW b, BufOK(b), NEW i \in Nat, NEW j \in Nat, NEW k \in Nat, i <= j, j <= k,
           NEW name \in Seq(Byte), IsPrefix(Bytes(b, i, k), name)
    PROVE  IsPrefix(Bytes(b, i, j), name)
<1> DEFINE s == Bytes(b, i, j)
           t == Bytes(b, i, k)
<1>1. /\ s \in Seq(Byte) /\ t \in Seq(Byte) /\ Len(s) = j - i /\ Len(t) = k - i
      /\ \A n \in 1..(j - i) : s[n] = ByteAt(b, i + n - 1)
      /\ \A n \in 1..(k - i) : t[n] = ByteAt(b, i + n - 1)
  <2>1. i <= k
    OBVIOUS
  <2>2. /\ s \in Seq(Byte) /\ Len(s) = j - i
        /\ \A n \in 1..(j - i) : s[n] = ByteAt(b, i + n - 1)
    <3> HIDE DEF t
    <3> QED
      BY BytesAre, Zenon
  <2>3. /\ t \in Seq(Byte) /\ Len(t) = k - i
        /\ \A n \in 1..(k - i) : t[n] = ByteAt(b, i + n - 1)
    <3> HIDE DEF s
    <3> QED
      BY <2>1, BytesAre, Zenon
  <2> QED
    BY <2>2, <2>3, Zenon
<1>2. 1..(j - i) \subseteq 1..(k - i)
  OBVIOUS
<1> HIDE DEF s, t
<1>3. IsPrefix(t, name)
  BY DEF t
<1>4. Len(t) <= Len(name) /\ \A n \in 1..Len(t) : t[n] = name[n]
  BY <1>1, <1>3, PrefixIs
<1>5. Len(s) <= Len(name) /\ \A n \in 1..Len(s) : s[n] = name[n]
  <2>1. Len(s) <= Len(name)
    BY <1>1, <1>4
  <2> QED
    BY <1>1, <1>2, <1>4, <2>1
<1>6. IsPrefix(s, name)
  BY <1>1, <1>5, PrefixIs
<1> QED
  BY <1>6 DEF s

LEMMA NameIsBytes ==
    ASSUME NEW name \in Names
    PROVE  name \in Seq(Byte)
<1>1. name \in Seq(Chars)
  BY EditorAssumption
<1> QED
  BY <1>1 DEF Byte

\* What the matches of module LineEditor are told by.
LEMMA MatchesAtIs ==
    ASSUME LineOK(buf, len, pos), buf[MaxLen] = Nul,
           NEW p, p = WordStart(buf, pos), NEW name \in Names
    PROVE  /\ p <= pos /\ IsPrefix(Bytes(buf, p, pos), name) => name \in MatchesAt(p)
           /\ p > pos /\ len > p /\ IsPrefix(Bytes(buf, p, len), name) => name \in MatchesAt(p)
<1>1. /\ pos \in Nat /\ len \in Nat /\ pos <= len /\ len <= MaxLen /\ MaxLen \in Nat
      /\ \A i \in 0..MaxLen : ByteAt(buf, i) = buf[i]
  BY LineIsABuffer
<1>2. p \in Nat
  BY WordStartIs DEF Places
<1>3. CASE p <= pos
  <2>1. ASSUME NEW i \in 1..(pos - p)
        PROVE  ByteAt(buf, p + i - 1) = buf[p + i - 1]
    BY <1>1, <1>2, <2>1
  <2>2. Bytes(buf, p, pos) = Typed(p)
    BY <2>1 DEF Bytes, Typed
  <2>3. pos >= p
    BY <1>1, <1>2, <1>3
  <2> QED
    BY <1>1, <1>2, <1>3, <2>2, <2>3 DEF MatchesAt
<1>4. CASE p > pos
  <2>1. ASSUME NEW i \in 1..(len - p)
        PROVE  ByteAt(buf, p + i - 1) = buf[p + i - 1]
    BY <1>1, <1>2, <2>1
  <2>2. Bytes(buf, p, len) = [i \in 1..(len - p) |-> buf[p + i - 1]]
    BY <2>1 DEF Bytes
  <2>3. ~(pos >= p) /\ ~(p <= pos)
    BY <1>1, <1>2, <1>4
  <2> QED
    BY <2>2, <2>3 DEF MatchesAt
<1> QED
  BY <1>1, <1>2, <1>3, <1>4

LEMMA OccursIs ==
    ASSUME NEW b, NEW text, Occurs(b, text) # {}
    PROVE  Strstr(b, text) \in Nat
<1> DEFINE S == Occurs(b, text)
<1>1. S \subseteq Nat /\ S # {}
  BY DEF Occurs
<1>2. Strstr(b, text) = CHOOSE i \in S : \A j \in S : i <= j
  BY DEF Strstr
<1> HIDE DEF S
<1>3. \E i \in S : \A j \in S : i <= j
  BY <1>1, LeastNumber
<1> QED
  BY <1>1, <1>2, <1>3

\* Nobody is asked for values at the start of a line, and what is offered there is on the
\* table.
LEMMA ValuesAre ==
    ASSUME LineOK(buf, len, pos), buf[MaxLen] = Nul, NEW c \in Cmds \cup {NoCmd},
           NEW p, p = WordStart(buf, pos),
           Values(buf, pos, c).done
    PROVE  /\ pos > 0
           /\ Values(buf, pos, c).matches \in
                  Seq({name \in Names : IsPrefix(Partial(buf, pos), name)})
<1> DEFINE named == AwaitingValue(buf, pos, c)
           regular == {i \in named : Params[c][i].val # <<>>}
           default == AwaitingDefault(buf, pos, c)
           asking == IF regular # {} THEN regular ELSE default
           values == AskedFor(c, asking)
           asked == {i \in asking : Params[c][i].val # <<>>}
<1>1. c \in Cmds /\ pos \in Nat
  BY LineIsABuffer DEF Values
<1>2. Params[c] \in Seq(Param)
  BY <1>1, ShellAssumption DEF Param
<1>3. named \subseteq DOMAIN Params[c] /\ default \subseteq DOMAIN Params[c]
  BY DEF AwaitingValue, AwaitingDefault
<1>4. pos = 0 => named = {} /\ default = {}
  <2> SUFFICES ASSUME pos = 0
               PROVE  named = {} /\ default = {}
    OBVIOUS
  <2>1. ASSUME NEW text, Occurs(buf, text) # {}
        PROVE  WordDistance(buf, Strstr(buf, text), pos) = 0
    BY <2>1, OccursIs DEF WordDistance
  <2>2. named = {}
    BY <2>1 DEF AwaitingValue
  <2>3. default = {}
    BY <2>1 DEF AwaitingDefault
  <2> QED
    BY <2>2, <2>3
<1>5. c # NoCmd
  BY <1>1, ShellAssumption
<1>6. /\ Values(buf, pos, c).done = (named # {} \/ values # NoVal)
      /\ Values(buf, pos, c).matches =
             IF values = NoVal THEN <<>> ELSE Continuing(values, Partial(buf, pos))
  BY <1>5 DEF Values
<1> HIDE DEF named, default
<1>7. asked \subseteq DOMAIN Params[c] /\ asked \subseteq Nat
  BY <1>2, <1>3
<1>8. values = IF asked = {} THEN NoVal ELSE Params[c][Min(asked)].val
  BY DEF AskedFor
<1>9. asked = {} => values = NoVal
  BY <1>8
<1>10. values = NoVal \/ values \in Seq(Names)
  <2> SUFFICES ASSUME asked # {}
               PROVE  values = NoVal \/ values \in Seq(Names)
    BY <1>9
  <2> HIDE DEF asked, values
  <2>1. \E x \in asked : \A y \in asked : x <= y
    BY <1>7, LeastNumber
  <2>2. Min(asked) \in asked
    BY <2>1 DEF Min
  <2>3. PICK table \in Seq(Param) : table = Params[c]
    BY <1>2
  <2>4. PICK m \in DOMAIN table : m = Min(asked)
    BY <1>7, <2>2, <2>3, Zenon
  <2>5. table[m] \in Param
    OBVIOUS
  <2>6. Params[c][Min(asked)] \in Param
    BY <2>3, <2>4, <2>5, Zenon
  <2> QED
    BY <1>8, <2>6 DEF Param
<1>11. pos > 0
  <2> SUFFICES ASSUME pos = 0
               PROVE  FALSE
    BY <1>1
  <2>1. named = {} /\ default = {}
    BY <1>4
  <2>2. asked = {}
    BY <2>1
  <2> QED
    BY <1>6, <1>9, <2>1, <2>2
<1>12. ASSUME values \in Seq(Names)
       PROVE  Continuing(values, Partial(buf, pos)) \in
                  Seq({name \in Names : IsPrefix(Partial(buf, pos), name)})
  <2> DEFINE S == {value \in Range(values) : IsPrefix(Partial(buf, pos), value)}
  <2> HIDE DEF values
  <2>1. Among(values, S) \in Seq({x \in Names : x \in S})
    <3> HIDE DEF S
    <3> QED
      BY <1>12, AmongIs
  <2>2. {x \in Names : x \in S} \subseteq {name \in Names : IsPrefix(Partial(buf, pos), name)}
    OBVIOUS
  <2>3. Continuing(values, Partial(buf, pos)) = Among(values, S)
    BY DEF Continuing
  <2> HIDE DEF S
  <2> QED
    BY <2>1, <2>2, <2>3
<1> HIDE DEF values
<1> QED
  BY <1>6, <1>10, <1>11, <1>12

\* On a line that is one blank, nothing is offered.
LEMMA BlankLineOffersNothing ==
    ASSUME LineOK(buf, len, pos), buf[MaxLen] = Nul,
           NEW p, p = WordStart(buf, pos), p > pos, ~(len > p)
    PROVE  NothingToOffer(buf, pos, p)
<1> DEFINE w == NextWord(buf, 0)
           first == [at |-> 0, cmd |-> NoCmd, next |-> 0]
<1>1. /\ pos \in Nat /\ len \in Nat /\ len <= MaxLen /\ MaxLen \in Nat /\ BufOK(buf)
      /\ \A i \in 0..MaxLen : ByteAt(buf, i) = buf[i]
      /\ buf[len] = Nul /\ Nul # Blank
  BY LineIsABuffer, EditorAssumption
<1>2. p = 1 /\ buf[0] = Blank /\ len = 1
  <2>1. p = 1 /\ buf[0] = Blank /\ len >= 1
    BY WordStartIs
  <2> QED
    BY <1>1, <2>1
<1>3. ByteAt(buf, 0) = Blank /\ ByteAt(buf, 1) = Nul
  BY <1>1, <1>2
<1>4. /\ w.start \in 0..(MaxLen + 1) /\ w.end \in w.start..(MaxLen + 1)
      /\ ByteAt(buf, w.start) # Blank
      /\ \A k \in 0..(w.start - 1) : ByteAt(buf, k) = Blank
      /\ \A k \in w.start..(w.end - 1) : ByteAt(buf, k) \notin {Blank, Nul}
  <2>1. 0 \in 0..(MaxLen + 1)
    BY <1>1
  <2> HIDE DEF w
  <2> QED
    BY <1>1, <2>1, NextWordIs DEF w
<1> HIDE DEF w
<1>5. w.start = 1
  <2>1. w.start # 0
    BY <1>3, <1>4
  <2>2. ~(w.start > 1)
    <3> SUFFICES ASSUME w.start > 1
                 PROVE  FALSE
      OBVIOUS
    <3>1. 1 \in 0..(w.start - 1)
      BY <1>1, <1>4
    <3> QED
      BY <1>1, <1>3, <1>4, <3>1
  <2> QED
    BY <1>1, <1>4, <2>1, <2>2
<1>6. ~IsWord(w)
  <2> SUFFICES ASSUME w.start < w.end
               PROVE  FALSE
    BY DEF IsWord
  <2>1. 1 \in w.start..(w.end - 1)
    BY <1>1, <1>4, <1>5
  <2> QED
    BY <1>3, <1>4, <2>1
<1>7. ~Hit(buf, first)
  BY <1>6 DEF Hit, w
<1>8. FindActiveCmd(buf, pos).cmd = NoCmd
  BY <1>1, <1>7, FindActiveCmdIs DEF LineStart
<1> QED
  BY <1>6, <1>8 DEF NothingToOffer, w

LEMMA WiderSeq == ASSUME NEW S, NEW T, S \subseteq T, NEW s \in Seq(S) PROVE s \in Seq(T)
OBVIOUS

LEMMA AmongHas ==
    ASSUME NEW U, NEW list \in Seq(U), NEW S, NEW m \in Range(Among(list, S))
    PROVE  m \in S
<1>1. PICK kept : kept = Among(list, S)
  OBVIOUS
<1>2. kept \in Seq({x \in U : x \in S})
  BY <1>1, AmongIs
<1>3. PICK k \in DOMAIN kept : m = kept[k]
  BY <1>1 DEF Range
<1> QED
  BY <1>2, <1>3

LEMMA RangeOfConcat ==
    ASSUME NEW S, NEW s \in Seq(S), NEW t \in Seq(S), NEW m \in Range(s \o t)
    PROVE  m \in Range(s) \/ m \in Range(t)
<1>1. PICK i \in 1..(Len(s) + Len(t)) : m = (s \o t)[i]
  BY DEF Range
<1>2. CASE i <= Len(s)
  BY <1>1, <1>2 DEF Range
<1>3. CASE ~(i <= Len(s))
  <2>1. m = t[i - Len(s)] /\ i - Len(s) \in 1..Len(t)
    BY <1>1, <1>3
  <2> QED
    BY <2>1 DEF Range
<1> QED
  BY <1>2, <1>3

\* The list whose names are offered is on the tables.
LEMMA ListedAre ==
    ASSUME NEW b, BufOK(b), NEW q, NEW found, found = FindActiveCmd(b, q)
    PROVE  /\ Listed(b, q) \in Seq(Names)
           /\ \A m \in Range(Listed(b, q)) :
                  IF found.cmd # NoCmd /\ ByteAt(b, found.next) = Blank
                  THEN \/ \E i \in DOMAIN Params[found.cmd] : m = Params[found.cmd][i].name
                       \/ \E i \in DOMAIN SubCmds[found.cmd] : m = NameOf[SubCmds[found.cmd][i]]
                  ELSE \E i \in DOMAIN CmdList : m = NameOf[CmdList[i]]
<1>1. PICK c : c = found.cmd
  OBVIOUS
<1>2. c \in Cmds \cup {NoCmd}
  BY <1>1, FindActiveCmdIs DEF Searches
<1>3. ASSUME NEW s \in Seq(Cmds)
      PROVE  NamesOf(s) \in Seq(Names) /\ \A m \in Range(NamesOf(s)) : \E i \in DOMAIN s : m = NameOf[s[i]]
  <2>1. \A i \in 1..Len(s) : NameOf[s[i]] \in Names
    BY ShellAssumption
  <2> QED
    BY <2>1 DEF NamesOf, Range
<1>4. CASE c # NoCmd /\ ByteAt(b, found.next) = Blank
  <2>1. PICK table \in Seq(Param), below \in Seq(Cmds) : table = Params[c] /\ below = SubCmds[c]
    BY <1>2, <1>4, ShellAssumption DEF Param
  <2>2. PICK names : names = [i \in DOMAIN table |-> table[i].name]
    OBVIOUS
  <2>3. names \in Seq(Names)
    <3>1. \A i \in 1..Len(table) : table[i] \in Param
      OBVIOUS
    <3>2. \A i \in 1..Len(table) : table[i].name \in Names
      BY <3>1 DEF Param
    <3> QED
      BY <2>2, <3>2
  <2>4. PICK others \in Seq(Names) : others = NamesOf(below)
    BY <1>3
  <2>5. Listed(b, q) = names \o others
    BY <1>1, <1>4, <2>1, <2>2, <2>4, Zenon DEF Listed
  <2>6. names \o others \in Seq(Names)
    BY <2>3
  <2>7. ASSUME NEW m \in Range(names \o others)
        PROVE  \/ \E i \in DOMAIN table : m = table[i].name
               \/ \E i \in DOMAIN below : m = NameOf[below[i]]
    <3>1. m \in Range(names) \/ m \in Range(others)
      BY <2>3, <2>7, RangeOfConcat
    <3>2. m \in Range(names) => \E i \in DOMAIN table : m = table[i].name
      BY <2>2 DEF Range
    <3>3. m \in Range(others) => \E i \in DOMAIN below : m = NameOf[below[i]]
      BY <1>3, <2>4
    <3> QED
      BY <3>1, <3>2, <3>3
  <2> QED
    BY <1>1, <1>4, <2>1, <2>5, <2>6, <2>7
<1>5. CASE ~(c # NoCmd /\ ByteAt(b, found.next) = Blank)
  <2>1. Listed(b, q) = NamesOf(CmdList)
    BY <1>1, <1>5 DEF Listed
  <2>2. CmdList \in Seq(Cmds)
    BY ShellAssumption
  <2>3. Listed(b, q) \in Seq(Names) /\ \A m \in Range(Listed(b, q)) : \E i \in DOMAIN CmdList : m = NameOf[CmdList[i]]
    BY <1>3, <2>1, <2>2
  <2> QED
    BY <1>1, <1>5, <2>3
<1> QED
  BY <1>4, <1>5

\* The completer only offers names that begin with what is typed of the word.
LEMMA TabOffers ==
    ASSUME LineOK(buf, len, pos), buf[MaxLen] = Nul,
           NEW p, p = WordStart(buf, pos)
    PROVE  Matches(buf, pos, p) \in Seq(MatchesAt(p))
<1> DEFINE c == FindActiveCmd(buf, pos).cmd
           found == FindActiveCmd(buf, pos)
<1>1. /\ pos \in Nat /\ len \in Nat /\ pos <= len /\ len <= MaxLen /\ MaxLen \in Nat
      /\ BufOK(buf)
  BY LineIsABuffer
<1>2. p \in Nat
  BY WordStartIs DEF Places
<1>3. c \in Cmds \cup {NoCmd} /\ found \in Searches /\ found.cmd = c
  BY <1>1, FindActiveCmdIs DEF Searches
<1> HIDE DEF c
<1>4. ASSUME NEW name \in Names, p <= pos, NEW end \in Nat, pos <= end,
             IsPrefix(Bytes(buf, p, end), name)
      PROVE  name \in MatchesAt(p)
  <2>1. name \in Seq(Byte)
    BY NameIsBytes
  <2>2. IsPrefix(Bytes(buf, p, pos), name)
    BY <1>1, <1>2, <1>4, <2>1, ShorterPrefix
  <2> QED
    BY <1>4, <2>2, MatchesAtIs
<1>5. ASSUME Values(buf, pos, c).done
      PROVE  Values(buf, pos, c).matches \in Seq(MatchesAt(p))
  <2> DEFINE S == {name \in Names : IsPrefix(Partial(buf, pos), name)}
  <2>1. pos > 0 /\ Values(buf, pos, c).matches \in Seq(S)
    <3> HIDE DEF S
    <3> QED
      BY <1>3, <1>5, ValuesAre DEF S
  <2>2. p <= pos
    BY <1>1, <1>2, <2>1, WordStartIs
  <2>3. ASSUME NEW name \in S
        PROVE  name \in MatchesAt(p)
    <3>1. CASE p = pos
      <4>1. Bytes(buf, p, pos) \in Seq(Byte) /\ Len(Bytes(buf, p, pos)) = 0
        BY <1>1, <1>2, <3>1, BytesAre
      <4>2. name \in Seq(Byte) /\ Len(name) \in Nat /\ 1..0 = {}
        BY <2>3, NameIsBytes
      <4>3. IsPrefix(Bytes(buf, p, pos), name)
        <5> DEFINE s == Bytes(buf, p, pos)
        <5> HIDE DEF s
        <5>1. s \in Seq(Byte) /\ Len(s) = 0
          BY <4>1 DEF s
        <5>2. Len(s) <= Len(name) /\ \A i \in 1..Len(s) : s[i] = name[i]
          BY <4>2, <5>1
        <5>3. IsPrefix(s, name)
          BY <4>2, <5>1, <5>2, PrefixIs
        <5> QED
          BY <5>3 DEF s
      <4> QED
        BY <1>1, <1>4, <2>2, <2>3, <4>3
    <3>2. CASE p # pos
      <4>1. p < pos
        BY <1>1, <1>2, <2>2, <3>2
      <4>2. PICK end \in pos..(MaxLen + 1) : Partial(buf, pos) = Bytes(buf, p, end)
        BY <4>1, PartialHasTyped
      <4>3. name \in Names /\ IsPrefix(Bytes(buf, p, end), name) /\ end \in Nat /\ pos <= end
        BY <1>1, <2>3, <4>2
      <4> QED
        BY <1>4, <2>2, <4>3
    <3> QED
      BY <3>1, <3>2
  <2> HIDE DEF S
  <2> QED
    BY <2>1, <2>3, WiderSeq
<1>6. ASSUME ~NothingToOffer(buf, pos, p)
      PROVE  p > pos => len > p
  BY <1>6, BlankLineOffersNothing
<1>7. ASSUME NEW name \in Names, ~NothingToOffer(buf, pos, p), IsPrefix(Bytes(buf, p, len), name)
      PROVE  name \in MatchesAt(p)
  <2>1. CASE p <= pos
    BY <1>1, <1>4, <1>7, <2>1
  <2>2. CASE p > pos
    BY <1>6, <1>7, <2>2, MatchesAtIs
  <2> QED
    BY <1>1, <1>2, <2>1, <2>2
<1>8. ASSUME ~NothingToOffer(buf, pos, p)
      PROVE  CommonOffered(buf, p) \in Seq(MatchesAt(p))
  <2> DEFINE list == IF HasContexts THEN <<ByeWord, HistoryWord, ExitWord, EndWord>>
                     ELSE <<ByeWord, HistoryWord>>
             S == {name \in CommonWords : IsPrefix(Bytes(buf, p, len), name)}
  <2>1. list \in Seq(Names)
    BY ShellAssumption DEF CommonWords
  <2>2. CommonOffered(buf, p) = Among(list, S)
    BY StrEndIs DEF CommonOffered
  <2> HIDE DEF list
  <2>3. Among(list, S) \in Seq({x \in Names : x \in S})
    <3> HIDE DEF S
    <3> QED
      BY <2>1, AmongIs
  <2>4. {x \in Names : x \in S} \subseteq MatchesAt(p)
    BY <1>7, <1>8
  <2> HIDE DEF S
  <2> QED
    BY <2>2, <2>3, <2>4, WiderSeq
<1>9. Listed(buf, pos) \in Seq(Names)
  BY <1>1, ListedAre
<1>10. ASSUME ~NothingToOffer(buf, pos, p)
       PROVE  Among(Listed(buf, pos), {name \in Range(Listed(buf, pos)) :
                                         Offers(buf, pos, p, name)}) \in Seq(MatchesAt(p))
  <2> DEFINE list == Listed(buf, pos)
             S == {name \in Range(list) : Offers(buf, pos, p, name)}
  <2>1. list \in Seq(Names)
    BY <1>9
  <2> HIDE DEF list
  <2>2. Among(list, S) \in Seq({x \in Names : x \in S})
    <3> HIDE DEF S
    <3> QED
      BY <2>1, AmongIs
  <2>3. ASSUME NEW x \in Names, x \in S
        PROVE  x \in MatchesAt(p)
    <3>1. Fits(buf, pos, p, x)
      BY <2>3 DEF Offers
    <3>2. CASE p <= pos
      BY <1>1, <1>4, <2>3, <3>1, <3>2 DEF Fits
    <3>3. CASE ~(p <= pos)
      <4>1. x = Bytes(buf, p, len)
        BY <3>1, <3>3, StrEndIs DEF Fits
      <4>2. x \in Seq(Byte) /\ Len(x) \in Nat
        BY <2>3, NameIsBytes
      <4>3. IsPrefix(x, x)
        BY <4>2, PrefixIs
      <4> QED
        BY <1>7, <1>10, <2>3, <4>1, <4>3
    <3> QED
      BY <3>2, <3>3
  <2>4. {x \in Names : x \in S} \subseteq MatchesAt(p)
    BY <2>3
  <2> HIDE DEF S
  <2>5. Among(list, S) \in Seq(MatchesAt(p))
    BY <2>2, <2>4, WiderSeq
  <2> QED
    BY <2>5 DEF list, S
<1>11. NamesOffered(buf, pos, p) \in Seq(MatchesAt(p))
  <2>1. CASE NothingToOffer(buf, pos, p)
    BY <2>1 DEF NamesOffered
  <2>2. CASE ~NothingToOffer(buf, pos, p)
    <3> DEFINE common == IF c = NoCmd THEN CommonOffered(buf, p) ELSE <<>>
               listed == Among(Listed(buf, pos), {name \in Range(Listed(buf, pos)) :
                                                    Offers(buf, pos, p, name)})
    <3>1. NamesOffered(buf, pos, p) = common \o listed
      BY <2>2 DEF NamesOffered, c
    <3>2. common \in Seq(MatchesAt(p))
      BY <1>8, <2>2
    <3>3. listed \in Seq(MatchesAt(p))
      BY <1>10, <2>2
    <3> HIDE DEF common, listed
    <3> QED
      BY <3>1, <3>2, <3>3
  <2> QED
    BY <2>1, <2>2
<1>12. Matches(buf, pos, p) = IF Values(buf, pos, c).done THEN Values(buf, pos, c).matches
                              ELSE NamesOffered(buf, pos, p)
  BY DEF Matches, c
<1> QED
  BY <1>5, <1>11, <1>12

-----------------------------------------------------------------------------
(* The keys are the line editor's.                                         *)

LEMMA TabIsAnEditors ==
    ASSUME EditorInv, BufOK(buf), Tab
    PROVE  CompleteWord \/ CompleteCommon \/ CompleteWithNul \/ UNCHANGED editorVars
<1> DEFINE p == WordStart(buf, pos)
           offered == Matches(buf, pos, p)
<1>1. Idle /\ LineOK(buf, len, pos) /\ buf[MaxLen] = Nul
  BY DEF Tab, Idle, EditorInv, BufOK
<1>2. p \in Places /\ WordStartsAt(p) /\ pos \in Int /\ p \in Int
  BY <1>1, WordStartIs, LineIsABuffer DEF Places
<1>3. offered \in Seq(MatchesAt(p))
  BY <1>1, TabOffers
<1>4. InWord <=> ~(pos < p)
  BY <1>2 DEF InWord
<1>5. \A m, n : Untyped(m, n) = SubSeq(m, (pos - p) + 1, n)
  BY DEF Untyped
<1>6. TabNone(offered) \/ TabOne(offered) \/ TabMany(offered) \/ TabManyWithNul(offered)
  BY DEF Tab, TabWith
<1> HIDE DEF p, offered
<1>7. CASE TabNone(offered)
  BY <1>7 DEF TabNone
<1>8. Len(offered) > 0 => /\ offered[1] \in MatchesAt(p) /\ offered[1] \in Range(offered)
                          /\ Range(offered) \in SUBSET MatchesAt(p)
  BY <1>3 DEF Range
<1>9. CASE TabOne(offered)
  <2>1. /\ Len(offered) = 1 /\ len + Len(rest') <= MaxLen
        /\ rest' = Append(IF pos < p THEN <<>>
                          ELSE SubSeq(offered[1], (pos - p) + 1, Len(offered[1])), Blank)
        /\ UNCHANGED <<buf, len, pos, screen, listing, editing, cut>>
    BY <1>4, <1>5, <1>9 DEF TabOne
  <2>2. /\ offered[1] \in MatchesAt(p) /\ p \in Places /\ WordStartsAt(p)
        /\ rest' = Append(IF pos < p THEN <<>>
                          ELSE SubSeq(offered[1], (pos - p) + 1, Len(offered[1])), Blank)
    BY <1>2, <1>8, <2>1
  <2>3. CompleteWord
    BY <1>1, <2>1, <2>2, Zenon DEF CompleteWord
  <2> QED
    BY <2>3
<1>10. CASE TabMany(offered)
  <2>1. PICK n \in 0..Len(offered[1]) :
            /\ CommonIs(n, Range(offered))
            /\ \/ pos >= p /\ rest' = SubSeq(offered[1], (pos - p) + 1, n)
               \/ pos < p /\ \E byte \in Chars : rest' = <<byte>> \o SubSeq(offered[1], 1, n)
    <3>1. PICK n \in 0..Len(offered[1]) :
              /\ CommonIs(n, Range(offered))
              /\ IF InWord THEN rest' = Untyped(offered[1], n)
                 ELSE \E byte \in Chars : rest' = <<byte>> \o SubSeq(offered[1], 1, n)
      BY <1>10, Zenon DEF TabMany
    <3>2. InWord => pos >= p /\ rest' = SubSeq(offered[1], (pos - p) + 1, n)
      <4>1. InWord => pos >= p
        BY <1>2, <1>4
      <4> QED
        BY <1>5, <3>1, <4>1, Zenon
    <3>3. ~InWord => pos < p /\ \E byte \in Chars : rest' = <<byte>> \o SubSeq(offered[1], 1, n)
      BY <1>4, <3>1, Zenon
    <3> QED
      BY <3>1, <3>2, <3>3, Zenon
  <2>2. /\ Len(offered) > 1 /\ len + Len(rest') <= MaxLen /\ listing' = TRUE
        /\ UNCHANGED <<buf, len, pos, screen, editing, cut>>
    BY <1>10 DEF TabMany
  <2>3. /\ offered[1] \in Range(offered) /\ Range(offered) \in SUBSET MatchesAt(p)
        /\ p \in Places /\ WordStartsAt(p)
    BY <1>2, <1>8, <2>2
  <2>4. CompleteCommon
    BY <1>1, <2>1, <2>2, <2>3, Zenon DEF CompleteCommon
  <2> QED
    BY <2>4
<1>11. CASE TabManyWithNul(offered)
  BY <1>1, <1>2, <1>4, <1>8, <1>11 DEF TabManyWithNul, CompleteWithNul
<1> QED
  BY <1>6, <1>7, <1>9, <1>10, <1>11

LEMMA StepsAreEditors ==
    ASSUME EditorInv, BufOK(buf), [ShellNext]_shellVars
    PROVE  [EditorNext]_editorVars
<1>1. CASE UNCHANGED shellVars
  BY <1>1 DEF shellVars
<1>2. CASE StartLine
  BY <1>2 DEF StartLine, EditorNext
<1>3. CASE PlainKey
  BY <1>3 DEF PlainKey, EditorNext
<1>4. CASE Tab
  BY <1>4, TabIsAnEditors DEF EditorNext
<1>5. CASE HelpKey \/ EnterNothing \/ EnterCommand
  BY <1>5 DEF HelpKey, EnterNothing, EnterCommand, EditorNext
<1>6. CASE Runs
  BY <1>6 DEF Runs, CreateCmdinfo, NoMoreWords, TakeName, TakeOther, TakeValue, MissingValue,
     MissingParameter, CallBack, CallbackReturns
<1> QED
  BY <1>1, <1>2, <1>3, <1>4, <1>5, <1>6 DEF ShellNext, Keys

LEMMA LastByteKept ==
    ASSUME EditorInv, BufOK(buf), [EditorNext]_editorVars
    PROVE  BufOK(buf')
<1>1. /\ MaxLen \in Nat /\ MaxLen \in Places /\ buf[MaxLen] = Nul
      /\ EditorInv'
  BY EditorAssumption, EditorStepKeepsInv DEF BufOK, Places
<1>2. buf' \in [Places -> Byte]
  BY <1>1 DEF EditorInv, EditorTypeOK, Byte
<1> SUFFICES buf'[MaxLen] = Nul
  BY <1>2 DEF BufOK
<1>3. editing => /\ len \in Nat /\ pos \in Nat /\ pos <= len /\ len + Len(rest) <= MaxLen
                 /\ Len(rest) \in Nat /\ buf[len] = Nul /\ rest \in Seq(Chars)
  BY <1>1 DEF EditorInv, EditorTypeOK, LineOK, EndsAt, Places
<1>4. ~editing => rest = <<>>
  BY DEF EditorInv
<1>5. ASSUME NEW c, AddChar(c), editing, len < MaxLen
      PROVE  buf'[MaxLen] = Nul
  <2>1. buf' = [i \in Places |->
                   IF i = pos THEN c ELSE IF i \in (pos + 1)..(len + 1) THEN buf[i - 1] ELSE buf[i]]
    BY <1>5 DEF AddChar, ShiftedIn
  <2>2. buf'[MaxLen] = IF MaxLen = pos THEN c
                       ELSE IF MaxLen \in (pos + 1)..(len + 1) THEN buf[MaxLen - 1] ELSE buf[MaxLen]
    BY <1>1, <2>1
  <2>3. MaxLen # pos /\ (MaxLen \in (pos + 1)..(len + 1) => MaxLen - 1 = len)
    BY <1>1, <1>3, <1>5
  <2> QED
    BY <1>1, <1>3, <1>5, <2>2, <2>3
<1>6. CASE UNCHANGED buf
  BY <1>1, <1>6
<1>7. ASSUME NEW c \in Chars, Type(c)
      PROVE  buf'[MaxLen] = Nul
  BY <1>5, <1>7 DEF Type, Idle
<1>8. CASE Complete
  <2>1. rest # <<>> /\ editing /\ AddChar(Head(rest))
    BY <1>4, <1>8 DEF Complete
  <2>2. Len(rest) > 0
    BY <1>3, <2>1
  <2> QED
    BY <1>1, <1>3, <1>5, <2>1, <2>2
<1>9. CASE Backspace \/ Delete
  <2>1. \E p \in {pos, pos - 1} : buf' = ShiftedOut(p)
    BY <1>9 DEF Backspace, Delete
  <2>2. editing /\ MaxLen \notin len..(len - 1) /\ ~(MaxLen <= len - 1)
    BY <1>1, <1>3, <1>9 DEF Backspace, Delete, Idle
  <2>3. ASSUME NEW p \in Int, buf' = ShiftedOut(p)
        PROVE  buf'[MaxLen] = buf[MaxLen]
    <3>1. MaxLen \notin p..(len - 1)
      BY <1>1, <1>3, <2>2
    <3> QED
      BY <1>1, <2>3, <3>1 DEF ShiftedOut
  <2>4. pos \in Int /\ pos - 1 \in Int
    BY <1>3, <2>2
  <2> QED
    BY <1>1, <2>1, <2>3, <2>4
<1>10. CASE ClearLine \/ Start
  BY <1>1, <1>10 DEF ClearLine, Start
<1>11. ASSUME NEW line \in StoredLines, Browse(line) \/ Recall(line)
       PROVE  buf'[MaxLen] = Nul
  <2>1. Len(line) \in Nat /\ Len(line) <= MaxLen /\ ~(MaxLen < Len(line))
    BY <1>1, EditorAssumption
  <2>2. CASE Browse(line)
    BY <1>1, <2>1, <2>2 DEF Browse, Copied
  <2>3. CASE Recall(line)
    BY <1>1, <2>1, <2>3 DEF Recall
  <2> QED
    BY <1>11, <2>2, <2>3
<1>12. CASE ArrowRight \/ ArrowLeft \/ End \/ Home \/ Help \/ CompleteWord \/ CompleteCommon
              \/ CompleteWithNul \/ ListMatches \/ Return
  <2>1. UNCHANGED buf
    BY <1>12 DEF ArrowRight, ArrowLeft, End, Home, MoveTo, Help, CompleteWord, CompleteCommon,
       CompleteWithNul, ListMatches, Return
  <2> QED
    BY <1>6, <2>1
<1>13. CASE UNCHANGED editorVars
  BY <1>6, <1>13 DEF editorVars
<1> QED
  BY <1>7, <1>8, <1>9, <1>10, <1>11, <1>12, <1>13 DEF EditorNext

-----------------------------------------------------------------------------
(* The words of the line.                                                  *)

Words == Seq(Seq(Byte))

LEMMA TextIs ==
    ASSUME NEW b, BufOK(b), NEW i \in 0..(MaxLen + 1)
    PROVE  /\ Text(b, NextWord(b, i)) \in Seq(Byte)
           /\ NextWord(b, i) \in [start : 0..(MaxLen + 1), end : 0..(MaxLen + 1)]
           /\ IsWord(NextWord(b, i)) =>
                  NextWord(b, i).end > i /\ Text(b, NextWord(b, i)) # <<>>
<1> DEFINE w == NextWord(b, i)
<1>1. MaxLen \in Nat
  BY EditorAssumption
<1>2. w.start \in i..(MaxLen + 1) /\ w.end \in w.start..(MaxLen + 1)
  <2> HIDE DEF w
  <2> QED
    BY NextWordIs DEF w
<1>3. w = [start |-> w.start, end |-> w.end]
  BY DEF NextWord
<1> HIDE DEF w
<1>4. /\ w.start \in Nat /\ w.end \in Nat /\ w.start >= i /\ w.end >= w.start
      /\ w \in [start : 0..(MaxLen + 1), end : 0..(MaxLen + 1)]
  <2>1. w.start \in 0..(MaxLen + 1) /\ w.end \in 0..(MaxLen + 1)
    BY <1>1, <1>2
  <2> QED
    BY <1>1, <1>2, <1>3, <2>1
<1>5. Text(b, w) \in Seq(Byte) /\ Len(Text(b, w)) = w.end - w.start
  BY <1>4, BytesAre DEF Text
<1>6. IsWord(w) => w.end > i /\ Text(b, w) # <<>>
  <2> SUFFICES ASSUME w.start < w.end
               PROVE  w.end > i /\ Text(b, w) # <<>>
    BY DEF IsWord
  <2>1. w.end > i /\ w.end - w.start # 0
    BY <1>4
  <2>2. Len(Text(b, w)) # 0
    BY <1>5, <2>1
  <2> QED
    BY <2>1, <2>2
<1> QED
  BY <1>4, <1>5, <1>6 DEF w

LEMMA WordsFromIs ==
    ASSUME NEW b, BufOK(b), NEW i \in 0..(MaxLen + 1), NEW w, w = NextWord(b, i)
    PROVE  /\ WordsFrom(b, i) \in Words
           /\ IsWord(w) => WordsFrom(b, i) = <<Text(b, w)>> \o WordsFrom(b, w.end)
           /\ ~IsWord(w) => WordsFrom(b, i) = <<>>
<1> DEFINE D == 0..(MaxLen + 1)
           Next(x) == NextWord(b, x)
           F(f) == [x \in D |->
                       IF IsWord(Next(x)) THEN <<Text(b, Next(x))>> \o f[Next(x).end] ELSE <<>>]
           stops == {x \in D : ~IsWord(Next(x))}
           val == [x \in D |-> <<>>]
           next == [x \in D |-> Next(x).end]
           step == [a \in D \X Words |-> <<Text(b, Next(a[1]))>> \o a[2]]
           mu == [x \in D |-> (MaxLen + 1) - x]
           words == CHOOSE f : f = F(f)
<1>1. MaxLen \in Nat
  BY EditorAssumption
<1>2. mu \in [D -> Nat]
  BY <1>1
<1>3. ASSUME NEW x \in D
      PROVE  /\ Text(b, Next(x)) \in Seq(Byte) /\ Next(x).end \in D
             /\ IsWord(Next(x)) => Next(x).end > x
  BY <1>3, TextIs
<1>4. ASSUME NEW t \in Seq(Byte), NEW s \in Words
      PROVE  <<t>> \o s \in Words
  BY DEF Words
<1>5. <<>> \in Words
  BY DEF Words
<1> HIDE DEF Next
<1>6. val \in [D -> Words] /\ step \in StepsBack(D, Words)
  <2>1. \A a \in D \X Words : <<Text(b, Next(a[1]))>> \o a[2] \in Words
    <3> SUFFICES ASSUME NEW a \in D \X Words
                 PROVE  <<Text(b, Next(a[1]))>> \o a[2] \in Words
      OBVIOUS
    <3>1. a[1] \in D /\ a[2] \in Words
      OBVIOUS
    <3> QED
      BY <1>3, <1>4, <3>1
  <2> QED
    BY <1>5, <2>1 DEF StepsBack
<1>7. ASSUME NEW x \in D \ stops
      PROVE  next[x] \in D /\ mu[next[x]] < mu[x]
  <2>1. IsWord(Next(x)) /\ x \in D /\ next[x] = Next(x).end
    OBVIOUS
  <2>2. Next(x).end \in D /\ Next(x).end > x
    BY <1>3, <2>1
  <2> QED
    BY <1>1, <2>1, <2>2
<1>8. ASSUME NEW f, f \in [D -> Words]
      PROVE  Descends(f, D, stops, val, next, step) => f = F(f)
  <2>1. ASSUME NEW x \in D
        PROVE  (IF x \in stops THEN val[x] ELSE step[<<x, f[next[x]]>>]) = F(f)[x]
    <3>1. CASE ~IsWord(Next(x))
      BY <3>1
    <3>2. CASE IsWord(Next(x))
      <4>1. next[x] = Next(x).end /\ Next(x).end \in D
        BY <1>3
      <4>2. f[next[x]] \in Words
        BY <1>8, <4>1, Zenon
      <4>3. step[<<x, f[next[x]]>>] = <<Text(b, Next(x))>> \o f[next[x]]
        BY <4>2
      <4> HIDE DEF val, next, step
      <4> QED
        BY <3>2, <4>1, <4>3
    <3> QED
      BY <3>1, <3>2
  <2>2. F(f) = [x \in D |-> F(f)[x]]
    OBVIOUS
  <2> HIDE DEF F, stops, val, next, step
  <2> QED
    BY <2>1, <2>2 DEF Descends
<1>9. words = F(words)
  <2>1. \E f : f \in [D -> Words] /\ Descends(f, D, stops, val, next, step)
    <3> HIDE DEF D, stops, val, next, step, mu
    <3> QED
      BY <1>2, <1>6, <1>7, DescentExists
  <2>2. \E f : f = F(f)
    <3> HIDE DEF F, D, stops, val, next, step
    <3> QED
      BY <1>8, <2>1
  <2> HIDE DEF F
  <2> QED
    BY <2>2
<1>10. ASSUME NEW x \in D
       PROVE  WordsFrom(b, x) = words[x]
  BY DEF WordsFrom, Next
<1> HIDE DEF words
<1>11. ASSUME NEW x \in D
       PROVE  words[x] = IF IsWord(Next(x)) THEN <<Text(b, Next(x))>> \o words[Next(x).end]
                         ELSE <<>>
  BY <1>9
<1> DEFINE T == {x \in D : words[x] \in Words}
<1>12. ASSUME NEW x \in D, \A y \in D : mu[y] < mu[x] => y \in T
       PROVE  x \in T
  <2>1. CASE ~IsWord(Next(x))
    BY <1>5, <1>11, <2>1
  <2>2. CASE IsWord(Next(x))
    <3>1. Next(x).end \in D /\ mu[Next(x).end] < mu[x]
      BY <1>1, <1>3, <2>2
    <3>2. words[Next(x).end] \in Words
      BY <1>12, <3>1
    <3>3. <<Text(b, Next(x))>> \o words[Next(x).end] \in Words
      BY <1>3, <1>4, <3>2
    <3> QED
      BY <1>11, <2>2, <3>3
  <2> QED
    BY <2>1, <2>2
<1>13. D \subseteq T
  <2> HIDE DEF T, D, mu
  <2> QED
    BY <1>2, <1>12, MeasureInduction
<1>14. w = Next(i) /\ i \in D /\ w.end \in D
  BY <1>3 DEF Next
<1>15. words[i] \in Words /\ WordsFrom(b, i) = words[i] /\ WordsFrom(b, w.end) = words[w.end]
  BY <1>10, <1>13, <1>14
<1> HIDE DEF D, T
<1> QED
  BY <1>11, <1>14, <1>15

-----------------------------------------------------------------------------
(* Where the parameters of a Cmdinfo stand among the words behind the      *)
(* command.                                                                *)

\* A parameter with its values stands at word a, up to word EndsWith(a, arg).
StandsAt(table, args, a, arg) ==
    /\ args[a] = table[arg.param].name
    /\ \A k \in 1..Len(arg.values) : args[a + k] = arg.values[k]

EndsWith(a, arg) == a + Len(arg.values)

\* The first m words were read: parameter i stands at word at[i], and the default value
\* is another of these words.
Spread(table, args, given, default, m, at) ==
    /\ at \in [1..Len(given) -> 1..m]
    /\ \A i \in 1..Len(given) :
           /\ EndsWith(at[i], given[i]) <= m /\ StandsAt(table, args, at[i], given[i])
           /\ i > 1 => EndsWith(at[i - 1], given[i - 1]) < at[i]
    /\ default # NoText =>
           \E j \in 1..m : /\ args[j] = default
                           /\ \A i \in 1..Len(given) : j \notin at[i]..EndsWith(at[i], given[i])

LEMMA SpreadNone == ASSUME NEW table, NEW args
                    PROVE  \E at : Spread(table, args, <<>>, NoText, 0, at)
<1>1. [i \in {} |-> 0] \in [1..0 -> 1..0] /\ Len(<<>>) = 0
  OBVIOUS
<1>2. Spread(table, args, <<>>, NoText, 0, [i \in {} |-> 0])
  BY <1>1 DEF Spread
<1> QED
  BY <1>2

LEMMA ArgEnds == ASSUME NEW arg \in Arg, NEW a \in Nat
                 PROVE  EndsWith(a, arg) \in Nat /\ EndsWith(a, arg) >= a
BY DEF Arg, EndsWith

LEMMA SpreadEnds ==
    ASSUME NEW table, NEW args, NEW given \in Seq(Arg), NEW default, NEW m \in Nat, NEW at,
           Spread(table, args, given, default, m, at), NEW i \in 1..Len(given)
    PROVE  at[i] \in Nat /\ EndsWith(at[i], given[i]) \in Nat
<1>1. given[i] \in Arg /\ at[i] \in Nat
  BY DEF Spread
<1> QED
  BY <1>1, ArgEnds

\* A word that is ignored or taken for the default value.
LEMMA SpreadOther ==
    ASSUME NEW table, NEW args, NEW given \in Seq(Arg), NEW default, NEW m \in Nat, NEW at,
           Spread(table, args, given, default, m, at),
           NEW new \in {default, args[m + 1]}
    PROVE  Spread(table, args, given, new, m + 1, at)
<1>1. 1..m \subseteq 1..(m + 1) /\ m + 1 \in 1..(m + 1)
  OBVIOUS
<1>2. at \in [1..Len(given) -> 1..m] /\ at \in [1..Len(given) -> 1..(m + 1)]
  BY <1>1 DEF Spread
<1>3. ASSUME NEW i \in 1..Len(given)
      PROVE  /\ EndsWith(at[i], given[i]) <= m + 1
             /\ m + 1 \notin at[i]..EndsWith(at[i], given[i])
  <2>1. at[i] \in Nat /\ EndsWith(at[i], given[i]) \in Nat
    BY SpreadEnds
  <2>2. EndsWith(at[i], given[i]) <= m
    BY DEF Spread
  <2> QED
    BY <2>1, <2>2
<1>4. new # NoText =>
          \E j \in 1..(m + 1) : /\ args[j] = new
                                /\ \A i \in 1..Len(given) :
                                       j \notin at[i]..EndsWith(at[i], given[i])
  <2>1. CASE new = args[m + 1]
    BY <1>1, <1>3, <2>1
  <2>2. CASE new = default
    BY <1>1, <2>2 DEF Spread
  <2> QED
    BY <2>1, <2>2
<1> QED
  BY <1>2, <1>3, <1>4 DEF Spread

WithParam(given, p) == Append(given, [param |-> p, values |-> <<>>])

WithValue(given, text) == [given EXCEPT ![Len(given)].values = Append(@, text)]

\* The name of a parameter.
LEMMA SpreadName ==
    ASSUME NEW table, NEW args, NEW given \in Seq(Arg), NEW default, NEW m \in Nat, NEW at,
           Spread(table, args, given, default, m, at),
           NEW p \in Nat, args[m + 1] = table[p].name,
           NEW more, more = WithParam(given, p)
    PROVE  \E spots : /\ Spread(table, args, more, default, m + 1, spots)
                      /\ EndsWith(spots[Len(more)], more[Len(more)]) = m + 1
<1> DEFINE n == Len(given)
           arg == [param |-> p, values |-> <<>>]
           spots == [i \in 1..(n + 1) |-> IF i = n + 1 THEN m + 1 ELSE at[i]]
<1>1. arg \in Arg /\ n \in Nat
  BY DEF Arg
<1>2. EndsWith(m + 1, arg) = m + 1 /\ StandsAt(table, args, m + 1, arg)
  BY DEF EndsWith, StandsAt
<1> HIDE DEF arg
<1>3. /\ more \in Seq(Arg) /\ Len(more) = n + 1 /\ more[n + 1] = arg
      /\ \A i \in 1..n : more[i] = given[i]
  <2>1. more = Append(given, arg)
    BY DEF arg, WithParam
  <2> QED
    BY <1>1, <2>1
<1>4. at \in [1..n -> 1..m]
  BY DEF Spread
<1>5. ASSUME NEW i \in 1..n
      PROVE  /\ at[i] \in Nat /\ EndsWith(at[i], given[i]) \in Nat
             /\ EndsWith(at[i], given[i]) <= m /\ StandsAt(table, args, at[i], given[i])
             /\ i > 1 => EndsWith(at[i - 1], given[i - 1]) < at[i]
  BY SpreadEnds DEF Spread
<1> HIDE DEF n
<1>6. /\ spots \in [1..(n + 1) -> 1..(m + 1)] /\ spots[n + 1] = m + 1
      /\ \A i \in 1..n : spots[i] = at[i]
  BY <1>1, <1>4
<1> HIDE DEF spots
<1>7. ASSUME NEW i \in 1..n
      PROVE  /\ EndsWith(spots[i], more[i]) = EndsWith(at[i], given[i])
             /\ spots[i] = at[i] /\ more[i] = given[i]
  BY <1>3, <1>6
<1>8. /\ spots[n + 1] = m + 1 /\ more[n + 1] = arg
      /\ EndsWith(spots[n + 1], more[n + 1]) = m + 1
  <2>1. spots[n + 1] = m + 1 /\ more[n + 1] = arg
    BY <1>3, <1>6
  <2> QED
    BY <1>2, <2>1, Zenon
<1>9. ASSUME NEW i \in 1..(n + 1)
      PROVE  /\ EndsWith(spots[i], more[i]) <= m + 1 /\ StandsAt(table, args, spots[i], more[i])
             /\ i > 1 => EndsWith(spots[i - 1], more[i - 1]) < spots[i]
  <2>1. CASE i \in 1..n
    <3>1. PICK e \in Nat : e = EndsWith(at[i], given[i])
      BY <1>5, <2>1
    <3>2. EndsWith(at[i], given[i]) <= m /\ e = EndsWith(spots[i], more[i])
      BY <1>5, <1>7, <2>1, <3>1, Zenon
    <3>3. e <= m + 1
      <4>1. e <= m
        BY <3>1, <3>2, Zenon
      <4> QED
        BY <4>1
    <3>4. EndsWith(spots[i], more[i]) <= m + 1 /\ StandsAt(table, args, spots[i], more[i])
      BY <1>5, <1>7, <2>1, <3>2, <3>3, Zenon
    <3>5. i > 1 => EndsWith(spots[i - 1], more[i - 1]) < spots[i]
      <4> SUFFICES ASSUME i > 1
                   PROVE  EndsWith(spots[i - 1], more[i - 1]) < spots[i]
        OBVIOUS
      <4>1. PICK j \in 1..n : j = i - 1
        BY <1>1, <2>1
      <4>2. EndsWith(spots[j], more[j]) = EndsWith(at[j], given[j]) /\ spots[i] = at[i]
        BY <1>7, <2>1
      <4>3. EndsWith(at[j], given[j]) < at[i]
        BY <1>5, <2>1, <4>1
      <4> QED
        BY <4>1, <4>2, <4>3
    <3> QED
      BY <3>4, <3>5
  <2>2. CASE i = n + 1
    <3>1. spots[i] = m + 1 /\ more[i] = arg /\ EndsWith(spots[i], more[i]) = m + 1
      BY <1>8, <2>2
    <3>2. StandsAt(table, args, spots[i], more[i])
      BY <1>2, <3>1, Zenon
    <3>3. i > 1 => EndsWith(spots[i - 1], more[i - 1]) < spots[i]
      <4> SUFFICES ASSUME i > 1
                   PROVE  EndsWith(spots[i - 1], more[i - 1]) < spots[i]
        OBVIOUS
      <4>1. PICK j \in 1..n : j = i - 1
        BY <1>1, <2>2
      <4>2. PICK e \in Nat : e = EndsWith(at[j], given[j])
        BY <1>5
      <4>3. e <= m
        BY <1>5, <4>2, Zenon
      <4>4. e < m + 1
        BY <4>3
      <4> QED
        BY <1>7, <3>1, <4>1, <4>2, <4>4, Zenon
    <3>4. m + 1 <= m + 1
      OBVIOUS
    <3> QED
      BY <3>1, <3>2, <3>3, <3>4, Zenon
  <2>3. i \in 1..n \/ i = n + 1
    BY <1>1
  <2> QED
    BY <2>1, <2>2, <2>3, Zenon
<1>10. ASSUME default # NoText
       PROVE  \E j \in 1..(m + 1) :
                  /\ args[j] = default
                  /\ \A i \in 1..(n + 1) : j \notin spots[i]..EndsWith(spots[i], more[i])
  <2>1. PICK j \in 1..m : /\ args[j] = default
                          /\ \A i \in 1..n : j \notin at[i]..EndsWith(at[i], given[i])
    BY <1>10 DEF Spread, n
  <2>2. ASSUME NEW i \in 1..(n + 1)
        PROVE  j \notin spots[i]..EndsWith(spots[i], more[i])
    <3>1. CASE i \in 1..n
      BY <1>7, <2>1, <3>1, Zenon
    <3>2. CASE i = n + 1
      <4>1. spots[i] = m + 1 /\ j \notin (m + 1)..(m + 1)
        BY <1>8, <3>2
      <4>2. EndsWith(spots[i], more[i]) = m + 1
        BY <1>8, <3>2
      <4> QED
        BY <4>1, <4>2
    <3>3. i \in 1..n \/ i = n + 1
      BY <1>1
    <3> QED
      BY <3>1, <3>2, <3>3, Zenon
  <2>3. j \in 1..(m + 1)
    OBVIOUS
  <2> QED
    BY <2>1, <2>2, <2>3
<1>11. Spread(table, args, more, default, m + 1, spots)
  BY <1>3, <1>6, <1>9, <1>10 DEF Spread
<1> QED
  BY <1>3, <1>8, <1>11

Replaced(given, n, new) == [given EXCEPT ![n] = new]

LEMMA OneReplaced ==
    ASSUME NEW given \in Seq(Arg), NEW n \in 1..Len(given), NEW new \in Arg
    PROVE  /\ Replaced(given, n, new) \in Seq(Arg)
           /\ Len(Replaced(given, n, new)) = Len(given) /\ Replaced(given, n, new)[n] = new
           /\ \A i \in 1..Len(given) : i # n => Replaced(given, n, new)[i] = given[i]
BY DEF Replaced

\* A value of the last parameter, behind its name and the values it has.
LEMMA SpreadValue ==
    ASSUME NEW table, NEW args, NEW given \in Seq(Arg), NEW default, NEW m \in Nat, NEW at,
           Spread(table, args, given, default, m, at),
           NEW n, n = Len(given), n > 0,
           EndsWith(at[n], given[n]) = m,
           args[m + 1] \in Seq(Byte),
           NEW more, more = WithValue(given, args[m + 1])
    PROVE  /\ Spread(table, args, more, default, m + 1, at)
           /\ Len(more) = n /\ EndsWith(at[n], more[n]) = m + 1
<1> DEFINE old == given[n]
           values == Append(old.values, args[m + 1])
           new == [old EXCEPT !.values = values]
<1>1. n \in Nat /\ n \in 1..n /\ old \in Arg /\ at \in [1..n -> 1..m] /\ at[n] \in Nat
  BY DEF Spread
<1>2. old.values \in Seq(Seq(Byte))
  BY <1>1 DEF Arg
<1>3. /\ Len(old.values) \in Nat /\ Len(values) = Len(old.values) + 1
      /\ values[Len(old.values) + 1] = args[m + 1]
      /\ \A k \in 1..Len(old.values) : values[k] = old.values[k]
      /\ values \in Seq(Seq(Byte))
  BY <1>2
<1> HIDE DEF values
<1>4. new \in Arg /\ new.values = values /\ new.param = old.param
  BY <1>1, <1>3 DEF Arg
<1>5. /\ more \in Seq(Arg) /\ Len(more) = n /\ more[n] = new
      /\ \A i \in 1..n : i # n => more[i] = given[i]
  <2>1. more = Replaced(given, n, new)
    BY DEF values, Replaced, WithValue
  <2> HIDE DEF old, new
  <2>2. n \in 1..Len(given) /\ new \in Arg
    BY <1>1, <1>4
  <2> DEFINE rep == Replaced(given, n, new)
  <2>3. /\ rep \in Seq(Arg) /\ Len(rep) = Len(given) /\ rep[n] = new
        /\ \A i \in 1..Len(given) : i # n => rep[i] = given[i]
    BY <2>2, OneReplaced, Zenon
  <2> HIDE DEF rep
  <2>4. more = rep
    BY <2>1 DEF rep
  <2> QED
    BY <2>3, <2>4, Zenon
<1>6. ASSUME NEW i \in 1..n
      PROVE  /\ at[i] \in Nat /\ EndsWith(at[i], given[i]) \in Nat
             /\ EndsWith(at[i], given[i]) <= m /\ StandsAt(table, args, at[i], given[i])
             /\ i > 1 => EndsWith(at[i - 1], given[i - 1]) < at[i]
  BY SpreadEnds DEF Spread
<1> HIDE DEF old, new
<1>7. at[n] + Len(old.values) = m
  BY DEF old, EndsWith
<1>8. EndsWith(at[n], new) = m + 1
  <2>1. EndsWith(at[n], new) = at[n] + Len(values)
    BY <1>4 DEF EndsWith
  <2>2. PICK k \in Nat : k = Len(old.values) /\ Len(values) = k + 1
    BY <1>3
  <2>3. PICK a \in Nat : a = at[n]
    BY <1>1
  <2>4. a + k = m
    BY <1>7, <2>2, <2>3, Zenon
  <2>5. a + (k + 1) = m + 1
    BY <2>4
  <2> QED
    BY <2>1, <2>2, <2>3, <2>5, Zenon
<1>9. StandsAt(table, args, at[n], new)
  <2>1. /\ args[at[n]] = table[old.param].name
        /\ \A k \in 1..Len(old.values) : args[at[n] + k] = old.values[k]
    BY <1>1, <1>6 DEF StandsAt, old
  <2>2. PICK a \in Nat : a = at[n]
    BY <1>1
  <2>3. PICK l \in Nat : l = Len(old.values) /\ Len(values) = l + 1
    BY <1>3
  <2>4. a + l = m /\ a + (l + 1) = m + 1
    <3>1. a + l = m
      BY <1>7, <2>2, <2>3, Zenon
    <3>2. a + (l + 1) = m + 1
      BY <3>1
    <3> QED
      BY <3>1, <3>2
  <2>5. ASSUME NEW k \in 1..(l + 1)
        PROVE  args[a + k] = values[k]
    <3>1. CASE k = l + 1
      BY <1>3, <2>3, <2>4, <3>1, Zenon
    <3>2. CASE k # l + 1
      <4>1. k \in 1..l
        BY <3>2
      <4> QED
        BY <1>3, <2>1, <2>2, <2>3, <4>1, Zenon
    <3> QED
      BY <3>1, <3>2
  <2>6. \A k \in 1..Len(values) : args[at[n] + k] = values[k]
    BY <2>2, <2>3, <2>5, Zenon
  <2> QED
    BY <1>4, <2>1, <2>6, Zenon DEF StandsAt
<1>10. ASSUME NEW i \in 1..n
       PROVE  /\ EndsWith(at[i], more[i]) <= m + 1 /\ StandsAt(table, args, at[i], more[i])
              /\ i > 1 => EndsWith(at[i - 1], more[i - 1]) < at[i]
  <2>1. i > 1 => EndsWith(at[i - 1], more[i - 1]) < at[i]
    <3> SUFFICES ASSUME i > 1
                 PROVE  EndsWith(at[i - 1], more[i - 1]) < at[i]
      OBVIOUS
    <3>1. PICK j \in 1..n : j = i - 1 /\ j # n
      BY <1>1
    <3>2. more[j] = given[j]
      BY <1>5, <3>1
    <3>3. EndsWith(at[j], given[j]) < at[i]
      BY <1>6, <3>1
    <3> QED
      BY <3>1, <3>2, <3>3
  <2>2. CASE i = n
    <3>1. EndsWith(at[i], more[i]) = m + 1
      BY <1>5, <1>8, <2>2, Zenon
    <3>3. m + 1 <= m + 1
      OBVIOUS
    <3>2. StandsAt(table, args, at[i], more[i])
      BY <1>5, <1>9, <2>2, Zenon
    <3> QED
      BY <2>1, <3>1, <3>2, <3>3, Zenon
  <2>3. CASE i # n
    <3>1. more[i] = given[i]
      BY <1>5, <2>3
    <3>2. PICK e \in Nat : e = EndsWith(at[i], given[i])
      BY <1>6
    <3>3. e <= m
      BY <1>6, <3>2
    <3>4. EndsWith(at[i], more[i]) <= m + 1
      BY <3>1, <3>2, <3>3
    <3>5. StandsAt(table, args, at[i], more[i])
      BY <1>6, <3>1, Zenon
    <3> QED
      BY <2>1, <3>4, <3>5
  <2> QED
    BY <2>2, <2>3
<1>11. ASSUME default # NoText
       PROVE  \E j \in 1..(m + 1) :
                  /\ args[j] = default
                  /\ \A i \in 1..n : j \notin at[i]..EndsWith(at[i], more[i])
  <2>1. PICK j \in 1..m : /\ args[j] = default
                          /\ \A i \in 1..n : j \notin at[i]..EndsWith(at[i], given[i])
    BY <1>11 DEF Spread
  <2>2. ASSUME NEW i \in 1..n
        PROVE  j \notin at[i]..EndsWith(at[i], more[i])
    <3>1. CASE i = n
      <4>1. j \notin at[n]..m
        BY <1>1, <2>1
      <4>2. j \notin at[n]..(m + 1)
        BY <1>1, <4>1
      <4>3. EndsWith(at[n], more[n]) = m + 1
        BY <1>5, <1>8, Zenon
      <4> QED
        BY <3>1, <4>2, <4>3, Zenon
    <3>2. CASE i # n
      BY <1>5, <2>1, <3>2, Zenon
    <3> QED
      BY <3>1, <3>2
  <2>3. j \in 1..(m + 1)
    OBVIOUS
  <2> QED
    BY <2>1, <2>2, <2>3
<1>12. at \in [1..n -> 1..(m + 1)]
  <2>1. 1..m \subseteq 1..(m + 1)
    OBVIOUS
  <2> QED
    BY <1>1, <2>1
<1>13. Spread(table, args, more, default, m + 1, at)
  BY <1>5, <1>10, <1>11, <1>12 DEF Spread
<1>14. EndsWith(at[n], more[n]) = m + 1
  BY <1>5, <1>8, Zenon
<1> QED
  BY <1>5, <1>13, <1>14

LEMMA NameThenValues ==
    ASSUME NEW args \in Seq(Seq(Byte)), NEW a \in 1..Len(args),
           NEW x \in Seq(Byte), NEW values \in Seq(Seq(Byte)), a + Len(values) <= Len(args),
           args[a] = x, \A k \in 1..Len(values) : args[a + k] = values[k]
    PROVE  SubSeq(args, a, a + Len(values)) = <<x>> \o values
<1> DEFINE n == Len(values)
           s == SubSeq(args, a, a + n)
           t == <<x>> \o values
<1>1. n \in Nat /\ Len(args) \in Nat /\ a \in Nat
  OBVIOUS
<1>2. /\ s \in Seq(Seq(Byte)) /\ Len(s) = n + 1
      /\ \A i \in 1..(n + 1) : s[i] = args[a + i - 1]
  BY <1>1
<1>3. t \in Seq(Seq(Byte)) /\ Len(t) = n + 1 /\ t[1] = x /\ \A i \in 1..n : t[i + 1] = values[i]
  BY <1>1
<1> HIDE DEF s, t, n
<1>4. ASSUME NEW i \in 1..(n + 1)
      PROVE  s[i] = t[i]
  <2>1. CASE i = 1
    BY <1>1, <1>2, <1>3, <2>1
  <2>2. CASE i # 1
    <3>1. PICK k \in 1..n : i = k + 1 /\ a + i - 1 = a + k
      <4>1. i - 1 \in 1..n /\ i = (i - 1) + 1 /\ a + i - 1 = a + (i - 1)
        BY <1>1, <2>2
      <4> QED
        BY <4>1
    <3>2. s[i] = args[a + k] /\ t[i] = values[k]
      BY <1>2, <1>3, <3>1
    <3> QED
      BY <3>2 DEF n
  <2> QED
    BY <2>1, <2>2
<1>5. s = t
  BY <1>1, <1>2, <1>3, <1>4
<1> QED
  BY <1>5 DEF s, t, n

-----------------------------------------------------------------------------
(* The invariant.                                                          *)

Word == [start : 0..(MaxLen + 1), end : 0..(MaxLen + 1)]

\* Once a command runs nobody edits the line, and its Cmdinfo fits its table.
StateInv ==
    /\ EditorInv /\ BufOK(buf)
    /\ stage \in {"line", "words", "values", "required", "callback"}
    /\ stage # "line" =>
           /\ ~editing /\ cmd \in Cmds /\ word \in Word
           /\ info \in [defval : {NoText} \cup Seq(Byte), params : Seq(Arg)]
           /\ ArgsOK(Table, info.params, stage = "values")
    /\ stage = "callback" => Missing = {}

\* What createcmdinfo has not read yet: args from word m + 1 on.
Remaining == WordsFrom(buf, word.end)

After(args, m, left) == Len(args) = m + Len(left) /\ \A k \in 1..Len(left) : args[m + k] = left[k]

Reading == stage \in {"words", "values"}

SpreadUpto(m, at) ==
    /\ m <= Len(Arguments) /\ Spread(Table, Arguments, info.params, info.defval, m, at)
    /\ Reading => After(Arguments, m, Remaining)
    /\ stage = "values" =>
           EndsWith(at[Len(info.params)], info.params[Len(info.params)]) = m

\* What the Cmdinfo holds was read from the line.
SpreadInv == stage # "line" => \E m \in Nat : \E at : SpreadUpto(m, at)

TableNames == {Table[i].name : i \in DOMAIN Table}

\* Each name on the line was taken or is still to come.
CountInv ==
    stage # "line" /\ PrefixFree =>
        Len(Among(Arguments, TableNames))
            = Len(info.params) + IF Reading THEN Len(Among(Remaining, TableNames)) ELSE 0

ShellInv == StateInv /\ SpreadInv /\ CountInv

LEMMA NoLineInv ==
    ASSUME EditorInv, BufOK(buf), stage = "line"
    PROVE  ShellInv
BY DEF ShellInv, StateInv, SpreadInv, CountInv

LEMMA NoLineInvNext ==
    ASSUME EditorInv', BufOK(buf'), stage' = "line"
    PROVE  ShellInv'
BY DEF ShellInv, StateInv, SpreadInv, CountInv

LEMMA EditorPartKept ==
    ASSUME ShellInv, [ShellNext]_shellVars
    PROVE  EditorInv' /\ BufOK(buf')
<1>1. EditorInv /\ BufOK(buf)
  BY DEF ShellInv, StateInv
<1>2. [EditorNext]_editorVars
  BY <1>1, StepsAreEditors
<1> QED
  BY <1>1, <1>2, EditorStepKeepsInv, LastByteKept

LEMMA TableIs ==
    ASSUME StateInv, stage # "line"
    PROVE  Table \in Seq(Param)
BY ShellAssumption DEF StateInv, Table, Param

\* A step that leaves the line and the command as they are.
LEMMA SameLine ==
    ASSUME UNCHANGED <<editorVars, cmd>>
    PROVE  /\ buf' = buf /\ Arguments' = Arguments /\ Table' = Table /\ TableNames' = TableNames
           /\ PrefixFree' = PrefixFree
           /\ Remaining' = WordsFrom(buf, word'.end)
<1>1. buf' = buf /\ pos' = pos /\ cmd' = cmd
  BY DEF editorVars
<1>2. Table' = Table /\ Now' = Now
  BY <1>1 DEF Table, Now
<1>3. Arguments' = Arguments
  BY <1>1, <1>2 DEF Arguments
<1>4. Remaining' = WordsFrom(buf, word'.end)
  BY <1>1 DEF Remaining
<1> QED
  BY <1>1, <1>2, <1>3, <1>4 DEF TableNames, PrefixFree

LEMMA ArgumentsAre == ASSUME StateInv PROVE Arguments \in Words
<1>1. BufOK(buf) /\ MaxLen \in Nat
  BY EditorAssumption DEF StateInv
<1>2. Now \in Searches
  BY <1>1, FindActiveCmdIs DEF Now
<1>3. Now.next \in 0..(MaxLen + 1)
  BY <1>1, <1>2 DEF Searches
<1> QED
  BY <1>1, <1>3, WordsFromIs DEF Arguments

\* The word that createcmdinfo reads next.
LEMMA NextArgument ==
    ASSUME StateInv, stage # "line",
           NEW w, w = Following, NEW text, text = Text(buf, w),
           NEW left, left = WordsFrom(buf, w.end)
    PROVE  /\ w \in Word /\ text \in Seq(Byte) /\ left \in Words /\ Remaining \in Words
           /\ IsWord(w) => text # <<>> /\ Remaining = <<text>> \o left
           /\ ~IsWord(w) => Remaining = <<>>
<1>1. BufOK(buf) /\ MaxLen \in Nat /\ word \in Word /\ word.end \in 0..(MaxLen + 1)
  BY EditorAssumption DEF StateInv, Word
<1>2. w = NextWord(buf, word.end)
  BY DEF Following
<1>3. w \in Word /\ text \in Seq(Byte) /\ (IsWord(w) => text # <<>>)
  BY <1>1, <1>2, TextIs DEF Word
<1>4. w.end \in 0..(MaxLen + 1)
  BY <1>3 DEF Word
<1>5. left \in Words
  BY <1>1, <1>4, WordsFromIs
<1>6. /\ Remaining \in Words
      /\ IsWord(w) => Remaining = <<text>> \o left
      /\ ~IsWord(w) => Remaining = <<>>
  BY <1>1, <1>2, WordsFromIs DEF Remaining
<1> QED
  BY <1>3, <1>5, <1>6

LEMMA AfterFirst ==
    ASSUME NEW args \in Words, NEW m \in Nat, NEW left \in Words, NEW text \in Seq(Byte),
           NEW all, all = <<text>> \o left, After(args, m, all)
    PROVE  m + 1 <= Len(args) /\ args[m + 1] = text /\ After(args, m + 1, left)
<1>1. /\ Len(all) = Len(left) + 1 /\ all[1] = text /\ \A k \in 1..Len(left) : all[k + 1] = left[k]
      /\ Len(left) \in Nat /\ Len(args) \in Nat
  BY DEF Words
<1> HIDE DEF Words
<1>2. Len(args) = m + Len(all) /\ \A k \in 1..Len(all) : args[m + k] = all[k]
  BY DEF After
<1>3. Len(args) = (m + 1) + Len(left) /\ m + 1 <= Len(args) /\ 1 \in 1..Len(all)
  BY <1>1, <1>2
<1>4. args[m + 1] = text
  BY <1>1, <1>2, <1>3, Zenon
<1>5. ASSUME NEW k \in 1..Len(left)
      PROVE  args[(m + 1) + k] = left[k]
  <2>1. k + 1 \in 1..Len(all) /\ (m + 1) + k = m + (k + 1)
    BY <1>1
  <2> QED
    BY <1>1, <1>2, <2>1, Zenon
<1> QED
  BY <1>3, <1>4, <1>5 DEF After

\* A word that is the name of a parameter is taken for it, if no name is the beginning
\* of another.
LEMMA NamesAreTaken ==
    ASSUME StateInv, stage # "line", NEW text \in Seq(Byte), text # <<>>
    PROVE  /\ \A i \in NamedBy(text) : i \in DOMAIN Table /\ i \in Nat /\ Table[i].name = text
           /\ NamedBy(text) # {} => text \in TableNames
           /\ Begins(text) = {} => text \notin TableNames
           /\ PrefixFree /\ text \in TableNames => NamedBy(text) # {}
<1> DEFINE B == Begins(text)
<1>1. Table \in Seq(Param)
  BY TableIs
<1>2. B = {i \in DOMAIN Table : IsPrefix(text, Table[i].name)}
  BY DEF Begins
<1>3. NamedBy(text) = {i \in Passed(text) : Table[i].name = text}
  BY DEF NamedBy
<1>4. B \subseteq DOMAIN Table /\ B \subseteq Nat
  BY <1>1, <1>2
<1>5. IsPrefix(text, text)
  <2>1. Len(text) \in Nat
    OBVIOUS
  <2> QED
    BY <2>1, PrefixIs
<1>6. Passed(text) = IF B = {} THEN DOMAIN Table ELSE 1..Min(B)
  BY DEF Passed
<1> HIDE DEF B
<1>7. B # {} => Min(B) \in B
  <2> SUFFICES ASSUME B # {}
               PROVE  Min(B) \in B
    OBVIOUS
  <2>1. \E x \in B : \A y \in B : x <= y
    BY <1>4, LeastNumber
  <2> QED
    BY <2>1 DEF Min
<1>8. Passed(text) \subseteq DOMAIN Table
  <2>1. PICK n \in Nat : DOMAIN Table = 1..n
    BY <1>1
  <2>2. CASE B = {}
    BY <1>6, <2>2
  <2>3. CASE B # {}
    <3>1. Min(B) \in 1..n
      BY <1>4, <1>7, <2>1, <2>3
    <3> QED
      BY <1>6, <2>1, <2>3, <3>1
  <2> QED
    BY <2>2, <2>3
<1>9. \A i \in NamedBy(text) : i \in DOMAIN Table /\ i \in Nat /\ Table[i].name = text
  BY <1>1, <1>3, <1>8
<1>10. NamedBy(text) # {} => text \in TableNames
  BY <1>9 DEF TableNames
<1>11. ASSUME text \in TableNames
       PROVE  \E i \in B : Table[i].name = text
  BY <1>2, <1>5, <1>11 DEF TableNames
<1>12. ASSUME PrefixFree, text \in TableNames
       PROVE  NamedBy(text) # {}
  <2>1. PICK i \in B : Table[i].name = text
    BY <1>11, <1>12
  <2>2. ASSUME NEW j \in B
        PROVE  j = i
    <3>1. i \in DOMAIN Table /\ j \in DOMAIN Table /\ IsPrefix(Table[i].name, Table[j].name)
      BY <1>2, <2>1, <2>2
    <3> QED
      BY <1>12, <2>1, <3>1 DEF PrefixFree
  <2>3. Min(B) = i /\ i \in 1..i /\ B # {}
    <3>1. Min(B) = i
      BY <1>7, <2>1, <2>2
    <3>2. i \in Nat /\ i >= 1
      BY <1>1, <1>4, <2>1
    <3> QED
      BY <2>1, <3>1, <3>2
  <2>4. i \in Passed(text)
    BY <1>6, <2>3
  <2> QED
    BY <1>3, <2>1, <2>4
<1>13. B = Begins(text)
  BY DEF B
<1> QED
  BY <1>9, <1>10, <1>11, <1>12, <1>13

-----------------------------------------------------------------------------
(* Enter and createcmdinfo keep the invariant.                             *)

LEMMA EnterKeepsInv ==
    ASSUME ShellInv, EditorInv', BufOK(buf'), EnterCommand
    PROVE  ShellInv'
<1>1. /\ Return /\ IsCommand /\ stage' = "words" /\ cmd' = Now.cmd
      /\ word' = [start |-> Now.next, end |-> Now.next] /\ info' = NoInfo
  BY DEF EnterCommand
<1>2. BufOK(buf) /\ MaxLen \in Nat /\ StateInv
  BY EditorAssumption DEF ShellInv, StateInv
<1>3. buf' = buf /\ pos' = pos /\ ~editing'
  BY <1>1 DEF Return
<1>4. Now \in Searches /\ Now' = Now
  BY <1>2, <1>3, FindActiveCmdIs DEF Now
<1>5. cmd' \in Cmds /\ Now.next \in 0..(MaxLen + 1)
  BY <1>1, <1>2, <1>4 DEF Searches, IsCommand
<1>6. word' \in Word /\ word'.end = Now.next
  BY <1>1, <1>5 DEF Word
<1>7. Arguments' = Arguments /\ Remaining' = Arguments /\ Arguments \in Words
  BY <1>2, <1>3, <1>4, <1>6, ArgumentsAre DEF Arguments, Remaining
<1>8. info'.params = <<>> /\ info'.defval = NoText
      /\ info' \in [defval : {NoText} \cup Seq(Byte), params : Seq(Arg)]
  BY <1>1 DEF NoInfo
<1>9. StateInv'
  <2>1. ArgsOK(Table', info'.params, FALSE)
    BY <1>8, NoArgs
  <2>2. (stage' = "values") = FALSE
    BY <1>1
  <2>3. ArgsOK(Table', info'.params, stage' = "values")
    BY <2>1, <2>2
  <2> QED
    BY <1>1, <1>3, <1>5, <1>6, <1>8, <2>3 DEF StateInv
<1>10. SpreadInv'
  <2>1. PICK at : Spread(Table', Arguments', info'.params, info'.defval, 0, at)
    BY <1>8, SpreadNone
  <2>2. Len(Arguments) \in Nat /\ After(Arguments, 0, Arguments)
    BY <1>7 DEF After, Words
  <2>3. SpreadUpto(0, at)'
    BY <1>1, <1>7, <2>1, <2>2 DEF SpreadUpto
  <2> QED
    BY <2>3 DEF SpreadInv
<1>11. CountInv'
  <2>1. Reading'
    BY <1>1 DEF Reading
  <2>2. Len(info'.params) = 0
    BY <1>8
  <2>3. Arguments \in Seq(Seq(Byte))
    BY <1>7 DEF Words
  <2>4. PICK names : names = TableNames'
    OBVIOUS
  <2>5. Len(Among(Arguments, names)) \in Nat
    BY <2>3, AmongLength
  <2>6. Len(Among(Arguments, names)) = Len(info'.params) + Len(Among(Arguments, names))
    BY <2>2, <2>5
  <2> QED
    BY <1>7, <2>1, <2>4, <2>6 DEF CountInv
<1> QED
  BY <1>9, <1>10, <1>11 DEF ShellInv

\* What each step of createcmdinfo has of the state before.
LEMMA BeforeReading ==
    ASSUME ShellInv, stage # "line"
    PROVE  /\ StateInv /\ SpreadInv /\ CountInv
           /\ ~editing /\ cmd \in Cmds /\ word \in Word
           /\ info \in [defval : {NoText} \cup Seq(Byte), params : Seq(Arg)]
           /\ info.params \in Seq(Arg) /\ Len(info.params) \in Nat
           /\ ArgsOK(Table, info.params, stage = "values")
           /\ Table \in Seq(Param) /\ Arguments \in Words
<1>1. StateInv /\ SpreadInv /\ CountInv
  BY DEF ShellInv
<1>2. info \in [defval : {NoText} \cup Seq(Byte), params : Seq(Arg)]
  BY <1>1 DEF StateInv
<1>3. info.params \in Seq(Arg) /\ Len(info.params) \in Nat
  BY <1>2
<1> QED
  BY <1>1, <1>2, <1>3, TableIs, ArgumentsAre DEF StateInv

LEMMA NoMoreWordsKeepsInv ==
    ASSUME ShellInv, EditorInv', BufOK(buf'), NoMoreWords
    PROVE  ShellInv'
<1>1. /\ stage = "words" /\ ~IsWord(Following) /\ stage' = "required" /\ word' = Following
      /\ UNCHANGED <<editorVars, cmd, info>> /\ stage # "line" /\ info' = info
      /\ editing' = editing /\ cmd' = cmd
  BY DEF NoMoreWords, editorVars
<1>2. /\ Arguments' = Arguments /\ Table' = Table /\ TableNames' = TableNames
      /\ PrefixFree' = PrefixFree
  BY <1>1, SameLine
<1>3. Following \in Word /\ Remaining = <<>>
  BY <1>1, NextArgument DEF ShellInv
<1>4. ArgsOK(Table, info.params, FALSE)
  <2>1. (stage = "values") = FALSE
    BY <1>1
  <2> QED
    BY <1>1, <2>1, BeforeReading
<1>5. StateInv'
  <2>1. (stage' = "values") = FALSE
    BY <1>1
  <2>2. ArgsOK(Table', info'.params, stage' = "values")
    BY <1>1, <1>2, <1>4, <2>1
  <2> QED
    BY <1>1, <1>3, <2>2, BeforeReading DEF StateInv
<1>6. SpreadInv'
  <2>0. PICK m \in Nat : \E at : SpreadUpto(m, at)
    BY <1>1, BeforeReading DEF SpreadInv
  <2>1. PICK at : SpreadUpto(m, at)
    BY <2>0
  <2>2. SpreadUpto(m, at)'
    BY <1>1, <1>2, <2>1 DEF SpreadUpto, Reading
  <2> QED
    BY <2>2 DEF SpreadInv
<1>7. CountInv'
  <2>1. Reading /\ ~Reading'
    BY <1>1 DEF Reading
  <2>2. Len(Among(Remaining, TableNames)) = 0
    <3>1. Among(Remaining, TableNames) = <<>>
      BY <1>3, AmongNone
    <3> QED
      BY <3>1
  <2>3. PrefixFree => Len(Among(Arguments, TableNames)) = Len(info.params) + 0
    <3>1. PrefixFree => Len(Among(Arguments, TableNames))
                            = Len(info.params) + Len(Among(Remaining, TableNames))
      BY <1>1, <2>1, BeforeReading DEF CountInv
    <3> QED
      BY <2>2, <3>1, Zenon
  <2> QED
    BY <1>1, <1>2, <2>1, <2>3, Zenon DEF CountInv
<1> QED
  BY <1>5, <1>6, <1>7 DEF ShellInv

\* What reading a word does to the counting of names.
LEMMA CountsWord ==
    ASSUME ShellInv, stage # "line", Reading, PrefixFree, IsWord(Following),
           NEW text, text = Text(buf, Following),
           NEW left, left = WordsFrom(buf, Following.end)
    PROVE  Len(Among(Arguments, TableNames))
               = (Len(info.params) + IF text \in TableNames THEN 1 ELSE 0)
                 + Len(Among(left, TableNames))
<1>1. /\ Remaining = <<text>> \o left /\ left \in Seq(Seq(Byte)) /\ text \in Seq(Byte)
  BY NextArgument DEF ShellInv, Words
<1>2. Len(Among(Arguments, TableNames)) = Len(info.params) + Len(Among(Remaining, TableNames))
  BY BeforeReading DEF CountInv
<1>3. /\ Len(Among(left, TableNames)) \in Nat
      /\ Len(Among(Remaining, TableNames))
             = (IF text \in TableNames THEN 1 ELSE 0) + Len(Among(left, TableNames))
  <2>1. PICK names : names = TableNames
    OBVIOUS
  <2> QED
    BY <1>1, <2>1, AmongFirst
<1>4. Len(info.params) \in Nat
  BY BeforeReading
<1>5. PICK n \in Nat : n = Len(Among(left, TableNames))
  BY <1>3
<1>6. PICK k \in Nat : k = IF text \in TableNames THEN 1 ELSE 0
  OBVIOUS
<1>7. PICK l \in Nat : l = Len(info.params)
  BY <1>4
<1>8. Len(Among(Arguments, TableNames)) = l + (k + n)
  BY <1>2, <1>3, <1>5, <1>6, <1>7, Zenon
<1>9. l + (k + n) = (l + k) + n
  OBVIOUS
<1> QED
  BY <1>5, <1>6, <1>7, <1>8, <1>9, Zenon

LEMMA TakeNameKeepsInv ==
    ASSUME ShellInv, EditorInv', BufOK(buf'), TakeName
    PROVE  ShellInv'
<1> DEFINE w == Following
           text == Text(buf, w)
           left == WordsFrom(buf, w.end)
<1>1. /\ stage = "words" /\ stage # "line" /\ Reading
      /\ word' = w /\ UNCHANGED <<editorVars, cmd>> /\ cmd' = cmd /\ editing' = editing
  BY DEF TakeName, Reading, editorVars
<1>2. PICK i \in NamedBy(text) :
          /\ info' = [info EXCEPT !.params = Append(@, [param |-> i, values |-> <<>>])]
          /\ stage' = IF Table[i].numval > 0 THEN "values" ELSE "words"
  BY DEF TakeName
<1>3. /\ Arguments' = Arguments /\ Table' = Table /\ TableNames' = TableNames
      /\ PrefixFree' = PrefixFree /\ Remaining' = left
  <2> HIDE DEF left
  <2> QED
    BY <1>1, SameLine DEF left
<1>4. /\ w \in Word /\ text \in Seq(Byte) /\ left \in Words
      /\ IsWord(w) => text # <<>> /\ Remaining = <<text>> \o left
  BY <1>1, NextArgument DEF ShellInv
<1>5. IsWord(w) /\ text # <<>>
  <2>1. text # <<>>
    BY <1>2 DEF NamedBy
  <2>2. w \in Word
    BY <1>4
  <2>3. ASSUME ~(w.start < w.end)
        PROVE  text = <<>>
    <3>1. 1..(w.end - w.start) = {}
      BY <2>2, <2>3, EditorAssumption DEF Word
    <3>2. text = [k \in 1..(w.end - w.start) |-> ByteAt(buf, w.start + k - 1)]
      BY DEF Text, Bytes
    <3> QED
      BY <3>1, <3>2
  <2> QED
    BY <2>1, <2>3 DEF IsWord
<1> DEFINE arg == [param |-> i, values |-> <<>>]
           more == Append(info.params, arg)
<1>6. i \in DOMAIN Table /\ i \in Nat /\ Table[i].name = text /\ text \in TableNames
  <2>1. NamedBy(text) # {}
    BY <1>2
  <2> HIDE DEF text
  <2> QED
    BY <1>1, <1>2, <1>4, <1>5, <2>1, NamesAreTaken DEF ShellInv
<1> HIDE DEF w, text, left
<1>7. /\ info'.params = more /\ info'.defval = info.defval
      /\ info' \in [defval : {NoText} \cup Seq(Byte), params : Seq(Arg)]
      /\ Len(info'.params) = Len(info.params) + 1
  <2>1. /\ info \in [defval : {NoText} \cup Seq(Byte), params : Seq(Arg)]
        /\ info.params \in Seq(Arg) /\ Len(info.params) \in Nat
    BY <1>1, BeforeReading
  <2>2. arg \in Arg
    BY <1>6 DEF Arg
  <2>3. info' = [info EXCEPT !.params = more]
    BY <1>2
  <2> HIDE DEF arg
  <2>4. more \in Seq(Arg) /\ Len(more) = Len(info.params) + 1
    BY <2>1, <2>2
  <2> HIDE DEF more
  <2> QED
    BY <2>1, <2>3, <2>4
<1>8. stage' \in {"values", "words"} /\ (stage' = "values") = (Table[i].numval > 0)
  BY <1>2
<1>9. StateInv'
  <2>1. ArgsOK(Table, info.params, FALSE)
    <3>1. (stage = "values") = FALSE
      BY <1>1
    <3> QED
      BY <1>1, <3>1, BeforeReading
  <2>2. ArgsOK(Table, more, Table[i].numval > 0)
    BY <1>1, <1>6, <2>1, ArgIsNamed, BeforeReading
  <2>3. ArgsOK(Table', info'.params, stage' = "values")
    BY <1>3, <1>7, <1>8, <2>2
  <2> QED
    BY <1>1, <1>4, <1>7, <1>8, <2>3, BeforeReading DEF StateInv
<1>10. SpreadInv'
  <2>0. PICK m \in Nat : \E at : SpreadUpto(m, at)
    BY <1>1, BeforeReading DEF SpreadInv
  <2>1. PICK at : SpreadUpto(m, at)
    BY <2>0
  <2>2. /\ Spread(Table, Arguments, info.params, info.defval, m, at)
        /\ After(Arguments, m, Remaining)
    BY <1>1, <2>1 DEF SpreadUpto
  <2>3. m + 1 <= Len(Arguments) /\ Arguments[m + 1] = text /\ After(Arguments, m + 1, left)
    <3>1. Arguments \in Words
      BY <1>1, BeforeReading
    <3> QED
      BY <1>4, <1>5, <2>2, <3>1, AfterFirst
  <2>4. PICK spots :
            /\ Spread(Table, Arguments, more, info.defval, m + 1, spots)
            /\ EndsWith(spots[Len(more)], more[Len(more)]) = m + 1
    <3>1. info.params \in Seq(Arg)
      BY <1>1, BeforeReading
    <3>2. Arguments[m + 1] = Table[i].name
      BY <1>6, <2>3
    <3>3. more = WithParam(info.params, i)
      BY DEF WithParam
    <3> HIDE DEF more
    <3> QED
      BY <1>6, <2>2, <3>1, <3>2, <3>3, SpreadName
  <2> HIDE DEF more
  <2>5. PICK n \in Nat : n = m + 1
    OBVIOUS
  <2>6. SpreadUpto(n, spots)'
    BY <1>3, <1>7, <2>3, <2>4, <2>5 DEF SpreadUpto
  <2> QED
    BY <2>6 DEF SpreadInv
<1>11. CountInv'
  <2>1. Reading'
    BY <1>8 DEF Reading
  <2>2. PrefixFree => Len(Among(Arguments, TableNames))
                          = (Len(info.params) + 1) + Len(Among(left, TableNames))
    <3> SUFFICES ASSUME PrefixFree
                 PROVE  Len(Among(Arguments, TableNames))
                            = (Len(info.params) + 1) + Len(Among(left, TableNames))
      OBVIOUS
    <3>1. Len(Among(Arguments, TableNames))
              = (Len(info.params) + IF text \in TableNames THEN 1 ELSE 0)
                + Len(Among(left, TableNames))
      BY <1>1, <1>5, CountsWord DEF text, left, w
    <3>2. (IF text \in TableNames THEN 1 ELSE 0) = 1
      BY <1>6
    <3> QED
      BY <3>1, <3>2, Zenon
  <2> HIDE DEF more
  <2> QED
    BY <1>3, <1>7, <2>1, <2>2, Zenon DEF CountInv
<1> QED
  BY <1>9, <1>10, <1>11 DEF ShellInv

LEMMA TakeOtherKeepsInv ==
    ASSUME ShellInv, EditorInv', BufOK(buf'), TakeOther
    PROVE  ShellInv'
<1> DEFINE w == Following
           text == Text(buf, w)
           left == WordsFrom(buf, w.end)
<1>1. /\ stage = "words" /\ stage # "line" /\ stage' = stage /\ Reading /\ IsWord(w)
      /\ NamedBy(text) = {}
      /\ word' = w /\ UNCHANGED <<editorVars, cmd>> /\ cmd' = cmd /\ editing' = editing
  BY DEF TakeOther, Reading, editorVars
<1>2. info' = info \/ info' = [info EXCEPT !.defval = text]
  BY DEF TakeOther
<1>3. /\ Arguments' = Arguments /\ Table' = Table /\ TableNames' = TableNames
      /\ PrefixFree' = PrefixFree /\ Remaining' = left
  <2> HIDE DEF left
  <2> QED
    BY <1>1, SameLine DEF left
<1>4. /\ w \in Word /\ text \in Seq(Byte) /\ left \in Words
      /\ text # <<>> /\ Remaining = <<text>> \o left
  BY <1>1, NextArgument DEF ShellInv
<1>5. PrefixFree => text \notin TableNames
  <2> HIDE DEF text
  <2> QED
    BY <1>1, <1>4, NamesAreTaken DEF ShellInv
<1> HIDE DEF w, text, left
<1>6. /\ info'.params = info.params /\ info'.defval \in {info.defval, text}
      /\ info' \in [defval : {NoText} \cup Seq(Byte), params : Seq(Arg)]
  <2>1. info \in [defval : {NoText} \cup Seq(Byte), params : Seq(Arg)]
    BY <1>1, BeforeReading
  <2> QED
    BY <1>2, <1>4, <2>1
<1>7. StateInv'
  <2>1. ArgsOK(Table', info'.params, stage' = "values")
    BY <1>1, <1>3, <1>6, BeforeReading
  <2> QED
    BY <1>1, <1>4, <1>6, <2>1, BeforeReading DEF StateInv
<1>8. SpreadInv'
  <2>0. PICK m \in Nat : \E at : SpreadUpto(m, at)
    BY <1>1, BeforeReading DEF SpreadInv
  <2>1. PICK at : SpreadUpto(m, at)
    BY <2>0
  <2>2. /\ Spread(Table, Arguments, info.params, info.defval, m, at)
        /\ After(Arguments, m, Remaining)
    BY <1>1, <2>1 DEF SpreadUpto
  <2>3. m + 1 <= Len(Arguments) /\ Arguments[m + 1] = text /\ After(Arguments, m + 1, left)
    <3>1. Arguments \in Words
      BY <1>1, BeforeReading
    <3> QED
      BY <1>4, <2>2, <3>1, AfterFirst
  <2>4. Spread(Table, Arguments, info.params, info'.defval, m + 1, at)
    <3>1. info.params \in Seq(Arg)
      BY <1>1, BeforeReading
    <3>2. PICK default : default = info'.defval
      OBVIOUS
    <3>3. default \in {info.defval, Arguments[m + 1]}
      BY <1>6, <2>3, <3>2
    <3>4. Spread(Table, Arguments, info.params, default, m + 1, at)
      BY <2>2, <3>1, <3>3, SpreadOther
    <3> QED
      BY <3>2, <3>4
  <2>5. PICK n \in Nat : n = m + 1
    OBVIOUS
  <2>6. SpreadUpto(n, at)'
    BY <1>1, <1>3, <1>6, <2>3, <2>4, <2>5 DEF SpreadUpto
  <2> QED
    BY <2>6 DEF SpreadInv
<1>9. CountInv'
  <2>1. Reading'
    BY <1>1 DEF Reading
  <2>2. PrefixFree => Len(Among(Arguments, TableNames))
                          = Len(info.params) + Len(Among(left, TableNames))
    <3> SUFFICES ASSUME PrefixFree
                 PROVE  Len(Among(Arguments, TableNames))
                            = Len(info.params) + Len(Among(left, TableNames))
      OBVIOUS
    <3>1. Len(Among(Arguments, TableNames))
              = (Len(info.params) + IF text \in TableNames THEN 1 ELSE 0)
                + Len(Among(left, TableNames))
      BY <1>1, CountsWord DEF text, left, w
    <3>2. (IF text \in TableNames THEN 1 ELSE 0) = 0
      BY <1>5
    <3>3. Len(info.params) + 0 = Len(info.params)
      BY <1>1, BeforeReading
    <3> QED
      BY <3>1, <3>2, <3>3, Zenon
  <2> QED
    BY <1>3, <1>6, <2>1, <2>2, Zenon DEF CountInv
<1> QED
  BY <1>7, <1>8, <1>9 DEF ShellInv

LEMMA TakeValueKeepsInv ==
    ASSUME ShellInv, EditorInv', BufOK(buf'), TakeValue
    PROVE  ShellInv'
<1> DEFINE w == Following
           text == Text(buf, w)
           left == WordsFrom(buf, w.end)
           n == Len(info.params)
           more == [info.params EXCEPT ![n].values = Append(@, text)]
<1>1. /\ stage = "values" /\ stage # "line" /\ Reading /\ IsWord(w) /\ Begins(text) = {}
      /\ word' = w /\ UNCHANGED <<editorVars, cmd>> /\ cmd' = cmd /\ editing' = editing
      /\ info' = [info EXCEPT !.params = more]
      /\ stage' = IF Len(info.params[n].values) + 1 < Table[info.params[n].param].numval
                  THEN "values" ELSE "words"
  BY DEF TakeValue, Reading, editorVars, Suits, Filling
<1>2. /\ Arguments' = Arguments /\ Table' = Table /\ TableNames' = TableNames
      /\ PrefixFree' = PrefixFree /\ Remaining' = left
  <2> HIDE DEF left
  <2> QED
    BY <1>1, SameLine DEF left
<1>3. /\ w \in Word /\ text \in Seq(Byte) /\ left \in Words
      /\ text # <<>> /\ Remaining = <<text>> \o left
  BY <1>1, NextArgument DEF ShellInv
<1>4. text \notin TableNames
  <2> HIDE DEF text
  <2> QED
    BY <1>1, <1>3, NamesAreTaken DEF ShellInv
<1>5. /\ info \in [defval : {NoText} \cup Seq(Byte), params : Seq(Arg)]
      /\ info.params \in Seq(Arg) /\ n \in Nat /\ ArgsOK(Table, info.params, TRUE)
  <2>1. (stage = "values") = TRUE
    BY <1>1
  <2> QED
    BY <1>1, <2>1, BeforeReading
<1> HIDE DEF w, text, left
<1> DEFINE again == Len(info.params[n].values) + 1 < Table[info.params[n].param].numval
<1>6. ArgsOK(Table, more, again)
  <2>1. Table \in Seq(Param)
    BY <1>1, BeforeReading
  <2> QED
    BY <1>3, <1>5, <2>1, ArgIsFilled
<1>7. (stage' = "values") = again /\ stage' \in {"values", "words"}
  BY <1>1
<1>8. n > 0 /\ more \in Seq(Arg) /\ Len(more) = n
  <2>1. more \in Seq(Arg)
    BY <1>6 DEF ArgsOK
  <2>2. n > 0
    BY <1>5 DEF ArgsOK
  <2>3. DOMAIN more = DOMAIN info.params
    OBVIOUS
  <2> HIDE DEF more
  <2> QED
    BY <1>5, <2>1, <2>2, <2>3
<1> HIDE DEF again
<1>9. /\ info'.params = more /\ info'.defval = info.defval
      /\ info' \in [defval : {NoText} \cup Seq(Byte), params : Seq(Arg)]
  <2>1. info' = [info EXCEPT !.params = more]
    BY <1>1
  <2> HIDE DEF more
  <2> QED
    BY <1>5, <1>8, <2>1
<1>10. StateInv'
  <2>1. ArgsOK(Table', info'.params, stage' = "values")
    BY <1>2, <1>6, <1>7, <1>9
  <2> HIDE DEF more
  <2> QED
    BY <1>1, <1>3, <1>7, <1>9, <2>1, BeforeReading DEF StateInv
<1>11. SpreadInv'
  <2>0. PICK m \in Nat : \E at : SpreadUpto(m, at)
    BY <1>1, BeforeReading DEF SpreadInv
  <2>1. PICK at : SpreadUpto(m, at)
    BY <2>0
  <2>2. /\ Spread(Table, Arguments, info.params, info.defval, m, at)
        /\ After(Arguments, m, Remaining) /\ EndsWith(at[n], info.params[n]) = m
    BY <1>1, <2>1 DEF SpreadUpto
  <2>3. m + 1 <= Len(Arguments) /\ Arguments[m + 1] = text /\ After(Arguments, m + 1, left)
    <3>1. Arguments \in Words
      BY <1>1, BeforeReading
    <3> QED
      BY <1>3, <2>2, <3>1, AfterFirst
  <2>4. /\ Spread(Table, Arguments, more, info.defval, m + 1, at)
        /\ EndsWith(at[n], more[n]) = m + 1
    <3>1. more = WithValue(info.params, Arguments[m + 1])
      BY <2>3 DEF WithValue
    <3>2. Arguments[m + 1] \in Seq(Byte)
      BY <1>3, <2>3
    <3>3. n = Len(info.params)
      OBVIOUS
    <3> HIDE DEF more, n
    <3> QED
      BY <1>5, <1>8, <2>2, <3>1, <3>2, <3>3, SpreadValue
  <2> HIDE DEF more
  <2>5. PICK k \in Nat : k = m + 1
    OBVIOUS
  <2>6. SpreadUpto(k, at)'
    BY <1>2, <1>8, <1>9, <2>3, <2>4, <2>5 DEF SpreadUpto
  <2> QED
    BY <2>6 DEF SpreadInv
<1>12. CountInv'
  <2>1. Reading'
    BY <1>7 DEF Reading
  <2>2. PrefixFree => Len(Among(Arguments, TableNames)) = n + Len(Among(left, TableNames))
    <3> SUFFICES ASSUME PrefixFree
                 PROVE  Len(Among(Arguments, TableNames)) = n + Len(Among(left, TableNames))
      OBVIOUS
    <3>1. Len(Among(Arguments, TableNames))
              = (n + IF text \in TableNames THEN 1 ELSE 0) + Len(Among(left, TableNames))
      BY <1>1, CountsWord DEF text, left, w
    <3>2. (IF text \in TableNames THEN 1 ELSE 0) = 0
      BY <1>4
    <3>3. n + 0 = n
      BY <1>5
    <3> QED
      BY <3>1, <3>2, <3>3, Zenon
  <2> HIDE DEF more
  <2> QED
    BY <1>2, <1>8, <1>9, <2>1, <2>2, Zenon DEF CountInv
<1> QED
  BY <1>10, <1>11, <1>12 DEF ShellInv

LEMMA CallBackKeepsInv ==
    ASSUME ShellInv, EditorInv', BufOK(buf'), CallBack
    PROVE  ShellInv'
<1>1. /\ stage = "required" /\ Missing = {} /\ stage' = "callback" /\ stage # "line"
      /\ UNCHANGED <<editorVars, cmd>> /\ cmd' = cmd /\ word' = word /\ info' = info
      /\ editing' = editing
  BY DEF CallBack, editorVars
<1>2. /\ Arguments' = Arguments /\ Table' = Table /\ TableNames' = TableNames
      /\ PrefixFree' = PrefixFree
  BY <1>1, SameLine
<1>3. Missing' = {}
  <2>1. Missing' = Missing
    BY <1>1, <1>2 DEF Missing, Given
  <2> QED
    BY <1>1, <2>1
<1>4. StateInv'
  <2>1. (stage = "values") = FALSE /\ (stage' = "values") = FALSE
    BY <1>1
  <2>2. ArgsOK(Table', info'.params, stage' = "values")
    BY <1>1, <1>2, <2>1, BeforeReading
  <2> QED
    BY <1>1, <1>3, <2>2, BeforeReading DEF StateInv
<1>5. SpreadInv'
  <2>0. PICK m \in Nat : \E at : SpreadUpto(m, at)
    BY <1>1, BeforeReading DEF SpreadInv
  <2>1. PICK at : SpreadUpto(m, at)
    BY <2>0
  <2>2. SpreadUpto(m, at)'
    BY <1>1, <1>2, <2>1 DEF SpreadUpto, Reading
  <2> QED
    BY <2>2 DEF SpreadInv
<1>6. CountInv'
  <2>1. ~Reading /\ ~Reading'
    BY <1>1 DEF Reading
  <2>2. PrefixFree => Len(Among(Arguments, TableNames)) = Len(info.params) + 0
    BY <1>1, <2>1, BeforeReading, Zenon DEF CountInv
  <2> QED
    BY <1>1, <1>2, <2>1, <2>2, Zenon DEF CountInv
<1> QED
  BY <1>4, <1>5, <1>6 DEF ShellInv

\* No key does anything while a command runs.
LEMMA KeysKeepInv ==
    ASSUME ShellInv, EditorInv', BufOK(buf'),
           StartLine \/ PlainKey \/ Tab \/ HelpKey \/ EnterNothing
    PROVE  ShellInv'
<1>1. EditorInv /\ (stage # "line" => ~editing)
  BY DEF ShellInv, StateInv
<1>2. (stage = "line" \/ editing) /\ stage' = stage
  <2>1. CASE StartLine
    BY <2>1 DEF StartLine, runVars
  <2>2. CASE PlainKey
    <3>1. editing \/ rest # <<>> \/ listing
      BY <2>2 DEF PlainKey, Type, Backspace, Delete, ClearLine, ArrowRight, ArrowLeft, End, Home,
         MoveTo, Browse, Complete, ListMatches, Idle
    <3> QED
      BY <1>1, <2>2, <3>1 DEF EditorInv, PlainKey, runVars
  <2>3. CASE Tab
    BY <2>3 DEF Tab, Idle, runVars
  <2>4. CASE HelpKey
    BY <2>4 DEF HelpKey, Help, Idle, runVars
  <2>5. CASE EnterNothing
    BY <2>5 DEF EnterNothing, Return, Idle, runVars
  <2> QED
    BY <2>1, <2>2, <2>3, <2>4, <2>5
<1>3. stage' = "line"
  BY <1>1, <1>2
<1> QED
  BY <1>3, NoLineInvNext

LEMMA ShellInitInv == ShellInit => ShellInv
<1> SUFFICES ASSUME ShellInit
             PROVE  ShellInv
  OBVIOUS
<1>1. EditorInv
  BY EditorInitInv DEF ShellInit
<1>2. BufOK(buf)
  BY <1>1, EditorAssumption DEF ShellInit, EditorInit, BufOK, Byte, Places
<1>3. stage = "line"
  BY DEF ShellInit
<1> QED
  BY <1>1, <1>2, <1>3, NoLineInv

LEMMA UnchangedKeepsInv ==
    ASSUME ShellInv, UNCHANGED shellVars
    PROVE  ShellInv'
<1>1. UNCHANGED <<buf, len, pos, screen, rest, listing, editing, cut, stage, cmd, word, info>>
  BY DEF shellVars, runVars, editorVars
<1>2. UNCHANGED <<editorVars, cmd>> /\ word' = word /\ info' = info /\ stage' = stage
  BY <1>1 DEF editorVars
<1>3. /\ Arguments' = Arguments /\ Table' = Table /\ TableNames' = TableNames
      /\ PrefixFree' = PrefixFree /\ Remaining' = Remaining
  BY <1>2, SameLine DEF Remaining
<1>4. EditorInv' = EditorInv /\ Missing' = Missing
  <2>1. EditorInv' = EditorInv
    BY <1>1 DEF EditorInv, EditorTypeOK, LineOK, Shows, EndsAt
  <2>2. Missing' = Missing
    BY <1>2, <1>3 DEF Missing, Given
  <2> QED
    BY <2>1, <2>2
<1>5. StateInv'
  BY <1>1, <1>3, <1>4 DEF ShellInv, StateInv
<1>6. SpreadInv'
  BY <1>2, <1>3 DEF ShellInv, SpreadInv, SpreadUpto, Reading
<1>7. CountInv'
  <2>1. CountInv
    BY DEF ShellInv
  <2> QED
    BY <1>2, <1>3, <2>1, Zenon DEF CountInv, Reading
<1> QED
  BY <1>5, <1>6, <1>7 DEF ShellInv

LEMMA ShellStepKeepsInv ==
    ShellInv /\ [ShellNext]_shellVars => ShellInv'
<1> SUFFICES ASSUME ShellInv, [ShellNext]_shellVars
             PROVE  ShellInv'
  OBVIOUS
<1>1. EditorInv' /\ BufOK(buf')
  BY EditorPartKept
<1>2. CASE UNCHANGED shellVars
  BY <1>2, UnchangedKeepsInv
<1>3. CASE StartLine \/ PlainKey \/ Tab \/ HelpKey \/ EnterNothing
  BY <1>1, <1>3, KeysKeepInv
<1>4. CASE EnterCommand
  BY <1>1, <1>4, EnterKeepsInv
<1>5. CASE NoMoreWords
  BY <1>1, <1>5, NoMoreWordsKeepsInv
<1>6. CASE TakeName
  BY <1>1, <1>6, TakeNameKeepsInv
<1>7. CASE TakeOther
  BY <1>1, <1>7, TakeOtherKeepsInv
<1>8. CASE TakeValue
  BY <1>1, <1>8, TakeValueKeepsInv
<1>9. CASE MissingValue \/ MissingParameter \/ CallbackReturns
  <2>1. stage' = "line"
    BY <1>9 DEF MissingValue, MissingParameter, CallbackReturns, Done
  <2> QED
    BY <1>1, <2>1, NoLineInvNext
<1>10. CASE CallBack
  BY <1>1, <1>10, CallBackKeepsInv
<1> QED
  BY <1>2, <1>3, <1>4, <1>5, <1>6, <1>7, <1>8, <1>9, <1>10
  DEF ShellNext, Keys, Runs, CreateCmdinfo

LEMMA ShellInvHolds == ShellSpec => []ShellInv
BY ShellInitInv, ShellStepKeepsInv, PTL DEF ShellSpec

-----------------------------------------------------------------------------
(* What the words of a line name.                                          *)

\* A step of CommandsOf: the command that word n names below those before it.
Below(above, n) == IF n = 1 THEN CmdList ELSE SubCmds[Last(above)]

NamedBelow(words, n, above) ==
    {i \in DOMAIN Below(above, n) : NameOf[Below(above, n)[i]] = words[n]}

Further(words, n, above) ==
    IF Len(above) < n - 1 \/ NamedBelow(words, n, above) = {} THEN above
    ELSE Append(above, Below(above, n)[Min(NamedBelow(words, n, above))])

ChainOf(words) ==
    CHOOSE f : f = [n \in 0..Len(words) |-> IF n = 0 THEN <<>> ELSE Further(words, n, f[n - 1])]

LEMMA FurtherIs ==
    ASSUME NEW words \in Words, NEW n \in Nat \ {0}, NEW above \in Seq(Cmds)
    PROVE  Further(words, n, above) \in Seq(Cmds)
<1>1. CASE Len(above) < n - 1 \/ NamedBelow(words, n, above) = {}
  BY <1>1 DEF Further
<1>2. CASE ~(Len(above) < n - 1) /\ NamedBelow(words, n, above) # {}
  <2> DEFINE list == Below(above, n)
             hits == NamedBelow(words, n, above)
  <2>1. list \in Seq(Cmds)
    <3>1. CASE n = 1
      BY <3>1, ShellAssumption DEF Below
    <3>2. CASE n # 1
      <4>1. Len(above) \in 1..Len(above)
        BY <1>2, <3>2
      <4>2. Last(above) \in Cmds
        BY <4>1 DEF Last
      <4> QED
        BY <3>2, <4>2, ShellAssumption DEF Below
    <3> QED
      BY <3>1, <3>2
  <2>2. hits # {} /\ hits \subseteq DOMAIN list
    BY <1>2 DEF NamedBelow
  <2> HIDE DEF list, hits
  <2>3. hits \subseteq Nat
    BY <2>1, <2>2
  <2>4. Min(hits) \in hits
    <3>1. \E x \in hits : \A y \in hits : x <= y
      BY <2>2, <2>3, LeastNumber
    <3> QED
      BY <3>1 DEF Min
  <2>5. list[Min(hits)] \in Cmds
    BY <2>1, <2>2, <2>4
  <2>6. Further(words, n, above) = Append(above, list[Min(hits)])
    BY <1>2 DEF Further, list, hits
  <2> QED
    BY <2>5, <2>6
<1> QED
  BY <1>1, <1>2

LEMMA ChainIs ==
    ASSUME NEW words \in Words
    PROVE  /\ CommandsOf(words) = ChainOf(words)[Len(words)]
           /\ ChainOf(words)[0] = <<>>
           /\ \A n \in 0..Len(words) : ChainOf(words)[n] \in Seq(Cmds)
           /\ \A n \in 1..Len(words) :
                  ChainOf(words)[n] = Further(words, n, ChainOf(words)[n - 1])
<1> DEFINE D == 0..Len(words)
           S == Seq(Cmds)
           F(f) == [n \in D |-> IF n = 0 THEN <<>> ELSE Further(words, n, f[n - 1])]
           stops == {0}
           val == [n \in D |-> <<>>]
           next == [n \in D |-> n - 1]
           step == [a \in D \X S |-> IF a[1] = 0 THEN <<>> ELSE Further(words, a[1], a[2])]
           mu == [n \in D |-> n]
           chain == ChainOf(words)
<1>1. Len(words) \in Nat
  BY DEF Words
<1>2. mu \in [D -> Nat] /\ val \in [D -> S]
  OBVIOUS
<1>3. step \in StepsBack(D, S)
  <2> SUFFICES ASSUME NEW a \in D \X S
               PROVE  (IF a[1] = 0 THEN <<>> ELSE Further(words, a[1], a[2])) \in S
    BY DEF StepsBack
  <2>1. a[1] \in D /\ a[2] \in S
    OBVIOUS
  <2>2. CASE a[1] = 0
    BY <2>2
  <2>3. CASE a[1] # 0
    <3>1. a[1] \in Nat \ {0}
      BY <1>1, <2>1, <2>3
    <3>2. Further(words, a[1], a[2]) \in Seq(Cmds)
      BY <2>1, <3>1, FurtherIs
    <3> QED
      BY <2>3, <3>2
  <2> QED
    BY <2>2, <2>3
<1>4. ASSUME NEW x \in D \ stops
      PROVE  next[x] \in D /\ mu[next[x]] < mu[x]
  BY <1>1
<1>5. ASSUME NEW f, f \in [D -> S]
      PROVE  Descends(f, D, stops, val, next, step) => f = F(f)
  <2>1. ASSUME NEW x \in D
        PROVE  (IF x \in stops THEN val[x] ELSE step[<<x, f[next[x]]>>]) = F(f)[x]
    <3>1. CASE x = 0
      BY <3>1
    <3>2. CASE x # 0
      <4>1. next[x] = x - 1 /\ x - 1 \in D
        BY <1>1, <3>2
      <4>2. f[x - 1] \in S
        BY <1>5, <4>1, Zenon
      <4>3. step[<<x, f[x - 1]>>] = Further(words, x, f[x - 1])
        BY <3>2, <4>2
      <4> HIDE DEF val, next, step
      <4> QED
        BY <3>2, <4>1, <4>3
    <3> QED
      BY <3>1, <3>2
  <2>2. F(f) = [x \in D |-> F(f)[x]]
    OBVIOUS
  <2> HIDE DEF F, D, stops, val, next, step
  <2> QED
    BY <2>1, <2>2 DEF Descends
<1>6. \E f : f = F(f)
  <2>1. \E f : f \in [D -> S] /\ Descends(f, D, stops, val, next, step)
    <3> HIDE DEF D, S, stops, val, next, step, mu
    <3> QED
      BY <1>2, <1>3, <1>4, DescentExists
  <2> HIDE DEF F, D, S, stops, val, next, step
  <2> QED
    BY <1>5, <2>1
<1>7. chain = F(chain)
  <2>1. chain = CHOOSE f : f = F(f)
    BY DEF ChainOf
  <2> HIDE DEF F, chain
  <2> QED
    BY <1>6, <2>1
<1>8. CommandsOf(words) = chain[Len(words)]
  BY DEF CommandsOf, ChainOf, Further, NamedBelow, Below
<1> HIDE DEF chain
<1>9. ASSUME NEW n \in D
      PROVE  chain[n] = IF n = 0 THEN <<>> ELSE Further(words, n, chain[n - 1])
  BY <1>7
<1> DEFINE T == {n \in Nat : n <= Len(words) => chain[n] \in S}
<1>10. 0 \in T
  <2>1. 0 \in D
    BY <1>1
  <2>2. chain[0] = <<>>
    BY <1>9, <2>1
  <2>3. <<>> \in S
    OBVIOUS
  <2> QED
    BY <2>2, <2>3
<1>11. ASSUME NEW n \in Nat, n \in T
       PROVE  n + 1 \in T
  <2> SUFFICES ASSUME n + 1 <= Len(words)
               PROVE  chain[n + 1] \in S
    OBVIOUS
  <2>1. n + 1 \in D /\ n + 1 \in Nat \ {0} /\ (n + 1) - 1 = n /\ n <= Len(words)
    BY <1>1
  <2>2. chain[n + 1] = Further(words, n + 1, chain[n])
    BY <1>9, <2>1
  <2>3. chain[n] \in Seq(Cmds)
    BY <1>11, <2>1
  <2> QED
    BY <2>1, <2>2, <2>3, FurtherIs
<1>12. \A n \in Nat : n \in T
  <2> HIDE DEF T
  <2> QED
    BY <1>10, <1>11, SetInduction
<1>13. \A n \in D : chain[n] \in S
  BY <1>1, <1>12
<1>14. chain[0] = <<>> /\ \A n \in 1..Len(words) : chain[n] = Further(words, n, chain[n - 1])
  BY <1>1, <1>9
<1> QED
  BY <1>8, <1>13, <1>14 DEF chain

\* Once a word names no command, the words behind it name none.
LEMMA ChainStays ==
    ASSUME NEW words \in Words, NEW n \in 0..Len(words), NEW chain, chain = ChainOf(words),
           Len(chain[n]) = n, n < Len(words) => chain[n + 1] = chain[n]
    PROVE  CommandsOf(words) = chain[n]
<1>1. Len(words) \in Nat
  BY DEF Words
<1>2. /\ CommandsOf(words) = chain[Len(words)]
      /\ \A k \in 1..Len(words) : chain[k] = Further(words, k, chain[k - 1])
  BY ChainIs
<1> DEFINE T == {d \in Nat : n + d <= Len(words) => chain[n + d] = chain[n]}
<1>3. 0 \in T
  <2>1. n + 0 = n
    BY <1>1
  <2> QED
    BY <2>1
<1>4. ASSUME NEW d \in Nat, d \in T
      PROVE  d + 1 \in T
  <2> SUFFICES ASSUME n + (d + 1) <= Len(words)
               PROVE  chain[n + (d + 1)] = chain[n]
    OBVIOUS
  <2>1. PICK k \in 1..Len(words) : k = n + (d + 1)
    BY <1>1
  <2>2. k - 1 = n + d /\ n + d <= Len(words) /\ n < Len(words)
    BY <1>1, <2>1
  <2>3. chain[n + d] = chain[n]
    BY <1>4, <2>2
  <2>4. CASE d = 0
    BY <2>1, <2>2, <2>4
  <2>5. CASE d # 0
    <3>1. Len(chain[n]) < k - 1
      BY <1>1, <2>1, <2>5
    <3>2. Further(words, k, chain[n]) = chain[n]
      BY <3>1 DEF Further
    <3>3. chain[k] = Further(words, k, chain[k - 1])
      BY <1>2
    <3> QED
      BY <2>1, <2>2, <2>3, <3>2, <3>3
  <2> QED
    BY <2>4, <2>5
<1>5. \A d \in Nat : d \in T
  <2> HIDE DEF T
  <2> QED
    BY <1>3, <1>4, SetInduction
<1>6. PICK d \in Nat : n + d = Len(words)
  <2>1. Len(words) - n \in Nat /\ n + (Len(words) - n) = Len(words)
    BY <1>1
  <2> QED
    BY <2>1
<1>7. n + d <= Len(words)
  BY <1>1, <1>6
<1> QED
  BY <1>2, <1>5, <1>6, <1>7

\* One blank between words, none before the first, and nothing behind the line's NUL.
Tidy(b) ==
    /\ BufOK(b) /\ ByteAt(b, 0) # Blank
    /\ \A i \in Nat : /\ ByteAt(b, i) = Blank => ByteAt(b, i + 1) # Blank
                      /\ ByteAt(b, i) = Nul => ByteAt(b, i + 1) = Nul

LEMMA PlainIsTidy ==
    ASSUME LineOK(buf, len, pos), buf[MaxLen] = Nul, Plain(buf), Clean(buf)
    PROVE  Tidy(buf) /\ pos \in Nat
<1>1. /\ BufOK(buf) /\ pos \in Nat /\ len \in Nat /\ len <= MaxLen /\ MaxLen \in Nat
      /\ \A i \in 0..MaxLen : ByteAt(buf, i) = buf[i]
      /\ \A i \in 0..(len - 1) : buf[i] \in Chars
  BY LineIsABuffer
<1>2. StrEnd(buf) = len
  BY StrEndIs
<1>3. Nul # Blank /\ Nul \notin Chars
  BY EditorAssumption
<1>4. ASSUME NEW i \in Nat, i >= len
      PROVE  ByteAt(buf, i) = Nul
  <2>1. CASE i <= MaxLen
    <3>1. i \in len..MaxLen /\ i \in 0..MaxLen
      BY <1>1, <1>4, <2>1
    <3> QED
      BY <1>1, <1>2, <3>1 DEF Clean
  <2>2. CASE i > MaxLen
    BY <1>1, <2>2, ByteAtIs
  <2> QED
    BY <1>1, <2>1, <2>2
<1>5. ASSUME NEW i \in Nat, ByteAt(buf, i) = Blank
      PROVE  ByteAt(buf, i + 1) # Blank
  <2>1. i < len
    BY <1>1, <1>3, <1>4, <1>5
  <2>2. i + 1 \in 1..len /\ (i + 1) - 1 = i
    BY <1>1, <2>1
  <2>3. ~(ByteAt(buf, (i + 1) - 1) = Blank /\ ByteAt(buf, i + 1) = Blank)
    BY <1>2, <2>2 DEF Plain
  <2> QED
    BY <1>5, <2>2, <2>3
<1>6. ASSUME NEW i \in Nat, ByteAt(buf, i) = Nul
      PROVE  ByteAt(buf, i + 1) = Nul
  <2>1. ~(i < len)
    <3> SUFFICES ASSUME i < len
                 PROVE  FALSE
      OBVIOUS
    <3>1. i \in 0..(len - 1) /\ i \in 0..MaxLen
      BY <1>1
    <3> QED
      BY <1>1, <1>3, <1>6, <3>1
  <2>2. i + 1 \in Nat /\ i + 1 >= len
    BY <1>1, <2>1
  <2> QED
    BY <1>4, <2>2
<1> QED
  BY <1>1, <1>5, <1>6 DEF Plain, Tidy

\* Behind a word the search resumes where the next one begins.
LEMMA NextWordFollows ==
    ASSUME NEW b, Tidy(b), NEW i \in 0..(MaxLen + 1), ByteAt(b, i) # Blank,
           NEW w, w = NextWord(b, i), IsWord(w), w.end <= MaxLen
    PROVE  /\ w.start = i /\ w.end \in Nat
           /\ w.end + 1 \in 0..(MaxLen + 1) /\ ByteAt(b, w.end + 1) # Blank
           /\ WordsFrom(b, w.end + 1) = WordsFrom(b, w.end)
<1>1. MaxLen \in Nat /\ BufOK(b) /\ Nul # Blank
  BY EditorAssumption DEF Tidy
<1>2. /\ w.start \in i..(MaxLen + 1) /\ w.end \in w.start..(MaxLen + 1)
      /\ \A k \in i..(w.start - 1) : ByteAt(b, k) = Blank
      /\ ByteAt(b, w.end) \in {Blank, Nul}
  BY <1>1, NextWordIs
<1>3. w.start = i
  <2> SUFFICES ASSUME w.start # i
               PROVE  FALSE
    OBVIOUS
  <2>1. i \in i..(w.start - 1)
    BY <1>1, <1>2
  <2> QED
    BY <1>2, <2>1
<1>4. PICK e \in 0..MaxLen : e = w.end
  BY <1>1, <1>2
<1>5. e \in Nat /\ e \in 0..(MaxLen + 1) /\ e + 1 \in 0..(MaxLen + 1)
  BY <1>1
<1>6. /\ ByteAt(b, e) = Blank => ByteAt(b, e + 1) # Blank
      /\ ByteAt(b, e) = Nul => ByteAt(b, e + 1) = Nul
  BY <1>5 DEF Tidy
<1>7. ByteAt(b, e + 1) # Blank
  BY <1>1, <1>2, <1>4, <1>6
<1>8. PICK v, u : v = NextWord(b, e) /\ u = NextWord(b, e + 1)
  OBVIOUS
<1>9. u.start = e + 1
  <2>1. u.start \in (e + 1)..(MaxLen + 1) /\ \A k \in (e + 1)..(u.start - 1) : ByteAt(b, k) = Blank
    BY <1>1, <1>5, <1>8, NextWordIs
  <2>2. ~(u.start > e + 1)
    <3> SUFFICES ASSUME u.start > e + 1
                 PROVE  FALSE
      OBVIOUS
    <3>1. e + 1 \in (e + 1)..(u.start - 1)
      BY <1>5, <2>1
    <3> QED
      BY <1>7, <2>1, <3>1
  <2> QED
    BY <1>5, <2>1, <2>2
<1>10. /\ v.start \in e..(MaxLen + 1) /\ v.end \in v.start..(MaxLen + 1)
       /\ ByteAt(b, v.start) # Blank
       /\ \A k \in e..(v.start - 1) : ByteAt(b, k) = Blank
       /\ \A k \in v.start..(v.end - 1) : ByteAt(b, k) \notin {Blank, Nul}
  BY <1>1, <1>5, <1>8, NextWordIs
<1>11. CASE ByteAt(b, e) = Blank
  <2>1. v.start = e + 1
    <3>1. v.start # e
      BY <1>10, <1>11
    <3>2. ~(v.start > e + 1)
      <4> SUFFICES ASSUME v.start > e + 1
                   PROVE  FALSE
        OBVIOUS
      <4>1. e + 1 \in e..(v.start - 1)
        BY <1>5, <1>10
      <4> QED
        BY <1>7, <1>10, <4>1
    <3> QED
      BY <1>5, <1>10, <3>1, <3>2
  <2>2. v = [start |-> v.start, end |-> WordEnd(b, v.start)]
    BY <1>8 DEF NextWord
  <2>3. u = [start |-> u.start, end |-> WordEnd(b, u.start)]
    BY <1>8 DEF NextWord
  <2>4. v = u
    BY <1>9, <2>1, <2>2, <2>3
  <2>5. /\ IsWord(v) => WordsFrom(b, e) = <<Text(b, v)>> \o WordsFrom(b, v.end)
        /\ ~IsWord(v) => WordsFrom(b, e) = <<>>
    BY <1>1, <1>5, <1>8, WordsFromIs
  <2>6. /\ IsWord(u) => WordsFrom(b, e + 1) = <<Text(b, u)>> \o WordsFrom(b, u.end)
        /\ ~IsWord(u) => WordsFrom(b, e + 1) = <<>>
    BY <1>1, <1>5, <1>8, WordsFromIs
  <2>7. WordsFrom(b, e + 1) = WordsFrom(b, e)
    BY <2>4, <2>5, <2>6
  <2> QED
    BY <1>3, <1>4, <1>5, <1>7, <2>7
<1>12. CASE ByteAt(b, e) = Nul
  <2>1. ByteAt(b, e + 1) = Nul
    BY <1>6, <1>12
  <2>2. ~IsWord(v)
    <3> SUFFICES ASSUME v.start < v.end
                 PROVE  FALSE
      BY DEF IsWord
    <3>1. v.start = e
      <4> SUFFICES ASSUME v.start > e
                   PROVE  FALSE
        BY <1>5, <1>10
      <4>1. e \in e..(v.start - 1)
        BY <1>5, <1>10
      <4> QED
        BY <1>1, <1>10, <1>12, <4>1
    <3>2. e \in v.start..(v.end - 1)
      BY <1>5, <1>10, <3>1
    <3> QED
      BY <1>10, <1>12, <3>2
  <2>3. ~IsWord(u)
    <3> SUFFICES ASSUME u.start < u.end
                 PROVE  FALSE
      BY DEF IsWord
    <3>1. u.end \in u.start..(MaxLen + 1) /\ \A k \in u.start..(u.end - 1) : ByteAt(b, k) \notin {Blank, Nul}
      BY <1>1, <1>5, <1>8, NextWordIs
    <3>2. e + 1 \in u.start..(u.end - 1)
      BY <1>5, <1>9, <3>1
    <3> QED
      BY <2>1, <3>1, <3>2
  <2>4. WordsFrom(b, e) = <<>> /\ WordsFrom(b, e + 1) = <<>>
    BY <1>1, <1>5, <1>8, <2>2, <2>3, WordsFromIs
  <2> QED
    BY <1>3, <1>4, <1>5, <1>7, <2>4
<1> QED
  BY <1>2, <1>4, <1>11, <1>12

\* The search has come behind the first n words, each of which names a command.
Reached(b, words, n, x) ==
    /\ n \in 0..Len(words) /\ x \in Searches /\ ByteAt(b, x.at) # Blank
    /\ After(words, n, WordsFrom(b, x.at))
    /\ Len(ChainOf(words)[n]) = n
    /\ x.cmd = IF n = 0 THEN NoCmd ELSE Last(ChainOf(words)[n])
    /\ n = 0 => x = LineStart
    /\ n = 1 => x.next = NextWord(b, 0).end
    /\ n > 0 => x.at = x.next + 1 /\ ByteAt(b, x.next) \in {Blank, Nul}

Onward(b, x, above) ==
    IF Hits(b, x) = {} THEN above ELSE Append(above, ListBelow(x.cmd)[Min(Hits(b, x))])

LEMMA ReachedList ==
    ASSUME NEW b, NEW words \in Words, NEW n \in Nat, n < Len(words), NEW x, Reached(b, words, n, x),
           words[n + 1] = Text(b, NextWord(b, x.at))
    PROVE  ChainOf(words)[n + 1] = Onward(b, x, ChainOf(words)[n])
<1>1. PICK above : above = ChainOf(words)[n]
  OBVIOUS
<1>2. Len(words) \in Nat /\ n \in 0..Len(words) /\ n + 1 \in 1..Len(words) /\ (n + 1) - 1 = n
  BY DEF Words
<1>3. above \in Seq(Cmds) /\ ChainOf(words)[n + 1] = Further(words, n + 1, above)
  BY <1>1, <1>2, ChainIs
<1>4. Len(above) = n /\ x.cmd = IF n = 0 THEN NoCmd ELSE Last(above)
  BY <1>1 DEF Reached
<1>5. Below(above, n + 1) = ListBelow(x.cmd)
  <2>1. CASE n = 0
    BY <1>4, <2>1 DEF Below, ListBelow
  <2>2. CASE n # 0
    <3>1. above[Len(above)] \in Cmds
      BY <1>3, <1>4, <2>2
    <3>2. x.cmd = Last(above) /\ x.cmd # NoCmd
      BY <1>4, <2>2, <3>1, ShellAssumption DEF Last
    <3>3. n + 1 # 1
      BY <2>2
    <3> QED
      BY <3>2, <3>3 DEF Below, ListBelow
  <2> QED
    BY <2>1, <2>2
<1>6. NamedBelow(words, n + 1, above) = Hits(b, x)
  BY <1>5 DEF NamedBelow, Hits, Named
<1>7. ~(Len(above) < (n + 1) - 1)
  BY <1>2, <1>4
<1> QED
  BY <1>1, <1>3, <1>5, <1>6, <1>7 DEF Further, Onward

LEMMA ReachedGoesOn ==
    ASSUME NEW b, Tidy(b), NEW words \in Words, NEW n \in Nat, NEW x, Reached(b, words, n, x),
           Hit(b, x), NEW y, y = Descend(b, x)
    PROVE  Reached(b, words, n + 1, y) /\ \A p \in Nat : y.next # y.at + p
<1>1. BufOK(b) /\ MaxLen \in Nat /\ x \in Searches /\ x.at \in 0..(MaxLen + 1)
  BY EditorAssumption DEF Tidy, Reached, Searches
<1>2. PICK w, text : w = NextWord(b, x.at) /\ text = Text(b, w)
  OBVIOUS
<1>3. IsWord(w) /\ Hits(b, x) # {}
  BY <1>2 DEF Hit
<1>4. y \in Searches /\ y.cmd \in Cmds
  BY <1>1, SearchDescends
<1>5. /\ y.at = x.at + (w.end - w.start) + 1 /\ y.next = w.end
      /\ y.cmd = ListBelow(x.cmd)[Min(Hits(b, x))]
  BY <1>2 DEF Descend, ResumesAt
<1>6. w.end <= MaxLen
  BY <1>1, <1>4, <1>5 DEF Searches
<1>7. /\ w.start = x.at /\ w.end \in Nat
      /\ w.end + 1 \in 0..(MaxLen + 1) /\ ByteAt(b, w.end + 1) # Blank
      /\ WordsFrom(b, w.end + 1) = WordsFrom(b, w.end)
  BY <1>1, <1>2, <1>3, <1>6, NextWordFollows DEF Reached
<1>8. y.at = w.end + 1
  BY <1>1, <1>5, <1>7
<1>9. text \in Seq(Byte)
  BY <1>1, <1>2, TextIs
<1>10. PICK left : left = WordsFrom(b, w.end)
  OBVIOUS
<1>11. left \in Words /\ WordsFrom(b, x.at) = <<text>> \o left
  <2>1. w.end \in 0..(MaxLen + 1)
    BY <1>1, <1>6, <1>7
  <2> QED
    BY <1>1, <1>2, <1>3, <1>10, <2>1, WordsFromIs
<1>12. n + 1 <= Len(words) /\ words[n + 1] = text /\ After(words, n + 1, left)
  <2>1. PICK all : all = <<text>> \o left
    OBVIOUS
  <2>2. After(words, n, all)
    BY <1>11, <2>1 DEF Reached
  <2> QED
    BY <1>9, <1>11, <2>1, <2>2, AfterFirst
<1>13. n \in 0..Len(words) /\ Len(words) \in Nat /\ n < Len(words) /\ n + 1 \in 0..Len(words)
       /\ n + 1 # 0
  BY <1>12 DEF Reached, Words
<1>14. PICK above, list, hits : /\ above = ChainOf(words)[n] /\ list = ListBelow(x.cmd)
                                /\ hits = Hits(b, x)
  OBVIOUS
<1>15. ChainOf(words)[n + 1] = Append(above, list[Min(hits)])
  <2>1. n < Len(words) /\ words[n + 1] = Text(b, NextWord(b, x.at))
    BY <1>2, <1>12, <1>13
  <2>2. ChainOf(words)[n + 1] = Onward(b, x, ChainOf(words)[n])
    BY <2>1, ReachedList
  <2> QED
    BY <1>3, <1>14, <2>2 DEF Onward
<1>16. above \in Seq(Cmds) /\ Len(above) = n
  BY <1>13, <1>14, ChainIs DEF Reached
<1>17. y.cmd = list[Min(hits)]
  BY <1>5, <1>14
<1>18. Len(Append(above, y.cmd)) = n + 1 /\ Append(above, y.cmd)[n + 1] = y.cmd
  BY <1>4, <1>16
<1>19. Len(ChainOf(words)[n + 1]) = n + 1 /\ Last(ChainOf(words)[n + 1]) = y.cmd
  BY <1>15, <1>17, <1>18 DEF Last
<1>20. After(words, n + 1, WordsFrom(b, y.at)) /\ ByteAt(b, y.at) # Blank
  BY <1>7, <1>8, <1>10, <1>12
<1>21. \A p \in Nat : y.next # y.at + p
  BY <1>5, <1>7, <1>8
<1>22. n + 1 = 1 => y.next = NextWord(b, 0).end
  <2> SUFFICES ASSUME n = 0
               PROVE  y.next = NextWord(b, 0).end
    OBVIOUS
  <2>1. x.at = 0
    BY DEF Reached, LineStart
  <2> QED
    BY <1>2, <1>5, <2>1
<1>23. y.at = y.next + 1 /\ ByteAt(b, y.next) \in {Blank, Nul}
  BY <1>1, <1>2, <1>5, <1>8, NextWordIs
<1> QED
  BY <1>4, <1>13, <1>19, <1>20, <1>21, <1>22, <1>23 DEF Reached

\* Where the search stops, the next word adds nothing to the chain of commands.
LEMMA ReachedStops ==
    ASSUME NEW b, Tidy(b), NEW words \in Words, NEW n \in Nat, NEW x, Reached(b, words, n, x),
           ~Hit(b, x), n < Len(words)
    PROVE  ChainOf(words)[n + 1] = ChainOf(words)[n]
<1>1. BufOK(b) /\ MaxLen \in Nat /\ x \in Searches /\ x.at \in 0..(MaxLen + 1)
  BY EditorAssumption DEF Tidy, Reached, Searches
<1>2. PICK w, text : w = NextWord(b, x.at) /\ text = Text(b, w)
  OBVIOUS
<1>3. n \in 0..Len(words) /\ Len(words) \in Nat
  BY DEF Reached, Words
<1>4. IsWord(w)
  <2> SUFFICES ASSUME ~IsWord(w)
               PROVE  FALSE
    OBVIOUS
  <2>1. WordsFrom(b, x.at) = <<>>
    BY <1>1, <1>2, WordsFromIs
  <2>2. Len(words) = n + Len(<<>>)
    BY <2>1 DEF Reached, After
  <2> QED
    BY <1>3, <2>2
<1>5. Hits(b, x) = {}
  BY <1>2, <1>4 DEF Hit
<1>6. text \in Seq(Byte) /\ w.end \in 0..(MaxLen + 1)
  BY <1>1, <1>2, TextIs
<1>7. WordsFrom(b, w.end) \in Words /\ WordsFrom(b, x.at) = <<text>> \o WordsFrom(b, w.end)
  BY <1>1, <1>2, <1>4, <1>6, WordsFromIs
<1>8. words[n + 1] = text
  <2>1. PICK all, left : all = <<text>> \o left /\ left = WordsFrom(b, w.end)
    OBVIOUS
  <2>2. After(words, n, all)
    BY <1>7, <2>1 DEF Reached
  <2> QED
    BY <1>6, <1>7, <2>1, <2>2, AfterFirst
<1>9. ChainOf(words)[n + 1] = Onward(b, x, ChainOf(words)[n])
  BY <1>2, <1>8, ReachedList
<1> QED
  BY <1>5, <1>9 DEF Onward

\* Words that agree up to a place name the same commands up to it.
LEMMA SameChain ==
    ASSUME NEW before \in Words, NEW words \in Words, Len(before) <= Len(words),
           \A k \in 1..Len(before) : before[k] = words[k]
    PROVE  \A n \in 0..Len(before) : ChainOf(before)[n] = ChainOf(words)[n]
<1>1. Len(before) \in Nat /\ Len(words) \in Nat
  BY DEF Words
<1>2. PICK front, chain : front = ChainOf(before) /\ chain = ChainOf(words)
  OBVIOUS
<1>3. front[0] = <<>> /\ \A n \in 1..Len(before) : front[n] = Further(before, n, front[n - 1])
  BY <1>2, ChainIs
<1>4. chain[0] = <<>> /\ \A n \in 1..Len(words) : chain[n] = Further(words, n, chain[n - 1])
  BY <1>2, ChainIs
<1> DEFINE T == {n \in Nat : n <= Len(before) => front[n] = chain[n]}
<1>5. 0 \in T
  BY <1>3, <1>4
<1>6. ASSUME NEW n \in Nat, n \in T
      PROVE  n + 1 \in T
  <2> SUFFICES ASSUME n + 1 <= Len(before)
               PROVE  front[n + 1] = chain[n + 1]
    OBVIOUS
  <2>1. PICK k \in 1..Len(before) : k = n + 1
    BY <1>1
  <2>2. k \in 1..Len(words) /\ k - 1 = n /\ n <= Len(before)
    BY <1>1, <2>1
  <2>3. PICK above : above = chain[n]
    OBVIOUS
  <2>4. front[n] = above
    BY <1>6, <2>2, <2>3
  <2>5. front[k] = Further(before, k, above)
    BY <1>3, <2>2, <2>4
  <2>6. chain[k] = Further(words, k, above)
    BY <1>4, <2>2, <2>3
  <2>7. NamedBelow(before, k, above) = NamedBelow(words, k, above)
    BY DEF NamedBelow
  <2>8. Further(before, k, above) = Further(words, k, above)
    BY <2>7 DEF Further
  <2> QED
    BY <2>1, <2>5, <2>6, <2>8
<1>7. \A n \in Nat : n \in T
  <2> HIDE DEF T
  <2> QED
    BY <1>5, <1>6, SetInduction
<1> QED
  BY <1>1, <1>2, <1>7

\* The command found is the one named by any words that begin the line, if they hold
\* those that name it.
LEMMA ReachedByFront ==
    ASSUME NEW b, Tidy(b), NEW words \in Words, NEW n \in Nat, NEW x, Reached(b, words, n, x),
           ~Hit(b, x), NEW before \in Words, n <= Len(before), Len(before) <= Len(words),
           \A k \in 1..Len(before) : before[k] = words[k]
    PROVE  x.cmd = Meant(before)
<1>1. n \in 0..Len(before) /\ Len(before) \in Nat /\ Len(words) \in Nat
  BY DEF Words
<1>2. PICK front, chain : front = ChainOf(before) /\ chain = ChainOf(words)
  OBVIOUS
<1>3. \A k \in 0..Len(before) : front[k] = chain[k]
  BY <1>2, SameChain
<1>4. front[n] = chain[n]
  BY <1>1, <1>3
<1>5. Len(chain[n]) = n
  BY <1>2 DEF Reached
<1>6. n < Len(before) => front[n + 1] = front[n]
  <2> SUFFICES ASSUME n < Len(before)
               PROVE  front[n + 1] = front[n]
    OBVIOUS
  <2>1. n < Len(words) /\ n + 1 \in 0..Len(before)
    BY <1>1
  <2>2. chain[n + 1] = chain[n]
    BY <1>2, <2>1, ReachedStops
  <2> QED
    BY <1>3, <1>4, <2>1, <2>2
<1>7. CommandsOf(before) = front[n]
  BY <1>1, <1>2, <1>4, <1>5, <1>6, ChainStays
<1>8. CASE n = 0
  <2>1. front[n] = <<>>
    BY <1>2, <1>8, ChainIs
  <2> QED
    BY <1>7, <1>8, <2>1 DEF Meant, Reached
<1>9. CASE n # 0
  <2>1. front[n] # <<>>
    BY <1>4, <1>5, <1>9
  <2>2. x.cmd = Last(chain[n])
    BY <1>2, <1>9 DEF Reached
  <2> QED
    BY <1>4, <1>7, <2>1, <2>2 DEF Meant
<1> QED
  BY <1>8, <1>9

LEMMA ReachedIsMeant ==
    ASSUME NEW b, Tidy(b), NEW words \in Words, NEW n \in Nat, NEW x, Reached(b, words, n, x),
           ~Hit(b, x)
    PROVE  x.cmd = Meant(words)
<1>1. Len(words) \in Nat /\ n <= Len(words)
  BY DEF Reached, Words
<1> QED
  BY <1>1, ReachedByFront

\* On a tidy line find_active_cmd goes on to the last word that names a command.
LEMMA SearchReaches ==
    ASSUME NEW b, Tidy(b), NEW p \in Nat, NEW x, x = FindActiveCmd(b, p),
           NEW words, words = WordsFrom(b, 0)
    PROVE  ~Hit(b, x) /\ \E n \in Nat : Reached(b, words, n, x)
<1> DEFINE S == Searches
           mu == [y \in S |-> (MaxLen + 1) - y.at]
<1>1. BufOK(b) /\ MaxLen \in Nat /\ 0 \in 0..(MaxLen + 1)
  BY EditorAssumption DEF Tidy
<1>2. PICK found : found = FoundBy(b, p)
  OBVIOUS
<1>3. words \in Words
  BY <1>1, WordsFromIs
<1>4. x = found[LineStart]
  BY <1>1, <1>2, FoundIs
<1>5. ASSUME NEW y \in S
      PROVE  found[y] = IF ~Hit(b, y) THEN y
                        ELSE IF Descend(b, y).next = Descend(b, y).at + p THEN Descend(b, y)
                             ELSE found[Descend(b, y)]
  BY <1>1, <1>2, FoundIs
<1>6. mu \in [S -> Nat]
  BY <1>1 DEF Searches
<1> DEFINE Ends(y) == ~Hit(b, y) /\ \E n \in Nat : Reached(b, words, n, y)
           T == {y \in S : (\E n \in Nat : Reached(b, words, n, y)) => Ends(found[y])}
<1>7. ASSUME NEW y \in S, \A z \in S : mu[z] < mu[y] => z \in T
      PROVE  y \in T
  <2> SUFFICES ASSUME NEW n \in Nat, Reached(b, words, n, y)
               PROVE  Ends(found[y])
    OBVIOUS
  <2>1. CASE ~Hit(b, y)
    <3>1. found[y] = y
      BY <1>5, <2>1
    <3> QED
      BY <2>1, <3>1
  <2>2. CASE Hit(b, y)
    <3>1. PICK z : z = Descend(b, y)
      OBVIOUS
    <3>2. z \in S /\ z.at > y.at
      BY <1>1, <2>2, <3>1, SearchDescends
    <3>3. mu[z] < mu[y]
      <4>1. y.at \in Int /\ z.at \in Int
        BY <1>1, <3>2 DEF Searches
      <4> QED
        BY <1>1, <3>2, <4>1
    <3>4. Reached(b, words, n + 1, z) /\ z.next # z.at + p
      BY <1>3, <2>2, <3>1, ReachedGoesOn
    <3>5. found[y] = found[z]
      BY <1>5, <2>2, <3>1, <3>4
    <3>6. z \in T
      BY <1>7, <3>2, <3>3
    <3>7. n + 1 \in Nat
      OBVIOUS
    <3> HIDE DEF Ends
    <3> QED
      BY <3>4, <3>5, <3>6, <3>7
  <2> QED
    BY <2>1, <2>2
<1>8. S \subseteq T
  <2> HIDE DEF T, S, mu
  <2> QED
    BY <1>6, <1>7, MeasureInduction
<1>9. LineStart \in S /\ LineStart.at = 0 /\ LineStart.cmd = NoCmd
  BY <1>1 DEF Searches, LineStart
<1>10. Reached(b, words, 0, LineStart)
  <2>1. Len(words) \in Nat /\ 0 \in 0..Len(words)
    BY <1>3 DEF Words
  <2>2. After(words, 0, words)
    <3>1. Len(words) = 0 + Len(words) /\ \A k \in 1..Len(words) : 0 + k = k
      BY <2>1
    <3> QED
      BY <3>1 DEF After
  <2>3. ChainOf(words)[0] = <<>>
    BY <1>3, ChainIs
  <2>4. Len(ChainOf(words)[0]) = 0
    BY <2>3
  <2>5. After(words, 0, WordsFrom(b, LineStart.at)) /\ ByteAt(b, LineStart.at) # Blank
    BY <1>9, <2>2 DEF Tidy
  <2> QED
    BY <1>9, <2>1, <2>4, <2>5 DEF Reached
<1>11. Ends(found[LineStart])
  <2>1. LineStart \in T /\ 0 \in Nat
    BY <1>8, <1>9
  <2> QED
    BY <1>10, <2>1
<1> QED
  BY <1>4, <1>11

\* The command it finds is the one that the words name.
LEMMA SearchFindsMeant ==
    ASSUME NEW b, Tidy(b), NEW p \in Nat
    PROVE  FindActiveCmd(b, p).cmd = Meant(WordsFrom(b, 0))
<1>1. PICK x, words : x = FindActiveCmd(b, p) /\ words = WordsFrom(b, 0)
  OBVIOUS
<1>2. BufOK(b) /\ MaxLen \in Nat /\ 0 \in 0..(MaxLen + 1)
  BY EditorAssumption DEF Tidy
<1>3. words \in Words
  BY <1>1, <1>2, WordsFromIs
<1>4. ~Hit(b, x) /\ \E n \in Nat : Reached(b, words, n, x)
  BY <1>1, SearchReaches
<1> QED
  BY <1>1, <1>3, <1>4, ReachedIsMeant

-----------------------------------------------------------------------------
(* The words of two lines that begin in the same way.                      *)

LEMMA NextWordIsThis ==
    ASSUME NEW b, BufOK(b), NEW i \in 0..(MaxLen + 1), NEW s \in i..(MaxLen + 1),
           NEW e \in s..(MaxLen + 1), ByteAt(b, s) # Blank, ByteAt(b, e) \in {Blank, Nul},
           \A k \in i..(s - 1) : ByteAt(b, k) = Blank,
           \A k \in s..(e - 1) : ByteAt(b, k) \notin {Blank, Nul}
    PROVE  NextWord(b, i) = [start |-> s, end |-> e]
<1>1. PICK w : w = NextWord(b, i)
  OBVIOUS
<1>2. /\ w.start \in i..(MaxLen + 1) /\ w.end \in w.start..(MaxLen + 1)
      /\ ByteAt(b, w.start) # Blank
      /\ \A k \in i..(w.start - 1) : ByteAt(b, k) = Blank
      /\ ByteAt(b, w.end) \in {Blank, Nul}
      /\ \A k \in w.start..(w.end - 1) : ByteAt(b, k) \notin {Blank, Nul}
  BY <1>1, NextWordIs
<1>3. MaxLen \in Nat
  BY EditorAssumption
<1>4. w.start = s
  <2>1. ~(w.start < s)
    <3> SUFFICES ASSUME w.start < s
                 PROVE  FALSE
      OBVIOUS
    <3>1. w.start \in i..(s - 1)
      BY <1>2, <1>3
    <3> QED
      BY <1>2, <3>1
  <2>2. ~(s < w.start)
    <3> SUFFICES ASSUME s < w.start
                 PROVE  FALSE
      OBVIOUS
    <3>1. s \in i..(w.start - 1)
      BY <1>2, <1>3
    <3> QED
      BY <1>2, <3>1
  <2> QED
    BY <1>2, <1>3, <2>1, <2>2
<1>5. w.end = e
  <2>1. ~(w.end < e)
    <3> SUFFICES ASSUME w.end < e
                 PROVE  FALSE
      OBVIOUS
    <3>1. w.end \in s..(e - 1)
      BY <1>2, <1>3, <1>4
    <3> QED
      BY <1>2, <3>1
  <2>2. ~(e < w.end)
    <3> SUFFICES ASSUME e < w.end
                 PROVE  FALSE
      OBVIOUS
    <3>1. e \in w.start..(w.end - 1)
      BY <1>2, <1>3, <1>4
    <3> QED
      BY <1>2, <3>1
  <2> QED
    BY <1>2, <1>3, <1>4, <2>1, <2>2
<1>6. w = [start |-> w.start, end |-> w.end]
  BY <1>1 DEF NextWord
<1> QED
  BY <1>1, <1>4, <1>5, <1>6

\* Nothing follows the line's NUL, nor one blank before it.
LEMMA NoWordsBehind ==
    ASSUME NEW b, BufOK(b), NEW q \in 0..MaxLen,
           ByteAt(b, q) = Nul \/ (ByteAt(b, q) = Blank /\ ByteAt(b, q + 1) = Nul)
    PROVE  WordsFrom(b, q) = <<>>
<1>1. MaxLen \in Nat /\ Nul # Blank /\ q \in 0..(MaxLen + 1) /\ q + 1 \in 0..(MaxLen + 1)
  BY EditorAssumption
<1>2. PICK w : w = NextWord(b, q)
  OBVIOUS
<1>3. ~IsWord(w)
  <2>1. CASE ByteAt(b, q) = Nul
    <3>1. q \in q..(MaxLen + 1) /\ q..(q - 1) = {}
      BY <1>1
    <3>2. w = [start |-> q, end |-> q]
      BY <1>1, <1>2, <2>1, <3>1, NextWordIsThis
    <3> QED
      BY <1>1, <3>2 DEF IsWord
  <2>2. CASE ByteAt(b, q) = Blank /\ ByteAt(b, q + 1) = Nul
    <3>1. /\ q + 1 \in q..(MaxLen + 1) /\ q + 1 \in (q + 1)..(MaxLen + 1)
          /\ (q + 1)..((q + 1) - 1) = {} /\ \A k \in q..((q + 1) - 1) : k = q
      BY <1>1
    <3>2. w = [start |-> q + 1, end |-> q + 1]
      BY <1>1, <1>2, <2>2, <3>1, NextWordIsThis
    <3> QED
      BY <1>1, <3>2 DEF IsWord
  <2> QED
    BY <2>1, <2>2
<1> QED
  BY <1>1, <1>2, <1>3, WordsFromIs

LEMMA OneWordLeft ==
    ASSUME NEW b, BufOK(b), NEW p \in 0..MaxLen, NEW q \in p..MaxLen,
           ByteAt(b, q) = Nul \/ (ByteAt(b, q) = Blank /\ ByteAt(b, q + 1) = Nul),
           \A k \in p..(q - 1) : ByteAt(b, k) \notin {Blank, Nul}
    PROVE  WordsFrom(b, p) = IF p = q THEN <<>> ELSE <<Bytes(b, p, q)>>
<1>1. /\ MaxLen \in Nat /\ p \in 0..(MaxLen + 1) /\ q \in 0..MaxLen /\ q \in p..(MaxLen + 1)
      /\ p \in p..(MaxLen + 1) /\ p..(p - 1) = {}
  BY EditorAssumption
<1>2. WordsFrom(b, q) = <<>>
  BY <1>1, NoWordsBehind
<1>3. CASE p = q
  BY <1>2, <1>3
<1>4. CASE p # q
  <2>1. p \in p..(q - 1)
    BY <1>1, <1>4
  <2>2. PICK w : w = [start |-> p, end |-> q]
    OBVIOUS
  <2>3. w = NextWord(b, p)
    BY <1>1, <2>1, <2>2, NextWordIsThis
  <2>4. w.start = p /\ w.end = q /\ IsWord(w)
    BY <1>1, <1>4, <2>2 DEF IsWord
  <2>5. WordsFrom(b, p) = <<Text(b, w)>> \o WordsFrom(b, q)
    BY <1>1, <2>3, <2>4, WordsFromIs
  <2>6. Text(b, w) = Bytes(b, p, q)
    BY <2>4 DEF Text
  <2>7. Bytes(b, p, q) \in Seq(Byte)
    BY <1>1, BytesAre
  <2>8. <<Bytes(b, p, q)>> \o <<>> = <<Bytes(b, p, q)>>
    BY <2>7
  <2> QED
    BY <1>2, <1>4, <2>5, <2>6, <2>8
<1> QED
  BY <1>3, <1>4

\* The words of two buffers from place i on, which share those before place p.
SplitAt(b, c, i, p) ==
    \E before \in Words : /\ WordsFrom(b, i) = before \o WordsFrom(b, p)
                          /\ WordsFrom(c, i) = before \o WordsFrom(c, p)

SameUpto(b, c, p) ==
    /\ BufOK(b) /\ BufOK(c) /\ p \in 0..MaxLen
    /\ p > 0 => ByteAt(b, p - 1) = Blank
    /\ \A k \in 0..(p - 1) : ByteAt(b, k) = ByteAt(c, k) /\ ByteAt(b, k) # Nul

\* Only blanks stand before place p.
LEMMA SplitNow ==
    ASSUME NEW b, NEW c, NEW p, SameUpto(b, c, p), NEW i \in 0..p,
           \A k \in i..(p - 1) : ByteAt(b, k) = Blank
    PROVE  SplitAt(b, c, i, p)
<1>1. /\ MaxLen \in Nat /\ p \in 0..MaxLen /\ i \in 0..(MaxLen + 1) /\ p \in 0..(MaxLen + 1)
      /\ BufOK(b) /\ BufOK(c)
  BY EditorAssumption DEF SameUpto
<1>2. ASSUME NEW d, BufOK(d), \A k \in i..(p - 1) : ByteAt(d, k) = Blank
      PROVE  WordsFrom(d, i) = <<>> \o WordsFrom(d, p)
  <2>1. PICK w : w = NextWord(d, p)
    OBVIOUS
  <2>2. /\ w.start \in p..(MaxLen + 1) /\ w.end \in w.start..(MaxLen + 1)
        /\ ByteAt(d, w.start) # Blank
        /\ \A k \in p..(w.start - 1) : ByteAt(d, k) = Blank
        /\ ByteAt(d, w.end) \in {Blank, Nul}
        /\ \A k \in w.start..(w.end - 1) : ByteAt(d, k) \notin {Blank, Nul}
    BY <1>1, <1>2, <2>1, NextWordIs
  <2>3. \A k \in i..(w.start - 1) : ByteAt(d, k) = Blank
    <3> SUFFICES ASSUME NEW k \in i..(w.start - 1)
                 PROVE  ByteAt(d, k) = Blank
      OBVIOUS
    <3>1. k \in i..(p - 1) \/ k \in p..(w.start - 1)
      BY <1>1, <2>2
    <3> QED
      BY <1>2, <2>2, <3>1
  <2>4. w.start \in i..(MaxLen + 1)
    BY <1>1, <2>2
  <2>5. w = [start |-> w.start, end |-> w.end]
    BY <2>1 DEF NextWord
  <2>6. NextWord(d, i) = w
    BY <1>1, <1>2, <2>2, <2>3, <2>4, <2>5, NextWordIsThis
  <2>7. WordsFrom(d, i) = WordsFrom(d, p) /\ WordsFrom(d, p) \in Words
    <3>1. /\ IsWord(w) => WordsFrom(d, i) = <<Text(d, w)>> \o WordsFrom(d, w.end)
          /\ ~IsWord(w) => WordsFrom(d, i) = <<>>
      BY <1>1, <1>2, <2>6, WordsFromIs
    <3>2. /\ IsWord(w) => WordsFrom(d, p) = <<Text(d, w)>> \o WordsFrom(d, w.end)
          /\ ~IsWord(w) => WordsFrom(d, p) = <<>>
          /\ WordsFrom(d, p) \in Words
      BY <1>1, <1>2, <2>1, WordsFromIs
    <3> QED
      BY <3>1, <3>2
  <2>8. PICK left \in Words : left = WordsFrom(d, p)
    BY <2>7
  <2>9. <<>> \o left = left
    BY DEF Words
  <2> QED
    BY <2>7, <2>8, <2>9
<1>3. \A k \in i..(p - 1) : ByteAt(c, k) = Blank
  <2>1. \A k \in i..(p - 1) : k \in 0..(p - 1)
    BY <1>1
  <2> QED
    BY <2>1 DEF SameUpto
<1>4. /\ WordsFrom(b, i) = <<>> \o WordsFrom(b, p)
      /\ WordsFrom(c, i) = <<>> \o WordsFrom(c, p)
  BY <1>1, <1>2, <1>3
<1>5. <<>> \in Words
  BY DEF Words
<1> QED
  BY <1>4, <1>5 DEF SplitAt

\* One word before a list of words, joined with more of them.
LEMMA WordPutBefore ==
    ASSUME NEW text \in Seq(Byte), NEW before \in Words, NEW more \in Words
    PROVE  /\ <<text>> \o before \in Words
           /\ <<text>> \o (before \o more) = (<<text>> \o before) \o more
<1>1. PICK S : S = Seq(Byte)
  OBVIOUS
<1>2. before \in Seq(S) /\ more \in Seq(S)
  BY <1>1 DEF Words
<1>3. <<text>> \in Seq(S)
  BY <1>1
<1>4. <<text>> \o before \in Seq(S)
  BY <1>2, <1>3
<1>5. PICK one \in Seq(S) : one = <<text>>
  BY <1>3
<1>6. one \o (before \o more) = (one \o before) \o more
  BY <1>2, ConcatAssociative
<1> QED
  BY <1>1, <1>4, <1>5, <1>6 DEF Words

\* A word stands before place p.
LEMMA SplitLater ==
    ASSUME NEW b, NEW c, NEW p, SameUpto(b, c, p), NEW i \in 0..p,
           NEW w, w = NextWord(b, i), w.start < p
    PROVE  /\ w.end \in (i + 1)..(p - 1) /\ IsWord(w)
           /\ SplitAt(b, c, w.end, p) => SplitAt(b, c, i, p)
<1>1. /\ MaxLen \in Nat /\ p \in 0..MaxLen /\ i \in 0..(MaxLen + 1) /\ BufOK(b) /\ BufOK(c)
      /\ Nul # Blank
  BY EditorAssumption DEF SameUpto
<1>2. /\ w.start \in i..(MaxLen + 1) /\ w.end \in w.start..(MaxLen + 1)
      /\ ByteAt(b, w.start) # Blank
      /\ \A k \in i..(w.start - 1) : ByteAt(b, k) = Blank
      /\ ByteAt(b, w.end) \in {Blank, Nul}
      /\ \A k \in w.start..(w.end - 1) : ByteAt(b, k) \notin {Blank, Nul}
  BY <1>1, NextWordIs
<1>3. PICK s \in 0..(p - 1), e \in 0..(MaxLen + 1) : s = w.start /\ e = w.end /\ i <= s /\ s <= e
  BY <1>1, <1>2
<1>4. /\ ByteAt(b, s) # Blank /\ ByteAt(b, s) # Nul
      /\ p > 0 /\ ByteAt(b, p - 1) = Blank /\ p - 1 \in 0..(p - 1)
  BY <1>1, <1>2, <1>3 DEF SameUpto
<1>5. s < e
  BY <1>2, <1>3, <1>4
<1>6. e <= p - 1
  <2> SUFFICES ASSUME ~(e <= p - 1)
               PROVE  FALSE
    OBVIOUS
  <2>1. p - 1 \in s..(e - 1)
    BY <1>1, <1>3
  <2> QED
    BY <1>2, <1>3, <1>4, <2>1
<1>7. e \in (i + 1)..(p - 1) /\ IsWord(w)
  BY <1>1, <1>3, <1>5, <1>6 DEF IsWord
<1> SUFFICES ASSUME SplitAt(b, c, e, p)
             PROVE  SplitAt(b, c, i, p)
  BY <1>3, <1>7
<1>8. \A k \in i..e : k \in 0..(p - 1) /\ ByteAt(c, k) = ByteAt(b, k)
  <2>1. \A k \in i..e : k \in 0..(p - 1)
    BY <1>1, <1>6
  <2> QED
    BY <2>1 DEF SameUpto
<1>9. NextWord(c, i) = [start |-> s, end |-> e]
  <2>1. /\ \A k \in i..(s - 1) : k \in i..e
        /\ \A k \in s..(e - 1) : k \in i..e
        /\ s \in i..e /\ e \in i..e
    BY <1>1, <1>3
  <2>2. /\ ByteAt(c, s) # Blank /\ ByteAt(c, e) \in {Blank, Nul}
        /\ \A k \in i..(s - 1) : ByteAt(c, k) = Blank
        /\ \A k \in s..(e - 1) : ByteAt(c, k) \notin {Blank, Nul}
    BY <1>2, <1>3, <1>8, <2>1
  <2>3. s \in i..(MaxLen + 1) /\ e \in s..(MaxLen + 1)
    BY <1>1, <1>3
  <2> QED
    BY <1>1, <2>2, <2>3, NextWordIsThis
<1>10. w = [start |-> s, end |-> e]
  BY <1>3 DEF NextWord
<1>11. Text(c, w) = Text(b, w)
  <2>1. Text(b, w) = [k \in 1..(e - s) |-> ByteAt(b, s + k - 1)]
    BY <1>3 DEF Text, Bytes
  <2>2. Text(c, w) = [k \in 1..(e - s) |-> ByteAt(c, s + k - 1)]
    BY <1>3 DEF Text, Bytes
  <2>3. \A k \in 1..(e - s) : s + k - 1 \in i..e
    BY <1>1, <1>3
  <2> QED
    BY <1>8, <2>1, <2>2, <2>3
<1>12. PICK text \in Seq(Byte) : text = Text(b, w)
  BY <1>1, TextIs
<1>13. /\ WordsFrom(b, i) = <<text>> \o WordsFrom(b, e)
       /\ WordsFrom(c, i) = <<text>> \o WordsFrom(c, e)
  <2>1. WordsFrom(b, i) = <<Text(b, w)>> \o WordsFrom(b, w.end)
    BY <1>1, <1>7, WordsFromIs
  <2>2. w = NextWord(c, i)
    BY <1>9, <1>10
  <2>3. WordsFrom(c, i) = <<Text(c, w)>> \o WordsFrom(c, w.end)
    BY <1>1, <1>7, <2>2, WordsFromIs
  <2> QED
    BY <1>3, <1>11, <1>12, <2>1, <2>3
<1>14. PICK before \in Words : /\ WordsFrom(b, e) = before \o WordsFrom(b, p)
                               /\ WordsFrom(c, e) = before \o WordsFrom(c, p)
  BY DEF SplitAt
<1>15. p \in 0..(MaxLen + 1)
  BY <1>1
<1>16. PICK lb \in Words, lc \in Words : lb = WordsFrom(b, p) /\ lc = WordsFrom(c, p)
  BY <1>1, <1>15, WordsFromIs
<1>17. /\ <<text>> \o before \in Words
       /\ <<text>> \o (before \o lb) = (<<text>> \o before) \o lb
       /\ <<text>> \o (before \o lc) = (<<text>> \o before) \o lc
  <2>1. before \in Words /\ lb \in Words /\ lc \in Words
    OBVIOUS
  <2>2. <<text>> \o (before \o lb) = (<<text>> \o before) \o lb
    BY <1>12, <2>1, WordPutBefore
  <2>3. <<text>> \o (before \o lc) = (<<text>> \o before) \o lc
    BY <1>12, <2>1, WordPutBefore
  <2>4. <<text>> \o before \in Words
    BY <1>12, <2>1, WordPutBefore
  <2> QED
    BY <2>2, <2>3, <2>4
<1>18. /\ WordsFrom(b, i) = (<<text>> \o before) \o WordsFrom(b, p)
       /\ WordsFrom(c, i) = (<<text>> \o before) \o WordsFrom(c, p)
  BY <1>13, <1>14, <1>16, <1>17
<1> QED
  BY <1>17, <1>18 DEF SplitAt

LEMMA Splits ==
    ASSUME NEW b, NEW c, NEW p, SameUpto(b, c, p), NEW i \in 0..p
    PROVE  SplitAt(b, c, i, p)
<1> DEFINE D == 0..p
           mu == [j \in D |-> p - j]
           T == {j \in D : SplitAt(b, c, j, p)}
<1>1. MaxLen \in Nat /\ p \in 0..MaxLen /\ BufOK(b)
  BY EditorAssumption DEF SameUpto
<1>2. mu \in [D -> Nat]
  BY <1>1
<1>3. ASSUME NEW j \in D, \A k \in D : mu[k] < mu[j] => k \in T
      PROVE  j \in T
  <2>1. PICK w : w = NextWord(b, j)
    OBVIOUS
  <2>2. CASE w.start < p
    <3>1. w.end \in (j + 1)..(p - 1)
      BY <2>1, <2>2, SplitLater
    <3>2. w.end \in D /\ mu[w.end] < mu[j]
      BY <1>1, <3>1
    <3>3. SplitAt(b, c, w.end, p)
      BY <1>3, <3>2
    <3> QED
      BY <2>1, <2>2, <3>3, SplitLater
  <2>3. CASE ~(w.start < p)
    <3>1. j \in 0..(MaxLen + 1)
      BY <1>1
    <3>2. w.start \in j..(MaxLen + 1) /\ \A k \in j..(w.start - 1) : ByteAt(b, k) = Blank
      BY <1>1, <2>1, <3>1, NextWordIs
    <3>3. \A k \in j..(p - 1) : k \in j..(w.start - 1)
      BY <1>1, <2>3, <3>2
    <3>4. SplitAt(b, c, j, p)
      BY <3>2, <3>3, SplitNow
    <3> QED
      BY <3>4
  <2> QED
    BY <2>2, <2>3
<1>4. D \subseteq T
  <2> HIDE DEF D, T, mu
  <2> QED
    BY <1>2, <1>3, MeasureInduction
<1> QED
  BY <1>4

-----------------------------------------------------------------------------
(* What Tab offers at the end of a plain line.                             *)

\* The line is plain, with the cursor at its end, and its last word begins at place p.
AtEnd(p) ==
    /\ LineOK(buf, len, pos) /\ Tidy(buf) /\ pos = len /\ p = WordStart(buf, pos)
    /\ \A i \in Nat : i >= len => ByteAt(buf, i) = Nul

LEMMA AtEndIs ==
    ASSUME NEW p, AtEnd(p)
    PROVE  /\ BufOK(buf) /\ buf[MaxLen] = Nul /\ MaxLen \in Nat /\ len \in 0..MaxLen /\ p \in 0..len
           /\ p > 0 => ByteAt(buf, p - 1) = Blank
           /\ \A i \in Nat : i >= p => ByteAt(buf, i) # Blank
           /\ \A i \in 0..(len - 1) : ByteAt(buf, i) # Nul
           /\ \A i \in Nat : i >= len => ByteAt(buf, i) = Nul
           /\ Nul # Blank /\ StrEnd(buf) = len /\ pos = len
<1>1. buf[MaxLen] = Nul /\ LineOK(buf, len, pos) /\ BufOK(buf)
  BY DEF AtEnd, Tidy, BufOK
<1>2. /\ pos = len /\ len \in Nat /\ len <= MaxLen /\ MaxLen \in Nat
      /\ \A i \in 0..MaxLen : ByteAt(buf, i) = buf[i]
      /\ \A i \in 0..(len - 1) : buf[i] \in Chars
  BY <1>1, LineIsABuffer DEF AtEnd
<1>3. p \in 0..MaxLen /\ WordStartsAt(p) /\ (p > pos => pos = 0 /\ buf[0] = Blank)
  BY <1>1, WordStartIs DEF AtEnd, Places
<1>4. Nul # Blank /\ Nul \notin Chars /\ StrEnd(buf) = len
  BY <1>1, StrEndIs, EditorAssumption
<1>5. ByteAt(buf, 0) # Blank /\ \A i \in Nat : i >= len => ByteAt(buf, i) = Nul
  BY DEF AtEnd, Tidy
<1>6. buf[0] # Blank
  BY <1>2, <1>5
<1>7. p <= pos
  BY <1>2, <1>3, <1>6
<1>8. /\ p > 0 => buf[p - 1] = Blank
      /\ \A i \in p..(pos - 1) : buf[i] # Blank
  <2>1. CASE pos = 0
    BY <1>2, <1>3, <1>7, <2>1
  <2>2. CASE pos # 0
    BY <1>3, <2>2 DEF WordStartsAt
  <2> QED
    BY <2>1, <2>2
<1>9. p > 0 => ByteAt(buf, p - 1) = Blank
  BY <1>2, <1>3, <1>8
<1>10. ASSUME NEW i \in Nat, i >= p
       PROVE  ByteAt(buf, i) # Blank
  <2>1. CASE i >= len
    BY <1>4, <1>5, <2>1
  <2>2. CASE ~(i >= len)
    <3>1. i \in p..(pos - 1) /\ i \in 0..MaxLen
      BY <1>2, <1>3, <1>10, <2>2
    <3> QED
      BY <1>2, <1>8, <3>1
  <2> QED
    BY <2>1, <2>2
<1>11. ASSUME NEW i \in 0..(len - 1)
       PROVE  ByteAt(buf, i) # Nul
  <2>1. i \in 0..MaxLen
    BY <1>2, <1>11
  <2> QED
    BY <1>2, <1>4, <1>11, <2>1
<1> QED
  BY <1>1, <1>2, <1>3, <1>4, <1>5, <1>7, <1>9, <1>10, <1>11

\* When a word precedes the one to complete, it ends with a blank before that one.
LEMMA FirstWordEnds ==
    ASSUME NEW p, AtEnd(p), p > 0, NEW w, w = NextWord(buf, 0)
    PROVE  w.end \in 0..(p - 1) /\ ByteAt(buf, w.end) = Blank
<1>1. /\ BufOK(buf) /\ MaxLen \in Nat /\ len \in 0..MaxLen /\ p \in 0..len
      /\ ByteAt(buf, p - 1) = Blank /\ ByteAt(buf, 0) # Blank
      /\ \A i \in 0..(len - 1) : ByteAt(buf, i) # Nul
  BY AtEndIs DEF AtEnd, Tidy
<1>2. 0 \in 0..(MaxLen + 1)
  BY <1>1
<1>3. /\ w.start \in 0..(MaxLen + 1) /\ w.end \in w.start..(MaxLen + 1)
      /\ \A k \in 0..(w.start - 1) : ByteAt(buf, k) = Blank
      /\ ByteAt(buf, w.end) \in {Blank, Nul}
      /\ \A k \in w.start..(w.end - 1) : ByteAt(buf, k) \notin {Blank, Nul}
  BY <1>1, <1>2, NextWordIs
<1>4. w.start = 0
  <2> SUFFICES ASSUME w.start # 0
               PROVE  FALSE
    OBVIOUS
  <2>1. 0 \in 0..(w.start - 1)
    BY <1>1, <1>3
  <2> QED
    BY <1>1, <1>3, <2>1
<1>5. w.end <= p - 1
  <2> SUFFICES ASSUME ~(w.end <= p - 1)
               PROVE  FALSE
    OBVIOUS
  <2>1. p - 1 \in w.start..(w.end - 1)
    BY <1>1, <1>3, <1>4
  <2> QED
    BY <1>1, <1>3, <2>1
<1>6. w.end \in 0..(p - 1) /\ w.end \in 0..(len - 1)
  BY <1>1, <1>3, <1>5
<1> QED
  BY <1>1, <1>3, <1>6

AmongValues(c, m) ==
    \E i \in DOMAIN Params[c] : Params[c][i].val # NoVal /\ m \in Range(Params[c][i].val)

\* Only values of the command's own parameters are offered as values.
LEMMA ValuesAreTheCommands ==
    ASSUME NEW b, NEW q, NEW c \in Cmds, Values(b, q, c).done,
           NEW m \in Range(Values(b, q, c).matches)
    PROVE  AmongValues(c, m)
<1> DEFINE named == AwaitingValue(b, q, c)
           regular == {i \in named : Params[c][i].val # <<>>}
           default == AwaitingDefault(b, q, c)
           asking == IF regular # {} THEN regular ELSE default
           values == AskedFor(c, asking)
           asked == {i \in asking : Params[c][i].val # <<>>}
<1>1. PICK table \in Seq(Param) : table = Params[c]
  BY ShellAssumption DEF Param
<1>2. named \subseteq DOMAIN Params[c] /\ default \subseteq DOMAIN Params[c]
  BY DEF AwaitingValue, AwaitingDefault
<1>3. Values(b, q, c).matches = IF values = NoVal THEN <<>> ELSE Continuing(values, Partial(b, q))
  BY ShellAssumption DEF Values
<1> HIDE DEF named, default
<1>4. asked \subseteq DOMAIN table /\ asked \subseteq Nat
  BY <1>1, <1>2
<1>5. values = IF asked = {} THEN NoVal ELSE Params[c][Min(asked)].val
  BY DEF AskedFor
<1> HIDE DEF values, asked
<1>6. values # NoVal
  <2> SUFFICES ASSUME values = NoVal
               PROVE  FALSE
    OBVIOUS
  <2>1. Values(b, q, c).matches = <<>>
    BY <1>3
  <2> QED
    BY <2>1 DEF Range
<1>7. asked # {}
  BY <1>5, <1>6
<1>8. Min(asked) \in asked
  <2>1. \E x \in asked : \A y \in asked : x <= y
    BY <1>4, <1>7, LeastNumber
  <2> QED
    BY <2>1 DEF Min
<1>9. PICK i \in DOMAIN table : i = Min(asked)
  BY <1>4, <1>8
<1>10. values = table[i].val
  BY <1>1, <1>5, <1>7, <1>9
<1>11. table[i] \in Param
  OBVIOUS
<1>12. values \in Seq(Names)
  BY <1>6, <1>10, <1>11 DEF Param
<1>13. m \in Range(values)
  <2> DEFINE S == {value \in Range(values) : IsPrefix(Partial(b, q), value)}
  <2>1. Values(b, q, c).matches = Among(values, S)
    BY <1>3, <1>6 DEF Continuing
  <2>2. S \subseteq Range(values)
    OBVIOUS
  <2> HIDE DEF S
  <2>3. m \in S
    BY <1>12, <2>1, AmongHas
  <2> QED
    BY <2>2, <2>3
<1> QED
  BY <1>1, <1>6, <1>10, <1>13 DEF AmongValues

\* In the first word of a line nobody is asked for values.
LEMMA NoValuesInFirstWord ==
    ASSUME NEW p, AtEnd(p), p = 0, NEW c \in Cmds
    PROVE  ~Values(buf, pos, c).done
<1>1. /\ BufOK(buf) /\ MaxLen \in Nat /\ len \in 0..MaxLen /\ pos = len
      /\ \A i \in Nat : i >= 0 => ByteAt(buf, i) # Blank
      /\ \A i \in 0..MaxLen : ByteAt(buf, i) = buf[i]
  <2>1. LineOK(buf, len, pos) /\ buf[MaxLen] = Nul
    BY AtEndIs DEF AtEnd
  <2> QED
    BY <2>1, AtEndIs, LineIsABuffer
<1>2. ASSUME NEW text, Occurs(buf, text) # {}
      PROVE  WordDistance(buf, Strstr(buf, text), pos) = 0
  <2>1. PICK at \in Nat : at = Strstr(buf, text)
    BY <1>2, OccursIs
  <2>2. ASSUME NEW e \in (at + 1)..(pos - 1)
        PROVE  buf[e] # Blank
    <3>1. e \in 0..MaxLen /\ e \in Nat /\ e >= 0
      BY <1>1, <2>2
    <3> QED
      BY <1>1, <3>1
  <2>3. {e \in (at + 1)..(pos - 1) : buf[e - 1] # Blank /\ buf[e] = Blank} = {}
    BY <2>2
  <2> QED
    BY <2>1, <2>3, FS_EmptySet DEF WordDistance
<1>3. AwaitingValue(buf, pos, c) = {}
  <2>1. \A n : 0 \notin 1..n
    OBVIOUS
  <2> QED
    BY <1>2, <2>1 DEF AwaitingValue
<1>4. AwaitingDefault(buf, pos, c) = {}
  BY <1>2 DEF AwaitingDefault
<1>5. AskedFor(c, {}) = NoVal
  BY DEF AskedFor
<1> QED
  BY <1>3, <1>4, <1>5, ShellAssumption DEF Values

\* What is offered as a name is one of the lists', and as a common word a common word.
LEMMA NamesOfferedAre ==
    ASSUME NEW p, AtEnd(p), NEW found, found = FindActiveCmd(buf, pos),
           NEW m \in Range(NamesOffered(buf, pos, p))
    PROVE  /\ ~NothingToOffer(buf, pos, p)
           /\ \/ found.cmd = NoCmd /\ m \in CommonWords
              \/ m \in Range(Listed(buf, pos)) /\ Offers(buf, pos, p, m)
<1>1. BufOK(buf)
  BY AtEndIs
<1>2. ~NothingToOffer(buf, pos, p)
  <2> SUFFICES ASSUME NothingToOffer(buf, pos, p)
               PROVE  FALSE
    OBVIOUS
  <2>1. NamesOffered(buf, pos, p) = <<>>
    BY DEF NamesOffered
  <2> QED
    BY <2>1 DEF Range
<1>3. PICK list \in Seq(Names) : list = Listed(buf, pos)
  BY <1>1, ListedAre
<1> DEFINE L == {name \in Range(list) : Offers(buf, pos, p, name)}
           C == {name \in CommonWords : IsPrefix(Bytes(buf, p, StrEnd(buf)), name)}
<1>4. PICK listed : listed = Among(list, L)
  OBVIOUS
<1>5. PICK common : common = IF found.cmd = NoCmd THEN CommonOffered(buf, p) ELSE <<>>
  OBVIOUS
<1>6. PICK words : words = IF HasContexts THEN <<ByeWord, HistoryWord, ExitWord, EndWord>>
                           ELSE <<ByeWord, HistoryWord>>
  OBVIOUS
<1>7. words \in Seq(Names)
  BY <1>6, ShellAssumption DEF CommonWords
<1>8. found.cmd = NoCmd => common = Among(words, C)
  BY <1>5, <1>6 DEF CommonOffered
<1>9. NamesOffered(buf, pos, p) = common \o listed
  BY <1>2, <1>3, <1>4, <1>5 DEF NamesOffered
<1>10. L \subseteq Range(list) /\ C \subseteq CommonWords
  OBVIOUS
<1>11. \A name \in L : Offers(buf, pos, p, name)
  OBVIOUS
<1> HIDE DEF L, C
<1>12. listed \in Seq(Names)
  <2>1. listed \in Seq({x \in Names : x \in L})
    BY <1>4, AmongIs
  <2> QED
    BY <2>1, WiderSeq
<1>13. common \in Seq(Names)
  <2>1. CASE found.cmd = NoCmd
    <3>1. common \in Seq({x \in Names : x \in C})
      BY <1>7, <1>8, <2>1, AmongIs
    <3> QED
      BY <3>1, WiderSeq
  <2>2. CASE found.cmd # NoCmd
    BY <1>5, <2>2
  <2> QED
    BY <2>1, <2>2
<1>14. m \in Range(common) \/ m \in Range(listed)
  BY <1>9, <1>12, <1>13, RangeOfConcat
<1>15. ASSUME m \in Range(common)
       PROVE  found.cmd = NoCmd /\ m \in CommonWords
  <2>1. CASE found.cmd = NoCmd
    <3>1. m \in C
      BY <1>7, <1>8, <1>15, <2>1, AmongHas
    <3> QED
      BY <1>10, <2>1, <3>1
  <2>2. CASE found.cmd # NoCmd
    BY <1>5, <1>15, <2>2 DEF Range
  <2> QED
    BY <2>1, <2>2
<1>16. ASSUME m \in Range(listed)
       PROVE  m \in Range(list) /\ Offers(buf, pos, p, m)
  <2>1. m \in L
    BY <1>4, <1>16, AmongHas
  <2> QED
    BY <1>10, <1>11, <2>1
<1> QED
  BY <1>2, <1>3, <1>14, <1>15, <1>16

\* In the first word: a common word or a command of the context, and no empty one.
LEMMA FirstWordOffered ==
    ASSUME NEW p, AtEnd(p), p = 0, NEW m \in Range(Matches(buf, pos, p))
    PROVE  m \in Continues(<<>>) /\ m # <<>>
<1>1. /\ BufOK(buf) /\ MaxLen \in Nat /\ len \in 0..MaxLen /\ pos = len
      /\ LineOK(buf, len, pos) /\ buf[MaxLen] = Nul
      /\ \A i \in Nat : i >= 0 => ByteAt(buf, i) # Blank
      /\ \A i \in Nat : i >= len => ByteAt(buf, i) = Nul
  BY AtEndIs DEF AtEnd
<1>2. PICK found : found = FindActiveCmd(buf, pos)
  OBVIOUS
<1>3. found.cmd \in Cmds \cup {NoCmd} /\ found.next \in 0..MaxLen
  BY <1>1, <1>2, FindActiveCmdIs DEF Searches
<1>4. ~Values(buf, pos, found.cmd).done
  <2>1. CASE found.cmd = NoCmd
    BY <2>1 DEF Values
  <2>2. CASE found.cmd # NoCmd
    BY <1>3, <2>2, NoValuesInFirstWord
  <2> QED
    BY <2>1, <2>2
<1>5. Matches(buf, pos, p) = NamesOffered(buf, pos, p)
  BY <1>2, <1>4 DEF Matches
<1>6. /\ ~NothingToOffer(buf, pos, p)
      /\ m \in CommonWords \/ m \in Range(Listed(buf, pos))
  BY <1>2, <1>5, NamesOfferedAre
<1>7. ByteAt(buf, found.next) # Blank
  <2>1. found.next \in Nat /\ found.next >= 0
    BY <1>1, <1>3
  <2> QED
    BY <1>1, <2>1
<1>8. m \in Range(Listed(buf, pos)) => \E i \in DOMAIN CmdList : m = NameOf[CmdList[i]]
  BY <1>1, <1>2, <1>7, ListedAre
<1>9. m \in Continues(<<>>)
  BY <1>6, <1>8 DEF Continues
<1>10. m # <<>>
  <2> SUFFICES ASSUME m = <<>>
               PROVE  FALSE
    OBVIOUS
  <2>1. m \in MatchesAt(p)
    <3>1. PICK matches \in Seq(MatchesAt(p)) : matches = Matches(buf, pos, p)
      BY <1>1, TabOffers DEF AtEnd
    <3>2. m \in Range(matches)
      BY <3>1
    <3> QED
      BY <3>2 DEF Range
  <2>2. IsPrefix(Typed(0), <<>>)
    BY <1>1, <2>1 DEF MatchesAt
  <2>3. len = 0
    <3>1. Typed(0) = [i \in 1..len |-> buf[0 + i - 1]]
      BY <1>1 DEF Typed
    <3>2. Len(Typed(0)) = len
      BY <1>1, <3>1
    <3>3. Len(Typed(0)) <= Len(<<>>)
      BY <2>2 DEF IsPrefix
    <3> QED
      BY <1>1, <3>2, <3>3
  <2>4. PICK first : first = NextWord(buf, 0)
    OBVIOUS
  <2>5. ByteAt(buf, 0) = Nul
    BY <1>1, <2>3
  <2>6. /\ first.start \in 0..(MaxLen + 1) /\ first.end \in first.start..(MaxLen + 1)
        /\ \A k \in 0..(first.start - 1) : ByteAt(buf, k) = Blank
        /\ \A k \in first.start..(first.end - 1) : ByteAt(buf, k) \notin {Blank, Nul}
    <3>1. 0 \in 0..(MaxLen + 1)
      BY <1>1
    <3> QED
      BY <1>1, <2>4, <3>1, NextWordIs
  <2>7. ~IsWord(first)
    <3> SUFFICES ASSUME first.start < first.end
                 PROVE  FALSE
      BY DEF IsWord
    <3>1. first.start = 0
      <4> SUFFICES ASSUME first.start # 0
                   PROVE  FALSE
        OBVIOUS
      <4>1. 0 \in 0..(first.start - 1)
        BY <1>1, <2>6
      <4> QED
        BY <1>1, <2>6, <4>1
    <3>2. 0 \in first.start..(first.end - 1)
      BY <1>1, <2>6, <3>1
    <3> QED
      BY <2>5, <2>6, <3>2
  <2>8. found.cmd = NoCmd
    <3>1. ~Hit(buf, LineStart)
      BY <2>4, <2>7 DEF Hit, LineStart
    <3> QED
      BY <1>1, <1>2, <3>1, FindActiveCmdIs
  <2>9. NothingToOffer(buf, pos, p)
    BY <1>2, <2>4, <2>7, <2>8 DEF NothingToOffer
  <2> QED
    BY <1>6, <2>9
<1> QED
  BY <1>9, <1>10

\* In a later word: what the command found may be followed by.
LEMMA LaterWordOffered ==
    ASSUME NEW p, AtEnd(p), p > 0, NEW m \in Range(Matches(buf, pos, p)),
           NEW found, found = FindActiveCmd(buf, pos), found.cmd # NoCmd,
           ByteAt(buf, found.next) = Blank, NEW before, before # <<>>, Meant(before) = found.cmd
    PROVE  m \in Continues(before) /\ m # <<>>
<1>1. /\ BufOK(buf) /\ MaxLen \in Nat /\ len \in 0..MaxLen /\ p \in 0..len
      /\ ByteAt(buf, p - 1) = Blank /\ StrEnd(buf) = len
  BY AtEndIs
<1>2. PICK c \in Cmds : c = found.cmd
  BY <1>1, FindActiveCmdIs DEF Searches
<1>3. Continues(before) =
          {NameOf[SubCmds[c][i]] : i \in DOMAIN SubCmds[c]}
          \cup {Params[c][i].name : i \in DOMAIN Params[c]}
          \cup UNION {Range(Params[c][i].val) : i \in {j \in DOMAIN Params[c] :
                                                          Params[c][j].val # NoVal}}
  BY <1>2 DEF Continues
<1>4. CASE Values(buf, pos, c).done
  <2>1. m \in Range(Values(buf, pos, c).matches)
    BY <1>2, <1>4 DEF Matches
  <2>2. AmongValues(c, m)
    BY <1>4, <2>1, ValuesAreTheCommands
  <2>3. PICK i \in DOMAIN Params[c] : Params[c][i].val # NoVal /\ m \in Range(Params[c][i].val)
    BY <2>2 DEF AmongValues
  <2>4. <<>> \notin Range(Params[c][i].val)
    BY <2>3, OneWordAssumption
  <2>5. m \in Continues(before)
    BY <1>3, <2>3
  <2> QED
    BY <2>3, <2>4, <2>5
<1>5. CASE ~Values(buf, pos, c).done
  <2>1. m \in Range(NamesOffered(buf, pos, p))
    BY <1>2, <1>5 DEF Matches
  <2>2. m \in Range(Listed(buf, pos)) /\ Offers(buf, pos, p, m)
    BY <2>1, NamesOfferedAre
  <2>3. \/ \E i \in DOMAIN Params[c] : m = Params[c][i].name
        \/ \E i \in DOMAIN SubCmds[c] : m = NameOf[SubCmds[c][i]]
    BY <1>1, <1>2, <2>2, ListedAre
  <2>4. m \in Continues(before)
    BY <1>3, <2>3
  <2>5. m # <<>>
    <3> SUFFICES ASSUME m = <<>>
                 PROVE  FALSE
      OBVIOUS
    <3>1. Append(m, Blank) = <<Blank>>
      OBVIOUS
    <3>2. Bytes(buf, p - 1, (p - 1) + 1) = [k \in 1..1 |-> ByteAt(buf, (p - 1) + k - 1)]
      BY <1>1 DEF Bytes
    <3>3. Bytes(buf, p - 1, (p - 1) + 1) = <<Blank>>
      <4>1. [k \in 1..1 |-> ByteAt(buf, (p - 1) + k - 1)] = [k \in 1..1 |-> Blank]
        BY <1>1
      <4>2. [k \in 1..1 |-> Blank] = <<Blank>>
        OBVIOUS
      <4> QED
        BY <3>2, <4>1, <4>2
    <3>4. p - 1 \in 0..len /\ (p - 1) + Len(<<Blank>>) <= len /\ Len(<<Blank>>) = 1
      BY <1>1
    <3>5. p - 1 \in Occurs(buf, <<Blank>>)
      BY <1>1, <3>3, <3>4 DEF Occurs
    <3> QED
      BY <2>2, <3>1, <3>5 DEF Offers
  <2> QED
    BY <2>4, <2>5
<1> QED
  BY <1>4, <1>5

\* Behind a word that names no command, nothing is offered.
LEMMA NothingOfferedLater ==
    ASSUME NEW p, AtEnd(p), p > 0, FindActiveCmd(buf, pos).cmd = NoCmd
    PROVE  Matches(buf, pos, p) = <<>>
<1>1. PICK first : first = NextWord(buf, 0)
  OBVIOUS
<1>2. first.end \in 0..(p - 1) /\ ByteAt(buf, first.end) = Blank
  BY <1>1, FirstWordEnds
<1>3. p \in Nat
  BY AtEndIs
<1>4. NothingToOffer(buf, pos, p)
  BY <1>1, <1>2, <1>3 DEF NothingToOffer
<1> QED
  BY <1>4 DEF Matches, Values, NamesOffered

\* The words before the one to complete hold those that name the command found.
LEMMA CommandBefore ==
    ASSUME NEW p, AtEnd(p), p > 0, NEW x, x = FindActiveCmd(buf, pos), x.cmd # NoCmd,
           NEW words, words = WordsFrom(buf, 0), Len(words) < 2 \/ x.next < len,
           NEW before \in Words, words = before \o WordsFrom(buf, p)
    PROVE  ByteAt(buf, x.next) = Blank /\ before # <<>> /\ Meant(before) = x.cmd
<1>1. /\ BufOK(buf) /\ MaxLen \in Nat /\ len \in 0..MaxLen /\ p \in 0..len /\ pos = len
      /\ ByteAt(buf, p - 1) = Blank /\ Tidy(buf) /\ Nul # Blank
      /\ \A i \in Nat : i >= p => ByteAt(buf, i) # Blank
      /\ \A i \in 0..(len - 1) : ByteAt(buf, i) # Nul
  BY AtEndIs DEF AtEnd
<1>2. ~Hit(buf, x) /\ \E n \in Nat : Reached(buf, words, n, x)
  BY <1>1, SearchReaches
<1>3. PICK n \in Nat : Reached(buf, words, n, x)
  BY <1>2
<1>4. /\ n \in 0..Len(words) /\ x \in Searches /\ After(words, n, WordsFrom(buf, x.at))
      /\ n > 0 /\ x.at = x.next + 1 /\ ByteAt(buf, x.next) \in {Blank, Nul}
      /\ n = 1 => x.next = NextWord(buf, 0).end
  BY <1>3 DEF Reached
<1>5. words \in Words /\ Len(words) \in Nat
  <2>1. 0 \in 0..(MaxLen + 1)
    BY <1>1
  <2>2. words \in Words
    BY <1>1, <2>1, WordsFromIs
  <2> QED
    BY <2>2 DEF Words
<1>6. x.next \in 0..(len - 1)
  <2>1. x.next \in 0..MaxLen
    BY <1>4 DEF Searches
  <2>2. CASE x.next < len
    BY <1>1, <2>1, <2>2
  <2>3. CASE Len(words) < 2
    <3>1. n = 1
      BY <1>4, <1>5, <2>3
    <3>2. NextWord(buf, 0).end \in 0..(p - 1)
      BY FirstWordEnds
    <3> QED
      BY <1>1, <1>4, <3>1, <3>2
  <2> QED
    BY <2>2, <2>3
<1>7. ByteAt(buf, x.next) = Blank
  BY <1>1, <1>4, <1>6
<1>8. x.at \in 0..p
  <2>1. ~(x.next >= p)
    BY <1>1, <1>6, <1>7
  <2> QED
    BY <1>1, <1>4, <1>6, <2>1
<1>9. SameUpto(buf, buf, p)
  BY <1>1 DEF SameUpto
<1>10. PICK between \in Words : WordsFrom(buf, x.at) = between \o WordsFrom(buf, p)
  <2>1. PICK i \in 0..p : i = x.at
    BY <1>8
  <2>2. SplitAt(buf, buf, i, p)
    BY <1>9, Splits
  <2> QED
    BY <2>1, <2>2 DEF SplitAt
<1>11. PICK last \in Words : last = WordsFrom(buf, p)
  <2>1. p \in 0..(MaxLen + 1)
    BY <1>1
  <2> QED
    BY <1>1, <2>1, WordsFromIs
<1>12. n <= Len(before) /\ Len(before) <= Len(words)
  <2>1. Len(words) = n + Len(between \o last)
    BY <1>4, <1>10, <1>11 DEF After
  <2>2. Len(between \o last) = Len(between) + Len(last) /\ Len(between) \in Nat /\ Len(last) \in Nat
    BY <1>11 DEF Words
  <2>3. Len(words) = Len(before) + Len(last) /\ Len(before) \in Nat
    BY <1>11 DEF Words
  <2> QED
    BY <2>1, <2>2, <2>3
<1>13. \A k \in 1..Len(before) : before[k] = words[k]
  <2>1. words = before \o last
    BY <1>11
  <2> QED
    BY <1>11, <2>1 DEF Words
<1>14. x.cmd = Meant(before)
  BY <1>1, <1>2, <1>3, <1>5, <1>12, <1>13, ReachedByFront
<1>15. before # <<>>
  BY <1>4, <1>12
<1> QED
  BY <1>7, <1>14, <1>15

\* What Tab adds for its only match.
AddedFor(p, m) == Append(SubSeq(m, (pos - p) + 1, Len(m)), Blank)

Adds(p, m, added) ==
    /\ m \in Names /\ m # <<>> /\ IsPrefix(Typed(p), m)
    /\ added = AddedFor(p, m) /\ len + Len(added) <= MaxLen

\* The word completed is the next one, and the last one, of the line that Tab makes.
LEMMA LineContinued ==
    ASSUME NEW p, AtEnd(p), NEW m, NEW added, Adds(p, m, added), NEW c, c = LineWith(added)
    PROVE  SameUpto(buf, c, p) /\ WordsFrom(c, p) = <<m>>
<1>0. /\ m \in Names /\ m # <<>> /\ IsPrefix(Typed(p), m)
      /\ added = AddedFor(p, m) /\ len + Len(added) <= MaxLen
  BY DEF Adds
<1>1. /\ BufOK(buf) /\ MaxLen \in Nat /\ len \in 0..MaxLen /\ p \in 0..len /\ pos = len
      /\ p > 0 => ByteAt(buf, p - 1) = Blank
      /\ \A i \in 0..(len - 1) : ByteAt(buf, i) # Nul
      /\ \A i \in 0..MaxLen : ByteAt(buf, i) = buf[i]
  <2>1. LineOK(buf, len, pos) /\ buf[MaxLen] = Nul
    BY AtEndIs DEF AtEnd
  <2> QED
    BY <2>1, AtEndIs, LineIsABuffer
<1>2. Blank \in Chars /\ Nul \notin Chars /\ m \in Seq(Chars) /\ Blank \notin Range(m)
  BY <1>0, EditorAssumption, OneWordAssumption
<1>3. PICK size \in Nat : size = Len(m)
  BY <1>2
<1>4. size > 0 /\ \A k \in 1..size : m[k] \in Chars /\ m[k] \notin {Blank, Nul}
  <2>1. \A k \in 1..size : m[k] \in Chars /\ m[k] \in Range(m)
    BY <1>2, <1>3 DEF Range
  <2> QED
    BY <1>0, <1>2, <1>3, <2>1
<1>5. PICK typed : typed = len - p
  OBVIOUS
<1>6. typed \in 0..size /\ \A k \in 1..typed : buf[p + k - 1] = m[k]
  <2>1. Typed(p) = [k \in 1..typed |-> buf[p + k - 1]]
    BY <1>1, <1>5 DEF Typed
  <2>2. \A k \in 1..typed : buf[p + k - 1] \in Byte
    <3>1. \A k \in 1..typed : p + k - 1 \in 0..MaxLen
      BY <1>1, <1>5
    <3> QED
      BY <1>1, <3>1 DEF BufOK, Places
  <2>3. PICK s : s = Typed(p)
    OBVIOUS
  <2>4. typed \in Nat
    BY <1>1, <1>5
  <2>5. s \in Seq(Byte) /\ Len(s) = typed /\ \A k \in 1..typed : s[k] = buf[p + k - 1]
    BY <2>1, <2>2, <2>3, <2>4
  <2>6. m \in Seq(Byte)
    BY <1>0, NameIsBytes
  <2>7. Len(s) <= Len(m) /\ \A k \in 1..Len(s) : s[k] = m[k]
    BY <1>0, <2>3, <2>5, <2>6, PrefixIs
  <2> QED
    BY <1>3, <2>4, <2>5, <2>7
<1>7. PICK left : left = SubSeq(m, typed + 1, size)
  OBVIOUS
<1>8. /\ left \in Seq(Chars) /\ Len(left) = size - typed
      /\ \A k \in 1..(size - typed) : left[k] = m[typed + k]
  <2>1. size - typed \in Nat /\ typed \in Nat
    BY <1>6
  <2>2. left = [k \in 1..(size - typed) |-> m[typed + k]]
    <3>1. SubSeq(m, typed + 1, size) = [k \in 1..(size - (typed + 1) + 1) |-> m[(typed + 1) + k - 1]]
      BY <1>2, <1>3, <1>6
    <3>2. size - (typed + 1) + 1 = size - typed /\ \A k \in Nat : (typed + 1) + k - 1 = typed + k
      BY <2>1
    <3> QED
      BY <1>7, <2>1, <3>1, <3>2
  <2>3. \A k \in 1..(size - typed) : m[typed + k] \in Chars
    <3>1. \A k \in 1..(size - typed) : typed + k \in 1..size
      BY <2>1
    <3> QED
      BY <1>4, <3>1
  <2> QED
    BY <2>1, <2>2, <2>3
<1>9. /\ added = Append(left, Blank) /\ added \in Seq(Chars) /\ Len(added) = (size - typed) + 1
      /\ added[(size - typed) + 1] = Blank
      /\ \A k \in 1..(size - typed) : added[k] = m[typed + k]
  <2>1. added = Append(left, Blank)
    BY <1>0, <1>1, <1>3, <1>5, <1>7 DEF AddedFor
  <2>2. PICK blank \in Chars : blank = Blank
    BY <1>2
  <2>3. PICK room \in Nat : room = size - typed
    BY <1>6
  <2>4. left \in Seq(Chars) /\ Len(left) = room
    BY <1>8, <2>3
  <2>5. /\ Append(left, blank) \in Seq(Chars) /\ Len(Append(left, blank)) = room + 1
        /\ Append(left, blank)[room + 1] = blank
        /\ \A k \in 1..room : Append(left, blank)[k] = left[k]
    BY <2>4
  <2> QED
    BY <1>8, <2>1, <2>2, <2>3, <2>5
<1>10. PICK q : q = p + size
  OBVIOUS
<1>11. q \in p..MaxLen /\ q \in len..MaxLen /\ q + 1 <= MaxLen /\ q - len = size - typed
       /\ Len(added) = (q - len) + 1
  <2>1. PICK room \in Nat : room = Len(added) /\ room = (size - typed) + 1 /\ len + room <= MaxLen
    BY <1>0, <1>6, <1>9
  <2>2. /\ MaxLen \in Nat /\ len \in 0..MaxLen /\ p \in 0..len /\ size \in Nat /\ typed \in 0..size
        /\ typed = len - p /\ q = p + size
    BY <1>1, <1>5, <1>6, <1>10
  <2>3. q - len = size - typed /\ q + 1 = len + room
    BY <2>1, <2>2
  <2> QED
    BY <2>1, <2>2, <2>3
<1>12. \A i \in 0..MaxLen :
           c[i] = IF i < len THEN buf[i] ELSE IF i - len < (q - len) + 1 THEN added[i - len + 1]
                                               ELSE Nul
  BY <1>11 DEF LineWith, Places
<1>13. c \in [Places -> Byte]
  <2>1. c = [i \in Places |-> IF i < len THEN buf[i]
                              ELSE IF i - len < Len(added) THEN added[i - len + 1] ELSE Nul]
    BY DEF LineWith
  <2>2. \A i \in Places : buf[i] \in Byte
    BY <1>1 DEF BufOK
  <2>3. Nul \in Byte
    BY DEF Byte
  <2>4. \A k \in 1..Len(added) : added[k] \in Byte
    <3>1. PICK given \in Seq(Chars) : given = added
      BY <1>9
    <3>2. \A k \in 1..Len(given) : given[k] \in Chars
      OBVIOUS
    <3>3. \A k \in 1..Len(added) : added[k] \in Chars
      BY <3>1, <3>2
    <3> QED
      BY <3>3 DEF Byte
  <2>5. ASSUME NEW i \in Places, ~(i < len), i - len < Len(added)
        PROVE  added[i - len + 1] \in Byte
    <3>1. i - len + 1 \in 1..Len(added)
      BY <1>1, <1>11, <2>5 DEF Places
    <3> QED
      BY <2>4, <3>1
  <2> QED
    BY <2>1, <2>2, <2>3, <2>5
<1>14. BufOK(c)
  <2>1. c[MaxLen] = Nul
    BY <1>1, <1>11, <1>12
  <2> QED
    BY <1>13, <2>1 DEF BufOK
<1>15. \A i \in 0..MaxLen : ByteAt(c, i) = c[i]
  BY <1>13 DEF ByteAt, Places
<1>16. SameUpto(buf, c, p)
  <2>1. ASSUME NEW k \in 0..(p - 1)
        PROVE  ByteAt(buf, k) = ByteAt(c, k) /\ ByteAt(buf, k) # Nul
    <3>1. k \in 0..MaxLen /\ k < len /\ k \in 0..(len - 1)
      BY <1>1
    <3> QED
      BY <1>1, <1>12, <1>15, <3>1
  <2> QED
    BY <1>1, <1>14, <2>1 DEF SameUpto
<1>17. ASSUME NEW k \in 1..size
       PROVE  ByteAt(c, p + k - 1) = m[k]
  <2>1. p + k - 1 \in 0..MaxLen
    BY <1>1, <1>10, <1>11
  <2>2. CASE k <= typed
    <3>1. p + k - 1 < len /\ k \in 1..typed
      BY <1>1, <1>5, <1>6, <2>2
    <3> QED
      BY <1>6, <1>12, <1>15, <2>1, <3>1
  <2>3. CASE ~(k <= typed)
    <3>1. /\ ~(p + k - 1 < len) /\ (p + k - 1) - len < (q - len) + 1
          /\ (p + k - 1) - len + 1 = k - typed
      BY <1>1, <1>5, <1>6, <1>10, <2>3
    <3>2. k - typed \in 1..(size - typed) /\ typed + (k - typed) = k
      BY <1>5, <1>6, <2>3
    <3>3. c[p + k - 1] = added[k - typed]
      BY <1>12, <2>1, <3>1
    <3> QED
      BY <1>9, <1>15, <2>1, <3>2, <3>3
  <2> QED
    BY <2>2, <2>3
<1>18. ByteAt(c, q) = Blank
  <2>1. q \in 0..MaxLen /\ ~(q < len) /\ q - len < (q - len) + 1 /\ q - len + 1 = (size - typed) + 1
    BY <1>1, <1>11
  <2> QED
    BY <1>9, <1>12, <1>15, <2>1
<1>19. ByteAt(c, q + 1) = Nul
  <2>1. q + 1 \in 0..MaxLen /\ ~(q + 1 < len) /\ ~((q + 1) - len < (q - len) + 1)
    BY <1>1, <1>11
  <2> QED
    BY <1>12, <1>15, <2>1
<1>20. \A k \in p..(q - 1) : ByteAt(c, k) \notin {Blank, Nul}
  <2> SUFFICES ASSUME NEW k \in p..(q - 1)
               PROVE  ByteAt(c, k) \notin {Blank, Nul}
    OBVIOUS
  <2>1. PICK j \in 1..size : k = p + j - 1
    <3>1. k - p + 1 \in 1..size /\ k = p + (k - p + 1) - 1
      BY <1>1, <1>10
    <3> QED
      BY <3>1
  <2> QED
    BY <1>4, <1>17, <2>1
<1>21. p \in 0..MaxLen /\ p # q
  BY <1>1, <1>4, <1>10
<1>22. WordsFrom(c, p) = <<Bytes(c, p, q)>>
  BY <1>11, <1>14, <1>18, <1>19, <1>20, <1>21, OneWordLeft
<1>23. Bytes(c, p, q) = m
  <2>1. Bytes(c, p, q) = [k \in 1..(q - p) |-> ByteAt(c, p + k - 1)]
    BY DEF Bytes
  <2>2. q - p = size
    BY <1>1, <1>10
  <2>3. m = [k \in 1..size |-> m[k]]
    BY <1>2, <1>3
  <2> QED
    BY <1>17, <2>1, <2>2, <2>3
<1> QED
  BY <1>16, <1>22, <1>23

\* What Tab offers at the end of a plain line may follow the words before it there.
LEMMA OfferedContinues ==
    ASSUME NEW p, AtEnd(p), NEW words, words = WordsFrom(buf, 0), Len(words) < 2 \/ Now.next < len,
           NEW before \in Words, words = before \o WordsFrom(buf, p),
           NEW m \in Range(Matches(buf, pos, p))
    PROVE  m \in Continues(before) /\ m # <<>>
<1>1. BufOK(buf) /\ MaxLen \in Nat /\ p \in Nat /\ p \in 0..(MaxLen + 1)
  BY AtEndIs
<1>2. CASE p = 0
  <2>1. PICK all \in Words : all = words
    BY <1>1, <1>2, WordsFromIs
  <2>2. all = before \o all
    BY <1>2, <2>1
  <2>3. Len(before) = 0
    <3>1. Len(all) = Len(before) + Len(all) /\ Len(all) \in Nat /\ Len(before) \in Nat
      BY <2>2 DEF Words
    <3> QED
      BY <3>1
  <2>4. before = <<>>
    BY <2>3 DEF Words
  <2> QED
    BY <1>2, <2>4, FirstWordOffered
<1>3. CASE p > 0
  <2>1. PICK found : found = FindActiveCmd(buf, pos)
    OBVIOUS
  <2>2. found.cmd # NoCmd
    <3> SUFFICES ASSUME found.cmd = NoCmd
                 PROVE  FALSE
      OBVIOUS
    <3>1. Matches(buf, pos, p) = <<>>
      BY <1>3, <2>1, NothingOfferedLater
    <3> QED
      BY <3>1 DEF Range
  <2>3. Len(words) < 2 \/ found.next < len
    BY <2>1 DEF Now
  <2>4. ByteAt(buf, found.next) = Blank /\ before # <<>> /\ Meant(before) = found.cmd
    BY <1>3, <2>1, <2>2, <2>3, CommandBefore
  <2> QED
    BY <1>3, <2>1, <2>2, <2>4, LaterWordOffered
<1> QED
  BY <1>1, <1>2, <1>3

LEMMA OnlyElement ==
    ASSUME NEW S, NEW s \in Seq(S), Len(s) = 1
    PROVE  s[1] \in S /\ s[1] \in Range(s)
BY DEF Range

LEMMA LastOfAppend ==
    ASSUME NEW S, NEW s \in Seq(S), NEW x \in S
    PROVE  Last(Append(s, x)) = x /\ Front(Append(s, x)) = s
<1>1. PICK t : t = Append(s, x)
  OBVIOUS
<1>2. /\ t \in Seq(S) /\ Len(t) = Len(s) + 1 /\ t[Len(s) + 1] = x
      /\ \A i \in 1..Len(s) : t[i] = s[i]
  BY <1>1
<1>3. Last(t) = x
  BY <1>2 DEF Last
<1>4. Front(t) = s
  <2>1. Len(t) - 1 = Len(s) /\ Len(s) \in Nat
    BY <1>2
  <2>2. SubSeq(t, 1, Len(s)) = [i \in 1..Len(s) |-> t[i]]
    BY <1>2, <2>1
  <2>3. s = [i \in 1..Len(s) |-> s[i]]
    OBVIOUS
  <2> QED
    BY <1>2, <2>1, <2>2, <2>3 DEF Front
<1> QED
  BY <1>1, <1>3, <1>4

LEMMA TabContinues ==
    ASSUME ShellInv, pos = len, Plain(buf), Clean(buf), Idle,
           Len(WordsFrom(buf, 0)) < 2 \/ Now.next < len,
           NEW p, p = WordStart(buf, pos), Len(Matches(buf, pos, p)) = 1,
           NEW m, m = Matches(buf, pos, p)[1],
           NEW added, added = AddedFor(p, m), len + Len(added) <= MaxLen, NEW after, after = WordsFrom(LineWith(added), 0)
    PROVE  Last(after) \in Continues(Front(after))
<1>1. LineOK(buf, len, pos) /\ buf[MaxLen] = Nul
  BY DEF ShellInv, StateInv, EditorInv, BufOK, Idle
<1>2. Tidy(buf)
  BY <1>1, PlainIsTidy
<1>3. BufOK(buf) /\ MaxLen \in Nat /\ len \in 0..MaxLen /\ \A i \in 0..MaxLen : ByteAt(buf, i) = buf[i]
  BY <1>1, LineIsABuffer
<1>4. ASSUME NEW i \in Nat, i >= len
      PROVE  ByteAt(buf, i) = Nul
  <2>1. CASE i >= MaxLen
    BY <1>3, <2>1, ByteAtIs
  <2>2. CASE ~(i >= MaxLen)
    <3>1. i \in 0..MaxLen /\ i \in StrEnd(buf)..MaxLen
      BY <1>1, <1>3, <1>4, <2>2, StrEndIs
    <3> QED
      BY <1>3, <3>1 DEF Clean
  <2> QED
    BY <2>1, <2>2
<1>5. AtEnd(p)
  BY <1>1, <1>2, <1>4 DEF AtEnd
<1>6. p \in 0..len /\ p \in 0..(MaxLen + 1) /\ 0 \in 0..p
  BY <1>3, <1>5, AtEndIs
<1>7. PICK offered \in Seq(MatchesAt(p)) : offered = Matches(buf, pos, p)
  BY <1>1, TabOffers
<1>8. m \in MatchesAt(p) /\ m \in Range(Matches(buf, pos, p))
  <2>1. Len(offered) = 1 /\ m = offered[1]
    BY <1>7
  <2>2. offered[1] \in MatchesAt(p) /\ offered[1] \in Range(offered)
    BY <2>1, OnlyElement
  <2> QED
    BY <1>7, <2>1, <2>2
<1>9. m \in Names /\ IsPrefix(Typed(p), m)
  BY <1>3, <1>6, <1>8 DEF MatchesAt
<1>10. SameUpto(buf, buf, p)
  <2>1. /\ p > 0 => ByteAt(buf, p - 1) = Blank
        /\ \A i \in 0..(len - 1) : ByteAt(buf, i) # Nul
    BY <1>5, AtEndIs
  <2> QED
    BY <1>3, <1>6, <2>1 DEF SameUpto
<1>11. m # <<>>
  <2>1. SplitAt(buf, buf, 0, p)
    BY <1>6, <1>10, Splits
  <2>2. PICK before \in Words : WordsFrom(buf, 0) = before \o WordsFrom(buf, p)
    BY <2>1 DEF SplitAt
  <2> QED
    BY <1>5, <1>8, <2>2, OfferedContinues
<1>12. PICK c : c = LineWith(added)
  OBVIOUS
<1>13. SameUpto(buf, c, p) /\ WordsFrom(c, p) = <<m>>
  <2>1. Adds(p, m, added)
    BY <1>9, <1>11 DEF Adds
  <2> QED
    BY <1>5, <1>12, <2>1, LineContinued
<1>14. PICK before \in Words : /\ WordsFrom(buf, 0) = before \o WordsFrom(buf, p)
                               /\ WordsFrom(c, 0) = before \o WordsFrom(c, p)
  <2>1. SplitAt(buf, c, 0, p)
    BY <1>6, <1>13, Splits
  <2> QED
    BY <2>1 DEF SplitAt
<1>15. m \in Continues(before)
  BY <1>5, <1>8, <1>14, OfferedContinues
<1>16. after = before \o <<m>>
  BY <1>12, <1>13, <1>14
<1>17. m \in Seq(Byte)
  BY <1>9, NameIsBytes
<1>18. after = Append(before, m)
  BY <1>16, <1>17 DEF Words
<1>19. Last(after) = m /\ Front(after) = before
  <2>1. PICK S : S = Seq(Byte)
    OBVIOUS
  <2>2. before \in Seq(S) /\ m \in S
    BY <1>17, <2>1 DEF Words
  <2>3. Last(Append(before, m)) = m /\ Front(Append(before, m)) = before
    BY <2>2, LastOfAppend
  <2> QED
    BY <1>18, <2>3, Zenon
<1> QED
  BY <1>15, <1>19

\* Only Tab with a single match adds characters and lists nothing.
LEMMA AddsOnlyByTab ==
    ASSUME [ShellNext]_shellVars, rest = <<>>, rest' # <<>>, ~listing', ShellInv
    PROVE  /\ Idle /\ Len(Matches(buf, pos, WordStart(buf, pos))) = 1
           /\ InWord => rest' = Append(Untyped(Matches(buf, pos, WordStart(buf, pos))[1],
                                               Len(Matches(buf, pos, WordStart(buf, pos))[1])),
                                       Blank)
           /\ len + Len(rest') <= MaxLen
<1>1. Tab
  <2>1. ~(UNCHANGED rest)
    OBVIOUS
  <2>2. ~StartLine
    BY <2>1 DEF StartLine, Start
  <2>3. ~PlainKey
    <3>1. \A c \in Chars : ~Type(c)
      BY <2>1 DEF Type
    <3>2. ~Backspace /\ ~Delete /\ ~ClearLine
      BY <2>1 DEF Backspace, Delete, ClearLine
    <3>3. ~ArrowRight /\ ~ArrowLeft /\ ~End /\ ~Home
      BY <2>1 DEF ArrowRight, ArrowLeft, End, Home, MoveTo
    <3>4. \A line \in StoredLines : ~Browse(line)
      BY <2>1 DEF Browse
    <3>5. ~Complete /\ ~ListMatches
      BY <2>1 DEF Complete, ListMatches
    <3> QED
      BY <3>1, <3>2, <3>3, <3>4, <3>5 DEF PlainKey
  <2>4. ~HelpKey /\ ~EnterNothing /\ ~EnterCommand
    BY <2>1 DEF HelpKey, Help, EnterNothing, EnterCommand, Return
  <2>5. ~Runs
    BY <2>1 DEF Runs, CreateCmdinfo, NoMoreWords, TakeName, TakeOther, TakeValue, MissingValue,
                MissingParameter, CallBack, CallbackReturns, editorVars
  <2>6. ShellNext
    BY <2>1 DEF shellVars, editorVars
  <2> QED
    BY <2>2, <2>3, <2>4, <2>5, <2>6 DEF ShellNext, Keys
<1>2. PICK offered : offered = Matches(buf, pos, WordStart(buf, pos))
  OBVIOUS
<1>3. Idle /\ TabWith(offered)
  BY <1>1, <1>2 DEF Tab
<1>4. TabOne(offered)
  <2>1. ~TabNone(offered)
    BY DEF TabNone, editorVars
  <2>2. ~TabMany(offered)
    BY DEF TabMany
  <2>3. ~TabManyWithNul(offered)
    BY DEF TabManyWithNul
  <2> QED
    BY <1>3, <2>1, <2>2, <2>3 DEF TabWith
<1> QED
  BY <1>2, <1>3, <1>4 DEF TabOne

-----------------------------------------------------------------------------
(* The theorems.                                                           *)

\* A callback runs only with every required parameter of its command given, and each
\* parameter given has as many values as it takes (execute, createcmdinfo).
THEOREM CallbackHasRequired == ShellSpec => []RequiredGiven
<1>1. ASSUME ShellInv, stage = "callback"
      PROVE  RequiredGiven
  <2>1. stage # "line" /\ (stage = "values") = FALSE
    BY <1>1
  <2>2. ArgsOK(Table, info.params, FALSE) /\ Missing = {} /\ info.params \in Seq(Arg)
    BY <1>1, <2>1, BeforeReading DEF StateInv
  <2>3. ASSUME NEW i \in DOMAIN Table, Table[i].required
        PROVE  IF Table[i].name = <<>> THEN info.defval # NoText
               ELSE Table[i].name \in {NameOfParam(j) : j \in DOMAIN info.params}
    <3>1. ~(IF Table[i].name = <<>> THEN info.defval = NoText ELSE Given(Table[i].name) = {})
      BY <2>2, <2>3 DEF Missing
    <3>2. ASSUME Given(Table[i].name) # {}
          PROVE  Table[i].name \in {NameOfParam(j) : j \in DOMAIN info.params}
      BY <3>2 DEF Given, NameOfParam
    <3> QED
      BY <3>1, <3>2
  <2>4. ASSUME NEW j \in DOMAIN info.params
        PROVE  Len(info.params[j].values) = Table[info.params[j].param].numval
    <3>1. j \in 1..Len(info.params)
      BY <2>2
    <3> QED
      BY <2>2, <3>1 DEF ArgsOK
  <2> QED
    BY <2>3, <2>4 DEF RequiredGiven
<1>2. ShellInv => RequiredGiven
  BY <1>1 DEF RequiredGiven
<1> QED
  BY <1>2, ShellInvHolds, PTL

\* What a callback is given stands on the line behind the command, the values behind
\* their parameter and nothing twice (createcmdinfo).
THEOREM CallbackGetsTheLine == ShellSpec => []ArgumentsFromLine
<1>1. ASSUME ShellInv, stage = "callback"
      PROVE  ArgumentsFromLine
  <2> DEFINE args == Arguments
             n == Len(info.params)
             size == [i \in 1..n |-> 1 + Len(info.params[i].values)]
  <2>1. stage # "line"
    BY <1>1
  <2>2. /\ args \in Seq(Seq(Byte)) /\ info.params \in Seq(Arg) /\ Table \in Seq(Param)
        /\ ArgsOK(Table, info.params, stage = "values")
    BY <1>1, <2>1, BeforeReading DEF Words
  <2>0. PICK m \in Nat : \E at : SpreadUpto(m, at)
    BY <1>1, <2>1, BeforeReading DEF SpreadInv
  <2>3. PICK at : SpreadUpto(m, at)
    BY <2>0
  <2>4. m <= Len(args) /\ Spread(Table, args, info.params, info.defval, m, at)
    BY <2>3 DEF SpreadUpto
  <2> HIDE DEF args
  <2>5. n \in Nat /\ Len(args) \in Nat /\ at \in [1..n -> 1..m] /\ 1..m \subseteq 1..Len(args)
    BY <2>2, <2>4 DEF Spread
  <2>6. at \in [1..n -> 1..Len(args)]
    BY <2>5
  <2>7. ASSUME NEW i \in 1..n
        PROVE  /\ at[i] \in Nat /\ Len(info.params[i].values) \in Nat
               /\ info.params[i].values \in Seq(Seq(Byte))
               /\ NameOfParam(i) \in Seq(Byte)
               /\ EndsWith(at[i], info.params[i]) = at[i] + Len(info.params[i].values)
               /\ at[i] + size[i] - 1 = at[i] + Len(info.params[i].values)
    <3>1. info.params[i] \in Arg /\ info.params[i].param \in DOMAIN Table
      BY <2>2 DEF ArgsOK
    <3>2. at[i] \in Nat
      BY <2>5
    <3>3. Len(info.params[i].values) \in Nat /\ info.params[i].values \in Seq(Seq(Byte))
      BY <3>1 DEF Arg
    <3>4. NameOfParam(i) \in Seq(Byte)
      <4>1. Table[info.params[i].param] \in Param
        BY <2>2, <3>1
      <4>2. NameOfParam(i) \in Names
        BY <4>1 DEF Param, NameOfParam
      <4> QED
        BY <4>2, NameIsBytes
    <3>5. at[i] + size[i] - 1 = at[i] + Len(info.params[i].values)
      <4>1. PICK a \in Nat, l \in Nat : a = at[i] /\ l = Len(info.params[i].values)
        BY <3>2, <3>3
      <4>2. size[i] = 1 + l
        BY <4>1
      <4>3. a + (1 + l) - 1 = a + l
        OBVIOUS
      <4> QED
        BY <4>1, <4>2, <4>3, Zenon
    <3> QED
      BY <3>2, <3>3, <3>4, <3>5 DEF EndsWith
  <2>8. ASSUME NEW i \in 1..n
        PROVE  /\ at[i] + size[i] - 1 <= Len(args)
               /\ SubSeq(args, at[i], at[i] + size[i] - 1)
                      = <<NameOfParam(i)>> \o info.params[i].values
               /\ i > 1 => at[i - 1] + size[i - 1] <= at[i]
    <3> DEFINE values == info.params[i].values
    <3>1. PICK a \in 1..Len(args) : a = at[i]
      BY <2>6
    <3>2. PICK l \in Nat : l = Len(values)
      BY <2>7
    <3>3. at[i] + size[i] - 1 = a + l /\ EndsWith(at[i], info.params[i]) = a + l
      BY <2>7, <3>1, <3>2, Zenon
    <3>4. /\ EndsWith(at[i], info.params[i]) <= m
          /\ StandsAt(Table, args, at[i], info.params[i])
          /\ i > 1 => EndsWith(at[i - 1], info.params[i - 1]) < at[i]
      BY <2>4 DEF Spread
    <3>5. a + l <= m
      BY <3>3, <3>4, Zenon
    <3>6. a + l <= Len(args)
      BY <2>4, <2>5, <3>5
    <3>7. /\ args[a] = NameOfParam(i)
          /\ \A k \in 1..Len(values) : args[a + k] = values[k]
      BY <3>1, <3>4, Zenon DEF StandsAt, NameOfParam
    <3>8. values \in Seq(Seq(Byte)) /\ NameOfParam(i) \in Seq(Byte) /\ a + Len(values) <= Len(args)
      BY <2>7, <3>2, <3>6
    <3>9. SubSeq(args, a, a + Len(values)) = <<NameOfParam(i)>> \o values
      <4> HIDE DEF values
      <4> QED
        BY <2>2, <3>7, <3>8, NameThenValues
    <3>10. ASSUME i > 1
           PROVE  at[i - 1] + size[i - 1] <= at[i]
      <4>1. PICK j \in 1..n : j = i - 1
        BY <2>5, <3>10
      <4>2. PICK b \in Nat, k \in Nat : b = at[j] /\ k = Len(info.params[j].values)
        BY <2>7
      <4>3. EndsWith(at[j], info.params[j]) = b + k
        BY <4>2, Zenon DEF EndsWith
      <4>4. b + k < a
        BY <3>1, <3>4, <3>10, <4>1, <4>3, Zenon
      <4>5. b + (1 + k) <= a
        BY <4>4
      <4>6. size[j] = 1 + k
        BY <4>2
      <4> QED
        BY <3>1, <4>1, <4>2, <4>5, <4>6, Zenon
    <3> QED
      BY <3>1, <3>2, <3>3, <3>6, <3>9, <3>10, Zenon
  <2>9. ASSUME info.defval # NoText
        PROVE  \E j \in DOMAIN args :
                   /\ args[j] = info.defval
                   /\ \A i \in 1..n : j \notin at[i]..(at[i] + size[i] - 1)
    <3>1. PICK j \in 1..m :
              /\ args[j] = info.defval
              /\ \A i \in 1..n : j \notin at[i]..EndsWith(at[i], info.params[i])
      BY <2>4, <2>9 DEF Spread
    <3>2. j \in DOMAIN args
      BY <2>2, <2>5
    <3>3. \A i \in 1..n : j \notin at[i]..(at[i] + size[i] - 1)
      BY <2>7, <3>1, Zenon
    <3> QED
      BY <3>1, <3>2, <3>3
  <2> HIDE DEF size
  <2>10. ArgumentsFromLine = (stage = "callback" =>
            \E spots \in [1..n -> 1..Len(args)] :
                /\ \A i \in 1..n :
                       /\ spots[i] + size[i] - 1 <= Len(args)
                       /\ SubSeq(args, spots[i], spots[i] + size[i] - 1)
                              = <<NameOfParam(i)>> \o info.params[i].values
                       /\ i > 1 => spots[i - 1] + size[i - 1] <= spots[i]
                /\ info.defval # NoText =>
                       \E j \in DOMAIN args :
                           /\ args[j] = info.defval
                           /\ \A i \in 1..n : j \notin spots[i]..(spots[i] + size[i] - 1))
    BY DEF ArgumentsFromLine, args, size
  <2> HIDE DEF n
  <2> QED
    BY <2>6, <2>8, <2>9, <2>10, Zenon
<1>2. ShellInv => ArgumentsFromLine
  BY <1>1 DEF ArgumentsFromLine
<1> QED
  BY <1>2, ShellInvHolds, PTL

\* If no parameter's name is the beginning of another's, createcmdinfo takes each name
\* behind the command for the parameter, never for a value or for nothing.
THEOREM NamesAlwaysTaken == ShellSpec => []NamesTaken
<1>1. ASSUME ShellInv, stage = "required", PrefixFree
      PROVE  Len(Among(Arguments, {Table[i].name : i \in DOMAIN Table})) = Len(info.params)
  <2>1. stage # "line" /\ ~Reading
    BY <1>1 DEF Reading
  <2>2. Len(Among(Arguments, TableNames)) = Len(info.params) + 0
    BY <1>1, <2>1, BeforeReading, Zenon DEF CountInv
  <2>3. Len(info.params) + 0 = Len(info.params)
    BY <1>1, <2>1, BeforeReading
  <2> QED
    BY <2>2, <2>3, Zenon DEF TableNames
<1>2. ShellInv => NamesTaken
  BY <1>1 DEF NamesTaken
<1> QED
  BY <1>2, ShellInvHolds, PTL

\* On a line with single blanks find_active_cmd, wherever the cursor is, finds the command
\* that the words of the line name, each below the one before.
THEOREM SearchFindsTheCommand == ShellSpec => []FindsWhatIsMeant
<1>1. ASSUME ShellInv, Idle, Plain(buf), Clean(buf)
      PROVE  Now.cmd = Meant(WordsFrom(buf, 0))
  <2>1. LineOK(buf, len, pos) /\ buf[MaxLen] = Nul
    BY <1>1 DEF ShellInv, StateInv, EditorInv, BufOK, Idle
  <2>2. Tidy(buf) /\ pos \in Nat
    BY <1>1, <2>1, PlainIsTidy
  <2> QED
    BY <2>2, SearchFindsMeant DEF Now
<1>2. ShellInv => FindsWhatIsMeant
  BY <1>1 DEF FindsWhatIsMeant
<1> QED
  BY <1>2, ShellInvHolds, PTL

\* What Tab completes at the end of a line with single blanks is a word that the parser
\* understands there: the completer, which searches the buffer by the cursor, and the
\* parser agree on the command that the word continues.
THEOREM CompletedWordIsUnderstood == ShellSpec => CompletedWordContinues
<1> DEFINE Here == /\ rest = <<>> /\ rest' # <<>> /\ ~listing'
                   /\ pos = len /\ Plain(buf) /\ Clean(buf)
                   /\ Len(WordsFrom(buf, 0)) < 2 \/ Now.next < len
           Understood == Last(WordsFrom(LineWith(rest'), 0))
                             \in Continues(Front(WordsFrom(LineWith(rest'), 0)))
<1>1. ASSUME ShellInv, [ShellNext]_shellVars, Here
      PROVE  Understood
  <2>1. PICK p, m, added, after :
            /\ p = WordStart(buf, pos) /\ m = Matches(buf, pos, p)[1]
            /\ added = rest' /\ after = WordsFrom(LineWith(added), 0)
    OBVIOUS
  <2>2. /\ Idle /\ Len(Matches(buf, pos, p)) = 1
        /\ InWord => added = Append(Untyped(m, Len(m)), Blank)
        /\ len + Len(added) <= MaxLen
    BY <1>1, <2>1, AddsOnlyByTab
  <2>3. LineOK(buf, len, pos) /\ buf[MaxLen] = Nul
    BY <1>1, <2>2 DEF ShellInv, StateInv, EditorInv, BufOK, Idle
  <2>4. InWord
    <3>1. ByteAt(buf, 0) # Blank /\ \A i \in 0..MaxLen : ByteAt(buf, i) = buf[i]
      BY <1>1, <2>3, LineIsABuffer DEF Plain
    <3>2. 0 \in 0..MaxLen /\ p \in Nat /\ pos \in Nat
      BY <2>1, <2>3, WordStartIs, LineIsABuffer DEF Places
    <3>3. ~(p > pos)
      BY <2>1, <2>3, <3>1, <3>2, WordStartIs
    <3> QED
      BY <2>1, <3>2, <3>3 DEF InWord
  <2>5. added = AddedFor(p, m)
    BY <2>1, <2>2, <2>4 DEF Untyped, AddedFor
  <2>6. Last(after) \in Continues(Front(after))
    BY <1>1, <2>1, <2>2, <2>5, TabContinues
  <2> QED
    BY <2>1, <2>6
<1>2. ShellInv /\ [ShellNext]_shellVars => [Here => Understood]_shellVars
  BY <1>1
<1> QED
  BY <1>2, ShellInvHolds, PTL DEF ShellSpec, CompletedWordContinues

\* Whatever the completer and the help text do to the line, module LineEditor lets them.
THEOREM ShellImplementsEditor == ShellSpec => ImplementsEditor
<1>1. ShellInit => EditorInit
  BY DEF ShellInit
<1>2. ShellInv /\ [ShellNext]_shellVars => [EditorNext]_editorVars
  BY StepsAreEditors DEF ShellInv, StateInv
<1> QED
  BY <1>1, <1>2, ShellInvHolds, PTL DEF ShellSpec, ImplementsEditor, EditorSpec

\* So the line of a whole session stays one line with a cursor, and the terminal shows it.
COROLLARY ShellShowsTheLine ==
    ShellSpec => [](OneLength /\ ScreenShowsLine) /\ ImplementsLine
BY ShellImplementsEditor, LengthsAgree, ScreenCorrect, RefinesLine, PTL DEF ImplementsEditor

=============================================================================
