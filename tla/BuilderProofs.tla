---------------------------- MODULE BuilderProofs ----------------------------
(***************************************************************************)
(* Theorems about module Builder, for every set of names and documents of  *)
(* every size.                                                             *)
(***************************************************************************)
EXTENDS Export, Foundations
LOCAL INSTANCE SequencesExt

-----------------------------------------------------------------------------
(* Paths.                                                                  *)

\* FlattenSeq by recursion: one name after the other is put behind what there is.
LEMMA FlattenUnfolds ==
    ASSUME NEW T, NEW names \in Seq(Seq(T)), names # <<>>
    PROVE  \E f : /\ f = [i \in 1..Len(names) |->
                             IF i = 1 THEN names[i] ELSE f[i - 1] \o names[i]]
                  /\ FlattenSeq(names) = f[Len(names)]
<1> DEFINE n == Len(names)
           Steps(f) == f = [i \in 1..n |-> IF i = 1 THEN names[i] ELSE f[i - 1] \o names[i]]
           step == [a \in Nat \X Seq(T) |-> IF a[1] + 1 \in 1..n THEN a[2] \o names[a[1] + 1]
                                            ELSE <<>>]
<1>1. n \in Nat /\ n > 0 /\ \A i \in 1..n : names[i] \in Seq(T)
  BY ElementOfSeq, EmptySeq
<1>2. step \in [Nat \X Seq(T) -> Seq(T)]
  <2>1. \A a \in Nat \X Seq(T) : step[a] \in Seq(T)
    <3> TAKE a \in Nat \X Seq(T)
    <3>1. a[1] \in Nat /\ a[2] \in Seq(T)
      OBVIOUS
    <3>2. CASE a[1] + 1 \in 1..n
      <4>1. names[a[1] + 1] \in Seq(T)
        BY <1>1, <3>2
      <4>2. a[2] \o names[a[1] + 1] \in Seq(T)
        BY <3>1, <4>1, ConcatProperties
      <4> QED
        BY <3>2, <4>2
    <3>3. <<>> \in Seq(T)
      OBVIOUS
    <3> QED
      BY <3>2, <3>3
  <2> QED
    BY <2>1
<1>3. PICK g \in [Nat -> Seq(T)] :
          g[0] = <<>> /\ \A m \in Nat : g[m + 1] = step[<<m, g[m]>>]
  <2> DEFINE none == <<>>
           Sequences == Seq(T)
  <2>1. none \in Sequences /\ step \in StepsOn(Sequences)
    BY <1>2 DEF StepsOn
  <2> HIDE DEF step, none, Sequences
  <2>2. \E g : Recursive(g, Sequences, none, step)
    BY <2>1, Recursion, Zenon
  <2> QED
    BY <2>2 DEF Recursive, none, Sequences
<1> DEFINE f == [i \in 1..n |-> g[i]]
<1>4. ASSUME NEW i \in 1..n
      PROVE  f[i] = IF i = 1 THEN names[i] ELSE f[i - 1] \o names[i]
  <2>1. i - 1 \in Nat /\ (i - 1) + 1 = i /\ g[i - 1] \in Seq(T) /\ names[i] \in Seq(T)
    BY <1>1
  <2>2. g[i] = step[<<i - 1, g[i - 1]>>]
    BY <1>3, <2>1
  <2>3. step[<<i - 1, g[i - 1]>>] = g[i - 1] \o names[i]
    BY <2>1
  <2>4. f[i] = g[i - 1] \o names[i]
    BY <2>2, <2>3
  <2>5. CASE i = 1
    <3>1. g[i - 1] = <<>> /\ <<>> \o names[i] = names[i]
      BY <1>3, <2>1, <2>5, ConcatEmptySeq
    <3> HIDE DEF f
    <3> QED
      BY <2>4, <2>5, <3>1
  <2>6. CASE i # 1
    <3>1. i - 1 \in 1..n
      BY <1>1, <2>6
    <3>2. f[i - 1] = g[i - 1]
      BY <3>1
    <3> HIDE DEF f
    <3> QED
      BY <2>4, <2>6, <3>2
  <2> QED
    BY <2>5, <2>6
<1>5. Steps(f)
  <2> DEFINE h == [i \in 1..n |-> IF i = 1 THEN names[i] ELSE f[i - 1] \o names[i]]
  <2>1. \A i \in 1..n : f[i] = h[i]
    BY <1>4
  <2>2. f = [i \in 1..n |-> f[i]] /\ h = [i \in 1..n |-> h[i]]
    OBVIOUS
  <2> HIDE DEF f, h, n
  <2>3. f = h
    BY <2>1, <2>2
  <2> QED
    BY <2>3 DEF h
<1> HIDE DEF f
<1>6. Steps(CHOOSE h : Steps(h))
  <2> HIDE DEF Steps
  <2> QED
    BY <1>5
<1>7. FlattenSeq(names) = (CHOOSE h : Steps(h))[n]
  BY <1>1 DEF FlattenSeq
<1> QED
  BY <1>6, <1>7

LEMMA SumIsMore ==
    ASSUME NEW a \in Nat, NEW b \in Nat, NEW n \in Nat, a >= n, b >= 1
    PROVE  a + b >= n + 1
OBVIOUS

\* Names that each have a part.
NoPartless(names) == \A i \in DOMAIN names : names[i] # <<>>

\* The parts of several names are parts, and there are at least as many as names.
LEMMA FlattenedNames ==
    ASSUME NEW T, NEW names \in Seq(Seq(T))
    PROVE  /\ FlattenSeq(names) \in Seq(T)
           /\ NoPartless(names) => Len(FlattenSeq(names)) >= Len(names)
<1>1. CASE names = <<>>
  <2>1. FlattenSeq(names) = <<>>
    BY <1>1 DEF FlattenSeq
  <2>2. <<>> \in Seq(T) /\ Len(<<>>) >= Len(<<>>)
    OBVIOUS
  <2> QED
    BY <1>1, <2>1, <2>2, Zenon
<1>2. CASE names # <<>>
  <2> DEFINE n == Len(names)
  <2>1. n \in Nat /\ n > 0 /\ \A i \in 1..n : names[i] \in Seq(T)
    BY <1>2, ElementOfSeq, EmptySeq
  <2>2. PICK f : /\ f = [i \in 1..n |-> IF i = 1 THEN names[i] ELSE f[i - 1] \o names[i]]
                 /\ FlattenSeq(names) = f[n]
    BY <1>2, FlattenUnfolds
  <2> DEFINE Good == {i \in Nat : i \in 1..n => /\ f[i] \in Seq(T)
                                                /\ NoPartless(names) => Len(f[i]) >= i}
  <2>3. 0 \in Good
    OBVIOUS
  <2>4. ASSUME NEW i \in Nat, i \in Good
        PROVE  i + 1 \in Good
    <3> SUFFICES ASSUME i + 1 \in 1..n
                 PROVE  /\ f[i + 1] \in Seq(T)
                        /\ NoPartless(names) => Len(f[i + 1]) >= i + 1
      OBVIOUS
    <3>1. /\ names[i + 1] \in Seq(T) /\ Len(names[i + 1]) \in Nat
          /\ NoPartless(names) => Len(names[i + 1]) >= 1
      <4>1. names[i + 1] \in Seq(T)
        BY <2>1
      <4>2. NoPartless(names) => names[i + 1] # <<>>
        BY <2>1 DEF NoPartless
      <4> QED
        BY <4>1, <4>2, EmptySeq
    <3>2. f[i + 1] = IF i + 1 = 1 THEN names[i + 1] ELSE f[(i + 1) - 1] \o names[i + 1]
      BY <2>2
    <3>3. CASE i = 0
      BY <3>1, <3>2, <3>3
    <3>4. CASE i # 0
      <4>1. i \in 1..n /\ i + 1 # 1 /\ (i + 1) - 1 = i
        BY <2>1, <3>4
      <4>2. f[i] \in Seq(T) /\ (NoPartless(names) => Len(f[i]) >= i) /\ Len(f[i]) \in Nat
        BY <2>4, <4>1
      <4>3. f[i + 1] = f[i] \o names[i + 1]
        BY <3>2, <4>1
      <4>4. f[i + 1] \in Seq(T) /\ Len(f[i + 1]) = Len(f[i]) + Len(names[i + 1])
        BY <3>1, <4>2, <4>3, ConcatProperties
      <4> QED
        BY <3>1, <4>2, <4>4, SumIsMore, Zenon
    <3> QED
      BY <3>3, <3>4
  <2>5. \A i \in Nat : i \in Good
    <3> HIDE DEF Good
    <3> QED
      BY <2>3, <2>4, SetInduction
  <2>6. n \in Good /\ n \in 1..n
    <3> HIDE DEF Good
    <3> QED
      BY <2>1, <2>5
  <2> QED
    BY <2>2, <2>6
<1> QED
  BY <1>1, <1>2

-----------------------------------------------------------------------------
(* The invariant.                                                          *)

\* The path of the context that a command leads to.
PathThrough(key) == key[1] \o FlattenSeq(key[2])

IsNames(names) == names \in Seq(Seq(Parts)) /\ NoPartless(names)

\* What the maps hold: commands are kept under a known context and a path of names, and a
\* subcontext is known by the path that goes through its command.
MapsOK ==
    /\ mapCtx \in [DOMAIN mapCtx -> Seq(Parts) \cup {NoContext}]
    /\ DOMAIN mapCtx \subseteq Seq(Parts)
    /\ mapCtx # <<>> => Main \in DOMAIN mapCtx
    /\ mapCommands \in [Keys -> [subContext : Seq(Parts) \cup {NoContext},
                                 params : SUBSET (ParamNames \cup {Default})]]

KeysOK ==
    \A key \in Keys : /\ key = <<key[1], key[2]>>
                      /\ key[1] \in DOMAIN mapCtx /\ IsNames(key[2]) /\ key[2] # <<>>

SubContextsKnown ==
    \A key \in Keys : mapCommands[key].subContext # NoContext =>
        /\ mapCommands[key].subContext = PathThrough(key)
        /\ mapCommands[key].subContext \in DOMAIN mapCtx

\* What is open is known.
PlaceOK == stCtxs \in Seq(DOMAIN mapCtx) /\ IsNames(lstCmds)

\* Every context that is known has been counted.
Counted ==
    /\ cur_depth \in Nat /\ context_depth = cur_depth
    /\ IsFiniteSet(DOMAIN mapCtx) /\ Cardinality(DOMAIN mapCtx) <= context_depth

CoreInv ==
    /\ MapsOK /\ KeysOK /\ SubContextsKnown /\ PlaceOK /\ Counted /\ NamesUnambiguous
    /\ errors \in Nat

BuilderInv ==
    /\ CoreInv
    /\ open \in Seq(Element)
    /\ elements \in 0..MaxElements /\ cur_depth <= elements
    /\ status \in {"reading", "written", "crashed", "abandoned"}

LEMMA MainIsAPath ==
    /\ Main \in Seq(Parts) /\ NoContext \notin Seq(Parts)
    /\ \A name \in Names \cup ParamNames : name \in Seq(Parts) /\ name # <<>>
BY BuilderAssumption DEF Main

\* The innermost open context.
LEMMA HereIsKnown ==
    ASSUME MapsOK, PlaceOK, stCtxs # <<>>
    PROVE  /\ Here \in DOMAIN mapCtx /\ Here \in Seq(Parts)
           /\ Len(stCtxs) \in Nat /\ Len(stCtxs) > 0
<1>1. Len(stCtxs) \in Nat /\ Len(stCtxs) > 0
  BY EmptySeq DEF PlaceOK
<1>2. stCtxs[Len(stCtxs)] \in DOMAIN mapCtx
  BY <1>1, ElementOfSeq DEF PlaceOK
<1> QED
  BY <1>1, <1>2 DEF Here, MapsOK

LEMMA NamesWithOneMore ==
    ASSUME NEW names, IsNames(names), NEW name \in Seq(Parts), name # <<>>
    PROVE  IsNames(Append(names, name)) /\ Append(names, name) # <<>>
<1>1. /\ names \in Seq(Seq(Parts)) /\ Len(names) \in Nat
      /\ \A i \in 1..Len(names) : names[i] # <<>>
  BY DEF IsNames, NoPartless
<1>2. /\ Append(names, name) \in Seq(Seq(Parts)) /\ Len(Append(names, name)) = Len(names) + 1
      /\ \A i \in 1..Len(names) : Append(names, name)[i] = names[i]
      /\ Append(names, name)[Len(names) + 1] = name
  BY <1>1, AppendProperties
<1>3. \A i \in DOMAIN Append(names, name) : Append(names, name)[i] # <<>>
  BY <1>1, <1>2
<1> QED
  BY <1>1, <1>2, <1>3 DEF IsNames, NoPartless

LEMMA OneName ==
    ASSUME NEW name \in Seq(Parts), name # <<>>
    PROVE  IsNames(<<name>>) /\ <<name>> # <<>>
BY DEF IsNames, NoPartless

\* A path goes on from its father's.
LEMMA PathIsLonger ==
    ASSUME NEW father \in Seq(Parts), NEW names, IsNames(names), names # <<>>
    PROVE  /\ father \o FlattenSeq(names) \in Seq(Parts)
           /\ Len(father \o FlattenSeq(names)) > Len(father)
<1>1. names \in Seq(Seq(Parts)) /\ NoPartless(names)
  BY DEF IsNames
<1>2. Len(names) \in Nat /\ Len(names) >= 1
  BY <1>1, EmptySeq
<1>3. FlattenSeq(names) \in Seq(Parts) /\ Len(FlattenSeq(names)) >= Len(names)
  BY <1>1, FlattenedNames
<1>4. /\ father \o FlattenSeq(names) \in Seq(Parts)
      /\ Len(father \o FlattenSeq(names)) = Len(father) + Len(FlattenSeq(names))
      /\ Len(FlattenSeq(names)) \in Nat /\ Len(father) \in Nat
  BY <1>3, ConcatProperties
<1> QED
  BY <1>2, <1>3, <1>4

-----------------------------------------------------------------------------
(* create_command and create_param.                                        *)

\* A command put where there was none, under a name that no parameter of its father has.
LEMMA InsertKeepsMaps ==
    ASSUME MapsOK, KeysOK, SubContextsKnown, NamesUnambiguous,
           NEW c \in DOMAIN mapCtx, NEW names, IsNames(names), names # <<>>,
           <<c, names>> \notin Keys,
           \A k \in Keys : \A param \in mapCommands[k].params :
               <<k[1], Append(k[2], param)>> # <<c, names>>,
           mapCommands' = With(mapCommands, <<c, names>>,
                               [subContext |-> NoContext, params |-> {}]),
           mapCtx' = mapCtx
    PROVE  MapsOK' /\ KeysOK' /\ SubContextsKnown' /\ NamesUnambiguous'
<1> DEFINE new == <<c, names>>
           none == [subContext |-> NoContext, params |-> {}]
           Command == [subContext : Seq(Parts) \cup {NoContext},
                       params : SUBSET (ParamNames \cup {Default})]
<1>1. /\ mapCommands' = [k \in Keys \cup {new} |-> IF k = new THEN none ELSE mapCommands[k]]
      /\ Keys' = Keys \cup {new}
  BY DEF With, Keys
<1>2. new[1] = c /\ new[2] = names /\ none \in Command
      /\ none.subContext = NoContext /\ none.params = {}
  OBVIOUS
<1>3. new \notin Keys /\ \A k \in Keys : k # new
  OBVIOUS
<1> HIDE DEF new, none
<1>4. /\ mapCommands'[new] = none
      /\ \A k \in Keys : mapCommands'[k] = mapCommands[k]
  BY <1>1, <1>3
<1>5. MapsOK'
  <2>1. \A k \in Keys \cup {new} : mapCommands'[k] \in Command
    <3> HIDE DEF Command
    <3>1. mapCommands \in [Keys -> Command]
      BY DEF MapsOK, Command
    <3> QED
      BY <1>2, <1>4, <3>1
  <2>2. mapCommands' \in [Keys' -> Command]
    <3> HIDE DEF Command
    <3> QED
      BY <1>1, <2>1
  <2> QED
    BY <2>2 DEF MapsOK
<1>6. KeysOK'
  <2>1. new = <<new[1], new[2]>> /\ new[1] \in DOMAIN mapCtx /\ IsNames(new[2]) /\ new[2] # <<>>
    BY <1>2 DEF new
  <2> QED
    BY <1>1, <2>1 DEF KeysOK, IsNames, NoPartless
<1>7. SubContextsKnown'
  <2>1. \A k \in Keys' : mapCommands'[k].subContext # NoContext =>
            /\ mapCommands'[k].subContext = PathThrough(k)
            /\ mapCommands'[k].subContext \in DOMAIN mapCtx
    BY <1>1, <1>2, <1>4 DEF SubContextsKnown
  <2> QED
    BY <2>1 DEF SubContextsKnown, PathThrough
<1>8. NamesUnambiguous'
  <2>1. \A k \in Keys' : \A param \in mapCommands'[k].params :
            <<k[1], Append(k[2], param)>> \notin Keys'
    <3> SUFFICES ASSUME NEW k \in Keys', NEW param \in mapCommands'[k].params
                 PROVE  <<k[1], Append(k[2], param)>> \notin Keys'
      OBVIOUS
    <3>1. k \in Keys /\ param \in mapCommands[k].params
      BY <1>1, <1>2, <1>4
    <3>2. <<k[1], Append(k[2], param)>> # new
      BY <3>1 DEF new
    <3> QED
      BY <1>1, <3>1, <3>2 DEF NamesUnambiguous
  <2> QED
    BY <2>1 DEF NamesUnambiguous
<1> QED
  BY <1>5, <1>6, <1>7, <1>8

\* Two sequences that end alike with one more were alike.
LEMMA AppendedSame ==
    ASSUME NEW S, NEW one \in Seq(S), NEW other \in Seq(S), NEW a, NEW b,
           Append(one, a) = Append(other, b)
    PROVE  one = other /\ a = b
<1>1. Len(one) \in Nat /\ Len(other) \in Nat
  OBVIOUS
<1>2. /\ Len(Append(one, a)) = Len(one) + 1 /\ Append(one, a)[Len(one) + 1] = a
      /\ \A i \in 1..Len(one) : Append(one, a)[i] = one[i]
      /\ Len(Append(other, b)) = Len(other) + 1 /\ Append(other, b)[Len(other) + 1] = b
      /\ \A i \in 1..Len(other) : Append(other, b)[i] = other[i]
  <2> DEFINE T == S \cup {a, b}
  <2>1. one \in Seq(T) /\ other \in Seq(T) /\ a \in T /\ b \in T
    OBVIOUS
  <2> HIDE DEF T
  <2> QED
    BY <2>1, AppendProperties
<1>3. Len(one) = Len(other)
  BY <1>1, <1>2
<1>4. \A i \in 1..Len(one) : one[i] = other[i]
  BY <1>2, <1>3
<1>5. one = other
  BY <1>3, <1>4, SeqEqual
<1> QED
  BY <1>2, <1>5

LEMMA RefuseKeepsCore ==
    ASSUME CoreInv, Refuse \/ Crash
    PROVE  CoreInv' /\ cur_depth' = cur_depth
<1>1. UNCHANGED <<mapCtx, mapCommands, stCtxs, lstCmds, cur_depth, context_depth>>
  BY DEF Refuse, Crash, tree, position, depths
<1>2. errors' \in Nat
  BY DEF Refuse, Crash, CoreInv
<1> QED
  BY <1>1, <1>2 DEF CoreInv, MapsOK, KeysOK, SubContextsKnown, PlaceOK, Counted,
     NamesUnambiguous, Keys, IsNames, NoPartless, PathThrough

LEMMA CreateTopKeepsCore ==
    ASSUME CoreInv, NEW name \in Names, CreateTopCommand(name)
    PROVE  CoreInv' /\ cur_depth' = cur_depth
<1>1. CASE Refuse \/ Crash
  BY <1>1, RefuseKeepsCore
<1>2. CASE ~(Refuse \/ Crash)
  <2>1. /\ stCtxs # <<>> /\ <<Here, <<name>>>> \notin Keys /\ lstCmds' = <<name>>
        /\ mapCommands' = With(mapCommands, <<Here, <<name>>>>,
                               [subContext |-> NoContext, params |-> {}])
        /\ UNCHANGED <<mapCtx, stCtxs, cur_depth, context_depth, errors>>
    BY <1>2 DEF CreateTopCommand, Insert, depths
  <2>2. Here \in DOMAIN mapCtx /\ name \in Seq(Parts) /\ name # <<>>
    BY <2>1, HereIsKnown, MainIsAPath DEF CoreInv
  <2>3. IsNames(<<name>>) /\ <<name>> # <<>>
    BY <2>2, OneName
  <2>4. ASSUME NEW k \in Keys, NEW param \in mapCommands[k].params
        PROVE  <<k[1], Append(k[2], param)>> # <<Here, <<name>>>>
    <3>1. k[2] \in Seq(Seq(Parts)) /\ k[2] # <<>>
      BY <2>4 DEF CoreInv, KeysOK, IsNames
    <3>2. Len(k[2]) \in Nat /\ Len(k[2]) > 0
      BY <3>1, EmptySeq
    <3>3. Len(Append(k[2], param)) = Len(k[2]) + 1
      BY <3>1
    <3>4. Len(<<name>>) = 1
      OBVIOUS
    <3>5. Append(k[2], param) # <<name>>
      BY <3>2, <3>3, <3>4
    <3> QED
      BY <3>5
  <2>5. MapsOK' /\ KeysOK' /\ SubContextsKnown' /\ NamesUnambiguous'
    BY <2>1, <2>2, <2>3, <2>4, InsertKeepsMaps DEF CoreInv
  <2>6. PlaceOK'
    BY <2>1, <2>3 DEF CoreInv, PlaceOK, IsNames, NoPartless
  <2> QED
    BY <2>1, <2>5, <2>6 DEF CoreInv, Counted
<1> QED
  BY <1>1, <1>2

LEMMA CreateSubKeepsCore ==
    ASSUME CoreInv, NEW name \in Names, CreateSubCommand(name)
    PROVE  CoreInv' /\ cur_depth' = cur_depth
<1>1. CASE Refuse \/ Crash
  BY <1>1, RefuseKeepsCore
<1>2. CASE ~(Refuse \/ Crash)
  <2> DEFINE names == Append(lstCmds, name)
  <2>1. /\ stCtxs # <<>> /\ Current \in Keys /\ <<Here, names>> \notin Keys
        /\ name \notin mapCommands[Current].params
        /\ lstCmds' = names
        /\ mapCommands' = With(mapCommands, <<Here, names>>,
                               [subContext |-> NoContext, params |-> {}])
        /\ UNCHANGED <<mapCtx, stCtxs, cur_depth, context_depth, errors>>
    BY <1>2 DEF CreateSubCommand, Insert, depths, IsParameter
  <2>2. Here \in DOMAIN mapCtx /\ name \in Seq(Parts) /\ name # <<>> /\ IsNames(lstCmds)
    BY <2>1, HereIsKnown, MainIsAPath DEF CoreInv, PlaceOK
  <2>3. IsNames(names) /\ names # <<>>
    BY <2>2, NamesWithOneMore
  <2>4. ASSUME NEW k \in Keys, NEW param \in mapCommands[k].params
        PROVE  <<k[1], Append(k[2], param)>> # <<Here, names>>
    <3> SUFFICES ASSUME k[1] = Here, Append(k[2], param) = Append(lstCmds, name)
                 PROVE  FALSE
      OBVIOUS
    <3>1. k[2] \in Seq(Seq(Parts)) /\ lstCmds \in Seq(Seq(Parts))
      BY <2>2, <2>4 DEF CoreInv, KeysOK, IsNames
    <3>2. k[2] = lstCmds /\ param = name
      <4> DEFINE S == Seq(Parts)
      <4>1. k[2] \in Seq(S) /\ lstCmds \in Seq(S) /\ Append(k[2], param) = Append(lstCmds, name)
        BY <3>1
      <4> HIDE DEF S
      <4> QED
        BY <4>1, AppendedSame
    <3>4. k = <<k[1], k[2]>>
      BY <2>4 DEF CoreInv, KeysOK
    <3>3. k = Current
      BY <3>2, <3>4 DEF Current
    <3> QED
      BY <2>1, <2>4, <3>2, <3>3
  <2> HIDE DEF names
  <2>5. MapsOK' /\ KeysOK' /\ SubContextsKnown' /\ NamesUnambiguous'
    BY <2>1, <2>2, <2>3, <2>4, InsertKeepsMaps DEF CoreInv
  <2>6. PlaceOK'
    BY <2>1, <2>3 DEF CoreInv, PlaceOK, IsNames, NoPartless
  <2> QED
    BY <2>1, <2>5, <2>6 DEF CoreInv, Counted
<1> QED
  BY <1>1, <1>2

LEMMA CreateCommandKeepsCore ==
    ASSUME CoreInv, NEW name \in Names, CreateCommand(name)
    PROVE  CoreInv' /\ cur_depth' = cur_depth
BY CreateTopKeepsCore, CreateSubKeepsCore, RefuseKeepsCore DEF CreateCommand

LEMMA CreateParamKeepsCore ==
    ASSUME CoreInv, NEW name \in ParamNames \cup {Default}, CreateParam(name)
    PROVE  CoreInv' /\ cur_depth' = cur_depth
<1>1. CASE Refuse \/ Crash
  BY <1>1, RefuseKeepsCore
<1>2. CASE ~(Refuse \/ Crash)
  <2> DEFINE Command == [subContext : Seq(Parts) \cup {NoContext},
                         params : SUBSET (ParamNames \cup {Default})]
             new == [mapCommands[Current] EXCEPT !.params = @ \cup {name}]
  <2>1. /\ Current \in Keys /\ <<Here, Append(lstCmds, name)>> \notin Keys
        /\ mapCommands' = [mapCommands EXCEPT ![Current] = new]
        /\ UNCHANGED <<mapCtx, stCtxs, lstCmds, cur_depth, context_depth, errors>>
    BY <1>2 DEF CreateParam, depths, position
  <2>2. mapCommands \in [Keys -> Command] /\ mapCommands[Current] \in Command
    BY <2>1 DEF CoreInv, MapsOK
  <2>3. /\ new \in Command /\ new.subContext = mapCommands[Current].subContext
        /\ new.params = mapCommands[Current].params \cup {name}
    BY <2>2
  <2> HIDE DEF Command, new
  <2>4. /\ Keys' = Keys /\ mapCommands' \in [Keys -> Command]
        /\ mapCommands'[Current] = new
        /\ \A k \in Keys : k # Current => mapCommands'[k] = mapCommands[k]
    BY <2>1, <2>2, <2>3 DEF Keys
  <2>5. MapsOK'
    BY <2>1, <2>4 DEF CoreInv, MapsOK, Command
  <2>6. KeysOK'
    BY <2>1, <2>4 DEF CoreInv, KeysOK, IsNames, NoPartless
  <2>7. SubContextsKnown'
    <3>1. \A k \in Keys : mapCommands'[k].subContext = mapCommands[k].subContext
      BY <2>3, <2>4
    <3> QED
      BY <2>1, <2>4, <3>1 DEF CoreInv, SubContextsKnown, PathThrough
  <2>8. NamesUnambiguous'
    <3> SUFFICES ASSUME NEW k \in Keys, NEW param \in mapCommands'[k].params
                 PROVE  <<k[1], Append(k[2], param)>> \notin Keys
      BY <2>4 DEF NamesUnambiguous
    <3>1. CASE param \in mapCommands[k].params
      BY <3>1 DEF CoreInv, NamesUnambiguous
    <3>2. CASE param \notin mapCommands[k].params
      <4>1. k = Current /\ param = name
        BY <2>3, <2>4, <3>2
      <4>2. k[1] = Here /\ k[2] = lstCmds
        BY <4>1 DEF Current
      <4> QED
        BY <2>1, <4>1, <4>2
    <3> QED
      BY <3>1, <3>2
  <2>9. PlaceOK'
    BY <2>1 DEF CoreInv, PlaceOK, IsNames, NoPartless
  <2> QED
    BY <2>1, <2>5, <2>6, <2>7, <2>8, <2>9 DEF CoreInv, Counted
<1> QED
  BY <1>1, <1>2

-----------------------------------------------------------------------------
(* create_context.                                                         *)

\* Every context more is counted.
LEMMA CountedWithOneMore ==
    ASSUME Counted, NEW path, DOMAIN mapCtx' \subseteq DOMAIN mapCtx \cup {path}, Deeper
    PROVE  Counted' /\ cur_depth' = cur_depth + 1
<1> DEFINE D == DOMAIN mapCtx
           E == DOMAIN mapCtx'
<1>1. cur_depth \in Nat /\ context_depth = cur_depth /\ IsFiniteSet(D)
      /\ Cardinality(D) <= context_depth
  BY DEF Counted
<1>2. cur_depth' = cur_depth + 1 /\ context_depth' = cur_depth + 1
  BY <1>1 DEF Deeper
<1> HIDE DEF D, E
<1>3. /\ IsFiniteSet(D \cup {path}) /\ Cardinality(D \cup {path}) <= Cardinality(D) + 1
      /\ Cardinality(D \cup {path}) \in Nat /\ Cardinality(D) \in Nat
  BY <1>1, FS_AddElement, FS_CardinalityType
<1>4. /\ IsFiniteSet(E) /\ Cardinality(E) <= Cardinality(D \cup {path})
      /\ Cardinality(E) \in Nat
  <2>1. E \subseteq D \cup {path}
    BY DEF D, E
  <2> QED
    BY <1>3, <2>1, FS_Subset, FS_CardinalityType
<1>5. Cardinality(E) <= context_depth'
  BY <1>1, <1>2, <1>3, <1>4
<1> QED
  BY <1>1, <1>2, <1>4, <1>5 DEF Counted, E

\* The stack of contexts when one is added that is known by then.
LEMMA StackWithOneMore ==
    ASSUME NEW D, NEW E, D \subseteq E, NEW path \in E, NEW stack \in Seq(D)
    PROVE  Append(stack, path) \in Seq(E)
OBVIOUS

LEMMA FirstContextKeepsCore ==
    ASSUME CoreInv, FirstContext
    PROVE  CoreInv' /\ cur_depth' = cur_depth + 1
<1>1. /\ mapCtx = <<>> /\ mapCtx' = With(mapCtx, Main, NoContext)
      /\ stCtxs' = Append(stCtxs, Main) /\ Deeper
      /\ UNCHANGED <<mapCommands, lstCmds, errors>>
  BY DEF FirstContext
<1>2. DOMAIN mapCtx = {}
  BY <1>1
<1>3. DOMAIN mapCtx' = {Main} /\ mapCtx' = [k \in {Main} |-> NoContext]
  BY <1>1, <1>2 DEF With
<1>4. Keys = {}
  BY <1>2 DEF CoreInv, KeysOK
<1>5. MapsOK'
  BY <1>1, <1>3, MainIsAPath DEF CoreInv, MapsOK, Keys
<1>6. KeysOK' /\ SubContextsKnown' /\ NamesUnambiguous'
  BY <1>1, <1>4 DEF KeysOK, SubContextsKnown, NamesUnambiguous, Keys
<1>7. PlaceOK'
  <2>1. stCtxs' \in Seq(DOMAIN mapCtx')
    BY <1>1, <1>2, <1>3, StackWithOneMore DEF CoreInv, PlaceOK
  <2> QED
    BY <1>1, <2>1 DEF CoreInv, PlaceOK, IsNames, NoPartless
<1>8. Counted' /\ cur_depth' = cur_depth + 1
  BY <1>1, <1>2, <1>3, CountedWithOneMore DEF CoreInv
<1> QED
  BY <1>1, <1>5, <1>6, <1>7, <1>8 DEF CoreInv

LEMMA SubContextKeepsCore ==
    ASSUME CoreInv, stCtxs # <<>>, SubContext
    PROVE  CoreInv' /\ cur_depth' = cur_depth + 1
<1> DEFINE path == Here \o FlattenSeq(lstCmds)
           Command == [subContext : Seq(Parts) \cup {NoContext},
                       params : SUBSET (ParamNames \cup {Default})]
           new == [mapCommands[Current] EXCEPT !.subContext = path]
<1>1. /\ mapCtx # <<>> /\ lstCmds # <<>> /\ Current \in Keys /\ Deeper
      /\ stCtxs' = Append(stCtxs, path) /\ lstCmds' = <<>>
      /\ \/ /\ mapCommands[Current].subContext # NoContext
            /\ UNCHANGED <<mapCtx, mapCommands>>
         \/ /\ mapCommands[Current].subContext = NoContext
            /\ mapCommands' = [mapCommands EXCEPT ![Current] = new]
            /\ path \in DOMAIN mapCtx /\ UNCHANGED mapCtx
         \/ /\ mapCommands[Current].subContext = NoContext
            /\ mapCommands' = [mapCommands EXCEPT ![Current] = new]
            /\ mapCtx' = With(mapCtx, path, Here)
      /\ errors' \in {errors, errors + 1}
  BY DEF SubContext, SubPath, Known, tree
<1>2. Here \in DOMAIN mapCtx /\ Here \in Seq(Parts) /\ IsNames(lstCmds)
  BY HereIsKnown DEF CoreInv, PlaceOK
<1>3. path \in Seq(Parts) /\ path = PathThrough(Current) /\ path # NoContext
  BY <1>1, <1>2, PathIsLonger, MainIsAPath DEF PathThrough, Current
<1>4. mapCommands \in [Keys -> Command] /\ mapCommands[Current] \in Command
  BY <1>1 DEF CoreInv, MapsOK
<1>5. /\ new \in Command /\ new.subContext = path
      /\ new.params = mapCommands[Current].params
  BY <1>3, <1>4
<1> HIDE DEF path, Command, new
<1>6. /\ DOMAIN mapCtx \subseteq DOMAIN mapCtx'
      /\ DOMAIN mapCtx' \subseteq DOMAIN mapCtx \cup {path}
      /\ path \in DOMAIN mapCtx'
      /\ mapCtx' \in [DOMAIN mapCtx' -> Seq(Parts) \cup {NoContext}]
      /\ Main \in DOMAIN mapCtx'
  <2>1. mapCtx \in [DOMAIN mapCtx -> Seq(Parts) \cup {NoContext}] /\ Main \in DOMAIN mapCtx
    BY <1>1 DEF CoreInv, MapsOK
  <2>2. mapCommands[Current].subContext # NoContext => path \in DOMAIN mapCtx
    BY <1>1, <1>3 DEF CoreInv, SubContextsKnown
  <2>3. CASE UNCHANGED mapCtx
    <3>1. path \in DOMAIN mapCtx'
      BY <1>1, <2>2, <2>3 DEF With
    <3> QED
      BY <2>1, <2>3, <3>1
  <2>4. CASE mapCtx' = With(mapCtx, path, Here)
    BY <1>2, <2>1, <2>4 DEF With
  <2> QED
    BY <1>1, <2>3, <2>4
<1>7. /\ Keys' = Keys /\ mapCommands' \in [Keys -> Command]
      /\ \A k \in Keys : /\ mapCommands'[k].params = mapCommands[k].params
                         /\ \/ mapCommands'[k].subContext = mapCommands[k].subContext
                            \/ k = Current /\ mapCommands'[k].subContext = path
  <2>1. CASE UNCHANGED mapCommands
    BY <1>4, <2>1 DEF Keys
  <2>2. CASE mapCommands' = [mapCommands EXCEPT ![Current] = new]
    <3>1. Keys' = Keys /\ mapCommands' \in [Keys -> Command] /\ mapCommands'[Current] = new
          /\ \A k \in Keys : k # Current => mapCommands'[k] = mapCommands[k]
      BY <1>1, <1>4, <1>5, <2>2 DEF Keys
    <3> QED
      BY <1>5, <3>1
  <2> QED
    BY <1>1, <2>1, <2>2
<1>8. MapsOK'
  BY <1>3, <1>6, <1>7 DEF CoreInv, MapsOK, Command
<1>9. KeysOK'
  BY <1>6, <1>7 DEF CoreInv, KeysOK, IsNames, NoPartless
<1>10. SubContextsKnown'
  <2>1. \A k \in Keys : mapCommands'[k].subContext # NoContext =>
            /\ mapCommands'[k].subContext = PathThrough(k)
            /\ mapCommands'[k].subContext \in DOMAIN mapCtx'
    BY <1>3, <1>6, <1>7 DEF CoreInv, SubContextsKnown
  <2> QED
    BY <1>7, <2>1 DEF SubContextsKnown, PathThrough
<1>11. NamesUnambiguous'
  BY <1>7 DEF CoreInv, NamesUnambiguous
<1>12. PlaceOK'
  <2>1. stCtxs' \in Seq(DOMAIN mapCtx')
    BY <1>1, <1>6, StackWithOneMore DEF CoreInv, PlaceOK
  <2>2. IsNames(<<>>)
    BY DEF IsNames, NoPartless
  <2> QED
    BY <1>1, <2>1, <2>2 DEF PlaceOK, IsNames, NoPartless
<1>13. Counted' /\ cur_depth' = cur_depth + 1
  BY <1>1, <1>6, CountedWithOneMore DEF CoreInv
<1> QED
  BY <1>1, <1>8, <1>9, <1>10, <1>11, <1>12, <1>13 DEF CoreInv

LEMMA CreateContextKeepsCore ==
    ASSUME CoreInv, CreateContext
    PROVE  CoreInv' /\ cur_depth' \in {cur_depth, cur_depth + 1}
<1>1. CASE FirstContext
  BY <1>1, FirstContextKeepsCore
<1>2. CASE Refuse \/ Crash
  BY <1>2, RefuseKeepsCore
<1>3. CASE ContextOfLostCommand /\ ~(Refuse \/ Crash)
  <2>1. /\ Deeper /\ errors' = errors + 1
        /\ UNCHANGED <<mapCtx, mapCommands, stCtxs, lstCmds>>
    BY <1>3 DEF ContextOfLostCommand, tree, position
  <2>2. Counted' /\ cur_depth' = cur_depth + 1
    BY <2>1, CountedWithOneMore DEF CoreInv
  <2>3. MapsOK' /\ KeysOK' /\ NamesUnambiguous' /\ errors' \in Nat
    BY <2>1 DEF CoreInv, MapsOK, KeysOK, NamesUnambiguous, Keys, IsNames, NoPartless
  <2>4. SubContextsKnown' /\ PlaceOK'
    BY <2>1 DEF CoreInv, SubContextsKnown, PlaceOK, Keys, IsNames, NoPartless, PathThrough
  <2> QED
    BY <2>2, <2>3, <2>4 DEF CoreInv
<1>4. CASE SubContext
  <2>1. stCtxs # <<>>
    BY <1>4 DEF SubContext, Crashes
  <2> QED
    BY <1>4, <2>1, SubContextKeepsCore
<1> QED
  BY <1>1, <1>2, <1>3, <1>4 DEF CreateContext, ContextWithoutCommand

-----------------------------------------------------------------------------
(* end_command and end_context.                                            *)

LEMMA FrontIs ==
    ASSUME NEW S, NEW s \in Seq(S), s # <<>>
    PROVE  /\ Front(s) \in Seq(S) /\ Len(Front(s)) = Len(s) - 1
           /\ \A i \in 1..(Len(s) - 1) : Front(s)[i] = s[i]
           /\ Len(s) \in Nat /\ Len(s) > 0
<1>1. Len(s) \in Nat /\ Len(s) > 0
  BY EmptySeq
<1>2. \A i \in 1..(Len(s) - 1) : s[i] \in S
  BY <1>1, ElementOfSeq
<1> DEFINE front == SubSeq(s, 1, Len(s) - 1)
<1>3. /\ front \in Seq(S) /\ Len(front) = Len(s) - 1
      /\ \A i \in 1..(Len(s) - 1) : front[i] = s[i]
  <2>1. PICK n \in Nat : n = Len(s) - 1
    BY <1>1
  <2>2. \A i \in 1..n : s[i] \in S
    BY <1>2, <2>1
  <2>3. /\ SubSeq(s, 1, n) \in Seq(S) /\ Len(SubSeq(s, 1, n)) = n
        /\ \A i \in 1..n : SubSeq(s, 1, n)[i] = s[i]
    BY <2>2
  <2> QED
    BY <2>1, <2>3
<1>4. Front(s) = front
  BY DEF Front
<1> HIDE DEF front
<1> QED
  BY <1>1, <1>3, <1>4

\* When only the place changes, to known contexts and to names.
LEMMA MovingKeepsCore ==
    ASSUME CoreInv, UNCHANGED <<mapCtx, mapCommands, cur_depth, context_depth, errors>>,
           stCtxs' \in Seq(DOMAIN mapCtx), IsNames(lstCmds')
    PROVE  CoreInv' /\ cur_depth' = cur_depth
BY DEF CoreInv, MapsOK, KeysOK, SubContextsKnown, PlaceOK, Counted, NamesUnambiguous, Keys,
   IsNames, NoPartless, PathThrough

LEMMA EndCommandKeepsCore ==
    ASSUME CoreInv, EndCommand
    PROVE  CoreInv' /\ cur_depth' = cur_depth
<1>1. CASE lstCmds = <<>>
  BY <1>1, RefuseKeepsCore DEF EndCommand
<1>2. CASE lstCmds # <<>>
  <2> DEFINE S == Seq(Parts)
  <2>1. /\ lstCmds' = Front(lstCmds)
        /\ UNCHANGED <<mapCtx, mapCommands, stCtxs, cur_depth, context_depth, errors>>
    BY <1>2 DEF EndCommand, tree, depths
  <2>2. lstCmds \in Seq(S) /\ \A i \in 1..Len(lstCmds) : lstCmds[i] # <<>>
    BY DEF CoreInv, PlaceOK, IsNames, NoPartless
  <2> HIDE DEF S
  <2>3. /\ lstCmds' \in Seq(S) /\ Len(lstCmds') = Len(lstCmds) - 1
        /\ \A i \in 1..(Len(lstCmds) - 1) : lstCmds'[i] = lstCmds[i]
        /\ Len(lstCmds) \in Nat
    BY <1>2, <2>1, <2>2, FrontIs
  <2>4. DOMAIN lstCmds' = 1..(Len(lstCmds) - 1)
    BY <2>3
  <2>5. IsNames(lstCmds')
    <3>1. \A i \in DOMAIN lstCmds' : lstCmds'[i] # <<>>
      BY <2>2, <2>3, <2>4
    <3> QED
      BY <2>3, <3>1 DEF IsNames, NoPartless, S
  <2> QED
    BY <2>1, <2>5, MovingKeepsCore DEF CoreInv, PlaceOK
<1> QED
  BY <1>1, <1>2

LEMMA EndContextKeepsCore ==
    ASSUME CoreInv, EndContext
    PROVE  CoreInv' /\ cur_depth' = cur_depth
<1>1. CASE lstCmds # <<>> \/ stCtxs = <<>>
  BY <1>1, RefuseKeepsCore DEF EndContext
<1>2. CASE ~(lstCmds # <<>> \/ stCtxs = <<>>)
  <2> DEFINE D == DOMAIN mapCtx
             father == stCtxs'[Len(stCtxs')]
             n == Len(Here) - Len(father)
  <2>1. /\ stCtxs # <<>> /\ stCtxs' = Front(stCtxs)
        /\ lstCmds' = IF Len(stCtxs) = 1 THEN lstCmds
                      ELSE [i \in 1..n |-> <<Here[Len(father) + i]>>]
        /\ UNCHANGED <<mapCtx, mapCommands, cur_depth, context_depth, errors>>
    BY <1>2 DEF EndContext, BackToFatherCtx, tree, depths
  <2>2. stCtxs \in Seq(D) /\ IsNames(lstCmds) /\ Here \in Seq(Parts)
    BY <2>1, HereIsKnown DEF CoreInv, PlaceOK
  <2>3. /\ stCtxs' \in Seq(D) /\ Len(stCtxs') = Len(stCtxs) - 1
        /\ Len(stCtxs) \in Nat /\ Len(stCtxs) > 0
    <3> HIDE DEF D
    <3> QED
      BY <2>1, <2>2, FrontIs
  <2>4. CASE Len(stCtxs) = 1
    BY <2>1, <2>2, <2>3, <2>4, MovingKeepsCore
  <2>5. CASE Len(stCtxs) # 1
    <3>1. father \in Seq(Parts)
      <4>1. stCtxs'[Len(stCtxs')] \in D
        BY <2>3, <2>5, ElementOfSeq
      <4> QED
        BY <4>1 DEF CoreInv, MapsOK
    <3>2. Len(father) \in Nat /\ Len(Here) \in Nat /\ n \in Int
      BY <2>2, <3>1
    <3> HIDE DEF father
    <3>3. ASSUME NEW i \in 1..n
          PROVE  <<Here[Len(father) + i]>> \in Seq(Parts) /\ <<Here[Len(father) + i]>> # <<>>
      <4>1. Len(father) + i \in 1..Len(Here)
        BY <3>2
      <4>2. Here[Len(father) + i] \in Parts
        BY <2>2, <4>1, ElementOfSeq
      <4> QED
        BY <4>2
    <3> HIDE DEF n
    <3> DEFINE names == [i \in 1..n |-> <<Here[Len(father) + i]>>]
    <3>4. names \in Seq(Seq(Parts)) /\ DOMAIN names = 1..n
      <4>1. CASE n >= 0
        BY <3>2, <3>3, <4>1
      <4>2. CASE n < 0
        <5>1. 1..n = {}
          BY <3>2, <4>2
        <5>2. names = <<>> /\ DOMAIN <<>> = {}
          BY <5>1
        <5> HIDE DEF names
        <5> QED
          BY <5>1, <5>2
      <4> QED
        BY <3>2, <4>1, <4>2
    <3>5. IsNames(names)
      BY <3>3, <3>4 DEF IsNames, NoPartless
    <3>6. lstCmds' = names
      BY <2>1, <2>5
    <3> QED
      BY <2>1, <2>3, <3>5, <3>6, MovingKeepsCore
  <2> QED
    BY <2>4, <2>5
<1> QED
  BY <1>1, <1>2

-----------------------------------------------------------------------------
(* The elements of a document.                                             *)

\* A call returns, or the builder crashes.
LEMMA CallsReturn ==
    ASSUME \/ CreateContext \/ EndCommand \/ EndContext
           \/ \E name \in Names : CreateCommand(name)
           \/ \E name \in ParamNames \cup {Default} : CreateParam(name)
    PROVE  status' = status \/ status' = "crashed"
BY DEF CreateContext, FirstContext, ContextWithoutCommand, ContextOfLostCommand, SubContext,
   EndCommand, EndContext, BackToFatherCtx, CreateCommand, CreateTopCommand,
   CreateSubCommand, CreateParam, Insert, Refuse, Crash

LEMMA ReachedIsOpen ==
    ASSUME open \in Seq(Element), open # <<>>,
           NEW stage \in {"parameters", "commands", "contexts"}
    PROVE  /\ Reached(stage) \in Seq(Element) /\ Len(Reached(stage)) = Len(open)
           /\ Len(open) \in Nat /\ Len(open) > 0
           /\ \A i \in 1..Len(open) : Reached(stage)[i] =
                  IF i = Len(open) THEN [open[i] EXCEPT !.stage = stage] ELSE open[i]
<1> DEFINE n == Len(open)
           outer == [open EXCEPT ![n].stage = stage]
<1>1. n \in Nat /\ n > 0 /\ open \in [1..n -> Element]
  BY EmptySeq, LenProperties
<1>2. ASSUME NEW e \in Element
      PROVE  [e EXCEPT !.stage = stage] \in Element
  BY DEF Element
<1>3. outer \in [1..n -> Element]
  <2> HIDE DEF n
  <2>1. [open[n] EXCEPT !.stage = stage] \in Element
    BY <1>1, <1>2
  <2> QED
    BY <1>1, <2>1
<1>4. \A i \in 1..n : outer[i] = IF i = n THEN [open[i] EXCEPT !.stage = stage] ELSE open[i]
  <2> HIDE DEF n
  <2> QED
    BY <1>1
<1>5. outer \in Seq(Element) /\ Len(outer) = n
  <2> HIDE DEF outer
  <2> QED
    BY <1>1, <1>3
<1>6. Reached(stage) = outer
  BY DEF Reached
<1> HIDE DEF outer
<1> QED
  BY <1>1, <1>4, <1>5, <1>6

LEMMA ReadKeepsDocument ==
    ASSUME NEW outer \in Seq(Element), NEW kind \in {"context", "command"},
           NEW name \in Names \cup {NoContext}, elements \in 0..MaxElements,
           Read(outer, kind, name)
    PROVE  /\ open' \in Seq(Element) /\ elements' \in 0..MaxElements
           /\ elements' = elements + 1 /\ elements \in Nat
<1>1. [kind |-> kind, name |-> name, stage |-> "parameters"] \in Element
  BY DEF Element
<1>2. open' = Append(outer, [kind |-> kind, name |-> name, stage |-> "parameters"])
  BY DEF Read
<1>3. open' \in Seq(Element)
  <2> DEFINE e == [kind |-> kind, name |-> name, stage |-> "parameters"]
  <2> HIDE DEF e
  <2> QED
    BY <1>1, <1>2 DEF e
<1> QED
  BY <1>3, BuilderAssumption DEF Read

\* What begins in an element begins behind all that is open, which may have reached the
\* next of its stages.
LEMMA StartsInside ==
    ASSUME open \in Seq(Element), ContextStart \/ \E name \in Names : CommandStart(name)
    PROVE  \E outer \in Seq(Element), kind \in {"context", "command"},
              name \in Names \cup {NoContext} : Read(outer, kind, name)
<1>1. ASSUME Within("command") \/ Within("context")
      PROVE  open # <<>>
  BY <1>1 DEF Within
<1>2. open = <<>> => open \in Seq(Element)
  OBVIOUS
<1> QED
  BY <1>1, <1>2, ReachedIsOpen DEF ContextStart, CommandStart

\* A builder that has been told nothing.
Empty ==
    /\ mapCtx = <<>> /\ mapCommands = <<>> /\ stCtxs = <<>> /\ lstCmds = <<>>
    /\ cur_depth = 0 /\ context_depth = 0 /\ errors = 0

LEMMA EmptyIsCore ==
    Empty => CoreInv
<1> SUFFICES ASSUME Empty
             PROVE  CoreInv
  OBVIOUS
<1>1. DOMAIN mapCtx = {} /\ Keys = {}
  BY DEF Empty, Keys
<1>2. MapsOK
  BY <1>1 DEF Empty, MapsOK
<1>3. KeysOK /\ SubContextsKnown /\ NamesUnambiguous
  BY <1>1 DEF KeysOK, SubContextsKnown, NamesUnambiguous
<1>4. PlaceOK
  BY <1>1 DEF Empty, PlaceOK, IsNames, NoPartless
<1>5. Counted
  BY <1>1, FS_EmptySet DEF Empty, Counted
<1> QED
  BY <1>2, <1>3, <1>4, <1>5 DEF Empty, CoreInv

LEMMA BuilderInitInv ==
    BuilderInit => BuilderInv
<1> SUFFICES ASSUME BuilderInit
             PROVE  BuilderInv
  OBVIOUS
<1>1. /\ mapCtx = <<>> /\ mapCommands = <<>> /\ stCtxs = <<>> /\ lstCmds = <<>>
      /\ cur_depth = 0 /\ context_depth = 0 /\ errors = 0
  BY DEF BuilderInit
<1>2. CoreInv
  BY <1>1, EmptyIsCore DEF Empty
<1> QED
  BY <1>1, <1>2, BuilderAssumption DEF BuilderInit, BuilderInv

LEMMA BuilderStepKeepsInv ==
    BuilderInv /\ [BuilderNext]_builderVars => BuilderInv'
<1> SUFFICES ASSUME BuilderInv, [BuilderNext]_builderVars
             PROVE  BuilderInv'
  OBVIOUS
<1>0. /\ CoreInv /\ open \in Seq(Element) /\ elements \in 0..MaxElements
      /\ elements \in Nat /\ cur_depth \in Nat /\ cur_depth <= elements /\ MaxElements \in Nat
      /\ status \in {"reading", "written", "crashed", "abandoned"}
  BY BuilderAssumption DEF BuilderInv, CoreInv, Counted
<1>1. CASE ContextStart
  <2>1. CoreInv' /\ cur_depth' \in {cur_depth, cur_depth + 1}
    BY <1>0, <1>1, CreateContextKeepsCore DEF ContextStart
  <2>2. open' \in Seq(Element) /\ elements' \in 0..MaxElements /\ elements' = elements + 1
    BY <1>0, <1>1, StartsInside, ReadKeepsDocument
  <2>3. status' = status \/ status' = "crashed"
    BY <1>1, CallsReturn DEF ContextStart
  <2>4. cur_depth' <= elements'
    BY <1>0, <2>1, <2>2
  <2> QED
    BY <1>0, <2>1, <2>2, <2>3, <2>4 DEF BuilderInv
<1>2. ASSUME NEW name \in Names, CommandStart(name)
      PROVE  BuilderInv'
  <2>1. CoreInv' /\ cur_depth' = cur_depth
    BY <1>0, <1>2, CreateCommandKeepsCore DEF CommandStart
  <2>2. open' \in Seq(Element) /\ elements' \in 0..MaxElements /\ elements' = elements + 1
    BY <1>0, <1>2, StartsInside, ReadKeepsDocument
  <2>3. status' = status \/ status' = "crashed"
    BY <1>2, CallsReturn DEF CommandStart
  <2>4. cur_depth' <= elements'
    BY <1>0, <2>1, <2>2
  <2> QED
    BY <1>0, <2>1, <2>2, <2>3, <2>4 DEF BuilderInv
<1>3. ASSUME NEW name \in ParamNames \cup {Default}, Parameter(name)
      PROVE  BuilderInv'
  <2>1. CoreInv' /\ cur_depth' = cur_depth
    BY <1>0, <1>3, CreateParamKeepsCore DEF Parameter
  <2>2. open' = open /\ elements' \in 0..MaxElements /\ elements' = elements + 1
    BY <1>0, <1>3 DEF Parameter
  <2>3. status' = status \/ status' = "crashed"
    BY <1>3, CallsReturn DEF Parameter
  <2>4. cur_depth' <= elements'
    BY <1>0, <2>1, <2>2
  <2> QED
    BY <1>0, <2>1, <2>2, <2>3, <2>4 DEF BuilderInv
<1>4. CASE CommandEnd \/ ContextEnd
  <2>1. CoreInv' /\ cur_depth' = cur_depth
    BY <1>0, <1>4, EndCommandKeepsCore, EndContextKeepsCore DEF CommandEnd, ContextEnd
  <2>2. open # <<>> /\ open' = Front(open) /\ elements' = elements
    BY <1>4 DEF CommandEnd, ContextEnd, Within
  <2>3. open' \in Seq(Element)
    BY <1>0, <2>2, FrontIs
  <2>4. status' = status \/ status' = "crashed"
    BY <1>4, CallsReturn DEF CommandEnd, ContextEnd
  <2> QED
    BY <1>0, <2>1, <2>2, <2>3, <2>4 DEF BuilderInv
<1>5. CASE UNCHANGED <<document, tree, position, depths, errors>>
           /\ status' \in {status, "written"}
  <2>1. UNCHANGED <<open, elements, mapCtx, mapCommands, stCtxs, lstCmds, cur_depth,
                    context_depth, errors>>
    BY <1>5 DEF document, tree, position, depths
  <2>2. CoreInv'
    BY <1>0, <2>1, MovingKeepsCore DEF CoreInv, PlaceOK
  <2> QED
    BY <1>0, <1>5, <2>1, <2>2 DEF BuilderInv
<1>6. CASE Abandon
  <2>1. /\ mapCtx' = <<>> /\ mapCommands' = <<>> /\ stCtxs' = <<>> /\ lstCmds' = <<>>
        /\ cur_depth' = 0 /\ context_depth' = 0 /\ errors' = 0
        /\ open' = <<>> /\ elements' = 0 /\ status' = "abandoned"
    BY <1>6 DEF Abandon
  <2>2. CoreInv'
    <3>1. (Empty => CoreInv)'
      BY EmptyIsCore, PTL
    <3> QED
      BY <2>1, <3>1 DEF Empty
  <2> QED
    BY <1>0, <2>1, <2>2 DEF BuilderInv
<1> QED
  BY <1>1, <1>2, <1>3, <1>4, <1>5, <1>6 DEF BuilderNext, WriteFiles, builderVars

LEMMA BuilderInvHolds == BuilderSpec => []BuilderInv
BY BuilderInitInv, BuilderStepKeepsInv, PTL DEF BuilderSpec

-----------------------------------------------------------------------------
(* The theorems on the tree.                                               *)

\* Whatever the document and whichever calls fail, the builder's maps, stacks and counters
\* stay well formed, and every open context is in the map.
THEOREM BuilderTypeCorrect == BuilderSpec => []BuilderTypeOK
<1>1. BuilderInv => BuilderTypeOK
  BY DEF BuilderInv, CoreInv, MapsOK, KeysOK, PlaceOK, Counted, IsNames, BuilderTypeOK
<1> QED
  BY <1>1, BuilderInvHolds, PTL

\* The checks of create_command and create_param together keep the parameters' names
\* apart from the subcommands', in whichever order they come.
THEOREM NamesNeverClash == BuilderSpec => []NamesUnambiguous
<1>1. BuilderInv => NamesUnambiguous
  BY DEF BuilderInv, CoreInv
<1> QED
  BY <1>1, BuilderInvHolds, PTL

-----------------------------------------------------------------------------
(* The prompt stack is deep enough.                                        *)

\* The contexts one command away from those of a set.
Onward(ways) ==
    {mapCommands[key].subContext : key \in {k \in Keys : k[1] \in ways}} \ {NoContext}

LEMMA WaysUnfold ==
    ASSUME BuilderInv
    PROVE  /\ WaysOf[0] = {Main}
           /\ \A n \in Nat : WaysOf[n + 1] = Onward(WaysOf[n])
<1> DEFINE S == SUBSET Seq(Parts)
           step == [a \in Nat \X S |-> Onward(a[2])]
           first == {Main}
           Unfolds(f) == f = [n \in Nat |-> IF n = 0 THEN first ELSE
               {mapCommands[key].subContext : key \in {k \in Keys : k[1] \in f[n - 1]}}
                   \ {NoContext}]
<1>1. \A ways : Onward(ways) \in S
  <2>1. \A key \in Keys : mapCommands[key].subContext \in Seq(Parts) \cup {NoContext}
    BY DEF BuilderInv, CoreInv, MapsOK
  <2> QED
    BY <2>1 DEF Onward
<1>2. first \in S /\ step \in StepsOn(S)
  <2>1. first \in S
    BY MainIsAPath
  <2>2. \A a \in Nat \X S : step[a] \in S
    BY <1>1
  <2> QED
    BY <2>1, <2>2 DEF StepsOn
<1>3. PICK f : Recursive(f, S, first, step)
  <2> HIDE DEF S, first, step
  <2> QED
    BY <1>2, Recursion
<1>4. /\ f \in [Nat -> S] /\ f[0] = first
      /\ \A n \in Nat : f[n + 1] = Onward(f[n])
  <2>1. \A n \in Nat : f[n] \in S /\ f[n + 1] = step[<<n, f[n]>>]
    BY <1>3 DEF Recursive
  <2>2. \A n \in Nat : f[n + 1] = Onward(f[n])
    BY <2>1
  <2> QED
    BY <1>3, <2>2 DEF Recursive
<1>5. Unfolds(f)
  <2> DEFINE g == [n \in Nat |-> IF n = 0 THEN first ELSE Onward(f[n - 1])]
  <2>1. \A n \in Nat : f[n] = g[n]
    <3> TAKE n \in Nat
    <3>1. CASE n = 0
      BY <1>4, <3>1
    <3>2. CASE n # 0
      <4>1. n - 1 \in Nat /\ (n - 1) + 1 = n
        BY <3>2
      <4>2. f[(n - 1) + 1] = Onward(f[n - 1])
        BY <1>4, <4>1
      <4> QED
        BY <3>2, <4>1, <4>2
    <3> QED
      BY <3>1, <3>2
  <2>2. f = [n \in Nat |-> f[n]] /\ g = [n \in Nat |-> g[n]]
    BY <1>4
  <2> HIDE DEF g
  <2>3. f = g
    BY <2>1, <2>2
  <2> HIDE DEF first
  <2> QED
    BY <2>3 DEF g, Onward
<1>6. Unfolds(WaysOf)
  <2>1. WaysOf = CHOOSE h : Unfolds(h)
    BY DEF WaysOf
  <2> HIDE DEF Unfolds
  <2> QED
    BY <1>5, <2>1
<1>7. ASSUME NEW n \in Nat
      PROVE  WaysOf[n + 1] = Onward(WaysOf[n])
  <2>1. n + 1 \in Nat /\ n + 1 # 0 /\ (n + 1) - 1 = n
    OBVIOUS
  <2>2. WaysOf[n + 1] = {mapCommands[key].subContext :
                             key \in {k \in Keys : k[1] \in WaysOf[(n + 1) - 1]}}
                            \ {NoContext}
    BY <1>6, <2>1
  <2> QED
    BY <2>1, <2>2 DEF Onward
<1>8. WaysOf[0] = first
  BY <1>6
<1> QED
  BY <1>7, <1>8

\* The known contexts with shorter paths.
Shorter(path) == {other \in DOMAIN mapCtx : Len(other) < Len(path)}

\* A command leads to a context with a longer path, so a context n commands away from main
\* has at least n contexts with shorter paths than its own.
LEMMA WaysAreLong ==
    ASSUME BuilderInv
    PROVE  \A n \in Nat : \A path \in WaysOf[n] \cap DOMAIN mapCtx :
               Cardinality(Shorter(path)) >= n
<1> DEFINE Good == {n \in Nat : \A path \in WaysOf[n] \cap DOMAIN mapCtx :
                        Cardinality(Shorter(path)) >= n}
<1>1. /\ IsFiniteSet(DOMAIN mapCtx) /\ DOMAIN mapCtx \subseteq Seq(Parts)
      /\ KeysOK /\ SubContextsKnown
  BY DEF BuilderInv, CoreInv, MapsOK, Counted
<1>2. \A path : IsFiniteSet(Shorter(path)) /\ Cardinality(Shorter(path)) \in Nat
  <2>1. \A path : Shorter(path) \subseteq DOMAIN mapCtx
    BY DEF Shorter
  <2> QED
    BY <1>1, <2>1, FS_Subset, FS_CardinalityType
<1>3. 0 \in Good
  BY <1>2
<1>4. ASSUME NEW n \in Nat, n \in Good
      PROVE  n + 1 \in Good
  <2> SUFFICES ASSUME NEW path \in WaysOf[n + 1] \cap DOMAIN mapCtx
               PROVE  Cardinality(Shorter(path)) >= n + 1
    OBVIOUS
  <2>1. PICK key \in Keys : /\ key[1] \in WaysOf[n]
                            /\ path = mapCommands[key].subContext /\ path # NoContext
    BY WaysUnfold DEF Onward
  <2>2. /\ path = key[1] \o FlattenSeq(key[2]) /\ key[1] \in DOMAIN mapCtx
        /\ IsNames(key[2]) /\ key[2] # <<>>
    BY <1>1, <2>1 DEF KeysOK, SubContextsKnown, PathThrough
  <2>3. Cardinality(Shorter(key[1])) >= n
    BY <1>4, <2>1, <2>2
  <2>4. /\ Len(path) > Len(key[1]) /\ key[1] \in Seq(Parts)
        /\ Len(path) \in Nat /\ Len(key[1]) \in Nat
    <3>1. key[1] \in Seq(Parts)
      BY <1>1, <2>2
    <3>2. path \in Seq(Parts) /\ Len(path) > Len(key[1])
      BY <2>2, <3>1, PathIsLonger, Zenon
    <3> QED
      BY <3>1, <3>2
  <2>5. key[1] \notin Shorter(key[1]) /\ Shorter(key[1]) \cup {key[1]} \subseteq Shorter(path)
    <3>1. \A other \in DOMAIN mapCtx : Len(other) \in Nat
      BY <1>1
    <3>2. ASSUME NEW other \in Shorter(key[1]) \cup {key[1]}
          PROVE  other \in DOMAIN mapCtx /\ Len(other) < Len(path)
      <4>1. CASE other = key[1]
        BY <2>2, <2>4, <4>1, Zenon
      <4>2. CASE other \in Shorter(key[1])
        <5>1. other \in DOMAIN mapCtx /\ Len(other) < Len(key[1]) /\ Len(other) \in Nat
          BY <3>1, <4>2 DEF Shorter
        <5> QED
          BY <2>4, <5>1
      <4> QED
        BY <4>1, <4>2
    <3>3. key[1] \notin Shorter(key[1])
      BY <2>4 DEF Shorter
    <3> QED
      BY <3>2, <3>3 DEF Shorter
  <2> DEFINE A == Shorter(key[1])
             B == Shorter(path)
             c == key[1]
  <2>6. IsFiniteSet(A) /\ IsFiniteSet(B) /\ Cardinality(A) \in Nat /\ Cardinality(B) \in Nat
    BY <1>2
  <2>7. c \notin A /\ A \cup {c} \subseteq B /\ Cardinality(A) >= n
    BY <2>3, <2>5
  <2> HIDE DEF A, B, c
  <2>8. Cardinality(A \cup {c}) = Cardinality(A) + 1
    BY <2>6, <2>7, FS_AddElement
  <2>9. Cardinality(A \cup {c}) <= Cardinality(B)
    BY <2>6, <2>7, FS_Subset
  <2>10. Cardinality(B) >= n + 1
    BY <2>6, <2>7, <2>8, <2>9
  <2> QED
    BY <2>10 DEF B
<1>5. \A n \in Nat : n \in Good
  <2> HIDE DEF Good
  <2> QED
    BY <1>3, <1>4, SetInduction
<1> QED
  BY <1>5

\* context_depth is enough for the prompts of every session: it counts at least the known
\* contexts, and a context as many commands away from main would be one more.
THEOREM StackDeepEnough == BuilderSpec => []DepthEnough
<1>1. BuilderInv => DepthEnough
  <2> SUFFICES ASSUME BuilderInv
               PROVE  DepthEnough
    OBVIOUS
  <2> DEFINE D == DOMAIN mapCtx
             d == context_depth
  <2>1. /\ IsFiniteSet(D) /\ Cardinality(D) <= d /\ d \in Nat
        /\ KeysOK /\ SubContextsKnown /\ (mapCtx # <<>> => Main \in D)
    BY DEF BuilderInv, CoreInv, MapsOK, Counted
  <2>2. Cardinality(D) \in Nat
    BY <2>1, FS_CardinalityType
  <2>3. CASE mapCtx = <<>>
    <3>1. Keys = {}
      BY <2>1, <2>3 DEF KeysOK
    <3>2. CASE d = 0
      BY <2>3, <3>2, WaysUnfold DEF DepthEnough
    <3>3. CASE d # 0
      <4>1. d - 1 \in Nat /\ (d - 1) + 1 = d
        BY <2>1, <3>3
      <4>2. WaysOf[d] = Onward(WaysOf[d - 1])
        BY <4>1, WaysUnfold
      <4>3. WaysOf[d] = {}
        BY <3>1, <4>2 DEF Onward
      <4> QED
        BY <4>3 DEF DepthEnough
    <3> QED
      BY <3>2, <3>3
  <2>4. CASE mapCtx # <<>>
    <3> SUFFICES ASSUME NEW path \in WaysOf[d]
                 PROVE  FALSE
      BY <2>4 DEF DepthEnough
    <3>1. path \in D
      <4>1. CASE d = 0
        BY <2>1, <2>4, <4>1, WaysUnfold
      <4>2. CASE d # 0
        <5>1. d - 1 \in Nat /\ (d - 1) + 1 = d
          BY <2>1, <4>2
        <5>2. WaysOf[d] = Onward(WaysOf[d - 1])
          BY <5>1, WaysUnfold
        <5> QED
          BY <2>1, <5>2 DEF Onward, SubContextsKnown
      <4> QED
        BY <4>1, <4>2
    <3> DEFINE A == Shorter(path)
    <3>2. Cardinality(A) >= d
      BY <2>1, <3>1, WaysAreLong
    <3>3. A \subseteq D /\ path \notin A
      <4>1. path \in Seq(Parts)
        BY <3>1 DEF BuilderInv, CoreInv, MapsOK
      <4> QED
        BY <4>1 DEF Shorter
    <3> HIDE DEF A, D, d
    <3>4. /\ IsFiniteSet(A) /\ Cardinality(A) \in Nat
          /\ Cardinality(A \cup {path}) = Cardinality(A) + 1
          /\ Cardinality(A \cup {path}) <= Cardinality(D)
      <4>1. IsFiniteSet(A) /\ A \cup {path} \subseteq D
        BY <2>1, <3>1, <3>3, FS_Subset
      <4> QED
        BY <2>1, <3>3, <4>1, FS_Subset, FS_AddElement, FS_CardinalityType
    <3> QED
      BY <2>1, <2>2, <3>2, <3>4
  <2> QED
    BY <2>3, <2>4
<1> QED
  BY <1>1, BuilderInvHolds, PTL

-----------------------------------------------------------------------------
(* Documents give trees.                                                   *)

SubOf(key) == mapCommands[key].subContext

\* The context a command leads to has the command's own for its father, and no other
\* command leads there.
LeadsAlone(key) ==
    SubOf(key) # NoContext =>
        /\ mapCtx[SubOf(key)] = key[1]
        /\ \A other \in Keys : SubOf(other) = SubOf(key) => other = key

\* Underscores do not matter for it: as long as nothing is refused no path was given twice.
TreesInv == errors = 0 => \A key \in Keys : LeadsAlone(key)

\* The tables stay as they are, or an error is counted.
LEMMA SameTrees ==
    ASSUME CoreInv, TreesInv, UNCHANGED tree, errors' \in {errors, errors + 1}
    PROVE  TreesInv'
<1>1. errors \in Nat /\ UNCHANGED <<mapCtx, mapCommands>>
  BY DEF CoreInv, tree
<1>2. errors' = 0 => errors = 0
  BY <1>1
<1> QED
  BY <1>1, <1>2 DEF TreesInv, LeadsAlone, SubOf, Keys

\* No command is known or begun.
LEMMA NoTrees ==
    ASSUME Keys = {}
    PROVE  TreesInv
BY DEF TreesInv

\* A command more, or a parameter of one: the subcontexts are those there were.
LEMMA SameSubContexts ==
    ASSUME TreesInv, UNCHANGED <<mapCtx, errors>>, Keys \subseteq Keys',
           \A k \in Keys' : SubOf(k)' = IF k \in Keys THEN SubOf(k) ELSE NoContext
    PROVE  TreesInv'
<1> SUFFICES ASSUME errors' = 0, NEW key \in Keys', SubOf(key)' # NoContext
             PROVE  /\ mapCtx'[SubOf(key)'] = key[1]
                    /\ \A other \in Keys' : SubOf(other)' = SubOf(key)' => other = key
  BY DEF TreesInv, LeadsAlone
<1>1. key \in Keys /\ SubOf(key)' = SubOf(key)
  OBVIOUS
<1>2. LeadsAlone(key) /\ SubOf(key) # NoContext
  BY <1>1 DEF TreesInv
<1>3. \A other \in Keys' : SubOf(other)' = SubOf(key)' =>
          other \in Keys /\ SubOf(other) = SubOf(key)
  BY <1>1
<1> QED
  BY <1>1, <1>2, <1>3 DEF LeadsAlone

LEMMA InsertKeepsTrees ==
    ASSUME TreesInv, NEW key, key \notin Keys, Insert(key)
    PROVE  TreesInv'
<1>1. /\ mapCommands' = [k \in Keys \cup {key} |->
                            IF k = key THEN [subContext |-> NoContext, params |-> {}]
                            ELSE mapCommands[k]]
      /\ UNCHANGED <<mapCtx, errors>>
  BY DEF Insert, With, Keys
<1>2. Keys' = Keys \cup {key}
  BY <1>1 DEF Keys
<1>3. \A k \in Keys' : SubOf(k)' = IF k \in Keys THEN SubOf(k) ELSE NoContext
  BY <1>1, <1>2 DEF SubOf
<1> QED
  BY <1>1, <1>2, <1>3, SameSubContexts

LEMMA ParamKeepsTrees ==
    ASSUME CoreInv, TreesInv, NEW name, CreateParam(name)
    PROVE  TreesInv'
<1>1. CASE Refuse \/ Crash
  BY <1>1, SameTrees DEF Refuse, Crash
<1>2. CASE ~(Refuse \/ Crash)
  <2>1. /\ Current \in Keys
        /\ mapCommands' = [mapCommands EXCEPT ![Current].params = @ \cup {name}]
        /\ UNCHANGED <<mapCtx, errors>>
    BY <1>2 DEF CreateParam
  <2>2. \A k \in Keys : /\ mapCommands[k] \in
                              [subContext : Seq(Parts) \cup {NoContext},
                               params : SUBSET (ParamNames \cup {Default})]
    BY DEF CoreInv, MapsOK
  <2>3. Keys' = Keys /\ \A k \in Keys' : SubOf(k)' = SubOf(k)
    BY <2>1, <2>2 DEF Keys, SubOf
  <2> QED
    BY <2>1, <2>3, SameSubContexts
<1> QED
  BY <1>1, <1>2

\* A path that is new leads no other command's way.
LEMMA SubContextKeepsTrees ==
    ASSUME CoreInv, TreesInv, SubContext
    PROVE  TreesInv'
<1> DEFINE path == SubPath
<1>1. errors \in Nat /\ errors' \in {errors, errors + 1} /\ Current \in Keys
      /\ Current[1] = Here
  BY DEF SubContext, CoreInv, Current
<1>0. path # NoContext
  <2>1. stCtxs # <<>> /\ lstCmds # <<>>
    BY DEF SubContext, Crashes
  <2>2. Here \in Seq(Parts) /\ IsNames(lstCmds)
    BY <2>1, HereIsKnown DEF CoreInv, PlaceOK
  <2> QED
    BY <2>1, <2>2, PathIsLonger, MainIsAPath DEF SubPath
<1>2. CASE errors' # errors
  <2>1. errors' # 0
    BY <1>1, <1>2
  <2> QED
    BY <2>1 DEF TreesInv
<1>3. CASE errors' = errors
  <2>1. /\ path \notin DOMAIN mapCtx /\ SubOf(Current) = NoContext
        /\ mapCommands' = [mapCommands EXCEPT ![Current].subContext = path]
        /\ mapCtx' = With(mapCtx, path, Here)
    BY <1>1, <1>3 DEF SubContext, Known, SubOf
  <2>2. \A k \in Keys : /\ mapCommands[k] \in
                              [subContext : Seq(Parts) \cup {NoContext},
                               params : SUBSET (ParamNames \cup {Default})]
                        /\ SubOf(k) # NoContext => SubOf(k) \in DOMAIN mapCtx
    BY DEF CoreInv, MapsOK, SubContextsKnown, SubOf
  <2> HIDE DEF path
  <2>3. Keys' = Keys /\ \A k \in Keys : SubOf(k)' = IF k = Current THEN path ELSE SubOf(k)
    BY <1>1, <2>1, <2>2 DEF Keys, SubOf
  <2>4. /\ mapCtx'[path] = Here
        /\ \A known \in DOMAIN mapCtx : mapCtx'[known] = mapCtx[known]
    BY <2>1 DEF With
  <2> SUFFICES ASSUME errors' = 0, NEW key \in Keys, SubOf(key)' # NoContext
               PROVE  /\ mapCtx'[SubOf(key)'] = key[1]
                      /\ \A other \in Keys : SubOf(other)' = SubOf(key)' => other = key
    BY <2>3 DEF TreesInv, LeadsAlone
  <2>5. CASE key = Current
    <3>1. SubOf(key)' = path
      BY <2>3, <2>5
    <3>2. \A other \in Keys : other # Current => SubOf(other) # path
      BY <1>0, <2>1, <2>2
    <3> QED
      BY <1>1, <2>3, <2>4, <2>5, <3>1, <3>2
  <2>6. CASE key # Current
    <3>1. SubOf(key)' = SubOf(key) /\ SubOf(key) # NoContext /\ SubOf(key) \in DOMAIN mapCtx
      BY <2>2, <2>3, <2>6
    <3>2. LeadsAlone(key)
      BY <1>3 DEF TreesInv
    <3>3. SubOf(key) # path
      BY <2>1, <3>1
    <3> QED
      BY <2>3, <2>4, <3>1, <3>2, <3>3 DEF LeadsAlone
  <2> QED
    BY <2>5, <2>6
<1> QED
  BY <1>2, <1>3

LEMMA StepKeepsTrees ==
    BuilderInv /\ TreesInv /\ [BuilderNext]_builderVars => TreesInv'
<1> SUFFICES ASSUME BuilderInv, TreesInv, [BuilderNext]_builderVars
             PROVE  TreesInv'
  OBVIOUS
<1>0. CoreInv
  BY DEF BuilderInv
<1>1. CASE UNCHANGED tree /\ errors' \in {errors, errors + 1}
  BY <1>0, <1>1, SameTrees
<1>2. CASE ContextStart
  <2>1. CASE FirstContext
    <3>1. mapCtx = <<>> /\ mapCommands' = mapCommands
      BY <2>1 DEF FirstContext
    <3>2. Keys' = {}
      BY <1>0, <3>1 DEF CoreInv, KeysOK, Keys
    <3> QED
      BY <3>2 DEF TreesInv
  <2>2. CASE SubContext
    BY <1>0, <2>2, SubContextKeepsTrees
  <2>3. CASE ContextWithoutCommand \/ ContextOfLostCommand
    BY <1>1, <2>3 DEF ContextWithoutCommand, ContextOfLostCommand, Crash, Refuse
  <2> QED
    BY <1>2, <2>1, <2>2, <2>3 DEF ContextStart, CreateContext
<1>3. ASSUME NEW name \in Names, CommandStart(name)
      PROVE  TreesInv'
  <2>1. CASE Refuse \/ Crash
    BY <1>1, <2>1 DEF Refuse, Crash
  <2>2. CASE ~(Refuse \/ Crash)
    <3>1. PICK key : key \notin Keys /\ Insert(key)
      BY <1>3, <2>2 DEF CommandStart, CreateCommand, CreateTopCommand, CreateSubCommand
    <3> QED
      BY <3>1, InsertKeepsTrees
  <2> QED
    BY <2>1, <2>2
<1>4. ASSUME NEW name \in ParamNames \cup {Default}, Parameter(name)
      PROVE  TreesInv'
  BY <1>0, <1>4, ParamKeepsTrees DEF Parameter
<1>5. CASE CommandEnd \/ ContextEnd
  BY <1>1, <1>5 DEF CommandEnd, ContextEnd, EndCommand, EndContext, BackToFatherCtx, Refuse
<1>6. CASE Abandon
  <2>1. Keys' = {}
    BY <1>6 DEF Abandon, Keys
  <2> QED
    BY <2>1 DEF TreesInv
<1>7. CASE WriteFiles \/ UNCHANGED builderVars
  BY <1>1, <1>7 DEF WriteFiles, builderVars
<1> QED
  BY <1>2, <1>3, <1>4, <1>5, <1>6, <1>7 DEF BuilderNext

\* As long as no call has failed, the contexts written form a tree whose father pointers
\* are those of the commands that lead to them, which is what a session takes its tables to be.
THEOREM TreesFromDocuments == BuilderSpec => []DocumentsGiveTrees
<1>1. BuilderInit => TreesInv
  <2>1. BuilderInit => Keys = {}
    BY DEF BuilderInit, Keys
  <2> QED
    BY <2>1, NoTrees
<1>2. BuilderInv /\ TreesInv => DocumentsGiveTrees
  BY DEF BuilderInv, CoreInv, SubContextsKnown, TreesInv, LeadsAlone, SubOf, DocumentsGiveTrees
<1> QED
  BY <1>1, <1>2, StepKeepsTrees, BuilderInvHolds, PTL DEF BuilderSpec

-----------------------------------------------------------------------------
(* What the tables are written from.                                       *)

FathersKnown == \A path \in DOMAIN mapCtx : mapCtx[path] \in DOMAIN mapCtx \cup {NoContext}

\* A subcommand is created in a command.
OutersKnown ==
    \A key \in Keys : Len(key[2]) > 1 => <<key[1], Front(key[2])>> \in Keys

\* A context is created in a command.
WaysKnown == \A path \in DOMAIN mapCtx \ {Main} : \E key \in Keys : SubOf(key) = path

TablesInv == FathersKnown /\ OutersKnown /\ WaysKnown

LEMMA NoTables ==
    ASSUME DOMAIN mapCtx \subseteq {Main}, Keys = {},
           \A path \in DOMAIN mapCtx : mapCtx[path] = NoContext
    PROVE  TablesInv
BY DEF TablesInv, FathersKnown, OutersKnown, WaysKnown

LEMMA SameTables ==
    ASSUME TablesInv, UNCHANGED tree
    PROVE  TablesInv'
BY DEF TablesInv, FathersKnown, OutersKnown, WaysKnown, SubOf, Keys, tree

LEMMA FrontOfAppended ==
    ASSUME NEW S, NEW s \in Seq(S), NEW e \in S
    PROVE  Front(Append(s, e)) = s /\ Len(Append(s, e)) = Len(s) + 1
<1>1. /\ Append(s, e) \in Seq(S) /\ Append(s, e) # <<>> /\ Len(Append(s, e)) = Len(s) + 1
      /\ \A i \in 1..Len(s) : Append(s, e)[i] = s[i]
      /\ Len(s) \in Nat
  BY AppendProperties
<1> DEFINE t == Append(s, e)
<1> HIDE DEF t
<1>2. /\ Front(t) \in Seq(S) /\ Len(Front(t)) = Len(t) - 1
      /\ \A i \in 1..(Len(t) - 1) : Front(t)[i] = t[i]
  BY <1>1, FrontIs DEF t
<1>3. Len(t) - 1 = Len(s) /\ \A i \in 1..Len(s) : t[i] = s[i]
  BY <1>1 DEF t
<1>4. Front(t) = s
  BY <1>2, <1>3, SeqEqual
<1> QED
  BY <1>1, <1>4 DEF t

LEMMA InsertKeepsTables ==
    ASSUME TablesInv, NEW key, key \notin Keys, Insert(key),
           Len(key[2]) > 1 => <<key[1], Front(key[2])>> \in Keys
    PROVE  TablesInv'
<1>1. /\ mapCommands' = [k \in Keys \cup {key} |->
                            IF k = key THEN [subContext |-> NoContext, params |-> {}]
                            ELSE mapCommands[k]]
      /\ UNCHANGED mapCtx
  BY DEF Insert, With, Keys
<1>2. Keys' = Keys \cup {key}
  BY <1>1 DEF Keys
<1>3. \A k \in Keys : SubOf(k)' = SubOf(k)
  BY <1>1 DEF SubOf
<1> QED
  BY <1>1, <1>2, <1>3 DEF TablesInv, FathersKnown, OutersKnown, WaysKnown

LEMMA CommandKeepsTables ==
    ASSUME CoreInv, TablesInv, NEW name \in Names, CreateCommand(name)
    PROVE  TablesInv'
<1>1. CASE Refuse \/ Crash
  BY <1>1, SameTables DEF Refuse, Crash
<1>2. CASE CreateTopCommand(name) /\ ~(Refuse \/ Crash)
  <2>1. PICK key : key = <<Here, <<name>>>>
    OBVIOUS
  <2>2. key \notin Keys /\ Insert(key)
    BY <1>2, <2>1 DEF CreateTopCommand
  <2>3. key[2] = <<name>>
    BY <2>1
  <2>4. Len(key[2]) = 1
    BY <2>3
  <2>5. ~(Len(key[2]) > 1)
    BY <2>4
  <2> QED
    BY <2>2, <2>5, InsertKeepsTables
<1>3. CASE CreateSubCommand(name) /\ ~(Refuse \/ Crash)
  <2> DEFINE names == Append(lstCmds, name)
             S == Seq(Parts)
  <2>1. <<Here, names>> \notin Keys /\ Insert(<<Here, names>>) /\ Current \in Keys
    BY <1>3 DEF CreateSubCommand
  <2>2. lstCmds \in Seq(S) /\ name \in S
    BY MainIsAPath DEF CoreInv, PlaceOK, IsNames
  <2> HIDE DEF S
  <2>3. Front(names) = lstCmds
    BY <2>2, FrontOfAppended
  <2> HIDE DEF names
  <2>4. <<(<<Here, names>>)[1], Front((<<Here, names>>)[2])>> \in Keys
    BY <2>1, <2>3 DEF Current
  <2> QED
    BY <2>1, <2>4, InsertKeepsTables
<1> QED
  BY <1>1, <1>2, <1>3 DEF CreateCommand

LEMMA ParamKeepsTables ==
    ASSUME CoreInv, TablesInv, NEW name, CreateParam(name)
    PROVE  TablesInv'
<1>1. CASE Refuse \/ Crash
  BY <1>1, SameTables DEF Refuse, Crash
<1>2. CASE ~(Refuse \/ Crash)
  <2>1. /\ Current \in Keys
        /\ mapCommands' = [mapCommands EXCEPT ![Current].params = @ \cup {name}]
        /\ UNCHANGED mapCtx
    BY <1>2 DEF CreateParam
  <2>2. \A k \in Keys : /\ mapCommands[k] \in
                              [subContext : Seq(Parts) \cup {NoContext},
                               params : SUBSET (ParamNames \cup {Default})]
    BY DEF CoreInv, MapsOK
  <2>3. Keys' = Keys /\ \A k \in Keys' : SubOf(k)' = SubOf(k)
    BY <2>1, <2>2 DEF Keys, SubOf
  <2> QED
    BY <2>1, <2>3 DEF TablesInv, FathersKnown, OutersKnown, WaysKnown
<1> QED
  BY <1>1, <1>2

LEMMA SubContextKeepsTables ==
    ASSUME CoreInv, TablesInv, SubContext
    PROVE  TablesInv'
<1> DEFINE path == SubPath
<1>1. CASE UNCHANGED tree
  BY <1>1, SameTables
<1>2. CASE ~UNCHANGED tree
  <2>1. /\ Current \in Keys /\ SubOf(Current) = NoContext
        /\ mapCommands' = [mapCommands EXCEPT ![Current].subContext = path]
        /\ mapCtx' = mapCtx \/ mapCtx' = With(mapCtx, path, Here)
    BY <1>2 DEF SubContext, Known, SubOf
  <2>2. \A k \in Keys : mapCommands[k] \in [subContext : Seq(Parts) \cup {NoContext},
                                            params : SUBSET (ParamNames \cup {Default})]
    BY DEF CoreInv, MapsOK
  <2>3. Here \in DOMAIN mapCtx
    <3>1. stCtxs # <<>>
      BY DEF SubContext, Crashes
    <3> QED
      BY <3>1, HereIsKnown DEF CoreInv
  <2>4. DOMAIN mapCtx \subseteq Seq(Parts)
    BY DEF CoreInv, MapsOK
  <2> HIDE DEF path
  <2>5. Keys' = Keys /\ \A k \in Keys : SubOf(k)' = IF k = Current THEN path ELSE SubOf(k)
    BY <2>1, <2>2 DEF Keys, SubOf
  <2>6. /\ DOMAIN mapCtx \subseteq DOMAIN mapCtx'
        /\ DOMAIN mapCtx' \subseteq DOMAIN mapCtx \cup {path}
        /\ \A known \in DOMAIN mapCtx' : mapCtx'[known] \in {mapCtx[known], Here}
        /\ \A known \in DOMAIN mapCtx' \ DOMAIN mapCtx : mapCtx'[known] = Here
    BY <2>1 DEF With
  <2>7. FathersKnown'
    BY <2>3, <2>6 DEF TablesInv, FathersKnown
  <2>8. OutersKnown'
    BY <2>5 DEF TablesInv, OutersKnown
  <2>9. ASSUME NEW known \in DOMAIN mapCtx', known # Main
        PROVE  \E key \in Keys' : SubOf(key)' = known
    <3>1. CASE known = path
      BY <2>1, <2>5, <3>1
    <3>2. CASE known # path
      <4>1. known \in DOMAIN mapCtx
        BY <2>6, <3>2
      <4>2. PICK key \in Keys : SubOf(key) = known
        BY <2>9, <4>1 DEF TablesInv, WaysKnown
      <4>3. key # Current
        BY <2>1, <2>4, <4>1, <4>2, MainIsAPath
      <4> QED
        BY <2>5, <4>2, <4>3
    <3> QED
      BY <3>1, <3>2
  <2> QED
    BY <2>7, <2>8, <2>9 DEF TablesInv, WaysKnown
<1> QED
  BY <1>1, <1>2

LEMMA StepKeepsTables ==
    BuilderInv /\ TablesInv /\ [BuilderNext]_builderVars => TablesInv'
<1> SUFFICES ASSUME BuilderInv, TablesInv, [BuilderNext]_builderVars
             PROVE  TablesInv'
  OBVIOUS
<1>0. CoreInv
  BY DEF BuilderInv
<1>1. CASE UNCHANGED tree
  BY <1>1, SameTables
<1>2. CASE ContextStart
  <2>1. CASE FirstContext
    <3>1. mapCtx = <<>> /\ mapCommands' = mapCommands /\ mapCtx' = With(mapCtx, Main, NoContext)
      BY <2>1 DEF FirstContext
    <3>2. Keys' = {}
      BY <1>0, <3>1 DEF CoreInv, KeysOK, Keys
    <3>3. DOMAIN mapCtx' \subseteq {Main} /\ \A path \in DOMAIN mapCtx' : mapCtx'[path] = NoContext
      BY <3>1 DEF With
    <3> QED
      BY <3>2, <3>3 DEF TablesInv, FathersKnown, OutersKnown, WaysKnown
  <2>2. CASE SubContext
    BY <1>0, <2>2, SubContextKeepsTables
  <2>3. CASE ContextWithoutCommand \/ ContextOfLostCommand
    BY <1>1, <2>3 DEF ContextWithoutCommand, ContextOfLostCommand, Crash, Refuse
  <2> QED
    BY <1>2, <2>1, <2>2, <2>3 DEF ContextStart, CreateContext
<1>3. ASSUME NEW name \in Names, CommandStart(name)
      PROVE  TablesInv'
  BY <1>0, <1>3, CommandKeepsTables DEF CommandStart
<1>4. ASSUME NEW name \in ParamNames \cup {Default}, Parameter(name)
      PROVE  TablesInv'
  BY <1>0, <1>4, ParamKeepsTables DEF Parameter
<1>5. CASE CommandEnd \/ ContextEnd
  BY <1>1, <1>5 DEF CommandEnd, ContextEnd, EndCommand, EndContext, BackToFatherCtx, Refuse
<1>6. CASE Abandon
  <2>1. DOMAIN mapCtx' = {} /\ Keys' = {}
    BY <1>6 DEF Abandon, Keys
  <2> QED
    BY <2>1 DEF TablesInv, FathersKnown, OutersKnown, WaysKnown
<1>7. CASE WriteFiles \/ UNCHANGED builderVars
  BY <1>1, <1>7 DEF WriteFiles, builderVars
<1> QED
  BY <1>2, <1>3, <1>4, <1>5, <1>6, <1>7 DEF BuilderNext

LEMMA TablesInvHolds == BuilderSpec => []TablesInv
<1>1. BuilderInit => TablesInv
  <2> SUFFICES ASSUME BuilderInit
               PROVE  TablesInv
    OBVIOUS
  <2>1. DOMAIN mapCtx = {} /\ Keys = {}
    BY DEF BuilderInit, Keys
  <2> QED
    BY <2>1, NoTables
<1> QED
  BY <1>1, StepKeepsTables, BuilderInvHolds, PTL DEF BuilderSpec

LEMMA PrefixIs ==
    ASSUME NEW S, NEW s \in Seq(S), NEW n \in 1..Len(s)
    PROVE  /\ SubSeq(s, 1, n) \in Seq(S) /\ Len(SubSeq(s, 1, n)) = n
           /\ \A i \in 1..n : SubSeq(s, 1, n)[i] = s[i]
<1>1. Len(s) \in Nat /\ n \in Int /\ \A i \in 1..n : s[i] \in S
  BY ElementOfSeq
<1> QED
  BY <1>1, SubSeqProperties

LEMMA FrontOfPrefix ==
    ASSUME NEW S, NEW s \in Seq(S), NEW n \in Nat, n > 0, n + 1 \in 1..Len(s)
    PROVE  Front(SubSeq(s, 1, n + 1)) = SubSeq(s, 1, n)
<1> DEFINE more == SubSeq(s, 1, n + 1)
           less == SubSeq(s, 1, n)
<1>1. n \in 1..Len(s) /\ Len(s) \in Nat
  OBVIOUS
<1>2. /\ more \in Seq(S) /\ Len(more) = n + 1
      /\ \A i \in 1..(n + 1) : more[i] = s[i]
  BY PrefixIs
<1>3. less \in Seq(S) /\ Len(less) = n /\ \A i \in 1..n : less[i] = s[i]
  BY <1>1, PrefixIs
<1> HIDE DEF more, less
<1>4. more # <<>> /\ Len(more) - 1 = n
  BY <1>2
<1>5. /\ Front(more) \in Seq(S) /\ Len(Front(more)) = n
      /\ \A i \in 1..n : Front(more)[i] = more[i]
  BY <1>2, <1>4, FrontIs
<1>6. \A i \in 1..n : Front(more)[i] = less[i]
  BY <1>2, <1>3, <1>5
<1>7. Front(more) = less
  BY <1>3, <1>5, <1>6, SeqEqual
<1> QED
  BY <1>7 DEF more, less

\* All the commands around a command are there.
LEMMA PrefixesKnown ==
    ASSUME KeysOK, OutersKnown, NEW key \in Keys, NEW n \in 1..Len(key[2])
    PROVE  <<key[1], SubSeq(key[2], 1, n)>> \in Keys
<1>1. PICK names, father : names = key[2] /\ father = key[1]
  OBVIOUS
<1>2. names \in Seq(Seq(Parts)) /\ names # <<>> /\ key = <<father, names>>
  BY <1>1 DEF KeysOK, IsNames
<1>3. PICK len \in Nat : len = Len(names) /\ len > 0
  BY <1>2, EmptySeq
<1> DEFINE T == {d \in Nat : d < len => <<father, SubSeq(names, 1, len - d)>> \in Keys}
<1>4. 0 \in T
  <2>1. SubSeq(names, 1, len) = names
    BY <1>2, <1>3
  <2>2. len - 0 = len /\ 0 \in Nat
    OBVIOUS
  <2>3. <<father, SubSeq(names, 1, len - 0)>> \in Keys
    BY <1>2, <2>1, <2>2
  <2> QED
    BY <2>2, <2>3
<1>5. ASSUME NEW d \in Nat, d \in T
      PROVE  d + 1 \in T
  <2> SUFFICES ASSUME d + 1 < len
               PROVE  <<father, SubSeq(names, 1, len - (d + 1))>> \in Keys
    OBVIOUS
  <2>1. PICK m \in Nat : m = len - (d + 1) /\ m > 0 /\ m + 1 = len - d /\ m + 1 \in 1..len
    OBVIOUS
  <2>2. PICK outer : outer = <<father, SubSeq(names, 1, m + 1)>>
    OBVIOUS
  <2>3. outer \in Keys
    BY <1>5, <2>1, <2>2
  <2>4. outer[1] = father /\ outer[2] = SubSeq(names, 1, m + 1)
    BY <2>2
  <2>5. Len(outer[2]) = m + 1
    BY <1>2, <1>3, <2>1, <2>4, PrefixIs
  <2>6. Front(outer[2]) = SubSeq(names, 1, m)
    BY <1>2, <1>3, <2>1, <2>4, FrontOfPrefix
  <2>7. Len(outer[2]) > 1
    BY <2>1, <2>5
  <2>8. <<outer[1], Front(outer[2])>> \in Keys
    BY <2>3, <2>7 DEF OutersKnown
  <2> QED
    BY <2>1, <2>4, <2>6, <2>8
<1>6. \A d \in Nat : d \in T
  <2> HIDE DEF T
  <2> QED
    BY <1>4, <1>5, SetInduction
<1>7. PICK d \in Nat : d = len - n /\ d < len /\ len - d = n
  <2>1. n \in 1..len
    BY <1>1, <1>3
  <2>2. len - n \in Nat /\ len - n < len /\ len - (len - n) = n
    BY <2>1
  <2> QED
    BY <2>2
<1>8. d \in T
  BY <1>6, Zenon
<1> QED
  BY <1>1, <1>7, <1>8

\* WriteCommandDefs comes to every command when the texts are complete.
LEMMA CompleteMeansVisited ==
    ASSUME KeysOK, OutersKnown, TextsComplete
    PROVE  Visited = Keys
<1> SUFFICES ASSUME NEW key \in Keys, NEW n \in 1..(Len(key[2]) - 1),
                    <<key[1], SubSeq(key[2], 1, n)>> \in Keys
             PROVE  LET outer == <<key[1], SubSeq(key[2], 1, n)>>
                    IN  HasBrief(outer) /\ HasHelp(outer)
  BY DEF Visited
<1>1. key[2] \in Seq(Seq(Parts))
  BY DEF KeysOK, IsNames
<1>2. n \in Nat /\ n > 0 /\ n + 1 \in 1..Len(key[2])
  BY <1>1
<1>3. PICK outer : outer = <<key[1], SubSeq(key[2], 1, n)>>
  OBVIOUS
<1>4. PICK inner : inner = <<key[1], SubSeq(key[2], 1, n + 1)>>
  OBVIOUS
<1>5. inner \in Keys
  BY <1>2, <1>4, PrefixesKnown
<1>6. Len(inner[2]) = n + 1 /\ Front(inner[2]) = outer[2] /\ inner[1] = outer[1]
  BY <1>1, <1>2, <1>3, <1>4, PrefixIs, FrontOfPrefix
<1>7. HasSubCommands(outer)
  BY <1>2, <1>5, <1>6 DEF HasSubCommands, Below
<1>8. HasBrief(outer) /\ HasHelp(outer)
  BY <1>3, <1>7 DEF TextsComplete
<1> QED
  BY <1>3, <1>8

LEMMA WrittenNamed ==
    ASSUME NEW keys, NEW key \in keys, NEW kind
    PROVE  DefName(Hierarchy(key), kind) \in Identifiers(Written(keys, kind))
<1>1. PICK entry : entry = <<key, kind, DefName(Hierarchy(key), kind)>>
  OBVIOUS
<1>2. entry \in Written(keys, kind) /\ entry[3] = DefName(Hierarchy(key), kind)
  BY <1>1 DEF Written
<1> QED
  BY <1>2 DEF Identifiers

LEMMA ContextsNamed ==
    ASSUME NEW path \in DOMAIN mapCtx, NEW kind
    PROVE  DefName(path, kind) \in Identifiers(OfContexts(kind))
<1>1. PICK entry : entry = <<<<path, <<>>>>, kind, DefName(path, kind)>>
  OBVIOUS
<1>2. entry \in OfContexts(kind) /\ entry[3] = DefName(path, kind)
  BY <1>1 DEF OfContexts
<1> QED
  BY <1>2 DEF Identifiers

LEMMA DeclaredWhenComplete ==
    ASSUME CoreInv, TablesInv, TextsComplete
    PROVE  Used \subseteq Identifiers(Declared)
<1>1. Visited = Keys
  BY CompleteMeansVisited DEF CoreInv, TablesInv
<1>2. /\ {k \in Keys : HasBrief(k)} \subseteq Described
      /\ {k \in Keys : HasHelp(k)} \subseteq Described
      /\ WithSubCommands \subseteq Described \cap WithSubCommands
  BY <1>1 DEF Described, TextsComplete, WithSubCommands
<1> DEFINE Ids == Identifiers(Declared)
<1>3. /\ Identifiers(OfContexts("ctx")) \subseteq Ids
      /\ Identifiers(OfContexts("cmd")) \subseteq Ids
      /\ Identifiers(Written(Described \cap WithSubCommands, "subcmd")) \subseteq Ids
      /\ Identifiers(Written(Described, "brf")) \subseteq Ids
      /\ Identifiers(Written(Described, "hlp")) \subseteq Ids
      /\ Identifiers(Written(WithParameters, "prm")) \subseteq Ids
  BY DEF Identifiers, Declared
<1> HIDE DEF Ids
<1>4. \A path \in DOMAIN mapCtx : DefName(path, "cmd") \in Ids /\ DefName(path, "ctx") \in Ids
  BY <1>3, ContextsNamed
<1>5. \A path \in ({mapCtx[p] : p \in DOMAIN mapCtx} \ {NoContext}) : path \in DOMAIN mapCtx
  BY DEF TablesInv, FathersKnown
<1>6. \A key \in {k \in Keys : mapCommands[k].subContext # NoContext} :
          mapCommands[key].subContext \in DOMAIN mapCtx
  BY DEF CoreInv, SubContextsKnown
<1>7. \A key \in Described : /\ DefName(Hierarchy(key), "brf") \in Ids
                             /\ DefName(Hierarchy(key), "hlp") \in Ids
  BY <1>3, WrittenNamed
<1>8. \A key \in WithParameters : DefName(Hierarchy(key), "prm") \in Ids
  BY <1>3, WrittenNamed
<1>9. \A key \in WithSubCommands : DefName(Hierarchy(key), "subcmd") \in Ids
  BY <1>2, <1>3, WrittenNamed
<1>10. Used \subseteq Ids
  <2> SUFFICES ASSUME NEW id \in Used
               PROVE  id \in Ids
    OBVIOUS
  <2>1. CASE id \in {DefName(path, "cmd") : path \in DOMAIN mapCtx}
    BY <1>4, <2>1
  <2>2. CASE id \in {DefName(path, "ctx") : path \in ({mapCtx[p] : p \in DOMAIN mapCtx} \ {NoContext})}
    BY <1>4, <1>5, <2>2
  <2>3. CASE id \in {DefName(mapCommands[key].subContext, "ctx") :
                        key \in {k \in Keys : mapCommands[k].subContext # NoContext}}
    BY <1>4, <1>6, <2>3
  <2>4. CASE id \in {DefName(Hierarchy(key), "brf") : key \in {k \in Keys : HasBrief(k)}}
    BY <1>2, <1>7, <2>4
  <2>5. CASE id \in {DefName(Hierarchy(key), "hlp") : key \in {k \in Keys : HasHelp(k)}}
    BY <1>2, <1>7, <2>5
  <2>6. CASE id \in {DefName(Hierarchy(key), "prm") : key \in WithParameters}
    BY <1>8, <2>6
  <2>7. CASE id \in {DefName(Hierarchy(key), "subcmd") : key \in WithSubCommands}
    BY <1>9, <2>7
  <2> QED
    BY <2>1, <2>2, <2>3, <2>4, <2>5, <2>6, <2>7 DEF Used
<1> QED
  BY <1>10 DEF Ids

\* The tables written refer to nothing that is not declared before, and what is declared is
\* defined: the files compile, as far as names go, as soon as the texts are complete.
THEOREM TablesDeclareWhatTheyUse == BuilderSpec => []DeclaredBeforeUse
<1>1. BuilderInv /\ TablesInv => DeclaredBeforeUse
  <2> SUFFICES ASSUME BuilderInv, TablesInv, TextsComplete
               PROVE  /\ Used \subseteq Identifiers(Declared)
                      /\ Identifiers(Declared) \subseteq Identifiers(Defined)
                      /\ FunctionsUsed \ {NULL} \subseteq Prototypes
    BY DEF DeclaredBeforeUse
  <2>1. Used \subseteq Identifiers(Declared)
    BY DeclaredWhenComplete DEF BuilderInv
  <2>2. Written(Described \cap WithSubCommands, "subcmd") \subseteq Written(WithSubCommands, "subcmd")
    BY DEF Written
  <2>3. Declared \subseteq Defined
    BY <2>2 DEF Declared, Defined
  <2>4. Identifiers(Declared) \subseteq Identifiers(Defined)
    BY <2>3 DEF Identifiers
  <2>5. FunctionsUsed \ {NULL} \subseteq Prototypes
    BY DEF FunctionsUsed, Prototypes
  <2> QED
    BY <2>1, <2>4, <2>5
<1> QED
  BY <1>1, BuilderInvHolds, TablesInvHolds, PTL DEF BuilderSpec

-----------------------------------------------------------------------------
(* The tables have each name once.                                         *)

LEMMA ConcatIs ==
    ASSUME NEW S, NEW s \in Seq(S), NEW t \in Seq(S)
    PROVE  /\ s \o t \in Seq(S) /\ Len(s \o t) = Len(s) + Len(t)
           /\ \A i \in 1..Len(s) : (s \o t)[i] = s[i]
           /\ \A i \in 1..Len(t) : (s \o t)[Len(s) + i] = t[i]
<1>0. PICK m \in Nat, n \in Nat : m = Len(s) /\ n = Len(t)
  OBVIOUS
<1>1. PICK both : both = s \o t
  OBVIOUS
<1>2. /\ both \in Seq(S) /\ Len(both) = m + n
      /\ \A i \in 1..(m + n) : both[i] = IF i <= m THEN s[i] ELSE t[i - m]
  BY <1>0, <1>1, ConcatProperties
<1>3. \A i \in 1..m : both[i] = s[i]
  BY <1>2
<1>4. ASSUME NEW i \in 1..n
      PROVE  both[m + i] = t[i]
  <2>1. m + i \in 1..(m + n) /\ ~(m + i <= m) /\ (m + i) - m = i
    OBVIOUS
  <2> QED
    BY <1>2, <2>1
<1> QED
  BY <1>0, <1>1, <1>2, <1>3, <1>4

\* Names of one part each.
Plain(names) == \A i \in DOMAIN names : Len(names[i]) = 1

\* Plain names lie one behind the other in a path.
LEMMA PlainNamesInOrder ==
    ASSUME NEW T, NEW names \in Seq(Seq(T)), names # <<>>, Plain(names)
    PROVE  /\ FlattenSeq(names) \in Seq(T) /\ Len(FlattenSeq(names)) = Len(names)
           /\ \A i \in 1..Len(names) : FlattenSeq(names)[i] = names[i][1]
<1>1. PICK n \in Nat : n = Len(names) /\ n > 0 /\ DOMAIN names = 1..n
  BY EmptySeq
<1>2. \A i \in 1..n : names[i] \in Seq(T) /\ Len(names[i]) = 1
  BY <1>1, ElementOfSeq DEF Plain
<1>3. PICK f : /\ f = [i \in 1..n |-> IF i = 1 THEN names[i] ELSE f[i - 1] \o names[i]]
               /\ FlattenSeq(names) = f[n]
  BY <1>1, FlattenUnfolds
<1> DEFINE Good == {m \in Nat : m \in 1..n => /\ f[m] \in Seq(T) /\ Len(f[m]) = m
                                              /\ \A i \in 1..m : f[m][i] = names[i][1]}
<1>4. 0 \in Good
  OBVIOUS
<1>5. ASSUME NEW m \in Nat, m \in Good
      PROVE  m + 1 \in Good
  <2> SUFFICES ASSUME m + 1 \in 1..n
               PROVE  /\ f[m + 1] \in Seq(T) /\ Len(f[m + 1]) = m + 1
                      /\ \A i \in 1..(m + 1) : f[m + 1][i] = names[i][1]
    OBVIOUS
  <2>1. names[m + 1] \in Seq(T) /\ Len(names[m + 1]) = 1
    BY <1>2
  <2>2. f[m + 1] = IF m + 1 = 1 THEN names[m + 1] ELSE f[(m + 1) - 1] \o names[m + 1]
    BY <1>3
  <2>3. CASE m = 0
    BY <2>1, <2>2, <2>3
  <2>4. CASE m # 0
    <3>1. m \in 1..n /\ m + 1 # 1 /\ (m + 1) - 1 = m
      BY <1>1, <2>4
    <3>2. PICK before \in Seq(T) : /\ before = f[m] /\ Len(before) = m
                                   /\ \A i \in 1..m : before[i] = names[i][1]
      BY <1>5, <3>1
    <3>3. PICK name \in Seq(T) : name = names[m + 1] /\ Len(name) = 1
      BY <2>1
    <3>4. f[m + 1] = before \o name
      BY <2>2, <3>1, <3>2, <3>3
    <3>5. PICK both : both = before \o name
      OBVIOUS
    <3>6. /\ both \in Seq(T) /\ Len(both) = Len(before) + Len(name)
          /\ \A i \in 1..Len(before) : both[i] = before[i]
          /\ \A i \in 1..Len(name) : both[Len(before) + i] = name[i]
      BY <3>5, ConcatIs
    <3>7. \A i \in 1..m : both[i] = names[i][1]
      BY <3>2, <3>6
    <3>8. both[m + 1] = names[m + 1][1]
      BY <3>2, <3>3, <3>6
    <3>9. \A i \in 1..(m + 1) : both[i] = names[i][1]
      BY <3>7, <3>8
    <3> QED
      BY <3>2, <3>3, <3>4, <3>5, <3>6, <3>9
  <2> QED
    BY <2>3, <2>4
<1>6. n \in Good
  <2> HIDE DEF Good
  <2> QED
    BY <1>4, <1>5, SetInduction
<1>7. n \in 1..n
  BY <1>1
<1>8. f[n] \in Seq(T) /\ Len(f[n]) = n /\ \A i \in 1..n : f[n][i] = names[i][1]
  BY <1>6, <1>7
<1> QED
  BY <1>1, <1>3, <1>8

\* How a path is made of a command's context and names.
MadeOf(path, key, father, names, c, n) ==
    /\ key = <<father, names>> /\ Len(father) = c /\ Len(names) = n /\ n > 0
    /\ path \in Seq(Parts) /\ Len(path) = c + n
    /\ \A i \in 1..c : path[i] = father[i]
    /\ \A i \in 1..n : names[i] = <<path[c + i]>>

LEMMA PlainPath ==
    ASSUME MapsOK, KeysOK, PlainNames, NEW key \in Keys, NEW path, path = PathThrough(key)
    PROVE  \E father \in Seq(Parts), names \in Seq(Seq(Parts)), c \in Nat, n \in Nat :
               MadeOf(path, key, father, names, c, n)
<1>1. PICK father, names : father = key[1] /\ names = key[2]
  OBVIOUS
<1>2. /\ key = <<father, names>> /\ father \in Seq(Parts)
      /\ names \in Seq(Seq(Parts)) /\ names # <<>>
  BY <1>1 DEF KeysOK, IsNames, MapsOK
<1>3. Plain(names)
  BY <1>1 DEF PlainNames, Plain
<1>4. PICK flat : flat = FlattenSeq(names)
  OBVIOUS
<1>5. PICK n \in Nat : n = Len(names) /\ n > 0
  BY <1>2, EmptySeq
<1>6. PICK c \in Nat : c = Len(father)
  BY <1>2
<1>7. /\ flat \in Seq(Parts) /\ Len(flat) = n
      /\ \A i \in 1..n : flat[i] = names[i][1]
  BY <1>2, <1>3, <1>4, <1>5, PlainNamesInOrder
<1>8. path = father \o flat
  BY <1>1, <1>4 DEF PathThrough
<1>9. /\ path \in Seq(Parts) /\ Len(path) = c + n
      /\ \A i \in 1..c : path[i] = father[i]
      /\ \A i \in 1..n : path[c + i] = flat[i]
  <2>1. /\ path \in Seq(Parts) /\ Len(path) = Len(father) + Len(flat)
        /\ \A i \in 1..Len(father) : path[i] = father[i]
        /\ \A i \in 1..Len(flat) : path[Len(father) + i] = flat[i]
    <3>1. father \in Seq(Parts) /\ flat \in Seq(Parts)
      BY <1>2, <1>7
    <3> QED
      BY <1>8, <3>1, ConcatIs
  <2> QED
    BY <1>6, <1>7, <2>1
<1>10. ASSUME NEW i \in 1..n
       PROVE  names[i] = <<path[c + i]>>
  <2>1. names[i] \in Seq(Parts)
    BY <1>2, <1>5, ElementOfSeq
  <2>2. Len(names[i]) = 1
    <3>1. DOMAIN names = 1..n
      BY <1>2, <1>5
    <3> QED
      BY <1>3, <3>1 DEF Plain
  <2>3. names[i] = <<names[i][1]>>
    BY <2>1, <2>2
  <2> QED
    BY <1>7, <1>9, <2>3
<1>11. MadeOf(path, key, father, names, c, n)
  BY <1>2, <1>5, <1>6, <1>9, <1>10 DEF MadeOf
<1> QED
  BY <1>2, <1>11

LEMMA PathsAreParts ==
    ASSUME MapsOK, KeysOK, NEW key \in Keys
    PROVE  PathThrough(key) \in Seq(Parts)
<1>1. PICK father, names : father = key[1] /\ names = key[2]
  OBVIOUS
<1>2. father \in Seq(Parts) /\ IsNames(names) /\ names # <<>>
  BY <1>1 DEF KeysOK, MapsOK
<1>3. father \o FlattenSeq(names) \in Seq(Parts)
  BY <1>2, PathIsLonger
<1> QED
  BY <1>1, <1>3 DEF PathThrough

\* What the names of the tables are told apart by.
Plainly == MapsOK /\ KeysOK /\ SubContextsKnown /\ TablesInv /\ PlainNames /\ OneWayDown

OneCommandUpTo(n) ==
    \A one, other \in Keys :
        Len(PathThrough(one)) < n /\ PathThrough(one) = PathThrough(other) => one = other

\* If one path came through two contexts, the deeper context would have been reached from a
\* command that has subcommands too.
LEMMA NotThroughTwoContexts ==
    ASSUME Plainly, NEW m \in Nat, OneCommandUpTo(m),
           NEW one \in Keys, NEW other \in Keys,
           PathThrough(one) = PathThrough(other), Len(PathThrough(one)) <= m
    PROVE  ~(Len(one[1]) < Len(other[1]))
<1> SUFFICES ASSUME Len(one[1]) < Len(other[1])
             PROVE  FALSE
  OBVIOUS
<1> USE DEF Plainly
<1>1. PICK h : h = PathThrough(one)
  OBVIOUS
<1>2. PICK outer \in Seq(Parts), names \in Seq(Seq(Parts)), c \in Nat, n \in Nat :
          MadeOf(h, one, outer, names, c, n)
  BY <1>1, PlainPath
<1>3. PICK deeper \in Seq(Parts), rest \in Seq(Seq(Parts)), d \in Nat, k \in Nat :
          MadeOf(h, other, deeper, rest, d, k)
  BY <1>1, PlainPath
<1>4. PICK e \in Nat : e = d - c /\ e > 0 /\ e < n /\ c + e = d
  <2>1. c < d
    BY <1>2, <1>3 DEF MadeOf
  <2>2. d - c \in Nat /\ d - c > 0 /\ d - c < n /\ c + (d - c) = d
    BY <1>2, <1>3, <2>1 DEF MadeOf
  <2> QED
    BY <2>2
<1>5. outer \in DOMAIN mapCtx /\ deeper \in DOMAIN mapCtx
  BY <1>2, <1>3 DEF KeysOK, MadeOf
<1>6. deeper # Main
  <2> SUFFICES ASSUME deeper = Main
               PROVE  FALSE
    OBVIOUS
  <2>1. c = 0
    BY <1>2, <1>3, <1>4 DEF Main, MadeOf
  <2>2. outer # Main
    BY <1>2, <2>1 DEF Main, MadeOf
  <2>3. PICK way \in Keys : SubOf(way) = outer
    BY <1>5, <2>2 DEF TablesInv, WaysKnown
  <2>4. outer = PathThrough(way)
    BY <1>5, <2>3, MainIsAPath DEF SubContextsKnown, SubOf
  <2>5. Len(outer) > Len(way[1]) /\ Len(way[1]) \in Nat
    <3>1. way[1] \in Seq(Parts) /\ IsNames(way[2]) /\ way[2] # <<>>
      BY DEF KeysOK, MapsOK
    <3>2. PICK before, between : before = way[1] /\ between = way[2]
      OBVIOUS
    <3>3. outer = before \o FlattenSeq(between)
      BY <2>4, <3>2 DEF PathThrough
    <3>4. before \in Seq(Parts) /\ IsNames(between) /\ between # <<>>
      BY <3>1, <3>2
    <3>5. Len(outer) > Len(before) /\ Len(before) \in Nat
      BY <3>3, <3>4, PathIsLonger
    <3> QED
      BY <3>2, <3>5
  <2> QED
    BY <1>2, <2>1, <2>5 DEF MadeOf
<1>7. PICK way \in Keys : SubOf(way) = deeper
  BY <1>5, <1>6 DEF TablesInv, WaysKnown
<1>8. deeper = PathThrough(way) /\ SubOf(way) # NoContext
  BY <1>7, MainIsAPath DEF SubContextsKnown, SubOf
<1>9. PICK stem : stem = <<outer, SubSeq(names, 1, e)>>
  OBVIOUS
<1>10. stem \in Keys
  <2>1. one[1] = outer /\ one[2] = names /\ e \in 1..Len(names)
    BY <1>2, <1>4 DEF MadeOf
  <2> QED
    BY <1>9, <2>1, PrefixesKnown DEF TablesInv
<1>11. /\ Len(SubSeq(names, 1, e)) = e
       /\ \A i \in 1..e : SubSeq(names, 1, e)[i] = names[i]
  BY <1>2, <1>4, PrefixIs DEF MadeOf
<1>12. PICK g : g = PathThrough(stem)
  OBVIOUS
<1>13. g = deeper
  <2>1. PICK prefix : prefix = SubSeq(names, 1, e)
    OBVIOUS
  <2>2. Len(prefix) = e /\ \A i \in 1..e : prefix[i] = names[i]
    BY <1>11, <2>1
  <2>3. /\ g \in Seq(Parts) /\ Len(g) = c + e
        /\ \A i \in 1..c : g[i] = outer[i]
        /\ \A i \in 1..e : prefix[i] = <<g[c + i]>>
    <3>1. PICK father \in Seq(Parts), some \in Seq(Seq(Parts)), c1 \in Nat, n1 \in Nat :
              MadeOf(g, stem, father, some, c1, n1)
      BY <1>10, <1>12, PlainPath
    <3>2. father = outer /\ some = prefix
      <4>1. stem = <<father, some>> /\ stem = <<outer, prefix>>
        BY <1>9, <2>1, <3>1 DEF MadeOf
      <4> QED
        BY <4>1
    <3>3. c1 = c /\ n1 = e
      BY <1>2, <2>2, <3>1, <3>2 DEF MadeOf
    <3> QED
      BY <3>1, <3>2, <3>3 DEF MadeOf
  <2>4. ASSUME NEW i \in 1..d
        PROVE  g[i] = h[i]
    <3>1. CASE i <= c
      BY <1>2, <2>3, <3>1 DEF MadeOf
    <3>2. CASE i > c
      <4>1. PICK j \in 1..e : i = c + j
        <5>1. i - c \in 1..e /\ i = c + (i - c)
          BY <1>4, <3>2
        <5> QED
          BY <5>1
      <4>2. prefix[j] = <<g[c + j]>> /\ prefix[j] = names[j]
        BY <2>2, <2>3
      <4>3. names[j] = <<h[c + j]>>
        BY <1>2, <1>4 DEF MadeOf
      <4>4. <<g[c + j]>>[1] = <<h[c + j]>>[1]
        BY <4>2, <4>3
      <4> QED
        BY <4>1, <4>4
    <3> QED
      BY <3>1, <3>2 DEF MadeOf
  <2>5. \A i \in 1..d : g[i] = deeper[i]
    BY <1>3, <2>4 DEF MadeOf
  <2>6. Len(g) = Len(deeper)
    BY <1>3, <1>4, <2>3 DEF MadeOf
  <2>7. \A i \in 1..Len(g) : g[i] = deeper[i]
    BY <1>4, <2>3, <2>5 DEF MadeOf
  <2> QED
    BY <2>3, <2>6, <2>7, SeqEqual
<1>14. Len(deeper) < m
  BY <1>1, <1>3 DEF MadeOf
<1>15. stem = way
  BY <1>8, <1>10, <1>12, <1>13, <1>14 DEF OneCommandUpTo
<1>16. PICK inner : inner = <<outer, SubSeq(names, 1, e + 1)>>
  OBVIOUS
<1>17. e + 1 \in 1..Len(names)
  <2>1. Len(names) = n
    BY <1>2 DEF MadeOf
  <2> QED
    BY <1>4, <2>1
<1>18. inner \in Keys
  <2>1. one[1] = outer /\ one[2] = names
    BY <1>2 DEF MadeOf
  <2> QED
    BY <1>16, <1>17, <2>1, PrefixesKnown DEF TablesInv
<1>19. inner[1] = stem[1] /\ Len(inner[2]) = e + 1 /\ Front(inner[2]) = stem[2]
  BY <1>4, <1>9, <1>16, <1>17, PrefixIs, FrontOfPrefix
<1>20. HasSubCommands(stem)
  BY <1>4, <1>18, <1>19 DEF HasSubCommands, Below
<1> QED
  BY <1>8, <1>10, <1>15, <1>20 DEF OneWayDown, SubOf

\* No two commands are written under one name.
LEMMA HierarchyIsOnce ==
    ASSUME Plainly, NEW one \in Keys, NEW other \in Keys,
           PathThrough(one) = PathThrough(other)
    PROVE  one = other
<1> DEFINE T == {n \in Nat : OneCommandUpTo(n)}
<1>1. ASSUME NEW key \in Keys
      PROVE  PathThrough(key) \in Seq(Parts) /\ Len(PathThrough(key)) \in Nat
  <2>1. PathThrough(key) \in Seq(Parts)
    BY PathsAreParts DEF Plainly
  <2> QED
    BY <2>1
<1>2. 0 \in T
  BY <1>1 DEF OneCommandUpTo
<1>3. ASSUME NEW n \in Nat, n \in T
      PROVE  n + 1 \in T
  <2> SUFFICES ASSUME NEW a \in Keys, NEW b \in Keys,
                      Len(PathThrough(a)) < n + 1, PathThrough(a) = PathThrough(b)
               PROVE  a = b
    BY DEF OneCommandUpTo
  <2>1. Len(PathThrough(a)) <= n /\ Len(PathThrough(b)) <= n /\ OneCommandUpTo(n)
    BY <1>1, <1>3 DEF MadeOf
  <2>2. ~(Len(a[1]) < Len(b[1])) /\ ~(Len(b[1]) < Len(a[1]))
    BY <2>1, NotThroughTwoContexts
  <2>3. PICK h : h = PathThrough(a)
    OBVIOUS
  <2>4. PICK fatherA \in Seq(Parts), namesA \in Seq(Seq(Parts)), c \in Nat, m \in Nat :
            MadeOf(h, a, fatherA, namesA, c, m)
    BY <2>3, PlainPath DEF Plainly
  <2>5. PICK fatherB \in Seq(Parts), namesB \in Seq(Seq(Parts)), d \in Nat, k \in Nat :
            MadeOf(h, b, fatherB, namesB, d, k)
    BY <2>3, PlainPath DEF Plainly
  <2>6. c = d /\ m = k
    <3>1. ~(c < d) /\ ~(d < c)
      BY <2>2, <2>4, <2>5 DEF MadeOf
    <3> QED
      BY <2>4, <2>5, <3>1 DEF MadeOf
  <2>7. fatherA = fatherB
    <3>1. \A i \in 1..c : fatherA[i] = fatherB[i]
      BY <2>4, <2>5, <2>6 DEF MadeOf
    <3> QED
      BY <2>4, <2>5, <2>6, <3>1, SeqEqual DEF MadeOf
  <2>8. namesA = namesB
    <3>1. \A i \in 1..m : namesA[i] = namesB[i]
      BY <2>4, <2>5, <2>6 DEF MadeOf
    <3> QED
      BY <2>4, <2>5, <2>6, <3>1, SeqEqual DEF MadeOf
  <2> QED
    BY <2>4, <2>5, <2>7, <2>8 DEF MadeOf
<1>4. \A n \in Nat : n \in T
  <2> HIDE DEF T
  <2> QED
    BY <1>2, <1>3, SetInduction
<1>5. PICK n \in Nat : n = Len(PathThrough(one)) + 1 /\ Len(PathThrough(one)) < n
  BY <1>1
<1>6. OneCommandUpTo(n)
  BY <1>4
<1> QED
  BY <1>5, <1>6 DEF OneCommandUpTo

\* A definition is made of what it is for, its kind and a path.
LEMMA EntryOf ==
    ASSUME NEW entry \in Defined
    PROVE  \/ \E path \in DOMAIN mapCtx, kind \in {"ctx", "cmd"} :
                  entry = <<<<path, <<>>>>, kind, Append(path, kind)>>
           \/ \E key \in Keys, kind \in {"subcmd", "brf", "hlp", "prm"} :
                  entry = <<key, kind, Append(PathThrough(key), kind)>>
<1>1. \A key : Hierarchy(key) = PathThrough(key)
  BY DEF Hierarchy, PathThrough
<1>2. WithSubCommands \subseteq Keys /\ Described \subseteq Keys /\ WithParameters \subseteq Keys
  BY DEF WithSubCommands, Described, WithParameters, Visited
<1> QED
  BY <1>1, <1>2 DEF Defined, OfContexts, Written, DefName

\* Whatever calls have failed, a document of plain names whose commands lead to a context or
\* have subcommands, not both, gives tables in which no name is defined twice.
THEOREM TablesDefineOnce == BuilderSpec => []DefinedOnce
<1>1. BuilderInv /\ TablesInv => DefinedOnce
  <2> SUFFICES ASSUME BuilderInv, TablesInv, PlainNames, OneWayDown,
                      NEW one \in Defined, NEW other \in Defined, one[3] = other[3]
               PROVE  one = other
    BY DEF DefinedOnce
  <2>1. Plainly
    BY DEF Plainly, BuilderInv, CoreInv
  <2>2. \A key \in Keys : PathThrough(key) \in Seq(Parts)
    BY <2>1, PathsAreParts DEF Plainly
  <2>3. DOMAIN mapCtx \subseteq Seq(Parts)
    BY <2>1 DEF Plainly, MapsOK
  <2>4. PICK whatA, pathA, kindA, whatB, pathB, kindB :
            /\ pathA \in Seq(Parts) /\ pathB \in Seq(Parts)
            /\ one = <<whatA, kindA, Append(pathA, kindA)>>
            /\ other = <<whatB, kindB, Append(pathB, kindB)>>
            /\ \/ kindA \in {"ctx", "cmd"} /\ whatA = <<pathA, <<>>>>
               \/ kindA \in {"subcmd", "brf", "hlp", "prm"} /\ whatA \in Keys
                  /\ pathA = PathThrough(whatA)
            /\ \/ kindB \in {"ctx", "cmd"} /\ whatB = <<pathB, <<>>>>
               \/ kindB \in {"subcmd", "brf", "hlp", "prm"} /\ whatB \in Keys
                  /\ pathB = PathThrough(whatB)
    <3>1. \A entry \in Defined : \E what, path, kind :
              /\ path \in Seq(Parts) /\ entry = <<what, kind, Append(path, kind)>>
              /\ \/ kind \in {"ctx", "cmd"} /\ what = <<path, <<>>>>
                 \/ kind \in {"subcmd", "brf", "hlp", "prm"} /\ what \in Keys
                    /\ path = PathThrough(what)
      BY <2>2, <2>3, EntryOf, Zenon
    <3> QED
      BY <3>1
  <2>5. pathA = pathB /\ kindA = kindB
    <3>1. pathA \in Seq(Parts) /\ pathB \in Seq(Parts)
      BY <2>4
    <3>2. Append(pathA, kindA) = Append(pathB, kindB)
      BY <2>4
    <3> QED
      BY <3>1, <3>2, AppendedSame
  <2>6. whatA = whatB
    BY <2>1, <2>4, <2>5, HierarchyIsOnce
  <2> QED
    BY <2>4, <2>5, <2>6
<1> QED
  BY <1>1, BuilderInvHolds, TablesInvHolds, PTL DEF BuilderSpec

-----------------------------------------------------------------------------
(* The builder reads documents.                                            *)

\* What the abstract document keeps of an element, and of the open ones.
ShapeOf(e) == [kind |-> e.kind, stage |-> e.stage]

Shape(elems) == [i \in DOMAIN elems |-> ShapeOf(elems[i])]

Shapes == [kind : {"context", "command"}, stage : {"parameters", "commands", "contexts"}]

LEMMA ShapeIs ==
    ASSUME NEW elems \in Seq(Element)
    PROVE  /\ Shape(elems) \in Seq(Shapes) /\ Len(Shape(elems)) = Len(elems)
           /\ Len(elems) \in Nat
           /\ \A i \in 1..Len(elems) : /\ Shape(elems)[i] = ShapeOf(elems[i])
                                       /\ elems[i] \in Element
<1>1. DOMAIN elems = 1..Len(elems) /\ Len(elems) \in Nat
      /\ \A i \in 1..Len(elems) : elems[i] \in Element
  BY ElementOfSeq
<1>2. \A e \in Element : ShapeOf(e) \in Shapes
  BY DEF Element, Shapes, ShapeOf
<1> HIDE DEF Element
<1>3. Shape(elems) = [i \in 1..Len(elems) |-> ShapeOf(elems[i])]
  BY <1>1 DEF Shape
<1>4. \A i \in 1..Len(elems) : ShapeOf(elems[i]) \in Shapes
  BY <1>1, <1>2
<1> QED
  BY <1>1, <1>3, <1>4

LEMMA ShapeOfAppended ==
    ASSUME NEW elems \in Seq(Element), NEW e \in Element
    PROVE  Shape(Append(elems, e)) = Append(Shape(elems), ShapeOf(e))
<1> DEFINE n == Len(elems)
           more == Append(elems, e)
           shapes == Append(Shape(elems), ShapeOf(e))
<1>1. /\ Shape(elems) \in Seq(Shapes) /\ Len(Shape(elems)) = n /\ n \in Nat
      /\ \A i \in 1..n : Shape(elems)[i] = ShapeOf(elems[i])
  BY ShapeIs
<1>2. ShapeOf(e) \in Shapes
  BY DEF Element, Shapes, ShapeOf
<1>3. /\ more \in Seq(Element) /\ Len(more) = n + 1 /\ more[n + 1] = e
      /\ \A i \in 1..n : more[i] = elems[i]
  BY AppendProperties
<1>4. /\ shapes \in Seq(Shapes) /\ Len(shapes) = n + 1 /\ shapes[n + 1] = ShapeOf(e)
      /\ \A i \in 1..n : shapes[i] = Shape(elems)[i]
  BY <1>1, <1>2, AppendProperties
<1> HIDE DEF more, shapes, n
<1>5. /\ Shape(more) \in Seq(Shapes) /\ Len(Shape(more)) = n + 1
      /\ \A i \in 1..(n + 1) : Shape(more)[i] = ShapeOf(more[i])
  BY <1>3, ShapeIs
<1>6. \A i \in 1..(n + 1) : Shape(more)[i] = shapes[i]
  <2> TAKE i \in 1..(n + 1)
  <2>1. i \in 1..n \/ i = n + 1
    BY <1>1
  <2> QED
    BY <1>1, <1>3, <1>4, <1>5, <2>1
<1>7. Shape(more) = shapes
  BY <1>4, <1>5, <1>6, SeqEqual
<1> QED
  BY <1>7 DEF more, shapes

LEMMA ShapeOfReached ==
    ASSUME open \in Seq(Element), open # <<>>,
           NEW stage \in {"parameters", "commands", "contexts"}
    PROVE  Shape(Reached(stage)) = [Shape(open) EXCEPT ![Len(Shape(open))].stage = stage]
<1> DEFINE n == Len(open)
           shapes == [Shape(open) EXCEPT ![n].stage = stage]
<1>1. /\ Shape(open) \in Seq(Shapes) /\ Len(Shape(open)) = n /\ n \in Nat
      /\ \A i \in 1..n : Shape(open)[i] = ShapeOf(open[i]) /\ open[i] \in Element
  BY ShapeIs
<1>2. /\ Reached(stage) \in Seq(Element) /\ Len(Reached(stage)) = n /\ n > 0
      /\ \A i \in 1..n : Reached(stage)[i] =
             IF i = n THEN [open[i] EXCEPT !.stage = stage] ELSE open[i]
  BY ReachedIsOpen
<1>3. /\ DOMAIN Shape(Reached(stage)) = 1..n
      /\ Shape(Reached(stage)) = [i \in 1..n |-> Shape(Reached(stage))[i]]
      /\ \A i \in 1..n : Shape(Reached(stage))[i] = ShapeOf(Reached(stage)[i])
  BY <1>2 DEF Shape
<1> HIDE DEF n
<1>4. shapes = [i \in 1..n |-> IF i = n THEN [Shape(open)[n] EXCEPT !.stage = stage]
                               ELSE Shape(open)[i]]
  <2>1. DOMAIN Shape(open) = 1..n
    BY <1>1
  <2> QED
    BY <2>1
<1>5. \A i \in 1..n : Shape(Reached(stage))[i] =
          IF i = n THEN [Shape(open)[n] EXCEPT !.stage = stage] ELSE Shape(open)[i]
  <2> TAKE i \in 1..n
  <2>1. CASE i = n
    <3>1. ShapeOf([open[n] EXCEPT !.stage = stage]) = [ShapeOf(open[n]) EXCEPT !.stage = stage]
      BY <1>1, <1>2 DEF ShapeOf, Element
    <3> QED
      BY <1>1, <1>2, <1>3, <2>1, <3>1
  <2>2. CASE i # n
    BY <1>1, <1>2, <1>3, <2>2
  <2> QED
    BY <2>1, <2>2
<1>6. Shape(Reached(stage)) = shapes
  BY <1>3, <1>4, <1>5
<1> QED
  BY <1>1, <1>6

LEMMA ShapeOfFront ==
    ASSUME NEW elems \in Seq(Element), elems # <<>>
    PROVE  Shape(Front(elems)) = SubSeq(Shape(elems), 1, Len(Shape(elems)) - 1)
           /\ Shape(elems) # <<>>
<1> DEFINE n == Len(elems) - 1
           front == SubSeq(Shape(elems), 1, n)
<1>1. /\ Front(elems) \in Seq(Element) /\ Len(Front(elems)) = n
      /\ \A i \in 1..n : Front(elems)[i] = elems[i]
      /\ n \in Nat
  BY FrontIs
<1>2. /\ Shape(elems) \in Seq(Shapes) /\ Len(Shape(elems)) = Len(elems)
      /\ \A i \in 1..Len(elems) : Shape(elems)[i] = ShapeOf(elems[i])
      /\ Len(elems) = n + 1
  BY <1>1, ShapeIs
<1>3. /\ Shape(Front(elems)) \in Seq(Shapes) /\ Len(Shape(Front(elems))) = n
      /\ \A i \in 1..n : Shape(Front(elems))[i] = ShapeOf(Front(elems)[i])
  BY <1>1, ShapeIs
<1>4. /\ front \in Seq(Shapes) /\ Len(front) = n
      /\ \A i \in 1..n : front[i] = Shape(elems)[i]
  <2>1. Shape(elems) # <<>>
    BY <1>1, <1>2, EmptySeq
  <2>2. Front(Shape(elems)) = front
    BY <1>2 DEF Front
  <2> HIDE DEF front, n
  <2> QED
    BY <1>1, <1>2, <2>1, <2>2, FrontIs
<1> HIDE DEF n, front
<1>5. \A i \in 1..n : Shape(Front(elems))[i] = front[i]
  <2> TAKE i \in 1..n
  <2>1. i \in 1..Len(elems)
    BY <1>1, <1>2
  <2> QED
    BY <1>1, <1>2, <1>3, <1>4, <2>1
<1>6. Shape(Front(elems)) = front
  BY <1>3, <1>4, <1>5, SeqEqual
<1>7. Shape(elems) # <<>>
  BY <1>1, <1>2
<1> QED
  BY <1>2, <1>6, <1>7 DEF front, n

\* What the refinement shows of the state.
LEMMA DocumentShown ==
    /\ [i \in DOMAIN open |-> [kind |-> open[i].kind, stage |-> open[i].stage]] = Shape(open)
    /\ [i \in DOMAIN open |-> [kind |-> open[i].kind, stage |-> open[i].stage]]'
           = Shape(open')
BY DEF Shape, ShapeOf

LEMMA OutcomeIs ==
    /\ status = "reading" => Outcome = "reading"
    /\ status \in {"crashed", "abandoned"} => Outcome = "failed"
    /\ status = "written" => Outcome = "written"
    /\ status' = "reading" => Outcome' = "reading"
    /\ status' \in {"crashed", "abandoned"} => Outcome' = "failed"
    /\ status' = "written" => Outcome' = "written"
BY DEF Outcome

LEMMA InnermostIs ==
    ASSUME open \in Seq(Element), NEW kind \in {"context", "command"}, Within(kind)
    PROVE  /\ open # <<>> /\ AsDocument!Innermost(kind)
           /\ AsDocument!Stage = Last(open).stage
<1>1. /\ open # <<>> /\ Last(open).kind = kind
  BY DEF Within
<1>2. /\ Len(open) \in Nat /\ Len(open) > 0 /\ Len(Shape(open)) = Len(open)
      /\ Shape(open) # <<>>
      /\ Shape(open)[Len(open)] = ShapeOf(open[Len(open)])
  BY <1>1, EmptySeq, ShapeIs
<1>3. Shape(open)[Len(Shape(open))] = ShapeOf(Last(open))
  BY <1>2 DEF Last
<1> QED
  BY <1>1, <1>2, <1>3, DocumentShown DEF AsDocument!Innermost, AsDocument!Stage, ShapeOf

\* What begins is begun behind what was open before.
LEMMA ReadMaps ==
    ASSUME NEW outer \in Seq(Element), NEW kind \in {"context", "command"},
           NEW name \in Names \cup {NoContext}, Read(outer, kind, name)
    PROVE  Shape(open') = Append(Shape(outer), AsDocument!Begun(kind))
<1> DEFINE e == [kind |-> kind, name |-> name, stage |-> "parameters"]
<1>1. e \in Element /\ ShapeOf(e) = AsDocument!Begun(kind)
  BY DEF Element, ShapeOf, AsDocument!Begun
<1>2. open' = Append(outer, e)
  BY DEF Read
<1> HIDE DEF e
<1> QED
  BY <1>1, <1>2, ShapeOfAppended

LEMMA ContextStartMaps ==
    ASSUME open \in Seq(Element), ContextStart
    PROVE  AsDocument!StartContext
<1>1. CASE open = <<>> /\ Read(open, "context", NoContext)
  <2>1. Shape(open') = Append(Shape(open), AsDocument!Begun("context"))
    BY <1>1, ReadMaps
  <2>2. Shape(open) = <<>>
    BY <1>1 DEF Shape
  <2>3. Append(<<>>, AsDocument!Begun("context")) = <<AsDocument!Begun("context")>>
    OBVIOUS
  <2> QED
    BY <2>1, <2>2, <2>3, DocumentShown DEF AsDocument!StartContext
<1>2. CASE Within("command") /\ Read(Reached("contexts"), "context", NoContext)
  <2>1. AsDocument!Innermost("command") /\ open # <<>>
    BY <1>2, InnermostIs
  <2>2. Reached("contexts") \in Seq(Element)
    BY <2>1, ReachedIsOpen
  <2>3. Shape(open') = Append(Shape(Reached("contexts")), AsDocument!Begun("context"))
    BY <1>2, <2>2, ReadMaps
  <2>4. Shape(Reached("contexts")) = AsDocument!Entering("contexts")
    BY <2>1, ShapeOfReached, DocumentShown DEF AsDocument!Entering
  <2> QED
    BY <2>1, <2>3, <2>4, DocumentShown DEF AsDocument!StartContext
<1> QED
  BY <1>1, <1>2 DEF ContextStart

LEMMA CommandStartMaps ==
    ASSUME open \in Seq(Element), NEW name \in Names, CommandStart(name)
    PROVE  AsDocument!StartCommand
<1>1. CASE Within("context") /\ Read(open, "command", name)
  <2>1. Shape(open') = Append(Shape(open), AsDocument!Begun("command"))
    BY <1>1, ReadMaps
  <2> QED
    BY <1>1, <2>1, InnermostIs, DocumentShown DEF AsDocument!StartCommand
<1>2. CASE /\ Within("command") /\ Last(open).stage # "contexts"
           /\ Read(Reached("commands"), "command", name)
  <2>1. /\ AsDocument!Innermost("command") /\ open # <<>>
        /\ AsDocument!Stage # "contexts"
    BY <1>2, InnermostIs
  <2>2. Reached("commands") \in Seq(Element)
    BY <2>1, ReachedIsOpen
  <2>3. Shape(open') = Append(Shape(Reached("commands")), AsDocument!Begun("command"))
    BY <1>2, <2>2, ReadMaps
  <2>4. Shape(Reached("commands")) = AsDocument!Entering("commands")
    BY <2>1, ShapeOfReached, DocumentShown DEF AsDocument!Entering
  <2> QED
    BY <2>1, <2>3, <2>4, DocumentShown DEF AsDocument!StartCommand
<1> QED
  BY <1>1, <1>2 DEF CommandStart

LEMMA EndMaps ==
    ASSUME open \in Seq(Element), CommandEnd \/ ContextEnd
    PROVE  AsDocument!EndElement
<1>1. open # <<>> /\ open' = Front(open)
  BY DEF CommandEnd, ContextEnd, Within
<1>2. /\ Shape(open') = SubSeq(Shape(open), 1, Len(Shape(open)) - 1)
      /\ Shape(open) # <<>>
  BY <1>1, ShapeOfFront
<1> QED
  BY <1>2, DocumentShown DEF AsDocument!EndElement

LEMMA BuilderStepMaps ==
    ASSUME BuilderInv, [BuilderNext]_builderVars
    PROVE  [AsDocument!DocumentNext]_(AsDocument!documentVars)
<1>0. open \in Seq(Element)
  BY DEF BuilderInv
<1>1. ASSUME status = "reading", status' = "crashed" \/ status' = "abandoned"
      PROVE  AsDocument!DocumentNext
  BY <1>1, OutcomeIs DEF AsDocument!DocumentNext, AsDocument!Failed
<1>2. ASSUME status = "reading", status' = status,
             \/ AsDocument!StartContext \/ AsDocument!StartCommand \/ AsDocument!EndElement
      PROVE  AsDocument!DocumentNext
  BY <1>2, OutcomeIs DEF AsDocument!DocumentNext
<1>3. CASE ContextStart
  <2>1. status = "reading" /\ (status' = status \/ status' = "crashed")
    BY <1>3, CallsReturn DEF ContextStart
  <2> QED
    BY <1>0, <1>1, <1>2, <1>3, <2>1, ContextStartMaps
<1>4. ASSUME NEW name \in Names, CommandStart(name)
      PROVE  AsDocument!DocumentNext
  <2>1. status = "reading" /\ (status' = status \/ status' = "crashed")
    BY <1>4, CallsReturn DEF CommandStart
  <2> QED
    BY <1>0, <1>1, <1>2, <1>4, <2>1, CommandStartMaps
<1>5. CASE CommandEnd \/ ContextEnd
  <2>1. status = "reading" /\ (status' = status \/ status' = "crashed")
    BY <1>5, CallsReturn DEF CommandEnd, ContextEnd
  <2> QED
    BY <1>0, <1>1, <1>2, <1>5, <2>1, EndMaps
<1>6. ASSUME NEW name \in ParamNames \cup {Default}, Parameter(name)
      PROVE  [AsDocument!DocumentNext]_(AsDocument!documentVars)
  <2>1. status = "reading" /\ (status' = status \/ status' = "crashed") /\ open' = open
    BY <1>6, CallsReturn DEF Parameter
  <2>2. CASE status' = status
    BY <2>1, <2>2, DocumentShown DEF AsDocument!documentVars, Outcome
  <2> QED
    BY <1>1, <2>1, <2>2
<1>7. CASE WriteFiles
  <2>1. status = "reading" /\ status' = "written" /\ open = <<>> /\ open' = open
    BY <1>7 DEF WriteFiles, document
  <2>2. Shape(open) = <<>> /\ Shape(open') = Shape(open)
    BY <2>1 DEF Shape
  <2> QED
    BY <2>1, <2>2, OutcomeIs, DocumentShown DEF AsDocument!DocumentNext, AsDocument!Written
<1>8. CASE Abandon
  BY <1>1, <1>8 DEF Abandon
<1>9. CASE UNCHANGED builderVars
  <2>1. open' = open /\ status' = status
    BY <1>9 DEF builderVars, document
  <2> QED
    BY <2>1, DocumentShown DEF AsDocument!documentVars, Outcome
<1> QED
  BY <1>3, <1>4, <1>5, <1>6, <1>7, <1>8, <1>9 DEF BuilderNext

\* The front ends' calls come in the order of a document's elements, whatever the calls
\* return, and tables are written only for a whole document.
THEOREM BuilderReadsDocuments == BuilderSpec => ReadsDocuments
<1>1. BuilderInit => AsDocument!DocumentInit
  <2> SUFFICES ASSUME BuilderInit
               PROVE  AsDocument!DocumentInit
    OBVIOUS
  <2>1. open = <<>> /\ status = "reading"
    BY DEF BuilderInit
  <2>2. Shape(open) = <<>>
    BY <2>1 DEF Shape
  <2> QED
    BY <2>1, <2>2, OutcomeIs, DocumentShown DEF AsDocument!DocumentInit
<1>2. BuilderInv /\ [BuilderNext]_builderVars
          => [AsDocument!DocumentNext]_(AsDocument!documentVars)
  BY BuilderStepMaps
<1> QED
  BY <1>1, <1>2, BuilderInvHolds, PTL DEF BuilderSpec, ReadsDocuments, AsDocument!DocumentSpec

-----------------------------------------------------------------------------
(* The builder is where the document is.                                   *)

SameSoFar(elems, more, n) ==
    \A i \in 1..n : more[i].kind = elems[i].kind /\ more[i].name = elems[i].name

\* Follows, for documents of n open elements and stacks of top contexts.
Stands(elems, n, ctxs, top, cmds, at) ==
    /\ at \in [1..top -> 1..n] /\ at[1] = 1 /\ ctxs[1] = Main
    /\ \A d \in 1..top : elems[at[d]].kind = "context"
    /\ \A i \in 1..n : elems[i].kind = "context" => \E d \in 1..top : at[d] = i
    /\ \A c, d \in 1..top : c < d => at[c] < at[d]
    /\ \A d \in 1..(top - 1) :
           ctxs[d + 1] = ctxs[d] \o FlattenSeq(NamesBetween(elems, at[d], at[d + 1]))
    /\ cmds = NamesBetween(elems, at[top], n + 1)

LEMMA StandsFollows ==
    ASSUME NEW elems \in Seq(Element), NEW n \in Nat, n = Len(elems),
           NEW ctxs \in Seq(Seq(Parts)), NEW top \in Nat, top = Len(ctxs), top > 0,
           NEW cmds, NEW at, Stands(elems, n, ctxs, top, cmds, at)
    PROVE  at \in [DOMAIN ctxs -> DOMAIN elems] /\ Follows(elems, ctxs, cmds, at)
<1>1. DOMAIN ctxs = 1..top /\ DOMAIN elems = 1..n
  OBVIOUS
<1>2. at \in [1..top -> 1..n]
  BY DEF Stands
<1>3. {at[d] : d \in 1..top} = {i \in 1..n : elems[i].kind = "context"}
  <2>1. \A d \in 1..top : at[d] \in 1..n /\ elems[at[d]].kind = "context"
    BY <1>2 DEF Stands
  <2>2. \A i \in 1..n : elems[i].kind = "context" => \E d \in 1..top : at[d] = i
    BY DEF Stands
  <2>3. ASSUME NEW x \in {at[d] : d \in 1..top}
        PROVE  x \in {i \in 1..n : elems[i].kind = "context"}
    <3>1. PICK d \in 1..top : x = at[d]
      OBVIOUS
    <3>2. x \in 1..n /\ elems[x].kind = "context"
      BY <2>1, <3>1
    <3> QED
      BY <3>2
  <2>4. ASSUME NEW x \in {i \in 1..n : elems[i].kind = "context"}
        PROVE  x \in {at[d] : d \in 1..top}
    <3>1. x \in 1..n /\ elems[x].kind = "context"
      OBVIOUS
    <3>2. PICK d \in 1..top : at[d] = x
      BY <2>2, <3>1
    <3> QED
      BY <3>2
  <2> HIDE DEF Stands
  <2> QED
    BY <2>3, <2>4, Zenon
<1>4. ASSUME NEW d \in 1..(top - 1)
      PROVE  at[d] < at[d + 1]
  BY DEF Stands
<1>5. Follows(elems, ctxs, cmds, at)
  BY <1>1, <1>3, <1>4 DEF Follows, Stands
<1> QED
  BY <1>1, <1>2, <1>5

\* What lies between two elements.
LEMMA BetweenIs ==
    ASSUME NEW elems \in Seq(Element), NEW n \in Nat, n = Len(elems),
           NEW i \in 1..n, NEW j \in 1..(n + 1), i < j
    PROVE  /\ NamesBetween(elems, i, j) \in Seq(Names \cup {NoContext})
           /\ Len(NamesBetween(elems, i, j)) = j - i - 1
           /\ \A k \in 1..(j - i - 1) : /\ NamesBetween(elems, i, j)[k] = elems[i + k].name
                                        /\ i + k \in 1..n
<1>1. PICK m \in Nat : m = j - i - 1
  <2>1. j - i - 1 \in Nat
    OBVIOUS
  <2> QED
    BY <2>1
<1>2. \A k \in 1..m : i + k \in 1..n
  BY <1>1
<1>3. \A e \in Element : e.name \in Names \cup {NoContext}
  BY DEF Element
<1>4. \A k \in 1..m : elems[i + k].name \in Names \cup {NoContext}
  <2> TAKE k \in 1..m
  <2>1. i + k \in 1..Len(elems)
    BY <1>2
  <2>2. elems[i + k] \in Element
    BY <2>1, ElementOfSeq
  <2> QED
    BY <1>3, <2>2
<1>5. NamesBetween(elems, i, j) = [k \in 1..m |-> elems[i + k].name]
  BY <1>1 DEF NamesBetween
<1> QED
  BY <1>1, <1>2, <1>4, <1>5

LEMMA BetweenSame ==
    ASSUME NEW elems, NEW more, NEW n \in Nat, SameSoFar(elems, more, n),
           NEW i \in 1..n, NEW j \in 1..(n + 1)
    PROVE  NamesBetween(more, i, j) = NamesBetween(elems, i, j)
<1>1. \A k \in 1..(j - i - 1) : more[i + k].name = elems[i + k].name
  <2> TAKE k \in 1..(j - i - 1)
  <2>1. i + k \in 1..n
    OBVIOUS
  <2> QED
    BY <2>1 DEF SameSoFar
<1> QED
  BY <1>1 DEF NamesBetween

LEMMA BetweenGrows ==
    ASSUME NEW elems \in Seq(Element), NEW n \in Nat, n = Len(elems),
           NEW more, SameSoFar(elems, more, n), NEW i \in 1..n
    PROVE  NamesBetween(more, i, n + 2)
               = Append(NamesBetween(elems, i, n + 1), more[n + 1].name)
<1>1. PICK m \in Nat : m = n - i
  <2>1. n - i \in Nat
    OBVIOUS
  <2> QED
    BY <2>1
<1>2. PICK names : names = NamesBetween(elems, i, n + 1)
  OBVIOUS
<1>3. PICK name : name = more[n + 1].name
  OBVIOUS
<1>4. /\ names \in Seq(Names \cup {NoContext}) /\ Len(names) = m
      /\ \A k \in 1..m : names[k] = elems[i + k].name /\ i + k \in 1..n
  <2>1. n + 1 \in 1..(n + 1) /\ i < n + 1 /\ (n + 1) - i - 1 = m
    BY <1>1
  <2> QED
    BY <1>2, <2>1, BetweenIs
<1>5. Append(names, name) = [k \in 1..(m + 1) |-> IF k = m + 1 THEN name ELSE names[k]]
  BY <1>4, AppendIs
<1>6. NamesBetween(more, i, n + 2) = [k \in 1..(m + 1) |-> more[i + k].name]
  <2>1. (n + 2) - i - 1 = m + 1
    BY <1>1
  <2> QED
    BY <2>1 DEF NamesBetween
<1>7. ASSUME NEW k \in 1..(m + 1)
      PROVE  more[i + k].name = IF k = m + 1 THEN name ELSE names[k]
  <2>1. CASE k = m + 1
    <3>1. i + k = n + 1
      BY <1>1, <2>1
    <3> QED
      BY <1>3, <2>1, <3>1
  <2>2. CASE k # m + 1
    <3>1. k \in 1..m
      BY <2>2
    <3>2. names[k] = elems[i + k].name /\ i + k \in 1..n
      BY <1>4, <3>1
    <3>3. more[i + k].name = elems[i + k].name
      BY <3>2 DEF SameSoFar
    <3> QED
      BY <2>2, <3>2, <3>3
  <2> QED
    BY <2>1, <2>2
<1>8. NamesBetween(more, i, n + 2) = Append(names, name)
  BY <1>5, <1>6, <1>7, Zenon
<1> QED
  BY <1>2, <1>3, <1>8

LEMMA BetweenShrinks ==
    ASSUME NEW elems \in Seq(Element), NEW n \in Nat, n + 1 = Len(elems),
           NEW i \in 1..n
    PROVE  /\ NamesBetween(elems, i, n + 2) # <<>>
           /\ Front(NamesBetween(elems, i, n + 2)) = NamesBetween(elems, i, n + 1)
<1>1. PICK m \in Nat : m = n - i
  <2>1. n - i \in Nat
    OBVIOUS
  <2> QED
    BY <2>1
<1>2. PICK all : all = NamesBetween(elems, i, n + 2)
  OBVIOUS
<1>3. PICK names : names = NamesBetween(elems, i, n + 1)
  OBVIOUS
<1> DEFINE S == Names \cup {NoContext}
<1>4. /\ all \in Seq(S) /\ Len(all) = m + 1
      /\ \A k \in 1..(m + 1) : all[k] = elems[i + k].name
  <2>1. PICK len \in Nat, j \in Nat : len = n + 1 /\ j = n + 2
    OBVIOUS
  <2>2. len = Len(elems) /\ i \in 1..len /\ j \in 1..(len + 1) /\ i < j /\ j - i - 1 = m + 1
    BY <1>1, <2>1
  <2>3. /\ NamesBetween(elems, i, j) \in Seq(Names \cup {NoContext})
        /\ Len(NamesBetween(elems, i, j)) = j - i - 1
        /\ \A k \in 1..(j - i - 1) : NamesBetween(elems, i, j)[k] = elems[i + k].name
    BY <2>2, BetweenIs
  <2> QED
    BY <1>2, <2>1, <2>2, <2>3
<1>5. /\ names \in Seq(S) /\ Len(names) = m
      /\ \A k \in 1..m : names[k] = elems[i + k].name
  <2>1. PICK len \in Nat, j \in Nat : len = n + 1 /\ j = n + 1
    OBVIOUS
  <2>2. len = Len(elems) /\ i \in 1..len /\ j \in 1..(len + 1) /\ i < j /\ j - i - 1 = m
    BY <1>1, <2>1
  <2>3. /\ NamesBetween(elems, i, j) \in Seq(Names \cup {NoContext})
        /\ Len(NamesBetween(elems, i, j)) = j - i - 1
        /\ \A k \in 1..(j - i - 1) : NamesBetween(elems, i, j)[k] = elems[i + k].name
    BY <2>2, BetweenIs
  <2> QED
    BY <1>3, <2>1, <2>2, <2>3
<1> HIDE DEF S
<1>6. all # <<>> /\ (m + 1) - 1 = m
  BY <1>4
<1>7. /\ Front(all) \in Seq(S) /\ Len(Front(all)) = m
      /\ \A k \in 1..m : Front(all)[k] = all[k]
  BY <1>4, <1>6, FrontIs
<1>8. \A k \in 1..m : Front(all)[k] = names[k]
  <2> TAKE k \in 1..m
  <2>1. Front(all)[k] = all[k]
    BY <1>7
  <2>2. all[k] = elems[i + k].name
    BY <1>4
  <2>3. names[k] = elems[i + k].name
    BY <1>5
  <2> QED
    BY <2>1, <2>2, <2>3
<1>9. Front(all) = names
  BY <1>5, <1>7, <1>8, SeqEqual
<1> QED
  BY <1>2, <1>3, <1>6, <1>9

-----------------------------------------------------------------------------
(* One element more, or one less.                                          *)

LEMMA ContextStands ==
    ASSUME NEW elems \in Seq(Element), NEW n \in Nat, n = Len(elems), n > 0,
           NEW ctxs, NEW top \in Nat, top > 0, NEW cmds, NEW at,
           Stands(elems, n, ctxs, top, cmds, at),
           NEW more, SameSoFar(elems, more, n), more[n + 1].kind = "context",
           NEW paths, \A d \in 1..top : paths[d] = ctxs[d],
           paths[top + 1] = ctxs[top] \o FlattenSeq(cmds)
    PROVE  \E places : Stands(more, n + 1, paths, top + 1, <<>>, places)
<1> DEFINE places == [d \in 1..(top + 1) |-> IF d = top + 1 THEN n + 1 ELSE at[d]]
<1>1. at \in [1..top -> 1..n] /\ at[1] = 1 /\ ctxs[1] = Main
  BY DEF Stands
<1>2. /\ \A d \in 1..top : places[d] = at[d] /\ at[d] \in 1..n
      /\ places[top + 1] = n + 1
      /\ places \in [1..(top + 1) -> 1..(n + 1)]
  BY <1>1
<1> HIDE DEF places
<1>3. places[1] = 1 /\ paths[1] = Main
  <2>1. 1 \in 1..top
    OBVIOUS
  <2> QED
    BY <1>1, <1>2, <2>1
<1>4. ASSUME NEW d \in 1..(top + 1)
      PROVE  more[places[d]].kind = "context"
  <2>1. CASE d = top + 1
    BY <1>2, <2>1
  <2>2. CASE d # top + 1
    <3>1. d \in 1..top
      BY <2>2
    <3>2. elems[at[d]].kind = "context"
      BY <3>1 DEF Stands
    <3>3. places[d] = at[d] /\ at[d] \in 1..n
      BY <1>2, <3>1
    <3> QED
      BY <3>2, <3>3 DEF SameSoFar
  <2> QED
    BY <2>1, <2>2
<1>5. ASSUME NEW i \in 1..(n + 1), more[i].kind = "context"
      PROVE  \E d \in 1..(top + 1) : places[d] = i
  <2>1. CASE i = n + 1
    <3>1. top + 1 \in 1..(top + 1)
      OBVIOUS
    <3> QED
      BY <1>2, <2>1, <3>1
  <2>2. CASE i # n + 1
    <3>1. i \in 1..n
      BY <2>2
    <3>2. elems[i].kind = "context"
      BY <1>5, <3>1 DEF SameSoFar
    <3>3. PICK d \in 1..top : at[d] = i
      BY <3>1, <3>2 DEF Stands
    <3>4. d \in 1..(top + 1)
      OBVIOUS
    <3> QED
      BY <1>2, <3>3, <3>4
  <2> QED
    BY <2>1, <2>2
<1>6. ASSUME NEW c \in 1..(top + 1), NEW d \in 1..(top + 1), c < d
      PROVE  places[c] < places[d]
  <2>1. c \in 1..top /\ places[c] = at[c] /\ at[c] \in 1..n
    BY <1>2, <1>6
  <2>2. CASE d = top + 1
    BY <1>2, <2>1, <2>2
  <2>3. CASE d # top + 1
    <3>1. d \in 1..top
      BY <2>3
    <3>2. at[c] < at[d]
      BY <1>6, <2>1, <3>1 DEF Stands
    <3> QED
      BY <1>2, <2>1, <3>1, <3>2
  <2> QED
    BY <2>2, <2>3
<1>7. ASSUME NEW d \in 1..top
      PROVE  paths[d + 1] = paths[d] \o FlattenSeq(NamesBetween(more, places[d], places[d + 1]))
  <2>1. paths[d] = ctxs[d] /\ places[d] = at[d] /\ at[d] \in 1..n
    BY <1>2
  <2>2. CASE d = top
    <3>1. NamesBetween(more, at[top], n + 1) = NamesBetween(elems, at[top], n + 1)
      <4>1. at[top] \in 1..n /\ n + 1 \in 1..(n + 1)
        BY <2>1, <2>2
      <4> QED
        BY <4>1, BetweenSame
    <3>2. cmds = NamesBetween(elems, at[top], n + 1)
      BY DEF Stands
    <3> QED
      BY <1>2, <2>1, <2>2, <3>1, <3>2
  <2>3. CASE d # top
    <3>1. d \in 1..(top - 1) /\ d + 1 \in 1..top
      BY <2>3
    <3>2. PICK next : next = d + 1
      OBVIOUS
    <3>3. places[next] = at[next] /\ at[next] \in 1..n /\ paths[next] = ctxs[next]
      BY <1>2, <3>1, <3>2
    <3>4. NamesBetween(more, at[d], at[next]) = NamesBetween(elems, at[d], at[next])
      <4>1. at[next] \in 1..(n + 1)
        BY <3>3
      <4> QED
        BY <2>1, <4>1, BetweenSame
    <3>5. ctxs[next] = ctxs[d] \o FlattenSeq(NamesBetween(elems, at[d], at[next]))
      BY <3>1, <3>2 DEF Stands
    <3> QED
      BY <2>1, <3>2, <3>3, <3>4, <3>5
  <2> QED
    BY <2>2, <2>3
<1>8. <<>> = NamesBetween(more, places[top + 1], (n + 1) + 1)
  <2>1. ((n + 1) + 1) - (n + 1) - 1 = 0
    OBVIOUS
  <2>2. NamesBetween(more, n + 1, (n + 1) + 1) = [k \in 1..0 |-> more[(n + 1) + k].name]
    BY <2>1 DEF NamesBetween
  <2>3. [k \in 1..0 |-> more[(n + 1) + k].name] = <<>>
    OBVIOUS
  <2> QED
    BY <1>2, <2>2, <2>3
<1>9. \A d \in 1..((top + 1) - 1) :
          paths[d + 1] = paths[d] \o FlattenSeq(NamesBetween(more, places[d], places[d + 1]))
  <2>1. (top + 1) - 1 = top
    OBVIOUS
  <2> QED
    BY <1>7, <2>1
<1>10. Stands(more, n + 1, paths, top + 1, <<>>, places)
  BY <1>2, <1>3, <1>4, <1>5, <1>6, <1>8, <1>9 DEF Stands
<1> QED
  BY <1>10

LEMMA CommandStands ==
    ASSUME NEW elems \in Seq(Element), NEW n \in Nat, n = Len(elems), n > 0,
           NEW ctxs, NEW top \in Nat, top > 0, NEW cmds, NEW at,
           Stands(elems, n, ctxs, top, cmds, at),
           NEW more, SameSoFar(elems, more, n), more[n + 1].kind # "context"
    PROVE  Stands(more, n + 1, ctxs, top, Append(cmds, more[n + 1].name), at)
<1>1. at \in [1..top -> 1..n] /\ at[1] = 1 /\ ctxs[1] = Main
      /\ \A d \in 1..top : at[d] \in 1..n /\ elems[at[d]].kind = "context"
  BY DEF Stands
<1>2. at \in [1..top -> 1..(n + 1)]
  BY <1>1
<1>3. \A d \in 1..top : more[at[d]].kind = "context"
  BY <1>1 DEF SameSoFar
<1>4. ASSUME NEW i \in 1..(n + 1), more[i].kind = "context"
      PROVE  \E d \in 1..top : at[d] = i
  <2>1. i \in 1..n
    <3>1. i # n + 1
      BY <1>4
    <3> QED
      BY <3>1
  <2>2. elems[i].kind = "context"
    BY <1>4, <2>1 DEF SameSoFar
  <2> QED
    BY <2>1, <2>2 DEF Stands
<1>5. ASSUME NEW d \in 1..(top - 1)
      PROVE  ctxs[d + 1] = ctxs[d] \o FlattenSeq(NamesBetween(more, at[d], at[d + 1]))
  <2>1. PICK next : next = d + 1 /\ next \in 1..top /\ d \in 1..top
    OBVIOUS
  <2>2. at[d] \in 1..n /\ at[next] \in 1..(n + 1)
    BY <1>1, <1>2, <2>1
  <2>3. NamesBetween(more, at[d], at[next]) = NamesBetween(elems, at[d], at[next])
    BY <2>2, BetweenSame
  <2>4. ctxs[next] = ctxs[d] \o FlattenSeq(NamesBetween(elems, at[d], at[next]))
    BY <2>1 DEF Stands
  <2> QED
    BY <2>1, <2>3, <2>4
<1>6. Append(cmds, more[n + 1].name) = NamesBetween(more, at[top], (n + 1) + 1)
  <2>1. at[top] \in 1..n /\ (n + 1) + 1 = n + 2
    BY <1>1
  <2>2. cmds = NamesBetween(elems, at[top], n + 1)
    BY DEF Stands
  <2>3. NamesBetween(more, at[top], n + 2)
            = Append(NamesBetween(elems, at[top], n + 1), more[n + 1].name)
    BY <2>1, BetweenGrows
  <2> QED
    BY <2>1, <2>2, <2>3
<1>7. \A c, d \in 1..top : c < d => at[c] < at[d]
  BY DEF Stands
<1> QED
  BY <1>1, <1>2, <1>3, <1>4, <1>5, <1>6, <1>7 DEF Stands

\* The end of a command.
LEMMA CommandEndStands ==
    ASSUME NEW elems \in Seq(Element), NEW n \in Nat, n + 1 = Len(elems),
           NEW ctxs, NEW top \in Nat, top > 0, NEW cmds, NEW at,
           Stands(elems, n + 1, ctxs, top, cmds, at), elems[n + 1].kind # "context",
           NEW less, SameSoFar(elems, less, n)
    PROVE  cmds # <<>> /\ n > 0 /\ Stands(less, n, ctxs, top, Front(cmds), at)
<1>1. at \in [1..top -> 1..(n + 1)] /\ at[1] = 1 /\ ctxs[1] = Main
      /\ \A d \in 1..top : at[d] \in 1..(n + 1) /\ elems[at[d]].kind = "context"
  BY DEF Stands
<1>2. \A d \in 1..top : at[d] \in 1..n
  <2> TAKE d \in 1..top
  <2>1. at[d] \in 1..(n + 1) /\ at[d] # n + 1
    BY <1>1
  <2> QED
    BY <2>1
<1>3. at \in [1..top -> 1..n] /\ n > 0
  <2>1. 1 \in 1..top
    OBVIOUS
  <2> QED
    BY <1>1, <1>2, <2>1
<1>4. \A d \in 1..top : less[at[d]].kind = "context"
  BY <1>1, <1>2 DEF SameSoFar
<1>5. ASSUME NEW i \in 1..n, less[i].kind = "context"
      PROVE  \E d \in 1..top : at[d] = i
  <2>1. elems[i].kind = "context" /\ i \in 1..(n + 1)
    BY <1>5 DEF SameSoFar
  <2> QED
    BY <2>1 DEF Stands
<1>6. ASSUME NEW d \in 1..(top - 1)
      PROVE  ctxs[d + 1] = ctxs[d] \o FlattenSeq(NamesBetween(less, at[d], at[d + 1]))
  <2>1. PICK next : next = d + 1 /\ next \in 1..top /\ d \in 1..top
    OBVIOUS
  <2>2. at[d] \in 1..n /\ at[next] \in 1..(n + 1)
    BY <1>1, <1>2, <2>1
  <2>3. NamesBetween(less, at[d], at[next]) = NamesBetween(elems, at[d], at[next])
    BY <2>2, BetweenSame
  <2>4. ctxs[next] = ctxs[d] \o FlattenSeq(NamesBetween(elems, at[d], at[next]))
    BY <2>1 DEF Stands
  <2> QED
    BY <2>1, <2>3, <2>4
<1>7. cmds # <<>> /\ Front(cmds) = NamesBetween(less, at[top], n + 1)
  <2>1. at[top] \in 1..n /\ (n + 1) + 1 = n + 2 /\ n + 1 \in 1..(n + 1)
    BY <1>2, <1>3
  <2>2. cmds = NamesBetween(elems, at[top], n + 2)
    BY <2>1 DEF Stands
  <2>3. /\ NamesBetween(elems, at[top], n + 2) # <<>>
        /\ Front(NamesBetween(elems, at[top], n + 2)) = NamesBetween(elems, at[top], n + 1)
    BY <2>1, BetweenShrinks
  <2>4. NamesBetween(less, at[top], n + 1) = NamesBetween(elems, at[top], n + 1)
    BY <2>1, BetweenSame
  <2> QED
    BY <2>2, <2>3, <2>4
<1>8. \A c, d \in 1..top : c < d => at[c] < at[d]
  BY DEF Stands
<1> QED
  BY <1>1, <1>3, <1>4, <1>5, <1>6, <1>7, <1>8 DEF Stands

\* The end of the outermost context.
LEMMA LastContextStands ==
    ASSUME NEW elems, NEW n \in Nat, NEW ctxs, NEW cmds, NEW at,
           Stands(elems, n + 1, ctxs, 1, cmds, at), elems[n + 1].kind = "context"
    PROVE  n = 0 /\ cmds = <<>>
<1>1. PICK d \in 1..1 : at[d] = n + 1
  <2>1. n + 1 \in 1..(n + 1)
    OBVIOUS
  <2> QED
    BY <2>1 DEF Stands
<1>2. at[1] = n + 1 /\ at[1] = 1
  BY <1>1 DEF Stands
<1>3. n = 0
  BY <1>2
<1>4. cmds = [k \in 1..(((n + 1) + 1) - (n + 1) - 1) |-> elems[(n + 1) + k].name]
  BY <1>2 DEF Stands, NamesBetween
<1>5. ((n + 1) + 1) - (n + 1) - 1 = 0
  OBVIOUS
<1> QED
  BY <1>3, <1>4, <1>5

\* The end of a context in another one: less are the elements without the m-th, paths the
\* contexts without the t-th, and the commands are those between the two contexts.
SamePaths(ctxs, paths, top) == \A d \in 1..top : paths[d] = ctxs[d]

InnerContextLeft(elems, m, ctxs, t, cmds, at, less, n, paths, top) ==
    /\ n \in Nat /\ m = n + 1 /\ m = Len(elems) /\ top \in Nat /\ top > 0 /\ t = top + 1
    /\ Stands(elems, m, ctxs, t, cmds, at) /\ elems[m].kind = "context"
    /\ SameSoFar(elems, less, n) /\ SamePaths(ctxs, paths, top)

BackInOuterContext(elems, m, ctxs, t, at, less, n, paths, top) ==
    /\ n > 0
    /\ \E places : Stands(less, n, paths, top, NamesBetween(elems, at[top], m), places)
    /\ ctxs[t] = ctxs[top] \o FlattenSeq(NamesBetween(elems, at[top], m))
    /\ at[top] \in 1..n

LEMMA ContextEndStands ==
    ASSUME NEW elems \in Seq(Element), NEW n, NEW m, NEW ctxs, NEW top, NEW t, NEW cmds,
           NEW at, NEW less, NEW paths,
           InnerContextLeft(elems, m, ctxs, t, cmds, at, less, n, paths, top)
    PROVE  BackInOuterContext(elems, m, ctxs, t, at, less, n, paths, top)
<1> n \in Nat /\ top \in Nat /\ top > 0 /\ m = n + 1 /\ t = top + 1
  BY DEF InnerContextLeft
<1>0. /\ n + 1 = Len(elems) /\ Stands(elems, n + 1, ctxs, top + 1, cmds, at)
      /\ elems[n + 1].kind = "context" /\ \A d \in 1..top : paths[d] = ctxs[d]
      /\ SameSoFar(elems, less, n)
  BY DEF SamePaths, InnerContextLeft
<1> USE <1>0
<1> DEFINE places == [d \in 1..top |-> at[d]]
<1>1. at \in [1..(top + 1) -> 1..(n + 1)] /\ at[1] = 1 /\ ctxs[1] = Main
      /\ \A d \in 1..(top + 1) : at[d] \in 1..(n + 1) /\ elems[at[d]].kind = "context"
  BY DEF Stands
<1>2. at[top + 1] = n + 1
  <2>1. n + 1 \in 1..(n + 1)
    OBVIOUS
  <2>2. PICK d \in 1..(top + 1) : at[d] = n + 1
    BY <2>1 DEF Stands
  <2>3. d = top + 1
    <3> SUFFICES ASSUME d # top + 1
                 PROVE  FALSE
      OBVIOUS
    <3>1. d < top + 1 /\ top + 1 \in 1..(top + 1)
      OBVIOUS
    <3>2. at[d] < at[top + 1]
      BY <3>1 DEF Stands
    <3>3. at[top + 1] \in 1..(n + 1)
      BY <1>1, <3>1
    <3> QED
      BY <2>2, <3>2, <3>3
  <2> QED
    BY <2>2, <2>3
<1>3. ASSUME NEW d \in 1..top
      PROVE  places[d] = at[d] /\ at[d] \in 1..n
  <2>1. d \in 1..(top + 1) /\ top + 1 \in 1..(top + 1) /\ d < top + 1
    OBVIOUS
  <2>2. at[d] < at[top + 1]
    BY <2>1 DEF Stands
  <2>3. at[d] \in 1..(n + 1)
    BY <1>1, <2>1
  <2>4. at[d] \in 1..n
    BY <1>2, <2>2, <2>3
  <2> QED
    BY <2>4
<1>4. places \in [1..top -> 1..n]
  BY <1>3
<1> HIDE DEF places
<1>5. top \in 1..top /\ 1 \in 1..top
  OBVIOUS
<1>6. places[1] = 1 /\ paths[1] = Main /\ n > 0
  BY <1>1, <1>3, <1>5
<1>7. \A d \in 1..top : less[places[d]].kind = "context"
  <2> TAKE d \in 1..top
  <2>1. elems[at[d]].kind = "context"
    BY <1>1
  <2> QED
    BY <1>3, <2>1 DEF SameSoFar
<1>8. ASSUME NEW i \in 1..n, less[i].kind = "context"
      PROVE  \E d \in 1..top : places[d] = i
  <2>1. elems[i].kind = "context" /\ i \in 1..(n + 1)
    BY <1>8 DEF SameSoFar
  <2>2. PICK d \in 1..(top + 1) : at[d] = i
    BY <2>1 DEF Stands
  <2>3. d \in 1..top
    <3>1. d # top + 1
      BY <1>2, <2>2
    <3> QED
      BY <3>1
  <2> QED
    BY <1>3, <2>2, <2>3
<1>9. ASSUME NEW c \in 1..top, NEW d \in 1..top, c < d
      PROVE  places[c] < places[d]
  <2>1. c \in 1..(top + 1) /\ d \in 1..(top + 1)
    OBVIOUS
  <2>2. at[c] < at[d]
    BY <1>9, <2>1 DEF Stands
  <2> QED
    BY <1>3, <2>2
<1>10. ASSUME NEW d \in 1..(top - 1)
       PROVE  paths[d + 1] = paths[d] \o FlattenSeq(NamesBetween(less, places[d], places[d + 1]))
  <2>1. PICK next : next = d + 1 /\ next \in 1..top /\ d \in 1..top
    OBVIOUS
  <2>2. /\ at[d] \in 1..n /\ at[next] \in 1..n /\ at[next] \in 1..(n + 1)
        /\ places[d] = at[d] /\ places[next] = at[next]
    BY <1>3, <2>1
  <2>3. NamesBetween(less, at[d], at[next]) = NamesBetween(elems, at[d], at[next])
    BY <2>2, BetweenSame
  <2>4. ctxs[next] = ctxs[d] \o FlattenSeq(NamesBetween(elems, at[d], at[next]))
    <3>1. d \in 1..((top + 1) - 1)
      OBVIOUS
    <3> QED
      BY <2>1, <3>1 DEF Stands
  <2>5. paths[d] = ctxs[d] /\ paths[next] = ctxs[next]
    BY <2>1
  <2> QED
    BY <2>1, <2>2, <2>3, <2>4, <2>5
<1>11. places[top] = at[top] /\ at[top] \in 1..n
  BY <1>3, <1>5
<1>12. NamesBetween(elems, at[top], n + 1) = NamesBetween(less, places[top], n + 1)
  <2>1. n + 1 \in 1..(n + 1)
    OBVIOUS
  <2> QED
    BY <1>11, <2>1, BetweenSame
<1>13. Stands(less, n, paths, top, NamesBetween(elems, at[top], n + 1), places)
  BY <1>4, <1>6, <1>7, <1>8, <1>9, <1>10, <1>12 DEF Stands
<1>14. ctxs[top + 1] = ctxs[top] \o FlattenSeq(NamesBetween(elems, at[top], n + 1))
  <2>1. top \in 1..((top + 1) - 1)
    OBVIOUS
  <2>2. ctxs[top + 1] = ctxs[top] \o FlattenSeq(NamesBetween(elems, at[top], at[top + 1]))
    BY <2>1 DEF Stands
  <2> QED
    BY <1>2, <2>2
<1> QED
  BY <1>6, <1>11, <1>13, <1>14 DEF BackInOuterContext

-----------------------------------------------------------------------------
(* What each call does to the position.                                    *)

\* The commands that are open are there.
OpenNamesKnown ==
    \A i \in 1..Len(open) : open[i].kind = "command" =>
        \E key \in Keys : \E j \in 1..Len(key[2]) : key[2][j] = open[i].name

AtItsPlace ==
    /\ OpenNamesKnown
    /\ open = <<>> => stCtxs = <<>> /\ lstCmds = <<>>
    /\ open # <<>> =>
           /\ stCtxs # <<>>
           /\ \E at : Stands(open, Len(open), stCtxs, Len(stCtxs), lstCmds, at)

PositionInv == errors = 0 /\ status # "crashed" /\ PlainNames => AtItsPlace

\* Counting the errors, none can be taken back.
Succeeds == errors' = 0 /\ status' # "crashed"

LEMMA NotRefused ==
    ASSUME errors \in Nat, Succeeds
    PROVE  ~Refuse /\ ~Crash /\ errors' # errors + 1
BY DEF Succeeds, Refuse, Crash

LEMMA ReachedSame ==
    ASSUME open \in Seq(Element), open # <<>>,
           NEW stage \in {"parameters", "commands", "contexts"}
    PROVE  SameSoFar(open, Reached(stage), Len(open))
<1>1. PICK n \in Nat : n = Len(open) /\ n > 0
  BY EmptySeq
<1>2. \A i \in 1..n : Reached(stage)[i] =
          IF i = n THEN [open[i] EXCEPT !.stage = stage] ELSE open[i]
  BY <1>1, ReachedIsOpen
<1>3. ASSUME NEW i \in 1..n
      PROVE  Reached(stage)[i].kind = open[i].kind /\ Reached(stage)[i].name = open[i].name
  <2>1. PICK e \in Element : e = open[i]
    BY <1>1, ElementOfSeq
  <2>2. [e EXCEPT !.stage = stage].kind = e.kind /\ [e EXCEPT !.stage = stage].name = e.name
    BY DEF Element
  <2> QED
    BY <1>2, <2>1, <2>2
<1> QED
  BY <1>1, <1>3 DEF SameSoFar

LEMMA ReadIs ==
    ASSUME open \in Seq(Element), NEW outer \in Seq(Element), Len(outer) = Len(open),
           SameSoFar(open, outer, Len(open)), NEW kind \in {"context", "command"},
           NEW name \in Names \cup {NoContext}, Read(outer, kind, name)
    PROVE  /\ open' \in Seq(Element) /\ Len(open') = Len(open) + 1
           /\ SameSoFar(open, open', Len(open))
           /\ open'[Len(open) + 1].kind = kind /\ open'[Len(open) + 1].name = name
<1>1. PICK e \in Element : e = [kind |-> kind, name |-> name, stage |-> "parameters"]
  BY DEF Element
<1>2. open' = Append(outer, e)
  BY <1>1 DEF Read
<1>3. PICK n \in Nat : n = Len(open) /\ n = Len(outer)
  OBVIOUS
<1>4. PICK more : more = Append(outer, e)
  OBVIOUS
<1>5. /\ more \in Seq(Element) /\ Len(more) = n + 1 /\ more[n + 1] = e
      /\ \A i \in 1..n : more[i] = outer[i]
  BY <1>3, <1>4, AppendProperties
<1>6. SameSoFar(open, more, n)
  BY <1>3, <1>5 DEF SameSoFar
<1>7. e.kind = kind /\ e.name = name
  BY <1>1
<1> QED
  BY <1>2, <1>3, <1>4, <1>5, <1>6, <1>7

LEMMA ContextBegins ==
    ASSUME open \in Seq(Element), ContextStart
    PROVE  /\ open' \in Seq(Element) /\ Len(open') = Len(open) + 1
           /\ SameSoFar(open, open', Len(open))
           /\ open'[Len(open) + 1].kind = "context"
<1>1. CASE open = <<>> /\ Read(open, "context", NoContext)
  BY <1>1, ReadIs DEF SameSoFar
<1>2. CASE Within("command") /\ Read(Reached("contexts"), "context", NoContext)
  <2>1. open # <<>>
    BY <1>2 DEF Within
  <2>2. /\ Reached("contexts") \in Seq(Element) /\ Len(Reached("contexts")) = Len(open)
        /\ SameSoFar(open, Reached("contexts"), Len(open))
    BY <2>1, ReachedIsOpen, ReachedSame
  <2> QED
    BY <1>2, <2>2, ReadIs
<1> QED
  BY <1>1, <1>2 DEF ContextStart

LEMMA CommandBegins ==
    ASSUME open \in Seq(Element), NEW name \in Names, CommandStart(name)
    PROVE  /\ open # <<>>
           /\ open' \in Seq(Element) /\ Len(open') = Len(open) + 1
           /\ SameSoFar(open, open', Len(open))
           /\ open'[Len(open) + 1].kind = "command" /\ open'[Len(open) + 1].name = name
<1>1. CASE Within("context") /\ Read(open, "command", name)
  <2>1. SameSoFar(open, open, Len(open)) /\ open # <<>>
    BY <1>1 DEF SameSoFar, Within
  <2> QED
    BY <1>1, <2>1, ReadIs
<1>2. CASE Within("command") /\ Read(Reached("commands"), "command", name)
  <2>1. open # <<>>
    BY <1>2 DEF Within
  <2>2. /\ Reached("commands") \in Seq(Element) /\ Len(Reached("commands")) = Len(open)
        /\ SameSoFar(open, Reached("commands"), Len(open))
    BY <2>1, ReachedIsOpen, ReachedSame
  <2> QED
    BY <1>2, <2>1, <2>2, ReadIs
<1> QED
  BY <1>1, <1>2 DEF CommandStart

\* Names stay known as long as commands only come, whatever element begins or ends.
LEMMA NamesStayKnown ==
    ASSUME open \in Seq(Element), OpenNamesKnown, Keys \subseteq Keys',
           NEW n \in Nat, n = Len(open), SameSoFar(open, open', n), Len(open') = n + 1,
           open'[n + 1].kind = "command" =>
               \E key \in Keys' : \E j \in 1..Len(key[2]) : key[2][j] = open'[n + 1].name
    PROVE  OpenNamesKnown'
<1>1. ASSUME NEW i \in 1..(n + 1), open'[i].kind = "command"
      PROVE  \E key \in Keys' : \E j \in 1..Len(key[2]) : key[2][j] = open'[i].name
  <2>1. CASE i = n + 1
    BY <1>1, <2>1
  <2>2. CASE i # n + 1
    <3>1. i \in 1..n
      BY <2>2
    <3>2. open[i].kind = "command" /\ open[i].name = open'[i].name
      BY <1>1, <3>1 DEF SameSoFar
    <3> QED
      BY <3>1, <3>2 DEF OpenNamesKnown
  <2> QED
    BY <2>1, <2>2
<1> QED
  BY <1>1 DEF OpenNamesKnown

LEMMA NamesStayKnownBehindEnd ==
    ASSUME open \in Seq(Element), open # <<>>, OpenNamesKnown, Keys' = Keys,
           open' = Front(open)
    PROVE  OpenNamesKnown'
<1>1. PICK n \in Nat : /\ n + 1 = Len(open) /\ Len(open') = n
                       /\ \A i \in 1..n : open'[i] = open[i]
  <2>1. Len(open) - 1 \in Nat /\ (Len(open) - 1) + 1 = Len(open)
    BY FrontIs
  <2> QED
    BY <2>1, FrontIs
<1>2. \A i \in 1..n : i \in 1..Len(open)
  BY <1>1
<1> QED
  BY <1>1, <1>2 DEF OpenNamesKnown

\* Keys are only looked at by their names.
LEMMA SubContextKeepsKeys ==
    ASSUME SubContext
    PROVE  Keys' = Keys
BY DEF SubContext, Keys, tree

LEMMA SomethingIn ==
    ASSUME NEW s, Len(s) = 1
    PROVE  s # <<>>
<1> SUFFICES ASSUME s = <<>>
             PROVE  FALSE
  OBVIOUS
<1>1. Len(<<>>) = 0
  OBVIOUS
<1> QED
  BY <1>1

LEMMA FirstContextPlaced ==
    ASSUME CoreInv, open \in Seq(Element), AtItsPlace, ContextStart, FirstContext
    PROVE  AtItsPlace'
<1>1. stCtxs = <<>>
  <2> SUFFICES ASSUME stCtxs # <<>>
               PROVE  FALSE
    OBVIOUS
  <2>1. Here \in DOMAIN mapCtx
    BY HereIsKnown DEF CoreInv
  <2>2. mapCtx = <<>>
    BY DEF FirstContext
  <2> QED
    BY <2>1, <2>2
<1>2. open = <<>> /\ lstCmds = <<>>
  BY <1>1 DEF AtItsPlace
<1>3. lstCmds' = <<>> /\ stCtxs' = <<Main>>
  BY <1>1, <1>2 DEF FirstContext
<1>4. PICK more : more = open'
  OBVIOUS
<1>5. more \in Seq(Element) /\ Len(more) = 1 /\ more[1].kind = "context"
  BY <1>2, <1>4, ContextBegins
<1>6. OpenNamesKnown'
  BY <1>4, <1>5 DEF OpenNamesKnown
<1>7. PICK at : at = [d \in 1..1 |-> 1]
  OBVIOUS
<1>8. PICK ctxs : ctxs = <<Main>>
  OBVIOUS
<1>9. NamesBetween(more, 1, 2) = <<>>
  BY DEF NamesBetween
<1>10. at \in [1..1 -> 1..1] /\ at[1] = 1 /\ ctxs[1] = Main
  BY <1>7, <1>8
<1>11. Stands(more, 1, ctxs, 1, <<>>, at)
  BY <1>5, <1>9, <1>10 DEF Stands
<1>12. Len(open') = 1 /\ Len(stCtxs') = 1 /\ open' # <<>> /\ stCtxs' # <<>>
  <2>1. more # <<>>
    BY <1>5, SomethingIn
  <2>2. Len(ctxs) = 1 /\ ctxs # <<>>
    BY <1>8
  <2> QED
    BY <1>3, <1>4, <1>5, <1>8, <2>1, <2>2
<1>13. Stands(open', Len(open'), stCtxs', Len(stCtxs'), lstCmds', at)
  BY <1>3, <1>4, <1>8, <1>11, <1>12
<1> QED
  BY <1>6, <1>12, <1>13 DEF AtItsPlace

LEMMA SubContextPlaced ==
    ASSUME CoreInv, open \in Seq(Element), AtItsPlace, ContextStart, SubContext
    PROVE  AtItsPlace'
<1>1. open # <<>>
  BY DEF SubContext, AtItsPlace
<1>2. PICK n \in Nat, more \in {open'} : n = Len(open) /\ n > 0 /\ more = open'
  BY <1>1, EmptySeq
<1>3. /\ more \in Seq(Element) /\ Len(more) = n + 1 /\ SameSoFar(open, more, n)
      /\ more[n + 1].kind = "context"
  BY <1>2, ContextBegins
<1>4. PICK at : stCtxs # <<>> /\ Stands(open, Len(open), stCtxs, Len(stCtxs), lstCmds, at)
  BY <1>1 DEF AtItsPlace
<1>5. PICK top \in Nat : top = Len(stCtxs) /\ top > 0
  BY <1>4, EmptySeq DEF CoreInv, PlaceOK
<1>6. /\ stCtxs' = Append(stCtxs, stCtxs[top] \o FlattenSeq(lstCmds))
      /\ lstCmds' = <<>>
  BY <1>5 DEF SubContext, SubPath, Here
<1>7. PICK paths : paths = stCtxs'
  OBVIOUS
<1>8. PICK path : path = stCtxs[top] \o FlattenSeq(lstCmds)
  OBVIOUS
<1>9. /\ Len(paths) = top + 1 /\ paths[top + 1] = path
      /\ \A d \in 1..top : paths[d] = stCtxs[d]
  <2>1. paths = Append(stCtxs, path)
    BY <1>6, <1>7, <1>8
  <2>2. stCtxs \in Seq(DOMAIN mapCtx)
    BY DEF CoreInv, PlaceOK
  <2>3. paths = [d \in 1..(top + 1) |-> IF d = top + 1 THEN path ELSE stCtxs[d]]
    BY <1>5, <2>1, <2>2, AppendIs
  <2>4. Len(paths) = top + 1
    BY <1>5, <2>1, <2>2
  <2> QED
    BY <2>3, <2>4
<1>10. PICK places : Stands(more, n + 1, paths, top + 1, <<>>, places)
  <2>1. Stands(open, n, stCtxs, top, lstCmds, at)
    BY <1>2, <1>4, <1>5
  <2> QED
    BY <1>2, <1>3, <1>5, <1>8, <1>9, <2>1, ContextStands
<1>11. OpenNamesKnown'
  <2>1. Keys \subseteq Keys'
    BY SubContextKeepsKeys
  <2>2. /\ OpenNamesKnown /\ SameSoFar(open, open', n) /\ Len(open') = n + 1
        /\ open'[n + 1].kind # "command"
    BY <1>2, <1>3 DEF AtItsPlace
  <2> QED
    BY <1>2, <2>1, <2>2, NamesStayKnown
<1>12. Len(open') = n + 1 /\ Len(stCtxs') = top + 1 /\ open' # <<>> /\ stCtxs' # <<>>
  BY <1>2, <1>3, <1>7, <1>9
<1>13. Stands(open', Len(open'), stCtxs', Len(stCtxs'), lstCmds', places)
  BY <1>2, <1>6, <1>7, <1>10, <1>12
<1> QED
  BY <1>11, <1>12, <1>13 DEF AtItsPlace

LEMMA ContextStartPlaced ==
    ASSUME CoreInv, open \in Seq(Element), AtItsPlace, ContextStart, Succeeds
    PROVE  AtItsPlace'
<1>1. ~Refuse /\ ~Crash /\ errors' # errors + 1
  BY NotRefused DEF CoreInv
<1>2. FirstContext \/ SubContext
  BY <1>1 DEF ContextStart, CreateContext, ContextWithoutCommand, ContextOfLostCommand
<1> QED
  BY <1>2, FirstContextPlaced, SubContextPlaced

LEMMA CommandStartPlaced ==
    ASSUME CoreInv, open \in Seq(Element), AtItsPlace, NEW name \in Names,
           CommandStart(name), Succeeds
    PROVE  AtItsPlace'
<1>1. ~Refuse /\ ~Crash
  BY NotRefused DEF CoreInv
<1>2. /\ open # <<>> /\ Len(open') = Len(open) + 1
      /\ SameSoFar(open, open', Len(open))
      /\ open'[Len(open) + 1].kind = "command" /\ open'[Len(open) + 1].name = name
  BY CommandBegins
<1>3. PICK n \in Nat, more \in {open'} : n = Len(open) /\ n > 0 /\ more = open'
  BY <1>2, EmptySeq
<1>4. PICK at : stCtxs # <<>> /\ Stands(open, Len(open), stCtxs, Len(stCtxs), lstCmds, at)
  BY <1>2 DEF AtItsPlace
<1>5. PICK top \in Nat : top = Len(stCtxs) /\ top > 0
  BY <1>4, EmptySeq DEF CoreInv, PlaceOK
<1>6. PICK names : names = Append(lstCmds, name)
  OBVIOUS
<1>7. PICK key : key = <<Here, names>>
  OBVIOUS
<1>8. Insert(key) /\ lstCmds' = names
  <2>1. lstCmds = <<>> => <<name>> = Append(lstCmds, name)
    OBVIOUS
  <2>2. CreateTopCommand(name) \/ CreateSubCommand(name)
    BY <1>1 DEF CommandStart, CreateCommand
  <2>3. CASE CreateTopCommand(name)
    BY <1>1, <1>6, <1>7, <2>1, <2>3 DEF CreateTopCommand
  <2>4. CASE CreateSubCommand(name)
    BY <1>1, <1>6, <1>7, <2>4 DEF CreateSubCommand
  <2> QED
    BY <2>2, <2>3, <2>4
<1>9. Keys' = Keys \cup {key} /\ stCtxs' = stCtxs
  BY <1>8 DEF Insert, With, Keys
<1>10. OpenNamesKnown'
  <2>1. key \in Keys' /\ key[2] = names /\ Keys \subseteq Keys'
    BY <1>7, <1>9
  <2>2. PICK m \in Nat : m = Len(lstCmds) /\ names[m + 1] = name /\ Len(names) = m + 1
    <3>1. lstCmds \in Seq(Seq(Parts)) /\ name \in Seq(Parts)
      BY MainIsAPath DEF CoreInv, PlaceOK, IsNames
    <3> DEFINE S == Seq(Parts)
    <3> HIDE DEF S
    <3>2. lstCmds \in Seq(S) /\ name \in S
      BY <3>1 DEF S
    <3> QED
      BY <1>6, <3>2, AppendProperties
  <2>3. m + 1 \in 1..Len(key[2]) /\ key[2][m + 1] = open'[n + 1].name
    BY <1>2, <1>3, <2>1, <2>2
  <2>4. OpenNamesKnown /\ SameSoFar(open, open', n) /\ Len(open') = n + 1
    BY <1>2, <1>3 DEF AtItsPlace
  <2> QED
    BY <1>3, <2>1, <2>3, <2>4, NamesStayKnown
<1>11. Stands(more, n + 1, stCtxs, top, names, at)
  <2>1. SameSoFar(open, more, n) /\ more[n + 1].kind # "context" /\ more[n + 1].name = name
    BY <1>2, <1>3
  <2>2. Stands(open, n, stCtxs, top, lstCmds, at)
    BY <1>3, <1>4, <1>5
  <2>3. Stands(more, n + 1, stCtxs, top, Append(lstCmds, more[n + 1].name), at)
    BY <1>3, <1>5, <2>1, <2>2, CommandStands
  <2> QED
    BY <1>6, <2>1, <2>3
<1>12. Len(open') = n + 1 /\ Len(stCtxs') = top /\ open' # <<>> /\ stCtxs' # <<>>
  BY <1>2, <1>3, <1>4, <1>5, <1>9
<1>13. Stands(open', Len(open'), stCtxs', Len(stCtxs'), lstCmds', at)
  BY <1>3, <1>8, <1>9, <1>11, <1>12
<1> QED
  BY <1>10, <1>12, <1>13 DEF AtItsPlace

LEMMA CommandEndPlaced ==
    ASSUME CoreInv, open \in Seq(Element), AtItsPlace, CommandEnd, Succeeds
    PROVE  AtItsPlace'
<1>1. ~Refuse
  BY NotRefused DEF CoreInv
<1>2. /\ open # <<>> /\ open[Len(open)].kind = "command" /\ open' = Front(open)
      /\ lstCmds' = Front(lstCmds) /\ UNCHANGED tree /\ stCtxs' = stCtxs
  BY <1>1 DEF CommandEnd, EndCommand, Within, Last
<1>3. PICK n \in Nat, less \in {open'} : /\ n + 1 = Len(open) /\ less = open' /\ Len(less) = n
                             /\ \A i \in 1..n : less[i] = open[i]
  <2>1. Len(open) - 1 \in Nat /\ (Len(open) - 1) + 1 = Len(open)
    BY <1>2, FrontIs
  <2> QED
    BY <1>2, <2>1, FrontIs
<1>4. PICK at : stCtxs # <<>> /\ Stands(open, Len(open), stCtxs, Len(stCtxs), lstCmds, at)
  BY <1>2 DEF AtItsPlace
<1>5. PICK top \in Nat : top = Len(stCtxs) /\ top > 0
  BY <1>4, EmptySeq DEF CoreInv, PlaceOK
<1>6. n > 0 /\ Stands(less, n, stCtxs, top, Front(lstCmds), at)
  <2>1. Stands(open, n + 1, stCtxs, top, lstCmds, at)
    BY <1>3, <1>4, <1>5
  <2>2. open[n + 1].kind # "context" /\ SameSoFar(open, less, n)
    BY <1>2, <1>3 DEF SameSoFar
  <2> QED
    BY <1>3, <1>5, <2>1, <2>2, CommandEndStands
<1>7. Keys' = Keys
  BY <1>2 DEF Keys, tree
<1>8. OpenNamesKnown'
  BY <1>2, <1>7, NamesStayKnownBehindEnd DEF AtItsPlace
<1>9. Len(open') = n /\ Len(stCtxs') = top /\ open' # <<>> /\ stCtxs' # <<>>
  BY <1>2, <1>3, <1>4, <1>5, <1>6
<1>10. Stands(open', Len(open'), stCtxs', Len(stCtxs'), lstCmds', at)
  BY <1>2, <1>3, <1>6, <1>9
<1> QED
  BY <1>8, <1>9, <1>10 DEF AtItsPlace

\* What end_context cuts off a path are the plain names it was made of.
Behind(father, path) == [i \in 1..(Len(path) - Len(father)) |-> <<path[Len(father) + i]>>]

LEMMA NamesBack ==
    ASSUME NEW father \in Seq(Parts), NEW names \in Seq(Seq(Parts)), Plain(names)
    PROVE  Behind(father, father \o FlattenSeq(names)) = names
<1>0. PICK path : path = father \o FlattenSeq(names)
  OBVIOUS
<1> USE <1>0
<1>1. PICK flat, c, n : flat = FlattenSeq(names) /\ c = Len(father) /\ n = Len(names)
  OBVIOUS
<1>2. c \in Nat /\ n \in Nat
  BY <1>1
<1>3. /\ flat \in Seq(Parts) /\ Len(flat) = n
      /\ \A i \in 1..n : flat[i] = names[i][1]
  <2>1. CASE names = <<>>
    <3>1. FlattenSeq(names) = <<>>
      BY <2>1 DEF FlattenSeq
    <3>2. n = 0 /\ flat = <<>> /\ Len(flat) = 0
      BY <1>1, <2>1, <3>1
    <3> QED
      BY <3>2
  <2>2. CASE names # <<>>
    BY <1>1, <2>2, PlainNamesInOrder
  <2> QED
    BY <2>1, <2>2
<1>4. /\ Len(path) = c + n
      /\ \A i \in 1..n : path[c + i] = flat[i]
  <2>1. path = father \o flat
    BY <1>1
  <2>2. Len(path) = Len(father) + Len(flat)
        /\ \A i \in 1..Len(flat) : path[Len(father) + i] = flat[i]
    <3>1. flat \in Seq(Parts)
      BY <1>3
    <3> QED
      BY <2>1, <3>1, ConcatIs
  <2> QED
    BY <1>1, <1>3, <2>2
<1>5. Len(path) - Len(father) = n
  BY <1>1, <1>2, <1>4
<1>6. ASSUME NEW i \in 1..n
      PROVE  <<path[c + i]>> = names[i]
  <2>1. names[i] \in Seq(Parts)
    BY <1>1, ElementOfSeq
  <2>2. Len(names[i]) = 1
    <3>1. DOMAIN names = 1..n
      BY <1>1
    <3> QED
      BY <3>1 DEF Plain
  <2>3. names[i] = <<names[i][1]>>
    BY <2>1, <2>2
  <2> QED
    BY <1>3, <1>4, <2>3
<1>7. names = [i \in 1..n |-> names[i]]
  BY <1>1
<1>8. [i \in 1..n |-> <<path[c + i]>>] = [i \in 1..n |-> names[i]]
  BY <1>6
<1>9. Behind(father, path) = names
  BY <1>1, <1>5, <1>7, <1>8 DEF Behind
<1> QED
  BY <1>9

\* The names between two contexts are names of commands.
LEMMA BetweenCommands ==
    ASSUME CoreInv, PlainNames, open \in Seq(Element), OpenNamesKnown,
           NEW n \in Nat, n + 1 = Len(open), NEW top \in Nat, top > 0, NEW ctxs, NEW cmds,
           NEW at, Stands(open, n + 1, ctxs, top + 1, cmds, at), at[top] \in 1..n,
           open[n + 1].kind = "context"
    PROVE  /\ NamesBetween(open, at[top], n + 1) \in Seq(Seq(Parts))
           /\ Plain(NamesBetween(open, at[top], n + 1))
<1>1. PICK a \in 1..n : a = at[top]
  OBVIOUS
<1>2. PICK m \in Nat : m = n - a
  <2>1. n - a \in Nat
    OBVIOUS
  <2> QED
    BY <2>1
<1>3. at \in [1..(top + 1) -> 1..(n + 1)] /\ \A d \in 1..(top + 1) : at[d] \in 1..(n + 1)
  BY DEF Stands
<1>4. ASSUME NEW i \in 1..n, i > a
      PROVE  open[i].kind # "context"
  <2> SUFFICES ASSUME open[i].kind = "context"
               PROVE  FALSE
    OBVIOUS
  <2>1. i \in 1..(n + 1)
    OBVIOUS
  <2>2. PICK d \in 1..(top + 1) : at[d] = i
    BY <2>1 DEF Stands
  <2>3. top \in 1..(top + 1) /\ top + 1 \in 1..(top + 1)
    OBVIOUS
  <2>4. CASE d < top
    <3>1. at[d] < at[top]
      BY <2>3, <2>4 DEF Stands
    <3> QED
      BY <1>1, <1>4, <2>2, <3>1
  <2>5. CASE d = top
    BY <1>1, <1>4, <2>2, <2>5
  <2>6. CASE d = top + 1
    <3>1. PICK e \in 1..(top + 1) : at[e] = n + 1
      <4>1. n + 1 \in 1..(n + 1)
        OBVIOUS
      <4> QED
        BY <4>1 DEF Stands
    <3>2. CASE e = top + 1
      BY <2>2, <2>6, <3>1, <3>2
    <3>3. CASE e # top + 1
      <4>1. e < top + 1
        BY <3>3
      <4>2. at[e] < at[top + 1]
        BY <2>3, <4>1 DEF Stands
      <4> QED
        BY <2>2, <2>6, <3>1, <4>2
    <3> QED
      BY <3>2, <3>3
  <2> QED
    BY <2>4, <2>5, <2>6
<1>5. ASSUME NEW i \in 1..n, i > a
      PROVE  open[i].name \in Seq(Parts) /\ Len(open[i].name) = 1
  <2>1. open[i].kind = "command"
    <3>1. i \in 1..Len(open)
      OBVIOUS
    <3>2. open[i] \in Element
      BY <3>1, ElementOfSeq
    <3>3. open[i].kind \in {"context", "command"}
      BY <3>2 DEF Element
    <3> QED
      BY <1>4, <1>5, <3>3
  <2>2. i \in 1..Len(open)
    OBVIOUS
  <2>3. PICK key \in Keys : \E j \in 1..Len(key[2]) : key[2][j] = open[i].name
    BY <2>1, <2>2 DEF OpenNamesKnown
  <2>4. PICK j \in 1..Len(key[2]) : key[2][j] = open[i].name
    BY <2>3
  <2>5. key[2] \in Seq(Seq(Parts))
    BY DEF CoreInv, KeysOK, IsNames
  <2>6. j \in DOMAIN key[2]
    BY <2>5
  <2>7. Len(key[2][j]) = 1
    BY <2>6 DEF PlainNames
  <2>8. key[2][j] \in Seq(Parts)
    BY <2>5, ElementOfSeq
  <2> QED
    BY <2>4, <2>7, <2>8
<1>6. NamesBetween(open, a, n + 1) = [k \in 1..m |-> open[a + k].name]
  <2>1. (n + 1) - a - 1 = m
    BY <1>2
  <2> QED
    BY <2>1 DEF NamesBetween
<1>7. \A k \in 1..m : open[a + k].name \in Seq(Parts) /\ Len(open[a + k].name) = 1
  <2> TAKE k \in 1..m
  <2>1. PICK i \in 1..n : i = a + k /\ i > a
    <3>1. a + k \in 1..n /\ a + k > a
      BY <1>2
    <3> QED
      BY <3>1
  <2> QED
    BY <1>5, <2>1
<1>8. PICK names : names = [k \in 1..m |-> open[a + k].name]
  OBVIOUS
<1>9. \A k \in 1..m : names[k] \in Seq(Parts) /\ Len(names[k]) = 1
  BY <1>7, <1>8
<1>10. DOMAIN names = 1..m /\ names = [k \in 1..m |-> names[k]]
  BY <1>8
<1>11. names \in Seq(Seq(Parts))
  <2> DEFINE S == Seq(Parts)
  <2>1. \A k \in 1..m : names[k] \in S
    BY <1>9
  <2> HIDE DEF S
  <2>2. names \in Seq(S)
    BY <1>10, <2>1
  <2> QED
    BY <2>2 DEF S
<1>12. Plain(names)
  BY <1>9, <1>10 DEF Plain
<1> QED
  BY <1>1, <1>6, <1>8, <1>11, <1>12

LEMMA ContextEndPlaced ==
    ASSUME CoreInv, open \in Seq(Element), AtItsPlace, PlainNames, ContextEnd, Succeeds
    PROVE  AtItsPlace'
<1>1. ~Refuse
  BY NotRefused DEF CoreInv
<1>2. /\ open # <<>> /\ open[Len(open)].kind = "context" /\ open' = Front(open)
      /\ lstCmds = <<>> /\ stCtxs # <<>> /\ BackToFatherCtx
  BY <1>1 DEF ContextEnd, EndContext, Within, Last
<1>3. /\ stCtxs' = Front(stCtxs) /\ Keys' = Keys
  BY <1>2 DEF BackToFatherCtx, Keys, tree
<1>4. PICK n \in Nat, less \in {open'} : /\ n + 1 = Len(open) /\ Len(less) = n
                                         /\ less \in Seq(Element)
                                         /\ \A i \in 1..n : less[i] = open[i]
  <2>1. Len(open) - 1 \in Nat /\ (Len(open) - 1) + 1 = Len(open)
    BY <1>2, FrontIs
  <2> QED
    BY <1>2, <2>1, FrontIs
<1>5. PICK at : Stands(open, Len(open), stCtxs, Len(stCtxs), lstCmds, at)
  BY <1>2 DEF AtItsPlace
<1>6. PICK top \in Nat, paths \in {stCtxs'} : /\ top + 1 = Len(stCtxs) /\ Len(paths) = top
                                              /\ \A d \in 1..top : paths[d] = stCtxs[d]
  <2>1. stCtxs \in Seq(DOMAIN mapCtx)
    BY DEF CoreInv, PlaceOK
  <2>2. Len(stCtxs) - 1 \in Nat /\ (Len(stCtxs) - 1) + 1 = Len(stCtxs)
    BY <1>2, <2>1, FrontIs
  <2> QED
    BY <1>2, <1>3, <2>1, <2>2, FrontIs
<1>7. paths \in Seq(DOMAIN mapCtx)
  BY <1>2, <1>3, <1>6, FrontIs DEF CoreInv, PlaceOK
<1>8. OpenNamesKnown'
  BY <1>2, <1>3, NamesStayKnownBehindEnd DEF AtItsPlace
<1>9. CASE top = 0
  <2>1. Stands(open, n + 1, stCtxs, 1, lstCmds, at) /\ open[n + 1].kind = "context"
    <3>1. Len(open) = n + 1 /\ Len(stCtxs) = 1
      BY <1>4, <1>6, <1>9
    <3> QED
      BY <1>2, <1>5, <3>1
  <2>2. n = 0
    BY <2>1, LastContextStands
  <2>3. less = <<>> /\ paths = <<>>
    BY <1>4, <1>6, <1>7, <1>9, <2>2, EmptySeq
  <2>4. lstCmds' = <<>>
    BY <1>2, <1>6, <1>9 DEF BackToFatherCtx
  <2> QED
    BY <1>4, <1>6, <1>8, <2>3, <2>4 DEF AtItsPlace
<1>10. CASE top > 0
  <2>1. Stands(open, n + 1, stCtxs, top + 1, lstCmds, at)
    BY <1>4, <1>5, <1>6
  <2>2. open[n + 1].kind = "context" /\ SameSoFar(open, less, n)
    BY <1>2, <1>4 DEF SameSoFar
  <2>3. PICK names : names = NamesBetween(open, at[top], n + 1)
    OBVIOUS
  <2>4. /\ n > 0 /\ \E places : Stands(less, n, paths, top, names, places)
        /\ stCtxs[top + 1] = stCtxs[top] \o FlattenSeq(names)
        /\ at[top] \in 1..n
    <3>1. PICK m \in Nat, t \in Nat : m = n + 1 /\ t = top + 1
      OBVIOUS
    <3>2. m = Len(open) /\ SameSoFar(open, less, n) /\ open[m].kind = "context"
      BY <1>4, <2>2, <3>1
    <3>3. SamePaths(stCtxs, paths, top)
      BY <1>6 DEF SamePaths
    <3>4. Stands(open, m, stCtxs, t, lstCmds, at)
      BY <2>1, <3>1
    <3>5. /\ n > 0
          /\ \E places : Stands(less, n, paths, top, NamesBetween(open, at[top], m), places)
          /\ stCtxs[t] = stCtxs[top] \o FlattenSeq(NamesBetween(open, at[top], m))
          /\ at[top] \in 1..n
      <4>1. /\ m = n + 1 /\ t = top + 1 /\ m = Len(open) /\ SameSoFar(open, less, n)
            /\ open[m].kind = "context"
        BY <3>1, <3>2
      <4>2. InnerContextLeft(open, m, stCtxs, t, lstCmds, at, less, n, paths, top)
        BY <1>10, <3>3, <3>4, <4>1 DEF InnerContextLeft
      <4>3. BackInOuterContext(open, m, stCtxs, t, at, less, n, paths, top)
        BY <4>2, ContextEndStands
      <4> QED
        BY <4>3 DEF BackInOuterContext
    <3> QED
      BY <2>3, <3>1, <3>5
  <2>5. names \in Seq(Seq(Parts)) /\ Plain(names)
    BY <1>4, <1>10, <2>1, <2>2, <2>3, <2>4, BetweenCommands DEF AtItsPlace
  <2>6. PICK father \in Seq(Parts), path \in {Here} :
            /\ father = stCtxs[top] /\ path = father \o FlattenSeq(names)
    <3>1. stCtxs[top] \in Seq(Parts)
      <4>1. top \in 1..Len(stCtxs)
        BY <1>6, <1>10
      <4>2. stCtxs[top] \in DOMAIN mapCtx
        BY <4>1, ElementOfSeq DEF CoreInv, PlaceOK
      <4> QED
        BY <4>2 DEF CoreInv, MapsOK
    <3> QED
      BY <1>6, <2>4, <3>1 DEF Here
  <2>7. lstCmds' = [i \in 1..(Len(path) - Len(father)) |-> <<path[Len(father) + i]>>]
    <3>1. stCtxs'[Len(stCtxs')] = father
      <4>1. top \in 1..top
        BY <1>10
      <4> QED
        BY <1>6, <2>6, <4>1
    <3>2. Len(stCtxs) # 1
      BY <1>6, <1>10
    <3> QED
      BY <1>2, <2>6, <3>1, <3>2 DEF BackToFatherCtx
  <2>8. lstCmds' = names
    <3>1. Behind(father, father \o FlattenSeq(names)) = names
      BY <2>5, NamesBack
    <3>2. lstCmds' = Behind(father, path)
      BY <2>7 DEF Behind
    <3> QED
      BY <2>6, <3>1, <3>2
  <2>9. PICK places : Stands(less, n, paths, top, names, places)
    BY <2>4
  <2>10. open' # <<>> /\ stCtxs' # <<>>
    <3>1. less # <<>>
      BY <1>4, <2>4, EmptySeq
    <3>2. paths # <<>>
      BY <1>6, <1>10, EmptySeq
    <3> QED
      BY <1>4, <1>6, <3>1, <3>2
  <2>11. Stands(open', Len(open'), stCtxs', Len(stCtxs'), lstCmds', places)
    BY <1>4, <1>6, <2>8, <2>9
  <2> QED
    BY <1>8, <2>10, <2>11 DEF AtItsPlace
<1> QED
  BY <1>9, <1>10

\* A refusal is never forgotten, and no name either, while the builder reads.
LEMMA StepsAddUp ==
    ASSUME CoreInv, BuilderNext, ~Abandon
    PROVE  /\ errors' \in {errors, errors + 1} /\ Keys \subseteq Keys'
           /\ status' \in {status, "crashed", "written"} /\ status = "reading"
<1> USE DEF Keys, tree, position, depths, document
<1>1. CASE ContextStart
  <2>1. CASE FirstContext
    BY <1>1, <2>1 DEF FirstContext, ContextStart
  <2>2. CASE SubContext
    BY <1>1, <2>2 DEF SubContext, ContextStart
  <2>3. CASE ContextWithoutCommand \/ ContextOfLostCommand
    BY <1>1, <2>3 DEF ContextWithoutCommand, ContextOfLostCommand, Refuse, Crash, ContextStart
  <2> QED
    BY <1>1, <2>1, <2>2, <2>3 DEF ContextStart, CreateContext
<1>2. ASSUME NEW name \in Names, CommandStart(name)
      PROVE  /\ errors' \in {errors, errors + 1} /\ Keys \subseteq Keys'
             /\ status' \in {status, "crashed", "written"} /\ status = "reading"
  BY <1>2 DEF CommandStart, CreateCommand, CreateTopCommand, CreateSubCommand, Insert, With,
     Refuse, Crash
<1>3. ASSUME NEW name \in ParamNames \cup {Default}, Parameter(name)
      PROVE  /\ errors' \in {errors, errors + 1} /\ Keys \subseteq Keys'
             /\ status' \in {status, "crashed", "written"} /\ status = "reading"
  BY <1>3 DEF Parameter, CreateParam, Refuse, Crash
<1>4. CASE CommandEnd \/ ContextEnd
  BY <1>4 DEF CommandEnd, ContextEnd, EndCommand, EndContext, BackToFatherCtx, Refuse
<1>5. CASE WriteFiles
  BY <1>5 DEF WriteFiles
<1> QED
  BY <1>1, <1>2, <1>3, <1>4, <1>5 DEF BuilderNext

LEMMA SamePlace ==
    ASSUME AtItsPlace, UNCHANGED <<open, stCtxs, lstCmds>>, Keys \subseteq Keys'
    PROVE  AtItsPlace'
BY DEF AtItsPlace, OpenNamesKnown

LEMMA StepKeepsPosition ==
    BuilderInv /\ PositionInv /\ [BuilderNext]_builderVars => PositionInv'
<1> SUFFICES ASSUME BuilderInv, PositionInv, [BuilderNext]_builderVars,
                    errors' = 0, status' # "crashed", PlainNames'
             PROVE  AtItsPlace'
  BY DEF PositionInv
<1>0. CoreInv /\ open \in Seq(Element) /\ errors \in Nat /\ Succeeds
  BY DEF BuilderInv, CoreInv, Succeeds
<1>1. CASE UNCHANGED builderVars
  <2>1. UNCHANGED <<open, stCtxs, lstCmds, mapCommands, errors, status>>
    BY <1>1 DEF builderVars, document, position, tree
  <2>2. Keys' = Keys /\ PlainNames
    BY <2>1 DEF Keys, PlainNames
  <2> QED
    BY <2>1, <2>2, SamePlace DEF PositionInv
<1>2. CASE Abandon
  <2>1. open' = <<>> /\ stCtxs' = <<>> /\ lstCmds' = <<>>
    BY <1>2 DEF Abandon
  <2>2. OpenNamesKnown'
    BY <2>1 DEF OpenNamesKnown
  <2> QED
    BY <2>1, <2>2 DEF AtItsPlace
<1>3. CASE BuilderNext /\ ~Abandon
  <2>1. /\ errors' \in {errors, errors + 1} /\ Keys \subseteq Keys' /\ status = "reading"
    BY <1>0, <1>3, StepsAddUp
  <2>2. errors = 0 /\ PlainNames
    BY <1>0, <2>1 DEF PlainNames
  <2>3. AtItsPlace
    BY <2>1, <2>2 DEF PositionInv
  <2>4. CASE ContextStart
    BY <1>0, <2>3, <2>4, ContextStartPlaced
  <2>5. ASSUME NEW name \in Names, CommandStart(name)
        PROVE  AtItsPlace'
    BY <1>0, <2>3, <2>5, CommandStartPlaced
  <2>6. ASSUME NEW name \in ParamNames \cup {Default}, Parameter(name)
        PROVE  AtItsPlace'
    <3>1. ~Refuse /\ ~Crash
      BY <1>0, NotRefused
    <3>2. UNCHANGED <<open, stCtxs, lstCmds>>
      BY <2>6, <3>1 DEF Parameter, CreateParam, position
    <3> QED
      BY <2>1, <2>3, <3>2, SamePlace
  <2>7. CASE CommandEnd
    BY <1>0, <2>3, <2>7, CommandEndPlaced
  <2>8. CASE ContextEnd
    BY <1>0, <2>2, <2>3, <2>8, ContextEndPlaced
  <2>9. CASE WriteFiles
    <3>1. UNCHANGED <<open, stCtxs, lstCmds>>
      BY <2>9 DEF WriteFiles, document, position
    <3> QED
      BY <2>1, <2>3, <3>1, SamePlace
  <2> QED
    BY <1>3, <2>4, <2>5, <2>6, <2>7, <2>8, <2>9 DEF BuilderNext
<1> QED
  BY <1>1, <1>2, <1>3

\* With plain names, as long as no call has failed, what is created next goes where the
\* document says: the stack of contexts and the list of commands are those of the open elements,
\* also after contexts whose fathers' names were got back out of their paths.
THEOREM BuilderFollowsDocument == BuilderSpec => []PositionFollowsDocument
<1>1. BuilderInit => PositionInv
  <2> SUFFICES ASSUME BuilderInit
               PROVE  AtItsPlace
    BY DEF PositionInv
  <2>1. open = <<>> /\ stCtxs = <<>> /\ lstCmds = <<>>
    BY DEF BuilderInit
  <2> QED
    BY <2>1 DEF AtItsPlace, OpenNamesKnown
<1>2. BuilderInv /\ PositionInv => PositionFollowsDocument
  <2> SUFFICES ASSUME BuilderInv, AtItsPlace, open # <<>>
               PROVE  /\ stCtxs # <<>>
                      /\ \E at \in [DOMAIN stCtxs -> DOMAIN open] :
                             Follows(open, stCtxs, lstCmds, at)
    BY DEF PositionInv, PositionFollowsDocument
  <2>1. PICK at : stCtxs # <<>> /\ Stands(open, Len(open), stCtxs, Len(stCtxs), lstCmds, at)
    BY DEF AtItsPlace
  <2>2. open \in Seq(Element) /\ stCtxs \in Seq(Seq(Parts))
    <3>1. stCtxs \in Seq(DOMAIN mapCtx) /\ DOMAIN mapCtx \subseteq Seq(Parts)
      BY DEF BuilderInv, CoreInv, PlaceOK, MapsOK
    <3> DEFINE S == Seq(Parts)
    <3>2. DOMAIN mapCtx \subseteq S
      BY <3>1
    <3> HIDE DEF S
    <3>3. stCtxs \in Seq(S)
      BY <3>1, <3>2
    <3> QED
      BY <3>3 DEF BuilderInv, S
  <2>3. PICK n \in Nat, top \in Nat : n = Len(open) /\ top = Len(stCtxs) /\ top > 0
    BY <2>1, <2>2, EmptySeq
  <2>4. Stands(open, n, stCtxs, top, lstCmds, at)
    BY <2>1, <2>3
  <2>5. /\ at \in [DOMAIN stCtxs -> DOMAIN open]
        /\ Follows(open, stCtxs, lstCmds, at)
    BY <2>2, <2>3, <2>4, StandsFollows
  <2> QED
    BY <2>1, <2>5
<1> QED
  BY <1>1, <1>2, StepKeepsPosition, BuilderInvHolds, PTL DEF BuilderSpec

=============================================================================
