----------------------------- MODULE Foundations -----------------------------
(***************************************************************************)
(* Facts about numbers and sequences that the proofs need. Induction is    *)
(* stated for a set of numbers and not for a formula, so that it can be    *)
(* cited like any other lemma: the set is that of the numbers for which    *)
(* the formula holds.                                                      *)
(***************************************************************************)
EXTENDS Lists, Integers, Sequences, SequenceTheorems, FiniteSetTheorems, TLAPS

-----------------------------------------------------------------------------
(* Induction.                                                              *)

\* Every set of numbers that is not empty has a least one: a number n is less than
\* another when 0..n is a proper subset of the other's, and there is no infinite
\* descent among finite sets.
LEMMA LeastNumber ==
    ASSUME NEW T, T \subseteq Nat, T # {}
    PROVE  \E x \in T : \A y \in T : x <= y
<1> DEFINE R == StrictSubsetOrdering(Nat)
           S == FiniteSubsetsOf(Nat)
           U == {0..n : n \in T}
<1>1. IsWellFoundedOn(R, S)
  BY FS_StrictSubsetOrderingWellFounded, Zenon
<1>2. U \subseteq S
  <2>1. \A n \in T : 0..n \subseteq Nat /\ IsFiniteSet(0..n)
    BY FS_Interval
  <2> QED
    BY <2>1 DEF FiniteSubsetsOf
<1>3. U # {}
  OBVIOUS
<1>4. PICK u \in U : \A y \in U : ~ (<<y, u>> \in R)
  <2> HIDE DEF R, S, U
  <2> QED
    BY <1>1, <1>2, <1>3, WFMin, Zenon
<1>5. PICK x \in T : u = 0..x
  OBVIOUS
<1>6. ASSUME NEW y \in T, y < x
      PROVE  FALSE
  <2>1. 0..y \in U
    OBVIOUS
  <2>2. 0..y \in SUBSET Nat /\ u \in SUBSET Nat
    BY <1>5
  <2>3. x \in 0..x /\ x \notin 0..y
    BY <1>6
  <2>4. 0..y \subseteq u /\ 0..y # u
    BY <1>5, <1>6, <2>3
  <2>5. <<0..y, u>> \in R
    BY <2>2, <2>4 DEF StrictSubsetOrdering
  <2> QED
    BY <1>4, <2>1, <2>5
<1> QED
  BY <1>6

\* The first of a set of places, if there is one in reach.
LEMMA FirstPlace ==
    ASSUME NEW T, NEW i \in Nat, NEW last \in Nat, i <= last, last \in T
    PROVE  \E j \in i..last : j \in T /\ \A k \in i..(j - 1) : k \notin T
<1> DEFINE M == {j \in i..last : j \in T}
<1>1. M \subseteq Nat /\ last \in M
  OBVIOUS
<1>2. PICK j \in M : \A k \in M : j <= k
  <2> HIDE DEF M
  <2> QED
    BY <1>1, LeastNumber
<1>3. ASSUME NEW k \in i..(j - 1), k \in T
      PROVE  FALSE
  <2>1. k \in M /\ k < j /\ j \in Nat /\ k \in Nat
    BY <1>3
  <2> QED
    BY <1>2, <2>1
<1> QED
  BY <1>2, <1>3

LEMMA GreatestNumber ==
    ASSUME NEW n \in Nat, NEW T, T \subseteq 0..n, T # {}
    PROVE  \E x \in T : \A y \in T : x >= y
<1> DEFINE M == {n - x : x \in T}
<1>1. M \subseteq Nat /\ M # {}
  <2>1. \A x \in T : n - x \in Nat /\ n - x \in M
    OBVIOUS
  <2> QED
    BY <2>1
<1>2. PICK m \in M : \A k \in M : m <= k
  <2> HIDE DEF M
  <2> QED
    BY <1>1, LeastNumber
<1>3. PICK x \in T : m = n - x
  BY <1>2
<1>4. ASSUME NEW y \in T
      PROVE  x >= y
  <2>1. n - y \in M /\ x \in Int /\ y \in Int
    OBVIOUS
  <2> QED
    BY <1>2, <1>3, <2>1
<1> QED
  BY <1>4

\* Induction: a set with 0 and the successor of each of its numbers has them all.
LEMMA SetInduction ==
    ASSUME NEW T, 0 \in T, \A n \in Nat : n \in T => n + 1 \in T
    PROVE  \A n \in Nat : n \in T
<1> SUFFICES ASSUME Nat \ T # {}
             PROVE  FALSE
  OBVIOUS
<1>1. PICK x \in Nat \ T : \A y \in Nat \ T : x <= y
  <2>1. Nat \ T \subseteq Nat
    OBVIOUS
  <2> QED
    BY <2>1, LeastNumber
<1>2. x # 0 /\ x - 1 \in Nat
  OBVIOUS
<1>3. x - 1 \in T
  BY <1>1, <1>2
<1>4. (x - 1) + 1 = x
  OBVIOUS
<1> QED
  BY <1>2, <1>3, <1>4

\* Definition by recursion: a first value and a step from each number's value to the next
\* one's determine a function.
StepsOn(S) == [Nat \X S -> S]

Recursive(f, S, first, step) ==
    /\ f \in [Nat -> S]
    /\ f[0] = first /\ \A n \in Nat : f[n + 1] = step[<<n, f[n]>>]

LEMMA Recursion ==
    ASSUME NEW S, NEW first \in S, NEW step \in StepsOn(S)
    PROVE  \E f : Recursive(f, S, first, step)
<1> USE DEF StepsOn
<1> DEFINE Follows(g, n) == g[0] = first /\ \A m \in Nat : m < n => g[m + 1] = step[<<m, g[m]>>]
           Upto(n) == {g \in [0..n -> S] : Follows(g, n)}
           Has == {n \in Nat : Upto(n) # {}}
<1>1. 0 \in Has
  <2> DEFINE g == [i \in 0..0 |-> first]
  <2>1. g \in [0..0 -> S] /\ Follows(g, 0)
    OBVIOUS
  <2> QED
    BY <2>1
<1>2. ASSUME NEW n \in Nat, n \in Has
      PROVE  n + 1 \in Has
  <2>1. PICK g \in [0..n -> S] : Follows(g, n)
    BY <1>2
  <2> DEFINE h == [i \in 0..(n + 1) |-> IF i = n + 1 THEN step[<<n, g[n]>>] ELSE g[i]]
  <2>2. g[n] \in S /\ step[<<n, g[n]>>] \in S
    BY <2>1
  <2>3. \A i \in 0..(n + 1) : i # n + 1 => i \in 0..n
    OBVIOUS
  <2>4. h \in [0..(n + 1) -> S] /\ h[n + 1] = step[<<n, g[n]>>] /\ \A i \in 0..n : h[i] = g[i]
    BY <2>1, <2>2, <2>3
  <2> HIDE DEF h
  <2>5. ASSUME NEW m \in Nat, m < n + 1
        PROVE  h[m + 1] = step[<<m, h[m]>>]
    <3>1. CASE m = n
      <4>1. m \in 0..n
        BY <3>1
      <4> QED
        BY <2>4, <3>1, <4>1
    <3>2. CASE m < n
      <4>1. m \in 0..n /\ m + 1 \in 0..n
        BY <3>2
      <4> QED
        BY <2>1, <2>4, <3>2, <4>1
    <3> QED
      BY <2>5, <3>1, <3>2
  <2>6. h[0] = first
    <3>1. 0 \in 0..n
      OBVIOUS
    <3> QED
      BY <2>1, <2>4, <3>1
  <2>7. h \in Upto(n + 1)
    BY <2>4, <2>5, <2>6
  <2> QED
    BY <2>7
<1>3. \A n \in Nat : n \in Has
  <2> HIDE DEF Has
  <2> QED
    BY <1>1, <1>2, SetInduction
<1>4. ASSUME NEW n \in Nat, NEW g \in Upto(n), NEW h \in Upto(n + 1)
      PROVE  g[n] = h[n]
  <2> DEFINE Agree == {m \in Nat : m <= n => g[m] = h[m]}
  <2>1. 0 \in Agree
    OBVIOUS
  <2>2. ASSUME NEW m \in Nat, m \in Agree
        PROVE  m + 1 \in Agree
    <3> SUFFICES ASSUME m + 1 <= n
                 PROVE  g[m + 1] = h[m + 1]
      OBVIOUS
    <3>1. m < n /\ m < n + 1 /\ m <= n
      OBVIOUS
    <3>2. g[m + 1] = step[<<m, g[m]>>] /\ h[m + 1] = step[<<m, h[m]>>]
      BY <3>1
    <3> QED
      BY <2>2, <3>1, <3>2
  <2>3. \A m \in Nat : m \in Agree
    <3> HIDE DEF Agree
    <3> QED
      BY <2>1, <2>2, SetInduction
  <2> QED
    BY <2>3
<1> DEFINE f == [n \in Nat |-> (CHOOSE g \in Upto(n) : TRUE)[n]]
<1>5. ASSUME NEW n \in Nat
      PROVE  \E g \in Upto(n) : f[n] = g[n]
  <2>1. (CHOOSE g \in Upto(n) : TRUE) \in Upto(n)
    <3> HIDE DEF Upto
    <3> QED
      BY <1>3
  <2> HIDE DEF Upto
  <2> QED
    BY <2>1
<1>6. f \in [Nat -> S]
  <2>1. \A n \in Nat : f[n] \in S
    <3> TAKE n \in Nat
    <3>1. PICK g \in Upto(n) : f[n] = g[n]
      BY <1>5
    <3>2. n \in 0..n
      OBVIOUS
    <3> HIDE DEF f
    <3> QED
      BY <3>1, <3>2
  <2> QED
    BY <2>1
<1> HIDE DEF f
<1>7. f[0] = first
  <2>1. PICK g \in Upto(0) : f[0] = g[0]
    BY <1>5
  <2> QED
    BY <2>1
<1>8. ASSUME NEW n \in Nat
      PROVE  f[n + 1] = step[<<n, f[n]>>]
  <2>1. PICK g \in Upto(n) : f[n] = g[n]
    BY <1>5
  <2>2. PICK h \in Upto(n + 1) : f[n + 1] = h[n + 1]
    <3> HIDE DEF Upto
    <3>1. n + 1 \in Nat
      OBVIOUS
    <3> QED
      BY <1>5, <3>1
  <2>3. g[n] = h[n]
    <3> HIDE DEF Upto
    <3> QED
      BY <1>4
  <2>4. h[n + 1] = step[<<n, h[n]>>]
    OBVIOUS
  <2> QED
    BY <2>1, <2>2, <2>3, <2>4
<1> QED
  BY <1>6, <1>7, <1>8 DEF Recursive

\* Induction along a measure: if every element of D is in T as soon as those of smaller
\* measure are, then all are.
LEMMA MeasureInduction ==
    ASSUME NEW D, NEW T, NEW mu \in [D -> Nat],
           \A x \in D : (\A y \in D : mu[y] < mu[x] => y \in T) => x \in T
    PROVE  D \subseteq T
<1> SUFFICES ASSUME D \ T # {}
             PROVE  FALSE
  OBVIOUS
<1> DEFINE M == {mu[x] : x \in D \ T}
<1>1. M \subseteq Nat /\ M # {}
  OBVIOUS
<1>2. PICK m \in M : \A n \in M : m <= n
  <2> HIDE DEF M
  <2> QED
    BY <1>1, LeastNumber
<1>3. PICK x \in D \ T : m = mu[x]
  BY <1>2
<1>4. ASSUME NEW y \in D, mu[y] < mu[x]
      PROVE  y \in T
  <2> SUFFICES ASSUME y \notin T
               PROVE  FALSE
    OBVIOUS
  <2>1. mu[y] \in M
    OBVIOUS
  <2> HIDE DEF M
  <2>2. m <= mu[y]
    BY <1>2, <2>1, Zenon
  <2>3. mu[x] \in Nat /\ mu[y] \in Nat
    OBVIOUS
  <2>4. mu[x] <= mu[y]
    BY <1>3, <2>2, Zenon
  <2> QED
    BY <1>4, <2>3, <2>4
<1> QED
  BY <1>3, <1>4

\* A function on D that has a value of its own where it stops and elsewhere takes one
\* step from its value at the next element.
StepsBack(D, S) == [D \X S -> S]

Descends(f, D, stops, val, next, step) ==
    f = [x \in D |-> IF x \in stops THEN val[x] ELSE step[<<x, f[next[x]]>>]]

\* There is one if the next element has a smaller measure.
LEMMA DescentExists ==
    ASSUME NEW D, NEW S, NEW mu \in [D -> Nat], NEW stops,
           NEW val \in [D -> S], NEW next, NEW step \in StepsBack(D, S),
           \A x \in D \ stops : next[x] \in D /\ mu[next[x]] < mu[x]
    PROVE  \E f : f \in [D -> S] /\ Descends(f, D, stops, val, next, step)
<1> DEFINE F == [D -> S]
           Once(g) == [x \in D |-> IF x \in stops THEN val[x] ELSE step[<<x, g[next[x]]>>]]
           more == [a \in Nat \X F |-> Once(a[2])]
<1>1. ASSUME NEW g \in F
      PROVE  Once(g) \in F
  <2>1. ASSUME NEW x \in D
        PROVE  (IF x \in stops THEN val[x] ELSE step[<<x, g[next[x]]>>]) \in S
    BY DEF StepsBack
  <2> QED
    BY <2>1
<1>2. more \in StepsOn(F)
  <2>1. ASSUME NEW a \in Nat \X F
        PROVE  Once(a[2]) \in F
    <3>1. a[2] \in F
      OBVIOUS
    <3> HIDE DEF Once, F
    <3> QED
      BY <1>1, <3>1
  <2> HIDE DEF Once, F
  <2> QED
    BY <2>1 DEF StepsOn
<1>3. PICK g : Recursive(g, F, val, more)
  <2>1. val \in F
    OBVIOUS
  <2> HIDE DEF more, F
  <2> QED
    BY <1>2, <2>1, Recursion
<1>4. ASSUME NEW n \in Nat
      PROVE  g[n] \in F /\ g[n + 1] = Once(g[n])
  <2>1. g \in [Nat -> F] /\ g[n + 1] = more[<<n, g[n]>>]
    BY <1>3 DEF Recursive
  <2>2. <<n, g[n]>> \in Nat \X F
    <3> HIDE DEF F, more
    <3> QED
      BY <2>1
  <2> HIDE DEF Once, F
  <2> QED
    BY <2>1, <2>2
<1>5. ASSUME NEW n \in Nat, NEW x \in D
      PROVE  /\ g[n][x] \in S
             /\ x \in stops => g[n + 1][x] = val[x]
             /\ x \notin stops => g[n + 1][x] = step[<<x, g[n][next[x]]>>]
  <2> HIDE DEF more
  <2>1. g[n] \in [D -> S] /\ g[n + 1] = Once(g[n])
    BY <1>4
  <2> QED
    BY <2>1
<1> HIDE DEF Once, more
<1> DEFINE Settled == {n \in Nat : \A x \in D : mu[x] < n => g[n + 1][x] = g[n][x]}
<1>6. 0 \in Settled
  OBVIOUS
<1>7. ASSUME NEW n \in Nat, n \in Settled
      PROVE  n + 1 \in Settled
  <2> SUFFICES ASSUME NEW x \in D, mu[x] < n + 1
               PROVE  g[(n + 1) + 1][x] = g[n + 1][x]
    OBVIOUS
  <2>1. n + 1 \in Nat
    OBVIOUS
  <2>2. CASE x \in stops
    BY <1>5, <2>1, <2>2
  <2>3. CASE x \notin stops
    <3>1. next[x] \in D /\ mu[next[x]] < n
      BY <2>3
    <3>2. g[n + 1][next[x]] = g[n][next[x]]
      BY <1>7, <3>1
    <3>3. /\ g[(n + 1) + 1][x] = step[<<x, g[n + 1][next[x]]>>]
          /\ g[n + 1][x] = step[<<x, g[n][next[x]]>>]
      BY <1>5, <2>1, <2>3
    <3> QED
      BY <3>2, <3>3
  <2> QED
    BY <2>2, <2>3
<1>8. \A n \in Nat : n \in Settled
  <2> HIDE DEF Settled
  <2> QED
    BY <1>6, <1>7, SetInduction
<1> DEFINE f == [x \in D |-> g[mu[x] + 1][x]]
           Reached == {n \in Nat : \A x \in D : mu[x] < n => g[n][x] = f[x]}
<1>9. 0 \in Reached
  OBVIOUS
<1>10. ASSUME NEW n \in Nat, n \in Reached
       PROVE  n + 1 \in Reached
  <2> SUFFICES ASSUME NEW x \in D, mu[x] < n + 1
               PROVE  g[n + 1][x] = f[x]
    OBVIOUS
  <2>1. CASE mu[x] = n
    BY <2>1
  <2>2. CASE mu[x] < n
    BY <1>8, <1>10, <2>2
  <2> QED
    BY <2>1, <2>2
<1>11. \A n \in Nat : n \in Reached
  <2> HIDE DEF Reached
  <2> QED
    BY <1>9, <1>10, SetInduction
<1>12. ASSUME NEW x \in D
       PROVE  f[x] = IF x \in stops THEN val[x] ELSE step[<<x, f[next[x]]>>]
  <2>1. f[x] = g[mu[x] + 1][x] /\ mu[x] \in Nat
    OBVIOUS
  <2>2. CASE x \in stops
    BY <1>5, <2>1, <2>2
  <2>3. CASE x \notin stops
    <3>1. next[x] \in D /\ mu[next[x]] < mu[x]
      BY <2>3
    <3>2. g[mu[x]][next[x]] = f[next[x]]
      BY <1>11, <2>1, <3>1
    <3> HIDE DEF f
    <3> QED
      BY <1>5, <2>1, <2>3, <3>2, Zenon
  <2> QED
    BY <2>2, <2>3
<1>13. f \in [D -> S]
  <2>1. ASSUME NEW x \in D
        PROVE  g[mu[x] + 1][x] \in S
    <3>1. mu[x] + 1 \in Nat
      OBVIOUS
    <3> QED
      BY <1>5, <3>1
  <2> QED
    BY <2>1
<1>14. f = [x \in D |-> f[x]]
  OBVIOUS
<1> QED
  <2> HIDE DEF f
  <2> QED
    BY <1>12, <1>13, <1>14 DEF Descends

-----------------------------------------------------------------------------
(* Sequences.                                                              *)

\* What appending gives, as a function.
LEMMA AppendIs ==
    ASSUME NEW S, NEW seq \in Seq(S), NEW elt, NEW n \in Nat, Len(seq) = n
    PROVE  Append(seq, elt) = [i \in 1..(n + 1) |-> IF i = n + 1 THEN elt ELSE seq[i]]
<1> DEFINE T == S \cup {elt}
           new == [i \in 1..(n + 1) |-> IF i = n + 1 THEN elt ELSE seq[i]]
<1>1. seq \in Seq(T)
  OBVIOUS
<1>2. \A i \in 1..(n + 1) : new[i] \in T
  BY <1>1
<1>3. new \in Seq(T) /\ Len(new) = n + 1
  BY <1>2
<1> HIDE DEF new, T
<1>4. elt \in T
  BY DEF T
<1>5. /\ Append(seq, elt) \in Seq(T) /\ Len(Append(seq, elt)) = n + 1
      /\ \A i \in 1..n : Append(seq, elt)[i] = seq[i]
      /\ Append(seq, elt)[n + 1] = elt
  BY <1>1, <1>4, AppendProperties
<1>6. \A i \in 1..(n + 1) : Append(seq, elt)[i] = new[i]
  BY <1>5 DEF new
<1>7. Append(seq, elt) = new
  BY <1>3, <1>5, <1>6, SeqEqual
<1> QED
  BY <1>7 DEF new

\* An element put behind the first p.
LEMMA InsertIs ==
    ASSUME NEW S, NEW s \in Seq(S), NEW p \in 0..Len(s), NEW c \in S
    PROVE  SubSeq(s, 1, p) \o <<c>> \o SubSeq(s, p + 1, Len(s))
               = [i \in 1..(Len(s) + 1) |->
                     IF i <= p THEN s[i] ELSE IF i = p + 1 THEN c ELSE s[i - 1]]
<1> DEFINE n == Len(s)
           before == SubSeq(s, 1, p)
           after == SubSeq(s, p + 1, n)
           new == [i \in 1..(n + 1) |-> IF i <= p THEN s[i] ELSE IF i = p + 1 THEN c ELSE s[i - 1]]
<1>1. n \in Nat /\ p \in Int /\ 0 <= p /\ p <= n /\ \A i \in 1..n : s[i] \in S
  BY ElementOfSeq
<1>2. /\ before \in Seq(S) /\ Len(before) = p /\ \A i \in 1..p : before[i] = s[i]
      /\ after \in Seq(S) /\ Len(after) = n - p
      /\ \A i \in 1..(n - p) : after[i] = s[p + i]
  <2>1. (\A i \in 1..p : s[i] \in S) /\ (\A i \in (p + 1)..n : s[i] \in S)
    BY <1>1
  <2>2. /\ before \in Seq(S) /\ Len(before) = p /\ \A i \in 1..p : before[i] = s[i]
    BY <1>1, <2>1
  <2>3. /\ after \in Seq(S) /\ Len(after) = n - p
    BY <1>1, <2>1
  <2>4. \A i \in 1..(n - (p + 1) + 1) : after[i] = s[(p + 1) + i - 1]
    BY <1>1, <2>1, SubSeqProperties
  <2> QED
    BY <1>1, <2>2, <2>3, <2>4
<1>3. /\ before \o <<c>> \in Seq(S) /\ Len(before \o <<c>>) = p + 1
      /\ \A i \in 1..(p + 1) : (before \o <<c>>)[i] = IF i <= p THEN s[i] ELSE c
  <2> HIDE DEF before
  <2>1. <<c>> \in Seq(S) /\ Len(<<c>>) = 1 /\ <<c>>[1] = c
    OBVIOUS
  <2>2. /\ before \o <<c>> \in Seq(S) /\ Len(before \o <<c>>) = p + 1
        /\ \A i \in 1..(p + 1) :
              (before \o <<c>>)[i] = IF i <= p THEN before[i] ELSE <<c>>[i - p]
    BY <1>2, <2>1, ConcatProperties
  <2>3. \A i \in 1..(p + 1) : ~(i <= p) => i - p = 1
    BY <1>1
  <2> QED
    BY <1>1, <1>2, <2>1, <2>2, <2>3
<1> DEFINE both == before \o <<c>>
<1> HIDE DEF before, after, n, both
<1>4. /\ both \o after \in Seq(S) /\ Len(both \o after) = n + 1
      /\ \A i \in 1..(n + 1) :
            (both \o after)[i] = IF i <= p + 1 THEN both[i] ELSE after[i - (p + 1)]
  <2>0. both \in Seq(S) /\ Len(both) = p + 1
    BY <1>3 DEF both
  <2>1. both \in Seq(S) /\ Len(both) = p + 1 /\ Len(both) + Len(after) = n + 1
    BY <1>1, <1>2, <2>0
  <2>2. /\ both \o after \in Seq(S) /\ Len(both \o after) = Len(both) + Len(after)
        /\ \A i \in 1..(Len(both) + Len(after)) :
              (both \o after)[i] = IF i <= Len(both) THEN both[i] ELSE after[i - Len(both)]
    BY <1>2, <2>1, ConcatProperties
  <2> QED
    BY <2>1, <2>2
<1>5. \A i \in 1..(n + 1) : (both \o after)[i] = new[i]
  <2> SUFFICES ASSUME NEW i \in 1..(n + 1)
               PROVE  (both \o after)[i] = new[i]
    OBVIOUS
  <2>1. CASE i <= p + 1
    BY <1>1, <1>3, <1>4, <2>1 DEF both
  <2>2. CASE ~(i <= p + 1)
    <3>1. i - (p + 1) \in 1..(n - p) /\ p + (i - (p + 1)) = i - 1 /\ ~(i <= p) /\ i # p + 1
      BY <1>1, <2>2
    <3>2. (both \o after)[i] = s[i - 1]
      BY <1>1, <1>2, <1>4, <2>2, <3>1
    <3> QED
      BY <3>1, <3>2
  <2> QED
    BY <2>1, <2>2
<1>6. new \in Seq(S) /\ Len(new) = n + 1
  <2>1. \A i \in 1..(n + 1) : new[i] \in S
    BY <1>1
  <2> QED
    BY <1>1, <2>1
<1>7. both \o after = new
  <2> HIDE DEF new
  <2> QED
    BY <1>4, <1>5, <1>6, SeqEqual
<1> QED
  BY <1>7 DEF both, before, after, n

\* The element at place p taken out.
LEMMA RemoveIs ==
    ASSUME NEW S, NEW s \in Seq(S), NEW p \in 1..Len(s)
    PROVE  SubSeq(s, 1, p - 1) \o SubSeq(s, p + 1, Len(s))
               = [i \in 1..(Len(s) - 1) |-> IF i < p THEN s[i] ELSE s[i + 1]]
<1> DEFINE n == Len(s)
           before == SubSeq(s, 1, p - 1)
           after == SubSeq(s, p + 1, n)
           new == [i \in 1..(n - 1) |-> IF i < p THEN s[i] ELSE s[i + 1]]
<1>1. n \in Nat /\ p \in Int /\ 1 <= p /\ p <= n /\ \A i \in 1..n : s[i] \in S
  BY ElementOfSeq
<1>2. /\ before \in Seq(S) /\ Len(before) = p - 1 /\ \A i \in 1..(p - 1) : before[i] = s[i]
      /\ after \in Seq(S) /\ Len(after) = n - p
      /\ \A i \in 1..(n - p) : after[i] = s[p + i]
  <2>1. (\A i \in 1..(p - 1) : s[i] \in S) /\ (\A i \in (p + 1)..n : s[i] \in S)
    BY <1>1
  <2>2. before \in Seq(S) /\ Len(before) = p - 1 /\ \A i \in 1..(p - 1) : before[i] = s[i]
    BY <1>1, <2>1
  <2>3. after \in Seq(S) /\ Len(after) = n - p
    BY <1>1, <2>1
  <2>4. \A i \in 1..(n - (p + 1) + 1) : after[i] = s[(p + 1) + i - 1]
    BY <1>1, <2>1, SubSeqProperties
  <2> QED
    BY <1>1, <2>2, <2>3, <2>4
<1> HIDE DEF before, after, n
<1>3. /\ before \o after \in Seq(S) /\ Len(before \o after) = n - 1
      /\ \A i \in 1..(n - 1) :
            (before \o after)[i] = IF i <= p - 1 THEN before[i] ELSE after[i - (p - 1)]
  <2>1. Len(before) + Len(after) = n - 1
    BY <1>1, <1>2
  <2>2. /\ before \o after \in Seq(S) /\ Len(before \o after) = Len(before) + Len(after)
        /\ \A i \in 1..(Len(before) + Len(after)) :
              (before \o after)[i] = IF i <= Len(before) THEN before[i]
                                     ELSE after[i - Len(before)]
    BY <1>2, ConcatProperties
  <2> QED
    BY <1>2, <2>1, <2>2
<1>4. \A i \in 1..(n - 1) : (before \o after)[i] = new[i]
  <2> SUFFICES ASSUME NEW i \in 1..(n - 1)
               PROVE  (before \o after)[i] = new[i]
    OBVIOUS
  <2>1. CASE i <= p - 1
    BY <1>1, <1>2, <1>3, <2>1
  <2>2. CASE ~(i <= p - 1)
    <3>1. i - (p - 1) \in 1..(n - p) /\ p + (i - (p - 1)) = i + 1 /\ ~(i < p)
      BY <1>1, <2>2
    <3> QED
      BY <1>2, <1>3, <2>2, <3>1
  <2> QED
    BY <2>1, <2>2
<1>5. new \in Seq(S) /\ Len(new) = n - 1
  <2>1. \A i \in 1..(n - 1) : new[i] \in S
    BY <1>1
  <2> QED
    BY <1>1, <2>1
<1>6. before \o after = new
  <2> HIDE DEF new
  <2> QED
    BY <1>3, <1>4, <1>5, SeqEqual
<1> QED
  BY <1>6 DEF before, after, n

-----------------------------------------------------------------------------
(* The remainder: a command number is turned into a slot of the history ring with % in   *)
(* src/src/cli.c and src/src/history.c, while the indices themselves wrap with an IF.     *)

\* What the division of an integer by a positive number gives.
LEMMA DivMod ==
    ASSUME NEW a \in Int, NEW m \in Nat \ {0}
    PROVE  /\ a % m \in 0..(m - 1)
           /\ a \div m \in Int
           /\ a = (m * (a \div m)) + (a % m)
OBVIOUS

\* A positive multiple of m is at least m.
LEMMA MultipleAtLeast ==
    ASSUME NEW d \in Int, NEW m \in Nat \ {0}, d > 0
    PROVE  m * d >= m
OBVIOUS

\* The remainder is the only number below m that differs from a by a multiple of m.
LEMMA ModUnique ==
    ASSUME NEW m \in Nat \ {0}, NEW a \in Int, NEW q \in Int, NEW r \in 0..(m - 1),
           a = (m * q) + r
    PROVE  a % m = r
<1> DEFINE p == a \div m
           s == a % m
<1>1. s \in 0..(m - 1) /\ p \in Int /\ a = (m * p) + s
  BY DivMod
<1> HIDE DEF p, s
<1>2. m * (q - p) = s - r /\ m * (p - q) = r - s
  BY <1>1
<1>3. ~(q - p > 0)
  BY <1>1, <1>2, MultipleAtLeast
<1>4. ~(p - q > 0)
  BY <1>1, <1>2, MultipleAtLeast
<1>5. r = s
  BY <1>1, <1>2, <1>3, <1>4
<1> QED
  BY <1>5 DEF s

\* A number on the first turn is its own remainder.
LEMMA ModSmall ==
    ASSUME NEW m \in Nat \ {0}, NEW a \in 0..(m - 1)
    PROVE  a % m = a
<1>1. a = (m * 0) + a /\ a \in Int /\ 0 \in Int
  OBVIOUS
<1> QED
  BY <1>1, ModUnique

\* Counting up by one steps the remainder around the ring.
LEMMA ModStep ==
    ASSUME NEW m \in Nat \ {0}, NEW n \in Int
    PROVE  (n + 1) % m = IF n % m < m - 1 THEN (n % m) + 1 ELSE 0
<1> DEFINE q == n \div m
           r == n % m
<1>1. r \in 0..(m - 1) /\ q \in Int /\ n = (m * q) + r
  BY DivMod
<1> HIDE DEF q, r
<1>2. CASE r < m - 1
  <2>1. n + 1 = (m * q) + (r + 1) /\ r + 1 \in 0..(m - 1)
    BY <1>1, <1>2
  <2>2. (n + 1) % m = r + 1
    BY <2>1, <1>1, ModUnique
  <2> QED
    BY <2>2, <1>2 DEF r
<1>3. CASE ~(r < m - 1)
  <2>1. n + 1 = (m * (q + 1)) + 0 /\ q + 1 \in Int /\ 0 \in 0..(m - 1)
    BY <1>1, <1>3
  <2>2. (n + 1) % m = 0
    BY <2>1, ModUnique
  <2> QED
    BY <2>2, <1>3 DEF r
<1> QED
  BY <1>2, <1>3

\* Numbers less than m apart have different remainders.
LEMMA ModDistinct ==
    ASSUME NEW m \in Nat \ {0}, NEW a \in Int, NEW b \in Int, a < b, b - a < m
    PROVE  a % m # b % m
<1> DEFINE p == a \div m
           q == b \div m
           r == a % m
<1>1. p \in Int /\ q \in Int /\ r \in Int /\ a = (m * p) + r
  BY DivMod
<1>2. SUFFICES ASSUME a % m = b % m
               PROVE  FALSE
  OBVIOUS
<1>3. b = (m * q) + r
  BY DivMod, <1>2
<1> HIDE DEF p, q, r
<1>4. m * (q - p) = b - a
  BY <1>1, <1>3
<1>5. q - p > 0
  <2>1. SUFFICES ASSUME ~(q - p > 0)
                 PROVE  FALSE
    OBVIOUS
  <2>2. CASE q = p
    BY <1>1, <1>3, <2>2
  <2>3. CASE p - q > 0
    <3>1. m * (p - q) = a - b
      BY <1>1, <1>3
    <3>2. m * (p - q) >= m
      BY <2>3, <1>1, MultipleAtLeast
    <3> QED
      BY <3>1, <3>2
  <2> QED
    BY <2>1, <2>2, <2>3, <1>1
<1>6. m * (q - p) >= m
  BY <1>5, <1>1, MultipleAtLeast
<1> QED
  BY <1>4, <1>6

\* A full turn of the ring changes nothing.
LEMMA ModTurn ==
    ASSUME NEW m \in Nat \ {0}, NEW n \in Int
    PROVE  (n + m) % m = n % m
<1> DEFINE q == n \div m
           r == n % m
           p == q + 1
<1>1. r \in 0..(m - 1) /\ q \in Int /\ n = (m * q) + r
  BY DivMod
<1> HIDE DEF r
<1>2. n + m = (m * p) + r /\ p \in Int /\ n + m \in Int
  BY <1>1
<1> HIDE DEF q, p
<1>3. (n + m) % m = r
  BY <1>1, <1>2, ModUnique
<1> QED
  BY <1>3 DEF r

\* Adding to a number and adding to its remainder is the same.
LEMMA ModShift ==
    ASSUME NEW m \in Nat \ {0}, NEW n \in Int, NEW d \in Int
    PROVE  ((n % m) + d) % m = (n + d) % m
<1> DEFINE q == n \div m
           r == n % m
           p == (r + d) \div m
           s == (r + d) % m
<1>1. r \in 0..(m - 1) /\ q \in Int /\ n = (m * q) + r
  BY DivMod
<1>2. s \in 0..(m - 1) /\ p \in Int /\ r + d = (m * p) + s
  BY <1>1, DivMod
<1> HIDE DEF p, q, r, s
<1> DEFINE u == q + p
<1>3. n + d = (m * u) + s /\ u \in Int
  BY <1>1, <1>2
<1> HIDE DEF u
<1>4. (n + d) % m = s
  <2>1. n + d \in Int
    OBVIOUS
  <2> QED
    BY <2>1, <1>2, <1>3, ModUnique
<1> QED
  BY <1>4 DEF s, r

\* The distance from one remainder to another, going up around the ring.
LEMMA ModDifference ==
    ASSUME NEW m \in Nat \ {0}, NEW s \in 0..(m - 1), NEW t \in 0..(m - 1)
    PROVE  (t - s) % m = IF s <= t THEN t - s ELSE (t - s) + m
<1>1. CASE s <= t
  <2>1. t - s = (m * 0) + (t - s) /\ t - s \in 0..(m - 1)
    BY <1>1
  <2> QED
    BY <1>1, <2>1, ModUnique
<1>2. CASE ~(s <= t)
  <2>1. t - s = (m * (-1)) + ((t - s) + m) /\ (t - s) + m \in 0..(m - 1)
    BY <1>2
  <2> QED
    BY <1>2, <2>1, ModUnique
<1> QED
  BY <1>1, <1>2

-----------------------------------------------------------------------------
(* What Among keeps of a list.                                             *)

\* What Among has kept of the list's beginnings.
Keeps(kept, list, S, U) ==
    /\ kept \in [0..Len(list) -> Seq({x \in U : x \in S})]
    /\ kept[0] = <<>> /\ kept[Len(list)] = Among(list, S)
    /\ \A i \in 1..Len(list) :
           kept[i] = IF list[i] \in S THEN Append(kept[i - 1], list[i]) ELSE kept[i - 1]

LEMMA AmongSteps ==
    ASSUME NEW U, NEW list \in Seq(U), NEW S
    PROVE  \E kept : Keeps(kept, list, S, U)
<1> DEFINE n == Len(list)
           D == 0..n
           V == Seq({x \in U : x \in S})
           Kept(i, s) == IF list[i] \in S THEN Append(s, list[i]) ELSE s
           F(f) == [i \in D |-> IF i = 0 THEN <<>> ELSE Kept(i, f[i - 1])]
           upto == CHOOSE f : f = F(f)
           step == [a \in Nat \X V |-> IF a[1] + 1 \in 1..n THEN Kept(a[1] + 1, a[2]) ELSE a[2]]
<1>1. n \in Nat /\ <<>> \in V
  OBVIOUS
<1>2. ASSUME NEW i \in 1..n, NEW s \in V
      PROVE  Kept(i, s) \in V
  <2>1. list[i] \in U
    OBVIOUS
  <2> QED
    BY <2>1
<1> HIDE DEF V, Kept, n
<1>3. step \in StepsOn(V)
  <2>1. ASSUME NEW a \in Nat \X V
        PROVE  (IF a[1] + 1 \in 1..n THEN Kept(a[1] + 1, a[2]) ELSE a[2]) \in V
    BY <1>2
  <2> QED
    BY <2>1 DEF StepsOn
<1>4. PICK g : Recursive(g, V, <<>>, step)
  <2> HIDE DEF step
  <2> QED
    BY <1>1, <1>3, Recursion
<1>5. g \in [Nat -> V] /\ g[0] = <<>>
  BY <1>4 DEF Recursive
<1>6. ASSUME NEW i \in 1..n
      PROVE  g[i] = Kept(i, g[i - 1])
  <2>1. i - 1 \in Nat /\ (i - 1) + 1 = i
    BY <1>1
  <2>2. g[i] = step[<<i - 1, g[i - 1]>>]
    <3>1. \A k \in Nat : g[k + 1] = step[<<k, g[k]>>]
      BY <1>4 DEF Recursive
    <3> HIDE DEF step
    <3> QED
      BY <2>1, <3>1
  <2>3. <<i - 1, g[i - 1]>> \in Nat \X V
    BY <1>5, <2>1
  <2> QED
    BY <2>1, <2>2, <2>3
<1> DEFINE h == [i \in D |-> g[i]]
<1>7. h = F(h)
  <2>1. ASSUME NEW i \in D
        PROVE  h[i] = IF i = 0 THEN <<>> ELSE Kept(i, h[i - 1])
    <3>1. CASE i = 0
      BY <1>5, <3>1
    <3>2. CASE i # 0
      <4>1. i \in 1..n /\ i - 1 \in D
        BY <1>1, <3>2
      <4> QED
        BY <1>6, <3>2, <4>1
    <3> QED
      BY <3>1, <3>2
  <2> QED
    BY <2>1
<1>8. upto = F(upto)
  <2> HIDE DEF F, h
  <2> QED
    BY <1>7
<1>9. Among(list, S) = upto[n]
  BY DEF Among, Kept, n
<1> HIDE DEF upto
<1> DEFINE T == {i \in Nat : i <= n => upto[i] \in V}
<1>10. 0 \in T
  BY <1>1, <1>8
<1>11. ASSUME NEW i \in Nat, i \in T
       PROVE  i + 1 \in T
  <2> SUFFICES ASSUME i + 1 <= n
               PROVE  upto[i + 1] \in V
    OBVIOUS
  <2>1. i + 1 \in D /\ i + 1 \in 1..n /\ i + 1 # 0 /\ (i + 1) - 1 = i /\ i <= n
    BY <1>1
  <2>2. upto[i + 1] = Kept(i + 1, upto[i])
    BY <1>8, <2>1
  <2> QED
    BY <1>2, <1>11, <2>1, <2>2
<1>12. \A i \in Nat : i \in T
  <2> HIDE DEF T
  <2> QED
    BY <1>10, <1>11, SetInduction
<1>13. upto \in [D -> V]
  <2>1. \A i \in D : upto[i] \in V
    BY <1>1, <1>12
  <2>2. upto = [i \in D |-> upto[i]]
    BY <1>8
  <2> HIDE DEF D, F
  <2> QED
    BY <2>1, <2>2
<1>14. upto[0] = <<>> /\ \A i \in 1..n : upto[i] = Kept(i, upto[i - 1])
  <2>1. 0 \in D /\ \A i \in 1..n : i \in D /\ i # 0
    BY <1>1
  <2> QED
    BY <1>8, <2>1
<1> HIDE DEF F
<1>15. Keeps(upto, list, S, U)
  BY <1>9, <1>13, <1>14 DEF Keeps, V, Kept, n
<1> QED
  BY <1>15

\* What Among keeps is in the list and in the set.
LEMMA AmongIs ==
    ASSUME NEW U, NEW list \in Seq(U), NEW S
    PROVE  Among(list, S) \in Seq({x \in U : x \in S})
<1> DEFINE n == Len(list)
           V == Seq({x \in U : x \in S})
<1>1. PICK kept : Keeps(kept, list, S, U)
  BY AmongSteps
<1>2. kept \in [0..n -> V] /\ kept[n] = Among(list, S)
  BY <1>1 DEF Keeps
<1>3. n \in 0..n
  OBVIOUS
<1> HIDE DEF n, V
<1>4. kept[n] \in V
  BY <1>2, <1>3
<1> QED
  BY <1>2, <1>4 DEF V

\* An element put before a list is kept or not, and the others as they were.
LEMMA AmongFirst ==
    ASSUME NEW U, NEW list \in Seq(U), NEW S, NEW x \in U
    PROVE  /\ Len(Among(list, S)) \in Nat
           /\ Len(Among(<<x>> \o list, S)) = (IF x \in S THEN 1 ELSE 0) + Len(Among(list, S))
<1> DEFINE n == Len(list)
           V == Seq({y \in U : y \in S})
           more == <<x>> \o list
           k == IF x \in S THEN 1 ELSE 0
<1>1. n \in Nat /\ k \in Nat
  OBVIOUS
<1>2. /\ more \in Seq(U) /\ Len(more) = n + 1 /\ more[1] = x
      /\ \A i \in 1..n : more[i + 1] = list[i]
  OBVIOUS
<1>3. PICK u :
          /\ u \in [0..n -> V]
          /\ u[0] = <<>> /\ u[n] = Among(list, S)
          /\ \A i \in 1..n : u[i] = IF list[i] \in S THEN Append(u[i - 1], list[i]) ELSE u[i - 1]
  <2>1. PICK u : Keeps(u, list, S, U)
    BY AmongSteps
  <2> QED
    BY <2>1 DEF Keeps
<1> HIDE DEF more, n
<1>4. PICK v :
          /\ v \in [0..(n + 1) -> V]
          /\ v[0] = <<>> /\ v[n + 1] = Among(more, S)
          /\ \A i \in 1..(n + 1) :
                 v[i] = IF more[i] \in S THEN Append(v[i - 1], more[i]) ELSE v[i - 1]
  <2>1. PICK v : Keeps(v, more, S, U)
    BY <1>2, AmongSteps
  <2> QED
    BY <1>2, <2>1 DEF Keeps
<1> DEFINE T == {i \in Nat : i <= n => Len(v[i + 1]) = k + Len(u[i])}
<1>5. ASSUME NEW s \in V, NEW y \in U, y \in S
      PROVE  Len(Append(s, y)) = Len(s) + 1 /\ Len(s) \in Nat
  BY <1>5
<1>6. ASSUME NEW i \in 0..n
      PROVE  u[i] \in V /\ Len(u[i]) \in Nat
  BY <1>3, <1>6
<1>7. ASSUME NEW i \in 0..(n + 1)
      PROVE  v[i] \in V /\ Len(v[i]) \in Nat
  BY <1>4, <1>7
<1>8. ASSUME NEW i \in 1..n
      PROVE  list[i] \in U
  BY DEF n
<1>8a. (x \in S => k = 1) /\ (x \notin S => k = 0)
  OBVIOUS
<1> HIDE DEF V, k
<1>9. 0 \in T
  <2>1. 0 \in 0..n /\ 0 \in 0..(n + 1) /\ 1 \in 1..(n + 1) /\ 1 - 1 = 0 /\ 0 + 1 = 1
    BY <1>1
  <2>2. v[1] = IF x \in S THEN Append(v[0], x) ELSE v[0]
    BY <1>2, <1>4, <2>1
  <2>3. v[0] = <<>> /\ u[0] = <<>> /\ Len(<<>>) = 0 /\ v[0] \in V
    BY <1>3, <1>4, <1>7, <2>1
  <2>4. Len(v[1]) = k + Len(u[0])
    <3>1. CASE x \in S
      BY <1>5, <1>8a, <2>2, <2>3, <3>1
    <3>2. CASE x \notin S
      BY <1>8a, <2>2, <2>3, <3>2
    <3> QED
      BY <3>1, <3>2
  <2> QED
    BY <2>1, <2>4
<1>10. ASSUME NEW i \in Nat, i \in T
       PROVE  i + 1 \in T
  <2> SUFFICES ASSUME i + 1 <= n
               PROVE  Len(v[(i + 1) + 1]) = k + Len(u[i + 1])
    OBVIOUS
  <2>1. PICK j \in 1..n : j = i + 1 /\ j - 1 = i /\ i \in 0..n /\ i + 1 \in 0..(n + 1)
    BY <1>1
  <2>2. Len(v[j]) = k + Len(u[i]) /\ Len(u[i]) \in Nat
    BY <1>6, <1>10, <2>1
  <2>3. u[j] = IF list[j] \in S THEN Append(u[i], list[j]) ELSE u[i]
    BY <1>3, <2>1
  <2>4. v[j + 1] = IF list[j] \in S THEN Append(v[j], list[j]) ELSE v[j]
    <3>1. j + 1 \in 1..(n + 1) /\ (j + 1) - 1 = j /\ more[j + 1] = list[j]
      BY <1>1, <1>2, <2>1
    <3> QED
      BY <1>4, <3>1
  <2>5. u[i] \in V /\ v[j] \in V /\ list[j] \in U
    BY <1>6, <1>7, <1>8, <2>1
  <2>6. CASE list[j] \in S
    <3>1. Len(u[j]) = Len(u[i]) + 1
      BY <1>5, <2>3, <2>5, <2>6
    <3>2. Len(v[j + 1]) = Len(v[j]) + 1
      BY <1>5, <2>4, <2>5, <2>6
    <3> QED
      BY <1>1, <2>1, <2>2, <3>1, <3>2
  <2>7. CASE list[j] \notin S
    BY <2>1, <2>2, <2>3, <2>4, <2>7
  <2> QED
    BY <2>6, <2>7
<1>11. \A i \in Nat : i \in T
  <2> HIDE DEF T
  <2> QED
    BY <1>9, <1>10, SetInduction
<1>12. Len(v[n + 1]) = k + Len(u[n]) /\ n \in 0..n
  BY <1>1, <1>11
<1> QED
  BY <1>3, <1>4, <1>6, <1>12 DEF more, k

LEMMA AmongLength == ASSUME NEW U, NEW list \in Seq(U), NEW S
                     PROVE  Len(Among(list, S)) \in Nat
<1>1. Among(list, S) \in Seq({x \in U : x \in S})
  BY AmongIs
<1> QED
  BY <1>1

LEMMA AmongNone == ASSUME NEW S PROVE Among(<<>>, S) = <<>>
<1>1. <<>> \in Seq({}) /\ Len(<<>>) = 0
  OBVIOUS
<1>2. PICK kept : Keeps(kept, <<>>, S, {})
  BY <1>1, AmongSteps
<1> QED
  BY <1>1, <1>2 DEF Keeps


\* What Among keeps of a list's beginnings, one element longer each.
LEMMA AmongUpto ==
    ASSUME NEW U, NEW list \in Seq(U), NEW S, NEW i \in 1..Len(list)
    PROVE  Among(SubSeq(list, 1, i), S)
               = IF list[i] \in S THEN Append(Among(SubSeq(list, 1, i - 1), S), list[i])
                 ELSE Among(SubSeq(list, 1, i - 1), S)
<1> DEFINE V == Seq({x \in U : x \in S})
<1>1. PICK j : j = i - 1 /\ j \in Nat /\ j <= Len(list) /\ i = j + 1
  OBVIOUS
<1>2. PICK short, long : short = SubSeq(list, 1, j) /\ long = SubSeq(list, 1, i)
  OBVIOUS
<1>3. short \in Seq(U) /\ Len(short) = j /\ \A k \in 1..j : short[k] = list[k]
  BY <1>1, <1>2
<1>4. long \in Seq(U) /\ Len(long) = i /\ \A k \in 1..i : long[k] = list[k]
  BY <1>1, <1>2
<1>5. PICK u :
          /\ u \in [0..j -> V] /\ u[0] = <<>> /\ u[j] = Among(short, S)
          /\ \A k \in 1..j : u[k] = IF list[k] \in S THEN Append(u[k - 1], list[k]) ELSE u[k - 1]
  <2>1. PICK u : Keeps(u, short, S, U)
    BY <1>3, AmongSteps
  <2> QED
    BY <1>3, <2>1 DEF Keeps
<1>6. PICK v :
          /\ v \in [0..i -> V] /\ v[0] = <<>> /\ v[i] = Among(long, S)
          /\ \A k \in 1..i : v[k] = IF list[k] \in S THEN Append(v[k - 1], list[k]) ELSE v[k - 1]
  <2>1. PICK v : Keeps(v, long, S, U)
    BY <1>4, AmongSteps
  <2> QED
    BY <1>4, <2>1 DEF Keeps
<1> HIDE DEF V
<1> DEFINE T == {k \in Nat : k <= j => u[k] = v[k]}
<1>7. 0 \in T
  BY <1>5, <1>6
<1>8. ASSUME NEW k \in Nat, k \in T
      PROVE  k + 1 \in T
  <2> SUFFICES ASSUME k + 1 <= j
               PROVE  u[k + 1] = v[k + 1]
    OBVIOUS
  <2>1. k + 1 \in 1..j /\ k + 1 \in 1..i /\ (k + 1) - 1 = k /\ u[k] = v[k]
    BY <1>1, <1>8
  <2> QED
    BY <1>5, <1>6, <2>1
<1>9. \A k \in Nat : k \in T
  <2> HIDE DEF T
  <2> QED
    BY <1>7, <1>8, SetInduction
<1>10. u[j] = v[j]
  BY <1>1, <1>9
<1>11. v[i] = IF list[i] \in S THEN Append(v[j], list[i]) ELSE v[j]
  <2>1. i \in 1..i /\ i - 1 = j
    BY <1>1
  <2>2. v[i] = IF list[i] \in S THEN Append(v[i - 1], list[i]) ELSE v[i - 1]
    BY <1>6, <2>1
  <2> QED
    BY <2>1, <2>2
<1> QED
  BY <1>1, <1>2, <1>5, <1>6, <1>10, <1>11

\* Elements that are not in the set make no difference.
LEMMA AmongSkips ==
    ASSUME NEW U, NEW list \in Seq(U), NEW S, NEW from \in 0..Len(list), NEW to \in from..Len(list),
           \A i \in (from + 1)..to : list[i] \notin S
    PROVE  Among(SubSeq(list, 1, to), S) = Among(SubSeq(list, 1, from), S)
<1> DEFINE T == {d \in Nat : from + d <= to =>
                     Among(SubSeq(list, 1, from + d), S) = Among(SubSeq(list, 1, from), S)}
<1>1. 0 \in T
  <2>1. from + 0 = from
    OBVIOUS
  <2> QED
    BY <2>1
<1>2. ASSUME NEW d \in Nat, d \in T
      PROVE  d + 1 \in T
  <2> SUFFICES ASSUME from + (d + 1) <= to
               PROVE  Among(SubSeq(list, 1, from + (d + 1)), S) = Among(SubSeq(list, 1, from), S)
    OBVIOUS
  <2>1. PICK i \in 1..Len(list) : i = from + (d + 1) /\ i - 1 = from + d
    OBVIOUS
  <2>2. list[i] \notin S /\ from + d <= to
    BY <2>1
  <2>3. Among(SubSeq(list, 1, i), S) = Among(SubSeq(list, 1, i - 1), S)
    BY <2>2, AmongUpto
  <2> QED
    BY <1>2, <2>1, <2>2, <2>3
<1>3. \A d \in Nat : d \in T
  <2> HIDE DEF T
  <2> QED
    BY <1>1, <1>2, SetInduction
<1>4. to - from \in Nat /\ from + (to - from) = to
  OBVIOUS
<1>5. to - from \in T
  BY <1>3, <1>4
<1> QED
  BY <1>4, <1>5

LEMMA AmongWhole ==
    ASSUME NEW U, NEW list \in Seq(U), NEW S
    PROVE  Among(SubSeq(list, 1, Len(list)), S) = Among(list, S) /\ Among(SubSeq(list, 1, 0), S) = <<>>
<1>1. SubSeq(list, 1, Len(list)) = list
  OBVIOUS
<1>2. SubSeq(list, 1, 0) = <<>>
  OBVIOUS
<1> QED
  BY <1>1, <1>2, AmongNone

\* What Among keeps is in the list; of a list without repetitions it keeps nothing twice.
NoRepetition(list) == \A i, j \in 1..Len(list) : list[i] = list[j] => i = j

LEMMA AmongApart ==
    ASSUME NEW U, NEW list \in Seq(U), NEW S, NoRepetition(list)
    PROVE  /\ NoRepetition(Among(list, S))
           /\ \A a \in 1..Len(Among(list, S)) :
                  Among(list, S)[a] \in S /\ \E j \in 1..Len(list) : Among(list, S)[a] = list[j]
<1> DEFINE n == Len(list)
           Upto(i) == Among(SubSeq(list, 1, i), S)
           Good(i) == /\ NoRepetition(Upto(i))
                      /\ \A a \in 1..Len(Upto(i)) : \E j \in 1..i : Upto(i)[a] = list[j]
           T == {i \in Nat : i <= n => Good(i)}
<1>0. n \in Nat /\ \A i \in 1..n : list[i] \in U
  OBVIOUS
<1>1. ASSUME NEW i \in 0..n
      PROVE  Upto(i) \in Seq({x \in U : x \in S})
  <2>1. SubSeq(list, 1, i) \in Seq(U)
    OBVIOUS
  <2> QED
    BY <2>1, AmongIs
<1>2. 0 \in T
  <2>1. Upto(0) = <<>>
    BY AmongWhole
  <2>2. Len(<<>>) = 0
    OBVIOUS
  <2> QED
    BY <2>1, <2>2 DEF NoRepetition
<1>3. \A i \in 1..n : Upto(i) = IF list[i] \in S THEN Append(Upto(i - 1), list[i]) ELSE Upto(i - 1)
  BY AmongUpto
<1> HIDE DEF Upto
<1>4. ASSUME NEW i \in Nat, i \in T
      PROVE  i + 1 \in T
  <2> SUFFICES ASSUME i + 1 <= n
               PROVE  Good(i + 1)
    OBVIOUS
  <2>1. PICK m \in 1..n : m = i + 1 /\ m - 1 = i /\ i \in 0..n
    BY <1>0
  <2>2. PICK old, new : old = Upto(i) /\ new = Upto(m)
    OBVIOUS
  <2>3. old \in Seq(U) /\ new = IF list[m] \in S THEN Append(old, list[m]) ELSE old
    <3>1. old \in Seq({x \in U : x \in S})
      BY <1>1, <2>1, <2>2
    <3>2. old \in Seq(U)
      BY <3>1
    <3> QED
      BY <1>3, <2>1, <2>2, <3>2
  <2>4. /\ \A a, c \in 1..Len(old) : old[a] = old[c] => a = c
        /\ \A a \in 1..Len(old) : \E j \in 1..i : old[a] = list[j]
    BY <1>4, <2>1, <2>2 DEF NoRepetition
  <2>5. list[m] \in U /\ \A j \in 1..i : list[j] # list[m]
    BY <1>0, <2>1 DEF NoRepetition
  <2>6. CASE list[m] \in S
    <3>1. PICK l \in Nat : l = Len(old)
      BY <2>3
    <3>2. Len(new) = l + 1 /\ new[l + 1] = list[m] /\ \A a \in 1..l : new[a] = old[a]
      BY <2>3, <2>5, <2>6, <3>1
    <3>3. \A a \in 1..l : new[a] # list[m]
      BY <2>4, <2>5, <3>1, <3>2
    <3>4. \A a, c \in 1..Len(new) : new[a] = new[c] => a = c
      BY <2>4, <3>1, <3>2, <3>3
    <3>5. \A a \in 1..Len(new) : \E j \in 1..m : new[a] = list[j]
      BY <2>1, <2>4, <3>1, <3>2
    <3> QED
      BY <2>1, <2>2, <3>4, <3>5 DEF NoRepetition
  <2>7. CASE list[m] \notin S
    <3>1. new = old
      BY <2>3, <2>7
    <3>2. \A a \in 1..Len(new) : \E j \in 1..m : new[a] = list[j]
      BY <2>1, <2>4, <3>1
    <3> QED
      BY <2>1, <2>2, <2>4, <3>1, <3>2 DEF NoRepetition
  <2> QED
    BY <2>6, <2>7
<1>5. \A i \in Nat : i \in T
  <2> HIDE DEF T
  <2> QED
    BY <1>2, <1>4, SetInduction
<1>6. Good(n)
  BY <1>0, <1>5
<1>7. Upto(n) = Among(list, S)
  BY AmongWhole DEF Upto
<1>8. Among(list, S) \in Seq({x \in U : x \in S})
  BY AmongIs
<1> QED
  BY <1>6, <1>7, <1>8

\* The first element that is in the set comes first.
LEMMA AmongHead ==
    ASSUME NEW U, NEW list \in Seq(U), NEW S
    PROVE  /\ (\A i \in 1..Len(list) : list[i] \notin S) => Among(list, S) = <<>>
           /\ \A i \in 1..Len(list) :
                  list[i] \in S /\ (\A k \in 1..(i - 1) : list[k] \notin S) =>
                      Among(list, S) # <<>> /\ Head(Among(list, S)) = list[i]
<1> DEFINE n == Len(list)
           V == Seq({x \in U : x \in S})
<1>0. n \in Nat
  OBVIOUS
<1>1. ASSUME \A i \in 1..n : list[i] \notin S
      PROVE  Among(list, S) = <<>>
  <2>1. 0 \in 0..n /\ n \in 0..n /\ \A i \in (0 + 1)..n : list[i] \notin S
    BY <1>1
  <2>2. Among(SubSeq(list, 1, n), S) = Among(SubSeq(list, 1, 0), S)
    BY <2>1, AmongSkips
  <2> QED
    BY <2>2, AmongWhole
<1>2. ASSUME NEW i \in 1..n, list[i] \in S, \A k \in 1..(i - 1) : list[k] \notin S
      PROVE  Among(list, S) # <<>> /\ Head(Among(list, S)) = list[i]
  <2>1. PICK u :
          /\ u \in [0..n -> V] /\ u[0] = <<>> /\ u[n] = Among(list, S)
          /\ \A k \in 1..n : u[k] = IF list[k] \in S THEN Append(u[k - 1], list[k]) ELSE u[k - 1]
    <3>1. PICK u : Keeps(u, list, S, U)
      BY AmongSteps
    <3> QED
      BY <3>1 DEF Keeps
  <2> HIDE DEF V
  <2> DEFINE T == {k \in Nat : k < i => u[k] = <<>>}
             W == {d \in Nat : i + d <= n => Len(u[i + d]) > 0 /\ u[i + d][1] = list[i]}
  <2>2. 0 \in T
    BY <2>1
  <2>3. ASSUME NEW k \in Nat, k \in T
        PROVE  k + 1 \in T
    <3> SUFFICES ASSUME k + 1 < i
                 PROVE  u[k + 1] = <<>>
      OBVIOUS
    <3>1. k + 1 \in 1..n /\ k + 1 \in 1..(i - 1) /\ (k + 1) - 1 = k /\ k < i
      BY <1>0
    <3> QED
      BY <1>2, <2>1, <2>3, <3>1
  <2>4. \A k \in Nat : k \in T
    <3> HIDE DEF T
    <3> QED
      BY <2>2, <2>3, SetInduction
  <2>5. u[i] = Append(<<>>, list[i])
    <3>1. i - 1 \in Nat /\ i - 1 < i
      OBVIOUS
    <3>2. u[i - 1] = <<>>
      BY <2>4, <3>1
    <3> QED
      BY <1>2, <2>1, <3>2
  <2>6. 0 \in W
    <3>1. i + 0 = i /\ Len(Append(<<>>, list[i])) = 1 /\ Append(<<>>, list[i])[1] = list[i]
      OBVIOUS
    <3> QED
      BY <2>5, <3>1
  <2>7. ASSUME NEW d \in Nat, d \in W
        PROVE  d + 1 \in W
    <3> SUFFICES ASSUME i + (d + 1) <= n
                 PROVE  Len(u[i + (d + 1)]) > 0 /\ u[i + (d + 1)][1] = list[i]
      OBVIOUS
    <3>1. PICK m \in 1..n : m = i + (d + 1) /\ m - 1 = i + d /\ m - 1 \in 0..n
      BY <1>0
    <3>2. PICK old : old = u[m - 1]
      OBVIOUS
    <3>3. old \in Seq(U) /\ Len(old) > 0 /\ old[1] = list[i]
      <4>1. old \in V
        BY <2>1, <3>1, <3>2
      <4> QED
        BY <2>7, <3>1, <3>2, <4>1 DEF V
    <3>4. u[m] = IF list[m] \in S THEN Append(old, list[m]) ELSE old
      BY <2>1, <3>1, <3>2
    <3>5. Len(Append(old, list[m])) > 0 /\ Append(old, list[m])[1] = old[1]
      <4>1. list[m] \in U
        OBVIOUS
      <4> QED
        BY <3>3, <4>1
    <3> QED
      BY <3>1, <3>3, <3>4, <3>5
  <2>8. \A d \in Nat : d \in W
    <3> HIDE DEF W
    <3> QED
      BY <2>6, <2>7, SetInduction
  <2>9. n - i \in Nat /\ i + (n - i) = n
    BY <1>0
  <2>10. Len(Among(list, S)) > 0 /\ Among(list, S)[1] = list[i]
    <3>1. n - i \in W
      BY <2>8, <2>9
    <3> QED
      BY <2>1, <2>9, <3>1
  <2>11. Len(<<>>) = 0
    OBVIOUS
  <2> QED
    BY <2>10, <2>11 DEF Head
<1> QED
  BY <1>1, <1>2

=============================================================================
