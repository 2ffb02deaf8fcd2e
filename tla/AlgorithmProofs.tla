-------------------------- MODULE AlgorithmProofs --------------------------
(***************************************************************************)
(* Theorems about what the recursive algorithms compute for every input.   *)
(*                                                                         *)
(* The induction theorems of the library are about an operator, which the  *)
(* provers cannot instantiate.  The first lemma takes the least member of  *)
(* a set of naturals from a theorem that is about sets (WFMin); induction  *)
(* over the naturals and over sequences follows for sets of arguments, and *)
(* with it that a recursive definition has the solution it describes.      *)
(***************************************************************************)
EXTENDS Page, GridCrud, Loopers, Builder, SequenceTheorems, FiniteSetTheorems, WellFoundedInduction, TLAPS

-----------------------------------------------------------------------------
(* Induction.                                                              *)

LEMMA MinNat == ASSUME NEW T \in SUBSET Nat, T # {} PROVE \E x \in T : \A y \in T : x <= y
<1>1. PICK x \in T : \A y \in T : ~ (<<y, x>> \in OpToRel(<,Nat))
  BY WFMin, NatLessThanWellFounded, Zenon
<1>2. \A y \in T : ~(y < x)
  BY <1>1 DEF OpToRel
<1>. QED BY <1>2

LEMMA Induct == ASSUME NEW T, 0 \in T, \A n \in Nat : n \in T => n + 1 \in T PROVE Nat \subseteq T
<1>1. SUFFICES ASSUME Nat \ T # {} PROVE FALSE
  OBVIOUS
<1>2. PICK x \in Nat \ T : \A y \in Nat \ T : x <= y
  BY <1>1, MinNat
<1>3. x - 1 \in Nat
  BY <1>2
<1>. QED BY <1>2, <1>3

LEMMA SeqInduct ==
    ASSUME NEW S, NEW T, <<>> \in T, \A s \in Seq(S), e \in S : s \in T => Append(s, e) \in T
    PROVE  Seq(S) \subseteq T
<1>. DEFINE N == {n \in Nat : \A s \in Seq(S) : Len(s) = n => s \in T}
<1>1. 0 \in N
  <2>1. \A s \in Seq(S) : Len(s) = 0 => s = <<>>
    BY EmptySeq
  <2>. QED BY <2>1
<1>2. ASSUME NEW n \in Nat, n \in N PROVE n + 1 \in N
  <2>1. SUFFICES ASSUME NEW s \in Seq(S), Len(s) = n + 1 PROVE s \in T
    OBVIOUS
  <2>2. s # <<>>
    BY <2>1
  <2>3. PICK u : u = SubSeq(s, 1, Len(s) - 1)
    OBVIOUS
  <2>4. u \in Seq(S) /\ Len(u) = n
    BY <2>1, <2>3
  <2>5. s[Len(s)] \in S
    BY <2>1
  <2>6. s = Append(u, s[Len(s)])
    BY <2>1, <2>3
  <2>. QED BY <1>2, <2>4, <2>5, <2>6
<1>3. Nat \subseteq N
  BY <1>1, <1>2, Induct
<1>4. \A s \in Seq(S) : Len(s) \in N
  BY <1>3
<1>. QED BY <1>4

\* f[i] is the concatenation of the first i members of ss: the equation FlattenSeq is defined by, and the same, case by case.
Joins(ss, n, f) == f = [i \in 1..n |-> IF i = 1 THEN ss[i] ELSE f[i-1] \o ss[i]]
OnUpTo(f, n) == f = [i \in 1..n |-> f[i]]
JoinSteps(ss, n, f) == (n > 0 => f[1] = ss[1]) /\ \A i \in 2..n : f[i] = f[i - 1] \o ss[i]

LEMMA JoinsCases ==
    ASSUME NEW ss, NEW n \in Nat, NEW f
    PROVE  Joins(ss, n, f) <=> OnUpTo(f, n) /\ JoinSteps(ss, n, f)
<1>1. /\ \A i \in 1..n : n > 0 /\ (i = 1 \/ i \in 2..n)
      /\ \A i \in 2..n : i \in 1..n /\ i # 1
      /\ n > 0 => 1 \in 1..n
  OBVIOUS
<1>2. ASSUME Joins(ss, n, f) PROVE JoinSteps(ss, n, f)
  <2>1. \A i \in 1..n : f[i] = IF i = 1 THEN ss[i] ELSE f[i-1] \o ss[i]
    BY <1>2, Zenon DEF Joins
  <2>. QED BY <1>1, <2>1, Zenon DEF JoinSteps
<1>3. ASSUME Joins(ss, n, f) PROVE OnUpTo(f, n)
  BY <1>3, Zenon DEF Joins, OnUpTo
<1>4. ASSUME OnUpTo(f, n), JoinSteps(ss, n, f) PROVE Joins(ss, n, f)
  <2>1. \A i \in 1..n : f[i] = IF i = 1 THEN ss[i] ELSE f[i-1] \o ss[i]
    BY <1>1, <1>4, Zenon DEF JoinSteps
  <2>2. [i \in 1..n |-> f[i]] = [i \in 1..n |-> IF i = 1 THEN ss[i] ELSE f[i-1] \o ss[i]]
    BY <2>1, Zenon
  <2>. QED BY <1>4, <2>2, Zenon DEF Joins, OnUpTo
<1>. QED BY <1>2, <1>3, <1>4, Zenon

LEMMA JoinsExist == ASSUME NEW ss PROVE \A n \in Nat : \E f : Joins(ss, n, f)
<1>. DEFINE T == {n \in Nat : \E f : Joins(ss, n, f)}
<1>1. 0 \in T
  <2>1. Joins(ss, 0, [i \in 1..0 |-> ss])
    BY DEF Joins
  <2>. QED BY <2>1
<1>2. ASSUME NEW n \in Nat, n \in T PROVE n + 1 \in T
  <2>1. PICK f : Joins(ss, n, f)
    BY <1>2
  <2>2. PICK x : x = IF n = 0 THEN ss[1] ELSE f[n] \o ss[n + 1]
    OBVIOUS
  <2>3. PICK g : g = [i \in 1..(n + 1) |-> IF i = n + 1 THEN x ELSE f[i]]
    OBVIOUS
  <2>4. g[n + 1] = x /\ \A i \in 1..n : g[i] = f[i]
    BY <2>3
  <2>5. OnUpTo(g, n + 1)
    BY <2>3, Zenon DEF OnUpTo
  <2>6. JoinSteps(ss, n, f)
    BY <2>1, JoinsCases
  <2>7. g[1] = ss[1]
    BY <2>2, <2>4, <2>6 DEF JoinSteps
  <2>8. ASSUME NEW i \in 2..(n + 1) PROVE g[i] = g[i - 1] \o ss[i]
    <3>1. CASE i \in 2..n
      <4>1. i \in 1..n /\ i - 1 \in 1..n
        BY <3>1
      <4>2. g[i] = f[i] /\ g[i - 1] = f[i - 1]
        BY <2>4, <4>1
      <4>3. f[i] = f[i - 1] \o ss[i]
        BY <2>6, <3>1, Zenon DEF JoinSteps
      <4>. QED BY <4>2, <4>3, Zenon
    <3>2. CASE i = n + 1
      <4>1. n # 0 /\ n \in 1..n /\ i - 1 = n
        BY <3>2
      <4>2. g[i] = x /\ g[i - 1] = f[n]
        BY <2>4, <3>2, <4>1
      <4>3. x = f[n] \o ss[i]
        BY <2>2, <3>2, <4>1, Zenon
      <4>. QED BY <4>2, <4>3, Zenon
    <3>3. i \in 2..n \/ i = n + 1
      OBVIOUS
    <3>. QED BY <3>1, <3>2, <3>3, Zenon
  <2>9. JoinSteps(ss, n + 1, g)
    BY <2>7, <2>8, Zenon DEF JoinSteps
  <2>10. Joins(ss, n + 1, g)
    BY <2>5, <2>9, JoinsCases
  <2>. QED BY <2>10
<1>. HIDE DEF T
<1>3. Nat \subseteq T
  BY <1>1, <1>2, Induct
<1>. QED BY <1>3 DEF T

SameUpTo(f, g, m) == \A i \in 1..m : f[i] = g[i]

LEMMA JoinsUnique ==
    ASSUME NEW ss, NEW tt, NEW m \in Nat, NEW n \in Nat, m <= n, SameUpTo(ss, tt, m),
           NEW f, NEW g, JoinSteps(ss, m, f), JoinSteps(tt, n, g)
    PROVE  SameUpTo(f, g, m)
<1>. DEFINE T == {k \in Nat : k + 1 \in 1..m => f[k + 1] = g[k + 1]}
<1>1. 0 \in T
  BY DEF JoinSteps, SameUpTo
<1>2. ASSUME NEW k \in Nat, k \in T PROVE k + 1 \in T
  <2>3. SUFFICES ASSUME k + 2 \in 1..m PROVE f[k + 2] = g[k + 2]
    OBVIOUS
  <2>4. k + 2 \in 2..m /\ k + 2 \in 2..n /\ (k + 2) - 1 = k + 1 /\ k + 1 \in 1..m
    BY <2>3
  <2>5. f[k + 2] = f[(k + 2) - 1] \o ss[k + 2]
    BY <2>4, Zenon DEF JoinSteps
  <2>6. g[k + 2] = g[(k + 2) - 1] \o tt[k + 2]
    BY <2>4, Zenon DEF JoinSteps
  <2>7. f[k + 1] = g[k + 1]
    BY <1>2, <2>4
  <2>. QED BY <2>3, <2>4, <2>5, <2>6, <2>7, Zenon DEF SameUpTo
<1>. HIDE DEF T
<1>3. Nat \subseteq T
  BY <1>1, <1>2, Induct
<1>4. \A i \in 1..m : i - 1 \in T /\ (i - 1) + 1 = i
  BY <1>3
<1>. QED BY <1>4 DEF T, SameUpTo

LEMMA FlattenEmpty == FlattenSeq(<<>>) = <<>>
BY DEF FlattenSeq

LEMMA FlattenJoins ==
    ASSUME NEW S, NEW ss \in Seq(S), ss # <<>>
    PROVE  \E f : JoinSteps(ss, Len(ss), f) /\ FlattenSeq(ss) = f[Len(ss)]
<1>1. Len(ss) \in Nat /\ Len(ss) # 0
  BY EmptySeq
<1>2. FlattenSeq(ss) = (CHOOSE f : Joins(ss, Len(ss), f))[Len(ss)]
  BY <1>1 DEF FlattenSeq, Joins
<1>3. \E f : Joins(ss, Len(ss), f)
  BY <1>1, JoinsExist
<1>4. PICK f : Joins(ss, Len(ss), f) /\ FlattenSeq(ss) = f[Len(ss)]
  BY <1>2, <1>3, Zenon
<1>. QED BY <1>1, <1>4, JoinsCases

\* One more member.
LEMMA FlattenAppend ==
    ASSUME NEW S, NEW ss \in Seq(Seq(S)), NEW t \in Seq(S)
    PROVE  FlattenSeq(Append(ss, t)) = FlattenSeq(ss) \o t
<1>. DEFINE tt == Append(ss, t)
<1>1. tt \in Seq(Seq(S)) /\ Len(tt) = Len(ss) + 1 /\ tt # <<>>
      /\ (\A i \in 1..Len(ss) : tt[i] = ss[i]) /\ tt[Len(ss) + 1] = t
  BY AppendProperties
<1>0. Len(ss) \in Nat /\ Len(tt) \in Nat
  BY <1>1
<1>. HIDE DEF tt
<1>2. PICK g : JoinSteps(tt, Len(tt), g) /\ FlattenSeq(tt) = g[Len(tt)]
  BY <1>1, FlattenJoins, Zenon
<1>3. CASE ss = <<>>
  <2>1. Len(tt) = 1 /\ tt[1] = t /\ Len(tt) > 0
    BY <1>1, <1>3
  <2>2. FlattenSeq(tt) = t
    BY <1>2, <2>1, Zenon DEF JoinSteps
  <2>3. <<>> \o t = t
    BY ConcatEmptySeq, Zenon
  <2>. QED BY <1>3, <2>2, <2>3, FlattenEmpty, Zenon DEF tt
<1>4. CASE ss # <<>>
  <2>1. PICK f : JoinSteps(ss, Len(ss), f) /\ FlattenSeq(ss) = f[Len(ss)]
    BY <1>4, FlattenJoins, Zenon
  <2>2. Len(ss) \in 1..Len(ss) /\ Len(tt) \in 2..Len(tt) /\ Len(tt) - 1 = Len(ss)
    BY <1>0, <1>1, <1>4, EmptySeq
  <2>3. SameUpTo(f, g, Len(ss))
    <3>1. Len(ss) <= Len(tt)
      BY <1>0, <1>1
    <3>2. SameUpTo(ss, tt, Len(ss))
      BY <1>1 DEF SameUpTo
    <3>. QED BY <1>0, <1>2, <2>1, <3>1, <3>2, JoinsUnique, Zenon
  <2>4. g[Len(tt)] = g[Len(tt) - 1] \o tt[Len(tt)]
    BY <1>2, <2>2, Zenon DEF JoinSteps
  <2>5. g[Len(tt)] = g[Len(ss)] \o t
    BY <1>1, <2>2, <2>4, Zenon
  <2>6. f[Len(ss)] = g[Len(ss)]
    BY <2>2, <2>3, Zenon DEF SameUpTo
  <2>. QED BY <1>2, <2>1, <2>5, <2>6, Zenon DEF tt
<1>. QED BY <1>3, <1>4

LEMMA FlattenType == ASSUME NEW S, NEW ss \in Seq(Seq(S)) PROVE FlattenSeq(ss) \in Seq(S)
<1>. DEFINE T == {s \in Seq(Seq(S)) : FlattenSeq(s) \in Seq(S)}
<1>1. <<>> \in T
  <2>1. <<>> \in Seq(S) /\ <<>> \in Seq(Seq(S))
    BY EmptySeq
  <2>. QED BY <2>1, FlattenEmpty
<1>2. ASSUME NEW s \in Seq(Seq(S)), NEW t \in Seq(S), s \in T PROVE Append(s, t) \in T
  <2>1. FlattenSeq(Append(s, t)) = FlattenSeq(s) \o t
    BY FlattenAppend
  <2>2. FlattenSeq(s) \o t \in Seq(S)
    BY <1>2, ConcatProperties
  <2>3. Append(s, t) \in Seq(Seq(S))
    BY AppendProperties
  <2>. QED BY <2>1, <2>2, <2>3, Zenon
<1>. HIDE DEF T
<1>3. Seq(Seq(S)) \subseteq T
  BY <1>1, <1>2, SeqInduct
<1>. QED BY <1>3 DEF T

\* The concatenation of g[1], ..., g[n].
UpTo(g, n) == FlattenSeq([i \in 1..n |-> g[i]])

LEMMA UpToZero == ASSUME NEW g PROVE UpTo(g, 0) = <<>>
<1>1. [i \in 1..0 |-> g[i]] = <<>>
  OBVIOUS
<1>. QED BY <1>1, FlattenEmpty, Zenon DEF UpTo

LEMMA UpToStep ==
    ASSUME NEW S, NEW n \in Nat, NEW g, \A i \in 1..(n + 1) : g[i] \in Seq(S)
    PROVE  /\ UpTo(g, n) \in Seq(S)
           /\ UpTo(g, n + 1) = UpTo(g, n) \o g[n + 1]
<1>1. PICK R : R = Seq(S)
  OBVIOUS
<1>2. PICK p, q : p = [i \in 1..n |-> g[i]] /\ q = [i \in 1..(n + 1) |-> g[i]]
  OBVIOUS
<1>3. PICK x : x = g[n + 1]
  OBVIOUS
<1>4. \A i \in 1..(n + 1) : g[i] \in R
  BY <1>1
<1>5. p \in Seq(R) /\ q \in Seq(R) /\ x \in R
  BY <1>2, <1>3, <1>4
<1>6. q = Append(p, x)
  BY <1>2, <1>3, <1>5
<1>7. FlattenSeq(Append(p, x)) = FlattenSeq(p) \o x
  BY <1>1, <1>5, FlattenAppend, Zenon
<1>8. FlattenSeq(p) \in Seq(S)
  BY <1>1, <1>5, FlattenType, Zenon
<1>. QED BY <1>2, <1>3, <1>6, <1>7, <1>8, Zenon DEF UpTo

LEMMA UpToType ==
    ASSUME NEW S, NEW n \in Nat, NEW g, \A i \in 1..n : g[i] \in Seq(S)
    PROVE  UpTo(g, n) \in Seq(S)
<1>1. PICK R : R = Seq(S)
  OBVIOUS
<1>2. PICK p : p = [i \in 1..n |-> g[i]]
  OBVIOUS
<1>3. \A i \in 1..n : g[i] \in R
  BY <1>1
<1>4. p \in Seq(R)
  BY <1>2, <1>3
<1>. QED BY <1>1, <1>2, <1>4, FlattenType, Zenon DEF UpTo

LEMMA UpToSeq == ASSUME NEW S, NEW s \in Seq(S) PROVE FlattenSeq(s) = UpTo(s, Len(s))
<1>1. s = [i \in 1..Len(s) |-> s[i]]
  OBVIOUS
<1>. QED BY <1>1, Zenon DEF UpTo

-----------------------------------------------------------------------------
(* What Filter keeps.                                                      *)

LEMMA FilterEmpty == ASSUME NEW T PROVE Filter(<<>>, T) = <<>>
<1>1. [i \in DOMAIN <<>> |-> IF <<>>[i] \in T THEN <<<<>>[i]>> ELSE <<>>] = <<>>
  OBVIOUS
<1>. QED BY <1>1, FlattenEmpty, Zenon DEF Filter

Kept(e, T) == IF e \in T THEN <<e>> ELSE <<>>

LEMMA KeptType == ASSUME NEW S, NEW e \in S, NEW T PROVE Kept(e, T) \in Seq(S \cap T)
<1>1. <<>> \in Seq(S \cap T)
  BY EmptySeq
<1>2. e \in T => <<e>> \in Seq(S \cap T)
  OBVIOUS
<1>. QED BY <1>1, <1>2, Zenon DEF Kept

LEMMA FilterAppend ==
    ASSUME NEW S, NEW s \in Seq(S), NEW e \in S, NEW T
    PROVE  Filter(Append(s, e), T) = Filter(s, T) \o Kept(e, T)
<1>1. PICK u : u = Append(s, e)
  OBVIOUS
<1>2. PICK n \in Nat : n = Len(s)
  OBVIOUS
<1>3. /\ DOMAIN s = 1..n /\ DOMAIN u = 1..(n + 1) /\ (\A i \in 1..n : u[i] = s[i] /\ s[i] \in S) /\ u[n + 1] = e
  BY <1>1, <1>2
<1>4. PICK g : g = [i \in 1..(n + 1) |-> Kept(u[i], T)]
  OBVIOUS
<1>5. \A i \in 1..(n + 1) : u[i] \in S
  BY <1>3
<1>6. \A i \in 1..(n + 1) : g[i] = Kept(u[i], T)
  BY <1>4, Zenon
<1>7. \A i \in 1..(n + 1) : g[i] \in Seq(S \cap T)
  BY <1>5, <1>6, KeptType, Zenon
<1>8. UpTo(g, n + 1) = UpTo(g, n) \o g[n + 1]
  BY <1>7, UpToStep, Zenon
<1>9. n + 1 \in 1..(n + 1) /\ \A i \in 1..n : i \in 1..(n + 1)
  OBVIOUS
<1>10. g[n + 1] = Kept(e, T)
  BY <1>3, <1>6, <1>9, Zenon
<1>11. [i \in 1..(n + 1) |-> g[i]] = [i \in DOMAIN u |-> Kept(u[i], T)]
  BY <1>3, <1>6, Zenon
<1>12. [i \in 1..n |-> g[i]] = [i \in DOMAIN s |-> Kept(s[i], T)]
  <2>1. \A i \in 1..n : g[i] = Kept(s[i], T)
    BY <1>3, <1>6, <1>9, Zenon
  <2>. QED BY <1>3, <2>1, Zenon
<1>13. Filter(u, T) = UpTo(g, n + 1)
  BY <1>11, Zenon DEF Filter, UpTo, Kept
<1>14. Filter(s, T) = UpTo(g, n)
  BY <1>12, Zenon DEF Filter, UpTo, Kept
<1>. QED BY <1>1, <1>8, <1>10, <1>13, <1>14, Zenon

LEMMA FilterType ==
    ASSUME NEW S, NEW s \in Seq(S), NEW T
    PROVE  Filter(s, T) \in Seq(S \cap T) /\ Filter(s, T) \in Seq(S)
<1>. DEFINE P == {x \in Seq(S) : Filter(x, T) \in Seq(S \cap T)}
<1>1. <<>> \in P
  <2>1. <<>> \in Seq(S) /\ <<>> \in Seq(S \cap T)
    BY EmptySeq
  <2>. QED BY <2>1, FilterEmpty
<1>2. ASSUME NEW x \in Seq(S), NEW e \in S, x \in P PROVE Append(x, e) \in P
  <2>1. Filter(Append(x, e), T) = Filter(x, T) \o Kept(e, T)
    BY FilterAppend
  <2>2. Filter(x, T) \o Kept(e, T) \in Seq(S \cap T)
    BY <1>2, KeptType, ConcatProperties
  <2>3. Append(x, e) \in Seq(S)
    BY AppendProperties
  <2>. QED BY <2>1, <2>2, <2>3, Zenon
<1>. HIDE DEF P
<1>3. Seq(S) \subseteq P
  BY <1>1, <1>2, SeqInduct
<1>4. Filter(s, T) \in Seq(S \cap T)
  BY <1>3 DEF P
<1>5. Seq(S \cap T) \subseteq Seq(S)
  BY SeqMonotonic
<1>. QED BY <1>4, <1>5

LEMMA FilterNone ==
    ASSUME NEW S, NEW s \in Seq(S), NEW T, S \cap T = {}
    PROVE  Filter(s, T) = <<>>
<1>1. Filter(s, T) \in Seq({})
  BY FilterType
<1>. QED BY <1>1

LEMMA FilterConcat ==
    ASSUME NEW S, NEW s \in Seq(S), NEW t \in Seq(S), NEW T
    PROVE  Filter(s \o t, T) = Filter(s, T) \o Filter(t, T)
<1>. DEFINE P == {x \in Seq(S) : Filter(s \o x, T) = Filter(s, T) \o Filter(x, T)}
<1>0. Filter(s, T) \in Seq(S)
  BY FilterType
<1>1. <<>> \in P
  <2>1. <<>> \in Seq(S) /\ s \o <<>> = s /\ Filter(s, T) \o <<>> = Filter(s, T)
    BY <1>0, EmptySeq, ConcatEmptySeq
  <2>. QED BY <2>1, FilterEmpty, Zenon
<1>2. ASSUME NEW x \in Seq(S), NEW e \in S, x \in P PROVE Append(x, e) \in P
  <2>1. Filter(Append(x, e), T) = Filter(x, T) \o Kept(e, T)
    BY FilterAppend
  <2>2. s \o x \in Seq(S)
    BY ConcatProperties
  <2>3. Filter(Append(s \o x, e), T) = Filter(s \o x, T) \o Kept(e, T)
    BY <2>2, FilterAppend
  <2>4. s \o Append(x, e) = Append(s \o x, e)
    OBVIOUS
  <2>5. Filter(x, T) \in Seq(S \cap T) /\ Filter(s, T) \in Seq(S \cap T) /\ Kept(e, T) \in Seq(S \cap T)
    BY FilterType, KeptType
  <2>6. (Filter(s, T) \o Filter(x, T)) \o Kept(e, T) = Filter(s, T) \o (Filter(x, T) \o Kept(e, T))
    BY <2>5, ConcatAssociative
  <2>7. Filter(s \o x, T) = Filter(s, T) \o Filter(x, T)
    BY <1>2, Zenon
  <2>8. Append(x, e) \in Seq(S)
    BY AppendProperties
  <2>. QED BY <2>1, <2>3, <2>4, <2>6, <2>7, <2>8, Zenon
<1>. HIDE DEF P
<1>3. Seq(S) \subseteq P
  BY <1>1, <1>2, SeqInduct
<1>. QED BY <1>3 DEF P

LEMMA FilterTwice ==
    ASSUME NEW S, NEW s \in Seq(S), NEW T, NEW U
    PROVE  Filter(Filter(s, T), U) = Filter(s, T \cap U)
<1>. DEFINE P == {x \in Seq(S) : Filter(Filter(x, T), U) = Filter(x, T \cap U)}
<1>1. <<>> \in P
  <2>1. <<>> \in Seq(S)
    BY EmptySeq
  <2>. QED BY <2>1, FilterEmpty, Zenon
<1>2. ASSUME NEW x \in Seq(S), NEW e \in S, x \in P PROVE Append(x, e) \in P
  <2>1. Filter(Append(x, e), T) = Filter(x, T) \o Kept(e, T)
    BY FilterAppend
  <2>2. Filter(Append(x, e), T \cap U) = Filter(x, T \cap U) \o Kept(e, T \cap U)
    BY FilterAppend
  <2>3. Filter(x, T) \in Seq(S) /\ Kept(e, T) \in Seq(S \cap T) /\ Seq(S \cap T) \subseteq Seq(S)
    BY FilterType, KeptType, SeqMonotonic
  <2>4. Filter(Filter(x, T) \o Kept(e, T), U) = Filter(Filter(x, T), U) \o Filter(Kept(e, T), U)
    <3>1. Kept(e, T) \in Seq(S)
      BY <2>3
    <3>2. PICK y \in Seq(S), z \in Seq(S) : y = Filter(x, T) /\ z = Kept(e, T)
      BY <2>3, <3>1, Zenon
    <3>3. Filter(y \o z, U) = Filter(y, U) \o Filter(z, U)
      BY FilterConcat
    <3>. QED BY <3>2, <3>3, Zenon
  <2>5. Filter(Kept(e, T), U) = Kept(e, T \cap U)
    <3>1. CASE e \in T
      <4>1. Kept(e, T) = Append(<<>>, e) /\ <<>> \in Seq(S)
        BY <3>1 DEF Kept
      <4>2. Filter(Append(<<>>, e), U) = Filter(<<>>, U) \o Kept(e, U)
        BY <4>1, FilterAppend
      <4>3. <<>> \o Kept(e, U) = Kept(e, U)
        <5>1. Kept(e, U) \in Seq(S \cap U)
          BY KeptType
        <5>. QED BY <5>1, ConcatEmptySeq
      <4>4. Kept(e, U) = Kept(e, T \cap U)
        BY <3>1 DEF Kept
      <4>. QED BY <4>1, <4>2, <4>3, <4>4, FilterEmpty, Zenon
    <3>2. CASE e \notin T
      BY <3>2, FilterEmpty DEF Kept
    <3>. QED BY <3>1, <3>2
  <2>6. Append(x, e) \in Seq(S)
    BY AppendProperties
  <2>7. Filter(Filter(x, T), U) = Filter(x, T \cap U)
    BY <1>2, Zenon
  <2>. QED BY <2>1, <2>2, <2>4, <2>5, <2>6, <2>7, Zenon
<1>. HIDE DEF P
<1>3. Seq(S) \subseteq P
  BY <1>1, <1>2, SeqInduct
<1>. QED BY <1>3 DEF P

\* Only the members of T that occur count.
LEMMA FilterSame ==
    ASSUME NEW S, NEW s \in Seq(S), NEW T, NEW U, S \cap T = S \cap U
    PROVE  Filter(s, T) = Filter(s, U)
<1>. DEFINE P == {x \in Seq(S) : Filter(x, T) = Filter(x, U)}
<1>1. <<>> \in P
  <2>1. <<>> \in Seq(S)
    BY EmptySeq
  <2>. QED BY <2>1, FilterEmpty, Zenon
<1>2. ASSUME NEW x \in Seq(S), NEW e \in S, x \in P PROVE Append(x, e) \in P
  <2>1. Filter(Append(x, e), T) = Filter(x, T) \o Kept(e, T)
    BY FilterAppend
  <2>2. Filter(Append(x, e), U) = Filter(x, U) \o Kept(e, U)
    BY FilterAppend
  <2>3. Kept(e, T) = Kept(e, U)
    BY DEF Kept
  <2>4. Append(x, e) \in Seq(S)
    BY AppendProperties
  <2>. QED BY <1>2, <2>1, <2>2, <2>3, <2>4, Zenon
<1>. HIDE DEF P
<1>3. Seq(S) \subseteq P
  BY <1>1, <1>2, SeqInduct
<1>. QED BY <1>3 DEF P

-----------------------------------------------------------------------------
(* An element that only one piece of a concatenation holds.                *)

Distinct(cells, k) == \A i, j \in 1..k : cells[i] = cells[j] => i = j

\* Of the pieces, only the one for at holds c, as v, and that one only when there is any (plain).
InOne(S, g, c, v, plain, at, cells, k) ==
    /\ v \in Seq(S)
    /\ Distinct(cells, k)
    /\ \A i \in 1..k : g[i] \in Seq(S) /\ Filter(g[i], {c}) = IF plain /\ at = cells[i] THEN v ELSE <<>>
HeldOnce(g, c, v, plain, at, cells, k) ==
    Filter(UpTo(g, k), {c}) = IF plain /\ \E i \in 1..k : cells[i] = at THEN v ELSE <<>>

LEMMA OneHolds ==
    ASSUME NEW S, NEW c, NEW v, NEW cells, NEW k \in Nat, NEW g, NEW plain \in BOOLEAN, NEW at,
           InOne(S, g, c, v, plain, at, cells, k)
    PROVE  HeldOnce(g, c, v, plain, at, cells, k)
<1>. DEFINE In(n) == plain /\ \E i \in 1..n : cells[i] = at
            N == {n \in Nat : n <= k => Filter(UpTo(g, n), {c}) = IF In(n) THEN v ELSE <<>>}
<1>1. 0 \in N
  <2>1. ~In(0)
    OBVIOUS
  <2>. QED BY <2>1, UpToZero, FilterEmpty
<1>2. ASSUME NEW n \in Nat, n \in N PROVE n + 1 \in N
  <2>1. SUFFICES ASSUME n + 1 <= k PROVE Filter(UpTo(g, n + 1), {c}) = IF In(n + 1) THEN v ELSE <<>>
    OBVIOUS
  <2>2. \A i \in 1..(n + 1) : g[i] \in Seq(S)
    BY <2>1 DEF InOne
  <2>3. UpTo(g, n) \in Seq(S) /\ UpTo(g, n + 1) = UpTo(g, n) \o g[n + 1]
    BY <2>2, UpToStep
  <2>4. n + 1 \in 1..k /\ n + 1 \in 1..(n + 1) /\ n <= k
    BY <2>1
  <2>5. Filter(g[n + 1], {c}) = IF plain /\ at = cells[n + 1] THEN v ELSE <<>>
    BY <2>4, Zenon DEF InOne
  <2>6. PICK x \in Seq(S), y \in Seq(S) : x = UpTo(g, n) /\ y = g[n + 1]
    BY <2>2, <2>3, <2>4, Zenon
  <2>8. Filter(x \o y, {c}) = Filter(x, {c}) \o Filter(y, {c})
    <3>1. ASSUME NEW D PROVE Filter(x \o y, D) = Filter(x, D) \o Filter(y, D)
      <4>. HIDE DEF In, N
      <4>. QED BY FilterConcat
    <3>. QED BY <3>1, Zenon
  <2>10. Filter(x, {c}) = IF In(n) THEN v ELSE <<>>
    BY <1>2, <2>4, <2>6
  <2>12. v \o <<>> = v /\ <<>> \o v = v /\ <<>> \o <<>> = <<>>
    <3>1. v \in Seq(S) /\ <<>> \in Seq(S)
      BY EmptySeq DEF InOne
    <3>. QED BY <3>1, ConcatEmptySeq
  <2>13. CASE plain /\ at = cells[n + 1]
    <3>1. ~In(n)
      BY <2>4, <2>13 DEF InOne, Distinct
    <3>2. In(n + 1)
      BY <2>4, <2>13
    <3>. QED BY <2>3, <2>5, <2>6, <2>8, <2>10, <2>12, <2>13, <3>1, <3>2, Zenon
  <2>14. CASE ~(plain /\ at = cells[n + 1])
    <3>1. In(n + 1) <=> In(n)
      <4>1. \A i \in 1..(n + 1) : i \in 1..n \/ i = n + 1
        OBVIOUS
      <4>2. \A i \in 1..n : i \in 1..(n + 1)
        OBVIOUS
      <4>. QED BY <2>14, <4>1, <4>2, Zenon
    <3>. QED BY <2>3, <2>5, <2>6, <2>8, <2>10, <2>12, <2>14, <3>1, Zenon
  <2>. QED BY <2>13, <2>14
<1>. HIDE DEF N
<1>3. Nat \subseteq N
  BY <1>1, <1>2, Induct
<1>4. k \in N /\ k <= k
  BY <1>3
<1>. QED BY <1>4 DEF N, HeldOnce

-----------------------------------------------------------------------------
(* GridCrud: the pages of a table.                                         *)

LEMMA QuotientFloor ==
    ASSUME NEW a \in Nat, NEW b \in Nat \ {0}
    PROVE  a \div b \in Nat /\ (a \div b) * b <= a /\ a < (a \div b) * b + b
  OBVIOUS

\* The last page reaches the last row.
LEMMA LastPageReaches ==
    ASSUME NEW n \in Nat, NEW size \in Nat \ {0}
    PROVE  lastPage(n, size) \in Nat \ {0} /\ n <= lastPage(n, size) * size
<1>1. n + size - 1 \in Nat
  OBVIOUS
<1>2. PICK q \in Nat : q = (n + size - 1) \div size /\ q * size <= n + size - 1 /\ n + size - 1 < q * size + size
  BY <1>1, QuotientFloor
<1>3. PICK m \in Nat : m = q * size
  OBVIOUS
<1>4. n <= m
  BY <1>2, <1>3
<1>5. q < 1 => m = 0
  BY <1>3
<1>6. CASE q < 1
  <2>1. lastPage(n, size) = 1 /\ n = 0
    BY <1>2, <1>4, <1>5, <1>6 DEF lastPage
  <2>. QED BY <2>1
<1>7. CASE q >= 1
  <2>1. lastPage(n, size) = q
    BY <1>2, <1>7 DEF lastPage
  <2>. QED BY <1>3, <1>4, <1>7, <2>1
<1>. QED BY <1>6, <1>7

\* The row after the last of the first n pages.
PageEnd(n, size, len) == IF n * size < len THEN n * size ELSE len

\* One page after the other is one longer beginning of the rows.
LEMMA PageJoins ==
    ASSUME NEW S, NEW s \in Seq(S), NEW size \in Nat \ {0}, NEW n \in Nat
    PROVE  /\ LimitClause(s, size, n * size) \in Seq(S)
           /\ SubSeq(s, 1, PageEnd(n, size, Len(s))) \o LimitClause(s, size, n * size)
                 = SubSeq(s, 1, PageEnd(n + 1, size, Len(s)))
<1>1. PICK m \in Nat : m = n * size
  OBVIOUS
<1>2. (n + 1) * size = m + size
  BY <1>1
<1>3. PICK e \in Nat : e = IF m + size < Len(s) THEN m + size ELSE Len(s)
  OBVIOUS
<1>4. LimitClause(s, size, n * size) = SubSeq(s, m + 1, e)
  BY <1>1, <1>3 DEF LimitClause
<1>5. PageEnd(n + 1, size, Len(s)) = e
  BY <1>2, <1>3 DEF PageEnd
<1>6. e <= Len(s)
  BY <1>3
<1>7. \A i \in (m + 1)..e : s[i] \in S
  BY <1>6
<1>8. SubSeq(s, m + 1, e) \in Seq(S)
  BY <1>7, SubSeqProperties
<1>9. CASE m < Len(s)
  <2>1. PageEnd(n, size, Len(s)) = m
    BY <1>1, <1>9 DEF PageEnd
  <2>2. 1 \in 1..(Len(s) + 1) /\ m \in (1 - 1)..Len(s) /\ e \in m..Len(s)
    BY <1>3, <1>6, <1>9
  <2>3. SubSeq(s, 1, m) \o SubSeq(s, m + 1, e) = SubSeq(s, 1, e)
    BY <2>2, ConcatAdjacentSubSeq
  <2>. QED BY <1>4, <1>5, <1>8, <2>1, <2>3
<1>10. CASE ~(m < Len(s))
  <2>1. PageEnd(n, size, Len(s)) = Len(s) /\ e = Len(s)
    BY <1>1, <1>3, <1>10 DEF PageEnd
  <2>2. SubSeq(s, m + 1, e) = <<>>
    BY <1>3, <1>10, <2>1, SubSeqEmpty
  <2>3. SubSeq(s, 1, Len(s)) = s
    OBVIOUS
  <2>4. s \o <<>> = s
    BY ConcatEmptySeq
  <2>. QED BY <1>4, <1>5, <1>8, <2>1, <2>2, <2>3, <2>4
<1>. QED BY <1>9, <1>10

LEMMA PagesJoin ==
    ASSUME NEW S, NEW s \in Seq(S), NEW size \in Nat \ {0}, NEW g,
           NEW k \in Nat, \A p \in 1..k : g[p] = LimitClause(s, size, (p - 1) * size)
    PROVE  UpTo(g, k) = SubSeq(s, 1, PageEnd(k, size, Len(s)))
<1>. DEFINE T == {n \in Nat : n <= k => UpTo(g, n) = SubSeq(s, 1, PageEnd(n, size, Len(s)))}
<1>1. 0 \in T
  <2>1. PageEnd(0, size, Len(s)) = 0
    BY DEF PageEnd
  <2>2. SubSeq(s, 1, 0) = <<>>
    BY SubSeqEmpty
  <2>. QED BY <2>1, <2>2, UpToZero
<1>2. ASSUME NEW n \in Nat, n \in T PROVE n + 1 \in T
  <2>1. SUFFICES ASSUME n + 1 <= k PROVE UpTo(g, n + 1) = SubSeq(s, 1, PageEnd(n + 1, size, Len(s)))
    OBVIOUS
  <2>2. \A p \in 1..(n + 1) : p \in 1..k /\ p - 1 \in Nat
    BY <2>1
  <2>3. \A p \in 1..(n + 1) : g[p] \in Seq(S)
    <3>1. \A q \in Nat : LimitClause(s, size, q * size) \in Seq(S)
      BY PageJoins
    <3>. QED BY <2>2, <3>1
  <2>4. UpTo(g, n + 1) = UpTo(g, n) \o g[n + 1]
    BY <2>3, UpToStep
  <2>5. n + 1 \in 1..k /\ (n + 1) - 1 = n
    BY <2>1
  <2>6. g[n + 1] = LimitClause(s, size, n * size)
    BY <2>5
  <2>7. UpTo(g, n) = SubSeq(s, 1, PageEnd(n, size, Len(s)))
    BY <1>2, <2>1
  <2>8. SubSeq(s, 1, PageEnd(n, size, Len(s))) \o LimitClause(s, size, n * size) = SubSeq(s, 1, PageEnd(n + 1, size, Len(s)))
    BY PageJoins
  <2>. QED BY <2>4, <2>6, <2>7, <2>8, Zenon
<1>. HIDE DEF T
<1>3. Nat \subseteq T
  BY <1>1, <1>2, Induct
<1>. QED BY <1>3 DEF T

\* A finite set can be listed, and the list sorted.
LEMMA SetToSeqType == ASSUME NEW S, IsFiniteSet(S) PROVE SetToSeq(S) \in Seq(S)
<1>1. PICK f : f \in Bijection(1..Cardinality(S), S)
  BY FS_CardinalityType DEF ExistsBijection
<1>2. f \in [1..Cardinality(S) -> S] /\ IsInjective(f)
  BY <1>1 DEF Bijection, Injection, IsInjective
<1>3. SetToSeq(S) \in [1..Cardinality(S) -> S]
  BY <1>2, Zenon DEF SetToSeq
<1>4. Cardinality(S) \in Nat
  BY FS_CardinalityType
<1>. QED BY <1>3, <1>4

LEMMA HasMax ==
    ASSUME NEW S \in SUBSET Int, IsFiniteSet(S), S # {}
    PROVE  \E m \in S : \A x \in S : x <= m
<1>. DEFINE T == {n \in Nat : \A R \in SUBSET Int : IsFiniteSet(R) /\ Cardinality(R) = n + 1 => \E m \in R : \A x \in R : x <= m}
<1>1. 0 \in T
  <2>1. SUFFICES ASSUME NEW R \in SUBSET Int, IsFiniteSet(R), Cardinality(R) = 1 PROVE \E m \in R : \A x \in R : x <= m
    OBVIOUS
  <2>2. PICK m : R = {m}
    BY <2>1, FS_Singleton
  <2>. QED BY <2>2
<1>2. ASSUME NEW n \in Nat, n \in T PROVE n + 1 \in T
  <2>1. SUFFICES ASSUME NEW R \in SUBSET Int, IsFiniteSet(R), Cardinality(R) = n + 2 PROVE \E m \in R : \A x \in R : x <= m
    OBVIOUS
  <2>2. PICK a \in R : TRUE
    <3>1. Cardinality(R) # 0
      BY <2>1
    <3>. QED BY <2>1, <3>1, FS_EmptySet, Zenon
  <2>3. IsFiniteSet(R \ {a}) /\ Cardinality(R \ {a}) = n + 1
    BY <2>1, FS_RemoveElement
  <2>4. PICK m \in R \ {a} : \A x \in R \ {a} : x <= m
    BY <1>2, <2>3
  <2>5. CASE a <= m
    BY <2>4, <2>5
  <2>6. CASE ~(a <= m)
    BY <2>4, <2>6
  <2>. QED BY <2>5, <2>6
<1>. HIDE DEF T
<1>3. Nat \subseteq T
  BY <1>1, <1>2, Induct
<1>4. PICK k \in Nat : k = Cardinality(S) /\ k # 0
  BY FS_EmptySet, FS_CardinalityType
<1>5. k - 1 \in Nat /\ (k - 1) + 1 = k
  BY <1>4
<1>. QED BY <1>3, <1>4, <1>5 DEF T

Increasing(s, n) == \A i, j \in 1..n : i < j => s[i] < s[j]

LEMMA OrderExists ==
    ASSUME NEW S \in SUBSET Int, IsFiniteSet(S)
    PROVE  \E s \in [1..Cardinality(S) -> S] : Increasing(s, Cardinality(S))
<1>. DEFINE T == {n \in Nat : \A R \in SUBSET Int : IsFiniteSet(R) /\ Cardinality(R) = n => \E s \in [1..n -> R] : Increasing(s, n)}
<1>1. 0 \in T
  <2>1. SUFFICES ASSUME NEW R \in SUBSET Int, IsFiniteSet(R), Cardinality(R) = 0 PROVE \E s \in [1..0 -> R] : Increasing(s, 0)
    OBVIOUS
  <2>2. [i \in 1..0 |-> 0] \in [1..0 -> R] /\ Increasing([i \in 1..0 |-> 0], 0)
    BY DEF Increasing
  <2>. QED BY <2>2
<1>2. ASSUME NEW n \in Nat, n \in T PROVE n + 1 \in T
  <2>1. SUFFICES ASSUME NEW R \in SUBSET Int, IsFiniteSet(R), Cardinality(R) = n + 1 PROVE \E s \in [1..(n + 1) -> R] : Increasing(s, n + 1)
    OBVIOUS
  <2>2. PICK m \in R : \A x \in R : x <= m
    BY <2>1, FS_EmptySet, HasMax
  <2>3. IsFiniteSet(R \ {m}) /\ Cardinality(R \ {m}) = n
    BY <2>1, FS_RemoveElement
  <2>4. PICK s \in [1..n -> R \ {m}] : Increasing(s, n)
    BY <1>2, <2>3
  <2>5. PICK u : u = [i \in 1..(n + 1) |-> IF i = n + 1 THEN m ELSE s[i]]
    OBVIOUS
  <2>6. u \in [1..(n + 1) -> R]
    BY <2>5
  <2>7. ASSUME NEW i \in 1..(n + 1), NEW j \in 1..(n + 1), i < j PROVE u[i] < u[j]
    <3>1. i \in 1..n /\ u[i] = s[i] /\ s[i] \in R \ {m}
      BY <2>5, <2>7
    <3>2. CASE j = n + 1
      <4>1. u[j] = m
        BY <2>5, <3>2
      <4>2. s[i] \in Int /\ m \in Int /\ s[i] <= m /\ s[i] # m
        BY <2>1, <2>2, <3>1
      <4>. QED BY <3>1, <4>1, <4>2
    <3>3. CASE j \in 1..n
      <4>1. u[j] = s[j]
        BY <2>5, <3>3
      <4>2. s[i] < s[j]
        BY <2>4, <2>7, <3>1, <3>3 DEF Increasing
      <4>. QED BY <3>1, <4>1, <4>2
    <3>. QED BY <3>2, <3>3
  <2>8. Increasing(u, n + 1)
    BY <2>7 DEF Increasing
  <2>. QED BY <2>6, <2>8
<1>. HIDE DEF T
<1>3. Nat \subseteq T
  BY <1>1, <1>2, Induct
<1>4. Cardinality(S) \in Nat
  BY FS_CardinalityType
<1>. QED BY <1>3, <1>4 DEF T

\* A finite set of keys is listed in ascending order, each once.
LEMMA OrderedIs ==
    ASSUME NEW S \in SUBSET Int, IsFiniteSet(S)
    PROVE  /\ Ordered(S) \in [1..Cardinality(S) -> S] /\ Increasing(Ordered(S), Cardinality(S)) /\ Cardinality(S) \in Nat
           /\ \A k \in S : \E i \in 1..Cardinality(S) : Ordered(S)[i] = k
<1>1. PICK s \in [1..Cardinality(S) -> S] : Increasing(s, Cardinality(S))
  BY OrderExists
<1>2. \A i, j \in 1..Cardinality(S) : i < j => s[i] < s[j]
  BY <1>1 DEF Increasing
<1>3. Ordered(S) \in [1..Cardinality(S) -> S] /\ \A i, j \in 1..Cardinality(S) : i < j => Ordered(S)[i] < Ordered(S)[j]
  BY <1>1, <1>2, Zenon DEF Ordered
<1>4. PICK n \in Nat : n = Cardinality(S)
  BY FS_CardinalityType
<1>5. PICK o : o = Ordered(S)
  OBVIOUS
<1>6. o \in [1..n -> S] /\ Increasing(o, n)
  BY <1>3, <1>4, <1>5 DEF Increasing
<1>7. o \in Injection(1..n, S)
  <2>1. ASSUME NEW i \in 1..n, NEW j \in 1..n, o[i] = o[j] PROVE i = j
    <3>1. o[i] \in Int /\ o[j] \in Int
      BY <1>6
    <3>. QED BY <1>6, <2>1, <3>1 DEF Increasing
  <2>. QED BY <1>6, <2>1 DEF Injection, IsInjective
<1>8. Cardinality(1..n) = n
  BY FS_Interval
<1>9. o \in Surjection(1..n, S)
  BY <1>4, <1>7, <1>8, FS_Injection
<1>10. \A k \in S : \E i \in 1..n : o[i] = k
  BY <1>9 DEF Surjection
<1>. QED BY <1>4, <1>5, <1>6, <1>10

LEMMA SelectedSeq ==
    ASSUME NEW t, DOMAIN t \in SUBSET Int, IsFiniteSet(DOMAIN t), NEW fs
    PROVE  \E S : Selected(t, fs) \in Seq(S)
<1>. DEFINE Row(k) == [id |-> k, val |-> t[k]]
            ks == {k \in DOMAIN t : \A i \in DOMAIN fs : buildFilterClause(fs[i], Row(k))}
            keys == Ordered(ks)
<1>1. ks \in SUBSET DOMAIN t
  OBVIOUS
<1>2. IsFiniteSet(ks)
  BY <1>1, FS_Subset
<1>3. Selected(t, fs) = [i \in DOMAIN keys |-> Row(keys[i])]
  BY DEF Selected
<1>. HIDE DEF ks
<1>4. PICK n \in Nat : DOMAIN keys = 1..n
  <2>1. ks \in SUBSET Int
    BY <1>1
  <2>. QED BY <1>2, <2>1, OrderedIs
<1>. HIDE DEF keys, Row
<1>5. PICK s : s = Selected(t, fs)
  OBVIOUS
<1>6. s = [i \in 1..n |-> Row(keys[i])]
  BY <1>3, <1>4, <1>5
<1>7. s \in [1..n -> {Row(keys[i]) : i \in 1..n}]
  BY <1>6
<1>8. PICK R : R = {Row(keys[i]) : i \in 1..n}
  OBVIOUS
<1>9. s \in [1..n -> R]
  BY <1>7, <1>8, Zenon
<1>10. s \in Seq(R)
  BY <1>9
<1>. QED BY <1>5, <1>10

\* Going through the pages of any finite table with any filters shows the selected rows, once and in order.
LEMMA PagesJoined ==
    ASSUME NEW t, DOMAIN t \in SUBSET Int, IsFiniteSet(DOMAIN t), NEW fs
    PROVE  PagesShow(t, fs)
<1>1. PICK s : s = Selected(t, fs)
  OBVIOUS
<1>2. PICK S : s \in Seq(S)
  BY <1>1, SelectedSeq
<1>3. PICK last \in Nat \ {0} : last = lastPage(Len(s), PageSize) /\ Len(s) <= last * PageSize
  <2>1. Len(s) \in Nat
    BY <1>2
  <2>. QED BY <2>1, LastPageReaches, GridAssumption
<1>4. FetchTablePage(t, 1, fs).last = last
  BY <1>1, <1>3 DEF FetchTablePage
<1>5. PICK g : g = [p \in 1..last |-> FetchTablePage(t, p, fs).data]
  OBVIOUS
<1>6. ASSUME NEW p \in 1..last PROVE g[p] = LimitClause(s, PageSize, (p - 1) * PageSize)
  <2>1. g[p] = FetchTablePage(t, p, fs).data
    BY <1>5
  <2>2. ~(p < 1)
    OBVIOUS
  <2>. QED BY <1>1, <2>1, <2>2 DEF FetchTablePage
<1>7. UpTo(g, last) = SubSeq(s, 1, PageEnd(last, PageSize, Len(s)))
  BY <1>2, <1>6, PagesJoin, GridAssumption
<1>8. PICK m \in Nat : m = last * PageSize /\ Len(s) <= m
  BY <1>3, GridAssumption
<1>9. PageEnd(last, PageSize, Len(s)) = Len(s)
  BY <1>2, <1>8 DEF PageEnd
<1>10. SubSeq(s, 1, Len(s)) = s
  BY <1>2
<1>11. FlattenSeq(g) = UpTo(g, last)
  <2>1. g = [p \in 1..last |-> g[p]]
    BY <1>5, Zenon
  <2>. QED BY <2>1, Zenon DEF UpTo
<1>. QED BY <1>1, <1>4, <1>5, <1>7, <1>9, <1>10, <1>11, Zenon DEF PagesShow

\* The table is finite.
RowsFinite == IsFiniteSet(DOMAIN rows) /\ DOMAIN rows \subseteq Pk

LEMMA RowsFiniteInit == GridInit => RowsFinite
<1>1. SUFFICES ASSUME NEW ks \in SUBSET Pk, NEW v \in RowVal, rows = [k \in ks |-> v] PROVE RowsFinite
  BY DEF GridInit
<1>2. DOMAIN rows = ks
  BY <1>1
<1>3. IsFiniteSet(ks)
  BY FS_Subset, GridAssumption
<1>. QED BY <1>2, <1>3 DEF RowsFinite

LEMMA RowsFiniteStep == RowsFinite /\ [GridNext]_gridvars => RowsFinite'
<1>1. SUFFICES ASSUME RowsFinite, DOMAIN rows' \subseteq Pk PROVE RowsFinite'
  <2>1. ASSUME DOMAIN rows \subseteq Pk, [GridNext]_gridvars PROVE DOMAIN rows' \subseteq Pk
    BY <2>1 DEF GridNext, gridvars, handleTabulatorAjaxRequest, handleGridFormOpen, handleGridFormSave,
       handleGridFormCancel, handleGridBatchDelete, gridRefresh, setPage, openRow, newRecord, cancel, save, deleteRows,
       receive, outsideWrite, Ask, Answers, GridInsert, GridUpdate, GridDeleteMany
  <2>. QED BY <1>1, <2>1 DEF RowsFinite
<1>2. IsFiniteSet(DOMAIN rows')
  BY <1>1, FS_Subset, GridAssumption
<1>. QED BY <1>1, <1>2 DEF RowsFinite

\* Going through the pages 1..last_page shows every selected row once and in order, whatever writes the user and other
\* programs make, for every page size and every finite set of keys (FetchTablePage, LimitClause and the last_page of
\* tabledb.go).
THEOREM PagesCorrect == GridSpec => []PagesCover
<1>1. RowsFinite => PagesCover
  <2>1. SUFFICES ASSUME RowsFinite PROVE PagesCover
    OBVIOUS
  <2>2. IsFiniteSet(DOMAIN rows) /\ DOMAIN rows \in SUBSET Int
    BY <2>1, GridAssumption DEF RowsFinite
  <2>3. ASSUME NEW fs PROVE PagesShow(rows, fs)
    BY <2>2, PagesJoined, Zenon
  <2>. QED BY <2>3 DEF PagesCover
<1>. QED BY <1>1, RowsFiniteInit, RowsFiniteStep, PTL DEF GridSpec

-----------------------------------------------------------------------------
(* Page: where the controls of a form are placed.                          *)

\* The order of a form names its own controls.
OrderOK == \A f \in Form : order[f] \in Seq(FormControls[f])

\* g[i] is what cell i shows of s.
Serves(g, s, c, plain, at, cells, k) ==
    \A i \in 1..k : \E B : g[i] = Filter(s, B) /\ (c \in B <=> plain /\ at = cells[i])
ShownOnce(g, s, c, plain, at, cells, k) ==
    Filter(UpTo(g, k), {c}) = IF plain /\ \E i \in 1..k : cells[i] = at THEN Filter(s, {c}) ELSE <<>>

\* The occurrences of c in what the cells 1..k show.
LEMMA CellsHold ==
    ASSUME NEW S, NEW s \in Seq(S), NEW c, NEW cells, NEW k \in Nat, NEW g,
           NEW plain \in BOOLEAN, NEW at,
           Distinct(cells, k), Serves(g, s, c, plain, at, cells, k)
    PROVE  ShownOnce(g, s, c, plain, at, cells, k)
<1>1. PICK v : v = Filter(s, {c})
  OBVIOUS
<1>2. v \in Seq(S)
  BY <1>1, FilterType
<1>3. ASSUME NEW i \in 1..k PROVE g[i] \in Seq(S) /\ Filter(g[i], {c}) = IF plain /\ at = cells[i] THEN v ELSE <<>>
  <2>1. PICK B : g[i] = Filter(s, B) /\ (c \in B <=> plain /\ at = cells[i])
    BY Zenon DEF Serves
  <2>2. Filter(s, B) \in Seq(S) /\ Filter(Filter(s, B), {c}) = Filter(s, B \cap {c}) /\ Filter(s, {}) = <<>>
    <3>1. Filter(s, B) \in Seq(S)
      BY FilterType
    <3>2. Filter(Filter(s, B), {c}) = Filter(s, B \cap {c})
      BY FilterTwice
    <3>3. Filter(s, {}) = <<>>
      BY FilterNone
    <3>. QED BY <3>1, <3>2, <3>3
  <2>3. B \cap {c} = IF plain /\ at = cells[i] THEN {c} ELSE {}
    BY <2>1
  <2>. QED BY <1>1, <2>1, <2>2, <2>3, Zenon
<1>4. InOne(S, g, c, v, plain, at, cells, k)
  BY <1>2, <1>3, Zenon DEF InOne
<1>5. HeldOnce(g, c, v, plain, at, cells, k)
  BY <1>4, OneHolds, Zenon
<1>. QED BY <1>1, <1>5, Zenon DEF HeldOnce, ShownOnce

LEMMA FilterAbsent == ASSUME NEW S, NEW s \in Seq(S), NEW c, c \notin Range(s) PROVE Filter(s, {c}) = <<>>
<1>1. s \in Seq(Range(s))
  BY DEF Range
<1>2. Range(s) \cap {c} = {}
  OBVIOUS
<1>. QED BY <1>1, <1>2, FilterNone

\* The cells of a form are distinct and one of them is the bucket of each control.
LEMMA CellsServe ==
    ASSUME NEW f \in Form, order[f] \in Seq(FormControls[f]), IsInjective(Cells[f])
    PROVE  /\ \E S : cellsOf(f) \in Seq(S)
           /\ \A i, j \in 1..Len(cellsOf(f)) : cellsOf(f)[i] = cellsOf(f)[j] => i = j
           /\ \A c \in On(f) : shellControl(c) \/ \E i \in 1..Len(cellsOf(f)) : cellsOf(f)[i] = bucket(f, c)
<1>1. PICK d : d = Cells[f]
  OBVIOUS
<1>2. d \in Seq(STRING) /\ \A i, j \in 1..Len(d) : d[i] = d[j] => i = j
  BY <1>1, PageAssumption DEF IsInjective
<1>3. \A c : bucket(f, c) = "main" \/ \E i \in 1..Len(d) : d[i] = bucket(f, c)
  BY <1>1, <1>2 DEF bucket, Range
<1>4. CASE "main" \in Range(d) \/ \A c \in On(f) : shellControl(c) \/ bucket(f, c) # "main"
  <2>1. cellsOf(f) = d
    BY <1>1, <1>4 DEF cellsOf
  <2>2. "main" \in Range(d) => \E i \in 1..Len(d) : d[i] = "main"
    BY <1>2 DEF Range
  <2>3. \A c \in On(f) : shellControl(c) \/ \E i \in 1..Len(d) : d[i] = bucket(f, c)
    BY <1>3, <1>4, <2>2, Zenon
  <2>. QED BY <1>2, <2>1, <2>3, Zenon
<1>5. CASE ~("main" \in Range(d) \/ \A c \in On(f) : shellControl(c) \/ bucket(f, c) # "main")
  <2>1. PICK e : e = Append(d, "main")
    OBVIOUS
  <2>2. cellsOf(f) = e
    BY <1>1, <1>5, <2>1 DEF cellsOf
  <2>0. PICK S, m : S = STRING \cup {"main"} /\ m = "main"
    OBVIOUS
  <2>3. e \in Seq(S) /\ Len(e) = Len(d) + 1 /\ (\A i \in 1..Len(d) : e[i] = d[i]) /\ e[Len(d) + 1] = "main"
    <3>1. e = Append(d, m)
      BY <2>0, <2>1, Zenon
    <3>3. d \in Seq(S) /\ m \in S
      <4>1. STRING \subseteq S
        BY <2>0
      <4>2. Seq(STRING) \subseteq Seq(S)
        BY <4>1, SeqMonotonic
      <4>. QED BY <1>2, <2>0, <4>2
    <3>2. e \in Seq(S) /\ Len(e) = Len(d) + 1 /\ (\A i \in 1..Len(d) : e[i] = d[i]) /\ e[Len(d) + 1] = m
      BY <3>1, <3>3, AppendProperties
    <3>. QED BY <2>0, <3>2, Zenon
  <2>4. \A i \in 1..Len(d) : d[i] # "main"
    BY <1>2, <1>5 DEF Range
  <2>5. \A i, j \in 1..Len(e) : e[i] = e[j] => i = j
    BY <1>2, <2>3, <2>4
  <2>6. \A c : \E i \in 1..Len(e) : e[i] = bucket(f, c)
    BY <1>2, <1>3, <2>3
  <2>. QED BY <2>2, <2>3, <2>5, <2>6, Zenon
<1>. QED BY <1>4, <1>5, Zenon

Plain == {c \in Ctrl : ~shellControl(c)}
Shell == {c \in Ctrl : shellControl(c)}

\* The occurrences of a control outside the shell.
LEMMA BodyHolds ==
    ASSUME NEW f \in Form, order[f] \in Seq(FormControls[f]), IsInjective(Cells[f]), NEW c \in Ctrl,
           NEW body, body = IF Cells[f] = <<>> THEN renderVerticalControls(f) ELSE renderGridForm(f)
    PROVE  /\ body \in Seq(FormControls[f])
           /\ Filter(body, {c}) = IF shellControl(c) THEN <<>> ELSE Filter(order[f], {c})
<1>1. PICK S, s : S = FormControls[f] /\ s = order[f]
  OBVIOUS
<1>2. s \in Seq(S)
  BY <1>1
<1>3. Filter(s, {}) = <<>>
  BY <1>2, FilterNone
<1>4. CASE Cells[f] = <<>>
  <2>1. body = Filter(s, Plain)
    BY <1>1, <1>4 DEF renderVerticalControls, Plain
  <2>2. Filter(body, {c}) = Filter(s, Plain \cap {c})
    BY <1>2, <2>1, FilterTwice
  <2>3. Plain \cap {c} = IF shellControl(c) THEN {} ELSE {c}
    BY DEF Plain
  <2>4. body \in Seq(S)
    BY <1>2, <2>1, FilterType
  <2>. QED BY <1>1, <1>3, <2>2, <2>3, <2>4, Zenon
<1>5. CASE Cells[f] # <<>>
  <2>1. PICK cells : cells = cellsOf(f)
    OBVIOUS
  <2>2. /\ \E R : cells \in Seq(R)
        /\ \A i, j \in 1..Len(cells) : cells[i] = cells[j] => i = j
        /\ \A x \in On(f) : shellControl(x) \/ \E i \in 1..Len(cells) : cells[i] = bucket(f, x)
    BY <2>1, CellsServe
  <2>3. PICK k \in Nat : k = Len(cells) /\ DOMAIN cells = 1..k
    BY <2>2
  <2>4. PICK g : g = [i \in 1..k |-> Filter(s, {x \in Ctrl : ~shellControl(x) /\ bucket(f, x) = cells[i]})]
    OBVIOUS
  <2>5. body = FlattenSeq(g)
    <3>1. g = [i \in DOMAIN cellsOf(f) |-> Filter(order[f], {x \in Ctrl : ~shellControl(x) /\ bucket(f, x) = cellsOf(f)[i]})]
      BY <1>1, <2>1, <2>3, <2>4, Zenon
    <3>. QED BY <1>5, <3>1, Zenon DEF renderGridForm
  <2>6. body = UpTo(g, k)
    <3>1. g = [i \in 1..k |-> g[i]]
      BY <2>4, Zenon
    <3>. QED BY <2>5, <3>1, Zenon DEF UpTo
  <2>7. \A i \in 1..k : g[i] = Filter(s, {x \in Ctrl : ~shellControl(x) /\ bucket(f, x) = cells[i]})
    BY <2>4, Zenon
  <2>8. \A i \in 1..k : g[i] \in Seq(S)
    BY <1>2, <2>7, FilterType
  <2>9. body \in Seq(S)
    BY <2>6, <2>8, UpToType
  <2>10. PICK plain, at : plain \in BOOLEAN /\ plain = ~shellControl(c) /\ at = bucket(f, c)
    <3>1. shellControl(c) \in BOOLEAN
      BY DEF shellControl
    <3>. QED BY <3>1
  <2>11. ASSUME NEW i \in 1..k
         PROVE  \E B : g[i] = Filter(s, B) /\ (c \in B <=> plain /\ at = cells[i])
    <3>1. PICK B : B = {x \in Ctrl : ~shellControl(x) /\ bucket(f, x) = cells[i]}
      OBVIOUS
    <3>2. c \in B <=> plain /\ at = cells[i]
      BY <2>10, <3>1
    <3>3. g[i] = Filter(s, B)
      BY <2>7, <3>1, Zenon
    <3>. QED BY <3>2, <3>3, Zenon
  <2>12. Filter(body, {c}) = IF plain /\ \E i \in 1..k : cells[i] = at THEN Filter(s, {c}) ELSE <<>>
    <3>1. Distinct(cells, k)
      BY <2>2, <2>3 DEF Distinct
    <3>2. Serves(g, s, c, plain, at, cells, k)
      BY <2>11, Zenon DEF Serves
    <3>3. Filter(UpTo(g, k), {c}) = IF plain /\ \E i \in 1..k : cells[i] = at THEN Filter(s, {c}) ELSE <<>>
      <4>0. plain \in BOOLEAN
        BY <2>10
      <4>1. ShownOnce(g, s, c, plain, at, cells, k)
        BY <1>2, <3>1, <3>2, <4>0, CellsHold, Zenon
      <4>. QED BY <4>1, Zenon DEF ShownOnce
    <3>. QED BY <2>6, <3>3, Zenon
  <2>13. CASE c \in Range(s)
    <3>1. c \in On(f)
      <4>1. c \in S
        BY <1>2, <2>13 DEF Range
      <4>. QED BY <1>1, <2>13, <4>1 DEF On
    <3>2. plain => \E i \in 1..k : cells[i] = at
      BY <2>2, <2>3, <2>10, <3>1, Zenon
    <3>. QED BY <1>1, <2>9, <2>10, <2>12, <3>2, Zenon
  <2>14. CASE c \notin Range(s)
    <3>1. Filter(s, {c}) = <<>>
      BY <1>2, <2>14, FilterAbsent
    <3>. QED BY <1>1, <2>9, <2>12, <3>1, Zenon
  <2>. QED BY <2>13, <2>14
<1>. QED BY <1>4, <1>5

LEMMA FormHolds ==
    ASSUME NEW f \in Form, order[f] \in Seq(FormControls[f]), IsInjective(Cells[f]), NEW c \in Ctrl
    PROVE  Filter(renderForm(f), {c}) = Filter(order[f], {c})
<1>1. PICK body : body = IF Cells[f] = <<>> THEN renderVerticalControls(f) ELSE renderGridForm(f)
  OBVIOUS
<1>2. PICK S, s : S = FormControls[f] /\ s = order[f]
  OBVIOUS
<1>3. body \in Seq(S) /\ Filter(body, {c}) = IF shellControl(c) THEN <<>> ELSE Filter(s, {c})
  BY <1>1, <1>2, BodyHolds
<1>4. PICK h : h = Filter(s, Shell)
  OBVIOUS
<1>5. renderForm(f) = body \o h
  BY <1>1, <1>2, <1>4 DEF renderForm, Shell
<1>6. h \in Seq(S) /\ Filter(h, {c}) = Filter(s, Shell \cap {c})
  <2>1. s \in Seq(S)
    BY <1>2
  <2>2. Filter(s, Shell) \in Seq(S)
    BY <2>1, FilterType
  <2>3. Filter(Filter(s, Shell), {c}) = Filter(s, Shell \cap {c})
    BY <2>1, FilterTwice
  <2>. QED BY <1>4, <2>2, <2>3, Zenon
<1>7. Filter(body \o h, {c}) = Filter(body, {c}) \o Filter(h, {c})
  BY <1>3, <1>6, FilterConcat
<1>8. Filter(s, {}) = <<>>
  BY <1>2, FilterNone
<1>9. PICK u : u = Filter(s, {c})
  OBVIOUS
<1>10. u \o <<>> = u /\ <<>> \o u = u
  <2>1. u \in Seq(S)
    BY <1>2, <1>9, FilterType
  <2>. QED BY <2>1, ConcatEmptySeq
<1>11. CASE shellControl(c)
  <2>1. Shell \cap {c} = {c}
    BY <1>11 DEF Shell
  <2>. QED BY <1>2, <1>3, <1>5, <1>6, <1>7, <1>9, <1>10, <1>11, <2>1, Zenon
<1>12. CASE ~shellControl(c)
  <2>1. Shell \cap {c} = {}
    BY <1>12 DEF Shell
  <2>. QED BY <1>2, <1>3, <1>5, <1>6, <1>7, <1>8, <1>9, <1>10, <1>12, <2>1, Zenon
<1>. QED BY <1>11, <1>12

LEMMA OrderInit == PageInit => OrderOK
<1>1. SUFFICES ASSUME PageInit, NEW f \in Form PROVE order[f] \in Seq(FormControls[f])
  BY DEF OrderOK
<1>2. order[f] = SetToSeq(FormControls[f])
  BY <1>1 DEF PageInit
<1>3. FormControls[f] \in SUBSET Ctrl
  BY DEF FormControls
<1>4. IsFiniteSet(FormControls[f])
  BY <1>3, FS_Subset, PageAssumption
<1>. QED BY <1>2, <1>4, SetToSeqType

LEMMA OrderStep == OrderOK /\ [PageNext]_pagevars => OrderOK'
<1>1. SUFFICES ASSUME OrderOK, [PageNext]_pagevars PROVE OrderOK'
  OBVIOUS
<1>2. CASE UNCHANGED order
  BY <1>1, <1>2 DEF OrderOK
<1>3. ASSUME NEW c \in Ctrl, addControl(c) PROVE OrderOK'
  <2>1. Owner[c] \in Form
    BY PageAssumption
  <2>2. c \in FormControls[Owner[c]]
    BY <2>1 DEF FormControls
  <2>3. order' = [order EXCEPT ![Owner[c]] = Append(@, c)]
    BY <1>3 DEF addControl
  <2>4. SUFFICES ASSUME NEW f \in Form PROVE order'[f] \in Seq(FormControls[f])
    BY DEF OrderOK
  <2>5. order[f] \in Seq(FormControls[f])
    BY <1>1 DEF OrderOK
  <2>6. order'[f] = order[f] \/ (f = Owner[c] /\ order'[f] = Append(order[f], c))
    BY <2>3
  <2>7. PICK S, s : S = FormControls[f] /\ s = order[f] /\ s \in Seq(S)
    BY <2>5, Zenon
  <2>8. f = Owner[c] => Append(s, c) \in Seq(S)
    <3>1. c \in S => Append(s, c) \in Seq(S)
      BY <2>7, AppendProperties
    <3>. QED BY <2>2, <2>7, <3>1, Zenon
  <2>. QED BY <2>5, <2>6, <2>7, <2>8, Zenon
<1>4. UNCHANGED order \/ \E c \in Ctrl : addControl(c)
  BY <1>1 DEF PageNext, pagevars, ctrlRefresh, executeEvent, setValue, setProperty, tableLine, tableSetData, tabUpdate,
     chartUpdate, edit, setCell, formShow, formRefresh, click, handleEvent, deliver, Send
<1>. QED BY <1>2, <1>3, <1>4

\* Whatever cells a grid form has and its controls name, and whatever the script adds and moves, the form renders every
\* control as often as it was added: none disappears in a cell that is not defined, none is shown twice (renderForm,
\* renderGridForm and parseCells of render.go).  An array of cells that repeats an id is left out: it shows the controls
\* of that cell once for each.
THEOREM PlacedCorrect ==
    ASSUME \A f \in Form : IsInjective(Cells[f])
    PROVE  PageSpec => []NoControlLost
<1>1. OrderOK => NoControlLost
  <2>1. SUFFICES ASSUME OrderOK, NEW f \in Form, NEW c \in Ctrl
                 PROVE  Len(Filter(renderForm(f), {c})) = Len(Filter(order[f], {c}))
    BY DEF NoControlLost
  <2>2. order[f] \in Seq(FormControls[f])
    BY <2>1 DEF OrderOK
  <2>. QED BY <2>2, FormHolds, Zenon
<1>. QED BY <1>1, OrderInit, OrderStep, PTL DEF PageSpec

-----------------------------------------------------------------------------
(* Builder: what a save does to the user's code.                           *)

LEMMA SeqIs == ASSUME NEW S, NEW s \in Seq(S) PROVE IsSeq(s) /\ Range(s) \subseteq S
BY DEF IsSeq, Range

LEMMA SeqOver == ASSUME NEW s, NEW S, IsSeq(s), Range(s) \subseteq S PROVE s \in Seq(S)
<1>1. PICK R : R = Range(s)
  OBVIOUS
<1>2. Seq(R) \subseteq Seq(S)
  BY <1>1, SeqMonotonic
<1>. QED BY <1>1, <1>2 DEF IsSeq

\* The range may be any set the sequence is over.
LEMMA UserCodeOver ==
    ASSUME NEW S, NEW s \in Seq(S)
    PROVE  UserCode(s) = Filter(s, {x \in S : IsUserCode(x)})
<1>1. PICK R : R = Range(s)
  OBVIOUS
<1>2. s \in Seq(R) /\ R \subseteq S
  BY <1>1, SeqIs DEF IsSeq
<1>3. PICK T, U : T = {x \in R : IsUserCode(x)} /\ U = {x \in S : IsUserCode(x)}
  OBVIOUS
<1>4. R \cap T = R \cap U
  BY <1>2, <1>3
<1>5. Filter(s, T) = Filter(s, U)
  BY <1>2, <1>4, FilterSame
<1>. QED BY <1>1, <1>3, <1>5, Zenon DEF UserCode

\* Generated text: a sequence without user code.
IsGen(s) == IsSeq(s) /\ \A x \in Range(s) : ~IsUserCode(x)

LEMMA GenOver == ASSUME NEW S, NEW s \in Seq(S), \A x \in S : ~IsUserCode(x) PROVE IsGen(s)
BY SeqIs DEF IsGen

LEMMA GenEmpty == IsGen(<<>>)
<1>1. <<>> \in Seq({})
  BY EmptySeq
<1>2. PICK S : S = {}
  OBVIOUS
<1>3. <<>> \in Seq(S) /\ \A x \in S : ~IsUserCode(x)
  BY <1>1, <1>2
<1>. QED BY <1>3, GenOver

LEMMA GenOne == ASSUME NEW x, ~IsUserCode(x) PROVE IsGen(<<x>>)
<1>1. PICK S, s : S = {x} /\ s = <<x>>
  OBVIOUS
<1>2. s \in Seq(S) /\ \A y \in S : ~IsUserCode(y)
  BY <1>1
<1>3. IsGen(s)
  BY <1>2, GenOver
<1>. QED BY <1>1, <1>3

LEMMA GenNone == ASSUME NEW s, IsGen(s) PROVE UserCode(s) = <<>>
<1>1. s \in Seq(Range(s))
  BY DEF IsGen, IsSeq
<1>2. {x \in Range(s) : IsUserCode(x)} = {}
  BY DEF IsGen
<1>3. Range(s) \cap {} = {}
  OBVIOUS
<1>. QED BY <1>1, <1>2, <1>3, FilterNone, Zenon DEF UserCode

LEMMA SeqConcat ==
    ASSUME NEW s, NEW t, IsSeq(s), IsSeq(t)
    PROVE  IsSeq(s \o t) /\ Range(s \o t) \subseteq Range(s) \cup Range(t)
<1>1. PICK S : S = Range(s) \cup Range(t)
  OBVIOUS
<1>2. s \in Seq(S) /\ t \in Seq(S)
  BY <1>1, SeqOver
<1>3. s \o t \in Seq(S)
  BY <1>2, ConcatProperties
<1>. QED BY <1>1, <1>3, SeqIs, Zenon

LEMMA GenConcat == ASSUME NEW s, NEW t, IsGen(s), IsGen(t) PROVE IsGen(s \o t)
BY SeqConcat DEF IsGen

LEMMA CodeConcat ==
    ASSUME NEW s, NEW t, IsSeq(s), IsSeq(t)
    PROVE  UserCode(s \o t) = UserCode(s) \o UserCode(t)
<1>1. PICK S : S = Range(s) \cup Range(t)
  OBVIOUS
<1>2. s \in Seq(S) /\ t \in Seq(S)
  BY <1>1, SeqOver
<1>3. PICK U : U = {x \in S : IsUserCode(x)}
  OBVIOUS
<1>4. s \o t \in Seq(S)
  BY <1>2, ConcatProperties
<1>5. UserCode(s) = Filter(s, U) /\ UserCode(t) = Filter(t, U) /\ UserCode(s \o t) = Filter(s \o t, U)
  BY <1>2, <1>3, <1>4, UserCodeOver, Zenon
<1>6. Filter(s \o t, U) = Filter(s, U) \o Filter(t, U)
  BY <1>2, FilterConcat
<1>. QED BY <1>5, <1>6, Zenon

LEMMA CodeType == ASSUME NEW s, IsSeq(s) PROVE IsSeq(UserCode(s)) /\ Range(UserCode(s)) \subseteq Range(s)
<1>1. PICK S, U : S = Range(s) /\ U = {x \in Range(s) : IsUserCode(x)}
  OBVIOUS
<1>2. s \in Seq(S)
  BY <1>1 DEF IsSeq
<1>3. Filter(s, U) \in Seq(S)
  BY <1>2, FilterType
<1>. QED BY <1>1, <1>3, SeqIs, Zenon DEF UserCode

\* Lists of sequences.
Pieces(p, n) == p = [i \in 1..n |-> p[i]]

LEMMA FlattenGen ==
    ASSUME NEW n \in Nat, NEW p, Pieces(p, n), \A i \in 1..n : IsGen(p[i])
    PROVE  IsGen(FlattenSeq(p))
<1>1. PICK S : S = UNION {Range(p[i]) : i \in 1..n}
  OBVIOUS
<1>2. \A x \in S : ~IsUserCode(x)
  BY <1>1 DEF IsGen
<1>3. ASSUME NEW i \in 1..n PROVE p[i] \in Seq(S)
  <2>1. IsSeq(p[i]) /\ Range(p[i]) \subseteq S
    BY <1>1 DEF IsGen
  <2>. QED BY <2>1, SeqOver
<1>4. UpTo(p, n) \in Seq(S)
  BY <1>3, UpToType
<1>5. FlattenSeq(p) = UpTo(p, n)
  BY Zenon DEF Pieces, UpTo
<1>. QED BY <1>2, <1>4, <1>5, GenOver, Zenon

\* The pieces hold what the statements of s hold of user code: so does what they are joined to.
Reads(p, s, n) == \A i \in 1..n : IsSeq(p[i]) /\ UserCode(p[i]) = IF IsUserCode(s[i]) THEN <<s[i]>> ELSE <<>>

LEMMA FlattenReads ==
    ASSUME NEW n \in Nat, NEW p, Pieces(p, n), NEW s, IsSeq(s), n = Len(s), Reads(p, s, n)
    PROVE  IsSeq(FlattenSeq(p)) /\ UserCode(FlattenSeq(p)) = UserCode(s)
<1>1. PICK S : S = Range(s) \cup UNION {Range(p[i]) : i \in 1..n}
  OBVIOUS
<1>2. PICK U : U = {x \in S : IsUserCode(x)}
  OBVIOUS
<1>3. ASSUME NEW i \in 1..n PROVE p[i] \in Seq(S)
  <2>1. IsSeq(p[i]) /\ Range(p[i]) \subseteq S
    BY <1>1 DEF Reads
  <2>. QED BY <2>1, SeqOver
<1>4. s \in Seq(S) /\ DOMAIN s = 1..n
  <2>1. s \in Seq(S)
    BY <1>1, SeqOver
  <2>. QED BY <2>1
<1>5. PICK g : g = [i \in 1..n |-> Kept(s[i], U)]
  OBVIOUS
<1>6. \A i \in 1..n : g[i] = Kept(s[i], U) /\ s[i] \in S
  BY <1>4, <1>5
<1>7. ASSUME NEW i \in 1..n PROVE g[i] \in Seq(S) /\ Filter(p[i], U) = g[i]
  <2>1. p[i] \in Seq(S)
    BY <1>3
  <2>2. UserCode(p[i]) = Filter(p[i], U)
    BY <1>2, <2>1, UserCodeOver, Zenon
  <2>3. Kept(s[i], U) = IF IsUserCode(s[i]) THEN <<s[i]>> ELSE <<>>
    BY <1>2, <1>6 DEF Kept
  <2>4. Kept(s[i], U) \in Seq(S \cap U) /\ Seq(S \cap U) \subseteq Seq(S)
    BY <1>6, KeptType, SeqMonotonic
  <2>. QED BY <1>6, <2>2, <2>3, <2>4, Zenon DEF Reads
<1>. DEFINE N == {k \in Nat : k <= n => Filter(UpTo(p, k), U) = UpTo(g, k)}
<1>8. 0 \in N
  BY UpToZero, FilterEmpty
<1>9. ASSUME NEW k \in Nat, k \in N PROVE k + 1 \in N
  <2>1. SUFFICES ASSUME k + 1 <= n PROVE Filter(UpTo(p, k + 1), U) = UpTo(g, k + 1)
    OBVIOUS
  <2>2. k <= n /\ k + 1 \in 1..n /\ \A i \in 1..(k + 1) : i \in 1..n
    BY <2>1
  <2>3. \A i \in 1..(k + 1) : p[i] \in Seq(S)
    BY <1>3, <2>2
  <2>4. \A i \in 1..(k + 1) : g[i] \in Seq(S)
    BY <1>7, <2>2
  <2>5. UpTo(p, k) \in Seq(S) /\ UpTo(p, k + 1) = UpTo(p, k) \o p[k + 1]
    BY <2>3, UpToStep
  <2>6. UpTo(g, k + 1) = UpTo(g, k) \o g[k + 1]
    BY <2>4, UpToStep
  <2>7. PICK x, y : x = UpTo(p, k) /\ y = p[k + 1]
    OBVIOUS
  <2>8. x \in Seq(S) /\ y \in Seq(S)
    BY <1>3, <2>2, <2>5, <2>7
  <2>9. Filter(x \o y, U) = Filter(x, U) \o Filter(y, U)
    <3>. HIDE DEF N
    <3>. QED BY <2>8, FilterConcat
  <2>10. Filter(x, U) = UpTo(g, k)
    BY <1>9, <2>2, <2>7
  <2>11. Filter(y, U) = g[k + 1]
    BY <1>7, <2>2, <2>7
  <2>. QED BY <2>5, <2>6, <2>7, <2>9, <2>10, <2>11, Zenon
<1>. HIDE DEF N
<1>10. n \in N /\ n <= n
  <2>1. Nat \subseteq N
    BY <1>8, <1>9, Induct
  <2>. QED BY <2>1
<1>11. Filter(UpTo(p, n), U) = UpTo(g, n)
  BY <1>10 DEF N
<1>12. FlattenSeq(p) = UpTo(p, n)
  BY Zenon DEF Pieces, UpTo
<1>13. Filter(s, U) = UpTo(g, n)
  <2>1. [i \in 1..n |-> g[i]] = [i \in DOMAIN s |-> Kept(s[i], U)]
    BY <1>4, <1>6, Zenon
  <2>. QED BY <2>1, Zenon DEF Filter, UpTo, Kept
<1>14. UpTo(p, n) \in Seq(S)
  BY <1>3, UpToType
<1>15. UserCode(UpTo(p, n)) = Filter(UpTo(p, n), U) /\ UserCode(s) = Filter(s, U)
  BY <1>2, <1>4, <1>14, UserCodeOver, Zenon
<1>16. IsSeq(UpTo(p, n))
  BY <1>14, SeqIs
<1>. QED BY <1>11, <1>12, <1>13, <1>15, <1>16, Zenon

\* A list whose members are given one by one.
LEMMA PiecesSeq == ASSUME NEW n \in Nat, NEW p, Pieces(p, n) PROVE IsSeq(p) /\ DOMAIN p = 1..n
<1>1. PICK R : R = Range(p)
  OBVIOUS
<1>2. DOMAIN p = 1..n
  BY Zenon DEF Pieces
<1>3. \A i \in 1..n : p[i] \in R
  BY <1>1, <1>2 DEF Range
<1>4. [i \in 1..n |-> p[i]] \in Seq(R)
  BY <1>3
<1>. QED BY <1>1, <1>2, <1>4, Zenon DEF Pieces, IsSeq

LEMMA SeqPieces == ASSUME NEW s, IsSeq(s) PROVE \E n \in Nat : n = Len(s) /\ DOMAIN s = 1..n /\ Pieces(s, n)
<1>1. PICK R : R = Range(s) /\ s \in Seq(R)
  BY DEF IsSeq
<1>. QED BY <1>1 DEF Pieces

LEMMA AtMembers ==
    ASSUME NEW s, IsSeq(s), NEW S
    PROVE  /\ \E n \in Nat : Pieces(At(s, S), n)
           /\ IsSeq(At(s, S))
           /\ \A k \in DOMAIN At(s, S) : \E i \in DOMAIN s : i \in S /\ At(s, S)[k] = s[i]
<1>1. PICK n \in Nat : n = Len(s) /\ DOMAIN s = 1..n
  BY SeqPieces
<1>2. PICK all, D : D = 1..n /\ all = [i \in DOMAIN s |-> i]
  OBVIOUS
<1>3. all \in Seq(D)
  BY <1>1, <1>2
<1>4. PICK idx : idx = Filter(all, S)
  OBVIOUS
<1>5. idx \in Seq(D \cap S)
  BY <1>3, <1>4, FilterType
<1>6. PICK m \in Nat : m = Len(idx) /\ DOMAIN idx = 1..m
  BY <1>5
<1>7. \A k \in 1..m : idx[k] \in D /\ idx[k] \in S
  BY <1>5, <1>6
<1>8. At(s, S) = [k \in 1..m |-> s[idx[k]]]
  BY <1>2, <1>4, <1>6, Zenon DEF At
<1>9. Pieces(At(s, S), m) /\ DOMAIN At(s, S) = 1..m
  BY <1>8, Zenon DEF Pieces
<1>10. ASSUME NEW k \in 1..m PROVE \E i \in DOMAIN s : i \in S /\ At(s, S)[k] = s[i]
  <2>1. At(s, S)[k] = s[idx[k]]
    BY <1>8, Zenon
  <2>. QED BY <1>1, <1>2, <1>7, <2>1
<1>. QED BY <1>9, <1>10, PiecesSeq, Zenon

LEMMA MinIn == ASSUME NEW n \in Nat, NEW S \in SUBSET (1..n), S # {} PROVE Min(S) \in S /\ \A i \in S : Min(S) <= i
<1>1. S \in SUBSET Nat
  OBVIOUS
<1>2. \E i \in S : \A j \in S : i <= j
  BY <1>1, MinNat
<1>. QED BY <1>2, Zenon DEF Min

LEMMA MaxIn == ASSUME NEW n \in Nat, NEW S \in SUBSET (1..n), S # {} PROVE Max(S) \in S
<1>1. S \in SUBSET Int /\ IsFiniteSet(S)
  <2>1. IsFiniteSet(1..n)
    BY FS_Interval
  <2>2. PICK I : I = 1..n
    OBVIOUS
  <2>3. IsFiniteSet(S)
    BY <2>1, <2>2, FS_Subset
  <2>. QED BY <2>3
<1>2. PICK m \in S : \A i \in S : i <= m
  BY <1>1, HasMax
<1>3. \A i \in S : m >= i
  BY <1>1, <1>2
<1>. QED BY <1>3, Zenon DEF Max

\* The statements the builder owns hold no user code.
LEMMA OwnedGen ==
    ASSUME NEW src, IsSeq(src), NEW f, NEW i \in Owned(src, f)
    PROVE  i \in DOMAIN src /\ ~IsUserCode(src[i])
<1>1. PICK n \in Nat : DOMAIN src = 1..n
  BY SeqPieces
<1>2. PICK news : news = {j \in DOMAIN src : src[j].form = f /\ src[j].stmt = "new" /\ src[j].bare}
  OBVIOUS
<1>3. PICK first : first = Min(news)
  OBVIOUS
<1>4. news # {} /\ ( \/ i = first
                     \/ i \in DOMAIN src /\ src[i].bare /\ src[i].stmt \in {"ctrl", "on"}
                     \/ i \in DOMAIN src /\ src[i].bare /\ src[i].stmt = "show")
  BY <1>2, <1>3 DEF Owned
<1>5. first \in news
  BY <1>1, <1>2, <1>3, <1>4, MinIn
<1>6. first \in DOMAIN src /\ src[first].stmt = "new" /\ src[first].bare
  BY <1>2, <1>5
<1>7. i \in DOMAIN src /\ src[i].bare /\ src[i].stmt # "code"
  BY <1>4, <1>6
<1>. QED BY <1>7 DEF IsUserCode

LEMMA ImportedForm == ASSUME NEW src, IsSeq(src), NEW f PROVE IsForm(importForm(src, f))
<1>1. PICK n \in Nat : DOMAIN src = 1..n
  BY SeqPieces
<1>2. PICK ctrls, on : ctrls = importControl(src, f) /\ on = importFormOn(src, f)
  OBVIOUS
<1>3. IsSeq(ctrls)
  <2>1. PICK m, o : m \in Nat /\ o = OwnedStmts(src, f, "ctrl") /\ Pieces(o, m)
    BY AtMembers, Zenon DEF OwnedStmts
  <2>2. DOMAIN o = 1..m
    BY <2>1, PiecesSeq
  <2>3. ctrls = [k \in 1..m |-> o[k].arg]
    BY <1>2, <2>1, <2>2, Zenon DEF importControl
  <2>4. Pieces(ctrls, m)
    BY <2>3, Zenon DEF Pieces
  <2>. QED BY <2>1, <2>4, PiecesSeq, Zenon
<1>4. ASSUME NEW k \in DOMAIN on.bodies PROVE on.bodies[k].stmt = "on" /\ on.bodies[k].bare
  <2>0. PICK bare : bare = {i \in {j \in DOMAIN src : j > Min(Owned(src, f)) /\ src[j].form = f /\ src[j].stmt = "on"} : src[i].bare}
    OBVIOUS
  <2>1. /\ on.bodies = [x \in {src[i].arg : i \in bare} |-> src[Max({i \in bare : src[i].arg = x})]]
        /\ bare \subseteq DOMAIN src
        /\ \A i \in bare : src[i].stmt = "on" /\ src[i].bare
    <3>1. on.bodies = [x \in {src[i].arg : i \in bare} |-> src[Max({i \in bare : src[i].arg = x})]]
      BY <1>2, <2>0, Zenon DEF importFormOn
    <3>2. bare \subseteq DOMAIN src /\ \A i \in bare : src[i].stmt = "on" /\ src[i].bare
      BY <2>0
    <3>. QED BY <3>1, <3>2, Zenon
  <2>2. k \in {src[i].arg : i \in bare}
    BY <2>1
  <2>3. PICK M : M = {i \in bare : src[i].arg = k}
    OBVIOUS
  <2>4. M # {} /\ M \in SUBSET (1..n) /\ M \subseteq bare
    BY <1>1, <2>1, <2>2, <2>3
  <2>5. Max(M) \in bare
    BY <2>4, MaxIn
  <2>6. on.bodies[k] = src[Max(M)]
    BY <2>1, <2>2, <2>3, Zenon
  <2>. QED BY <2>1, <2>5, <2>6, Zenon
<1>5. PICK title : title = src[Min(Owned(src, f))].arg
  OBVIOUS
<1>6. importForm(src, f) = [name |-> f, title |-> title, ctrls |-> ctrls, handlers |-> on.keys, bodies |-> on.bodies]
  BY <1>2, <1>5, Zenon DEF importForm
<1>. QED BY <1>3, <1>4, <1>6 DEF IsForm

LEMMA ImportDoc == ASSUME NEW src, IsSeq(src) PROVE IsDoc(Import(src))
<1>1. PICK names : names = importFormNew(src)
  OBVIOUS
<1>2. PICK m, firsts : /\ m \in Nat
                       /\ firsts = At(src, {i \in DOMAIN src : src[i].stmt = "new" /\ i \in Owned(src, src[i].form)})
                       /\ Pieces(firsts, m)
  BY AtMembers, Zenon
<1>3. DOMAIN firsts = 1..m
  BY <1>2, PiecesSeq
<1>4. names = [k \in 1..m |-> firsts[k].form]
  BY <1>1, <1>2, <1>3, Zenon DEF importFormNew
<1>5. Import(src) = [k \in 1..m |-> importForm(src, names[k])]
  <2>1. DOMAIN names = 1..m
    BY <1>4, Zenon
  <2>. QED BY <1>1, <2>1, Zenon DEF Import
<1>6. Pieces(Import(src), m)
  BY <1>5, Zenon DEF Pieces
<1>7. \A k \in 1..m : Import(src)[k] = importForm(src, names[k])
  BY <1>5, Zenon
<1>8. \A k \in 1..m : IsForm(Import(src)[k])
  BY <1>7, ImportedForm, Zenon
<1>. QED BY <1>2, <1>6, <1>8, PiecesSeq, Zenon DEF IsDoc

LEMMA RangeFinite == ASSUME NEW s, IsSeq(s) PROVE IsFiniteSet(ToSet(s))
<1>1. PICK n \in Nat : DOMAIN s = 1..n
  BY SeqPieces
<1>2. PICK I, T : I = 1..n /\ T = ToSet(s)
  OBVIOUS
<1>3. IsFiniteSet(I)
  BY <1>2, FS_Interval
<1>4. PICK g : g = [i \in I |-> s[i]]
  OBVIOUS
<1>5. g \in Surjection(I, T)
  BY <1>1, <1>2, <1>4 DEF Surjection, ToSet
<1>. QED BY <1>2, <1>3, <1>5, FS_Surjection

LEMMA OneSeq == ASSUME NEW x PROVE IsSeq(<<x>>)
<1>1. PICK S, s : S = {x} /\ s = <<x>>
  OBVIOUS
<1>2. s \in Seq(S)
  BY <1>1
<1>. QED BY <1>1, <1>2, SeqIs, Zenon

\* The statements of a form are all the builder's own.
LEMMA GeneratedForm ==
    ASSUME NEW form, IsForm(form), NEW orphans, IsFiniteSet(orphans), NEW emitShow
    PROVE  IsGen(GenerateFormLua(form, orphans, emitShow))
<1>1. IsSeq(form.ctrls)
  BY DEF IsForm
<1>2. IsGen(<<exportFormNew(form)>>)
  <2>1. ~IsUserCode(exportFormNew(form))
    BY DEF IsUserCode, exportFormNew, NewStmt, Stmt
  <2>. QED BY <2>1, GenOne, Zenon
<1>3. ASSUME NEW c PROVE IsGen(exportControl(form.name, c))
  <2>1. ~IsUserCode(Comment(c)) /\ ~IsUserCode(CtrlStmt(form.name, c))
    BY DEF IsUserCode, Comment, CtrlStmt, Stmt
  <2>2. IsGen(<<Comment(c)>>) /\ IsGen(<<CtrlStmt(form.name, c)>>)
    BY <2>1, GenOne, Zenon
  <2>3. PICK x : x = IF c \in Tables THEN <<Comment(c)>> ELSE <<>>
    OBVIOUS
  <2>4. IsGen(x)
    BY <2>2, <2>3, GenEmpty, Zenon
  <2>. QED BY <2>2, <2>3, <2>4, GenConcat, Zenon DEF exportControl
<1>4. PICK ctl1 : ctl1 = FlattenSeq([i \in DOMAIN form.ctrls |-> exportControl(form.name, form.ctrls[i])])
  OBVIOUS
<1>5. IsGen(ctl1)
  <2>1. PICK n \in Nat : DOMAIN form.ctrls = 1..n
    BY <1>1, SeqPieces, Zenon
  <2>2. PICK p : p = [i \in 1..n |-> exportControl(form.name, form.ctrls[i])]
    OBVIOUS
  <2>3. Pieces(p, n) /\ \A i \in 1..n : p[i] = exportControl(form.name, form.ctrls[i])
    BY <2>2, Zenon DEF Pieces
  <2>4. \A i \in 1..n : IsGen(p[i])
    BY <1>3, <2>3, Zenon
  <2>. QED BY <1>4, <2>1, <2>2, <2>3, <2>4, FlattenGen, Zenon
<1>6. PICK base : base = <<"@form">> \o form.ctrls
  OBVIOUS
<1>7. IsSeq(base)
  BY <1>1, <1>6, OneSeq, SeqConcat, Zenon
<1>8. IsGen(exportHandlers(form, orphans))
  <2>1. PICK all, T : all = base \o SetToSeq(orphans) /\ T = form.handlers \cap DOMAIN form.bodies
    OBVIOUS
  <2>2. IsSeq(all)
    <3>1. SetToSeq(orphans) \in Seq(orphans)
      BY SetToSeqType
    <3>2. IsSeq(SetToSeq(orphans))
      BY <3>1, SeqIs, Zenon
    <3>. QED BY <1>7, <2>1, <3>2, SeqConcat, Zenon
  <2>3. PICK S, keys : S = Range(all) /\ keys = Filter(all, T)
    OBVIOUS
  <2>4. keys \in Seq(S \cap T)
    <3>1. all \in Seq(S)
      BY <2>2, <2>3 DEF IsSeq
    <3>. QED BY <2>3, <3>1, FilterType
  <2>5. PICK n \in Nat : DOMAIN keys = 1..n /\ \A i \in 1..n : keys[i] \in DOMAIN form.bodies
    BY <2>1, <2>4
  <2>6. PICK p : p = [i \in 1..n |-> form.bodies[keys[i]]]
    OBVIOUS
  <2>7. p = exportHandlers(form, orphans)
    BY <1>6, <2>1, <2>3, <2>5, <2>6, Zenon DEF exportHandlers
  <2>8. \A i \in 1..n : ~IsUserCode(p[i])
    BY <2>5, <2>6 DEF IsForm, IsUserCode
  <2>9. Pieces(p, n)
    BY <2>6, Zenon DEF Pieces
  <2>10. IsSeq(p) /\ DOMAIN p = 1..n
    BY <2>9, PiecesSeq, Zenon
  <2>11. IsGen(p)
    BY <2>8, <2>10 DEF IsGen, Range
  <2>. QED BY <2>7, <2>11, Zenon
<1>9. IsGen(exportDefaultHandlers(form))
  <2>1. PICK T : T = ({"@form"} \cup ToSet(form.ctrls)) \ form.handlers
    OBVIOUS
  <2>2. PICK S, keys : S = Range(base) /\ keys = Filter(base, T)
    OBVIOUS
  <2>3. keys \in Seq(S)
    <3>1. base \in Seq(S)
      BY <1>7, <2>2 DEF IsSeq
    <3>. QED BY <2>2, <3>1, FilterType
  <2>4. PICK n \in Nat : DOMAIN keys = 1..n
    BY <2>3
  <2>5. PICK p : p = [i \in 1..n |-> OnStmt(form.name, keys[i], "stub")]
    OBVIOUS
  <2>6. p = exportDefaultHandlers(form)
    BY <1>6, <2>1, <2>2, <2>4, <2>5, Zenon DEF exportDefaultHandlers
  <2>7. \A i \in 1..n : ~IsUserCode(p[i])
    <3>1. \A k : ~IsUserCode(OnStmt(form.name, k, "stub"))
      BY DEF IsUserCode, OnStmt, Stmt
    <3>. QED BY <2>5, <3>1, Zenon
  <2>8. Pieces(p, n)
    BY <2>5, Zenon DEF Pieces
  <2>9. IsSeq(p) /\ DOMAIN p = 1..n
    BY <2>8, PiecesSeq, Zenon
  <2>10. IsGen(p)
    BY <2>7, <2>9 DEF IsGen, Range
  <2>. QED BY <2>6, <2>10, Zenon
<1>10. PICK last : last = IF emitShow THEN <<ShowStmt(form.name, "")>> ELSE <<>>
  OBVIOUS
<1>11. IsGen(last)
  <2>1. ~IsUserCode(ShowStmt(form.name, ""))
    BY DEF IsUserCode, ShowStmt, Stmt
  <2>2. IsGen(<<ShowStmt(form.name, "")>>)
    BY <2>1, GenOne, Zenon
  <2>. QED BY <1>10, <2>2, GenEmpty, Zenon
<1>. QED BY <1>2, <1>4, <1>5, <1>8, <1>9, <1>10, <1>11, GenConcat, Zenon DEF GenerateFormLua

LEMMA GeneratedForms == ASSUME NEW doc, IsDoc(doc) PROVE IsGen(AllForms(doc))
<1>1. PICK n \in Nat : DOMAIN doc = 1..n
  BY SeqPieces, Zenon DEF IsDoc
<1>2. PICK p : p = [k \in 1..n |-> GenerateFormLua(doc[k], {}, TRUE)]
  OBVIOUS
<1>3. Pieces(p, n) /\ \A k \in 1..n : p[k] = GenerateFormLua(doc[k], {}, TRUE)
  BY <1>2, Zenon DEF Pieces
<1>4. \A k \in 1..n : IsGen(p[k])
  <2>1. IsFiniteSet({})
    BY FS_EmptySet
  <2>. QED BY <1>1, <1>3, <2>1, GeneratedForm, Zenon DEF IsDoc
<1>. QED BY <1>1, <1>2, <1>3, <1>4, FlattenGen, Zenon DEF AllForms

LEMMA Exported == ASSUME NEW doc, IsDoc(doc) PROVE IsGen(ExportLua(doc))
<1>1. ~IsUserCode(Comment("generated"))
  BY DEF IsUserCode, Comment, Stmt
<1>2. IsGen(<<Comment("generated")>>)
  BY <1>1, GenOne, Zenon
<1>. QED BY <1>2, GeneratedForms, GenConcat, Zenon DEF ExportLua

\* A form of the source gives up statements of its own, for generated ones.
LEMMA Spliced ==
    ASSUME NEW src, IsSeq(src), NEW cur, IsDoc(cur), NEW doc, IsDoc(doc), NEW i \in DOMAIN cur
    PROVE  /\ Splice(src, cur, doc, i).drop \subseteq Owned(src, cur[i].name)
           /\ IsGen(Splice(src, cur, doc, i).block)
<1>1. PICK sf, dfs, k, own : sf = cur[i] /\ dfs = docCounterpart(cur, doc, i) /\ k = (CHOOSE x \in dfs : TRUE)
                             /\ own = markDeleted(src, sf.name)
  OBVIOUS
<1>2. PICK block : block = GenerateFormLua(doc[k], patchOrphans(doc[k], sf), importFormShow(src, sf.name))
  OBVIOUS
<1>3. \/ dfs = {} /\ Splice(src, cur, doc, i) = [drop |-> own, block |-> <<>>]
      \/ dfs # {} /\ Splice(src, cur, doc, i) = [drop |-> {}, block |-> <<>>]
      \/ dfs # {} /\ Splice(src, cur, doc, i) = [drop |-> own, block |-> block]
  BY <1>1, <1>2, Zenon DEF Splice
<1>4. own = Owned(src, cur[i].name)
  BY <1>1 DEF markDeleted
<1>5. ASSUME dfs # {} PROVE IsGen(block)
  <2>1. k \in dfs
    BY <1>1, <1>5, Zenon
  <2>2. dfs \subseteq DOMAIN doc
    <3>1. PICK n \in Nat : DOMAIN cur = 1..n /\ n = Len(cur)
      BY SeqPieces, Zenon DEF IsDoc
    <3>2. PICK m \in Nat : DOMAIN doc = 1..m /\ m = Len(doc)
      BY SeqPieces, Zenon DEF IsDoc
    <3>3. i = renameIndex(cur, doc) => Len(cur) = Len(doc)
      BY <3>1 DEF renameIndex
    <3>4. findForm(doc, cur[i].name) \subseteq DOMAIN doc
      BY DEF findForm
    <3>. QED BY <1>1, <3>1, <3>2, <3>3, <3>4 DEF docCounterpart
  <2>3. IsForm(doc[k])
    BY <2>1, <2>2 DEF IsDoc
  <2>4. IsForm(sf)
    BY <1>1 DEF IsDoc
  <2>5. PICK orphans : orphans = patchOrphans(doc[k], sf)
    OBVIOUS
  <2>6. IsFiniteSet(orphans)
    <3>1. IsFiniteSet(ToSet(sf.ctrls))
      BY <2>4, RangeFinite, Zenon DEF IsForm
    <3>2. orphans \in SUBSET ToSet(sf.ctrls)
      BY <2>5 DEF patchOrphans
    <3>. QED BY <3>1, <3>2, FS_Subset
  <2>. QED BY <1>2, <2>3, <2>5, <2>6, GeneratedForm, Zenon
<1>6. CASE dfs = {}
  BY <1>3, <1>4, <1>6, GenEmpty
<1>7. CASE dfs # {}
  BY <1>3, <1>4, <1>5, <1>7, GenEmpty
<1>. QED BY <1>6, <1>7

LEMMA CodeOne == ASSUME NEW x, IsUserCode(x) PROVE UserCode(<<x>>) = <<x>>
<1>1. PICK S, e, T : S = {x} /\ e \in Seq(S) /\ e = <<>> /\ T = {y \in S : IsUserCode(y)}
  BY EmptySeq
<1>2. PICK s : s = Append(e, x)
  OBVIOUS
<1>3. x \in S
  BY <1>1
<1>4. s \in Seq(S) /\ s = <<x>>
  BY <1>1, <1>2, <1>3
<1>5. UserCode(s) = Filter(s, T)
  BY <1>1, <1>4, UserCodeOver, Zenon
<1>6. Filter(s, T) = Filter(e, T) \o Kept(x, T)
  BY <1>1, <1>2, <1>3, FilterAppend
<1>7. Kept(x, T) = <<x>>
  BY <1>1 DEF Kept
<1>8. Filter(e, T) = <<>>
  BY <1>1, FilterEmpty, Zenon
<1>9. <<>> \o s = s
  BY <1>4, ConcatEmptySeq
<1>. QED BY <1>4, <1>5, <1>6, <1>7, <1>8, <1>9, Zenon

LEMMA AtDoc == ASSUME NEW doc, IsDoc(doc), NEW S PROVE IsDoc(At(doc, S))
<1>1. IsSeq(doc)
  BY DEF IsDoc
<1>2. IsSeq(At(doc, S)) /\ \A k \in DOMAIN At(doc, S) : \E i \in DOMAIN doc : i \in S /\ At(doc, S)[k] = doc[i]
  BY <1>1, AtMembers
<1>3. \A k \in DOMAIN At(doc, S) : IsForm(At(doc, S)[k])
  BY <1>2, Zenon DEF IsDoc
<1>. QED BY <1>2, <1>3, Zenon DEF IsDoc

\* A save leaves the user's code as it finds it, whatever the document.
LEMMA RebuildCode ==
    ASSUME NEW src, IsSeq(src), NEW doc, IsDoc(doc)
    PROVE  IsSeq(RebuildLua(src, doc)) /\ UserCode(RebuildLua(src, doc)) = UserCode(src)
<1>. DEFINE cur == Import(src)
            splice == [i \in DOMAIN cur |-> Splice(src, cur, doc, i)]
            del == UNION {splice[i].drop : i \in DOMAIN cur}
            From(s) == {i \in DOMAIN cur : splice[i].block # <<>> /\ s = Min(Owned(src, cur[i].name))}
            news == At(doc, {k \in DOMAIN doc : ~\E i \in DOMAIN cur : cur[i].name = doc[k].name \/ k = renameIndex(cur, doc)})
            added == AllForms(news)
            after == Max(UNION {Owned(src, cur[i].name) : i \in DOMAIN cur})
            rest == {s \in DOMAIN src : s > after /\ s \notin del}
            kept == {s \in DOMAIN src : s <= after /\ s \notin del}
            pos == IF rest # {} THEN Min(rest) ELSE IF kept # {} THEN Max(kept) + 1 ELSE Len(src) + 1
            Block(s) == IF From(s) # {} THEN splice[CHOOSE i \in From(s) : TRUE].block ELSE <<>>
            Piece(s) == Block(s) \o (IF s = pos THEN added ELSE <<>>) \o (IF s \notin del THEN <<src[s]>> ELSE <<>>)
            tail == IF pos > Len(src) THEN added ELSE <<>>
<1>1. CASE src = <<>>
  <2>1. RebuildLua(src, doc) = ExportLua(doc)
    BY <1>1, Zenon DEF RebuildLua
  <2>2. IsGen(ExportLua(doc)) /\ UserCode(ExportLua(doc)) = <<>>
    BY Exported, GenNone, Zenon
  <2>3. UserCode(src) = <<>>
    BY <1>1, GenEmpty, GenNone, Zenon
  <2>. QED BY <2>1, <2>2, <2>3, Zenon DEF IsGen
<1>2. CASE src # <<>> /\ cur = <<>>
  <2>1. RebuildLua(src, doc) = src \o AllForms(doc)
    BY <1>2, Zenon DEF RebuildLua, appendMainToScript
  <2>. HIDE DEF cur, splice, del, From, news, added, after, rest, kept, pos, Block, Piece, tail
  <2>2. PICK all : all = AllForms(doc)
    OBVIOUS
  <2>3. IsSeq(all) /\ UserCode(all) = <<>>
    BY <2>2, GeneratedForms, GenNone, Zenon DEF IsGen
  <2>4. IsSeq(src \o all) /\ UserCode(src \o all) = UserCode(src) \o <<>>
    BY <2>3, SeqConcat, CodeConcat, Zenon
  <2>5. UserCode(src) \o <<>> = UserCode(src)
    <3>1. PICK u, R : u = UserCode(src) /\ R = Range(u) /\ u \in Seq(R)
      BY CodeType DEF IsSeq
    <3>2. u \o <<>> = u
      BY <3>1, ConcatEmptySeq
    <3>. QED BY <3>1, <3>2, Zenon
  <2>. QED BY <2>1, <2>2, <2>4, <2>5, Zenon
<1>3. CASE src # <<>> /\ cur # <<>>
  <2>1. RebuildLua(src, doc) = FlattenSeq([s \in DOMAIN src |-> Piece(s)]) \o tail
    BY <1>3, Zenon DEF RebuildLua
  <2>2. IsDoc(cur)
    BY ImportDoc, Zenon
  <2>3. splice = [i \in DOMAIN cur |-> Splice(src, cur, doc, i)]
    BY Zenon
  <2>. HIDE DEF cur, splice
  <2>4. ASSUME NEW i \in DOMAIN cur PROVE splice[i].drop \subseteq Owned(src, cur[i].name) /\ IsGen(splice[i].block)
    <3>1. splice[i] = Splice(src, cur, doc, i)
      BY <2>3, Zenon
    <3>. QED BY <2>2, <3>1, Spliced, Zenon
  <2>5. ASSUME NEW s \in del PROVE ~IsUserCode(src[s])
    <3>1. PICK i \in DOMAIN cur : s \in splice[i].drop
      BY <2>5
    <3>2. s \in Owned(src, cur[i].name)
      BY <2>4, <3>1
    <3>. QED BY <3>2, OwnedGen, Zenon
  <2>6. IsGen(added)
    <3>2. IsDoc(news)
      BY AtDoc, Zenon
    <3>. HIDE DEF news
    <3>. QED BY <3>2, GeneratedForms, Zenon
  <2>. HIDE DEF del, added, pos
  <2>7. ASSUME NEW s PROVE IsGen(Block(s))
    <3>1. CASE From(s) # {}
      <4>1. PICK i : i = (CHOOSE x \in From(s) : TRUE)
        OBVIOUS
      <4>2. i \in From(s)
        BY <3>1, <4>1, Zenon
      <4>3. i \in DOMAIN cur
        BY <4>2
      <4>4. Block(s) = splice[i].block
        BY <3>1, <4>1, Zenon
      <4>. QED BY <2>4, <4>3, <4>4, Zenon
    <3>2. CASE From(s) = {}
      BY <3>2, GenEmpty, Zenon
    <3>. QED BY <3>1, <3>2, Zenon
  <2>. HIDE DEF Block
  <2>8. PICK n \in Nat : n = Len(src) /\ DOMAIN src = 1..n
    BY SeqPieces
  <2>9. PICK p : p = [s \in 1..n |-> Piece(s)]
    OBVIOUS
  <2>10. Pieces(p, n) /\ \A s \in 1..n : p[s] = Piece(s)
    BY <2>9, Zenon DEF Pieces
  <2>11. ASSUME NEW s \in 1..n
         PROVE  IsSeq(Piece(s)) /\ UserCode(Piece(s)) = IF IsUserCode(src[s]) THEN <<src[s]>> ELSE <<>>
    <3>1. PICK a, b : a = Block(s) \o (IF s = pos THEN added ELSE <<>>) /\ b = IF s \notin del THEN <<src[s]>> ELSE <<>>
      OBVIOUS
    <3>2. Piece(s) = a \o b
      BY <3>1, Zenon
    <3>. HIDE DEF Piece
    <3>3. IsGen(a)
      <4>1. IsGen(IF s = pos THEN added ELSE <<>>)
        BY <2>6, GenEmpty, Zenon
      <4>. QED BY <2>7, <3>1, <4>1, GenConcat, Zenon
    <3>4. IsSeq(b) /\ UserCode(b) = IF IsUserCode(src[s]) THEN <<src[s]>> ELSE <<>>
      <4>1. CASE ~IsUserCode(src[s])
        <5>1. IsGen(b)
          BY <3>1, <4>1, GenOne, GenEmpty, Zenon
        <5>. QED BY <4>1, <5>1, GenNone, Zenon DEF IsGen
      <4>2. CASE IsUserCode(src[s])
        <5>1. b = <<src[s]>>
          BY <2>5, <3>1, <4>2, Zenon
        <5>2. PICK x : x = src[s] /\ IsUserCode(x)
          BY <4>2
        <5>3. UserCode(<<x>>) = <<x>>
          BY <5>2, CodeOne, Zenon
        <5>. QED BY <4>2, <5>1, <5>2, <5>3, OneSeq, Zenon
      <4>. QED BY <4>1, <4>2, Zenon
    <3>5. IsSeq(a) /\ UserCode(a) = <<>>
      BY <3>3, GenNone, Zenon DEF IsGen
    <3>6. IsSeq(a \o b) /\ UserCode(a \o b) = <<>> \o UserCode(b)
      BY <3>4, <3>5, SeqConcat, CodeConcat, Zenon
    <3>7. <<>> \o UserCode(b) = UserCode(b)
      <4>1. PICK u, R : u = UserCode(b) /\ R = Range(u) /\ u \in Seq(R)
        BY <3>4, CodeType DEF IsSeq
      <4>2. <<>> \o u = u
        BY <4>1, ConcatEmptySeq
      <4>. QED BY <4>1, <4>2, Zenon
    <3>. QED BY <3>2, <3>4, <3>6, <3>7, Zenon
  <2>12. [s \in DOMAIN src |-> Piece(s)] = p
    BY <2>8, <2>9, Zenon
  <2>. HIDE DEF Piece
  <2>13. Reads(p, src, n)
    BY <2>10, <2>11, Zenon DEF Reads
  <2>14. IsSeq(FlattenSeq(p)) /\ UserCode(FlattenSeq(p)) = UserCode(src)
    BY <2>8, <2>10, <2>13, FlattenReads, Zenon
  <2>15. IsSeq(tail) /\ UserCode(tail) = <<>>
    <3>1. IsGen(tail)
      BY <2>6, GenEmpty, Zenon
    <3>. HIDE DEF tail
    <3>. QED BY <3>1, GenNone, Zenon DEF IsGen
  <2>. HIDE DEF tail
  <2>16. PICK x, y : x = FlattenSeq(p) /\ y = tail
    OBVIOUS
  <2>17. IsSeq(x \o y) /\ UserCode(x \o y) = UserCode(src) \o <<>>
    <3>1. IsSeq(x) /\ IsSeq(y) /\ UserCode(x) = UserCode(src) /\ UserCode(y) = <<>>
      BY <2>14, <2>15, <2>16, Zenon
    <3>2. UserCode(x \o y) = UserCode(x) \o UserCode(y)
      BY <3>1, CodeConcat, Zenon
    <3>. QED BY <3>1, <3>2, SeqConcat, Zenon
  <2>18. UserCode(src) \o <<>> = UserCode(src)
    <3>1. PICK u, R : u = UserCode(src) /\ R = Range(u) /\ u \in Seq(R)
      BY CodeType DEF IsSeq
    <3>2. u \o <<>> = u
      BY <3>1, ConcatEmptySeq
    <3>. QED BY <3>1, <3>2, Zenon
  <2>. QED BY <2>1, <2>12, <2>16, <2>17, <2>18, Zenon
<1>. QED BY <1>1, <1>2, <1>3, Zenon

\* Every edit leaves a document.
LEMMA DocMember == ASSUME NEW doc, IsDoc(doc), NEW k \in DOMAIN doc PROVE IsForm(doc[k])
BY DEF IsDoc

LEMMA DocReplace ==
    ASSUME NEW doc, IsDoc(doc), NEW k \in DOMAIN doc, NEW f, IsForm(f)
    PROVE  IsDoc([doc EXCEPT ![k] = f])
<1>1. PICK n \in Nat : DOMAIN doc = 1..n /\ Pieces(doc, n)
  BY SeqPieces, Zenon DEF IsDoc
<1>2. PICK d : d = [doc EXCEPT ![k] = f]
  OBVIOUS
<1>3. d = [i \in 1..n |-> IF i = k THEN f ELSE doc[i]]
  BY <1>1, <1>2
<1>4. Pieces(d, n) /\ \A i \in 1..n : d[i] = IF i = k THEN f ELSE doc[i]
  BY <1>3, Zenon DEF Pieces
<1>5. \A i \in 1..n : IsForm(d[i])
  BY <1>1, <1>4, Zenon DEF IsDoc
<1>. QED BY <1>2, <1>4, <1>5, PiecesSeq, Zenon DEF IsDoc

LEMMA DocConcat == ASSUME NEW d, NEW e, IsDoc(d), IsDoc(e) PROVE IsDoc(d \o e)
<1>1. IsSeq(d \o e) /\ Range(d \o e) \subseteq Range(d) \cup Range(e)
  BY SeqConcat, Zenon DEF IsDoc
<1>2. \A x \in Range(d) \cup Range(e) : IsForm(x)
  BY DEF IsDoc, Range
<1>3. \A k \in DOMAIN (d \o e) : (d \o e)[k] \in Range(d \o e)
  BY Zenon DEF Range
<1>. QED BY <1>1, <1>2, <1>3, Zenon DEF IsDoc

LEMMA DocOne == ASSUME NEW f, IsForm(f) PROVE IsDoc(<<f>>)
<1>1. IsSeq(<<f>>)
  BY OneSeq
<1>2. \A k \in DOMAIN <<f>> : <<f>>[k] = f
  OBVIOUS
<1>. QED BY <1>1, <1>2, Zenon DEF IsDoc

LEMMA SeqAppend == ASSUME NEW s, IsSeq(s), NEW e PROVE IsSeq(Append(s, e)) /\ Append(s, e) = s \o <<e>>
<1>1. PICK S : S = Range(s) \cup {e}
  OBVIOUS
<1>2. s \in Seq(S) /\ e \in S
  BY <1>1, SeqOver
<1>3. Append(s, e) \in Seq(S) /\ Append(s, e) = s \o <<e>>
  BY <1>2
<1>. QED BY <1>3, SeqIs, Zenon

LEMMA SeqRemove ==
    ASSUME NEW s, IsSeq(s), NEW i \in DOMAIN s
    PROVE  IsSeq(RemoveAt(s, i)) /\ Range(RemoveAt(s, i)) \subseteq Range(s)
<1>1. PICK S : S = Range(s) /\ s \in Seq(S)
  BY DEF IsSeq
<1>2. SubSeq(s, 1, i - 1) \in Seq(S) /\ SubSeq(s, i + 1, Len(s)) \in Seq(S)
  BY <1>1
<1>3. RemoveAt(s, i) \in Seq(S)
  BY <1>2, ConcatProperties DEF RemoveAt
<1>. QED BY <1>1, <1>3, SeqIs, Zenon

LEMMA SeqReplace == ASSUME NEW s, IsSeq(s), NEW i \in DOMAIN s, NEW e PROVE IsSeq([s EXCEPT ![i] = e])
<1>1. PICK n \in Nat : DOMAIN s = 1..n /\ Pieces(s, n)
  BY SeqPieces
<1>2. PICK d : d = [s EXCEPT ![i] = e]
  OBVIOUS
<1>3. d = [j \in 1..n |-> IF j = i THEN e ELSE s[j]]
  BY <1>1, <1>2
<1>4. Pieces(d, n)
  BY <1>3, Zenon DEF Pieces
<1>. QED BY <1>2, <1>4, PiecesSeq, Zenon

FormOf(name, title, ctrls, handlers, bodies) ==
    [name |-> name, title |-> title, ctrls |-> ctrls, handlers |-> handlers, bodies |-> bodies]

LEMMA FormIs ==
    ASSUME NEW name, NEW title, NEW ctrls, NEW handlers, NEW bodies, IsSeq(ctrls),
           \A k \in DOMAIN bodies : bodies[k].stmt = "on" /\ bodies[k].bare
    PROVE  IsForm(FormOf(name, title, ctrls, handlers, bodies))
BY DEF IsForm, FormOf

LEMMA EmptyForm == ASSUME NEW name PROVE IsForm(FormOf(name, "", <<>>, {}, <<>>))
<1>1. IsSeq(<<>>)
  BY GenEmpty DEF IsGen
<1>2. PICK b : b = <<>>
  OBVIOUS
<1>3. \A k \in DOMAIN b : b[k].stmt = "on" /\ b[k].bare
  BY <1>2
<1>. QED BY <1>1, <1>2, <1>3, FormIs, Zenon

LEMMA NewEmpty == IsDoc(NewEmptyDoc)
<1>1. NewEmptyDoc = <<FormOf("main", "", <<>>, {}, <<>>)>>
  BY DEF NewEmptyDoc, FormOf
<1>. QED BY <1>1, EmptyForm, DocOne, Zenon

LEMMA LoadDoc == ASSUME NEW src, IsSeq(src) PROVE IsDoc(load(src))
BY ImportDoc, NewEmpty, Zenon DEF load

LEMMA MergedForm == ASSUME NEW b, NEW g, IsForm(b), IsForm(g) PROVE IsForm(mergeForm(b, g))
<1>1. PICK T, S : T = ToSet(g.ctrls) \ ToSet(b.ctrls) /\ S = Range(g.ctrls)
  OBVIOUS
<1>2. g.ctrls \in Seq(S)
  BY <1>1 DEF IsForm, IsSeq
<1>3. Filter(g.ctrls, T) \in Seq(S)
  BY <1>2, FilterType
<1>4. IsSeq(Filter(g.ctrls, T)) /\ IsSeq(b.ctrls)
  BY <1>3, SeqIs, Zenon DEF IsForm
<1>5. PICK ctrls : ctrls = mergeControls(b.ctrls, g.ctrls)
  OBVIOUS
<1>6. IsSeq(ctrls)
  BY <1>1, <1>4, <1>5, SeqConcat, Zenon DEF mergeControls
<1>7. PICK title : title = IF g.title # "" THEN g.title ELSE b.title
  OBVIOUS
<1>8. PICK bodies : bodies = [k \in DOMAIN b.bodies \cup DOMAIN g.bodies |-> IF k \in DOMAIN g.bodies THEN g.bodies[k] ELSE b.bodies[k]]
  OBVIOUS
<1>9. \A k \in DOMAIN bodies : bodies[k].stmt = "on" /\ bodies[k].bare
  BY <1>8 DEF IsForm
<1>10. mergeForm(b, g) = FormOf(b.name, title, ctrls, b.handlers \cup g.handlers, bodies)
  BY <1>5, <1>7, <1>8, Zenon DEF mergeForm, FormOf
<1>. QED BY <1>6, <1>9, <1>10, FormIs, Zenon

LEMMA Merged == ASSUME NEW base, NEW gen, IsDoc(base), IsDoc(gen) PROVE IsDoc(MergeDocument(base, gen))
<1>1. PICK n \in Nat : DOMAIN base = 1..n
  BY SeqPieces, Zenon DEF IsDoc
<1>. DEFINE M(k) == IF findForm(gen, base[k].name) = {} THEN base[k]
                    ELSE mergeForm(base[k], gen[CHOOSE g \in findForm(gen, base[k].name) : TRUE])
<1>2. PICK d, e : d = [k \in 1..n |-> M(k)] /\ e = At(gen, {k \in DOMAIN gen : findForm(base, gen[k].name) = {}})
  OBVIOUS
<1>3. MergeDocument(base, gen) = d \o e
  BY <1>1, <1>2, Zenon DEF MergeDocument
<1>4. ASSUME NEW k \in 1..n PROVE IsForm(M(k))
  <2>1. PICK F : F = findForm(gen, base[k].name)
    OBVIOUS
  <2>2. IsForm(base[k]) /\ F \subseteq DOMAIN gen
    BY <1>1, <2>1 DEF IsDoc, findForm
  <2>3. CASE F = {}
    BY <2>1, <2>2, <2>3, Zenon
  <2>4. CASE F # {}
    <3>1. PICK g \in F : g = (CHOOSE x \in F : TRUE)
      BY <2>4, Zenon
    <3>2. IsForm(gen[g])
      BY <2>2, <3>1 DEF IsDoc
    <3>3. M(k) = mergeForm(base[k], gen[g])
      BY <2>1, <2>4, <3>1, Zenon
    <3>. QED BY <2>2, <3>2, <3>3, MergedForm, Zenon
  <2>. QED BY <2>3, <2>4
<1>. HIDE DEF M
<1>5. Pieces(d, n) /\ \A k \in 1..n : d[k] = M(k)
  BY <1>2, Zenon DEF Pieces
<1>6. IsDoc(d)
  BY <1>4, <1>5, PiecesSeq, Zenon DEF IsDoc
<1>7. IsDoc(e)
  BY <1>2, AtDoc, Zenon
<1>. QED BY <1>3, <1>6, <1>7, DocConcat, Zenon

\* The state of a tab; what a save in progress holds.
TabRec(open, doc, seen, pc, sent, data, where) ==
    [open |-> open, doc |-> doc, seen |-> seen, pc |-> pc, sent |-> sent, data |-> data, where |-> where]
TabOK(r) ==
    /\ r = TabRec(r.open, r.doc, r.seen, r.pc, r.sent, r.data, r.where)
    /\ IsDoc(r.doc) /\ IsSeq(r.data)

BuilderShape ==
    /\ file = [src |-> file.src, parses |-> file.parses] /\ IsSeq(file.src)
    /\ tmp = [on |-> tmp.on, src |-> tmp.src] /\ IsSeq(tmp.src)
    /\ tab = [t \in Tab |-> tab[t]] /\ \A t \in Tab : TabOK(tab[t])

\* As long as no save was disturbed there is at most one, its text has the user's code, and what it renames is its text.
SaveHolds(r) ==
    r.pc # "idle" => /\ UserCode(r.data) = code
                     /\ r.pc = "write" => r.where = "tmp"
                     /\ r.pc = "rename" => tmp.src = r.data
SavesHold ==
    clobbered = {} => /\ UserCode(file.src) = code
                      /\ \A t \in Tab : SaveHolds(tab[t])
                      /\ \A t, u \in Tab : tab[t].pc # "idle" /\ tab[u].pc # "idle" => t = u

BuilderInv == BuilderShape /\ SavesHold

LEMMA TabOf ==
    ASSUME NEW open, NEW doc, NEW seen, NEW pc, NEW sent, NEW data, NEW where, IsDoc(doc), IsSeq(data)
    PROVE  TabOK(TabRec(open, doc, seen, pc, sent, data, where))
BY DEF TabOK, TabRec

LEMMA EmptyDoc == IsDoc(<<>>) /\ IsSeq(<<>>)
<1>1. IsSeq(<<>>)
  BY GenEmpty DEF IsGen
<1>2. DOMAIN <<>> = {}
  OBVIOUS
<1>. QED BY <1>1, <1>2 DEF IsDoc

LEMMA FormEdits ==
    ASSUME NEW doc, IsDoc(doc), NEW k \in DOMAIN doc, NEW x
    PROVE  /\ IsDoc([doc EXCEPT ![k].name = x])
           /\ IsDoc([doc EXCEPT ![k].title = x])
           /\ IsDoc([doc EXCEPT ![k].ctrls = Append(@, x)])
           /\ \A i \in DOMAIN doc[k].ctrls : IsDoc([doc EXCEPT ![k].ctrls[i] = x])
           /\ \A i \in DOMAIN doc[k].ctrls :
                LET left == RemoveAt(doc[k].ctrls, i) IN
                IsDoc([doc EXCEPT ![k].ctrls = left, ![k].handlers = IF i \in DOMAIN left THEN @ \ {left[i]} ELSE @])
<1>1. PICK f : f = doc[k]
  OBVIOUS
<1>2. IsForm(f)
  BY <1>1, DocMember
<1>3. PICK a, b, c, h, o : f = FormOf(a, b, c, h, o) /\ IsSeq(c) /\ \A j \in DOMAIN o : o[j].stmt = "on" /\ o[j].bare
  BY <1>2 DEF IsForm, FormOf
<1>. DEFINE Other(name, title, ctrls, handlers) == [doc EXCEPT ![k] = FormOf(name, title, ctrls, handlers, o)]
<1>4. ASSUME NEW name, NEW title, NEW ctrls, NEW handlers, IsSeq(ctrls)
      PROVE  IsDoc(Other(name, title, ctrls, handlers))
  <2>1. IsForm(FormOf(name, title, ctrls, handlers, o))
    BY <1>3, <1>4, FormIs, Zenon
  <2>. QED BY <2>1, DocReplace, Zenon
<1>0. f.ctrls = c /\ f.handlers = h
  BY <1>3 DEF FormOf
<1>5. IsDoc([doc EXCEPT ![k].name = x])
  <2>1. [f EXCEPT !.name = x] = FormOf(x, b, c, h, o)
    BY <1>3 DEF FormOf
  <2>2. [doc EXCEPT ![k].name = x] = [doc EXCEPT ![k] = [doc[k] EXCEPT !.name = x]]
    BY Zenon
  <2>3. PICK y : y = [doc EXCEPT ![k].name = x] /\ y = Other(x, b, c, h)
    BY <1>1, <2>1, <2>2, Zenon
  <2>. HIDE DEF Other
  <2>8. IsDoc(Other(x, b, c, h))
    BY <1>3, <1>4, Zenon
  <2>9. IsDoc(y)
    BY <2>3, <2>8, Zenon
  <2>. QED BY <2>3, <2>9, Zenon
<1>6. IsDoc([doc EXCEPT ![k].title = x])
  <2>1. [f EXCEPT !.title = x] = FormOf(a, x, c, h, o)
    BY <1>3 DEF FormOf
  <2>2. [doc EXCEPT ![k].title = x] = [doc EXCEPT ![k] = [doc[k] EXCEPT !.title = x]]
    BY Zenon
  <2>3. PICK y : y = [doc EXCEPT ![k].title = x] /\ y = Other(a, x, c, h)
    BY <1>1, <2>1, <2>2, Zenon
  <2>. HIDE DEF Other
  <2>8. IsDoc(Other(a, x, c, h))
    BY <1>3, <1>4, Zenon
  <2>9. IsDoc(y)
    BY <2>3, <2>8, Zenon
  <2>. QED BY <2>3, <2>9, Zenon
<1>7. IsDoc([doc EXCEPT ![k].ctrls = Append(@, x)])
  <2>1. PICK new : new = Append(c, x) /\ IsSeq(new)
    BY <1>3, SeqAppend, Zenon
  <2>2. [f EXCEPT !.ctrls = new] = FormOf(a, b, new, h, o)
    BY <1>3 DEF FormOf
  <2>3. [doc EXCEPT ![k].ctrls = Append(@, x)] = [doc EXCEPT ![k] = [doc[k] EXCEPT !.ctrls = Append(doc[k].ctrls, x)]]
    BY Zenon
  <2>4. PICK y : y = [doc EXCEPT ![k].ctrls = Append(@, x)] /\ y = Other(a, b, new, h)
    BY <1>0, <1>1, <2>1, <2>2, <2>3, Zenon
  <2>. HIDE DEF Other
  <2>8. IsDoc(Other(a, b, new, h))
    BY <1>4, <2>1, Zenon
  <2>9. IsDoc(y)
    BY <2>4, <2>8, Zenon
  <2>. QED BY <2>4, <2>9, Zenon
<1>8. ASSUME NEW i \in DOMAIN doc[k].ctrls PROVE IsDoc([doc EXCEPT ![k].ctrls[i] = x])
  <2>1. PICK new : new = [c EXCEPT ![i] = x] /\ IsSeq(new)
    BY <1>0, <1>1, <1>3, SeqReplace, Zenon
  <2>2. [f EXCEPT !.ctrls = new] = FormOf(a, b, new, h, o)
    BY <1>3 DEF FormOf
  <2>3. [doc EXCEPT ![k].ctrls[i] = x] = [doc EXCEPT ![k] = [doc[k] EXCEPT !.ctrls = [doc[k].ctrls EXCEPT ![i] = x]]]
    BY Zenon
  <2>4. PICK y : y = [doc EXCEPT ![k].ctrls[i] = x] /\ y = Other(a, b, new, h)
    BY <1>0, <1>1, <2>1, <2>2, <2>3, Zenon
  <2>. HIDE DEF Other
  <2>8. IsDoc(Other(a, b, new, h))
    BY <1>4, <2>1, Zenon
  <2>9. IsDoc(y)
    BY <2>4, <2>8, Zenon
  <2>. QED BY <2>4, <2>9, Zenon
<1>9. ASSUME NEW i \in DOMAIN doc[k].ctrls, NEW left, left = RemoveAt(doc[k].ctrls, i)
      PROVE  IsDoc([doc EXCEPT ![k].ctrls = left, ![k].handlers = IF i \in DOMAIN left THEN @ \ {left[i]} ELSE @])
  <2>1. PICK g : g = IF i \in DOMAIN left THEN h \ {left[i]} ELSE h
    OBVIOUS
  <2>2. PICK e : e = [f EXCEPT !.ctrls = left]
    OBVIOUS
  <2>3. e = FormOf(a, b, left, h, o)
    BY <1>3, <2>2 DEF FormOf
  <2>4. [e EXCEPT !.handlers = g] = FormOf(a, b, left, g, o) /\ e.handlers = h
    BY <2>3 DEF FormOf
  <2>5. [doc EXCEPT ![k].ctrls = left, ![k].handlers = IF i \in DOMAIN left THEN @ \ {left[i]} ELSE @]
          = [doc EXCEPT ![k] = [[doc[k] EXCEPT !.ctrls = left] EXCEPT !.handlers = IF i \in DOMAIN left THEN @ \ {left[i]} ELSE @]]
    BY Zenon
  <2>6. PICK y : y = [doc EXCEPT ![k].ctrls = left, ![k].handlers = IF i \in DOMAIN left THEN @ \ {left[i]} ELSE @] /\ y = Other(a, b, left, g)
    BY <1>1, <2>1, <2>2, <2>4, <2>5, Zenon
  <2>7. IsSeq(left)
    BY <1>0, <1>1, <1>3, <1>9, SeqRemove, Zenon
  <2>. HIDE DEF Other
  <2>8. IsDoc(Other(a, b, left, g))
    BY <1>4, <2>7, Zenon
  <2>9. IsDoc(y)
    BY <2>6, <2>8, Zenon
  <2>. QED BY <2>6, <2>9, Zenon
<1>. QED BY <1>5, <1>6, <1>7, <1>8, <1>9, Zenon

LEMMA EditKeeps ==
    ASSUME BuilderInv, NEW t \in Tab, NEW doc, IsDoc(doc), Edit(t, doc)
    PROVE  BuilderInv'
<1>1. PICK r : r = tab[t]
  OBVIOUS
<1>2. PICK o, d, s, pc, st, da, w : r = TabRec(o, d, s, pc, st, da, w) /\ IsSeq(da)
  BY <1>1 DEF BuilderInv, BuilderShape, TabOK, TabRec
<1>3. PICK q : q = TabRec(o, doc, s, pc, st, da, w)
  OBVIOUS
<1>4. TabOK(q)
  BY <1>2, <1>3, TabOf, Zenon
<1>5. tab' = [tab EXCEPT ![t] = q]
  <2>1. [r EXCEPT !.doc = doc] = q
    BY <1>2, <1>3 DEF TabRec
  <2>2. tab' = [tab EXCEPT ![t].doc = doc]
    BY DEF Edit
  <2>3. [tab EXCEPT ![t].doc = doc] = [tab EXCEPT ![t] = [tab[t] EXCEPT !.doc = doc]]
    BY Zenon
  <2>. QED BY <1>1, <2>1, <2>2, <2>3, Zenon
<1>6. tab' = [u \in Tab |-> IF u = t THEN q ELSE tab[u]]
  BY <1>5 DEF BuilderInv, BuilderShape
<1>7. q.pc = r.pc /\ q.data = r.data /\ q.where = r.where
  BY <1>2, <1>3 DEF TabRec
<1>8. UNCHANGED <<file, tmp, code, clobbered>>
  BY DEF Edit
<1>9. BuilderShape'
  BY <1>4, <1>6, <1>8 DEF BuilderInv, BuilderShape
<1>10. \A u \in Tab : tab'[u].pc = tab[u].pc /\ tab'[u].data = tab[u].data /\ tab'[u].where = tab[u].where
  BY <1>1, <1>6, <1>7
<1>11. SavesHold'
  BY <1>8, <1>10 DEF BuilderInv, SavesHold, SaveHolds
<1>. QED BY <1>9, <1>11 DEF BuilderInv

\* A step of tab t: its record is replaced, the others stay.
LEMMA TabStep ==
    ASSUME BuilderShape, NEW t \in Tab, NEW q, TabOK(q), tab' = [tab EXCEPT ![t] = q]
    PROVE  /\ tab' = [u \in Tab |-> tab'[u]] /\ \A u \in Tab : TabOK(tab'[u])
           /\ tab'[t] = q /\ \A u \in Tab : u # t => tab'[u] = tab[u]
<1>1. tab' = [u \in Tab |-> IF u = t THEN q ELSE tab[u]]
  BY DEF BuilderShape
<1>. QED BY <1>1 DEF BuilderShape

LEMMA BuilderInitInv == BuilderInit => BuilderInv
<1>1. SUFFICES ASSUME BuilderInit PROVE BuilderInv
  OBVIOUS
<1>2. TabOK(ClosedTab) /\ ClosedTab.pc = "idle"
  <2>1. ClosedTab = TabRec(FALSE, <<>>, <<>>, "idle", <<>>, <<>>, "tmp")
    BY DEF ClosedTab, TabRec
  <2>. QED BY <2>1, EmptyDoc, TabOf DEF TabRec
<1>3. PICK src : src \in Sources /\ file = [src |-> src, parses |-> TRUE]
  BY <1>1 DEF BuilderInit
<1>4. IsSeq(src)
  BY <1>3, BuilderAssumption
<1>5. tab = [t \in Tab |-> ClosedTab]
  BY <1>1 DEF BuilderInit
<1>6. tmp = [on |-> FALSE, src |-> <<>>] /\ code = UserCode(file.src)
  BY <1>1 DEF BuilderInit
<1>7. BuilderShape
  BY <1>2, <1>3, <1>4, <1>5, <1>6, EmptyDoc DEF BuilderShape
<1>8. SavesHold
  BY <1>2, <1>5, <1>6 DEF SavesHold, SaveHolds
<1>. QED BY <1>7, <1>8 DEF BuilderInv

LEMMA EditsKeep ==
    ASSUME BuilderInv, NEW t \in Tab,
           addForm(t) \/ doDeleteForm(t) \/ wireFormProps(t) \/ addNewControl(t) \/ deleteControl(t) \/ applyCode(t) \/ aiApply(t)
    PROVE  BuilderInv'
<1>1. PICK d : d = tab[t].doc
  OBVIOUS
<1>2. IsDoc(d)
  BY <1>1 DEF BuilderInv, BuilderShape, TabOK
<1>3. CASE addForm(t)
  <2>1. PICK e, f : /\ Edit(t, e) /\ e = Append(d, f)
                    /\ f = [NewEmptyDoc[1] EXCEPT !.name = NewForm]
    BY <1>1, <1>3, Zenon DEF addForm
  <2>2. NewEmptyDoc[1] = FormOf("main", "", <<>>, {}, <<>>)
    BY DEF NewEmptyDoc, FormOf
  <2>3. PICK g, m, v, b, h : g = NewEmptyDoc[1] /\ g = FormOf(m, v, b, h, b) /\ v = "" /\ b = <<>> /\ h = {}
    BY <2>2, Zenon
  <2>4. [g EXCEPT !.name = NewForm] = FormOf(NewForm, v, b, h, b)
    <3>1. g = FormOf(m, v, b, h, b)
      BY <2>3
    <3>. QED BY <3>1 DEF FormOf
  <2>5. f = FormOf(NewForm, "", <<>>, {}, <<>>)
    BY <2>1, <2>3, <2>4, Zenon
  <2>6. IsDoc(<<f>>)
    BY <2>5, EmptyForm, DocOne, Zenon
  <2>7. e = d \o <<f>>
    BY <1>2, <2>1, SeqAppend, Zenon DEF IsDoc
  <2>8. IsDoc(e)
    BY <1>2, <2>6, <2>7, DocConcat, Zenon
  <2>. QED BY <2>1, <2>8, EditKeeps, Zenon
<1>4. CASE doDeleteForm(t)
  <2>1. PICK k \in DOMAIN d : Edit(t, RemoveAt(d, k))
    BY <1>1, <1>4, Zenon DEF doDeleteForm
  <2>2. IsSeq(RemoveAt(d, k)) /\ Range(RemoveAt(d, k)) \subseteq Range(d)
    BY <1>2, SeqRemove, Zenon DEF IsDoc
  <2>3. PICK e : e = RemoveAt(d, k)
    OBVIOUS
  <2>4. IsDoc(e)
    BY <1>2, <2>2, <2>3 DEF IsDoc, Range
  <2>. QED BY <2>1, <2>3, <2>4, EditKeeps, Zenon
<1>5. CASE wireFormProps(t)
  <2>1. PICK k, x : k \in DOMAIN d /\ (Edit(t, [d EXCEPT ![k].name = x]) \/ Edit(t, [d EXCEPT ![k].title = x]))
    BY <1>1, <1>5, Zenon DEF wireFormProps
  <2>2. IsDoc([d EXCEPT ![k].name = x]) /\ IsDoc([d EXCEPT ![k].title = x])
    BY <1>2, <2>1, FormEdits, Zenon
  <2>. QED BY <2>1, <2>2, EditKeeps, Zenon
<1>6. CASE addNewControl(t)
  <2>1. PICK k, x : k \in DOMAIN d /\ (Edit(t, [d EXCEPT ![k].ctrls = Append(@, x)]))
    BY <1>1, <1>6, Zenon DEF addNewControl
  <2>2. IsDoc([d EXCEPT ![k].ctrls = Append(@, x)])
    BY <1>2, <2>1, FormEdits, Zenon
  <2>. QED BY <2>1, <2>2, EditKeeps, Zenon
<1>7. CASE deleteControl(t)
  <2>1. PICK k, i : k \in DOMAIN d /\ i \in DOMAIN d[k].ctrls /\
            LET left == RemoveAt(d[k].ctrls, i) IN
            Edit(t, [d EXCEPT ![k].ctrls = left, ![k].handlers = IF i \in DOMAIN left THEN @ \ {left[i]} ELSE @])
    BY <1>1, <1>7, Zenon DEF deleteControl
  <2>2. LET left == RemoveAt(d[k].ctrls, i) IN
        IsDoc([d EXCEPT ![k].ctrls = left, ![k].handlers = IF i \in DOMAIN left THEN @ \ {left[i]} ELSE @])
    BY <1>2, <2>1, FormEdits, Zenon
  <2>. QED BY <2>1, <2>2, EditKeeps, Zenon
<1>8. CASE applyCode(t)
  <2>1. PICK k, i, x : k \in DOMAIN d /\ i \in DOMAIN d[k].ctrls /\ Edit(t, [d EXCEPT ![k].ctrls[i] = x])
    BY <1>1, <1>8, Zenon DEF applyCode
  <2>2. IsDoc([d EXCEPT ![k].ctrls[i] = x])
    BY <1>2, <2>1, FormEdits, Zenon
  <2>. QED BY <2>1, <2>2, EditKeeps, Zenon
<1>9. CASE aiApply(t)
  <2>1. PICK gen \in Generated : Edit(t, MergeDocument(d, gen)) \/ Edit(t, gen)
    BY <1>1, <1>9, Zenon DEF aiApply
  <2>2. IsDoc(gen)
    BY BuilderAssumption
  <2>3. IsDoc(MergeDocument(d, gen))
    BY <1>2, <2>2, Merged, Zenon
  <2>. QED BY <2>1, <2>2, <2>3, EditKeeps, Zenon
<1>. QED BY <1>3, <1>4, <1>5, <1>6, <1>7, <1>8, <1>9, Zenon

LEMMA GetFormKeeps == ASSUME BuilderInv, NEW t \in Tab, getForm(t) PROVE BuilderInv'
<1>1. PICK c, doc, q : c = ClosedTab /\ doc = load(file.src) /\ q = TabRec(TRUE, doc, <<>>, "idle", <<>>, <<>>, "tmp")
  OBVIOUS
<1>2. TabOK(q)
  <2>1. IsDoc(doc)
    BY <1>1, LoadDoc DEF BuilderInv, BuilderShape
  <2>. QED BY <1>1, <2>1, EmptyDoc, TabOf, Zenon
<1>3. tab' = [tab EXCEPT ![t] = q]
  <2>1. PICK f, y, e, i, w : f = FALSE /\ y = TRUE /\ e = <<>> /\ i = "idle" /\ w = "tmp"
    OBVIOUS
  <2>2. c = TabRec(f, e, e, i, e, e, w)
    BY <1>1, <2>1, Zenon DEF ClosedTab, TabRec
  <2>3. [c EXCEPT !.open = y] = TabRec(y, e, e, i, e, e, w)
    BY <2>2 DEF TabRec
  <2>4. PICK b : b = TabRec(y, e, e, i, e, e, w)
    OBVIOUS
  <2>5. [b EXCEPT !.doc = doc] = TabRec(y, doc, e, i, e, e, w)
    BY <2>4 DEF TabRec
  <2>6. [c EXCEPT !.open = y, !.doc = doc] = [[c EXCEPT !.open = y] EXCEPT !.doc = doc]
    BY Zenon
  <2>7. [c EXCEPT !.open = y, !.doc = doc] = q
    BY <1>1, <2>1, <2>3, <2>4, <2>5, <2>6, Zenon
  <2>8. tab' = [tab EXCEPT ![t] = [ClosedTab EXCEPT !.open = TRUE, !.doc = load(file.src)]]
    BY DEF getForm
  <2>. QED BY <1>1, <2>1, <2>7, <2>8, Zenon
<1>4. UNCHANGED <<file, tmp, code, clobbered>> /\ q.pc = "idle"
  BY <1>1 DEF getForm, TabRec
<1>5. /\ tab' = [u \in Tab |-> tab'[u]] /\ \A u \in Tab : TabOK(tab'[u])
      /\ tab'[t] = q /\ \A u \in Tab : u # t => tab'[u] = tab[u]
  BY <1>2, <1>3, TabStep DEF BuilderInv
<1>6. BuilderShape'
  BY <1>4, <1>5 DEF BuilderInv, BuilderShape
<1>7. SavesHold'
  BY <1>4, <1>5 DEF BuilderInv, SavesHold, SaveHolds
<1>. QED BY <1>6, <1>7 DEF BuilderInv

LEMMA IdleTab == ASSUME NEW r, TabOK(r) PROVE TabOK(Idle(r)) /\ Idle(r).pc = "idle"
<1>1. PICK o, d, s, pc, st, da, w : r = TabRec(o, d, s, pc, st, da, w) /\ IsDoc(d)
  BY DEF TabOK, TabRec
<1>2. PICK i, e, m : i = "idle" /\ e = <<>> /\ m = "tmp"
  OBVIOUS
<1>3. [[[[[r EXCEPT !.pc = i] EXCEPT !.sent = e] EXCEPT !.seen = e] EXCEPT !.data = e] EXCEPT !.where = m] = TabRec(o, d, e, i, e, e, m)
  <2>1. PICK r1 : r1 = [r EXCEPT !.pc = i]
    OBVIOUS
  <2>2. r1 = TabRec(o, d, s, i, st, da, w)
    BY <1>1, <2>1 DEF TabRec
  <2>3. PICK r2 : r2 = [r1 EXCEPT !.sent = e]
    OBVIOUS
  <2>4. r2 = TabRec(o, d, s, i, e, da, w)
    BY <2>2, <2>3 DEF TabRec
  <2>5. PICK r3 : r3 = [r2 EXCEPT !.seen = e]
    OBVIOUS
  <2>6. r3 = TabRec(o, d, e, i, e, da, w)
    BY <2>4, <2>5 DEF TabRec
  <2>7. PICK r4 : r4 = [r3 EXCEPT !.data = e]
    OBVIOUS
  <2>8. r4 = TabRec(o, d, e, i, e, e, w)
    BY <2>6, <2>7 DEF TabRec
  <2>9. [r4 EXCEPT !.where = m] = TabRec(o, d, e, i, e, e, m)
    BY <2>8 DEF TabRec
  <2>. QED BY <2>1, <2>3, <2>5, <2>7, <2>9, Zenon
<1>4. Idle(r) = TabRec(o, d, e, i, e, e, m)
  BY <1>2, <1>3, Zenon DEF Idle
<1>5. IsSeq(e)
  BY <1>2, EmptyDoc, Zenon
<1>6. TabOK(Idle(r))
  BY <1>1, <1>4, <1>5, TabOf, Zenon
<1>. QED BY <1>2, <1>4, <1>6 DEF TabRec

LEMMA PutKeeps == ASSUME BuilderInv, NEW t \in Tab, putForm(t) PROVE BuilderInv'
<1>1. PICK r : r = tab[t]
  OBVIOUS
<1>2. PICK o, d, s, pc, st, da, w : r = TabRec(o, d, s, pc, st, da, w) /\ IsDoc(d)
  BY <1>1 DEF BuilderInv, BuilderShape, TabOK, TabRec
<1>3. r.doc = d /\ r.pc = pc
  BY <1>2 DEF TabRec
<1>4. PICK seen, data, p : /\ seen = (IF file.parses THEN file.src ELSE <<>>) /\ p = "truncate"
                           /\ data = IF file.parses THEN RebuildLua(file.src, d) ELSE ExportLua(d)
  OBVIOUS
<1>5. PICK q : q = TabRec(o, d, seen, p, d, data, w)
  OBVIOUS
<1>6. IsSeq(file.src)
  BY DEF BuilderInv, BuilderShape
<1>7. IsSeq(data) /\ (file.parses => UserCode(data) = UserCode(file.src))
  BY <1>2, <1>4, <1>6, RebuildCode, Exported, Zenon DEF IsGen
<1>8. TabOK(q)
  BY <1>2, <1>5, <1>7, TabOf, Zenon
<1>9. tab' = [tab EXCEPT ![t] = q]
  <2>1. PICK r1 : r1 = [r EXCEPT !.pc = p]
    OBVIOUS
  <2>2. r1 = TabRec(o, d, s, p, st, da, w)
    BY <1>2, <2>1 DEF TabRec
  <2>3. PICK r2 : r2 = [r1 EXCEPT !.sent = d]
    OBVIOUS
  <2>4. r2 = TabRec(o, d, s, p, d, da, w)
    BY <2>2, <2>3 DEF TabRec
  <2>5. PICK r3 : r3 = [r2 EXCEPT !.seen = seen]
    OBVIOUS
  <2>6. r3 = TabRec(o, d, seen, p, d, da, w)
    BY <2>4, <2>5 DEF TabRec
  <2>7. [r3 EXCEPT !.data = data] = q
    BY <1>5, <2>6 DEF TabRec
  <2>8. tab' = [tab EXCEPT ![t].pc = p, ![t].sent = d, ![t].seen = seen, ![t].data = data]
    BY <1>1, <1>3, <1>4, Zenon DEF putForm
  <2>9. [tab EXCEPT ![t].pc = p, ![t].sent = d, ![t].seen = seen, ![t].data = data]
          = [tab EXCEPT ![t] = [[[[tab[t] EXCEPT !.pc = p] EXCEPT !.sent = d] EXCEPT !.seen = seen] EXCEPT !.data = data]]
    BY Zenon
  <2>. QED BY <1>1, <2>1, <2>3, <2>5, <2>7, <2>8, <2>9, Zenon
<1>10. UNCHANGED <<file, tmp, code>> /\ tab[t].pc = "idle"
       /\ (clobbered' = {} => clobbered = {} /\ file.parses /\ \A u \in Tab : tab[u].pc = "idle")
  BY DEF putForm
<1>11. /\ tab' = [u \in Tab |-> tab'[u]] /\ \A u \in Tab : TabOK(tab'[u])
       /\ tab'[t] = q /\ \A u \in Tab : u # t => tab'[u] = tab[u]
  BY <1>8, <1>9, TabStep DEF BuilderInv
<1>12. BuilderShape'
  BY <1>10, <1>11 DEF BuilderInv, BuilderShape
<1>13. SavesHold'
  <2>1. q.pc = "truncate" /\ q.data = data
    BY <1>4, <1>5 DEF TabRec
  <2>. QED BY <1>7, <1>10, <1>11, <2>1 DEF BuilderInv, SavesHold, SaveHolds
<1>. QED BY <1>12, <1>13 DEF BuilderInv

LEMMA RejectedKeeps == ASSUME BuilderInv, NEW t \in Tab, putRejected(t) PROVE BuilderInv'
<1>1. PICK q : q = Idle(tab[t])
  OBVIOUS
<1>2. TabOK(q) /\ q.pc = "idle"
  BY <1>1, IdleTab DEF BuilderInv, BuilderShape
<1>3. tab' = [tab EXCEPT ![t] = q]
  BY <1>1, Zenon DEF putRejected
<1>4. UNCHANGED <<file, tmp, code, clobbered>>
  BY DEF putRejected
<1>5. /\ tab' = [u \in Tab |-> tab'[u]] /\ \A u \in Tab : TabOK(tab'[u])
      /\ tab'[t] = q /\ \A u \in Tab : u # t => tab'[u] = tab[u]
  BY <1>2, <1>3, TabStep DEF BuilderInv
<1>6. BuilderShape'
  BY <1>4, <1>5 DEF BuilderInv, BuilderShape
<1>7. SavesHold'
  BY <1>2, <1>4, <1>5 DEF BuilderInv, SavesHold, SaveHolds
<1>. QED BY <1>6, <1>7 DEF BuilderInv

LEMMA OpenKeeps == ASSUME BuilderInv, NEW t \in Tab, openTmp(t) PROVE BuilderInv'
<1>1. PICK r : r = tab[t]
  OBVIOUS
<1>2. PICK o, d, s, pc, st, da, w : r = TabRec(o, d, s, pc, st, da, w) /\ IsDoc(d) /\ IsSeq(da)
  BY <1>1 DEF BuilderInv, BuilderShape, TabOK, TabRec
<1>3. PICK p, m : p = "write" /\ m = "tmp"
  OBVIOUS
<1>4. PICK q : q = TabRec(o, d, s, p, st, da, m)
  OBVIOUS
<1>5. TabOK(q)
  BY <1>2, <1>4, TabOf, Zenon
<1>6. tab' = [tab EXCEPT ![t] = q]
  <2>1. PICK r1 : r1 = [r EXCEPT !.pc = p]
    OBVIOUS
  <2>2. r1 = TabRec(o, d, s, p, st, da, w)
    BY <1>2, <2>1 DEF TabRec
  <2>3. [r1 EXCEPT !.where = m] = q
    BY <1>4, <2>2 DEF TabRec
  <2>4. tab' = [tab EXCEPT ![t].pc = p, ![t].where = m]
    BY <1>3, Zenon DEF openTmp
  <2>5. [tab EXCEPT ![t].pc = p, ![t].where = m] = [tab EXCEPT ![t] = [[tab[t] EXCEPT !.pc = p] EXCEPT !.where = m]]
    BY Zenon
  <2>. QED BY <1>1, <2>1, <2>3, <2>4, <2>5, Zenon
<1>7. tmp' = [on |-> TRUE, src |-> <<>>] /\ UNCHANGED <<file, code, clobbered>> /\ tab[t].pc = "truncate"
  BY DEF openTmp
<1>8. /\ tab' = [u \in Tab |-> tab'[u]] /\ \A u \in Tab : TabOK(tab'[u])
      /\ tab'[t] = q /\ \A u \in Tab : u # t => tab'[u] = tab[u]
  BY <1>5, <1>6, TabStep DEF BuilderInv
<1>9. BuilderShape'
  BY <1>7, <1>8, EmptyDoc DEF BuilderInv, BuilderShape
<1>10. q.pc = "write" /\ q.where = "tmp" /\ q.data = tab[t].data
  BY <1>1, <1>2, <1>3, <1>4 DEF TabRec
<1>11. SavesHold'
  BY <1>7, <1>8, <1>10 DEF BuilderInv, SavesHold, SaveHolds
<1>. QED BY <1>9, <1>11 DEF BuilderInv

LEMMA WriteKeeps == ASSUME BuilderInv, NEW t \in Tab, writeTmp(t) PROVE BuilderInv'
<1>1. PICK r : r = tab[t]
  OBVIOUS
<1>2. PICK o, d, s, pc, st, da, w : r = TabRec(o, d, s, pc, st, da, w) /\ IsDoc(d) /\ IsSeq(da)
  BY <1>1 DEF BuilderInv, BuilderShape, TabOK, TabRec
<1>3. PICK p : p = "rename"
  OBVIOUS
<1>4. PICK q : q = TabRec(o, d, s, p, st, da, w)
  OBVIOUS
<1>5. TabOK(q)
  BY <1>2, <1>4, TabOf, Zenon
<1>6. tab' = [tab EXCEPT ![t] = q]
  <2>1. [r EXCEPT !.pc = p] = q
    BY <1>2, <1>4 DEF TabRec
  <2>2. tab' = [tab EXCEPT ![t].pc = p]
    BY <1>3, Zenon DEF writeTmp
  <2>3. [tab EXCEPT ![t].pc = p] = [tab EXCEPT ![t] = [tab[t] EXCEPT !.pc = p]]
    BY Zenon
  <2>. QED BY <1>1, <2>1, <2>2, <2>3, Zenon
<1>7. q.pc = "rename" /\ q.data = tab[t].data /\ tab[t].data = da
  BY <1>1, <1>2, <1>3, <1>4 DEF TabRec
<1>8. UNCHANGED <<code, clobbered>> /\ tab[t].pc = "write"
  BY DEF writeTmp
<1>9. /\ tab' = [u \in Tab |-> tab'[u]] /\ \A u \in Tab : TabOK(tab'[u])
      /\ tab'[t] = q /\ \A u \in Tab : u # t => tab'[u] = tab[u]
  BY <1>5, <1>6, TabStep DEF BuilderInv
<1>10. \/ tab[t].where = "tmp" /\ tmp' = [on |-> tmp.on, src |-> da] /\ file' = file
       \/ tab[t].where # "tmp" /\ file' = [src |-> da, parses |-> TRUE] /\ tmp' = tmp
  <2>1. CASE tab[t].where = "tmp"
    <3>1. PICK n, x : tmp = [on |-> n, src |-> x]
      BY DEF BuilderInv, BuilderShape
    <3>2. tmp' = [tmp EXCEPT !.src = da] /\ file' = file
      BY <1>7, <2>1 DEF writeTmp
    <3>3. tmp' = [on |-> n, src |-> da]
      BY <3>1, <3>2
    <3>. QED BY <2>1, <3>1, <3>2, <3>3
  <2>2. CASE tab[t].where # "tmp"
    BY <1>7, <2>2 DEF writeTmp
  <2>. QED BY <2>1, <2>2
<1>11. BuilderShape'
  BY <1>2, <1>9, <1>10 DEF BuilderInv, BuilderShape
<1>12. SavesHold'
  <2>1. SUFFICES ASSUME clobbered = {} PROVE SavesHold'
    BY <1>8 DEF SavesHold
  <2>2. /\ UserCode(file.src) = code /\ SaveHolds(tab[t])
        /\ \A u \in Tab : u # t => tab[u].pc = "idle"
    BY <1>8, <2>1 DEF BuilderInv, SavesHold
  <2>3. tab[t].where = "tmp" /\ UserCode(da) = code
    BY <1>7, <1>8, <2>2 DEF SaveHolds
  <2>4. tmp'.src = da /\ file' = file
    BY <1>10, <2>3
  <2>. QED BY <1>7, <1>8, <1>9, <2>2, <2>3, <2>4 DEF SavesHold, SaveHolds
<1>. QED BY <1>11, <1>12 DEF BuilderInv

LEMMA RenameKeeps == ASSUME BuilderInv, NEW t \in Tab, renameTmp(t) PROVE BuilderInv'
<1>1. ASSUME NEW u \in Tab PROVE TabOK(Idle(tab[u])) /\ Idle(tab[u]).pc = "idle"
  BY IdleTab DEF BuilderInv, BuilderShape
<1>2. ASSUME NEW u \in Tab PROVE TabOK([tab[u] EXCEPT !.where = "file"])
  <2>1. PICK r : r = tab[u]
    OBVIOUS
  <2>2. PICK o, d, s, pc, st, da, w : r = TabRec(o, d, s, pc, st, da, w) /\ IsDoc(d) /\ IsSeq(da)
    BY <2>1 DEF BuilderInv, BuilderShape, TabOK, TabRec
  <2>3. PICK m : m = "file"
    OBVIOUS
  <2>4. [r EXCEPT !.where = m] = TabRec(o, d, s, pc, st, da, m)
    BY <2>2 DEF TabRec
  <2>5. TabOK(TabRec(o, d, s, pc, st, da, m))
    BY <2>2, TabOf, Zenon
  <2>. QED BY <2>1, <2>3, <2>4, <2>5, Zenon
<1>3. UNCHANGED <<code, clobbered>> /\ tab[t].pc = "rename"
  BY DEF renameTmp
<1>4. CASE tmp.on
  <2>1. PICK src : src = tmp.src /\ IsSeq(src)
    BY DEF BuilderInv, BuilderShape
  <2>2. file' = [src |-> src, parses |-> TRUE] /\ tmp' = [on |-> FALSE, src |-> <<>>]
    BY <1>4, <2>1 DEF renameTmp
  <2>3. tab' = [u \in Tab |-> IF u = t THEN Idle(tab[u])
                              ELSE IF tab[u].pc \in {"write", "rename"} THEN [tab[u] EXCEPT !.where = "file"] ELSE tab[u]]
    BY <1>4, Zenon DEF renameTmp
  <2>4. \A u \in Tab : tab'[u] = IF u = t THEN Idle(tab[u])
                                 ELSE IF tab[u].pc \in {"write", "rename"} THEN [tab[u] EXCEPT !.where = "file"] ELSE tab[u]
    BY <2>3, Zenon
  <2>5. tab' = [u \in Tab |-> tab'[u]]
    BY <2>3, Zenon
  <2>6. \A u \in Tab : TabOK(tab[u])
    BY DEF BuilderInv, BuilderShape
  <2>7. \A u \in Tab : TabOK(tab'[u])
    BY <1>1, <1>2, <2>4, <2>6, Zenon
  <2>8. BuilderShape'
    BY <2>1, <2>2, <2>5, <2>7, EmptyDoc DEF BuilderShape
  <2>9. SavesHold'
    <3>1. SUFFICES ASSUME clobbered = {} PROVE SavesHold'
      BY <1>3 DEF SavesHold
    <3>2. /\ SaveHolds(tab[t]) /\ \A u \in Tab : u # t => tab[u].pc = "idle"
      BY <1>3, <3>1 DEF BuilderInv, SavesHold
    <3>3. UserCode(src) = code
      BY <1>3, <2>1, <3>2 DEF SaveHolds
    <3>4. \A u \in Tab : tab'[u].pc = "idle"
      <4>1. tab'[t].pc = "idle"
        BY <1>1, <2>4, Zenon
      <4>2. ASSUME NEW u \in Tab, u # t PROVE tab'[u].pc = "idle"
        <5>1. tab[u].pc = "idle" /\ tab[u].pc \notin {"write", "rename"}
          BY <3>2, <4>2
        <5>. QED BY <2>4, <4>2, <5>1, Zenon
      <4>. QED BY <4>1, <4>2, Zenon
    <3>. QED BY <1>3, <2>2, <3>3, <3>4 DEF SavesHold, SaveHolds
  <2>. QED BY <2>8, <2>9 DEF BuilderInv
<1>5. CASE ~tmp.on
  <2>1. PICK q : q = Idle(tab[t])
    OBVIOUS
  <2>2. tab' = [tab EXCEPT ![t] = q] /\ file' = file /\ tmp' = tmp
    BY <1>5, <2>1, Zenon DEF renameTmp
  <2>3. TabOK(q) /\ q.pc = "idle"
    BY <1>1, <2>1, Zenon
  <2>4. /\ tab' = [u \in Tab |-> tab'[u]] /\ \A u \in Tab : TabOK(tab'[u])
        /\ tab'[t] = q /\ \A u \in Tab : u # t => tab'[u] = tab[u]
    BY <2>2, <2>3, TabStep DEF BuilderInv
  <2>5. BuilderShape'
    BY <2>2, <2>4 DEF BuilderInv, BuilderShape
  <2>6. SavesHold'
    BY <1>3, <2>2, <2>3, <2>4 DEF BuilderInv, SavesHold, SaveHolds
  <2>. QED BY <2>5, <2>6 DEF BuilderInv
<1>. QED BY <1>4, <1>5

LEMMA TypeKeeps == ASSUME BuilderInv, typeInFile PROVE BuilderInv'
<1>1. PICK n, x : file = [src |-> n, parses |-> x] /\ IsSeq(n)
  BY DEF BuilderInv, BuilderShape
<1>2. PICK c : c = CodeLine("typed")
  OBVIOUS
<1>3. /\ UNCHANGED <<tmp, tab>>
      /\ clobbered' = {} => clobbered = {} /\ \A t \in Tab : tab[t].pc = "idle"
  BY DEF typeInFile
<1>4. CASE file' = [file EXCEPT !.src = <<CodeLine("typed")>> \o @] /\ code' = <<CodeLine("typed")>> \o code
  <2>1. PICK m : m = <<c>> \o n
    OBVIOUS
  <2>2. IsSeq(m) /\ UserCode(m) = <<c>> \o UserCode(n)
    <3>1. IsUserCode(c)
      BY <1>2 DEF IsUserCode, CodeLine, Stmt
    <3>2. UserCode(<<c>>) = <<c>> /\ IsSeq(<<c>>)
      BY <3>1, CodeOne, OneSeq, Zenon
    <3>. QED BY <1>1, <2>1, <3>2, SeqConcat, CodeConcat, Zenon
  <2>3. file' = [src |-> m, parses |-> x]
    <3>1. file' = [file EXCEPT !.src = m]
      <4>1. file.src = n
        BY <1>1
      <4>. QED BY <1>2, <1>4, <2>1, <4>1, Zenon
    <3>. QED BY <1>1, <3>1
  <2>4. BuilderShape'
    BY <1>3, <2>2, <2>3 DEF BuilderInv, BuilderShape
  <2>5. clobbered' = {} => UserCode(file.src) = code
    BY <1>3 DEF BuilderInv, SavesHold
  <2>6. clobbered' = {} => UserCode(file'.src) = code'
    <3>1. file'.src = m /\ file.src = n
      BY <1>1, <2>3
    <3>. QED BY <1>2, <1>4, <2>2, <2>5, <3>1, Zenon
  <2>7. SavesHold'
    BY <1>3, <2>6 DEF SavesHold, SaveHolds
  <2>. QED BY <2>4, <2>7 DEF BuilderInv
<1>5. CASE file' = [file EXCEPT !.parses = ~@] /\ UNCHANGED code
  <2>1. PICK y : y = ~file.parses
    OBVIOUS
  <2>2. file' = [file EXCEPT !.parses = y]
    BY <1>5, <2>1, Zenon
  <2>3. file' = [src |-> n, parses |-> y]
    BY <1>1, <2>2
  <2>4. BuilderShape'
    BY <1>1, <1>3, <2>3 DEF BuilderInv, BuilderShape
  <2>5. SavesHold'
    BY <1>1, <1>3, <1>5, <2>3 DEF BuilderInv, SavesHold, SaveHolds
  <2>. QED BY <2>4, <2>5 DEF BuilderInv
<1>. QED BY <1>4, <1>5 DEF typeInFile

\* Whatever documents are loaded, edited, merged and saved, by any number of tabs, and whatever the user types between
\* two saves, the file holds the user's code, whole and in order (RebuildLua of rebuild.go, putForm of server.go), for
\* every source, every statement in it and every document; unless saves overlapped, the user typed during a save, or a
\* source was saved over that did not parse.
THEOREM CodeKeptCorrect == BuilderSpec => []CodePreserved
<1>1. BuilderInv /\ [BuilderNext]_bvars => BuilderInv'
  <2>1. SUFFICES ASSUME BuilderInv, [BuilderNext]_bvars PROVE BuilderInv'
    OBVIOUS
  <2>2. CASE UNCHANGED bvars
    BY <2>1, <2>2 DEF bvars, BuilderInv, BuilderShape, SavesHold, SaveHolds
  <2>3. CASE BuilderNext
    BY <2>1, <2>3, GetFormKeeps, EditsKeep, PutKeeps, RejectedKeeps, OpenKeeps, WriteKeeps, RenameKeeps, TypeKeeps, Zenon DEF BuilderNext
  <2>. QED BY <2>1, <2>2, <2>3
<1>2. BuilderInv => CodePreserved
  BY DEF BuilderInv, SavesHold, CodePreserved
<1>. QED BY <1>1, <1>2, BuilderInitInv, PTL DEF BuilderSpec

-----------------------------------------------------------------------------
(* Loopers: the rows of a tree.                                            *)

\* Iterating a function.
Iterates(F, z, X, m, b) ==
    /\ b = [d \in 0..m |-> b[d]]
    /\ b[0] = z
    /\ \A d \in 0..m : b[d] \in X
    /\ \A d \in 1..m : b[d] = F[b[d - 1]]

LEMMA IterateExists == ASSUME NEW X, NEW z \in X, NEW F \in [X -> X] PROVE \A n \in Nat : \E b : Iterates(F, z, X, n, b)
<1>. DEFINE N == {m \in Nat : \E b : Iterates(F, z, X, m, b)}
<1>1. 0 \in N
  <2>1. PICK b : b = [d \in 0..0 |-> z]
    OBVIOUS
  <2>2. b[0] = z /\ \A d \in 0..0 : b[d] \in X
    BY <2>1
  <2>3. b = [d \in 0..0 |-> b[d]]
    BY <2>1, Zenon
  <2>4. \A d \in 1..0 : b[d] = F[b[d - 1]]
    OBVIOUS
  <2>. QED BY <2>2, <2>3, <2>4 DEF Iterates
<1>2. ASSUME NEW m \in Nat, m \in N PROVE m + 1 \in N
  <2>1. PICK b : Iterates(F, z, X, m, b)
    BY <1>2
  <2>2. PICK g : g = [d \in 0..(m + 1) |-> IF d = m + 1 THEN F[b[m]] ELSE b[d]]
    OBVIOUS
  <2>3. g = [d \in 0..(m + 1) |-> g[d]]
    BY <2>2, Zenon
  <2>4. g[m + 1] = F[b[m]] /\ \A d \in 0..m : g[d] = b[d]
    BY <2>2
  <2>5. b[m] \in X /\ F[b[m]] \in X
    BY <2>1 DEF Iterates
  <2>6. \A d \in 0..(m + 1) : g[d] \in X
    BY <2>1, <2>4, <2>5 DEF Iterates
  <2>7. ASSUME NEW d \in 1..(m + 1) PROVE g[d] = F[g[d - 1]]
    <3>1. CASE d = m + 1
      <4>1. d - 1 = m /\ m \in 0..m
        BY <3>1
      <4>. QED BY <2>4, <3>1, <4>1
    <3>2. CASE d # m + 1
      <4>1. d \in 1..m /\ d \in 0..m /\ d - 1 \in 0..m
        BY <3>2
      <4>. QED BY <2>1, <2>4, <4>1 DEF Iterates
    <3>. QED BY <3>1, <3>2
  <2>8. g[0] = z
    BY <2>1, <2>4 DEF Iterates
  <2>9. Iterates(F, z, X, m + 1, g)
    BY <2>3, <2>6, <2>7, <2>8, Zenon DEF Iterates
  <2>. QED BY <2>9
<1>. HIDE DEF N
<1>3. Nat \subseteq N
  BY <1>1, <1>2, Induct
<1>. QED BY <1>3 DEF N

\* The indices of a sequence that are in S, in order.
Lists(idx, n, S) ==
    /\ idx \in Seq((1..n) \cap S)
    /\ \A a, b \in DOMAIN idx : a < b => idx[a] < idx[b]
    /\ \A i \in (1..n) \cap S : \E a \in DOMAIN idx : idx[a] = i

LEMMA FilterIndices == ASSUME NEW S PROVE \A n \in Nat : Lists(Filter([i \in 1..n |-> i], S), n, S)
<1>. DEFINE Id(n) == [i \in 1..n |-> i]
            Good(n, idx) == Lists(idx, n, S)
            N == {n \in Nat : Good(n, Filter(Id(n), S))}
<1>1. 0 \in N
  <2>1. Id(0) = <<>>
    OBVIOUS
  <2>2. Filter(Id(0), S) = <<>>
    BY <2>1, FilterEmpty, Zenon
  <2>3. Good(0, <<>>)
    BY DEF Lists
  <2>. QED BY <2>2, <2>3, Zenon
<1>2. ASSUME NEW n \in Nat, n \in N PROVE n + 1 \in N
  <2>1. PICK R, id : R = 1..(n + 1) /\ id = Id(n)
    OBVIOUS
  <2>2. id \in Seq(R) /\ n + 1 \in R /\ Id(n + 1) = Append(id, n + 1)
    BY <2>1
  <2>3. PICK idx : idx = Filter(id, S)
    OBVIOUS
  <2>4. Good(n, idx)
    BY <1>2, <2>1, <2>3, Zenon
  <2>5. PICK new : new = Filter(Append(id, n + 1), S)
    OBVIOUS
  <2>6. new = idx \o Kept(n + 1, S)
    <3>. HIDE DEF Id, Good, N
    <3>. QED BY <2>2, <2>3, <2>5, FilterAppend
  <2>9. n + 1 \in Nat /\ new = Filter(Id(n + 1), S)
    <3>1. n + 1 \in Nat
      OBVIOUS
    <3>2. PICK y : y = Id(n + 1)
      OBVIOUS
    <3>3. y = Append(id, n + 1)
      BY <2>2, <3>2, Zenon
    <3>4. new = Filter(y, S)
      BY <2>5, <3>3, Zenon
    <3>. QED BY <3>1, <3>2, <3>4, Zenon
  <2>7. CASE n + 1 \notin S
    <3>1. Kept(n + 1, S) = <<>>
      BY <2>7 DEF Kept
    <3>2. new = idx
      BY <2>4, <2>6, <3>1, ConcatEmptySeq DEF Lists
    <3>3. (1..(n + 1)) \cap S = (1..n) \cap S
      BY <2>7
    <3>4. Good(n + 1, new)
      BY <2>4, <3>2, <3>3, Zenon DEF Lists
    <3>. QED BY <2>9, <3>4, Zenon
  <2>8. CASE n + 1 \in S
    <3>1. PICK A, B : A = (1..n) \cap S /\ B = (1..(n + 1)) \cap S
      OBVIOUS
    <3>2. A \subseteq B /\ n + 1 \in B /\ idx \in Seq(A) /\ \A i \in B : i \in A \/ i = n + 1
      BY <2>4, <2>8, <3>1 DEF Lists
    <3>3. idx \in Seq(B)
      BY <3>2, SeqMonotonic
    <3>4. Kept(n + 1, S) = <<n + 1>>
      BY <2>8 DEF Kept
    <3>5. PICK m \in Nat : m = Len(idx) /\ DOMAIN idx = 1..m
      BY <3>3
    <3>6. new \in Seq(B) /\ DOMAIN new = 1..(m + 1) /\ (\A a \in 1..m : new[a] = idx[a]) /\ new[m + 1] = n + 1
      BY <2>6, <3>2, <3>3, <3>4, <3>5
    <3>7. \A a \in 1..m : idx[a] < n + 1
      BY <3>1, <3>2, <3>5
    <3>8. \A a, b \in 1..(m + 1) : a < b => new[a] < new[b]
      <4>1. SUFFICES ASSUME NEW a \in 1..(m + 1), NEW b \in 1..(m + 1), a < b PROVE new[a] < new[b]
        OBVIOUS
      <4>2. CASE b = m + 1
        <5>1. a \in 1..m
          BY <4>1, <4>2
        <5>. QED BY <3>6, <3>7, <4>2, <5>1
      <4>3. CASE b # m + 1
        <5>1. a \in 1..m /\ b \in 1..m
          BY <4>1, <4>3
        <5>. QED BY <2>4, <3>5, <3>6, <4>1, <5>1 DEF Lists
      <4>. QED BY <4>2, <4>3
    <3>9. ASSUME NEW i \in B PROVE \E a \in 1..(m + 1) : new[a] = i
      <4>1. CASE i \in A
        <5>1. PICK a \in 1..m : idx[a] = i
          BY <2>4, <3>1, <3>5, <4>1 DEF Lists
        <5>. QED BY <3>6, <5>1
      <4>2. CASE i = n + 1
        BY <3>6, <4>2
      <4>. QED BY <3>2, <4>1, <4>2
    <3>10. Good(n + 1, new)
      BY <3>1, <3>6, <3>8, <3>9, Zenon DEF Lists
    <3>. QED BY <2>9, <3>10, Zenon
  <2>. QED BY <2>7, <2>8
<1>. HIDE DEF N
<1>3. Nat \subseteq N
  BY <1>1, <1>2, Induct
<1>. QED BY <1>3 DEF N

\* What iterating Grow and Climb gives.
Below(parent, n, b) ==
    /\ \A i \in 1..n : b[0][i] = <<>>
    /\ \A d \in 1..n : b[d] = Grow(parent, b[d - 1])
Ups(parent, n, u) ==
    /\ \A i \in 1..n : u[0][i] = i
    /\ \A d \in 1..n : u[d] = Climb(parent, u[d - 1])

GrowEq(parent, b) == b = [d \in 0..Len(parent) |-> IF d = 0 THEN [i \in DOMAIN parent |-> <<>>] ELSE Grow(parent, b[d - 1])]
ClimbEq(parent, u) == u = [d \in 0..Len(parent) |-> IF d = 0 THEN [i \in DOMAIN parent |-> i] ELSE Climb(parent, u[d - 1])]

\* The children of i, each once.
Kids(parent, n, i, ch, m) ==
    /\ DOMAIN ch = 1..m
    /\ \A k \in 1..m : ch[k] \in 1..n /\ parent[ch[k]] = i
    /\ Distinct(ch, m)
    /\ \A c \in 1..n : parent[c] = i => \E k \in 1..m : ch[k] = c

LEMMA ChildrenSeq ==
    ASSUME NEW n \in Nat, NEW parent \in [1..n -> Nat], NEW i
    PROVE  \E m \in Nat : Kids(parent, n, i, TreeChildren(parent, i), m)
<1>1. PICK S, idx : S = {j \in 1..n : parent[j] = i} /\ idx = Filter([j \in 1..n |-> j], S)
  OBVIOUS
<1>2. TreeChildren(parent, i) = idx
  <2>1. DOMAIN parent = 1..n
    OBVIOUS
  <2>. QED BY <1>1, <2>1, Zenon DEF TreeChildren
<1>3. Lists(idx, n, S)
  BY <1>1, FilterIndices, Zenon
<1>0. (1..n) \cap S = S
  BY <1>1
<1>4. PICK m \in Nat : DOMAIN idx = 1..m
  BY <1>3 DEF Lists
<1>5. \A k \in 1..m : idx[k] \in S
  BY <1>0, <1>3, <1>4 DEF Lists
<1>8. \A k \in 1..m : idx[k] \in 1..n /\ parent[idx[k]] = i
  BY <1>1, <1>5
<1>6. Distinct(idx, m)
  <2>1. SUFFICES ASSUME NEW j \in 1..m, NEW k \in 1..m, idx[j] = idx[k] PROVE j = k
    BY DEF Distinct
  <2>2. \A a, b \in 1..m : a < b => idx[a] < idx[b]
    BY <1>3, <1>4, Zenon DEF Lists
  <2>3. ~(idx[j] < idx[k]) /\ ~(idx[k] < idx[j])
    BY <1>8, <2>1
  <2>4. ~(j < k) /\ ~(k < j)
    BY <2>2, <2>3, Zenon
  <2>. QED BY <2>4
<1>7. \A c \in 1..n : parent[c] = i => \E k \in 1..m : idx[k] = c
  <2>1. SUFFICES ASSUME NEW c \in 1..n, parent[c] = i PROVE \E k \in 1..m : idx[k] = c
    OBVIOUS
  <2>2. c \in (1..n) \cap S
    BY <1>1, <2>1
  <2>. QED BY <1>3, <1>4, <2>2, Zenon DEF Lists
<1>9. Kids(parent, n, i, idx, m)
  BY <1>4, <1>6, <1>7, <1>8, Zenon DEF Kids
<1>. QED BY <1>2, <1>9, Zenon

\* The roots, each once.
Heads(parent, n, ro, m) ==
    /\ DOMAIN ro = 1..m
    /\ \A k \in 1..m : ro[k] \in 1..n /\ parent[ro[k]] \notin 1..n
    /\ Distinct(ro, m)
    /\ \A c \in 1..n : parent[c] \notin 1..n => \E k \in 1..m : ro[k] = c

LEMMA RootsSeq ==
    ASSUME NEW n \in Nat, NEW parent \in [1..n -> Nat]
    PROVE  \E m \in Nat : Heads(parent, n, TreeRoots(parent), m)
<1>1. PICK S, idx : S = {j \in 1..n : parent[j] \notin 1..n} /\ idx = Filter([j \in 1..n |-> j], S)
  OBVIOUS
<1>2. TreeRoots(parent) = idx
  <2>1. DOMAIN parent = 1..n
    OBVIOUS
  <2>. QED BY <1>1, <2>1, Zenon DEF TreeRoots
<1>3. Lists(idx, n, S)
  BY <1>1, FilterIndices, Zenon
<1>0. (1..n) \cap S = S
  BY <1>1
<1>4. PICK m \in Nat : DOMAIN idx = 1..m
  BY <1>3 DEF Lists
<1>5. \A k \in 1..m : idx[k] \in S
  BY <1>0, <1>3, <1>4 DEF Lists
<1>8. \A k \in 1..m : idx[k] \in 1..n /\ parent[idx[k]] \notin 1..n
  BY <1>1, <1>5
<1>6. Distinct(idx, m)
  <2>1. SUFFICES ASSUME NEW j \in 1..m, NEW k \in 1..m, idx[j] = idx[k] PROVE j = k
    BY DEF Distinct
  <2>2. \A a, b \in 1..m : a < b => idx[a] < idx[b]
    BY <1>3, <1>4, Zenon DEF Lists
  <2>3. ~(idx[j] < idx[k]) /\ ~(idx[k] < idx[j])
    BY <1>8, <2>1
  <2>4. ~(j < k) /\ ~(k < j)
    BY <2>2, <2>3, Zenon
  <2>. QED BY <2>4
<1>7. \A c \in 1..n : parent[c] \notin 1..n => \E k \in 1..m : idx[k] = c
  <2>1. SUFFICES ASSUME NEW c \in 1..n, parent[c] \notin 1..n PROVE \E k \in 1..m : idx[k] = c
    OBVIOUS
  <2>2. c \in (1..n) \cap S
    BY <1>1, <2>1
  <2>. QED BY <1>3, <1>4, <2>2, Zenon DEF Lists
<1>9. Heads(parent, n, idx, m)
  BY <1>4, <1>6, <1>7, <1>8, Zenon DEF Heads
<1>. QED BY <1>2, <1>9, Zenon

\* What Grow gives row i is i and then what its children had.
BelowEach(g, ch, m) == [k \in 1..m |-> g[ch[k]]]
LEMMA GrowIs ==
    ASSUME NEW n \in Nat, NEW parent \in [1..n -> Nat], NEW g, NEW i \in 1..n
    PROVE  \E m, ch : m \in Nat /\ Kids(parent, n, i, ch, m) /\ Grow(parent, g)[i] = <<i>> \o UpTo(BelowEach(g, ch, m), m)
<1>1. PICK ch : ch = TreeChildren(parent, i)
  OBVIOUS
<1>2. PICK m \in Nat : Kids(parent, n, i, ch, m)
  BY <1>1, ChildrenSeq
<1>3. PICK p : p = BelowEach(g, ch, m)
  OBVIOUS
<1>4. p = [k \in 1..m |-> p[k]]
  BY <1>3, Zenon DEF BelowEach
<1>5. p = [k \in DOMAIN TreeChildren(parent, i) |-> g[TreeChildren(parent, i)[k]]]
  BY <1>1, <1>2, <1>3, Zenon DEF BelowEach, Kids
<1>6. i \in DOMAIN parent
  OBVIOUS
<1>7. Grow(parent, g)[i] = <<i>> \o FlattenSeq(p)
  BY <1>5, <1>6, Zenon DEF Grow
<1>. QED BY <1>2, <1>3, <1>4, <1>7, Zenon DEF UpTo

LEMMA GrowType ==
    ASSUME NEW n \in Nat, NEW parent \in [1..n -> Nat], NEW g \in [1..n -> Seq(1..n)]
    PROVE  Grow(parent, g) \in [1..n -> Seq(1..n)]
<1>1. PICK D, Q : D = 1..n /\ Q = Seq(D)
  OBVIOUS
<1>2. ASSUME NEW i \in 1..n PROVE Grow(parent, g)[i] \in Q
  <2>1. PICK m, ch : m \in Nat /\ Kids(parent, n, i, ch, m) /\ Grow(parent, g)[i] = <<i>> \o UpTo(BelowEach(g, ch, m), m)
    BY GrowIs, Zenon
  <2>3. PICK p : p = BelowEach(g, ch, m)
    OBVIOUS
  <2>4. \A k \in 1..m : p[k] \in Seq(D)
    BY <1>1, <2>1, <2>3 DEF Kids, BelowEach
  <2>5. UpTo(p, m) \in Seq(D)
    BY <2>1, <2>4, UpToType
  <2>7. <<i>> \in Seq(D)
    BY <1>1
  <2>9. <<i>> \o UpTo(p, m) \in Seq(D)
    BY <2>5, <2>7, ConcatProperties
  <2>. QED BY <1>1, <2>1, <2>3, <2>9, Zenon
<1>3. DOMAIN parent = D
  BY <1>1
<1>4. Grow(parent, g) = [i \in D |-> Grow(parent, g)[i]]
  BY <1>3, Zenon DEF Grow
<1>. QED BY <1>1, <1>2, <1>4, Zenon

LEMMA BuildIs ==
    ASSUME NEW n \in Nat, NEW parent \in [1..n -> Nat]
    PROVE  \E b : Below(parent, n, b) /\ build(parent) = b[n]
<1>1. Len(parent) = n /\ DOMAIN parent = 1..n
  OBVIOUS
<1>2. PICK X, z : X = [1..n -> Seq(1..n)] /\ z = [i \in 1..n |-> <<>>]
  OBVIOUS
<1>3. z \in X
  BY <1>2
<1>4. PICK F : F = [g \in X |-> Grow(parent, g)]
  OBVIOUS
<1>5. \A g \in X : F[g] = Grow(parent, g)
  BY <1>4, Zenon
<1>6. F \in [X -> X]
  BY <1>2, <1>4, GrowType, Zenon
<1>7. PICK b : Iterates(F, z, X, n, b)
  BY <1>3, <1>6, IterateExists, Zenon
<1>8. GrowEq(parent, b)
  <2>1. ASSUME NEW d \in 0..n PROVE b[d] = IF d = 0 THEN z ELSE Grow(parent, b[d - 1])
    <3>1. CASE d = 0
      BY <1>7, <3>1, Zenon DEF Iterates
    <3>2. CASE d # 0
      <4>1. d \in 1..n /\ d - 1 \in 0..n
        BY <3>2
      <4>. QED BY <1>5, <1>7, <3>2, <4>1, Zenon DEF Iterates
    <3>. QED BY <3>1, <3>2
  <2>2. b = [d \in 0..n |-> b[d]]
    BY <1>7, Zenon DEF Iterates
  <2>3. b = [d \in 0..n |-> IF d = 0 THEN z ELSE Grow(parent, b[d - 1])]
    BY <2>1, <2>2, Zenon
  <2>. QED BY <1>1, <1>2, <2>3, Zenon DEF GrowEq
<1>9. build(parent) = (CHOOSE g : GrowEq(parent, g))[n]
  BY <1>1, Zenon DEF build, GrowEq
<1>10. PICK g : GrowEq(parent, g) /\ build(parent) = g[n]
  BY <1>8, <1>9, Zenon
<1>11. Below(parent, n, g)
  <2>1. g = [d \in 0..n |-> IF d = 0 THEN [i \in 1..n |-> <<>>] ELSE Grow(parent, g[d - 1])]
    BY <1>1, <1>10, Zenon DEF GrowEq
  <2>2. 0 \in 0..n /\ \A d \in 1..n : d \in 0..n /\ d # 0
    OBVIOUS
  <2>3. g[0] = [i \in 1..n |-> <<>>]
    BY <2>1, <2>2, Zenon
  <2>4. \A d \in 1..n : g[d] = Grow(parent, g[d - 1])
    BY <2>1, <2>2, Zenon
  <2>. QED BY <2>3, <2>4, Zenon DEF Below
<1>. QED BY <1>10, <1>11, Zenon

LEMMA AcyclicIs ==
    ASSUME NEW n \in Nat, NEW parent \in [1..n -> Nat], Acyclic(parent)
    PROVE  \E u : Ups(parent, n, u) /\ \A i \in 1..n : u[n][i] \notin 1..n
<1>1. Len(parent) = n /\ DOMAIN parent = 1..n
  OBVIOUS
<1>2. PICK X, z : X = [1..n -> Nat] /\ z = [i \in 1..n |-> i]
  OBVIOUS
<1>3. z \in X
  BY <1>2
<1>4. PICK F : F = [g \in X |-> Climb(parent, g)]
  OBVIOUS
<1>5. \A g \in X : F[g] = Climb(parent, g)
  BY <1>4, Zenon
<1>6. F \in [X -> X]
  <2>1. \A g \in X : Climb(parent, g) \in X
    BY <1>1, <1>2 DEF Climb
  <2>. QED BY <1>4, <2>1, Zenon
<1>7. PICK b : Iterates(F, z, X, n, b)
  BY <1>3, <1>6, IterateExists, Zenon
<1>8. ClimbEq(parent, b)
  <2>1. ASSUME NEW d \in 0..n PROVE b[d] = IF d = 0 THEN z ELSE Climb(parent, b[d - 1])
    <3>1. CASE d = 0
      BY <1>7, <3>1, Zenon DEF Iterates
    <3>2. CASE d # 0
      <4>1. d \in 1..n /\ d - 1 \in 0..n
        BY <3>2
      <4>. QED BY <1>5, <1>7, <3>2, <4>1, Zenon DEF Iterates
    <3>. QED BY <3>1, <3>2
  <2>2. b = [d \in 0..n |-> b[d]]
    BY <1>7, Zenon DEF Iterates
  <2>3. b = [d \in 0..n |-> IF d = 0 THEN z ELSE Climb(parent, b[d - 1])]
    BY <2>1, <2>2, Zenon
  <2>. QED BY <1>1, <1>2, <2>3, Zenon DEF ClimbEq
<1>9. \A i \in 1..n : (CHOOSE g : ClimbEq(parent, g))[n][i] \notin 1..n
  BY <1>1, Zenon DEF Acyclic, ClimbEq
<1>10. PICK g : ClimbEq(parent, g) /\ \A i \in 1..n : g[n][i] \notin 1..n
  BY <1>8, <1>9, Zenon
<1>11. Ups(parent, n, g)
  <2>1. g = [d \in 0..n |-> IF d = 0 THEN [i \in 1..n |-> i] ELSE Climb(parent, g[d - 1])]
    BY <1>1, <1>10, Zenon DEF ClimbEq
  <2>2. 0 \in 0..n /\ \A d \in 1..n : d \in 0..n /\ d # 0
    OBVIOUS
  <2>3. g[0] = [i \in 1..n |-> i]
    BY <2>1, <2>2, Zenon
  <2>4. \A d \in 1..n : g[d] = Climb(parent, g[d - 1])
    BY <2>1, <2>2, Zenon
  <2>. QED BY <2>3, <2>4, Zenon DEF Ups
<1>. QED BY <1>10, <1>11, Zenon

-----------------------------------------------------------------------------
\* r[i] is the number of rows from i up to its root, u[e][i] the row e steps above i.
Ranked(parent, n, u, r) ==
    /\ \A i \in 1..n : r[i] \in 1..n /\ u[0][i] = i
    /\ \A i \in 1..n : \A e \in 0..(r[i] - 1) : u[e][i] \in 1..n /\ r[u[e][i]] = r[i] - e
    /\ \A i \in 1..n : \A e \in 0..(r[i] - 2) : u[e + 1][i] = parent[u[e][i]]
    /\ \A i \in 1..n : parent[i] \in 1..n => r[i] = r[parent[i]] + 1

StepUp(parent, n, x) == IF x \in 1..n THEN parent[x] ELSE x

LEMMA ClimbStep ==
    ASSUME NEW n \in Nat, NEW parent \in [1..n -> Nat], NEW u, Ups(parent, n, u)
    PROVE  \A d \in 1..n : \A i \in 1..n : u[d][i] = StepUp(parent, n, u[d - 1][i])
<1>1. DOMAIN parent = 1..n
  OBVIOUS
<1>2. SUFFICES ASSUME NEW d \in 1..n, NEW i \in 1..n PROVE u[d][i] = StepUp(parent, n, u[d - 1][i])
  OBVIOUS
<1>3. PICK v : v = u[d - 1]
  OBVIOUS
<1>4. u[d] = Climb(parent, v)
  BY <1>3, Zenon DEF Ups
<1>5. Climb(parent, v)[i] = StepUp(parent, n, v[i])
  BY <1>1, Zenon DEF Climb, StepUp
<1>. QED BY <1>3, <1>4, <1>5, Zenon

\* Climbing d steps from the row e steps above i is climbing d + e.
Shifted(u, n, i, e, j) == \A d \in Nat : d + e <= n => u[d][j] = u[d + e][i]

LEMMA ClimbShift ==
    ASSUME NEW n \in Nat, NEW parent \in [1..n -> Nat], NEW u, Ups(parent, n, u),
           NEW i \in 1..n, NEW e \in Nat, NEW j \in 1..n, u[e][i] = j
    PROVE  Shifted(u, n, i, e, j)
<1>. DEFINE N == {d \in Nat : d + e <= n => u[d][j] = u[d + e][i]}
<1>1. 0 \in N
  <2>1. u[0][j] = j
    BY DEF Ups
  <2>2. 0 + e = e
    OBVIOUS
  <2>. QED BY <2>1, <2>2
<1>2. ASSUME NEW d \in Nat, d \in N PROVE d + 1 \in N
  <2>1. SUFFICES ASSUME (d + 1) + e <= n PROVE u[d + 1][j] = u[(d + 1) + e][i]
    OBVIOUS
  <2>2. d + 1 \in 1..n /\ (d + 1) + e \in 1..n /\ (d + 1) - 1 = d /\ ((d + 1) + e) - 1 = d + e /\ d + e <= n
    BY <2>1
  <2>3. u[d + 1][j] = StepUp(parent, n, u[d][j])
    <3>1. PICK k \in 1..n : k = d + 1
      BY <2>2
    <3>2. k - 1 = d
      BY <2>2, <3>1
    <3>3. u[k][j] = StepUp(parent, n, u[k - 1][j])
      BY ClimbStep
    <3>. QED BY <3>1, <3>2, <3>3, Zenon
  <2>4. u[(d + 1) + e][i] = StepUp(parent, n, u[d + e][i])
    <3>1. PICK k \in 1..n : k = (d + 1) + e
      BY <2>2
    <3>2. k - 1 = d + e
      BY <2>2, <3>1
    <3>3. u[k][i] = StepUp(parent, n, u[k - 1][i])
      BY ClimbStep
    <3>. QED BY <3>1, <3>2, <3>3, Zenon
  <2>5. u[d][j] = u[d + e][i]
    BY <1>2, <2>2
  <2>. QED BY <2>3, <2>4, <2>5, Zenon
<1>. HIDE DEF N
<1>3. Nat \subseteq N
  BY <1>1, <1>2, Induct
<1>. QED BY <1>3 DEF N, Shifted

Leaves(u, n, i, d) == d \in 1..n /\ u[d][i] \notin 1..n /\ \A e \in 0..(d - 1) : u[e][i] \in 1..n

LEMMA RankExists ==
    ASSUME NEW n \in Nat, NEW parent \in [1..n -> Nat], NEW u, Ups(parent, n, u), \A i \in 1..n : u[n][i] \notin 1..n
    PROVE  \E r : Ranked(parent, n, u, r)
<1>1. ASSUME NEW i \in 1..n PROVE \E d \in 1..n : Leaves(u, n, i, d)
  <2>1. PICK M : M = {d \in Nat : u[d][i] \notin 1..n}
    OBVIOUS
  <2>2. n \in M
    BY <2>1
  <2>3. PICK d \in M : \A e \in M : d <= e
    BY <2>1, <2>2, MinNat
  <2>4. u[0][i] = i
    BY DEF Ups
  <2>5. d # 0 /\ d <= n /\ d \in Nat
    BY <2>1, <2>2, <2>3, <2>4
  <2>6. \A e \in 0..(d - 1) : u[e][i] \in 1..n
    BY <2>1, <2>3, <2>5
  <2>. QED BY <2>1, <2>3, <2>5, <2>6 DEF Leaves
<1>2. PICK r : r = [i \in 1..n |-> CHOOSE d \in 1..n : Leaves(u, n, i, d)]
  OBVIOUS
<1>3. \A i \in 1..n : r[i] \in 1..n /\ Leaves(u, n, i, r[i])
  BY <1>1, <1>2, Zenon
<1>4. ASSUME NEW i \in 1..n, NEW e \in Nat, e < r[i] PROVE u[e][i] \in 1..n /\ r[u[e][i]] = r[i] - e
  <2>12. r[i] \in 1..n /\ e \in 0..(r[i] - 1)
    BY <1>3, <1>4
  <2>1. u[e][i] \in 1..n
    BY <1>3, <2>12, Zenon DEF Leaves
  <2>2. PICK j \in 1..n : j = u[e][i]
    BY <2>1
  <2>3. PICK ri \in 1..n, rj \in 1..n : ri = r[i] /\ rj = r[j]
    BY <1>3
  <2>0. e \in Nat /\ e < ri
    BY <1>4, <2>3
  <2>4. Leaves(u, n, i, ri) /\ Leaves(u, n, j, rj)
    BY <1>3, <2>3, Zenon
  <2>5. \A d \in Nat : d + e <= n => u[d][j] = u[d + e][i]
    <3>1. u[e][i] = j
      BY <2>2
    <3>2. Shifted(u, n, i, e, j)
      BY <3>1, ClimbShift, Zenon
    <3>. QED BY <3>2, Zenon DEF Shifted
  <2>6. ri - e \in Nat /\ (ri - e) + e = ri /\ ri <= n
    BY <2>0, <2>3
  <2>7. u[ri - e][j] = u[ri][i]
    BY <2>5, <2>6
  <2>8. u[ri - e][j] \notin 1..n
    BY <2>4, <2>7, Zenon DEF Leaves
  <2>9. ~(ri - e < rj)
    <3>1. SUFFICES ASSUME ri - e < rj PROVE FALSE
      OBVIOUS
    <3>2. ri - e \in 0..(rj - 1)
      BY <2>0, <2>6, <3>1
    <3>. QED BY <2>4, <2>8, <3>2, Zenon DEF Leaves
  <2>10. ~(rj < ri - e)
    <3>1. SUFFICES ASSUME rj < ri - e PROVE FALSE
      OBVIOUS
    <3>2. rj + e \in 0..(ri - 1) /\ rj \in Nat /\ rj + e <= n
      BY <2>0, <2>6, <3>1
    <3>3. u[rj][j] = u[rj + e][i]
      BY <2>5, <3>2
    <3>. QED BY <2>4, <3>2, <3>3, Zenon DEF Leaves
  <2>11. rj = ri - e
    BY <2>0, <2>9, <2>10
  <2>. QED BY <2>1, <2>2, <2>3, <2>11, Zenon
<1>5. ASSUME NEW i \in 1..n, NEW e \in 0..(r[i] - 2) PROVE u[e + 1][i] = parent[u[e][i]]
  <2>1. r[i] \in 1..n
    BY <1>3
  <2>2. e + 1 \in 1..n /\ (e + 1) - 1 = e /\ e \in Nat /\ e < r[i]
    BY <2>1
  <2>3. u[e][i] \in 1..n
    BY <1>4, <2>2
  <2>4. u[e + 1][i] = StepUp(parent, n, u[e][i])
    BY <2>2, ClimbStep
  <2>. QED BY <2>3, <2>4 DEF StepUp
<1>6. ASSUME NEW i \in 1..n, parent[i] \in 1..n PROVE r[i] = r[parent[i]] + 1
  <2>0. u[0][i] = i
    BY DEF Ups
  <2>1. u[1][i] = StepUp(parent, n, u[1 - 1][i]) /\ 1 - 1 = 0
    <3>1. 1 \in 1..n /\ 1 - 1 = 0
      OBVIOUS
    <3>. QED BY <3>1, ClimbStep
  <2>2. u[1][i] = parent[i]
    BY <2>0, <2>1 DEF StepUp
  <2>3. r[i] \in 1..n /\ u[r[i]][i] \notin 1..n
    BY <1>3, Zenon DEF Leaves
  <2>4. r[i] # 1
    BY <1>6, <2>2, <2>3
  <2>5. 1 \in Nat /\ 1 < r[i]
    BY <2>3, <2>4
  <2>6. r[u[1][i]] = r[i] - 1
    BY <1>4, <2>5
  <2>7. r[parent[i]] \in 1..n
    BY <1>3, <1>6
  <2>. QED BY <2>2, <2>3, <2>6, <2>7
<1>9. ASSUME NEW i \in 1..n, NEW e \in 0..(r[i] - 1) PROVE u[e][i] \in 1..n /\ r[u[e][i]] = r[i] - e
  <2>1. r[i] \in 1..n
    BY <1>3
  <2>2. e \in Nat /\ e < r[i]
    BY <2>1
  <2>. QED BY <1>4, <2>2, Zenon
<1>7. \A i \in 1..n : r[i] \in 1..n /\ u[0][i] = i
  BY <1>3, Zenon DEF Ups
<1>8. Ranked(parent, n, u, r)
  BY <1>5, <1>6, <1>7, <1>9, Zenon DEF Ranked
<1>. QED BY <1>8

\* What lies below row i within d levels holds row c once if i is less than d levels above c on its way up, else not at all.
Above(u, r, i, c, d) == r[i] <= r[c] /\ r[c] < r[i] + d /\ u[r[c] - r[i]][c] = i
HoldsRow(x, n, u, r, i, c, d) == x \in Seq(1..n) /\ Filter(x, {c}) = IF Above(u, r, i, c, d) THEN <<c>> ELSE <<>>

\* One level: the children of i.
LEMMA GrowHolds ==
    ASSUME NEW n \in Nat, NEW parent \in [1..n -> Nat], NEW u, NEW r, Ranked(parent, n, u, r), NEW d \in Nat,
           NEW g, \A i, c \in 1..n : HoldsRow(g[i], n, u, r, i, c, d), NEW i \in 1..n, NEW c \in 1..n
    PROVE  HoldsRow(Grow(parent, g)[i], n, u, r, i, c, d + 1)
<1>1. PICK m, ch : m \in Nat /\ Kids(parent, n, i, ch, m) /\ Grow(parent, g)[i] = <<i>> \o UpTo(BelowEach(g, ch, m), m)
  BY GrowIs, Zenon
<1>2. PICK p : p = BelowEach(g, ch, m)
  OBVIOUS
<1>3. \A k \in 1..m : p[k] = g[ch[k]]
  BY <1>2, Zenon DEF BelowEach
<1>4. PICK ri \in 1..n, rc \in 1..n : ri = r[i] /\ rc = r[c]
  BY DEF Ranked
<1>0. PICK at : at = u[rc - (ri + 1)][c]
  OBVIOUS
<1>5. PICK plain \in BOOLEAN : plain <=> (ri + 1 <= rc /\ rc < (ri + 1) + d)
  BY Zenon
<1>6. (plain => ri + 1 <= rc /\ rc < (ri + 1) + d) /\ (~plain => ~(ri + 1 <= rc /\ rc < (ri + 1) + d))
  BY <1>5, Zenon
<1>7. ASSUME NEW k \in 1..m PROVE p[k] \in Seq(1..n) /\ Filter(p[k], {c}) = IF plain /\ at = ch[k] THEN <<c>> ELSE <<>>
  <2>1. PICK j \in 1..n : j = ch[k] /\ parent[j] = i
    BY <1>1 DEF Kids
  <2>2. r[j] = ri + 1
    BY <1>4, <2>1 DEF Ranked
  <2>3. HoldsRow(g[j], n, u, r, j, c, d)
    BY Zenon
  <2>4. Above(u, r, j, c, d) <=> plain /\ at = ch[k]
    BY <1>0, <1>4, <1>5, <2>1, <2>2, Zenon DEF Above
  <2>5. p[k] = g[j]
    BY <1>3, <2>1, Zenon
  <2>. QED BY <2>3, <2>4, <2>5, Zenon DEF HoldsRow
<1>8. HeldOnce(p, c, <<c>>, plain, at, ch, m)
  <2>0. <<c>> \in Seq(1..n)
    OBVIOUS
  <2>1. PICK D, v : D = 1..n /\ v = <<c>> /\ v \in Seq(D)
    BY <2>0, Zenon
  <2>2. InOne(D, p, c, v, plain, at, ch, m)
    BY <1>1, <1>7, <2>1, Zenon DEF InOne, Kids
  <2>3. HeldOnce(p, c, v, plain, at, ch, m)
    BY <1>1, <2>2, OneHolds, Zenon
  <2>. QED BY <2>1, <2>3, Zenon
<1>9. PICK x, y : x = <<i>> /\ y = UpTo(p, m)
  OBVIOUS
<1>10. x \in Seq(1..n) /\ y \in Seq(1..n)
  <2>1. m \in Nat /\ \A k \in 1..m : p[k] \in Seq(1..n)
    BY <1>1, <1>7
  <2>2. UpTo(p, m) \in Seq(1..n)
    BY <2>1, UpToType
  <2>3. <<i>> \in Seq(1..n)
    OBVIOUS
  <2>. QED BY <1>9, <2>2, <2>3, Zenon
<1>11. Filter(x \o y, {c}) = Filter(x, {c}) \o Filter(y, {c})
  <2>1. ASSUME NEW E PROVE Filter(x \o y, E) = Filter(x, E) \o Filter(y, E)
    BY <1>10, FilterConcat
  <2>. QED BY <2>1, Zenon
<1>12. Filter(x, {c}) = Kept(i, {c})
  <2>1. <<>> \in Seq(1..n) /\ x = Append(<<>>, i)
    BY <1>9
  <2>2. Filter(Append(<<>>, i), {c}) = Filter(<<>>, {c}) \o Kept(i, {c})
    BY <2>1, FilterAppend
  <2>3. <<>> \o Kept(i, {c}) = Kept(i, {c})
    BY ConcatEmptySeq DEF Kept
  <2>. QED BY <2>1, <2>2, <2>3, FilterEmpty, Zenon
<1>13. Filter(y, {c}) = IF plain /\ \E k \in 1..m : ch[k] = at THEN <<c>> ELSE <<>>
  BY <1>8, <1>9, Zenon DEF HeldOnce
<1>14. x \o y \in Seq(1..n) /\ Grow(parent, g)[i] = x \o y
  <2>1. x \o y \in Seq(1..n)
    BY <1>10, ConcatProperties
  <2>. QED BY <1>1, <1>2, <1>9, <2>1, Zenon
<1>15. <<>> \o <<c>> = <<c>> /\ <<c>> \o <<>> = <<c>> /\ <<>> \o <<>> = <<>>
  OBVIOUS
<1>16. CASE c = i
  <2>1. Kept(i, {c}) = <<c>>
    BY <1>16 DEF Kept
  <2>2. ~plain
    <3>1. ~(ri + 1 <= rc)
      BY <1>4, <1>16
    <3>. QED BY <1>5, <3>1, Zenon
  <2>3. Above(u, r, i, c, d + 1)
    <3>1. ri = rc /\ rc - ri = 0 /\ ri <= rc /\ rc < ri + (d + 1)
      BY <1>4, <1>16
    <3>2. u[0][c] = i
      BY <1>16 DEF Ranked
    <3>. QED BY <1>4, <3>1, <3>2, Zenon DEF Above
  <2>. QED BY <1>11, <1>12, <1>13, <1>14, <1>15, <2>1, <2>2, <2>3, Zenon DEF HoldsRow
<1>17. CASE c # i
  <2>1. Kept(i, {c}) = <<>>
    BY <1>17 DEF Kept
  <2>2. Above(u, r, i, c, d + 1) <=> plain /\ \E k \in 1..m : ch[k] = at
    <3>1. CASE plain
      <4>0. ri + 1 <= rc /\ rc < (ri + 1) + d
        BY <1>6, <3>1, Zenon
      <4>1. PICK e \in Nat : e = rc - (ri + 1)
        BY <4>0
      <4>2. e \in 0..(rc - 1) /\ e \in 0..(rc - 2) /\ rc - ri = e + 1 /\ ri <= rc /\ rc < ri + (d + 1)
        BY <4>0, <4>1
      <4>3. at \in 1..n /\ u[e + 1][c] = parent[at]
        BY <1>0, <1>4, <4>1, <4>2, Zenon DEF Ranked
      <4>4. Above(u, r, i, c, d + 1) <=> parent[at] = i
        BY <1>4, <4>2, <4>3, Zenon DEF Above
      <4>5. parent[at] = i <=> \E k \in 1..m : ch[k] = at
        BY <1>1, <4>3, Zenon DEF Kids
      <4>. QED BY <3>1, <4>4, <4>5, Zenon
    <3>2. CASE ~plain
      <4>1. SUFFICES ASSUME Above(u, r, i, c, d + 1) PROVE FALSE
        BY <3>2, Zenon
      <4>2. ri <= rc /\ rc < ri + (d + 1) /\ u[rc - ri][c] = i
        BY <1>4, <4>1, Zenon DEF Above
      <4>0. ~(ri + 1 <= rc /\ rc < (ri + 1) + d)
        BY <1>6, <3>2, Zenon
      <4>3. rc - ri = 0
        BY <4>0, <4>2
      <4>4. u[0][c] = c
        BY DEF Ranked
      <4>. QED BY <1>17, <4>2, <4>3, <4>4, Zenon
    <3>. QED BY <3>1, <3>2
  <2>. QED BY <1>11, <1>12, <1>13, <1>14, <1>15, <2>1, <2>2, Zenon DEF HoldsRow
<1>. QED BY <1>16, <1>17

LEMMA SubtreeHolds ==
    ASSUME NEW n \in Nat, NEW parent \in [1..n -> Nat], NEW u, NEW r, Ranked(parent, n, u, r), NEW b, Below(parent, n, b)
    PROVE  \A i, c \in 1..n : HoldsRow(b[n][i], n, u, r, i, c, n)
<1>. DEFINE N == {d \in Nat : d <= n => \A i, c \in 1..n : HoldsRow(b[d][i], n, u, r, i, c, d)}
<1>1. 0 \in N
  <2>1. SUFFICES ASSUME NEW i \in 1..n, NEW c \in 1..n PROVE HoldsRow(b[0][i], n, u, r, i, c, 0)
    OBVIOUS
  <2>2. b[0][i] = <<>>
    BY DEF Below
  <2>3. <<>> \in Seq(1..n)
    OBVIOUS
  <2>4. PICK ri \in 1..n, rc \in 1..n : ri = r[i] /\ rc = r[c]
    BY DEF Ranked
  <2>5. ~(ri <= rc /\ rc < ri + 0)
    OBVIOUS
  <2>6. ~Above(u, r, i, c, 0)
    BY <2>4, <2>5, Zenon DEF Above
  <2>. QED BY <2>2, <2>3, <2>6, FilterEmpty, Zenon DEF HoldsRow
<1>2. ASSUME NEW d \in Nat, d \in N PROVE d + 1 \in N
  <2>1. SUFFICES ASSUME d + 1 <= n, NEW i \in 1..n, NEW c \in 1..n PROVE HoldsRow(b[d + 1][i], n, u, r, i, c, d + 1)
    OBVIOUS
  <2>2. PICK k \in 1..n : k = d + 1
    BY <2>1
  <2>3. k - 1 = d /\ d <= n
    BY <2>1, <2>2
  <2>4. PICK g : g = b[d]
    OBVIOUS
  <2>5. b[d + 1] = Grow(parent, g)
    BY <2>2, <2>3, <2>4, Zenon DEF Below
  <2>6. \A j, e \in 1..n : HoldsRow(g[j], n, u, r, j, e, d)
    BY <1>2, <2>3, <2>4
  <2>7. HoldsRow(Grow(parent, g)[i], n, u, r, i, c, d + 1)
    BY <2>6, GrowHolds, Zenon
  <2>. QED BY <2>5, <2>7, Zenon
<1>. HIDE DEF N
<1>3. Nat \subseteq N
  BY <1>1, <1>2, Induct
<1>4. n \in N /\ n <= n
  BY <1>3
<1>. QED BY <1>4 DEF N

\* A sequence in which each of 1..n occurs once has n members.
Occurs(s, c) == \E k \in DOMAIN s : s[k] = c
CountOK(s, n) ==
    \A c \in 1..n : Filter(s, {c}) = <<>> <=> ~Occurs(s, c)

LEMMA OccursIffKept ==
    ASSUME NEW n \in Nat
    PROVE  \A s \in Seq(1..n) : CountOK(s, n)
<1>. DEFINE D == 1..n
            P == {s \in Seq(D) : CountOK(s, n)}
<1>1. <<>> \in P
  <2>1. <<>> \in Seq(D) /\ \A c \in 1..n : ~Occurs(<<>>, c)
    BY DEF Occurs
  <2>. QED BY <2>1, FilterEmpty, Zenon DEF CountOK
<1>2. ASSUME NEW s \in Seq(D), NEW e \in D, s \in P PROVE Append(s, e) \in P
  <2>1. PICK t : t = Append(s, e)
    OBVIOUS
  <2>2. t \in Seq(D)
    BY <2>1
  <2>3. ASSUME NEW c \in 1..n PROVE Filter(t, {c}) = <<>> <=> ~Occurs(t, c)
    <3>1. Filter(t, {c}) = Filter(s, {c}) \o Kept(e, {c})
      BY <2>1, FilterAppend
    <3>2. PICK x : x = Filter(s, {c}) /\ x \in Seq(D)
      BY FilterType
    <3>3. Occurs(t, c) <=> Occurs(s, c) \/ e = c
      <4>1. PICK m \in Nat : m = Len(s) /\ DOMAIN s = 1..m
        OBVIOUS
      <4>2. DOMAIN t = 1..(m + 1) /\ (\A k \in 1..m : t[k] = s[k]) /\ t[m + 1] = e
        BY <2>1, <4>1
      <4>3. m + 1 \in 1..(m + 1) /\ (\A k \in 1..m : k \in 1..(m + 1)) /\ \A k \in 1..(m + 1) : k \in 1..m \/ k = m + 1
        OBVIOUS
      <4>. QED BY <4>1, <4>2, <4>3, Zenon DEF Occurs
    <3>4. x = <<>> <=> ~Occurs(s, c)
      BY <1>2, <3>2, Zenon DEF CountOK
    <3>5. CASE e = c
      <4>1. Kept(e, {c}) = <<e>>
        BY <3>5 DEF Kept
      <4>2. x \o <<e>> # <<>>
        BY <3>2
      <4>. QED BY <3>1, <3>2, <3>3, <3>5, <4>1, <4>2, Zenon
    <3>6. CASE e # c
      <4>1. Kept(e, {c}) = <<>>
        BY <3>6 DEF Kept
      <4>2. x \o <<>> = x
        BY <3>2, ConcatEmptySeq
      <4>. QED BY <3>1, <3>2, <3>3, <3>4, <3>6, <4>1, <4>2, Zenon
    <3>. QED BY <3>5, <3>6
  <2>. QED BY <2>1, <2>2, <2>3, Zenon DEF CountOK
<1>. HIDE DEF P
<1>3. Seq(D) \subseteq P
  BY <1>1, <1>2, SeqInduct
<1>. QED BY <1>3 DEF P

\* No element that a sequence keeps at most once is at two places.
AtMostOnce(s, n) == \A c \in 1..n : Len(Filter(s, {c})) <= 1
Repeats(s) == \E j, k \in DOMAIN s : j # k /\ s[j] = s[k]

LEMMA OnceIsInjective ==
    ASSUME NEW n \in Nat
    PROVE  \A s \in Seq(1..n) : AtMostOnce(s, n) => ~Repeats(s)
<1>. DEFINE D == 1..n
            P == {s \in Seq(D) : AtMostOnce(s, n) => ~Repeats(s)}
<1>1. <<>> \in P
  <2>1. <<>> \in Seq(D) /\ ~Repeats(<<>>)
    BY DEF Repeats
  <2>. QED BY <2>1, Zenon
<1>2. ASSUME NEW s \in Seq(D), NEW e \in D, s \in P PROVE Append(s, e) \in P
  <2>1. PICK t : t = Append(s, e)
    OBVIOUS
  <2>2. t \in Seq(D)
    BY <2>1
  <2>3. SUFFICES ASSUME AtMostOnce(t, n) PROVE ~Repeats(t)
    BY <2>1, <2>2, Zenon
  <2>4. ASSUME NEW c \in 1..n
        PROVE  \E x \in Seq(D) : x = Filter(s, {c}) /\ Len(x) + (IF e = c THEN 1 ELSE 0) <= 1
    <3>1. Filter(t, {c}) = Filter(s, {c}) \o Kept(e, {c})
      BY <2>1, FilterAppend
    <3>2. PICK x \in Seq(D) : x = Filter(s, {c})
      BY FilterType
    <3>3. Kept(e, {c}) = IF e = c THEN <<e>> ELSE <<>>
      BY DEF Kept
    <3>4. Len(Filter(t, {c})) <= 1
      BY <2>3, Zenon DEF AtMostOnce
    <3>5. CASE e = c
      <4>1. Len(x \o <<e>>) = Len(x) + 1
        OBVIOUS
      <4>2. Len(x \o <<e>>) <= 1
        BY <3>1, <3>2, <3>3, <3>4, <3>5, Zenon
      <4>. QED BY <3>2, <3>5, <4>1, <4>2
    <3>6. CASE e # c
      <4>1. x \o <<>> = x
        BY ConcatEmptySeq
      <4>2. Len(x) <= 1
        BY <3>1, <3>2, <3>3, <3>4, <3>6, <4>1, Zenon
      <4>. QED BY <3>2, <3>6, <4>2
    <3>. QED BY <3>5, <3>6
  <2>5. AtMostOnce(s, n)
    <3>1. SUFFICES ASSUME NEW c \in 1..n PROVE Len(Filter(s, {c})) <= 1
      BY DEF AtMostOnce
    <3>2. PICK x \in Seq(D) : x = Filter(s, {c}) /\ Len(x) + (IF e = c THEN 1 ELSE 0) <= 1
      BY <2>4
    <3>3. Len(x) <= 1
      BY <3>2
    <3>. QED BY <3>2, <3>3, Zenon
  <2>6. ~Repeats(s)
    BY <1>2, <2>5, Zenon
  <2>7. ~Occurs(s, e)
    <3>0. e \in 1..n
      OBVIOUS
    <3>1. PICK x \in Seq(D) : x = Filter(s, {e}) /\ Len(x) + (IF e = e THEN 1 ELSE 0) <= 1
      BY <2>4, <3>0
    <3>2. x = <<>>
      BY <3>1
    <3>3. CountOK(s, n)
      BY OccursIffKept, Zenon
    <3>. QED BY <3>0, <3>1, <3>2, <3>3, Zenon DEF CountOK
  <2>8. PICK m \in Nat : m = Len(s) /\ DOMAIN s = 1..m
    OBVIOUS
  <2>9. DOMAIN t = 1..(m + 1) /\ (\A k \in 1..m : t[k] = s[k]) /\ t[m + 1] = e
    BY <2>1, <2>8
  <2>10. \A k \in 1..m : s[k] # e
    BY <2>7, <2>8, Zenon DEF Occurs
  <2>11. \A j, k \in 1..m : s[j] = s[k] => j = k
    BY <2>6, <2>8, Zenon DEF Repeats
  <2>12. \A j \in 1..(m + 1) : j \in 1..m \/ j = m + 1
    OBVIOUS
  <2>. QED BY <2>9, <2>10, <2>11, <2>12, Zenon DEF Repeats
<1>. HIDE DEF P
<1>3. Seq(D) \subseteq P
  BY <1>1, <1>2, SeqInduct
<1>. QED BY <1>3 DEF P

EachOnce(s, n) == s \in Seq(1..n) /\ \A c \in 1..n : Filter(s, {c}) = <<c>>

LEMMA EachOnceCounts ==
    ASSUME NEW n \in Nat, NEW s, EachOnce(s, n)
    PROVE  Len(s) = n /\ ToSet(s) = 1..n
<1>1. s \in Seq(1..n)
  BY DEF EachOnce
<1>2. AtMostOnce(s, n)
  <2>1. \A c \in 1..n : Len(<<c>>) <= 1
    OBVIOUS
  <2>. QED BY <2>1, Zenon DEF AtMostOnce, EachOnce
<1>3. ~Repeats(s)
  BY <1>1, <1>2, OnceIsInjective, Zenon
<1>4. CountOK(s, n)
  BY <1>1, OccursIffKept, Zenon
<1>5. ASSUME NEW c \in 1..n PROVE Occurs(s, c)
  <2>0. <<c>> # <<>>
    OBVIOUS
  <2>1. Filter(s, {c}) # <<>>
    BY <2>0, Zenon DEF EachOnce
  <2>. QED BY <1>4, <2>1, Zenon DEF CountOK
<1>6. PICK m \in Nat : m = Len(s) /\ DOMAIN s = 1..m
  BY <1>1
<1>7. s \in [1..m -> 1..n]
  BY <1>1, <1>6
<1>8. ToSet(s) = 1..n
  <2>1. \A c \in 1..n : \E k \in DOMAIN s : s[k] = c
    BY <1>5, Zenon DEF Occurs
  <2>2. \A k \in DOMAIN s : s[k] \in 1..n
    BY <1>6, <1>7
  <2>. QED BY <2>1, <2>2, Zenon DEF ToSet
<1>9. s \in Bijection(1..m, 1..n)
  <2>1. \A j, k \in 1..m : s[j] = s[k] => j = k
    BY <1>3, <1>6, Zenon DEF Repeats
  <2>2. \A c \in 1..n : \E k \in 1..m : s[k] = c
    BY <1>5, <1>6, Zenon DEF Occurs
  <2>. QED BY <1>7, <2>1, <2>2 DEF Bijection, Injection, Surjection, IsInjective
<1>10. Cardinality(1..m) = m /\ Cardinality(1..n) = n /\ IsFiniteSet(1..m) /\ IsFiniteSet(1..n)
  <2>1. \A k \in Nat : IsFiniteSet(1..k) /\ Cardinality(1..k) = IF 1 > k THEN 0 ELSE k - 1 + 1
    BY FS_Interval
  <2>. QED BY <2>1
<1>11. Cardinality(1..m) = Cardinality(1..n)
  <2>1. ExistsBijection(1..m, 1..n)
    BY <1>9 DEF ExistsBijection
  <2>. QED BY <1>10, <2>1, FS_Bijection
<1>. QED BY <1>6, <1>8, <1>10, <1>11

LEMMA RootRank ==
    ASSUME NEW n \in Nat, NEW parent, NEW u, NEW r, Ranked(parent, n, u, r), NEW j \in 1..n, parent[j] \notin 1..n
    PROVE  r[j] = 1
<1>1. r[j] \in 1..n /\ u[0][j] = j
  BY Zenon DEF Ranked
<1>2. SUFFICES ASSUME r[j] # 1 PROVE FALSE
  OBVIOUS
<1>3. 0 \in 0..(r[j] - 2) /\ 0 + 1 = 1 /\ 1 \in 0..(r[j] - 1)
  BY <1>1, <1>2
<1>4. u[1][j] \in 1..n
  BY <1>3, Zenon DEF Ranked
<1>5. u[1][j] = parent[u[0][j]]
  BY <1>3, Zenon DEF Ranked
<1>. QED BY <1>1, <1>4, <1>5, Zenon

\* The roots with what is below them.
LEMMA TreePlaces ==
    ASSUME NEW n \in Nat, NEW parent \in [1..n -> Nat], Acyclic(parent)
    PROVE  EachOnce(BuildTree(parent).nodes, n)
<1>1. PICK u : Ups(parent, n, u) /\ \A i \in 1..n : u[n][i] \notin 1..n
  BY AcyclicIs, Zenon
<1>2. PICK r : Ranked(parent, n, u, r)
  BY <1>1, RankExists, Zenon
<1>3. PICK b : Below(parent, n, b) /\ build(parent) = b[n]
  BY BuildIs, Zenon
<1>4. \A i, c \in 1..n : HoldsRow(b[n][i], n, u, r, i, c, n)
  BY <1>2, <1>3, SubtreeHolds, Zenon
<1>5. PICK ro : ro = TreeRoots(parent)
  OBVIOUS
<1>6. PICK m \in Nat : Heads(parent, n, ro, m)
  BY <1>5, RootsSeq
<1>7. PICK p : p = [k \in 1..m |-> b[n][ro[k]]]
  OBVIOUS
<1>8. BuildTree(parent).nodes = UpTo(p, m)
  <2>1. p = [k \in DOMAIN ro |-> build(parent)[ro[k]]]
    BY <1>3, <1>6, <1>7, Zenon DEF Heads
  <2>2. p = [k \in 1..m |-> p[k]]
    BY <1>7, Zenon
  <2>3. PICK y : y = FlattenSeq(p)
    OBVIOUS
  <2>4. BuildTree(parent).nodes = y
    BY <1>5, <2>1, <2>3 DEF BuildTree
  <2>. QED BY <2>2, <2>3, <2>4, Zenon DEF UpTo
<1>9. \A k \in 1..m : p[k] = b[n][ro[k]] /\ ro[k] \in 1..n
  BY <1>6, <1>7, Zenon DEF Heads
<1>10. UpTo(p, m) \in Seq(1..n)
  <2>1. \A k \in 1..m : ro[k] \in 1..n => b[n][ro[k]] \in Seq(1..n)
    BY <1>4, Zenon DEF HoldsRow
  <2>2. \A k \in 1..m : p[k] \in Seq(1..n)
    BY <1>9, <2>1, Zenon
  <2>. QED BY <2>2, UpToType
<1>11. ASSUME NEW c \in 1..n PROVE Filter(UpTo(p, m), {c}) = <<c>>
  <2>1. PICK rc \in 1..n : rc = r[c]
    BY <1>2 DEF Ranked
  <2>2. PICK at, plain : at = u[rc - 1][c] /\ plain = TRUE
    OBVIOUS
  <2>3. ASSUME NEW k \in 1..m PROVE p[k] \in Seq(1..n) /\ Filter(p[k], {c}) = IF plain /\ at = ro[k] THEN <<c>> ELSE <<>>
    <3>1. PICK j \in 1..n : j = ro[k]
      BY <1>9
    <3>2. r[j] = 1
      <4>1. parent[j] \notin 1..n
        BY <1>6, <3>1, Zenon DEF Heads
      <4>. QED BY <1>2, <4>1, RootRank, Zenon
    <3>3. HoldsRow(b[n][j], n, u, r, j, c, n)
      BY <1>4, Zenon
    <3>4. 1 <= rc /\ rc < 1 + n
      OBVIOUS
    <3>5. Above(u, r, j, c, n) <=> plain /\ at = ro[k]
      BY <2>1, <2>2, <3>1, <3>2, <3>4, Zenon DEF Above
    <3>6. p[k] = b[n][j]
      BY <1>9, <3>1, Zenon
    <3>. QED BY <3>3, <3>5, <3>6, Zenon DEF HoldsRow
  <2>4. \E k \in 1..m : ro[k] = at
    <3>1. rc - 1 \in 0..(rc - 1) /\ rc - (rc - 1) = 1
      OBVIOUS
    <3>2. at \in 1..n /\ r[at] = 1
      BY <1>2, <2>1, <2>2, <3>1, Zenon DEF Ranked
    <3>3. parent[at] \notin 1..n
      <4>1. SUFFICES ASSUME parent[at] \in 1..n PROVE FALSE
        OBVIOUS
      <4>2. r[at] = r[parent[at]] + 1 /\ r[parent[at]] \in 1..n
        BY <1>2, <3>2, <4>1, Zenon DEF Ranked
      <4>. QED BY <3>2, <4>2
    <3>. QED BY <1>6, <3>2, <3>3, Zenon DEF Heads
  <2>5. PICK D, v : D = 1..n /\ v = <<c>> /\ v \in Seq(D)
    <3>1. <<c>> \in Seq(1..n)
      OBVIOUS
    <3>. QED BY <3>1, Zenon
  <2>6. InOne(D, p, c, v, plain, at, ro, m)
    BY <1>6, <2>3, <2>5, Zenon DEF InOne, Heads
  <2>7. plain \in BOOLEAN
    BY <2>2
  <2>8. HeldOnce(p, c, v, plain, at, ro, m)
    BY <2>6, <2>7, OneHolds, Zenon
  <2>. QED BY <2>2, <2>4, <2>5, <2>8, Zenon DEF HeldOnce
<1>. QED BY <1>8, <1>10, <1>11, Zenon DEF EachOnce

\* What the tree control answered is what it builds of the rows of some query, or nothing yet.
TreeBuilt == treeOf.error \/ treeOf = NoTree \/ \E n \in 0..MaxNodes : \E parent \in [1..n -> 0..(n + 1)] : treeOf = BuildTree(parent)

LEMMA NoTreeKeepsRows == treeOf = NoTree => TreeKeepsRows
<1>1. ToSet(<<>>) = {}
  BY DEF ToSet
<1>. QED BY <1>1 DEF TreeKeepsRows, NoTree

LEMMA BuiltKeepsRows == ASSUME TreeBuilt PROVE TreeKeepsRows
<1>1. CASE treeOf.error
  BY <1>1 DEF TreeKeepsRows
<1>2. CASE treeOf = NoTree
  BY <1>2, NoTreeKeepsRows
<1>3. ASSUME NEW n \in 0..MaxNodes, NEW parent \in [1..n -> 0..(n + 1)], treeOf = BuildTree(parent) PROVE TreeKeepsRows
  <2>1. n \in Nat /\ parent \in [1..n -> Nat] /\ Len(parent) = n /\ DOMAIN parent = 1..n
    BY LooperAssumption
  <2>2. treeOf.parent = parent /\ treeOf.count = n
    BY <1>3, <2>1 DEF BuildTree
  <2>3. SUFFICES ASSUME Acyclic(parent) PROVE Len(treeOf.nodes) = n /\ ToSet(treeOf.nodes) = 1..n
    BY <2>1, <2>2, Zenon DEF TreeKeepsRows
  <2>4. EachOnce(treeOf.nodes, n)
    BY <1>3, <2>1, <2>3, TreePlaces, Zenon
  <2>. QED BY <2>1, <2>4, EachOnceCounts, Zenon
<1>. QED BY <1>1, <1>2, <1>3 DEF TreeBuilt

\* Whatever the rows of the query, in whatever order, with whatever parents: when following the parents ends, the tree
\* the page gets has every row exactly once, the rows whose parent was not loaded as roots (the promise of tree.go that
\* "no row is lost", for every number of rows up to the cap of the control).
THEOREM TreeCorrect == LoopersSpec => []TreeKeepsRows
<1>1. LoopersInit => TreeBuilt
  BY DEF LoopersInit, TreeBuilt
<1>2. TreeBuilt /\ [LooperNext \/ handleTreeDataRequest \/ handleLoginSubmit]_loopvars => TreeBuilt'
  <2>1. SUFFICES ASSUME TreeBuilt, [LooperNext \/ handleTreeDataRequest \/ handleLoginSubmit]_loopvars PROVE TreeBuilt'
    OBVIOUS
  <2>2. CASE UNCHANGED treeOf
    BY <2>1, <2>2, Zenon DEF TreeBuilt
  <2>3. CASE handleTreeDataRequest
    <3>1. CASE \E parent \in FetchTreeRows : treeOf' = BuildTree(parent)
      BY <3>1, Zenon DEF TreeBuilt, FetchTreeRows
    <3>2. CASE sendTreeError
      <4>0. PICK z, o, f, r : z = 0 /\ o = <<>> /\ f = FALSE /\ r = [parent |-> o, nodes |-> o, count |-> z, error |-> f]
        OBVIOUS
      <4>5. NoTree = r
        BY <4>0, Zenon DEF NoTree
      <4>1. PICK t : t = [r EXCEPT !.error = TRUE]
        OBVIOUS
      <4>2. t.error
        BY <4>0, <4>1
      <4>3. treeOf' = t
        BY <3>2, <4>1, <4>5, Zenon DEF sendTreeError
      <4>. QED BY <4>2, <4>3, Zenon DEF TreeBuilt
    <3>. QED BY <2>3, <3>1, <3>2, Zenon DEF handleTreeDataRequest
  <2>4. UNCHANGED treeOf \/ handleTreeDataRequest
    <3>1. LooperNext => UNCHANGED treeOf
      BY Zenon DEF LooperNext, handleLooperScrollRequest, looperRefresh, scroll, batchArrives, refreshArrives
    <3>2. handleLoginSubmit => UNCHANGED treeOf
      BY Zenon DEF handleLoginSubmit
    <3>3. UNCHANGED loopvars => UNCHANGED treeOf
      BY DEF loopvars
    <3>. QED BY <2>1, <3>1, <3>2, <3>3, Zenon
  <2>. QED BY <2>2, <2>3, <2>4
<1>3. TreeBuilt => TreeKeepsRows
  BY BuiltKeepsRows
<1>. QED BY <1>1, <1>2, <1>3, PTL DEF LoopersSpec

-----------------------------------------------------------------------------
(* Builder: what a save writes is what the next load finds.                *)

\* A list of indices holds each once.
LEMMA ListsOnce ==
    ASSUME NEW n \in Nat, NEW idx, NEW S, Lists(idx, n, S), NEW j \in DOMAIN idx, NEW k \in DOMAIN idx, idx[j] = idx[k]
    PROVE  j = k
<1>1. \A a, b \in DOMAIN idx : a < b => idx[a] < idx[b]
  BY Zenon DEF Lists
<1>2. idx \in Seq((1..n) \cap S)
  BY Zenon DEF Lists
<1>3. j \in Int /\ k \in Int /\ idx[j] \in Int
  BY <1>2
<1>4. ~(idx[j] < idx[k]) /\ ~(idx[k] < idx[j])
  BY <1>3
<1>5. ~(j < k) /\ ~(k < j)
  BY <1>1, <1>4, Zenon
<1>. QED BY <1>3, <1>5

\* Joining pieces and keeping the members of T may be done in either order.
LEMMA FilterUpTo ==
    ASSUME NEW S, NEW n \in Nat, NEW p, \A i \in 1..n : p[i] \in Seq(S), NEW T
    PROVE  Filter(UpTo(p, n), T) = UpTo([i \in 1..n |-> Filter(p[i], T)], n)
<1>. DEFINE g == [i \in 1..n |-> Filter(p[i], T)]
            N == {k \in Nat : k <= n => Filter(UpTo(p, k), T) = UpTo(g, k)}
<1>1. \A i \in 1..n : g[i] = Filter(p[i], T) /\ g[i] \in Seq(S)
  BY FilterType
<1>. HIDE DEF g
<1>2. 0 \in N
  BY UpToZero, FilterEmpty
<1>3. ASSUME NEW k \in Nat, k \in N PROVE k + 1 \in N
  <2>1. SUFFICES ASSUME k + 1 <= n PROVE Filter(UpTo(p, k + 1), T) = UpTo(g, k + 1)
    OBVIOUS
  <2>2. k <= n /\ k + 1 \in 1..n /\ k + 1 \in 1..(k + 1) /\ \A i \in 1..(k + 1) : i \in 1..n
    BY <2>1
  <2>3. \A i \in 1..(k + 1) : p[i] \in Seq(S) /\ g[i] \in Seq(S)
    BY <1>1, <2>2
  <2>4. UpTo(p, k) \in Seq(S) /\ UpTo(p, k + 1) = UpTo(p, k) \o p[k + 1]
    BY <2>3, UpToStep
  <2>5. UpTo(g, k + 1) = UpTo(g, k) \o g[k + 1]
    BY <2>3, UpToStep
  <2>6. PICK x, y : x = UpTo(p, k) /\ y = p[k + 1] /\ x \in Seq(S) /\ y \in Seq(S)
    BY <2>2, <2>3, <2>4
  <2>7. Filter(x \o y, T) = Filter(x, T) \o Filter(y, T)
    <3>. HIDE DEF N
    <3>1. PICK a \in Seq(S), b \in Seq(S) : a = x /\ b = y
      BY <2>6, Zenon
    <3>2. ASSUME NEW D PROVE Filter(a \o b, D) = Filter(a, D) \o Filter(b, D)
      BY FilterConcat
    <3>. QED BY <3>1, <3>2, Zenon
  <2>8. Filter(x, T) = UpTo(g, k) /\ Filter(y, T) = g[k + 1]
    BY <1>1, <1>3, <2>2, <2>6
  <2>. QED BY <2>4, <2>5, <2>6, <2>7, <2>8, Zenon
<1>. HIDE DEF N
<1>4. n \in N /\ n <= n
  BY <1>2, <1>3, Induct
<1>. QED BY <1>4 DEF N, g

LEMMA UpToNone == ASSUME NEW n \in Nat, NEW g, \A i \in 1..n : g[i] = <<>> PROVE UpTo(g, n) = <<>>
<1>. DEFINE N == {k \in Nat : k <= n => UpTo(g, k) = <<>>}
<1>1. 0 \in N
  BY UpToZero
<1>2. ASSUME NEW k \in Nat, k \in N PROVE k + 1 \in N
  <2>1. SUFFICES ASSUME k + 1 <= n PROVE UpTo(g, k + 1) = <<>>
    OBVIOUS
  <2>2. PICK S : S = {}
    OBVIOUS
  <2>3. <<>> \in Seq(S)
    BY EmptySeq
  <2>4. k <= n /\ k + 1 \in 1..n /\ \A i \in 1..(k + 1) : g[i] = <<>>
    BY <2>1
  <2>5. \A i \in 1..(k + 1) : g[i] \in Seq(S)
    BY <2>3, <2>4
  <2>6. UpTo(g, k + 1) = UpTo(g, k) \o g[k + 1]
    BY <2>5, UpToStep
  <2>7. <<>> \o <<>> = <<>>
    BY <2>3, ConcatEmptySeq
  <2>. QED BY <1>2, <2>4, <2>6, <2>7
<1>. HIDE DEF N
<1>3. n \in N /\ n <= n
  BY <1>1, <1>2, Induct
<1>. QED BY <1>3 DEF N

LEMMA UpToOne ==
    ASSUME NEW S, NEW n \in Nat, NEW g, NEW j \in 1..n, g[j] \in Seq(S), \A i \in 1..n : i # j => g[i] = <<>>
    PROVE  UpTo(g, n) = g[j]
<1>. DEFINE N == {k \in Nat : k <= n => UpTo(g, k) = IF j <= k THEN g[j] ELSE <<>>}
<1>1. 0 \in N
  BY UpToZero
<1>2. ASSUME NEW k \in Nat, k \in N PROVE k + 1 \in N
  <2>1. SUFFICES ASSUME k + 1 <= n PROVE UpTo(g, k + 1) = IF j <= k + 1 THEN g[j] ELSE <<>>
    OBVIOUS
  <2>2. <<>> \in Seq(S)
    BY EmptySeq
  <2>3. k <= n /\ k + 1 \in 1..n /\ \A i \in 1..(k + 1) : i \in 1..n
    BY <2>1
  <2>4. \A i \in 1..(k + 1) : g[i] \in Seq(S)
    BY <2>2, <2>3
  <2>5. UpTo(g, k + 1) = UpTo(g, k) \o g[k + 1]
    BY <2>4, UpToStep
  <2>6. g[j] \o <<>> = g[j] /\ <<>> \o g[j] = g[j] /\ <<>> \o <<>> = <<>>
    BY <2>2, ConcatEmptySeq
  <2>7. CASE j = k + 1
    <3>1. ~(j <= k) /\ j <= k + 1
      BY <2>7
    <3>. QED BY <1>2, <2>3, <2>5, <2>6, <2>7, <3>1
  <2>8. CASE j # k + 1
    <3>1. j <= k <=> j <= k + 1
      BY <2>8
    <3>. QED BY <1>2, <2>3, <2>5, <2>6, <2>8, <3>1
  <2>. QED BY <2>7, <2>8
<1>. HIDE DEF N
<1>3. n \in N /\ n <= n /\ j <= n
  BY <1>1, <1>2, Induct
<1>. QED BY <1>3 DEF N

LEMMA FilterAll == ASSUME NEW S, NEW s \in Seq(S), NEW T, S \subseteq T PROVE Filter(s, T) = s
<1>. DEFINE P == {x \in Seq(S) : Filter(x, T) = x}
<1>1. <<>> \in P
  <2>1. <<>> \in Seq(S)
    BY EmptySeq
  <2>. QED BY <2>1, FilterEmpty, Zenon
<1>2. ASSUME NEW x \in Seq(S), NEW e \in S, x \in P PROVE Append(x, e) \in P
  <2>1. Filter(Append(x, e), T) = Filter(x, T) \o Kept(e, T)
    BY FilterAppend
  <2>2. Kept(e, T) = <<e>>
    BY DEF Kept
  <2>3. Append(x, e) \in Seq(S) /\ Append(x, e) = x \o <<e>>
    BY AppendProperties
  <2>. QED BY <1>2, <2>1, <2>2, <2>3
<1>. HIDE DEF P
<1>3. Seq(S) \subseteq P
  BY <1>1, <1>2, SeqInduct
<1>. QED BY <1>3 DEF P

\* The first member of T, and those after it.
Leads(s, T, q, i) ==
    /\ i \in DOMAIN s /\ s[i] \in T /\ s[i] = q[1] /\ 1 \in DOMAIN q
    /\ \A j \in DOMAIN s : s[j] \in T => j = i \/ (i < j /\ \E k \in DOMAIN q : k # 1 /\ q[k] = s[j])

LEMMA FilterLeads ==
    ASSUME NEW S, NEW s \in Seq(S), NEW T
    PROVE  \/ Filter(s, T) = <<>> /\ \A j \in DOMAIN s : s[j] \notin T
           \/ \E i \in DOMAIN s : Leads(s, T, Filter(s, T), i)
<1>. DEFINE Good(x, q) == \/ q = <<>> /\ \A j \in DOMAIN x : x[j] \notin T
                          \/ \E i \in DOMAIN x : Leads(x, T, q, i)
            P == {x \in Seq(S) : Good(x, Filter(x, T))}
<1>1. <<>> \in P
  <2>1. <<>> \in Seq(S) /\ DOMAIN <<>> = {}
    BY EmptySeq
  <2>2. Good(<<>>, <<>>)
    BY <2>1
  <2>. QED BY <2>1, <2>2, FilterEmpty, Zenon
<1>2. ASSUME NEW x \in Seq(S), NEW e \in S, x \in P PROVE Append(x, e) \in P
  <2>1. PICK y, q, r : y = Append(x, e) /\ q = Filter(x, T) /\ r = Filter(y, T)
    OBVIOUS
  <2>2. r = q \o Kept(e, T)
    <3>. HIDE DEF Good, P
    <3>. QED BY <2>1, FilterAppend
  <2>3. q \in Seq(S)
    <3>. HIDE DEF Good, P
    <3>. QED BY <2>1, FilterType
  <2>4. PICK n \in Nat : /\ n = Len(x) /\ DOMAIN x = 1..n /\ DOMAIN y = 1..(n + 1) /\ y[n + 1] = e
                         /\ (\A i \in 1..n : y[i] = x[i]) /\ y \in Seq(S)
    BY <2>1
  <2>5. PICK m \in Nat : m = Len(q) /\ DOMAIN q = 1..m
    BY <2>3
  <2>6. Good(x, q)
    BY <1>2, <2>1, Zenon
  <2>7. CASE e \notin T
    <3>1. r = q
      <4>1. Kept(e, T) = <<>>
        BY <2>7 DEF Kept
      <4>. QED BY <2>2, <2>3, <4>1, ConcatEmptySeq
    <3>2. \A j \in DOMAIN y : y[j] \in T => j \in DOMAIN x /\ y[j] = x[j]
      BY <2>4, <2>7
    <3>3. CASE q = <<>> /\ \A j \in DOMAIN x : x[j] \notin T
      BY <2>1, <2>4, <3>1, <3>2, <3>3
    <3>4. CASE \E i \in DOMAIN x : Leads(x, T, q, i)
      <4>1. PICK i \in DOMAIN x : Leads(x, T, q, i)
        BY <3>4
      <4>2. i \in DOMAIN y /\ y[i] = x[i]
        BY <2>4
      <4>3. Leads(y, T, r, i)
        BY <3>1, <3>2, <4>1, <4>2 DEF Leads
      <4>4. Good(y, r)
        BY <4>2, <4>3
      <4>. QED BY <2>1, <2>4, <4>4, Zenon
    <3>. QED BY <2>6, <3>3, <3>4
  <2>8. CASE e \in T
    <3>1. DOMAIN r = 1..(m + 1) /\ r[m + 1] = e /\ \A k \in 1..m : r[k] = q[k]
      <4>1. Kept(e, T) = <<e>>
        BY <2>8 DEF Kept
      <4>. QED BY <2>2, <2>3, <2>5, <4>1
    <3>2. CASE q = <<>> /\ \A j \in DOMAIN x : x[j] \notin T
      <4>1. m = 0
        BY <2>5, <3>2
      <4>2. DOMAIN r = 1..1 /\ r[1] = e /\ n + 1 \in DOMAIN y
        BY <2>4, <3>1, <4>1
      <4>3. ASSUME NEW j \in DOMAIN y, y[j] \in T PROVE j = n + 1
        <5>1. j = n + 1 \/ (j \in DOMAIN x /\ y[j] = x[j])
          BY <2>4
        <5>. QED BY <3>2, <4>3, <5>1
      <4>4. Leads(y, T, r, n + 1)
        BY <2>4, <2>8, <4>2, <4>3 DEF Leads
      <4>5. Good(y, r)
        BY <4>2, <4>4
      <4>. QED BY <2>1, <2>4, <4>5, Zenon
    <3>3. CASE \E i \in DOMAIN x : Leads(x, T, q, i)
      <4>1. PICK i \in DOMAIN x : Leads(x, T, q, i)
        BY <3>3
      <4>2. i \in DOMAIN y /\ y[i] = x[i] /\ i < n + 1 /\ m >= 1 /\ r[1] = q[1] /\ 1 \in DOMAIN r
        BY <2>4, <2>5, <3>1, <4>1 DEF Leads
      <4>3. ASSUME NEW j \in DOMAIN y, y[j] \in T, j # i PROVE i < j /\ \E k \in DOMAIN r : k # 1 /\ r[k] = y[j]
        <5>1. CASE j = n + 1
          <6>1. m + 1 \in DOMAIN r /\ m + 1 # 1 /\ r[m + 1] = y[j]
            BY <2>4, <3>1, <4>2, <5>1
          <6>. QED BY <4>2, <5>1, <6>1
        <5>2. CASE j # n + 1
          <6>1. j \in DOMAIN x /\ x[j] = y[j]
            BY <2>4, <5>2
          <6>2. PICK k \in DOMAIN q : i < j /\ k # 1 /\ q[k] = x[j]
            BY <4>1, <4>3, <6>1 DEF Leads
          <6>3. k \in DOMAIN r /\ r[k] = q[k]
            BY <2>5, <3>1
          <6>. QED BY <6>1, <6>2, <6>3
        <5>. QED BY <5>1, <5>2
      <4>4. Leads(y, T, r, i)
        <5>1. y[i] \in T /\ y[i] = r[1]
          BY <4>1, <4>2 DEF Leads
        <5>. QED BY <4>2, <4>3, <5>1, Zenon DEF Leads
      <4>5. Good(y, r)
        BY <4>2, <4>4
      <4>. QED BY <2>1, <2>4, <4>5, Zenon
    <3>. QED BY <2>6, <3>2, <3>3
  <2>. QED BY <2>7, <2>8
<1>. HIDE DEF P
<1>3. Seq(S) \subseteq P
  BY <1>1, <1>2, SeqInduct
<1>. QED BY <1>3 DEF P

\* The members at the indices in I.
LEMMA AtAppend ==
    ASSUME NEW S, NEW x \in Seq(S), NEW e \in S, NEW I
    PROVE  At(Append(x, e), I) = At(x, I) \o (IF Len(x) + 1 \in I THEN <<e>> ELSE <<>>)
<1>. DEFINE Id(n) == [i \in 1..n |-> i]
<1>1. PICK y, n : y = Append(x, e) /\ n = Len(x)
  OBVIOUS
<1>2. /\ n \in Nat /\ DOMAIN x = 1..n /\ y \in Seq(S) /\ Len(y) = n + 1 /\ DOMAIN y = 1..(n + 1) /\ y[n + 1] = e
      /\ \A i \in 1..n : y[i] = x[i]
  BY <1>1
<1>3. PICK id, R, D : id = Id(n) /\ R = 1..(n + 1) /\ D = 1..n
  OBVIOUS
<1>4. id \in Seq(D) /\ id \in Seq(R) /\ n + 1 \in R /\ Id(n + 1) = Append(id, n + 1)
  BY <1>2, <1>3
<1>5. PICK idx : idx = Filter(id, I)
  OBVIOUS
<1>6. Filter(Append(id, n + 1), I) = idx \o Kept(n + 1, I)
  <2>. HIDE DEF Id
  <2>1. Filter(Append(id, n + 1), I) = Filter(id, I) \o Kept(n + 1, I)
    BY <1>4, FilterAppend, Zenon
  <2>. QED BY <1>5, <2>1, Zenon
<1>7. idx \in Seq(D)
  BY <1>4, <1>5, FilterType
<1>8. PICK m \in Nat : m = Len(idx) /\ DOMAIN idx = 1..m /\ \A k \in 1..m : idx[k] \in D
  BY <1>7
<1>9. PICK f : f = [k \in 1..m |-> x[idx[k]]]
  OBVIOUS
<1>10. At(x, I) = f
  <2>1. [i \in DOMAIN x |-> i] = id
    BY <1>2, <1>3, Zenon
  <2>. QED BY <1>5, <1>8, <1>9, <2>1, Zenon DEF At
<1>11. PICK z : z = Filter(Append(id, n + 1), I)
  OBVIOUS
<1>12. At(y, I) = [k \in DOMAIN z |-> y[z[k]]]
  <2>1. [i \in DOMAIN y |-> i] = Append(id, n + 1)
    BY <1>2, <1>4, Zenon
  <2>. QED BY <1>11, <2>1, Zenon DEF At
<1>13. f \in Seq(S) /\ Len(f) = m /\ \A k \in 1..m : f[k] = y[idx[k]]
  <2>1. \A k \in 1..m : x[idx[k]] \in S /\ x[idx[k]] = y[idx[k]]
    BY <1>2, <1>3, <1>8
  <2>. QED BY <1>9, <2>1
<1>14. CASE n + 1 \notin I
  <2>1. Kept(n + 1, I) = <<>>
    BY <1>14 DEF Kept
  <2>2. z = idx
    BY <1>6, <1>7, <1>11, <2>1, ConcatEmptySeq
  <2>3. At(y, I) = f
    BY <1>8, <1>9, <1>12, <1>13, <2>2, Zenon
  <2>4. f \o <<>> = f
    BY <1>13, ConcatEmptySeq
  <2>. QED BY <1>1, <1>10, <1>14, <2>3, <2>4, Zenon
<1>15. CASE n + 1 \in I
  <2>1. Kept(n + 1, I) = <<n + 1>>
    BY <1>15 DEF Kept
  <2>2. z = idx \o <<n + 1>>
    BY <1>6, <1>11, <2>1, Zenon
  <2>3. DOMAIN z = 1..(m + 1) /\ z[m + 1] = n + 1 /\ \A k \in 1..m : z[k] = idx[k]
    <3>1. D \subseteq R
      BY <1>2, <1>3
    <3>2. idx \in Seq(R)
      BY <1>7, <3>1, SeqMonotonic
    <3>. QED BY <1>4, <1>8, <2>2, <3>2
  <2>4. PICK w : w = f \o <<e>>
    OBVIOUS
  <2>5. w = [k \in 1..(m + 1) |-> IF k = m + 1 THEN e ELSE f[k]]
    BY <1>13, <2>4
  <2>6. \A k \in 1..(m + 1) : (IF k = m + 1 THEN e ELSE f[k]) = y[z[k]]
    <3>1. \A k \in 1..(m + 1) : k = m + 1 \/ k \in 1..m
      BY <1>8
    <3>. QED BY <1>2, <1>13, <2>3, <3>1
  <2>7. At(y, I) = w
    BY <1>12, <2>3, <2>5, <2>6, Zenon
  <2>. QED BY <1>1, <1>10, <1>15, <2>4, <2>7, Zenon
<1>. QED BY <1>14, <1>15

LEMMA AtEmpty == ASSUME NEW I PROVE At(<<>>, I) = <<>>
<1>1. PICK s : s = <<>>
  OBVIOUS
<1>2. [i \in DOMAIN s |-> i] = <<>>
  BY <1>1
<1>3. PICK idx : idx = Filter([i \in DOMAIN s |-> i], I)
  OBVIOUS
<1>4. idx = <<>>
  BY <1>2, <1>3, FilterEmpty, Zenon
<1>5. [k \in DOMAIN idx |-> s[idx[k]]] = <<>>
  BY <1>4
<1>6. At(s, I) = <<>>
  BY <1>3, <1>5, Zenon DEF At
<1>. QED BY <1>1, <1>6, Zenon

\* When I has every index of a member of T, nothing of T is lost.
LEMMA FilterAt ==
    ASSUME NEW S, NEW s \in Seq(S), NEW I, NEW W, \A i \in DOMAIN s : s[i] \in W => i \in I
    PROVE  Filter(At(s, I), W) = Filter(s, W)
<1>. DEFINE In(x) == \A i \in DOMAIN x : x[i] \in W => i \in I
            Same(x) == At(x, I) \in Seq(S) /\ (In(x) => Filter(At(x, I), W) = Filter(x, W))
            P == {x \in Seq(S) : Same(x)}
<1>1. <<>> \in P
  <2>1. <<>> \in Seq(S)
    BY EmptySeq
  <2>2. Same(<<>>)
    BY <2>1, AtEmpty, Zenon
  <2>. QED BY <2>1, <2>2
<1>2. ASSUME NEW x \in Seq(S), NEW e \in S, x \in P PROVE Append(x, e) \in P
  <2>1. PICK y, n, w : y = Append(x, e) /\ n = Len(x) /\ w = IF Len(x) + 1 \in I THEN <<e>> ELSE <<>>
    OBVIOUS
  <2>2. /\ n \in Nat /\ DOMAIN x = 1..n /\ y \in Seq(S) /\ DOMAIN y = 1..(n + 1) /\ y[n + 1] = e
        /\ \A i \in 1..n : y[i] = x[i]
    BY <2>1
  <2>3. PICK a : a = At(x, I) /\ a \in Seq(S)
    BY <1>2
  <2>4. w \in Seq(S) /\ w = IF n + 1 \in I THEN <<e>> ELSE <<>>
    <3>1. <<e>> \in Seq(S) /\ <<>> \in Seq(S)
      BY EmptySeq
    <3>. QED BY <2>1, <3>1, Zenon
  <2>5. At(y, I) = a \o w
    <3>. HIDE DEF In, Same, P
    <3>. QED BY <2>1, <2>3, AtAppend, Zenon
  <2>6. a \o w \in Seq(S)
    BY <2>3, <2>4, ConcatProperties
  <2>7. ASSUME In(y) PROVE Filter(a \o w, W) = Filter(y, W)
    <3>1. In(x)
      BY <2>2, <2>7
    <3>2. Filter(a, W) = Filter(x, W)
      BY <1>2, <2>3, <3>1, Zenon
    <3>3. e \in W => n + 1 \in I
      BY <2>2, <2>7
    <3>. HIDE DEF In, Same, P
    <3>4. PICK b \in Seq(S), c \in Seq(S) : b = a /\ c = w
      BY <2>3, <2>4
    <3>5. Filter(b \o c, W) = Filter(b, W) \o Filter(c, W)
      BY FilterConcat
    <3>6. Filter(Append(x, e), W) = Filter(x, W) \o Kept(e, W)
      BY FilterAppend
    <3>7. Filter(w, W) = Kept(e, W)
      <4>1. PICK N, o, v : N = {e} /\ o = <<>> /\ v = <<e>>
        OBVIOUS
      <4>2. v \in Seq(N)
        BY <4>1
      <4>3. CASE e \in W
        <5>1. w = v /\ Kept(e, W) = v
          BY <2>4, <3>3, <4>1, <4>3, Zenon DEF Kept
        <5>2. N \subseteq W
          BY <4>1, <4>3
        <5>3. Filter(v, W) = v
          BY <4>2, <5>2, FilterAll
        <5>. QED BY <5>1, <5>3, Zenon
      <4>4. CASE e \notin W
        <5>1. Kept(e, W) = <<>>
          BY <4>4 DEF Kept
        <5>2. N \cap W = {}
          BY <4>1, <4>4
        <5>3. Filter(v, W) = <<>>
          BY <4>2, <5>2, FilterNone
        <5>4. w = v \/ w = <<>>
          BY <2>4, <4>1, Zenon
        <5>. QED BY <5>1, <5>3, <5>4, FilterEmpty, Zenon
      <4>. QED BY <4>3, <4>4
    <3>. QED BY <2>1, <3>2, <3>4, <3>5, <3>6, <3>7, Zenon
  <2>8. Same(y)
    BY <2>5, <2>6, <2>7, Zenon
  <2>. QED BY <2>1, <2>2, <2>8, Zenon
<1>. HIDE DEF P
<1>3. Seq(S) \subseteq P
  BY <1>1, <1>2, SeqInduct
<1>. QED BY <1>3 DEF P

\* The members at indices chosen by what is there.
LEMMA AtFilter ==
    ASSUME NEW S, NEW s \in Seq(S), NEW I, NEW W, \A i \in DOMAIN s : i \in I <=> s[i] \in W
    PROVE  At(s, I) = Filter(s, W)
<1>1. PICK a, R : a = At(s, I) /\ R = Range(a)
  OBVIOUS
<1>2. IsSeq(s)
  BY SeqIs
<1>3. IsSeq(a) /\ \A k \in DOMAIN a : \E i \in DOMAIN s : i \in I /\ a[k] = s[i]
  BY <1>1, <1>2, AtMembers
<1>4. R \subseteq W /\ a \in Seq(R)
  BY <1>1, <1>3 DEF Range, IsSeq
<1>5. Filter(a, W) = a
  BY <1>4, FilterAll
<1>6. Filter(At(s, I), W) = Filter(s, W)
  BY FilterAt
<1>. QED BY <1>1, <1>5, <1>6, Zenon

\* What Import reads of a form: its constructions and its controls.
IsFormStmt(s, f) == s.form = f /\ s.bare /\ s.stmt \in {"new", "ctrl"}
FormStmts(src, f) == Filter(src, {s \in Range(src) : IsFormStmt(s, f)})

\* A sequence without any.
IsSilent(s, f) == IsSeq(s) /\ \A x \in Range(s) : ~IsFormStmt(x, f)

LEMMA FormStmtsOver ==
    ASSUME NEW S, NEW s \in Seq(S), NEW f
    PROVE  FormStmts(s, f) = Filter(s, {x \in S : IsFormStmt(x, f)})
<1>1. PICK R : R = Range(s)
  OBVIOUS
<1>2. s \in Seq(R) /\ R \subseteq S
  BY <1>1, SeqIs DEF IsSeq
<1>3. PICK T, U : T = {x \in R : IsFormStmt(x, f)} /\ U = {x \in S : IsFormStmt(x, f)}
  OBVIOUS
<1>4. R \cap T = R \cap U
  BY <1>2, <1>3
<1>5. Filter(s, T) = Filter(s, U)
  BY <1>2, <1>4, FilterSame
<1>. QED BY <1>1, <1>3, <1>5, Zenon DEF FormStmts

LEMMA SilentNone == ASSUME NEW s, NEW f, IsSilent(s, f) PROVE FormStmts(s, f) = <<>>
<1>1. s \in Seq(Range(s))
  BY DEF IsSilent, IsSeq
<1>2. {x \in Range(s) : IsFormStmt(x, f)} = {}
  BY DEF IsSilent
<1>3. Range(s) \cap {} = {}
  OBVIOUS
<1>. QED BY <1>1, <1>2, <1>3, FilterNone, Zenon DEF FormStmts

LEMMA SilentEmpty == ASSUME NEW f PROVE IsSilent(<<>>, f)
<1>1. IsSeq(<<>>) /\ Range(<<>>) = {}
  BY EmptyDoc DEF Range
<1>. QED BY <1>1 DEF IsSilent

LEMMA FormStmtsType ==
    ASSUME NEW s, IsSeq(s), NEW f
    PROVE  /\ IsSeq(FormStmts(s, f))
           /\ \A k \in DOMAIN FormStmts(s, f) : FormStmts(s, f)[k] \in Range(s) /\ IsFormStmt(FormStmts(s, f)[k], f)
<1>1. PICK R, U, q : R = Range(s) /\ U = {x \in R : IsFormStmt(x, f)} /\ q = Filter(s, U)
  OBVIOUS
<1>2. q = FormStmts(s, f) /\ s \in Seq(R)
  BY <1>1, Zenon DEF FormStmts, IsSeq
<1>3. q \in Seq(R \cap U)
  <2>1. PICK u \in Seq(R) : u = s
    BY <1>2
  <2>2. Filter(u, U) \in Seq(R \cap U)
    BY FilterType
  <2>. QED BY <1>1, <2>1, <2>2, Zenon
<1>4. IsSeq(q)
  BY <1>3, SeqIs
<1>5. \A k \in DOMAIN q : q[k] \in R /\ q[k] \in U
  BY <1>3
<1>6. \A k \in DOMAIN q : q[k] \in Range(s) /\ IsFormStmt(q[k], f)
  BY <1>1, <1>5
<1>. QED BY <1>2, <1>4, <1>6, Zenon

LEMMA FormStmtsConcat ==
    ASSUME NEW s, NEW t, IsSeq(s), IsSeq(t), NEW f
    PROVE  FormStmts(s \o t, f) = FormStmts(s, f) \o FormStmts(t, f)
<1>1. PICK S : S = Range(s) \cup Range(t)
  OBVIOUS
<1>2. s \in Seq(S) /\ t \in Seq(S)
  BY <1>1, SeqOver
<1>3. PICK U : U = {x \in S : IsFormStmt(x, f)}
  OBVIOUS
<1>4. s \o t \in Seq(S)
  BY <1>2, ConcatProperties
<1>5. FormStmts(s, f) = Filter(s, U) /\ FormStmts(t, f) = Filter(t, U) /\ FormStmts(s \o t, f) = Filter(s \o t, U)
  BY <1>2, <1>3, <1>4, FormStmtsOver, Zenon
<1>6. Filter(s \o t, U) = Filter(s, U) \o Filter(t, U)
  BY <1>2, FilterConcat
<1>. QED BY <1>5, <1>6, Zenon

Joined(a, s, t) == a = s \o t

LEMMA FormStmtsEnds ==
    ASSUME NEW s, NEW t, IsSeq(s), IsSeq(t), NEW a, Joined(a, s, t), NEW f
    PROVE  /\ IsSeq(a) /\ FormStmts(a, f) = FormStmts(s, f) \o FormStmts(t, f)
           /\ FormStmts(s, f) = <<>> => FormStmts(a, f) = FormStmts(t, f)
           /\ FormStmts(t, f) = <<>> => FormStmts(a, f) = FormStmts(s, f)
<1>1. PICK x, y : x = FormStmts(s, f) /\ y = FormStmts(t, f)
  OBVIOUS
<1>2. IsSeq(x) /\ IsSeq(y)
  BY <1>1, FormStmtsType
<1>3. <<>> \o y = y /\ x \o <<>> = x
  <2>1. PICK R, Q : x \in Seq(R) /\ y \in Seq(Q)
    BY <1>2 DEF IsSeq
  <2>. QED BY <2>1, ConcatEmptySeq
<1>4. FormStmts(a, f) = x \o y
  <2>1. FormStmts(s \o t, f) = FormStmts(s, f) \o FormStmts(t, f)
    BY FormStmtsConcat
  <2>. QED BY <1>1, <2>1, Zenon DEF Joined
<1>5. x = <<>> => x \o y = y
  BY <1>3, Zenon
<1>6. y = <<>> => x \o y = x
  BY <1>3, Zenon
<1>7. IsSeq(s \o t)
  BY SeqConcat
<1>8. IsSeq(a)
  BY <1>7 DEF Joined
<1>. QED BY <1>1, <1>4, <1>5, <1>6, <1>8

LEMMA FormStmtsOne ==
    ASSUME NEW x, NEW f
    PROVE  IsSeq(<<x>>) /\ FormStmts(<<x>>, f) = IF IsFormStmt(x, f) THEN <<x>> ELSE <<>>
<1>1. PICK S, T, s : S = {x} /\ T = {y \in S : IsFormStmt(y, f)} /\ s = <<x>>
  OBVIOUS
<1>2. s \in Seq(S)
  BY <1>1
<1>3. FormStmts(s, f) = Filter(s, T)
  BY <1>1, <1>2, FormStmtsOver, Zenon
<1>4. CASE IsFormStmt(x, f)
  <2>1. S \subseteq T
    BY <1>1, <1>4
  <2>2. Filter(s, T) = s
    BY <1>2, <2>1, FilterAll
  <2>. QED BY <1>1, <1>3, <1>4, <2>2, OneSeq, Zenon
<1>5. CASE ~IsFormStmt(x, f)
  <2>1. S \cap T = {}
    BY <1>1, <1>5
  <2>2. Filter(s, T) = <<>>
    BY <1>2, <2>1, FilterNone
  <2>. QED BY <1>1, <1>3, <1>5, <2>2, OneSeq, Zenon
<1>. QED BY <1>4, <1>5

\* Of a list of pieces: what the pieces give, joined.
LEMMA FormStmtsJoin ==
    ASSUME NEW n \in Nat, NEW p, Pieces(p, n), \A i \in 1..n : IsSeq(p[i]), NEW f
    PROVE  /\ IsSeq(FlattenSeq(p))
           /\ FormStmts(FlattenSeq(p), f) = UpTo([i \in 1..n |-> FormStmts(p[i], f)], n)
<1>1. PICK S, U : S = UNION {Range(p[i]) : i \in 1..n} /\ U = {x \in S : IsFormStmt(x, f)}
  OBVIOUS
<1>2. ASSUME NEW i \in 1..n PROVE p[i] \in Seq(S)
  <2>1. IsSeq(p[i]) /\ Range(p[i]) \subseteq S
    BY <1>1
  <2>. QED BY <2>1, SeqOver
<1>3. FlattenSeq(p) = UpTo(p, n)
  BY Zenon DEF Pieces, UpTo
<1>4. UpTo(p, n) \in Seq(S)
  BY <1>2, UpToType
<1>5. FormStmts(UpTo(p, n), f) = Filter(UpTo(p, n), U)
  BY <1>1, <1>4, FormStmtsOver, Zenon
<1>6. Filter(UpTo(p, n), U) = UpTo([i \in 1..n |-> Filter(p[i], U)], n)
  BY <1>2, FilterUpTo
<1>7. \A i \in 1..n : FormStmts(p[i], f) = Filter(p[i], U)
  BY <1>1, <1>2, FormStmtsOver, Zenon
<1>8. [i \in 1..n |-> FormStmts(p[i], f)] = [i \in 1..n |-> Filter(p[i], U)]
  BY <1>7, Zenon
<1>9. IsSeq(UpTo(p, n))
  BY <1>4, SeqIs
<1>. QED BY <1>3, <1>5, <1>6, <1>8, <1>9, Zenon

\* Only one of the pieces gives anything, or none does.
LEMMA FormStmtsJoinOne ==
    ASSUME NEW n \in Nat, NEW p, Pieces(p, n), \A i \in 1..n : IsSeq(p[i]), NEW f
    PROVE  /\ \A j \in 1..n : (\A i \in 1..n : i # j => FormStmts(p[i], f) = <<>>) => FormStmts(FlattenSeq(p), f) = FormStmts(p[j], f)
           /\ (\A i \in 1..n : FormStmts(p[i], f) = <<>>) => FormStmts(FlattenSeq(p), f) = <<>>
<1>1. PICK g : g = [i \in 1..n |-> FormStmts(p[i], f)]
  OBVIOUS
<1>2. \A i \in 1..n : g[i] = FormStmts(p[i], f)
  BY <1>1
<1>3. FormStmts(FlattenSeq(p), f) = UpTo(g, n)
  BY <1>1, FormStmtsJoin, Zenon
<1>4. ASSUME NEW j \in 1..n, \A i \in 1..n : i # j => FormStmts(p[i], f) = <<>> PROVE UpTo(g, n) = FormStmts(p[j], f)
  <2>1. PICK R : g[j] \in Seq(R)
    BY <1>2, FormStmtsType DEF IsSeq
  <2>2. \A i \in 1..n : i # j => g[i] = <<>>
    BY <1>2, <1>4
  <2>3. UpTo(g, n) = g[j]
    BY <2>1, <2>2, UpToOne
  <2>. QED BY <1>2, <2>3
<1>5. ASSUME \A i \in 1..n : FormStmts(p[i], f) = <<>> PROVE UpTo(g, n) = <<>>
  <2>1. \A i \in 1..n : g[i] = <<>>
    BY <1>2, <1>5
  <2>. QED BY <2>1, UpToNone
<1>. QED BY <1>3, <1>4, <1>5, Zenon

\* The pieces give, one for one, what the statements of s give.
LEMMA FormStmtsKept ==
    ASSUME NEW n \in Nat, NEW p, Pieces(p, n), NEW s, IsSeq(s), n = Len(s), NEW f,
           \A i \in 1..n : IsSeq(p[i]) /\ FormStmts(p[i], f) = IF IsFormStmt(s[i], f) THEN <<s[i]>> ELSE <<>>
    PROVE  FormStmts(FlattenSeq(p), f) = FormStmts(s, f)
<1>1. PICK S, U : S = Range(s) /\ U = {x \in S : IsFormStmt(x, f)}
  OBVIOUS
<1>2. s \in Seq(S) /\ DOMAIN s = 1..n /\ \A i \in 1..n : s[i] \in S
  BY <1>1 DEF IsSeq
<1>3. \A i \in 1..n : FormStmts(p[i], f) = IF s[i] \in U THEN <<s[i]>> ELSE <<>>
  BY <1>1, <1>2, Zenon
<1>4. [i \in 1..n |-> FormStmts(p[i], f)] = [i \in DOMAIN s |-> IF s[i] \in U THEN <<s[i]>> ELSE <<>>]
  BY <1>2, <1>3, Zenon
<1>5. PICK g : g = [i \in 1..n |-> FormStmts(p[i], f)]
  OBVIOUS
<1>6. [i \in 1..n |-> g[i]] = g
  BY <1>5, Zenon
<1>7. UpTo(g, n) = FormStmts(s, f)
  BY <1>1, <1>4, <1>5, <1>6, Zenon DEF UpTo, Filter, FormStmts
<1>. QED BY <1>5, <1>7, FormStmtsJoin, Zenon

\* A form is constructed once, before its controls.
IsOnce(q) == q = <<>> \/ (q[1].stmt = "new" /\ \A k \in DOMAIN q : k # 1 => q[k].stmt = "ctrl")
IsClear(src) == \A f : IsOnce(FormStmts(src, f))

\* Then i is its construction and the builder owns its controls.
Constructs(src, f, i) ==
    /\ i = Min(Owned(src, f)) /\ i \in Owned(src, f) /\ i \in DOMAIN src
    /\ IsFormStmt(src[i], f) /\ src[i].stmt = "new" /\ src[i] = FormStmts(src, f)[1] /\ 1 \in DOMAIN FormStmts(src, f)
    /\ \A j \in DOMAIN src : IsFormStmt(src[j], f) => j \in Owned(src, f) /\ (j # i => src[j].stmt = "ctrl")

LEMMA OwnedIs ==
    ASSUME NEW src, IsSeq(src), NEW f, IsOnce(FormStmts(src, f))
    PROVE  /\ \A j \in Owned(src, f) : j \in DOMAIN src /\ (src[j].stmt \in {"new", "ctrl"} => IsFormStmt(src[j], f))
           /\ FormStmts(src, f) = <<>> => Owned(src, f) = {}
           /\ FormStmts(src, f) # <<>> => Constructs(src, f, Min(Owned(src, f)))
<1>1. PICK R, U, q : R = Range(src) /\ U = {x \in R : IsFormStmt(x, f)} /\ q = FormStmts(src, f)
  OBVIOUS
<1>2. src \in Seq(R) /\ q = Filter(src, U)
  BY <1>1, Zenon DEF IsSeq, FormStmts
<1>3. PICK n \in Nat : n = Len(src) /\ DOMAIN src = 1..n
  BY SeqPieces
<1>4. \A j \in 1..n : src[j] \in U <=> IsFormStmt(src[j], f)
  BY <1>1, <1>2, <1>3
<1>5. PICK news : news = {j \in DOMAIN src : src[j].form = f /\ src[j].stmt = "new" /\ src[j].bare}
  OBVIOUS
<1>6. PICK own, first : own = Owned(src, f) /\ first = Min(news)
  OBVIOUS
<1>7. PICK shows : shows = {i \in DOMAIN src : i > first /\ src[i].form = f /\ src[i].stmt = "show"}
  OBVIOUS
<1>8. own = IF news = {} THEN {}
            ELSE {first} \cup {i \in DOMAIN src : i > first /\ src[i].form = f /\ src[i].bare /\ src[i].stmt \in {"ctrl", "on"}}
                         \cup {i \in shows : i = Min(shows) /\ src[i].bare}
  BY <1>5, <1>6, <1>7, Zenon DEF Owned
<1>9. news # {} => first \in news /\ \A j \in news : first <= j
  BY <1>3, <1>5, <1>6, MinIn
<1>10. \A j \in own : j \in DOMAIN src /\ j >= first /\ (src[j].stmt \in {"new", "ctrl"} => IsFormStmt(src[j], f))
  BY <1>3, <1>5, <1>7, <1>8, <1>9 DEF IsFormStmt
<1>11. CASE q = <<>> /\ \A j \in DOMAIN src : src[j] \notin U
  <2>1. news = {}
    BY <1>3, <1>4, <1>5, <1>11 DEF IsFormStmt
  <2>2. own = {}
    BY <1>8, <2>1
  <2>. QED BY <1>1, <1>6, <1>10, <1>11, <2>2
<1>12. CASE \E i \in DOMAIN src : Leads(src, U, q, i)
  <2>1. PICK i \in 1..n : Leads(src, U, q, i)
    BY <1>3, <1>12
  <2>2. 1 \in DOMAIN q /\ src[i] = q[1] /\ IsFormStmt(src[i], f)
    BY <1>3, <1>4, <2>1 DEF Leads
  <2>3. src[i].stmt = "new" /\ \A k \in DOMAIN q : k # 1 => q[k].stmt = "ctrl"
    BY <1>1, <2>2 DEF IsOnce
  <2>4. ASSUME NEW j \in 1..n, IsFormStmt(src[j], f), j # i PROVE i < j /\ src[j].stmt = "ctrl"
    BY <1>3, <1>4, <2>1, <2>3, <2>4 DEF Leads
  <2>5. i \in news
    BY <1>3, <1>5, <2>2, <2>3 DEF IsFormStmt
  <2>6. \A j \in news : j = i
    BY <1>3, <1>5, <2>4 DEF IsFormStmt
  <2>7. first = i
    BY <1>9, <2>5, <2>6
  <2>8. \A j \in 1..n : IsFormStmt(src[j], f) => j \in own /\ (j # i => src[j].stmt = "ctrl")
    BY <1>3, <1>8, <2>4, <2>5, <2>7 DEF IsFormStmt
  <2>9. i \in own /\ \A j \in own : i <= j /\ j \in Nat
    BY <1>3, <1>10, <2>2, <2>7, <2>8
  <2>10. i = Min(own)
    <3>1. own \in SUBSET (1..n) /\ own # {}
      BY <1>3, <1>10, <2>9
    <3>2. PICK m : m = Min(own) /\ m \in own /\ m <= i
      BY <2>9, <3>1, MinIn
    <3>3. m \in Nat /\ i \in Nat /\ i <= m
      BY <2>9, <3>2
    <3>4. m = i
      BY <3>2, <3>3
    <3>. QED BY <3>2, <3>4
  <2>11. q # <<>>
    BY <2>2
  <2>12. Constructs(src, f, i)
    BY <1>1, <1>3, <1>6, <2>2, <2>3, <2>8, <2>9, <2>10, Zenon DEF Constructs
  <2>. QED BY <1>1, <1>6, <1>10, <2>10, <2>11, <2>12
<1>. QED BY <1>2, <1>11, <1>12, FilterLeads

\* What a form's statements say of it.
ReadsAs(q, form) ==
    /\ IsSeq(form.ctrls) /\ DOMAIN q = 1..(Len(form.ctrls) + 1)
    /\ q[1].stmt = "new" /\ q[1].arg = form.title
    /\ \A i \in DOMAIN form.ctrls : q[i + 1].stmt = "ctrl" /\ q[i + 1].arg = form.ctrls[i]

\* The source constructs the forms of the document and no others.
NamesOnce(doc) == \A j, k \in DOMAIN doc : doc[j].name = doc[k].name => j = k
SourceHolds(src, doc) ==
    /\ \A k \in DOMAIN doc : ReadsAs(FormStmts(src, doc[k].name), doc[k])
    /\ \A f : FormStmts(src, f) # <<>> => \E k \in DOMAIN doc : doc[k].name = f

LEMMA ImportedReads ==
    ASSUME NEW src, IsSeq(src), NEW f, IsOnce(FormStmts(src, f)), FormStmts(src, f) # <<>>
    PROVE  ReadsAs(FormStmts(src, f), importForm(src, f)) /\ importForm(src, f).name = f
<1>1. PICK R, q, i : R = Range(src) /\ q = FormStmts(src, f) /\ i = Min(Owned(src, f))
  OBVIOUS
<1>2. src \in Seq(R)
  BY <1>1 DEF IsSeq
<1>3. Constructs(src, f, i)
  BY <1>1, OwnedIs, Zenon
<1>4. PICK U, W : U = {x \in R : IsFormStmt(x, f)} /\ W = {x \in R : x.stmt = "ctrl"}
  OBVIOUS
<1>5. PICK I : I = {j \in Owned(src, f) : src[j].stmt = "ctrl"}
  OBVIOUS
<1>6. ASSUME NEW j \in DOMAIN src PROVE j \in I <=> src[j] \in U \cap W
  <2>1. src[j] \in R
    BY <1>2
  <2>2. j \in I => IsFormStmt(src[j], f)
    BY <1>5, OwnedIs
  <2>3. IsFormStmt(src[j], f) => j \in Owned(src, f)
    BY <1>3 DEF Constructs
  <2>. QED BY <1>4, <1>5, <2>1, <2>2, <2>3
<1>7. PICK cs : cs = At(src, I)
  OBVIOUS
<1>8. cs = Filter(q, W)
  <2>1. PICK D : D = U \cap W
    OBVIOUS
  <2>2. At(src, I) = Filter(src, D)
    BY <1>2, <1>6, <2>1, AtFilter
  <2>3. PICK u \in Seq(R) : u = src
    BY <1>2
  <2>4. Filter(Filter(u, U), W) = Filter(u, U \cap W)
    BY FilterTwice
  <2>5. q = Filter(u, U)
    BY <1>1, <1>4, <2>3, Zenon DEF FormStmts
  <2>. QED BY <1>7, <2>1, <2>2, <2>3, <2>4, <2>5, Zenon
<1>9. IsSeq(q) /\ \A k \in DOMAIN q : q[k] \in R
  BY <1>1, FormStmtsType
<1>10. PICK m \in Nat : DOMAIN q = 1..m /\ m = Len(q) /\ q \in Seq(R)
  <2>1. PICK Q : q \in Seq(Q)
    BY <1>9 DEF IsSeq
  <2>. QED BY <1>9, <2>1
<1>11. m >= 1 /\ q[1].stmt = "new" /\ \A k \in 2..m : q[k].stmt = "ctrl"
  BY <1>1, <1>3, <1>10 DEF Constructs, IsOnce
<1>12. PICK rest : rest = [k \in 1..(m - 1) |-> q[k + 1]]
  OBVIOUS
<1>13. rest \in Seq(R) /\ rest \in Seq(W) /\ Len(rest) = m - 1 /\ \A k \in 1..(m - 1) : rest[k] = q[k + 1]
  <2>1. m - 1 \in Nat
    BY <1>11
  <2>2. \A k \in 1..(m - 1) : q[k + 1] \in R /\ q[k + 1] \in W
    BY <1>4, <1>9, <1>10, <1>11
  <2>. QED BY <1>12, <2>1, <2>2
<1>14. cs = rest
  <2>1. PICK one : one = <<q[1]>>
    OBVIOUS
  <2>2. q[1] \in R /\ q[1] \notin W
    BY <1>4, <1>9, <1>10, <1>11
  <2>3. PICK N : N = {q[1]}
    OBVIOUS
  <2>4. one \in Seq(N) /\ one \in Seq(R) /\ N \cap W = {}
    BY <2>1, <2>2, <2>3
  <2>5. q = one \o rest
    BY <1>10, <1>11, <1>12, <1>13, <2>1, <2>4
  <2>6. PICK a \in Seq(R), b \in Seq(R) : a = one /\ b = rest
    BY <1>13, <2>4
  <2>7. Filter(a \o b, W) = Filter(a, W) \o Filter(b, W)
    BY FilterConcat
  <2>8. Filter(a, W) = <<>>
    <3>1. PICK u \in Seq(N) : u = one
      BY <2>4
    <3>2. Filter(u, W) = <<>>
      BY <2>4, FilterNone
    <3>. QED BY <2>6, <3>1, <3>2, Zenon
  <2>9. Filter(b, W) = b
    <3>1. PICK u \in Seq(W) : u = rest
      BY <1>13
    <3>2. Filter(u, W) = u
      BY FilterAll
    <3>. QED BY <2>6, <3>1, <3>2, Zenon
  <2>10. <<>> \o b = b
    BY ConcatEmptySeq
  <2>. QED BY <1>8, <2>5, <2>6, <2>7, <2>8, <2>9, <2>10, Zenon
<1>15. PICK ctrls, form : ctrls = importControl(src, f) /\ form = importForm(src, f)
  OBVIOUS
<1>16. ctrls = [k \in 1..(m - 1) |-> q[k + 1].arg]
  <2>1. ctrls = [k \in DOMAIN cs |-> cs[k].arg]
    BY <1>5, <1>7, <1>15, Zenon DEF importControl, OwnedStmts
  <2>2. DOMAIN rest = 1..(m - 1)
    BY <1>12
  <2>. QED BY <1>13, <1>14, <2>1, <2>2
<1>17. form.name = f /\ form.title = src[i].arg /\ form.ctrls = ctrls
  BY <1>1, <1>15 DEF importForm
<1>18. Pieces(ctrls, m - 1) /\ m - 1 \in Nat
  <2>1. m - 1 \in Nat
    BY <1>11
  <2>2. Pieces(ctrls, m - 1)
    BY <1>16, Zenon DEF Pieces
  <2>. QED BY <2>1, <2>2
<1>19. IsSeq(ctrls) /\ DOMAIN ctrls = 1..(m - 1)
  BY <1>18, PiecesSeq
<1>20. Len(ctrls) = m - 1
  <2>1. PICK k \in Nat : k = Len(ctrls) /\ DOMAIN ctrls = 1..k
    BY <1>19, SeqPieces, Zenon
  <2>. QED BY <1>18, <1>19, <2>1
<1>21. src[i] = q[1]
  BY <1>1, <1>3 DEF Constructs
<1>22. \A k \in 1..(m - 1) : ctrls[k] = q[k + 1].arg /\ q[k + 1].stmt = "ctrl"
  BY <1>11, <1>16
<1>23. ReadsAs(q, form)
  BY <1>10, <1>11, <1>17, <1>19, <1>20, <1>21, <1>22 DEF ReadsAs
<1>. QED BY <1>1, <1>15, <1>17, <1>23

LEMMA ImportHolds ==
    ASSUME NEW src, IsSeq(src), IsClear(src)
    PROVE  /\ SourceHolds(src, Import(src)) /\ NamesOnce(Import(src))
           /\ \A k \in DOMAIN Import(src) : Constructs(src, Import(src)[k].name, Min(Owned(src, Import(src)[k].name)))
<1>. DEFINE Lead(f) == Min(Owned(src, f))
<1>1. PICK n \in Nat : n = Len(src) /\ DOMAIN src = 1..n
  BY SeqPieces
<1>2. PICK I : I = {i \in DOMAIN src : src[i].stmt = "new" /\ i \in Owned(src, src[i].form)}
  OBVIOUS
<1>3. PICK idx : idx = Filter([i \in 1..n |-> i], I)
  OBVIOUS
<1>4. Lists(idx, n, I)
  BY <1>3, FilterIndices, Zenon
<1>5. PICK m \in Nat : m = Len(idx) /\ DOMAIN idx = 1..m
  BY <1>4 DEF Lists
<1>6. \A a \in 1..m : idx[a] \in 1..n /\ idx[a] \in I
  BY <1>4, <1>5 DEF Lists
<1>7. PICK firsts : firsts = At(src, I)
  OBVIOUS
<1>8. firsts = [k \in 1..m |-> src[idx[k]]]
  BY <1>1, <1>3, <1>5, <1>7, Zenon DEF At
<1>9. PICK names : names = importFormNew(src)
  OBVIOUS
<1>10. names = [k \in 1..m |-> src[idx[k]].form]
  <2>1. names = [k \in DOMAIN firsts |-> firsts[k].form]
    BY <1>2, <1>7, <1>9, Zenon DEF importFormNew
  <2>2. DOMAIN firsts = 1..m /\ \A k \in 1..m : firsts[k] = src[idx[k]]
    BY <1>8
  <2>. QED BY <2>1, <2>2, Zenon
<1>11. \A f : FormStmts(src, f) # <<>> => Constructs(src, f, Lead(f))
  BY OwnedIs, Zenon DEF IsClear
<1>12. ASSUME NEW k \in 1..m PROVE FormStmts(src, names[k]) # <<>> /\ idx[k] = Lead(names[k])
  <2>1. PICK i, f : i = idx[k] /\ f = names[k]
    OBVIOUS
  <2>2. i \in DOMAIN src /\ src[i].stmt = "new" /\ i \in Owned(src, f) /\ f = src[i].form
    BY <1>2, <1>6, <1>10, <2>1
  <2>3. IsOnce(FormStmts(src, f))
    BY DEF IsClear
  <2>4. FormStmts(src, f) # <<>> /\ IsFormStmt(src[i], f)
    BY <2>2, <2>3, OwnedIs
  <2>5. i = Lead(f)
    <3>1. Constructs(src, f, Lead(f))
      BY <1>11, <2>4, Zenon
    <3>2. i # Lead(f) => src[i].stmt = "ctrl"
      BY <2>2, <2>4, <3>1, Zenon DEF Constructs
    <3>. QED BY <2>2, <3>2
  <2>. QED BY <2>1, <2>4, <2>5
<1>13. ASSUME NEW f, FormStmts(src, f) # <<>> PROVE \E k \in 1..m : names[k] = f
  <2>1. PICK i : i = Lead(f)
    OBVIOUS
  <2>2. i \in 1..n /\ IsFormStmt(src[i], f) /\ src[i].stmt = "new" /\ i \in Owned(src, f)
    BY <1>1, <1>11, <1>13, <2>1 DEF Constructs
  <2>3. src[i].form = f
    BY <2>2 DEF IsFormStmt
  <2>4. i \in (1..n) \cap I
    BY <1>1, <1>2, <2>2, <2>3
  <2>5. PICK k \in 1..m : idx[k] = i
    BY <1>4, <1>5, <2>4 DEF Lists
  <2>. QED BY <1>10, <2>3, <2>5
<1>14. ASSUME NEW j \in 1..m, NEW k \in 1..m, names[j] = names[k] PROVE j = k
  <2>1. idx[j] = idx[k]
    BY <1>6, <1>12, <1>14
  <2>. QED BY <1>4, <1>5, <2>1, ListsOnce, Zenon
<1>15. PICK doc : doc = Import(src)
  OBVIOUS
<1>16. doc = [k \in 1..m |-> importForm(src, names[k])]
  <2>1. DOMAIN names = 1..m
    BY <1>10
  <2>. QED BY <1>9, <1>15, <2>1, Zenon DEF Import
<1>17. DOMAIN doc = 1..m /\ \A k \in 1..m : doc[k] = importForm(src, names[k])
  BY <1>16
<1>18. ASSUME NEW k \in 1..m PROVE doc[k].name = names[k] /\ ReadsAs(FormStmts(src, doc[k].name), doc[k])
  <2>1. PICK f : f = names[k]
    OBVIOUS
  <2>2. IsOnce(FormStmts(src, f)) /\ FormStmts(src, f) # <<>>
    BY <1>12, <2>1 DEF IsClear
  <2>3. ReadsAs(FormStmts(src, f), importForm(src, f)) /\ importForm(src, f).name = f
    BY <2>2, ImportedReads
  <2>. QED BY <1>17, <2>1, <2>3
<1>19. NamesOnce(doc)
  <2>1. SUFFICES ASSUME NEW j \in 1..m, NEW k \in 1..m, doc[j].name = doc[k].name PROVE j = k
    BY <1>17, Zenon DEF NamesOnce
  <2>2. names[j] = names[k]
    BY <1>18, <2>1
  <2>. QED BY <1>14, <2>2
<1>20. SourceHolds(src, doc)
  <2>1. ASSUME NEW f, FormStmts(src, f) # <<>> PROVE \E k \in DOMAIN doc : doc[k].name = f
    BY <1>13, <1>17, <1>18, <2>1
  <2>. QED BY <1>17, <1>18, <2>1 DEF SourceHolds
<1>21. \A k \in DOMAIN doc : Constructs(src, doc[k].name, Lead(doc[k].name))
  BY <1>11, <1>12, <1>17, <1>18
<1>. QED BY <1>15, <1>19, <1>20, <1>21

\* Two documents that are in the same source have the same forms.
ShapeOf(doc) == {[name |-> doc[k].name, title |-> doc[k].title, ctrls |-> doc[k].ctrls] : k \in DOMAIN doc}

LEMMA SameControls ==
    ASSUME NEW q, NEW f, NEW g, ReadsAs(q, f), ReadsAs(q, g)
    PROVE  f.title = g.title /\ f.ctrls = g.ctrls
<1>1. PICK a, b : a = f.ctrls /\ b = g.ctrls
  OBVIOUS
<1>2. /\ \E n \in Nat : n = Len(a) /\ DOMAIN a = 1..n /\ Pieces(a, n)
      /\ \E m \in Nat : m = Len(b) /\ DOMAIN b = 1..m /\ Pieces(b, m)
  <2>1. IsSeq(a) /\ IsSeq(b)
    BY <1>1 DEF ReadsAs
  <2>. QED BY <2>1, SeqPieces, Zenon
<1>3. PICK n \in Nat : n = Len(a) /\ DOMAIN a = 1..n /\ Pieces(a, n)
  BY <1>2, Zenon
<1>4. PICK m \in Nat : m = Len(b) /\ DOMAIN b = 1..m /\ Pieces(b, m)
  BY <1>2, Zenon
<1>5. n + 1 \in 1..(n + 1) /\ m + 1 \in 1..(m + 1) /\ 1..(n + 1) = 1..(m + 1)
  BY <1>1, <1>3, <1>4 DEF ReadsAs
<1>6. n = m
  <2>1. n + 1 \in 1..(m + 1) /\ m + 1 \in 1..(n + 1)
    BY <1>5, Zenon
  <2>. QED BY <2>1
<1>7. \A i \in 1..n : a[i] = b[i]
  BY <1>1, <1>3, <1>4, <1>6 DEF ReadsAs
<1>8. a = b
  BY <1>3, <1>4, <1>6, <1>7, Zenon DEF Pieces
<1>. QED BY <1>1, <1>8 DEF ReadsAs

LEMMA SameShape ==
    ASSUME NEW src, NEW d, NEW e, SourceHolds(src, d), SourceHolds(src, e)
    PROVE  ShapeOf(d) \subseteq ShapeOf(e)
<1>1. SUFFICES ASSUME NEW k \in DOMAIN d
               PROVE  \E j \in DOMAIN e : e[j].name = d[k].name /\ e[j].title = d[k].title /\ e[j].ctrls = d[k].ctrls
  BY DEF ShapeOf
<1>2. PICK q : q = FormStmts(src, d[k].name)
  OBVIOUS
<1>3. ReadsAs(q, d[k])
  BY <1>2 DEF SourceHolds
<1>4. q # <<>>
  <2>1. PICK n \in Nat : n = Len(d[k].ctrls)
    BY <1>3, SeqPieces, Zenon DEF ReadsAs
  <2>2. 1 \in DOMAIN q
    BY <1>3, <2>1 DEF ReadsAs
  <2>. QED BY <2>2
<1>5. PICK j \in DOMAIN e : e[j].name = d[k].name
  BY <1>2, <1>4 DEF SourceHolds
<1>6. ReadsAs(q, e[j])
  BY <1>2, <1>5 DEF SourceHolds
<1>. QED BY <1>3, <1>5, <1>6, SameControls

\* What is generated for the handlers of a form is handlers.
IsHandlers(s) == IsSeq(s) /\ \A x \in Range(s) : x.stmt = "on" /\ x.bare

LEMMA HandlersGiven ==
    ASSUME NEW form, IsForm(form), NEW orphans, IsFiniteSet(orphans)
    PROVE  IsHandlers(exportHandlers(form, orphans))
<1>1. PICK base : base = <<"@form">> \o form.ctrls
  OBVIOUS
<1>2. IsSeq(base)
  BY <1>1, OneSeq, SeqConcat, Zenon DEF IsForm
<1>3. PICK all, T : all = base \o SetToSeq(orphans) /\ T = form.handlers \cap DOMAIN form.bodies
  OBVIOUS
<1>4. IsSeq(all)
  <2>1. SetToSeq(orphans) \in Seq(orphans)
    BY SetToSeqType
  <2>2. IsSeq(SetToSeq(orphans))
    BY <2>1, SeqIs, Zenon
  <2>. QED BY <1>2, <1>3, <2>2, SeqConcat, Zenon
<1>5. PICK S, keys : S = Range(all) /\ keys = Filter(all, T)
  OBVIOUS
<1>6. keys \in Seq(S \cap T)
  <2>1. all \in Seq(S)
    BY <1>4, <1>5 DEF IsSeq
  <2>. QED BY <1>5, <2>1, FilterType
<1>7. PICK n \in Nat : DOMAIN keys = 1..n /\ \A i \in 1..n : keys[i] \in DOMAIN form.bodies
  BY <1>3, <1>6
<1>8. PICK p : p = [i \in 1..n |-> form.bodies[keys[i]]]
  OBVIOUS
<1>9. p = exportHandlers(form, orphans)
  BY <1>1, <1>3, <1>5, <1>7, <1>8, Zenon DEF exportHandlers
<1>10. \A i \in 1..n : p[i].stmt = "on" /\ p[i].bare
  BY <1>7, <1>8 DEF IsForm
<1>11. Pieces(p, n)
  BY <1>8, Zenon DEF Pieces
<1>12. IsSeq(p) /\ DOMAIN p = 1..n
  BY <1>11, PiecesSeq, Zenon
<1>. QED BY <1>9, <1>10, <1>12 DEF IsHandlers, Range

LEMMA StubsGiven == ASSUME NEW form, IsForm(form) PROVE IsHandlers(exportDefaultHandlers(form))
<1>1. PICK base : base = <<"@form">> \o form.ctrls
  OBVIOUS
<1>2. IsSeq(base)
  BY <1>1, OneSeq, SeqConcat, Zenon DEF IsForm
<1>3. PICK T : T = ({"@form"} \cup ToSet(form.ctrls)) \ form.handlers
  OBVIOUS
<1>4. PICK S, keys : S = Range(base) /\ keys = Filter(base, T)
  OBVIOUS
<1>5. keys \in Seq(S)
  <2>1. base \in Seq(S)
    BY <1>2, <1>4 DEF IsSeq
  <2>. QED BY <1>4, <2>1, FilterType
<1>6. PICK n \in Nat : DOMAIN keys = 1..n
  BY <1>5
<1>7. PICK p : p = [i \in 1..n |-> OnStmt(form.name, keys[i], "stub")]
  OBVIOUS
<1>8. p = exportDefaultHandlers(form)
  BY <1>1, <1>3, <1>4, <1>6, <1>7, Zenon DEF exportDefaultHandlers
<1>9. \A i \in 1..n : p[i].stmt = "on" /\ p[i].bare
  <2>1. \A k : OnStmt(form.name, k, "stub").stmt = "on" /\ OnStmt(form.name, k, "stub").bare
    BY DEF OnStmt, Stmt
  <2>. QED BY <1>7, <2>1, Zenon
<1>10. Pieces(p, n)
  BY <1>7, Zenon DEF Pieces
<1>11. IsSeq(p) /\ DOMAIN p = 1..n
  BY <1>10, PiecesSeq, Zenon
<1>. QED BY <1>8, <1>9, <1>11 DEF IsHandlers, Range

\* The statements that construct a form as a document has it.
Constructed(form) == <<exportFormNew(form)>> \o [i \in DOMAIN form.ctrls |-> CtrlStmt(form.name, form.ctrls[i])]

LEMMA ControlsGiven ==
    ASSUME NEW form, IsForm(form), NEW f
    PROVE  LET cs == FlattenSeq([i \in DOMAIN form.ctrls |-> exportControl(form.name, form.ctrls[i])]) IN
           /\ IsSeq(cs)
           /\ FormStmts(cs, f) = IF f = form.name THEN [i \in DOMAIN form.ctrls |-> CtrlStmt(form.name, form.ctrls[i])] ELSE <<>>
<1>1. PICK name, ctrls : name = form.name /\ ctrls = form.ctrls
  OBVIOUS
<1>2. PICK n \in Nat : DOMAIN ctrls = 1..n
  BY <1>1, SeqPieces, Zenon DEF IsForm
<1>3. PICK p, s : p = [i \in 1..n |-> exportControl(name, ctrls[i])] /\ s = [i \in 1..n |-> CtrlStmt(name, ctrls[i])]
  OBVIOUS
<1>4. (\A i \in 1..n : p[i] = exportControl(name, ctrls[i]) /\ s[i] = CtrlStmt(name, ctrls[i])) /\ Pieces(p, n) /\ Pieces(s, n)
  BY <1>3, Zenon DEF Pieces
<1>5. IsSeq(s) /\ DOMAIN s = 1..n
  BY <1>4, PiecesSeq
<1>6. n = Len(s)
  <2>1. PICK k \in Nat : k = Len(s) /\ DOMAIN s = 1..k
    BY <1>5, SeqPieces, Zenon
  <2>. QED BY <1>5, <2>1
<1>7. ASSUME NEW c PROVE LET e == exportControl(name, c) IN
                         IsSeq(e) /\ FormStmts(e, f) = IF IsFormStmt(CtrlStmt(name, c), f) THEN <<CtrlStmt(name, c)>> ELSE <<>>
  <2>1. PICK a, b : a = Comment(c) /\ b = CtrlStmt(name, c)
    OBVIOUS
  <2>2. ~IsFormStmt(a, f)
    BY <2>1 DEF IsFormStmt, Comment, Stmt
  <2>3. IsSeq(<<a>>) /\ FormStmts(<<a>>, f) = <<>>
    BY <2>2, FormStmtsOne, Zenon
  <2>4. IsSeq(<<b>>) /\ FormStmts(<<b>>, f) = IF IsFormStmt(b, f) THEN <<b>> ELSE <<>>
    BY FormStmtsOne, Zenon
  <2>5. PICK d : d = IF c \in Tables THEN <<a>> ELSE <<>>
    OBVIOUS
  <2>6. IsSeq(d) /\ FormStmts(d, f) = <<>>
    <3>1. IsSilent(<<>>, f)
      BY SilentEmpty
    <3>2. IsSeq(<<>>) /\ FormStmts(<<>>, f) = <<>>
      BY <3>1, SilentNone, Zenon DEF IsSilent
    <3>. QED BY <2>3, <2>5, <3>2, Zenon
  <2>7. PICK w : w = <<b>>
    OBVIOUS
  <2>8. PICK v : v = d \o w
    OBVIOUS
  <2>9. exportControl(name, c) = v
    BY <2>1, <2>5, <2>7, <2>8, Zenon DEF exportControl
  <2>10. IsSeq(w)
    BY <2>4, <2>7, Zenon
  <2>11. IsSeq(v) /\ FormStmts(v, f) = FormStmts(w, f)
    <3>1. Joined(v, d, w)
      BY <2>8 DEF Joined
    <3>. QED BY <2>6, <2>10, <3>1, FormStmtsEnds
  <2>. QED BY <2>1, <2>4, <2>7, <2>9, <2>11, Zenon
<1>8. \A i \in 1..n : IsSeq(p[i]) /\ FormStmts(p[i], f) = IF IsFormStmt(s[i], f) THEN <<s[i]>> ELSE <<>>
  BY <1>4, <1>7, Zenon
<1>9. FormStmts(FlattenSeq(p), f) = FormStmts(s, f)
  BY <1>4, <1>5, <1>6, <1>8, FormStmtsKept
<1>10. IsSeq(FlattenSeq(p))
  BY <1>4, <1>8, FormStmtsJoin
<1>11. \A c : IsFormStmt(CtrlStmt(name, c), f) <=> f = name
  BY DEF IsFormStmt, CtrlStmt, Stmt
<1>12. \A x \in Range(s) : IsFormStmt(x, f) <=> f = name
  BY <1>4, <1>5, <1>11 DEF Range
<1>13. FormStmts(s, f) = IF f = name THEN s ELSE <<>>
  <2>1. CASE f = name
    <3>1. PICK R, U : R = Range(s) /\ U = {x \in R : IsFormStmt(x, f)}
      OBVIOUS
    <3>2. R \subseteq U /\ s \in Seq(R)
      BY <1>5, <1>12, <2>1, <3>1 DEF IsSeq
    <3>3. PICK u \in Seq(R) : u = s
      BY <3>2
    <3>4. Filter(u, U) = u
      BY <3>2, FilterAll
    <3>. QED BY <2>1, <3>1, <3>3, <3>4, Zenon DEF FormStmts
  <2>2. CASE f # name
    <3>1. IsSilent(s, f)
      BY <1>5, <1>12, <2>2 DEF IsSilent
    <3>. QED BY <2>2, <3>1, SilentNone, Zenon
  <2>. QED BY <2>1, <2>2
<1>14. p = [i \in DOMAIN form.ctrls |-> exportControl(form.name, form.ctrls[i])]
  BY <1>1, <1>2, <1>3, Zenon
<1>15. s = [i \in DOMAIN form.ctrls |-> CtrlStmt(form.name, form.ctrls[i])]
  BY <1>1, <1>2, <1>3, Zenon
<1>. QED BY <1>1, <1>9, <1>10, <1>13, <1>14, <1>15, Zenon

\* The generated text of a form constructs that form and nothing else.
LEMMA GeneratedStmts ==
    ASSUME NEW form, IsForm(form), NEW orphans, IsFiniteSet(orphans), NEW emitShow, NEW f
    PROVE  /\ IsSeq(GenerateFormLua(form, orphans, emitShow))
           /\ FormStmts(GenerateFormLua(form, orphans, emitShow), f) = IF f = form.name THEN Constructed(form) ELSE <<>>
<1>1. PICK cs : cs = FlattenSeq([i \in DOMAIN form.ctrls |-> exportControl(form.name, form.ctrls[i])])
  OBVIOUS
<1>2. PICK c : c = [i \in DOMAIN form.ctrls |-> CtrlStmt(form.name, form.ctrls[i])]
  OBVIOUS
<1>3. IsSeq(cs) /\ FormStmts(cs, f) = IF f = form.name THEN c ELSE <<>>
  BY <1>1, <1>2, ControlsGiven, Zenon
<1>4. PICK new, h, d, last, e : /\ e = exportFormNew(form) /\ new = <<e>> /\ h = exportHandlers(form, orphans)
                                /\ d = exportDefaultHandlers(form) /\ last = IF emitShow THEN <<ShowStmt(form.name, "")>> ELSE <<>>
  OBVIOUS
<1>5. IsFormStmt(e, f) <=> f = form.name
  BY <1>4 DEF IsFormStmt, exportFormNew, NewStmt, Stmt
<1>6. IsSeq(new) /\ FormStmts(new, f) = IF f = form.name THEN new ELSE <<>>
  BY <1>4, <1>5, FormStmtsOne, Zenon
<1>7. ASSUME NEW s, IsHandlers(s) PROVE IsSeq(s) /\ FormStmts(s, f) = <<>>
  <2>1. IsSilent(s, f)
    BY <1>7 DEF IsHandlers, IsSilent, IsFormStmt
  <2>. QED BY <2>1, SilentNone, Zenon DEF IsSilent
<1>8. IsSeq(h) /\ FormStmts(h, f) = <<>> /\ IsSeq(d) /\ FormStmts(d, f) = <<>>
  BY <1>4, <1>7, HandlersGiven, StubsGiven, Zenon
<1>9. IsSeq(last) /\ FormStmts(last, f) = <<>>
  <2>1. PICK x : x = ShowStmt(form.name, "")
    OBVIOUS
  <2>2. ~IsFormStmt(x, f)
    BY <2>1 DEF IsFormStmt, ShowStmt, Stmt
  <2>3. IsSeq(<<x>>) /\ FormStmts(<<x>>, f) = <<>>
    BY <2>2, FormStmtsOne, Zenon
  <2>4. IsSeq(<<>>) /\ FormStmts(<<>>, f) = <<>>
    BY SilentEmpty, SilentNone, Zenon DEF IsSilent
  <2>. QED BY <1>4, <2>1, <2>3, <2>4, Zenon
<1>10. PICK a1 : a1 = new \o cs
  OBVIOUS
<1>11. IsSeq(a1) /\ FormStmts(a1, f) = IF f = form.name THEN new \o c ELSE <<>>
  <2>1. /\ IsSeq(a1) /\ FormStmts(a1, f) = FormStmts(new, f) \o FormStmts(cs, f)
        /\ FormStmts(new, f) = <<>> => FormStmts(a1, f) = FormStmts(cs, f)
    <3>1. Joined(a1, new, cs)
      BY <1>10 DEF Joined
    <3>2. IsSeq(new) /\ IsSeq(cs)
      BY <1>3, <1>6
    <3>. QED BY <3>1, <3>2, FormStmtsEnds
  <2>. QED BY <1>3, <1>6, <2>1, Zenon
<1>12. PICK a2 : a2 = a1 \o h
  OBVIOUS
<1>13. IsSeq(a2) /\ FormStmts(a2, f) = FormStmts(a1, f)
  <2>1. Joined(a2, a1, h)
    BY <1>12 DEF Joined
  <2>. QED BY <1>8, <1>11, <2>1, FormStmtsEnds
<1>14. PICK a3 : a3 = a2 \o d
  OBVIOUS
<1>15. IsSeq(a3) /\ FormStmts(a3, f) = FormStmts(a2, f)
  <2>1. Joined(a3, a2, d)
    BY <1>14 DEF Joined
  <2>. QED BY <1>8, <1>13, <2>1, FormStmtsEnds
<1>16. PICK a4 : a4 = a3 \o last
  OBVIOUS
<1>17. IsSeq(a4) /\ FormStmts(a4, f) = FormStmts(a3, f)
  <2>1. Joined(a4, a3, last)
    BY <1>16 DEF Joined
  <2>. QED BY <1>9, <1>15, <2>1, FormStmtsEnds
<1>18. a4 = GenerateFormLua(form, orphans, emitShow)
  BY <1>1, <1>4, <1>10, <1>12, <1>14, <1>16, Zenon DEF GenerateFormLua
<1>19. new \o c = Constructed(form)
  BY <1>2, <1>4, Zenon DEF Constructed
<1>. QED BY <1>11, <1>13, <1>15, <1>17, <1>18, <1>19, Zenon

LEMMA ConstructedReads == ASSUME NEW form, IsForm(form) PROVE ReadsAs(Constructed(form), form) /\ Constructed(form) # <<>>
<1>1. PICK name, ctrls, e : name = form.name /\ ctrls = form.ctrls /\ e = exportFormNew(form)
  OBVIOUS
<1>2. PICK n \in Nat : DOMAIN ctrls = 1..n /\ n = Len(ctrls)
  BY <1>1, SeqPieces, Zenon DEF IsForm
<1>3. PICK c : c = [i \in 1..n |-> CtrlStmt(name, ctrls[i])]
  OBVIOUS
<1>4. Constructed(form) = <<e>> \o c
  BY <1>1, <1>2, <1>3, Zenon DEF Constructed
<1>5. PICK q : q = <<e>> \o c
  OBVIOUS
<1>6. PICK R, one : R = {e} \cup {c[i] : i \in 1..n} /\ one = <<e>>
  OBVIOUS
<1>7. c \in Seq(R) /\ Len(c) = n /\ one \in Seq(R) /\ Len(one) = 1 /\ one[1] = e
  BY <1>3, <1>6
<1>8. q = one \o c
  BY <1>5, <1>6
<1>9. DOMAIN q = 1..(n + 1) /\ q[1] = e /\ \A i \in 1..n : q[i + 1] = c[i]
  <2>1. PICK a \in Seq(R), b \in Seq(R) : a = one /\ b = c
    BY <1>7
  <2>2. Len(a) = 1 /\ a[1] = e /\ Len(b) = n
    BY <1>7, <2>1
  <2>3. DOMAIN (a \o b) = 1..(n + 1) /\ (a \o b)[1] = e /\ \A i \in 1..n : (a \o b)[i + 1] = b[i]
    <3>1. PICK y \in Seq(R) : y = a \o b /\ Len(y) = Len(a) + Len(b)
      BY ConcatProperties
    <3>2. \A i \in 1..(Len(a) + Len(b)) : y[i] = IF i <= Len(a) THEN a[i] ELSE b[i - Len(a)]
      BY <3>1, ConcatProperties
    <3>3. Len(y) = n + 1 /\ DOMAIN y = 1..(n + 1) /\ y[1] = e
      BY <2>2, <3>1, <3>2
    <3>4. ASSUME NEW i \in 1..n PROVE y[i + 1] = b[i]
      <4>1. i + 1 \in 1..(1 + n) /\ ~(i + 1 <= 1) /\ i + 1 - 1 = i
        OBVIOUS
      <4>. QED BY <2>2, <3>2, <4>1
    <3>. QED BY <3>1, <3>3, <3>4
  <2>. QED BY <1>8, <2>1, <2>3, Zenon
<1>10. e.stmt = "new" /\ e.arg = form.title
  BY <1>1 DEF exportFormNew, NewStmt, Stmt
<1>11. \A i \in 1..n : c[i].stmt = "ctrl" /\ c[i].arg = ctrls[i]
  BY <1>3 DEF CtrlStmt, Stmt
<1>12. IsSeq(ctrls)
  BY <1>1 DEF IsForm
<1>13. ReadsAs(q, form)
  BY <1>1, <1>2, <1>9, <1>10, <1>11, <1>12 DEF ReadsAs
<1>14. q # <<>>
  <2>1. 1 \in DOMAIN q
    BY <1>9
  <2>. QED BY <2>1
<1>. QED BY <1>4, <1>5, <1>13, <1>14

\* A document's forms, each constructed once.
LEMMA AllFormsStmts ==
    ASSUME NEW doc, IsDoc(doc), NamesOnce(doc), NEW f
    PROVE  /\ IsSeq(AllForms(doc))
           /\ \A k \in DOMAIN doc : doc[k].name = f => FormStmts(AllForms(doc), f) = Constructed(doc[k])
           /\ (\A k \in DOMAIN doc : doc[k].name # f) => FormStmts(AllForms(doc), f) = <<>>
<1>1. PICK n \in Nat : DOMAIN doc = 1..n
  BY SeqPieces, Zenon DEF IsDoc
<1>2. PICK p : p = [k \in 1..n |-> GenerateFormLua(doc[k], {}, TRUE)]
  OBVIOUS
<1>3. Pieces(p, n) /\ \A k \in 1..n : p[k] = GenerateFormLua(doc[k], {}, TRUE)
  BY <1>2, Zenon DEF Pieces
<1>4. \A k \in 1..n : IsSeq(p[k]) /\ FormStmts(p[k], f) = IF f = doc[k].name THEN Constructed(doc[k]) ELSE <<>>
  <2>1. IsFiniteSet({})
    BY FS_EmptySet
  <2>2. ASSUME NEW k \in 1..n, NEW o, o = {}, NEW e, e = TRUE
        PROVE  LET b == GenerateFormLua(doc[k], o, e) IN IsSeq(b) /\ FormStmts(b, f) = IF f = doc[k].name THEN Constructed(doc[k]) ELSE <<>>
    <3>1. IsForm(doc[k]) /\ IsFiniteSet(o)
      BY <1>1, <2>1, <2>2 DEF IsDoc
    <3>. QED BY <3>1, GeneratedStmts, Zenon
  <2>. QED BY <1>3, <2>2, Zenon
<1>5. PICK x : x = FlattenSeq(p)
  OBVIOUS
<1>6. AllForms(doc) = x
  BY <1>1, <1>2, <1>5, Zenon DEF AllForms
<1>7. IsSeq(x)
  BY <1>3, <1>4, <1>5, FormStmtsJoin
<1>8. ASSUME NEW k \in 1..n, doc[k].name = f PROVE FormStmts(x, f) = Constructed(doc[k])
  <2>1. \A i \in 1..n : i # k => doc[i].name # f
    BY <1>1, <1>8 DEF NamesOnce
  <2>2. \A i \in 1..n : i # k => FormStmts(p[i], f) = <<>>
    BY <1>4, <2>1
  <2>3. FormStmts(x, f) = FormStmts(p[k], f)
    BY <1>3, <1>4, <1>5, <2>2, FormStmtsJoinOne, Zenon
  <2>. QED BY <1>4, <1>8, <2>3
<1>9. ASSUME \A k \in 1..n : doc[k].name # f PROVE FormStmts(x, f) = <<>>
  <2>1. \A i \in 1..n : FormStmts(p[i], f) = <<>>
    BY <1>4, <1>9
  <2>. QED BY <1>3, <1>4, <1>5, <2>1, FormStmtsJoinOne, Zenon
<1>. QED BY <1>1, <1>6, <1>7, <1>8, <1>9, Zenon

\* What a save does to form i of the source: it stays, as form k of the document has it; it is replaced by form k; or
\* it goes.
KeepsForm(src, cur, doc, i, k) ==
    /\ k \in DOMAIN doc /\ doc[k].name = cur[i].name
    /\ Splice(src, cur, doc, i).drop = {} /\ Splice(src, cur, doc, i).block = <<>>
    /\ ReadsAs(FormStmts(src, cur[i].name), doc[k])
SwapsForm(src, cur, doc, i, k) ==
    /\ k \in DOMAIN doc /\ (doc[k].name = cur[i].name \/ (k = i /\ i = renameIndex(cur, doc)))
    /\ Splice(src, cur, doc, i).drop = Owned(src, cur[i].name)
    /\ IsSeq(Splice(src, cur, doc, i).block) /\ Splice(src, cur, doc, i).block # <<>>
    /\ \A f : FormStmts(Splice(src, cur, doc, i).block, f) = IF f = doc[k].name THEN Constructed(doc[k]) ELSE <<>>
DropsForm(src, cur, doc, i) ==
    /\ i # renameIndex(cur, doc) /\ \A k \in DOMAIN doc : doc[k].name # cur[i].name
    /\ Splice(src, cur, doc, i).drop = Owned(src, cur[i].name) /\ Splice(src, cur, doc, i).block = <<>>

\* A renamed form is the only one whose name differs.
Renames(cur, doc, r) ==
    /\ r \in DOMAIN cur /\ r \in DOMAIN doc /\ cur[r].name # doc[r].name
    /\ \A k \in DOMAIN doc : doc[k].name # cur[r].name
    /\ \A i \in DOMAIN cur : cur[i].name # doc[r].name

LEMMA RenameIs ==
    ASSUME NEW cur, NEW doc, IsDoc(cur), IsDoc(doc), NamesOnce(cur), NamesOnce(doc), renameIndex(cur, doc) # 0
    PROVE  Renames(cur, doc, renameIndex(cur, doc))
<1>1. PICK r, diff : r = renameIndex(cur, doc) /\ diff = {k \in DOMAIN cur : cur[k].name # doc[k].name}
  OBVIOUS
<1>2. Len(cur) = Len(doc) /\ Cardinality(diff) = 1 /\ r = CHOOSE k \in diff : TRUE
  BY <1>1, Zenon DEF renameIndex
<1>3. PICK n \in Nat : n = Len(cur) /\ DOMAIN cur = 1..n
  BY SeqPieces, Zenon DEF IsDoc
<1>4. PICK m \in Nat : m = Len(doc) /\ DOMAIN doc = 1..m
  BY SeqPieces, Zenon DEF IsDoc
<1>5. n = m
  BY <1>2, <1>3, <1>4
<1>6. PICK x : diff = {x}
  <2>1. IsFiniteSet(1..n)
    BY FS_Interval
  <2>2. PICK D : D = 1..n
    OBVIOUS
  <2>3. IsFiniteSet(diff)
    BY <1>1, <1>3, <2>1, <2>2, FS_Subset
  <2>. QED BY <1>2, <2>3, FS_Singleton
<1>7. r = x
  BY <1>2, <1>6
<1>8. r \in 1..n /\ cur[r].name # doc[r].name /\ \A j \in 1..n : j # r => cur[j].name = doc[j].name
  BY <1>1, <1>3, <1>6, <1>7
<1>9. ASSUME NEW k \in 1..n, doc[k].name = cur[r].name PROVE FALSE
  <2>1. k # r
    BY <1>8, <1>9
  <2>2. cur[k].name = cur[r].name
    BY <1>8, <1>9, <2>1
  <2>. QED BY <1>3, <1>8, <2>1, <2>2, Zenon DEF NamesOnce
<1>10. ASSUME NEW i \in 1..n, cur[i].name = doc[r].name PROVE FALSE
  <2>1. i # r
    BY <1>8, <1>10
  <2>2. doc[i].name = doc[r].name
    BY <1>8, <1>10, <2>1
  <2>. QED BY <1>4, <1>5, <1>8, <2>1, <2>2, Zenon DEF NamesOnce
<1>. QED BY <1>1, <1>3, <1>4, <1>5, <1>8, <1>9, <1>10 DEF Renames

\* A form whose generated text is there already has it, under its own name.
LEMMA SameTextReads ==
    ASSUME NEW src, IsSeq(src), NEW f, IsOnce(FormStmts(src, f)), NEW form, IsForm(form), NEW block, IsSeq(block),
           FormStmts(block, form.name) = Constructed(form), sameText(block, src, f)
    PROVE  form.name = f /\ FormStmts(src, f) = Constructed(form)
<1>1. PICK own : own = Owned(src, f)
  OBVIOUS
<1>2. block = At(src, own)
  BY <1>1 DEF sameText
<1>3. \A k \in DOMAIN block : \E j \in DOMAIN src : j \in own /\ block[k] = src[j]
  BY <1>2, AtMembers
<1>4. form.name = f
  <2>1. PICK q : q = FormStmts(block, form.name)
    OBVIOUS
  <2>2. 1 \in DOMAIN q
    <3>1. ReadsAs(q, form)
      BY <2>1, ConstructedReads
    <3>2. PICK n \in Nat : n = Len(form.ctrls)
      BY <3>1, SeqPieces, Zenon DEF ReadsAs
    <3>. QED BY <3>1, <3>2 DEF ReadsAs
  <2>3. q[1] \in Range(block) /\ IsFormStmt(q[1], form.name)
    BY <2>1, <2>2, FormStmtsType
  <2>4. PICK k \in DOMAIN block : q[1] = block[k]
    BY <2>3 DEF Range
  <2>5. PICK j \in own : q[1] = src[j]
    BY <1>3, <2>4
  <2>6. src[j].stmt \in {"new", "ctrl"} /\ src[j].form = form.name
    BY <2>3, <2>5 DEF IsFormStmt
  <2>7. IsFormStmt(src[j], f)
    BY <1>1, <2>6, OwnedIs
  <2>. QED BY <2>6, <2>7 DEF IsFormStmt
<1>5. FormStmts(src, f) = Constructed(form)
  <2>1. PICK R, W : R = Range(src) /\ W = {x \in R : IsFormStmt(x, f)}
    OBVIOUS
  <2>2. src \in Seq(R)
    BY <2>1 DEF IsSeq
  <2>3. ASSUME NEW i \in DOMAIN src, src[i] \in W PROVE i \in own
    <3>1. IsFormStmt(src[i], f)
      BY <2>1, <2>3
    <3>2. FormStmts(src, f) # <<>>
      <4>1. FormStmts(src, f) = Filter(src, W)
        BY <2>1, Zenon DEF FormStmts
      <4>2. Filter(src, W) # <<>>
        BY <2>2, <2>3, FilterLeads DEF Leads
      <4>. QED BY <4>1, <4>2
    <3>3. Constructs(src, f, Min(own))
      BY <1>1, <3>2, OwnedIs
    <3>. QED BY <1>1, <3>1, <3>3, Zenon DEF Constructs
  <2>4. Filter(At(src, own), W) = Filter(src, W)
    BY <2>2, <2>3, FilterAt
  <2>5. Range(block) \subseteq R
    BY <1>3, <2>1 DEF Range
  <2>6. block \in Seq(R)
    BY <2>5, SeqOver
  <2>7. FormStmts(block, f) = Filter(block, W)
    BY <2>1, <2>6, FormStmtsOver, Zenon
  <2>. QED BY <1>2, <1>4, <2>1, <2>4, <2>7, Zenon DEF FormStmts
<1>. QED BY <1>4, <1>5

LEMMA SpliceCases ==
    ASSUME NEW src, IsSeq(src), IsClear(src), NEW doc, IsDoc(doc), NamesOnce(doc), NEW cur, cur = Import(src), NEW i \in DOMAIN cur
    PROVE  \/ \E k \in DOMAIN doc : KeepsForm(src, cur, doc, i, k)
           \/ \E k \in DOMAIN doc : SwapsForm(src, cur, doc, i, k)
           \/ DropsForm(src, cur, doc, i)
<1>1. PICK sf, g, dfs, k, own : /\ sf = cur[i] /\ g = cur[i].name /\ dfs = docCounterpart(cur, doc, i)
                                /\ k = (CHOOSE x \in dfs : TRUE) /\ own = Owned(src, g)
  OBVIOUS
<1>2. PICK block : block = GenerateFormLua(doc[k], patchOrphans(doc[k], sf), importFormShow(src, sf.name))
  OBVIOUS
<1>3. IsDoc(cur) /\ NamesOnce(cur) /\ SourceHolds(src, cur)
  BY ImportDoc, ImportHolds
<1>4. PICK sp : sp = Splice(src, cur, doc, i)
  OBVIOUS
<1>5. /\ dfs = {} => sp = [drop |-> own, block |-> <<>>]
      /\ dfs # {} /\ (formEqual(doc[k], sf) \/ sameText(block, src, sf.name)) => sp = [drop |-> {}, block |-> <<>>]
      /\ dfs # {} /\ ~(formEqual(doc[k], sf) \/ sameText(block, src, sf.name)) => sp = [drop |-> own, block |-> block]
  BY <1>1, <1>2, <1>4, Zenon DEF Splice, markDeleted
<1>6. CASE dfs = {}
  <2>1. sp.drop = own /\ sp.block = <<>>
    BY <1>5, <1>6
  <2>2. findForm(doc, g) = {} /\ i # renameIndex(cur, doc)
    BY <1>1, <1>6 DEF docCounterpart
  <2>3. \A j \in DOMAIN doc : doc[j].name # g
    BY <2>2 DEF findForm
  <2>. QED BY <1>1, <1>4, <2>1, <2>2, <2>3 DEF DropsForm
<1>7. CASE dfs # {}
  <2>1. k \in dfs
    BY <1>1, <1>7, Zenon
  <2>2. k \in DOMAIN doc /\ (doc[k].name = g \/ (k = i /\ i = renameIndex(cur, doc)))
    <3>1. CASE k \in findForm(doc, g)
      BY <3>1 DEF findForm
    <3>2. CASE k = i /\ i = renameIndex(cur, doc)
      <4>1. i # 0
        <5>1. PICK n \in Nat : DOMAIN cur = 1..n
          BY <1>3, SeqPieces, Zenon DEF IsDoc
        <5>. QED BY <5>1
      <4>2. Renames(cur, doc, i)
        BY <1>3, <3>2, <4>1, RenameIs
      <4>. QED BY <3>2, <4>2 DEF Renames
    <3>. QED BY <1>1, <2>1, <3>1, <3>2 DEF docCounterpart
  <2>3. IsForm(doc[k]) /\ IsForm(sf)
    BY <1>1, <1>3, <2>2 DEF IsDoc
  <2>4. IsFiniteSet(patchOrphans(doc[k], sf))
    <3>1. PICK T, orphans : T = ToSet(sf.ctrls) /\ orphans = patchOrphans(doc[k], sf)
      OBVIOUS
    <3>2. IsFiniteSet(T)
      BY <2>3, <3>1, RangeFinite DEF IsForm
    <3>3. orphans \in SUBSET T
      BY <3>1 DEF patchOrphans
    <3>4. IsFiniteSet(orphans)
      BY <3>2, <3>3, FS_Subset
    <3>. QED BY <3>1, <3>4
  <2>5. IsSeq(block) /\ \A f : FormStmts(block, f) = IF f = doc[k].name THEN Constructed(doc[k]) ELSE <<>>
    BY <1>2, <2>3, <2>4, GeneratedStmts, Zenon
  <2>6. CASE formEqual(doc[k], sf)
    <3>1. doc[k] = cur[i]
      BY <1>1, <2>6 DEF formEqual
    <3>2. ReadsAs(FormStmts(src, g), cur[i])
      BY <1>1, <1>3 DEF SourceHolds
    <3>3. sp.drop = {} /\ sp.block = <<>>
      BY <1>5, <1>7, <2>6
    <3>. QED BY <1>1, <1>4, <2>2, <3>1, <3>2, <3>3 DEF KeepsForm
  <2>7. CASE sameText(block, src, sf.name)
    <3>1. IsOnce(FormStmts(src, g)) /\ sf.name = g
      BY <1>1 DEF IsClear
    <3>2. FormStmts(block, doc[k].name) = Constructed(doc[k])
      BY <2>5
    <3>3. doc[k].name = g /\ FormStmts(src, g) = Constructed(doc[k])
      BY <2>3, <2>5, <2>7, <3>1, <3>2, SameTextReads, Zenon
    <3>4. ReadsAs(FormStmts(src, g), doc[k])
      BY <2>3, <3>3, ConstructedReads
    <3>5. sp.drop = {} /\ sp.block = <<>>
      BY <1>5, <1>7, <2>7
    <3>. QED BY <1>1, <1>4, <2>2, <3>3, <3>4, <3>5 DEF KeepsForm
  <2>8. CASE ~(formEqual(doc[k], sf) \/ sameText(block, src, sf.name))
    <3>1. sp.drop = own /\ sp.block = block
      BY <1>5, <1>7, <2>8
    <3>2. block # <<>>
      <4>1. FormStmts(block, doc[k].name) = Constructed(doc[k]) /\ Constructed(doc[k]) # <<>>
        BY <2>3, <2>5, ConstructedReads
      <4>2. PICK f : f = doc[k].name
        OBVIOUS
      <4>3. FormStmts(<<>>, f) = <<>>
        BY SilentEmpty, SilentNone, Zenon
      <4>. QED BY <4>1, <4>2, <4>3
    <3>. QED BY <1>1, <1>4, <2>2, <2>5, <3>1, <3>2 DEF SwapsForm
  <2>. QED BY <2>6, <2>7, <2>8
<1>. QED BY <1>6, <1>7

\* A choice of some of the forms of a document.
LEMMA AtForms ==
    ASSUME NEW doc, IsDoc(doc), NamesOnce(doc), NEW K
    PROVE  /\ IsDoc(At(doc, K)) /\ NamesOnce(At(doc, K))
           /\ \A j \in DOMAIN At(doc, K) : \E k \in DOMAIN doc : k \in K /\ At(doc, K)[j] = doc[k]
           /\ \A k \in DOMAIN doc : k \in K => \E j \in DOMAIN At(doc, K) : At(doc, K)[j] = doc[k]
<1>1. PICK n \in Nat : DOMAIN doc = 1..n
  BY SeqPieces, Zenon DEF IsDoc
<1>2. PICK idx : idx = Filter([i \in 1..n |-> i], K)
  OBVIOUS
<1>3. Lists(idx, n, K)
  BY <1>2, FilterIndices, Zenon
<1>4. PICK m \in Nat : m = Len(idx) /\ DOMAIN idx = 1..m
  BY <1>3 DEF Lists
<1>5. \A a \in 1..m : idx[a] \in 1..n /\ idx[a] \in K
  BY <1>3, <1>4 DEF Lists
<1>6. PICK d : d = At(doc, K)
  OBVIOUS
<1>7. d = [k \in 1..m |-> doc[idx[k]]]
  BY <1>1, <1>2, <1>4, <1>6, Zenon DEF At
<1>8. DOMAIN d = 1..m /\ \A j \in 1..m : d[j] = doc[idx[j]]
  BY <1>7
<1>9. ASSUME NEW j \in 1..m, NEW k \in 1..m, d[j].name = d[k].name PROVE j = k
  <2>1. idx[j] = idx[k]
    BY <1>1, <1>5, <1>8, <1>9 DEF NamesOnce
  <2>. QED BY <1>3, <1>4, <2>1, ListsOnce, Zenon
<1>10. NamesOnce(d)
  BY <1>8, <1>9, Zenon DEF NamesOnce
<1>11. \A j \in DOMAIN d : \E k \in DOMAIN doc : k \in K /\ d[j] = doc[k]
  BY <1>1, <1>5, <1>8
<1>12. ASSUME NEW k \in DOMAIN doc, k \in K PROVE \E j \in DOMAIN d : d[j] = doc[k]
  <2>1. k \in (1..n) \cap K
    BY <1>1, <1>12
  <2>2. PICK j \in 1..m : idx[j] = k
    BY <1>3, <1>4, <2>1 DEF Lists
  <2>. QED BY <1>8, <2>2
<1>13. IsDoc(d)
  BY <1>6, AtDoc
<1>. QED BY <1>6, <1>10, <1>11, <1>12, <1>13

\* The rebuilt source, put together: before each statement a block, at one place the new forms, of the statements those
\* that are not deleted.
Piece3(block, src, added, del, pos, s) ==
    block[s] \o (IF s = pos THEN added ELSE <<>>) \o (IF s \notin del THEN <<src[s]>> ELSE <<>>)
Assembles(src, n, block, added, del, pos) ==
    /\ IsSeq(src) /\ n = Len(src) /\ DOMAIN src = 1..n
    /\ IsSeq(added) /\ (\A s \in 1..n : IsSeq(block[s])) /\ pos \in 1..(n + 1)
Assembly(src, n, block, added, del, pos) ==
    FlattenSeq([s \in 1..n |-> Piece3(block, src, added, del, pos, s)]) \o (IF pos > n THEN added ELSE <<>>)

\* What the forms get from it, by where their statements are.
LEMMA AssemblyStmts ==
    ASSUME NEW src, NEW n \in Nat, NEW block, NEW added, NEW del, NEW pos, Assembles(src, n, block, added, del, pos), NEW f
    PROVE  LET asm == Assembly(src, n, block, added, del, pos)
               quiet == \A s \in 1..n : FormStmts(block[s], f) = <<>>
               gone == \A s \in 1..n : IsFormStmt(src[s], f) => s \in del
               stays == \A s \in 1..n : IsFormStmt(src[s], f) => s \notin del
           IN /\ IsSeq(asm)
              /\ quiet /\ stays /\ FormStmts(added, f) = <<>> => FormStmts(asm, f) = FormStmts(src, f)
              /\ \A t \in 1..n : (\A s \in 1..n : s # t => FormStmts(block[s], f) = <<>>) /\ gone /\ FormStmts(added, f) = <<>>
                                   => FormStmts(asm, f) = FormStmts(block[t], f)
              /\ quiet /\ gone => FormStmts(asm, f) = FormStmts(added, f)
<1>. DEFINE quiet == \A s \in 1..n : FormStmts(block[s], f) = <<>>
            gone == \A s \in 1..n : IsFormStmt(src[s], f) => s \in del
            stays == \A s \in 1..n : IsFormStmt(src[s], f) => s \notin del
            New(s) == IF s = pos THEN added ELSE <<>>
            Old(s) == IF s \notin del THEN <<src[s]>> ELSE <<>>
<1>1. IsSeq(<<>>) /\ FormStmts(<<>>, f) = <<>>
  BY SilentEmpty, SilentNone, Zenon DEF IsSilent
<1>2. ASSUME NEW s \in 1..n
      PROVE  /\ IsSeq(block[s]) /\ IsSeq(New(s)) /\ IsSeq(Old(s))
             /\ (s # pos \/ FormStmts(added, f) = <<>>) => FormStmts(New(s), f) = <<>>
             /\ s = pos => FormStmts(New(s), f) = FormStmts(added, f)
             /\ gone => FormStmts(Old(s), f) = <<>>
             /\ stays => FormStmts(Old(s), f) = IF IsFormStmt(src[s], f) THEN <<src[s]>> ELSE <<>>
  <2>1. IsSeq(block[s]) /\ IsSeq(added)
    BY DEF Assembles
  <2>2. PICK x : x = src[s]
    OBVIOUS
  <2>3. IsSeq(<<x>>) /\ FormStmts(<<x>>, f) = IF IsFormStmt(x, f) THEN <<x>> ELSE <<>>
    BY FormStmtsOne, Zenon
  <2>4. CASE s \in del
    <3>1. Old(s) = <<>>
      BY <2>4
    <3>2. stays => ~IsFormStmt(src[s], f)
      BY <2>4
    <3>. QED BY <1>1, <2>1, <3>1, <3>2
  <2>5. CASE s \notin del
    <3>1. Old(s) = <<x>>
      BY <2>2, <2>5
    <3>2. gone => ~IsFormStmt(x, f)
      BY <2>2, <2>5
    <3>. QED BY <1>1, <2>1, <2>2, <2>3, <3>1, <3>2
  <2>. QED BY <2>4, <2>5
<1>3. PICK p : p = [s \in 1..n |-> Piece3(block, src, added, del, pos, s)]
  OBVIOUS
<1>4. Pieces(p, n) /\ \A s \in 1..n : p[s] = Piece3(block, src, added, del, pos, s)
  BY <1>3, Zenon DEF Pieces
<1>5. ASSUME NEW s \in 1..n
      PROVE  /\ IsSeq(p[s])
             /\ FormStmts(block[s], f) = <<>> /\ FormStmts(New(s), f) = <<>> => FormStmts(p[s], f) = FormStmts(Old(s), f)
             /\ FormStmts(New(s), f) = <<>> /\ FormStmts(Old(s), f) = <<>> => FormStmts(p[s], f) = FormStmts(block[s], f)
             /\ FormStmts(block[s], f) = <<>> /\ FormStmts(Old(s), f) = <<>> => FormStmts(p[s], f) = FormStmts(New(s), f)
  <2>1. PICK b, w, o, a : b = block[s] /\ w = New(s) /\ o = Old(s) /\ a = b \o w
    OBVIOUS
  <2>2. IsSeq(b) /\ IsSeq(w) /\ IsSeq(o) /\ Joined(a, b, w)
    BY <1>2, <2>1 DEF Joined
  <2>3. p[s] = a \o o
    BY <1>4, <2>1, Zenon DEF Piece3
  <2>4. PICK z : z = p[s] /\ Joined(z, a, o)
    BY <2>3 DEF Joined
  <2>. HIDE DEF New, Old
  <2>5. /\ IsSeq(a)
        /\ FormStmts(b, f) = <<>> => FormStmts(a, f) = FormStmts(w, f)
        /\ FormStmts(w, f) = <<>> => FormStmts(a, f) = FormStmts(b, f)
    BY <2>2, FormStmtsEnds
  <2>6. /\ IsSeq(z)
        /\ FormStmts(a, f) = <<>> => FormStmts(z, f) = FormStmts(o, f)
        /\ FormStmts(o, f) = <<>> => FormStmts(z, f) = FormStmts(a, f)
    BY <2>2, <2>4, <2>5, FormStmtsEnds
  <2>. QED BY <2>1, <2>4, <2>5, <2>6
<1>. HIDE DEF New, Old
<1>6. PICK x, y, r : x = FlattenSeq(p) /\ y = (IF pos > n THEN added ELSE <<>>) /\ r = x \o y
  OBVIOUS
<1>7. r = Assembly(src, n, block, added, del, pos)
  BY <1>3, <1>6, Zenon DEF Assembly
<1>8. IsSeq(x)
  BY <1>4, <1>5, <1>6, FormStmtsJoin
<1>9. IsSeq(y) /\ Joined(r, x, y)
  BY <1>1, <1>6 DEF Assembles, Joined
<1>10. /\ IsSeq(r)
       /\ FormStmts(x, f) = <<>> => FormStmts(r, f) = FormStmts(y, f)
       /\ FormStmts(y, f) = <<>> => FormStmts(r, f) = FormStmts(x, f)
  BY <1>8, <1>9, FormStmtsEnds
<1>11. (pos <= n \/ FormStmts(added, f) = <<>>) => FormStmts(y, f) = <<>>
  <2>1. pos \in Int
    BY DEF Assembles
  <2>. QED BY <1>1, <1>6, <2>1
<1>12. ASSUME quiet, stays, FormStmts(added, f) = <<>> PROVE FormStmts(r, f) = FormStmts(src, f)
  <2>1. ASSUME NEW s \in 1..n
        PROVE  IsSeq(p[s]) /\ FormStmts(p[s], f) = IF IsFormStmt(src[s], f) THEN <<src[s]>> ELSE <<>>
    <3>1. FormStmts(block[s], f) = <<>> /\ FormStmts(New(s), f) = <<>>
      BY <1>2, <1>12
    <3>2. FormStmts(Old(s), f) = IF IsFormStmt(src[s], f) THEN <<src[s]>> ELSE <<>>
      <4>. HIDE DEF stays
      <4>. QED BY <1>2, <1>12
    <3>. QED BY <1>5, <3>1, <3>2
  <2>2. IsSeq(src) /\ n = Len(src)
    BY DEF Assembles
  <2>3. FormStmts(FlattenSeq(p), f) = FormStmts(src, f)
    <3>. HIDE DEF quiet, stays, gone
    <3>1. \A s \in 1..n : IsSeq(p[s]) /\ FormStmts(p[s], f) = IF IsFormStmt(src[s], f) THEN <<src[s]>> ELSE <<>>
      BY <2>1
    <3>. QED BY <1>4, <2>2, <3>1, FormStmtsKept
  <2>. QED BY <1>6, <1>10, <1>11, <1>12, <2>3
<1>13. ASSUME NEW t \in 1..n, \A s \in 1..n : s # t => FormStmts(block[s], f) = <<>>, gone, FormStmts(added, f) = <<>>
       PROVE  FormStmts(r, f) = FormStmts(block[t], f)
  <2>1. \A s \in 1..n : FormStmts(New(s), f) = <<>> /\ FormStmts(Old(s), f) = <<>>
    <3>. HIDE DEF gone
    <3>. QED BY <1>2, <1>13
  <2>2. \A s \in 1..n : FormStmts(p[s], f) = FormStmts(block[s], f)
    BY <1>5, <2>1
  <2>3. \A s \in 1..n : s # t => FormStmts(p[s], f) = <<>>
    BY <1>13, <2>2
  <2>4. FormStmts(FlattenSeq(p), f) = FormStmts(p[t], f)
    <3>. HIDE DEF quiet, stays, gone
    <3>1. \A s \in 1..n : IsSeq(p[s])
      BY <1>5
    <3>. QED BY <1>4, <2>3, <3>1, FormStmtsJoinOne, Zenon
  <2>. QED BY <1>6, <1>10, <1>11, <1>13, <2>2, <2>4
<1>14. ASSUME quiet, gone PROVE FormStmts(r, f) = FormStmts(added, f)
  <2>1. ASSUME NEW s \in 1..n PROVE FormStmts(p[s], f) = FormStmts(New(s), f)
    <3>1. FormStmts(Old(s), f) = <<>>
      <4>. HIDE DEF gone
      <4>. QED BY <1>2, <1>14
    <3>. QED BY <1>5, <1>14, <3>1
  <2>2. \A s \in 1..n : IsSeq(p[s]) /\ (s # pos => FormStmts(p[s], f) = <<>>)
    BY <1>2, <1>5, <2>1
  <2>3. pos \in 1..(n + 1)
    BY DEF Assembles
  <2>4. CASE pos \in 1..n
    <3>1. FormStmts(FlattenSeq(p), f) = FormStmts(p[pos], f)
      <4>. HIDE DEF quiet, stays, gone
      <4>. QED BY <1>4, <2>2, <2>4, FormStmtsJoinOne, Zenon
    <3>2. FormStmts(p[pos], f) = FormStmts(added, f)
      BY <1>2, <2>1, <2>4
    <3>3. pos <= n
      BY <2>4
    <3>. QED BY <1>6, <1>10, <1>11, <3>1, <3>2, <3>3
  <2>5. CASE pos = n + 1
    <3>1. \A s \in 1..n : s # pos
      BY <2>5
    <3>2. \A s \in 1..n : IsSeq(p[s]) /\ FormStmts(p[s], f) = <<>>
      BY <2>2, <3>1
    <3>3. FormStmts(FlattenSeq(p), f) = <<>>
      <4>. HIDE DEF quiet, stays, gone
      <4>. QED BY <1>4, <3>2, FormStmtsJoinOne, Zenon
    <3>4. y = added
      BY <1>6, <2>5
    <3>. QED BY <1>6, <1>10, <3>3, <3>4
  <2>. QED BY <2>3, <2>4, <2>5
<1>. QED BY <1>7, <1>10, <1>12, <1>13, <1>14, Zenon

\* The forms of the document that the source has in no shape.
NewIn(cur, doc) == {k \in DOMAIN doc : ~\E i \in DOMAIN cur : cur[i].name = doc[k].name \/ k = renameIndex(cur, doc)}

\* A form of the document is taken from one form of the source, kept or swapped, or it is new.
LEMMA SpliceMatch ==
    ASSUME NEW src, IsSeq(src), IsClear(src), NEW doc, IsDoc(doc), NamesOnce(doc), NEW cur, cur = Import(src)
    PROVE  /\ \A i, j \in DOMAIN cur, k \in DOMAIN doc : KeepsForm(src, cur, doc, i, k) => ~SwapsForm(src, cur, doc, j, k)
           /\ \A i, j \in DOMAIN cur, k \in DOMAIN doc : SwapsForm(src, cur, doc, i, k) /\ SwapsForm(src, cur, doc, j, k) => i = j
           /\ \A i \in DOMAIN cur, k \in DOMAIN doc : KeepsForm(src, cur, doc, i, k) \/ SwapsForm(src, cur, doc, i, k) => k \notin NewIn(cur, doc)
           /\ \A k \in DOMAIN doc : k \notin NewIn(cur, doc)
                => \E i \in DOMAIN cur : KeepsForm(src, cur, doc, i, k) \/ SwapsForm(src, cur, doc, i, k)
<1>. DEFINE Keeps(i, k) == KeepsForm(src, cur, doc, i, k)
            Swaps(i, k) == SwapsForm(src, cur, doc, i, k)
            Drops(i) == DropsForm(src, cur, doc, i)
<1>1. PICK r : r = renameIndex(cur, doc)
  OBVIOUS
<1>2. IsDoc(cur) /\ NamesOnce(cur)
  BY ImportDoc, ImportHolds
<1>3. ASSUME NEW k \in DOMAIN doc, k = r PROVE Renames(cur, doc, k)
  <2>1. k # 0
    <3>1. PICK m \in Nat : DOMAIN doc = 1..m
      BY SeqPieces, Zenon DEF IsDoc
    <3>. QED BY <3>1
  <2>. QED BY <1>1, <1>2, <1>3, <2>1, RenameIs
<1>4. ASSUME NEW i \in DOMAIN cur, NEW k \in DOMAIN doc, Keeps(i, k)
      PROVE  doc[k].name = cur[i].name /\ Splice(src, cur, doc, i).block = <<>>
  BY <1>4 DEF KeepsForm
<1>5. ASSUME NEW i \in DOMAIN cur, NEW k \in DOMAIN doc, Swaps(i, k)
      PROVE  (doc[k].name = cur[i].name \/ (k = i /\ k = r)) /\ Splice(src, cur, doc, i).block # <<>>
  BY <1>1, <1>5 DEF SwapsForm
<1>6. ASSUME NEW i \in DOMAIN cur, Drops(i)
      PROVE  i # r /\ \A k \in DOMAIN doc : doc[k].name # cur[i].name
  BY <1>1, <1>6 DEF DropsForm
<1>7. ASSUME NEW i \in DOMAIN cur PROVE (\E k \in DOMAIN doc : Keeps(i, k)) \/ (\E k \in DOMAIN doc : Swaps(i, k)) \/ Drops(i)
  BY SpliceCases
<1>. HIDE DEF Keeps, Swaps, Drops
<1>8. ASSUME NEW i \in DOMAIN cur, NEW j \in DOMAIN cur, NEW k \in DOMAIN doc, Keeps(i, k), Swaps(j, k) PROVE FALSE
  <2>1. doc[k].name = cur[i].name /\ i # j
    BY <1>4, <1>5, <1>8
  <2>2. CASE doc[k].name = cur[j].name
    BY <1>2, <2>1, <2>2 DEF NamesOnce
  <2>3. CASE k = r
    BY <1>3, <2>1, <2>3 DEF Renames
  <2>. QED BY <1>5, <1>8, <2>2, <2>3
<1>9. ASSUME NEW i \in DOMAIN cur, NEW j \in DOMAIN cur, NEW k \in DOMAIN doc, Swaps(i, k), Swaps(j, k) PROVE i = j
  <2>1. CASE k = r
    <3>1. doc[k].name # cur[i].name /\ doc[k].name # cur[j].name
      BY <1>3, <2>1 DEF Renames
    <3>. QED BY <1>5, <1>9, <3>1
  <2>2. CASE k # r
    BY <1>2, <1>5, <1>9, <2>2 DEF NamesOnce
  <2>. QED BY <2>1, <2>2
<1>10. ASSUME NEW i \in DOMAIN cur, NEW k \in DOMAIN doc, Keeps(i, k) \/ Swaps(i, k) PROVE k \notin NewIn(cur, doc)
  BY <1>1, <1>4, <1>5, <1>10 DEF NewIn
<1>11. ASSUME NEW k \in DOMAIN doc, k \notin NewIn(cur, doc) PROVE \E i \in DOMAIN cur : Keeps(i, k) \/ Swaps(i, k)
  <2>1. CASE \E i \in DOMAIN cur : cur[i].name = doc[k].name
    <3>1. PICK i \in DOMAIN cur : cur[i].name = doc[k].name
      BY <2>1
    <3>2. \A x \in DOMAIN doc : doc[x].name = cur[i].name => x = k
      BY <3>1 DEF NamesOnce
    <3>3. CASE \E x \in DOMAIN doc : Keeps(i, x)
      BY <1>4, <3>2, <3>3
    <3>4. CASE \E x \in DOMAIN doc : Swaps(i, x)
      <4>1. PICK x \in DOMAIN doc : Swaps(i, x)
        BY <3>4
      <4>2. ~(x = i /\ x = r)
        BY <1>3, <3>1 DEF Renames
      <4>. QED BY <1>5, <3>2, <4>1, <4>2
    <3>. QED BY <1>6, <1>7, <3>1, <3>3, <3>4
  <2>2. CASE k = r
    <3>1. Renames(cur, doc, k)
      BY <1>3, <2>2
    <3>2. k \in DOMAIN cur /\ \A x \in DOMAIN doc : doc[x].name # cur[k].name
      BY <3>1 DEF Renames
    <3>3. PICK x \in DOMAIN doc : Keeps(k, x) \/ Swaps(k, x)
      BY <1>6, <1>7, <2>2, <3>2
    <3>4. x = k
      BY <1>4, <1>5, <3>2, <3>3
    <3>. QED BY <3>2, <3>3, <3>4
  <2>. QED BY <1>1, <1>11, <2>1, <2>2 DEF NewIn
<1>. QED BY <1>8, <1>9, <1>10, <1>11 DEF Keeps, Swaps

\* How the pieces of the rebuilt source come from the forms.
RebuiltFrom(src, cur, doc, n, block, added, del) ==
    /\ added = AllForms(At(doc, NewIn(cur, doc)))
    /\ \A s : s \in del <=> \E i \in DOMAIN cur : s \in Splice(src, cur, doc, i).drop
    /\ \A s \in 1..n :
          \/ block[s] = <<>> /\ \A i \in DOMAIN cur : Splice(src, cur, doc, i).block # <<>> => s # Min(Owned(src, cur[i].name))
          \/ \E i \in DOMAIN cur : /\ Splice(src, cur, doc, i).block # <<>> /\ s = Min(Owned(src, cur[i].name))
                                   /\ block[s] = Splice(src, cur, doc, i).block

LEMMA RebuildIs ==
    ASSUME NEW src, IsSeq(src), NEW doc, IsDoc(doc), src # <<>>, Import(src) # <<>>
    PROVE  \E n \in Nat : \E block, added, del, pos :
             /\ Assembles(src, n, block, added, del, pos) /\ RebuildLua(src, doc) = Assembly(src, n, block, added, del, pos)
             /\ RebuiltFrom(src, Import(src), doc, n, block, added, del)
<1>. DEFINE cur == Import(src)
            splice == [i \in DOMAIN cur |-> Splice(src, cur, doc, i)]
            del == UNION {splice[i].drop : i \in DOMAIN cur}
            From(s) == {i \in DOMAIN cur : splice[i].block # <<>> /\ s = Min(Owned(src, cur[i].name))}
            news == At(doc, {k \in DOMAIN doc : ~\E i \in DOMAIN cur : cur[i].name = doc[k].name \/ k = renameIndex(cur, doc)})
            added == AllForms(news)
            after == Max(UNION {Owned(src, cur[i].name) : i \in DOMAIN cur})
            rest == {s \in DOMAIN src : s > after /\ s \notin del}
            kept == {s \in DOMAIN src : s <= after /\ s \notin del}
            pos == IF rest # {} THEN Min(rest) ELSE IF kept # {} THEN Max(kept) + 1 ELSE Len(src) + 1
            Block(s) == IF From(s) # {} THEN splice[CHOOSE i \in From(s) : TRUE].block ELSE <<>>
            Piece(s) == Block(s) \o (IF s = pos THEN added ELSE <<>>) \o (IF s \notin del THEN <<src[s]>> ELSE <<>>)
            tail == IF pos > Len(src) THEN added ELSE <<>>
<1>1. RebuildLua(src, doc) = FlattenSeq([s \in DOMAIN src |-> Piece(s)]) \o tail
  BY Zenon DEF RebuildLua
<1>2. IsDoc(cur)
  BY ImportDoc, Zenon
<1>3. splice = [i \in DOMAIN cur |-> Splice(src, cur, doc, i)]
  BY Zenon
<1>4. added = AllForms(At(doc, NewIn(cur, doc)))
  BY Zenon DEF NewIn
<1>5. IsSeq(added)
  <2>1. IsDoc(news)
    BY AtDoc, Zenon
  <2>. HIDE DEF news
  <2>. QED BY <2>1, GeneratedForms, Zenon DEF IsGen
<1>. HIDE DEF cur, splice, news, added, after
<1>6. \A i \in DOMAIN cur : splice[i] = Splice(src, cur, doc, i)
  BY <1>3, Zenon
<1>7. PICK n \in Nat : n = Len(src) /\ DOMAIN src = 1..n
  BY SeqPieces
<1>8. PICK block : block = [s \in 1..n |-> Block(s)]
  OBVIOUS
<1>9. \A s \in 1..n : block[s] = Block(s)
  BY <1>8, Zenon
<1>10. \A s : s \in del <=> \E i \in DOMAIN cur : s \in Splice(src, cur, doc, i).drop
  BY <1>6
<1>. HIDE DEF del
<1>11. pos \in 1..(n + 1)
  <2>1. PICK a, b : a = rest /\ b = kept
    OBVIOUS
  <2>2. a \in SUBSET (1..n) /\ b \in SUBSET (1..n)
    BY <1>7, <2>1
  <2>. HIDE DEF rest, kept
  <2>3. (a # {} => Min(a) \in a) /\ (b # {} => Max(b) \in b)
    BY <2>2, MinIn, MaxIn
  <2>4. pos = IF a # {} THEN Min(a) ELSE IF b # {} THEN Max(b) + 1 ELSE n + 1
    BY <1>7, <2>1, Zenon
  <2>5. (a # {} => Min(a) \in 1..n) /\ (b # {} => Max(b) \in 1..n)
    BY <2>2, <2>3
  <2>. QED BY <2>4, <2>5
<1>. HIDE DEF pos
<1>12. ASSUME NEW s \in 1..n
       PROVE  \/ block[s] = <<>> /\ \A i \in DOMAIN cur : Splice(src, cur, doc, i).block # <<>> => s # Min(Owned(src, cur[i].name))
              \/ \E i \in DOMAIN cur : /\ Splice(src, cur, doc, i).block # <<>> /\ s = Min(Owned(src, cur[i].name))
                                       /\ block[s] = Splice(src, cur, doc, i).block
  <2>1. CASE From(s) # {}
    <3>1. PICK i : i = (CHOOSE x \in From(s) : TRUE)
      OBVIOUS
    <3>2. i \in From(s)
      BY <2>1, <3>1, Zenon
    <3>3. i \in DOMAIN cur /\ splice[i].block # <<>> /\ s = Min(Owned(src, cur[i].name))
      BY <3>2
    <3>4. block[s] = splice[i].block
      BY <1>9, <2>1, <3>1, Zenon
    <3>. QED BY <1>6, <3>3, <3>4, Zenon
  <2>2. CASE From(s) = {}
    <3>1. block[s] = <<>>
      BY <1>9, <2>2, Zenon
    <3>2. \A i \in DOMAIN cur : splice[i].block # <<>> => s # Min(Owned(src, cur[i].name))
      BY <2>2
    <3>. QED BY <1>6, <3>1, <3>2, Zenon
  <2>. QED BY <2>1, <2>2, Zenon
<1>13. \A i \in DOMAIN cur : IsSeq(Splice(src, cur, doc, i).block)
  BY <1>2, Spliced, Zenon DEF IsGen
<1>14. \A s \in 1..n : IsSeq(block[s])
  BY <1>12, <1>13, EmptyDoc, Zenon
<1>15. Assembles(src, n, block, added, del, pos)
  BY <1>5, <1>7, <1>11, <1>14, Zenon DEF Assembles
<1>16. RebuiltFrom(src, cur, doc, n, block, added, del)
  BY <1>4, <1>10, <1>12, Zenon DEF RebuiltFrom
<1>17. \A s \in 1..n : Piece(s) = Piece3(block, src, added, del, pos, s)
  BY <1>9, Zenon DEF Piece3
<1>. HIDE DEF Piece, Block
<1>18. [s \in DOMAIN src |-> Piece(s)] = [s \in 1..n |-> Piece3(block, src, added, del, pos, s)]
  BY <1>7, <1>17, Zenon
<1>19. tail = IF pos > n THEN added ELSE <<>>
  BY <1>7, Zenon
<1>. HIDE DEF tail
<1>20. RebuildLua(src, doc) = Assembly(src, n, block, added, del, pos)
  BY <1>1, <1>18, <1>19, Zenon DEF Assembly
<1>. QED BY <1>15, <1>16, <1>20, Zenon DEF cur

LEMMA FormStmtsNone == ASSUME NEW src, IsSeq(src), NEW f, NEW i \in DOMAIN src, IsFormStmt(src[i], f) PROVE FormStmts(src, f) # <<>>
<1>1. PICK R, W : R = Range(src) /\ W = {x \in R : IsFormStmt(x, f)}
  OBVIOUS
<1>2. src \in Seq(R) /\ src[i] \in W
  BY <1>1 DEF IsSeq, Range
<1>3. FormStmts(src, f) = Filter(src, W)
  BY <1>1, Zenon DEF FormStmts
<1>4. Filter(src, W) # <<>>
  BY <1>2, FilterLeads DEF Leads
<1>. QED BY <1>3, <1>4

\* Which statements of the rebuilt source are a form's.
RebuiltForm(src, cur, doc, n, block, added, del, f) ==
    /\ \A i \in DOMAIN cur, k \in DOMAIN doc : cur[i].name = f /\ KeepsForm(src, cur, doc, i, k)
         => \A s \in 1..n : IsFormStmt(src[s], f) => s \notin del
    /\ (\A i \in DOMAIN cur, k \in DOMAIN doc : cur[i].name = f => ~KeepsForm(src, cur, doc, i, k))
         => \A s \in 1..n : IsFormStmt(src[s], f) => s \in del
    /\ \A s \in 1..n : FormStmts(block[s], f) # <<>>
         => \E i \in DOMAIN cur, k \in DOMAIN doc : doc[k].name = f /\ SwapsForm(src, cur, doc, i, k) /\ s = Min(Owned(src, cur[i].name))
    /\ \A i \in DOMAIN cur, k \in DOMAIN doc : doc[k].name = f /\ SwapsForm(src, cur, doc, i, k)
         => Min(Owned(src, cur[i].name)) \in 1..n /\ FormStmts(block[Min(Owned(src, cur[i].name))], f) = Constructed(doc[k])
    /\ \A k \in DOMAIN doc : doc[k].name = f /\ k \in NewIn(cur, doc) => FormStmts(added, f) = Constructed(doc[k])
    /\ (\A k \in DOMAIN doc : doc[k].name = f => k \notin NewIn(cur, doc)) => FormStmts(added, f) = <<>>

LEMMA RebuiltStmts ==
    ASSUME NEW src, IsSeq(src), IsClear(src), NEW doc, IsDoc(doc), NamesOnce(doc), NEW cur, cur = Import(src),
           NEW n \in Nat, NEW block, NEW added, NEW del, NEW pos, Assembles(src, n, block, added, del, pos),
           RebuiltFrom(src, cur, doc, n, block, added, del), NEW f
    PROVE  RebuiltForm(src, cur, doc, n, block, added, del, f)
<1>. DEFINE Keeps(i, k) == KeepsForm(src, cur, doc, i, k)
            Swaps(i, k) == SwapsForm(src, cur, doc, i, k)
            Drops(i) == DropsForm(src, cur, doc, i)
            Sp(i) == Splice(src, cur, doc, i)
            Own(i) == Owned(src, cur[i].name)
<1>1. IsDoc(cur) /\ NamesOnce(cur) /\ SourceHolds(src, cur) /\ \A i \in DOMAIN cur : Constructs(src, cur[i].name, Min(Own(i)))
  BY ImportDoc, ImportHolds
<1>2. n = Len(src) /\ DOMAIN src = 1..n
  BY DEF Assembles
<1>3. ASSUME NEW i \in DOMAIN cur PROVE (\E k \in DOMAIN doc : Keeps(i, k)) \/ (\E k \in DOMAIN doc : Swaps(i, k)) \/ Drops(i)
  BY SpliceCases
<1>4. \A i \in DOMAIN cur, k \in DOMAIN doc : Keeps(i, k) => Sp(i).drop = {} /\ Sp(i).block = <<>>
  BY DEF KeepsForm
<1>5. \A i \in DOMAIN cur, k \in DOMAIN doc : Swaps(i, k) =>
        /\ Sp(i).drop = Own(i) /\ Sp(i).block # <<>>
        /\ FormStmts(Sp(i).block, f) = IF f = doc[k].name THEN Constructed(doc[k]) ELSE <<>>
  BY DEF SwapsForm
<1>6. \A i \in DOMAIN cur : Drops(i) => Sp(i).drop = Own(i) /\ Sp(i).block = <<>>
  BY DEF DropsForm
<1>7. \A s : s \in del <=> \E i \in DOMAIN cur : s \in Sp(i).drop
  BY DEF RebuiltFrom
<1>8. \A s \in 1..n :
          \/ block[s] = <<>> /\ \A i \in DOMAIN cur : Sp(i).block # <<>> => s # Min(Own(i))
          \/ \E i \in DOMAIN cur : Sp(i).block # <<>> /\ s = Min(Own(i)) /\ block[s] = Sp(i).block
  BY Zenon DEF RebuiltFrom
<1>9. added = AllForms(At(doc, NewIn(cur, doc)))
  BY DEF RebuiltFrom
<1>10. ASSUME NEW i \in DOMAIN cur, NEW s \in Own(i), NEW g, IsFormStmt(src[s], g) PROVE g = cur[i].name
  <2>1. IsOnce(FormStmts(src, cur[i].name))
    BY DEF IsClear
  <2>2. src[s].stmt \in {"new", "ctrl"} => IsFormStmt(src[s], cur[i].name)
    BY <2>1, OwnedIs, Zenon
  <2>. QED BY <1>10, <2>2 DEF IsFormStmt
<1>11. ASSUME NEW s \in 1..n, NEW g, IsFormStmt(src[s], g) PROVE \E i \in DOMAIN cur : cur[i].name = g /\ s \in Own(i)
  <2>1. FormStmts(src, g) # <<>>
    BY <1>2, <1>11, FormStmtsNone
  <2>2. PICK i \in DOMAIN cur : cur[i].name = g
    BY <1>1, <2>1 DEF SourceHolds
  <2>3. Constructs(src, cur[i].name, Min(Own(i)))
    BY <1>1
  <2>. QED BY <1>2, <1>11, <2>2, <2>3 DEF Constructs
<1>12. FormStmts(<<>>, f) = <<>>
  BY SilentEmpty, SilentNone, Zenon
<1>. HIDE DEF Keeps, Swaps, Drops, Sp
<1>13. ASSUME NEW i \in DOMAIN cur, NEW k \in DOMAIN doc, cur[i].name = f, Keeps(i, k), NEW s \in 1..n, IsFormStmt(src[s], f)
       PROVE  s \notin del
  <2>1. SUFFICES ASSUME s \in del PROVE FALSE
    OBVIOUS
  <2>2. PICK j \in DOMAIN cur : s \in Sp(j).drop
    BY <1>7, <2>1
  <2>3. s \in Own(j)
    <3>. HIDE DEF Own
    <3>. QED BY <1>3, <1>4, <1>5, <1>6, <2>2
  <2>4. f = cur[j].name
    BY <1>10, <1>13, <2>3
  <2>5. i = j
    BY <1>1, <1>13, <2>4 DEF NamesOnce
  <2>. QED BY <1>4, <1>13, <2>2, <2>5
<1>14. ASSUME \A i \in DOMAIN cur, k \in DOMAIN doc : cur[i].name = f => ~Keeps(i, k), NEW s \in 1..n, IsFormStmt(src[s], f)
       PROVE  s \in del
  <2>1. PICK i \in DOMAIN cur : cur[i].name = f /\ s \in Own(i)
    BY <1>11, <1>14
  <2>2. Sp(i).drop = Own(i)
    <3>. HIDE DEF Own
    <3>. QED BY <1>3, <1>5, <1>6, <1>14, <2>1
  <2>. QED BY <1>7, <2>1, <2>2
<1>15. ASSUME NEW s \in 1..n, FormStmts(block[s], f) # <<>>
       PROVE  \E i \in DOMAIN cur, k \in DOMAIN doc : doc[k].name = f /\ Swaps(i, k) /\ s = Min(Own(i))
  <2>. HIDE DEF Own
  <2>1. PICK i \in DOMAIN cur : Sp(i).block # <<>> /\ s = Min(Own(i)) /\ block[s] = Sp(i).block
    BY <1>8, <1>12, <1>15
  <2>2. PICK k \in DOMAIN doc : Swaps(i, k)
    BY <1>3, <1>4, <1>6, <2>1
  <2>3. doc[k].name = f
    BY <1>5, <1>15, <2>1, <2>2
  <2>. QED BY <2>1, <2>2, <2>3
<1>16. ASSUME NEW i \in DOMAIN cur, NEW k \in DOMAIN doc, doc[k].name = f, Swaps(i, k)
       PROVE  Min(Own(i)) \in 1..n /\ FormStmts(block[Min(Own(i))], f) = Constructed(doc[k])
  <2>1. PICK s : s = Min(Own(i))
    OBVIOUS
  <2>2. s \in 1..n /\ s \in Own(i) /\ IsFormStmt(src[s], cur[i].name)
    BY <1>1, <1>2, <2>1 DEF Constructs
  <2>3. Sp(i).block # <<>> /\ FormStmts(Sp(i).block, f) = Constructed(doc[k])
    BY <1>5, <1>16
  <2>4. PICK j \in DOMAIN cur : s = Min(Own(j)) /\ block[s] = Sp(j).block
    <3>. HIDE DEF Own
    <3>. QED BY <1>8, <2>1, <2>2, <2>3
  <2>5. IsFormStmt(src[s], cur[j].name)
    BY <1>1, <2>4 DEF Constructs
  <2>6. cur[i].name = cur[j].name
    BY <2>2, <2>5 DEF IsFormStmt
  <2>7. i = j
    BY <1>1, <2>6 DEF NamesOnce
  <2>. QED BY <2>1, <2>2, <2>3, <2>4, <2>7
<1>17. PICK K, new : K = NewIn(cur, doc) /\ new = At(doc, K)
  OBVIOUS
<1>18. /\ IsDoc(new) /\ NamesOnce(new)
       /\ \A j \in DOMAIN new : \E k \in DOMAIN doc : k \in K /\ new[j] = doc[k]
       /\ \A k \in DOMAIN doc : k \in K => \E j \in DOMAIN new : new[j] = doc[k]
  BY <1>17, AtForms
<1>19. /\ \A j \in DOMAIN new : new[j].name = f => FormStmts(added, f) = Constructed(new[j])
       /\ (\A j \in DOMAIN new : new[j].name # f) => FormStmts(added, f) = <<>>
  <2>1. added = AllForms(new)
    BY <1>9, <1>17
  <2>. QED BY <1>18, <2>1, AllFormsStmts
<1>20. \A k \in DOMAIN doc : doc[k].name = f /\ k \in NewIn(cur, doc) => FormStmts(added, f) = Constructed(doc[k])
  BY <1>17, <1>18, <1>19
<1>21. (\A k \in DOMAIN doc : doc[k].name = f => k \notin NewIn(cur, doc)) => FormStmts(added, f) = <<>>
  <2>1. SUFFICES ASSUME \A k \in DOMAIN doc : doc[k].name = f => k \notin NewIn(cur, doc) PROVE \A j \in DOMAIN new : new[j].name # f
    BY <1>19
  <2>. QED BY <1>17, <1>18, <2>1
<1>. QED BY <1>13, <1>14, <1>15, <1>16, <1>20, <1>21, Zenon DEF Keeps, Swaps, RebuiltForm

\* What a save writes has the forms of the document, as the document has them, and no others.
LEMMA RebuildHolds ==
    ASSUME NEW src, IsSeq(src), IsClear(src), NEW doc, IsDoc(doc), NamesOnce(doc)
    PROVE  SourceHolds(RebuildLua(src, doc), doc)
<1>1. ASSUME NEW out, NEW f, NEW k \in DOMAIN doc, FormStmts(out, f) = Constructed(doc[k]) PROVE ReadsAs(FormStmts(out, f), doc[k])
  BY <1>1, ConstructedReads DEF IsDoc
<1>2. ASSUME NEW f
      PROVE  /\ IsSeq(AllForms(doc))
             /\ \A k \in DOMAIN doc : doc[k].name = f => FormStmts(AllForms(doc), f) = Constructed(doc[k])
             /\ (\A k \in DOMAIN doc : doc[k].name # f) => FormStmts(AllForms(doc), f) = <<>>
  BY AllFormsStmts
<1>3. PICK all, out : all = AllForms(doc) /\ out = RebuildLua(src, doc)
  OBVIOUS
<1>4. ASSUME \A f : FormStmts(out, f) = FormStmts(all, f) PROVE SourceHolds(out, doc)
  BY <1>1, <1>2, <1>3, <1>4 DEF SourceHolds
<1>5. CASE src = <<>>
  <2>1. PICK c, a : c = Comment("generated") /\ a = <<c>>
    OBVIOUS
  <2>2. out = a \o all
    BY <1>3, <1>5, <2>1, Zenon DEF RebuildLua, ExportLua
  <2>3. ASSUME NEW f PROVE FormStmts(out, f) = FormStmts(all, f)
    <3>1. ~IsFormStmt(c, f)
      BY <2>1 DEF IsFormStmt, Comment, Stmt
    <3>2. IsSeq(a) /\ FormStmts(a, f) = <<>>
      BY <2>1, <3>1, FormStmtsOne, Zenon
    <3>3. Joined(out, a, all) /\ IsSeq(all)
      BY <1>2, <1>3, <2>2 DEF Joined
    <3>. QED BY <3>2, <3>3, FormStmtsEnds
  <2>. QED BY <1>3, <1>4, <2>3
<1>6. CASE src # <<>> /\ Import(src) = <<>>
  <2>1. out = src \o all
    BY <1>3, <1>6, Zenon DEF RebuildLua, appendMainToScript
  <2>2. SourceHolds(src, <<>>)
    BY <1>6, ImportHolds
  <2>3. ASSUME NEW f PROVE FormStmts(out, f) = FormStmts(all, f)
    <3>1. FormStmts(src, f) = <<>>
      BY <2>2 DEF SourceHolds
    <3>2. Joined(out, src, all) /\ IsSeq(all)
      BY <1>2, <1>3, <2>1 DEF Joined
    <3>. QED BY <3>1, <3>2, FormStmtsEnds
  <2>. QED BY <1>3, <1>4, <2>3
<1>7. CASE src # <<>> /\ Import(src) # <<>>
  <2>1. PICK cur : cur = Import(src)
    OBVIOUS
  <2>2. PICK n, block, added, del, pos :
             /\ n \in Nat /\ Assembles(src, n, block, added, del, pos) /\ out = Assembly(src, n, block, added, del, pos)
             /\ RebuiltFrom(src, cur, doc, n, block, added, del)
    BY <1>3, <1>7, <2>1, RebuildIs
  <2>. DEFINE Keeps(i, k) == KeepsForm(src, cur, doc, i, k)
              Swaps(i, k) == SwapsForm(src, cur, doc, i, k)
              Lead(i) == Min(Owned(src, cur[i].name))
              Quiet(f) == \A s \in 1..n : FormStmts(block[s], f) = <<>>
              Gone(f) == \A s \in 1..n : IsFormStmt(src[s], f) => s \in del
              Stays(f) == \A s \in 1..n : IsFormStmt(src[s], f) => s \notin del
  <2>3. ASSUME NEW f
        PROVE  /\ Quiet(f) /\ Stays(f) /\ FormStmts(added, f) = <<>> => FormStmts(out, f) = FormStmts(src, f)
               /\ \A t \in 1..n : (\A s \in 1..n : s # t => FormStmts(block[s], f) = <<>>) /\ Gone(f) /\ FormStmts(added, f) = <<>>
                                   => FormStmts(out, f) = FormStmts(block[t], f)
               /\ Quiet(f) /\ Gone(f) => FormStmts(out, f) = FormStmts(added, f)
    BY <2>2, AssemblyStmts
  <2>4. ASSUME NEW f
        PROVE  /\ \A i \in DOMAIN cur, k \in DOMAIN doc : cur[i].name = f /\ Keeps(i, k) => Stays(f)
               /\ (\A i \in DOMAIN cur, k \in DOMAIN doc : cur[i].name = f => ~Keeps(i, k)) => Gone(f)
               /\ \A s \in 1..n : FormStmts(block[s], f) # <<>>
                    => \E i \in DOMAIN cur, k \in DOMAIN doc : doc[k].name = f /\ Swaps(i, k) /\ s = Lead(i)
               /\ \A i \in DOMAIN cur, k \in DOMAIN doc : doc[k].name = f /\ Swaps(i, k)
                    => Lead(i) \in 1..n /\ FormStmts(block[Lead(i)], f) = Constructed(doc[k])
               /\ \A k \in DOMAIN doc : doc[k].name = f /\ k \in NewIn(cur, doc) => FormStmts(added, f) = Constructed(doc[k])
               /\ (\A k \in DOMAIN doc : doc[k].name = f => k \notin NewIn(cur, doc)) => FormStmts(added, f) = <<>>
    <3>1. RebuiltForm(src, cur, doc, n, block, added, del, f)
      BY <2>1, <2>2, RebuiltStmts, Zenon
    <3>. QED BY <3>1, Zenon DEF RebuiltForm
  <2>5. /\ \A i, j \in DOMAIN cur, k \in DOMAIN doc : Keeps(i, k) => ~Swaps(j, k)
        /\ \A i, j \in DOMAIN cur, k \in DOMAIN doc : Swaps(i, k) /\ Swaps(j, k) => i = j
        /\ \A i \in DOMAIN cur, k \in DOMAIN doc : Keeps(i, k) \/ Swaps(i, k) => k \notin NewIn(cur, doc)
        /\ \A k \in DOMAIN doc : k \notin NewIn(cur, doc) => \E i \in DOMAIN cur : Keeps(i, k) \/ Swaps(i, k)
    BY <2>1, SpliceMatch
  <2>6. \A i \in DOMAIN cur, k \in DOMAIN doc : Keeps(i, k) => doc[k].name = cur[i].name /\ ReadsAs(FormStmts(src, cur[i].name), doc[k])
    BY DEF KeepsForm
  <2>. HIDE DEF Keeps, Swaps, Lead, Stays, Gone
  <2>7. ASSUME NEW f, \A k \in DOMAIN doc : doc[k].name # f PROVE FormStmts(out, f) = <<>>
    <3>1. Quiet(f) /\ Gone(f) /\ FormStmts(added, f) = <<>>
      BY <2>4, <2>6, <2>7
    <3>. QED BY <2>3, <3>1
  <2>8. ASSUME NEW k \in DOMAIN doc PROVE ReadsAs(FormStmts(out, doc[k].name), doc[k])
    <3>1. PICK f : f = doc[k].name
      OBVIOUS
    <3>2. \A x \in DOMAIN doc : doc[x].name = f => x = k
      BY <3>1 DEF NamesOnce
    <3>3. CASE \E i \in DOMAIN cur : Keeps(i, k)
      <4>1. PICK i \in DOMAIN cur : Keeps(i, k)
        BY <3>3
      <4>2. cur[i].name = f /\ ReadsAs(FormStmts(src, f), doc[k])
        BY <2>6, <3>1, <4>1
      <4>3. ASSUME NEW s \in 1..n, FormStmts(block[s], f) # <<>> PROVE FALSE
        <5>1. PICK j \in DOMAIN cur, x \in DOMAIN doc : doc[x].name = f /\ Swaps(j, x)
          BY <2>4, <4>3
        <5>. QED BY <2>5, <3>2, <4>1, <5>1
      <4>4. Stays(f)
        BY <2>4, <4>1, <4>2
      <4>5. FormStmts(added, f) = <<>>
        BY <2>4, <2>5, <3>2, <4>1
      <4>. QED BY <2>3, <3>1, <4>2, <4>3, <4>4, <4>5
    <3>4. CASE \E i \in DOMAIN cur : Swaps(i, k)
      <4>1. PICK i \in DOMAIN cur : Swaps(i, k)
        BY <3>4
      <4>2. Lead(i) \in 1..n /\ FormStmts(block[Lead(i)], f) = Constructed(doc[k])
        BY <2>4, <3>1, <4>1
      <4>3. ASSUME NEW s \in 1..n, s # Lead(i), FormStmts(block[s], f) # <<>> PROVE FALSE
        <5>1. PICK j \in DOMAIN cur, x \in DOMAIN doc : doc[x].name = f /\ Swaps(j, x) /\ s = Lead(j)
          BY <2>4, <4>3
        <5>2. x = k
          BY <3>2, <5>1
        <5>3. i = j
          BY <2>5, <4>1, <5>1, <5>2
        <5>. QED BY <4>3, <5>1, <5>3
      <4>4. Gone(f)
        <5>1. ASSUME NEW j \in DOMAIN cur, NEW x \in DOMAIN doc, cur[j].name = f, Keeps(j, x) PROVE FALSE
          BY <2>5, <2>6, <3>2, <4>1, <5>1
        <5>. QED BY <2>4, <5>1
      <4>5. FormStmts(added, f) = <<>>
        BY <2>4, <2>5, <3>2, <4>1
      <4>6. FormStmts(out, f) = Constructed(doc[k])
        BY <2>3, <4>2, <4>3, <4>4, <4>5
      <4>. QED BY <1>1, <3>1, <4>6
    <3>5. CASE \A i \in DOMAIN cur : ~Keeps(i, k) /\ ~Swaps(i, k)
      <4>1. ASSUME NEW s \in 1..n, FormStmts(block[s], f) # <<>> PROVE FALSE
        <5>1. PICK j \in DOMAIN cur, x \in DOMAIN doc : doc[x].name = f /\ Swaps(j, x)
          BY <2>4, <4>1
        <5>. QED BY <3>2, <3>5, <5>1
      <4>2. Gone(f)
        <5>1. ASSUME NEW j \in DOMAIN cur, NEW x \in DOMAIN doc, cur[j].name = f, Keeps(j, x) PROVE FALSE
          BY <2>6, <3>2, <3>5, <5>1
        <5>. QED BY <2>4, <5>1
      <4>3. FormStmts(added, f) = Constructed(doc[k])
        BY <2>4, <2>5, <3>1, <3>5
      <4>4. FormStmts(out, f) = Constructed(doc[k])
        BY <2>3, <4>1, <4>2, <4>3
      <4>. QED BY <1>1, <3>1, <4>4
    <3>. QED BY <3>3, <3>4, <3>5
  <2>9. SourceHolds(out, doc)
    BY <2>7, <2>8 DEF SourceHolds
  <2>. QED BY <1>3, <2>9
<1>. QED BY <1>5, <1>6, <1>7

LEMMA HoldsClear == ASSUME NEW src, NEW doc, SourceHolds(src, doc) PROVE IsClear(src)
<1>1. SUFFICES ASSUME NEW f, FormStmts(src, f) # <<>> PROVE IsOnce(FormStmts(src, f))
  BY DEF IsClear, IsOnce
<1>2. PICK q, k : q = FormStmts(src, f) /\ k \in DOMAIN doc /\ ReadsAs(q, doc[k])
  BY <1>1 DEF SourceHolds
<1>3. PICK n \in Nat : n = Len(doc[k].ctrls) /\ DOMAIN doc[k].ctrls = 1..n
  BY <1>2, SeqPieces, Zenon DEF ReadsAs
<1>4. DOMAIN q = 1..(n + 1) /\ q[1].stmt = "new" /\ \A i \in 1..n : q[i + 1].stmt = "ctrl"
  BY <1>2, <1>3 DEF ReadsAs
<1>5. ASSUME NEW j \in 1..(n + 1), j # 1 PROVE q[j].stmt = "ctrl"
  <2>1. j - 1 \in 1..n /\ (j - 1) + 1 = j
    BY <1>5
  <2>. QED BY <1>4, <2>1
<1>. QED BY <1>2, <1>4, <1>5 DEF IsOnce

\* As long as no save was disturbed, the forms of the file, and of the text of a save, are those of the document saved.
SavedShape == saved = [on |-> saved.on, doc |-> saved.doc]
SavedHolds ==
    clobbered = {} => /\ IsClear(file.src)
                      /\ saved.on => SourceHolds(file.src, saved.doc)
                      /\ \A t \in Tab : tab[t].pc # "idle" => SourceHolds(tab[t].data, tab[t].sent)
SavedInv == SavedShape /\ SavedHolds

\* The fields of a tab that an assignment to another leaves alone.
TabShape(r) == r = TabRec(r.open, r.doc, r.seen, r.pc, r.sent, r.data, r.where)
SameSave(q, r) == q.sent = r.sent /\ q.data = r.data

LEMMA TabFields ==
    ASSUME NEW r, TabShape(r), NEW x
    PROVE  /\ TabShape([r EXCEPT !.doc = x]) /\ SameSave([r EXCEPT !.doc = x], r) /\ [r EXCEPT !.doc = x].pc = r.pc
           /\ TabShape([r EXCEPT !.pc = x]) /\ SameSave([r EXCEPT !.pc = x], r)
           /\ TabShape([r EXCEPT !.where = x]) /\ SameSave([r EXCEPT !.where = x], r) /\ [r EXCEPT !.where = x].pc = r.pc
<1>1. PICK o, d, s, pc, st, da, w : r = TabRec(o, d, s, pc, st, da, w)
  BY DEF TabShape
<1>2. [r EXCEPT !.doc = x] = TabRec(o, x, s, pc, st, da, w)
  BY <1>1 DEF TabRec
<1>3. [r EXCEPT !.pc = x] = TabRec(o, d, s, x, st, da, w)
  BY <1>1 DEF TabRec
<1>4. [r EXCEPT !.where = x] = TabRec(o, d, s, pc, st, da, x)
  BY <1>1 DEF TabRec
<1>. QED BY <1>1, <1>2, <1>3, <1>4 DEF TabRec, TabShape, SameSave

\* A step of one tab that leaves the file and its save as they are, or ends it.
LEMMA TabSaves ==
    ASSUME BuilderInv, SavedInv, NEW t \in Tab, NEW q, tab' = [tab EXCEPT ![t] = q],
           q.pc = "idle" \/ (tab[t].pc # "idle" /\ SameSave(q, tab[t])), UNCHANGED <<file, clobbered, saved>>
    PROVE  SavedInv'
<1>1. tab'[t] = q /\ \A u \in Tab : u # t => tab'[u] = tab[u]
  BY DEF BuilderInv, BuilderShape
<1>. QED BY <1>1 DEF SavedInv, SavedShape, SavedHolds, SameSave

LEMMA EditSaves == ASSUME BuilderInv, SavedInv, NEW t \in Tab, NEW doc, Edit(t, doc) PROVE SavedInv'
<1>1. PICK r, q : r = tab[t] /\ q = [r EXCEPT !.doc = doc]
  OBVIOUS
<1>2. TabShape(r)
  BY <1>1 DEF BuilderInv, BuilderShape, TabOK, TabShape
<1>3. q.pc = "idle"
  BY <1>1, <1>2, TabFields DEF Edit
<1>4. tab' = [tab EXCEPT ![t] = q]
  <2>1. [tab EXCEPT ![t].doc = doc] = [tab EXCEPT ![t] = [tab[t] EXCEPT !.doc = doc]]
    BY Zenon
  <2>. QED BY <1>1, <2>1, Zenon DEF Edit
<1>5. UNCHANGED <<file, clobbered, saved>>
  BY DEF Edit
<1>. QED BY <1>3, <1>4, <1>5, TabSaves

LEMMA EditsSaves ==
    ASSUME BuilderInv, SavedInv, NEW t \in Tab,
           addForm(t) \/ doDeleteForm(t) \/ wireFormProps(t) \/ addNewControl(t) \/ deleteControl(t) \/ applyCode(t) \/ aiApply(t)
    PROVE  SavedInv'
<1>1. \E doc : Edit(t, doc)
  BY Zenon DEF addForm, doDeleteForm, wireFormProps, addNewControl, deleteControl, applyCode, aiApply
<1>. QED BY <1>1, EditSaves, Zenon

LEMMA GetFormSaves == ASSUME BuilderInv, SavedInv, NEW t \in Tab, getForm(t) PROVE SavedInv'
<1>1. PICK c, y, r, doc, q : c = ClosedTab /\ y = TRUE /\ r = [c EXCEPT !.open = y] /\ doc = load(file.src) /\ q = [r EXCEPT !.doc = doc]
  OBVIOUS
<1>2. PICK no, e, i, w : no = FALSE /\ e = <<>> /\ i = "idle" /\ w = "tmp"
  OBVIOUS
<1>3. r = TabRec(y, e, e, i, e, e, w)
  <2>1. c = TabRec(no, e, e, i, e, e, w)
    BY <1>1, <1>2, Zenon DEF ClosedTab, TabRec
  <2>2. [c EXCEPT !.open = y] = TabRec(y, e, e, i, e, e, w)
    BY <2>1 DEF TabRec
  <2>. QED BY <1>1, <2>2
<1>4. TabShape(r) /\ r.pc = "idle"
  BY <1>2, <1>3 DEF TabShape, TabRec
<1>5. q.pc = "idle"
  BY <1>1, <1>4, TabFields
<1>6. tab' = [tab EXCEPT ![t] = q]
  <2>1. [c EXCEPT !.open = y, !.doc = doc] = [[c EXCEPT !.open = y] EXCEPT !.doc = doc]
    BY Zenon
  <2>2. tab' = [tab EXCEPT ![t] = [ClosedTab EXCEPT !.open = TRUE, !.doc = load(file.src)]]
    BY DEF getForm
  <2>. QED BY <1>1, <2>1, <2>2, Zenon
<1>7. UNCHANGED <<file, clobbered, saved>>
  BY DEF getForm
<1>. QED BY <1>5, <1>6, <1>7, TabSaves

LEMMA PutSaves == ASSUME BuilderInv, SavedInv, NEW t \in Tab, putForm(t) PROVE SavedInv'
<1>1. PICK r, d : r = tab[t] /\ d = r.doc
  OBVIOUS
<1>2. PICK o, s, pc, st, da, w : r = TabRec(o, d, s, pc, st, da, w) /\ IsDoc(d)
  BY <1>1 DEF BuilderInv, BuilderShape, TabOK, TabRec
<1>3. NamesOnce(d)
  BY <1>1, Zenon DEF putForm, Validate, NamesOnce
<1>4. PICK seen, data, p : /\ seen = (IF file.parses THEN file.src ELSE <<>>) /\ p = "truncate"
                           /\ data = IF file.parses THEN RebuildLua(file.src, d) ELSE ExportLua(d)
  OBVIOUS
<1>5. PICK q : q = [[[[r EXCEPT !.pc = p] EXCEPT !.sent = d] EXCEPT !.seen = seen] EXCEPT !.data = data]
  OBVIOUS
<1>6. q = TabRec(o, d, seen, p, d, data, w)
  <2>1. PICK r1 : r1 = [r EXCEPT !.pc = p]
    OBVIOUS
  <2>2. r1 = TabRec(o, d, s, p, st, da, w)
    BY <1>2, <2>1 DEF TabRec
  <2>3. PICK r2 : r2 = [r1 EXCEPT !.sent = d]
    OBVIOUS
  <2>4. r2 = TabRec(o, d, s, p, d, da, w)
    BY <2>2, <2>3 DEF TabRec
  <2>5. PICK r3 : r3 = [r2 EXCEPT !.seen = seen]
    OBVIOUS
  <2>6. r3 = TabRec(o, d, seen, p, d, da, w)
    BY <2>4, <2>5 DEF TabRec
  <2>7. [r3 EXCEPT !.data = data] = TabRec(o, d, seen, p, d, data, w)
    BY <2>6 DEF TabRec
  <2>. QED BY <1>5, <2>1, <2>3, <2>5, <2>7, Zenon
<1>7. q.sent = d /\ q.data = data
  BY <1>6 DEF TabRec
<1>8. tab' = [tab EXCEPT ![t] = q]
  <2>1. tab' = [tab EXCEPT ![t].pc = p, ![t].sent = d, ![t].seen = seen, ![t].data = data]
    BY <1>1, <1>4, Zenon DEF putForm
  <2>2. [tab EXCEPT ![t].pc = p, ![t].sent = d, ![t].seen = seen, ![t].data = data]
          = [tab EXCEPT ![t] = [[[[tab[t] EXCEPT !.pc = p] EXCEPT !.sent = d] EXCEPT !.seen = seen] EXCEPT !.data = data]]
    BY Zenon
  <2>. QED BY <1>1, <1>5, <2>1, <2>2, Zenon
<1>9. tab'[t] = q /\ \A u \in Tab : u # t => tab'[u] = tab[u]
  BY <1>8 DEF BuilderInv, BuilderShape
<1>10. UNCHANGED <<file, saved>> /\ (clobbered' = {} => clobbered = {} /\ file.parses)
  BY DEF putForm
<1>11. clobbered' = {} => SourceHolds(data, d)
  <2>1. SUFFICES ASSUME clobbered' = {} PROVE SourceHolds(data, d)
    OBVIOUS
  <2>2. IsSeq(file.src) /\ IsClear(file.src)
    BY <1>10, <2>1 DEF BuilderInv, BuilderShape, SavedInv, SavedHolds
  <2>3. data = RebuildLua(file.src, d)
    BY <1>4, <1>10, <2>1, Zenon
  <2>4. PICK src : src = file.src
    OBVIOUS
  <2>5. SourceHolds(RebuildLua(src, d), d)
    BY <1>2, <1>3, <2>2, <2>4, RebuildHolds, Zenon
  <2>. QED BY <2>3, <2>4, <2>5
<1>. QED BY <1>7, <1>9, <1>10, <1>11 DEF SavedInv, SavedShape, SavedHolds

LEMMA RejectedSaves == ASSUME BuilderInv, SavedInv, NEW t \in Tab, putRejected(t) PROVE SavedInv'
<1>1. PICK q : q = Idle(tab[t])
  OBVIOUS
<1>2. q.pc = "idle"
  BY <1>1, IdleTab DEF BuilderInv, BuilderShape
<1>3. tab' = [tab EXCEPT ![t] = q]
  BY <1>1, Zenon DEF putRejected
<1>4. UNCHANGED <<file, clobbered, saved>>
  BY DEF putRejected
<1>. QED BY <1>2, <1>3, <1>4, TabSaves

LEMMA OpenSaves == ASSUME BuilderInv, SavedInv, NEW t \in Tab, openTmp(t) PROVE SavedInv'
<1>1. PICK r, p, m, r1, q : r = tab[t] /\ p = "write" /\ m = "tmp" /\ r1 = [r EXCEPT !.pc = p] /\ q = [r1 EXCEPT !.where = m]
  OBVIOUS
<1>2. TabShape(r)
  BY <1>1 DEF BuilderInv, BuilderShape, TabOK, TabShape
<1>3. TabShape(r1) /\ SameSave(r1, r)
  BY <1>1, <1>2, TabFields
<1>4. SameSave(q, r1)
  BY <1>1, <1>3, TabFields
<1>5. tab[t].pc # "idle" /\ SameSave(q, tab[t])
  BY <1>1, <1>3, <1>4 DEF SameSave, openTmp
<1>6. tab' = [tab EXCEPT ![t] = q]
  <2>1. tab' = [tab EXCEPT ![t].pc = p, ![t].where = m]
    BY <1>1, Zenon DEF openTmp
  <2>2. [tab EXCEPT ![t].pc = p, ![t].where = m] = [tab EXCEPT ![t] = [[tab[t] EXCEPT !.pc = p] EXCEPT !.where = m]]
    BY Zenon
  <2>. QED BY <1>1, <2>1, <2>2, Zenon
<1>7. UNCHANGED <<file, clobbered, saved>>
  BY DEF openTmp
<1>. QED BY <1>5, <1>6, <1>7, TabSaves

LEMMA WriteSaves == ASSUME BuilderInv, SavedInv, NEW t \in Tab, writeTmp(t) PROVE SavedInv'
<1>1. PICK r, p, q : r = tab[t] /\ p = "rename" /\ q = [r EXCEPT !.pc = p]
  OBVIOUS
<1>2. TabShape(r)
  BY <1>1 DEF BuilderInv, BuilderShape, TabOK, TabShape
<1>3. tab[t].pc = "write" /\ SameSave(q, tab[t])
  BY <1>1, <1>2, TabFields DEF writeTmp
<1>4. tab' = [tab EXCEPT ![t] = q]
  <2>1. tab' = [tab EXCEPT ![t].pc = p]
    BY <1>1, Zenon DEF writeTmp
  <2>2. [tab EXCEPT ![t].pc = p] = [tab EXCEPT ![t] = [tab[t] EXCEPT !.pc = p]]
    BY Zenon
  <2>. QED BY <1>1, <2>1, <2>2, Zenon
<1>5. UNCHANGED <<clobbered, saved>>
  BY DEF writeTmp
<1>6. CASE clobbered = {}
  <2>1. tab[t].where = "tmp"
    BY <1>3, <1>6 DEF BuilderInv, SavesHold, SaveHolds
  <2>2. UNCHANGED file
    BY <2>1 DEF writeTmp
  <2>. QED BY <1>3, <1>4, <1>5, <2>2, TabSaves
<1>7. CASE clobbered # {}
  BY <1>5, <1>7 DEF SavedInv, SavedShape, SavedHolds
<1>. QED BY <1>6, <1>7

LEMMA RenameSaves == ASSUME BuilderInv, SavedInv, NEW t \in Tab, renameTmp(t) PROVE SavedInv'
<1>1. UNCHANGED clobbered /\ tab[t].pc = "rename"
  BY DEF renameTmp
<1>2. CASE tmp.on
  <2>1. PICK src, doc : src = tmp.src /\ doc = tab[t].sent
    OBVIOUS
  <2>2. file' = [src |-> src, parses |-> TRUE] /\ saved' = [on |-> TRUE, doc |-> doc]
    BY <1>2, <2>1 DEF renameTmp
  <2>3. \A u \in Tab : tab'[u] = IF u = t THEN Idle(tab[u])
                                 ELSE IF tab[u].pc \in {"write", "rename"} THEN [tab[u] EXCEPT !.where = "file"] ELSE tab[u]
    <3>1. tab' = [u \in Tab |-> IF u = t THEN Idle(tab[u])
                                ELSE IF tab[u].pc \in {"write", "rename"} THEN [tab[u] EXCEPT !.where = "file"] ELSE tab[u]]
      BY <1>2, Zenon DEF renameTmp
    <3>. QED BY <3>1, Zenon
  <2>4. SavedHolds'
    <3>1. SUFFICES ASSUME clobbered = {} PROVE SavedHolds'
      BY <1>1 DEF SavedHolds
    <3>2. SaveHolds(tab[t]) /\ \A u \in Tab : u # t => tab[u].pc = "idle"
      BY <1>1, <3>1 DEF BuilderInv, SavesHold
    <3>3. SourceHolds(src, doc)
      <4>1. tab[t].data = src
        BY <1>1, <2>1, <3>2 DEF SaveHolds
      <4>2. SourceHolds(tab[t].data, tab[t].sent)
        BY <1>1, <3>1 DEF SavedInv, SavedHolds
      <4>. QED BY <2>1, <4>1, <4>2
    <3>4. IsClear(src)
      BY <3>3, HoldsClear
    <3>5. \A u \in Tab : tab'[u].pc = "idle"
      <4>1. tab'[t].pc = "idle"
        <5>1. Idle(tab[t]).pc = "idle"
          BY IdleTab DEF BuilderInv, BuilderShape
        <5>. QED BY <2>3, <5>1, Zenon
      <4>2. ASSUME NEW u \in Tab, u # t PROVE tab'[u].pc = "idle"
        <5>1. tab[u].pc = "idle" /\ tab[u].pc \notin {"write", "rename"}
          BY <3>2, <4>2
        <5>. QED BY <2>3, <4>2, <5>1, Zenon
      <4>. QED BY <4>1, <4>2, Zenon
    <3>. QED BY <1>1, <2>2, <3>3, <3>4, <3>5 DEF SavedHolds
  <2>. QED BY <2>2, <2>4 DEF SavedInv, SavedShape
<1>3. CASE ~tmp.on
  <2>1. PICK q : q = Idle(tab[t])
    OBVIOUS
  <2>2. tab' = [tab EXCEPT ![t] = q] /\ UNCHANGED <<file, saved>>
    BY <1>3, <2>1, Zenon DEF renameTmp
  <2>3. q.pc = "idle"
    BY <2>1, IdleTab DEF BuilderInv, BuilderShape
  <2>. QED BY <1>1, <2>2, <2>3, TabSaves
<1>. QED BY <1>2, <1>3

LEMMA TypeSaves == ASSUME BuilderInv, SavedInv, typeInFile PROVE SavedInv'
<1>1. PICK n, x : file = [src |-> n, parses |-> x] /\ IsSeq(n)
  BY DEF BuilderInv, BuilderShape
<1>2. UNCHANGED tab /\ (clobbered' = {} => clobbered = {} /\ \A t \in Tab : tab[t].pc = "idle")
  BY DEF typeInFile
<1>3. SavedShape' /\ ~saved'.on
  <2>1. PICK a, b : saved = [on |-> a, doc |-> b]
    BY DEF SavedInv, SavedShape
  <2>2. PICK no : no = FALSE
    OBVIOUS
  <2>3. saved' = [saved EXCEPT !.on = no]
    BY <2>2, Zenon DEF typeInFile
  <2>4. saved' = [on |-> no, doc |-> b]
    BY <2>1, <2>3
  <2>. QED BY <2>2, <2>4 DEF SavedShape
<1>4. clobbered' = {} => IsClear(n)
  BY <1>1, <1>2 DEF SavedInv, SavedHolds
<1>5. clobbered' = {} => IsClear(file'.src)
  <2>1. CASE file' = [file EXCEPT !.src = <<CodeLine("typed")>> \o @]
    <3>1. PICK c, a, m : c = CodeLine("typed") /\ a = <<c>> /\ m = a \o n
      OBVIOUS
    <3>2. file'.src = m
      <4>1. file' = [file EXCEPT !.src = m]
        <5>1. file.src = n
          BY <1>1
        <5>. QED BY <2>1, <3>1, <5>1, Zenon
      <4>. QED BY <1>1, <4>1
    <3>3. ASSUME NEW f PROVE FormStmts(m, f) = FormStmts(n, f)
      <4>1. ~IsFormStmt(c, f)
        BY <3>1 DEF IsFormStmt, CodeLine, Stmt
      <4>2. IsSeq(a) /\ FormStmts(a, f) = <<>>
        BY <3>1, <4>1, FormStmtsOne, Zenon
      <4>3. Joined(m, a, n)
        BY <3>1 DEF Joined
      <4>. QED BY <1>1, <4>2, <4>3, FormStmtsEnds
    <3>. QED BY <1>4, <3>2, <3>3 DEF IsClear
  <2>2. CASE file' = [file EXCEPT !.parses = ~@]
    <3>1. PICK y : y = ~file.parses
      OBVIOUS
    <3>2. file' = [file EXCEPT !.parses = y]
      BY <2>2, <3>1, Zenon
    <3>3. file'.src = n
      BY <1>1, <3>2
    <3>. QED BY <1>4, <3>3
  <2>. QED BY <2>1, <2>2 DEF typeInFile
<1>. QED BY <1>2, <1>3, <1>5 DEF SavedInv, SavedHolds

\* A source that constructs each of its forms once, before its controls.
ConstructedOnce(src) == \A i \in DOMAIN src : IsOnce(FormStmts(src, src[i].form))

LEMMA OnceClear == ASSUME NEW src, IsSeq(src), ConstructedOnce(src) PROVE IsClear(src)
<1>1. SUFFICES ASSUME NEW f, FormStmts(src, f) # <<>> PROVE IsOnce(FormStmts(src, f))
  BY DEF IsClear, IsOnce
<1>2. PICK q : q = FormStmts(src, f)
  OBVIOUS
<1>3. IsSeq(q) /\ \A k \in DOMAIN q : q[k] \in Range(src) /\ IsFormStmt(q[k], f)
  BY <1>2, FormStmtsType
<1>4. 1 \in DOMAIN q
  <2>1. q \in Seq(Range(q)) /\ q # <<>>
    BY <1>1, <1>2, <1>3 DEF IsSeq
  <2>. QED BY <2>1
<1>5. PICK i \in DOMAIN src : q[1] = src[i]
  BY <1>3, <1>4 DEF Range
<1>6. src[i].form = f
  BY <1>3, <1>4, <1>5 DEF IsFormStmt
<1>. QED BY <1>6 DEF ConstructedOnce

\* Whatever documents are loaded, edited, merged and saved, by any number of tabs, the forms that the next load finds in
\* the file are those of the document saved last, with their titles and their controls in order, and no others (Import of
\* lua_import.go on what RebuildLua of rebuild.go and putForm of server.go wrote).  For sources that construct each form
\* once, before its controls: a later k.form.new of the same name is left where it is, and is found instead of a form
\* that was deleted.
THEOREM SavedCorrect ==
    ASSUME \A src \in Sources : ConstructedOnce(src)
    PROVE  BuilderSpec => []SavedIsLoaded
<1>1. BuilderInit => BuilderInv /\ SavedInv
  <2>1. SUFFICES ASSUME BuilderInit PROVE BuilderInv /\ SavedInv
    OBVIOUS
  <2>2. PICK src \in Sources : file = [src |-> src, parses |-> TRUE]
    BY <2>1 DEF BuilderInit
  <2>3. IsClear(src)
    BY <2>2, BuilderAssumption, OnceClear
  <2>4. saved = [on |-> FALSE, doc |-> <<>>] /\ tab = [t \in Tab |-> ClosedTab] /\ ClosedTab.pc = "idle"
    BY <2>1 DEF BuilderInit, ClosedTab
  <2>5. SavedInv
    BY <2>2, <2>3, <2>4 DEF SavedInv, SavedShape, SavedHolds
  <2>. QED BY <2>1, <2>5, BuilderInitInv
<1>2. BuilderInv /\ SavedInv /\ [BuilderNext]_bvars => (BuilderInv /\ SavedInv)'
  <2>1. SUFFICES ASSUME BuilderInv, SavedInv, [BuilderNext]_bvars PROVE BuilderInv' /\ SavedInv'
    OBVIOUS
  <2>2. CASE UNCHANGED bvars
    BY <2>1, <2>2 DEF bvars, BuilderInv, BuilderShape, SavesHold, SaveHolds, SavedInv, SavedShape, SavedHolds
  <2>3. CASE BuilderNext
    <3>1. BuilderInv'
      BY <2>1, <2>3, GetFormKeeps, EditsKeep, PutKeeps, RejectedKeeps, OpenKeeps, WriteKeeps, RenameKeeps, TypeKeeps, Zenon DEF BuilderNext
    <3>2. SavedInv'
      BY <2>1, <2>3, GetFormSaves, EditsSaves, PutSaves, RejectedSaves, OpenSaves, WriteSaves, RenameSaves, TypeSaves, Zenon DEF BuilderNext
    <3>. QED BY <3>1, <3>2
  <2>. QED BY <2>1, <2>2, <2>3
<1>3. BuilderInv /\ SavedInv => SavedIsLoaded
  <2>1. SUFFICES ASSUME BuilderInv, SavedInv, saved.on, clobbered = {} PROVE ShapeOf(Import(file.src)) = ShapeOf(saved.doc)
    BY Zenon DEF SavedIsLoaded, ShapeOf
  <2>2. PICK src, doc, now : src = file.src /\ doc = saved.doc /\ now = Import(src)
    OBVIOUS
  <2>3. IsSeq(src) /\ IsClear(src) /\ SourceHolds(src, doc)
    BY <2>1, <2>2 DEF BuilderInv, BuilderShape, SavedInv, SavedHolds
  <2>4. SourceHolds(src, now)
    BY <2>2, <2>3, ImportHolds
  <2>5. ShapeOf(now) \subseteq ShapeOf(doc) /\ ShapeOf(doc) \subseteq ShapeOf(now)
    BY <2>3, <2>4, SameShape, Zenon
  <2>6. ShapeOf(now) = ShapeOf(doc)
    BY <2>5
  <2>. QED BY <2>2, <2>6, Zenon
<1>. QED BY <1>1, <1>2, <1>3, PTL DEF BuilderSpec
============================================================================
