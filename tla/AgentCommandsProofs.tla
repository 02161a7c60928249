-------------------------- MODULE AgentCommandsProofs --------------------------
(***************************************************************************)
(* Proofs about the structural commands, for any documents and any number  *)
(* of commands.                                                            *)
(*                                                                         *)
(* First the operators: sequences that one element joins or leaves, trees  *)
(* and what they hold, places among siblings, the list a subtree is walked *)
(* into and the clone made of it.  Then every command: which nodes it      *)
(* touches, and that what comes out is again a tree whose nodes may hold   *)
(* what they hold (Effect).  From the effects follow the invariant and the *)
(* properties.                                                             *)
(***************************************************************************)
EXTENDS AgentCommands, Integers, FiniteSetTheorems, SequenceTheorems, WellFoundedInduction, TLAPS

LEMMA LeastNumber ==
    ASSUME NEW S \in SUBSET Nat, S # {}
    PROVE  \E n \in S : \A m \in S : n <= m
<1> DEFINE R == {ss \in Nat \X Nat : ss[1] < ss[2]}
<1>1. IsWellFoundedOn(R, Nat)
  BY NatLessThanWellFounded DEF OpToRel
<1>2. \A m, n \in Nat : m < n => <<m, n>> \in R
  OBVIOUS
<1> HIDE DEF R
<1>3. PICK n \in S : \A m \in S : ~(<<m, n>> \in R)
  BY <1>1, WFMin
<1>4. ASSUME NEW m \in S PROVE n <= m
  <2>1. m \in Nat /\ n \in Nat
    OBVIOUS
  <2>2. ~(m < n)
    BY <1>2, <1>3, <2>1
  <2> QED BY <2>1, <2>2
<1> QED BY <1>4

\* The axiom of induction, for a set.
LEMMA Induct ==
    ASSUME NEW S, 0 \in S, \A n \in Nat : n \in S => n + 1 \in S
    PROVE  \A n \in Nat : n \in S
<1> SUFFICES ASSUME Nat \ S # {} PROVE FALSE
  OBVIOUS
<1>1. PICK n \in Nat \ S : \A m \in Nat \ S : n <= m
  BY LeastNumber
<1>2. n # 0 /\ n - 1 \in Nat /\ n - 1 \in S
  BY <1>1
<1>3. n - 1 + 1 \in S
  BY <1>2
<1> QED BY <1>1, <1>3

\* The values of f from 0 to n are computed each from the one before.
Recurrent(f, S, a, Step, n) ==
    /\ f \in [0..n -> S]
    /\ f[0] = a
    /\ \A i \in 1..n : f[i] = Step[i][f[i - 1]]

\* There is such a function.
LEMMA Defined ==
    ASSUME NEW S, NEW a \in S, NEW Step \in [Nat -> [S -> S]], NEW n \in Nat
    PROVE  \E f : Recurrent(f, S, a, Step, n)
<1> DEFINE E(f, m) == Recurrent(f, S, a, Step, m)
           D == {m \in Nat : \E f : E(f, m)}
<1>1. 0 \in D
  <2> DEFINE g == [i \in 0..0 |-> a]
  <2>1. E(g, 0)
    BY DEF Recurrent
  <2> QED BY <2>1
<1>2. ASSUME NEW m \in Nat, m \in D PROVE m + 1 \in D
  <2>1. PICK f : E(f, m)
    BY <1>2
  <2> DEFINE g == [i \in 0..m + 1 |-> IF i = m + 1 THEN Step[m + 1][f[m]] ELSE f[i]]
  <2>2. f \in [0..m -> S] /\ f[0] = a /\ \A i \in 1..m : f[i] = Step[i][f[i - 1]]
    BY <2>1 DEF Recurrent
  <2>3. g \in [0..m + 1 -> S] /\ g[0] = a
    <3>1. Step[m + 1][f[m]] \in S
      BY <2>2
    <3> QED BY <2>2, <3>1
  <2>4. \A i \in 1..m + 1 : g[i] = Step[i][g[i - 1]]
    <3> TAKE i \in 1..m + 1
    <3>1. i - 1 \in 0..m /\ i - 1 \in 0..m + 1 /\ i - 1 # m + 1 /\ i \in 0..m + 1
      OBVIOUS
    <3>2. g[i - 1] = f[i - 1]
      BY <3>1
    <3>3. CASE i = m + 1
      BY <3>1, <3>2, <3>3
    <3>4. CASE i # m + 1
      <4>1. i \in 1..m
        BY <3>4
      <4> QED BY <2>2, <3>1, <3>2, <3>4, <4>1
    <3> QED BY <3>3, <3>4
  <2>5. E(g, m + 1)
    <3> HIDE DEF g
    <3> QED BY <2>3, <2>4 DEF Recurrent
  <2> HIDE DEF g, E
  <2> QED BY <2>5
<1>3. n \in D
  <2> HIDE DEF D
  <2> QED BY <1>1, <1>2, Induct
<1> QED BY <1>3

-----------------------------------------------------------------------------
(* Sequences.                                                              *)

LEMMA FlattenDefined ==
    ASSUME NEW ss, NEW n \in Nat
    PROVE  \E f : f = [i \in 1..n |-> IF i = 1 THEN ss[i] ELSE f[i - 1] \o ss[i]]
<1> DEFINE E(f, m) == f = [i \in 1..m |-> IF i = 1 THEN ss[i] ELSE f[i - 1] \o ss[i]]
           D == {m \in Nat : \E f : E(f, m)}
<1>1. 0 \in D
  <2> DEFINE g == [i \in 1..0 |-> {}]
  <2>1. E(g, 0)
    OBVIOUS
  <2> QED BY <2>1
<1>2. ASSUME NEW m \in Nat, m \in D PROVE m + 1 \in D
  <2>1. PICK f : E(f, m)
    BY <1>2
  <2> DEFINE new == IF m + 1 = 1 THEN ss[m + 1] ELSE f[m] \o ss[m + 1]
             g == [i \in 1..m + 1 |-> IF i = m + 1 THEN new ELSE f[i]]
  <2>2. \A i \in 1..m + 1 : g[i] = IF i = 1 THEN ss[i] ELSE g[i - 1] \o ss[i]
    <3> TAKE i \in 1..m + 1
    <3>1. CASE i = m + 1
      <4>1. i - 1 = m /\ (i # 1 => i - 1 \in 1..m + 1 /\ i - 1 # m + 1)
        BY <3>1
      <4>2. i # 1 => g[i - 1] = f[m]
        BY <4>1
      <4> QED BY <3>1, <4>1, <4>2
    <3>2. CASE i # m + 1
      <4>1. i \in 1..m /\ (i # 1 => i - 1 \in 1..m /\ i - 1 \in 1..m + 1) /\ i - 1 # m + 1
        BY <3>2
      <4>2. f[i] = IF i = 1 THEN ss[i] ELSE f[i - 1] \o ss[i]
        BY <4>1, <2>1
      <4> QED BY <3>2, <4>1, <4>2
    <3> QED BY <3>1, <3>2
  <2>3. E(g, m + 1)
    <3> DEFINE h == [i \in 1..m + 1 |-> IF i = 1 THEN ss[i] ELSE g[i - 1] \o ss[i]]
    <3>1. g = [i \in 1..m + 1 |-> g[i]]
      OBVIOUS
    <3> HIDE DEF g
    <3>2. g = h
      BY <2>2, <3>1
    <3> QED BY <3>2
  <2> HIDE DEF g, E
  <2> QED BY <2>3
<1>3. n \in D
  <2> HIDE DEF D
  <2> QED BY <1>1, <1>2, Induct
<1> QED BY <1>3

LEMMA FlattenEquation ==
    ASSUME NEW ss, Len(ss) \in Nat, Len(ss) # 0
    PROVE  \E f : /\ FlattenSeq(ss) = f[Len(ss)]
                  /\ f[1] = ss[1]
                  /\ \A i \in 1..Len(ss) : i # 1 => f[i] = f[i - 1] \o ss[i]
<1> DEFINE f == CHOOSE g : g = [i \in 1..Len(ss) |-> IF i = 1 THEN ss[i] ELSE g[i - 1] \o ss[i]]
<1>1. f = [i \in 1..Len(ss) |-> IF i = 1 THEN ss[i] ELSE f[i - 1] \o ss[i]]
  BY FlattenDefined
<1>2. FlattenSeq(ss) = f[Len(ss)]
  BY DEF FlattenSeq
<1> HIDE DEF f
<1>3. 1 \in 1..Len(ss)
  OBVIOUS
<1>4. f[1] = ss[1]
  BY <1>1, <1>3
<1>5. \A i \in 1..Len(ss) : i # 1 => f[i] = f[i - 1] \o ss[i]
  BY <1>1
<1> QED BY <1>2, <1>4, <1>5

LEMMA ConcatSet ==
    ASSUME NEW S, NEW s \in Seq(S), NEW t \in Seq(S)
    PROVE  /\ s \o t \in Seq(S)
           /\ ToSet(s \o t) = ToSet(s) \cup ToSet(t)
<1>1. \A i \in 1..Len(s) + Len(t) : (s \o t)[i] = IF i <= Len(s) THEN s[i] ELSE t[i - Len(s)]
  BY ConcatProperties
<1>2. /\ DOMAIN (s \o t) = 1..Len(s) + Len(t) /\ DOMAIN s = 1..Len(s) /\ DOMAIN t = 1..Len(t)
      /\ Len(s) \in Nat /\ Len(t) \in Nat
  BY ConcatProperties, LenProperties
<1>3. ASSUME NEW i \in DOMAIN (s \o t) PROVE (s \o t)[i] \in ToSet(s) \cup ToSet(t)
  <2>1. CASE i <= Len(s)
    BY <1>1, <1>2, <2>1 DEF ToSet
  <2>2. CASE ~(i <= Len(s))
    <3>1. i - Len(s) \in DOMAIN t
      BY <1>2, <2>2
    <3> QED BY <1>1, <1>2, <2>2, <3>1 DEF ToSet
  <2> QED BY <2>1, <2>2
<1>4. ASSUME NEW i \in DOMAIN s PROVE s[i] \in ToSet(s \o t)
  <2>1. i \in DOMAIN (s \o t) /\ (s \o t)[i] = s[i]
    BY <1>1, <1>2
  <2> QED BY <2>1 DEF ToSet
<1>5. ASSUME NEW i \in DOMAIN t PROVE t[i] \in ToSet(s \o t)
  <2>1. i + Len(s) \in DOMAIN (s \o t) /\ (s \o t)[i + Len(s)] = t[i]
    <3>1. i + Len(s) \in 1..Len(s) + Len(t) /\ ~(i + Len(s) <= Len(s)) /\ i + Len(s) - Len(s) = i
      BY <1>2
    <3> QED BY <1>1, <1>2, <3>1
  <2> QED BY <2>1 DEF ToSet
<1>6. ToSet(s \o t) \subseteq ToSet(s) \cup ToSet(t)
  BY <1>3 DEF ToSet
<1>7. ToSet(s) \cup ToSet(t) \subseteq ToSet(s \o t)
  BY <1>4, <1>5 DEF ToSet
<1> QED BY <1>6, <1>7, ConcatProperties

\* What FlattenSeq returns holds what the sequences hold.
LEMMA FlattenHolds ==
    ASSUME NEW S, NEW ss \in Seq(Seq(S))
    PROVE  /\ FlattenSeq(ss) \in Seq(S)
           /\ ToSet(FlattenSeq(ss)) = UNION {ToSet(ss[i]) : i \in DOMAIN ss}
<1> DEFINE Goal == /\ FlattenSeq(ss) \in Seq(S)
                   /\ ToSet(FlattenSeq(ss)) = UNION {ToSet(ss[i]) : i \in DOMAIN ss}
<1> SUFFICES Goal
  OBVIOUS
<1>1. Len(ss) \in Nat /\ DOMAIN ss = 1..Len(ss) /\ \A i \in DOMAIN ss : ss[i] \in Seq(S)
  BY LenProperties, ElementOfSeq
<1>2. CASE Len(ss) = 0
  <2>1. ss = <<>>
    BY <1>2, EmptySeq
  <2>2. FlattenSeq(ss) = <<>>
    BY <1>2, <2>1 DEF FlattenSeq
  <2>3. ToSet(<<>>) = {} /\ UNION {ToSet(ss[i]) : i \in DOMAIN ss} = {} /\ <<>> \in Seq(S)
    BY <1>1, <1>2, EmptySeq DEF ToSet
  <2> QED BY <2>2, <2>3
<1>3. CASE Len(ss) # 0
  <2>1. PICK f : /\ FlattenSeq(ss) = f[Len(ss)]
                 /\ f[1] = ss[1]
                 /\ \A i \in 1..Len(ss) : i # 1 => f[i] = f[i - 1] \o ss[i]
    BY <1>1, <1>3, FlattenEquation
  <2> DEFINE U(n) == UNION {ToSet(ss[i]) : i \in 1..n}
             D == {n \in Nat : n \in 1..Len(ss) => f[n] \in Seq(S) /\ ToSet(f[n]) = U(n)}
  <2>2. 0 \in D
    OBVIOUS
  <2>3. ASSUME NEW n \in Nat, n \in D PROVE n + 1 \in D
    <3> SUFFICES ASSUME n + 1 \in 1..Len(ss)
                 PROVE  f[n + 1] \in Seq(S) /\ ToSet(f[n + 1]) = U(n + 1)
      OBVIOUS
    <3>1. U(n + 1) = U(n) \cup ToSet(ss[n + 1])
      <4>1. 1..n + 1 = (1..n) \cup {n + 1}
        OBVIOUS
      <4> QED BY <4>1
    <3>2. CASE n = 0
      BY <1>1, <2>1, <3>1, <3>2
    <3>3. CASE n # 0
      <4>1. n \in 1..Len(ss) /\ n + 1 # 1 /\ n + 1 - 1 = n
        BY <1>1, <3>3
      <4>2. f[n + 1] = f[n] \o ss[n + 1] /\ ss[n + 1] \in Seq(S)
        <5>1. PICK k : k = n + 1
          OBVIOUS
        <5>2. k \in 1..Len(ss) /\ k # 1 /\ k - 1 = n
          BY <4>1, <5>1
        <5>3. f[k] = f[k - 1] \o ss[k]
          BY <2>1, <5>2, Zenon
        <5> QED BY <1>1, <5>1, <5>2, <5>3
      <4>3. f[n] \in Seq(S) /\ ToSet(f[n]) = U(n)
        BY <2>3, <4>1
      <4>4. f[n] \o ss[n + 1] \in Seq(S) /\ ToSet(f[n] \o ss[n + 1]) = ToSet(f[n]) \cup ToSet(ss[n + 1])
        BY <4>2, <4>3, ConcatSet
      <4> HIDE DEF U
      <4> QED BY <3>1, <4>2, <4>3, <4>4
    <3> QED BY <3>2, <3>3
  <2>4. Len(ss) \in D
    <3> HIDE DEF D
    <3> QED BY <1>1, <2>2, <2>3, Induct
  <2>5. Len(ss) \in 1..Len(ss) /\ DOMAIN ss = 1..Len(ss)
    BY <1>1, <1>3
  <2> QED BY <2>1, <2>4, <2>5
<1> HIDE DEF Goal
<1> QED BY <1>2, <1>3

\* A sequence put into another after its i-th element.
Spliced(s, i, u) == SubSeq(s, 1, i) \o u \o SubSeq(s, i + 1, Len(s))

LEMMA SplicedAt ==
    ASSUME NEW S, NEW s \in Seq(S), NEW u \in Seq(S), NEW i \in 0..Len(s)
    PROVE  /\ Spliced(s, i, u) \in Seq(S)
           /\ Len(Spliced(s, i, u)) = Len(s) + Len(u)
           /\ \A j \in 1..Len(s) + Len(u) :
                 Spliced(s, i, u)[j] = IF j <= i THEN s[j]
                                       ELSE IF j <= i + Len(u) THEN u[j - i] ELSE s[j - Len(u)]
<1>1. Len(s) \in Nat /\ Len(u) \in Nat /\ \A j \in 1..Len(s) : s[j] \in S
  BY LenProperties, ElementOfSeq
<1>2. PICK a : a = SubSeq(s, 1, i)
  OBVIOUS
<1>3. a \in Seq(S) /\ Len(a) = i /\ \A j \in 1..i : a[j] = s[j]
  <2>1. \A j \in 1..i : s[j] \in S
    BY <1>1
  <2>2. a \in Seq(S) /\ Len(a) = (IF 1 <= i THEN i - 1 + 1 ELSE 0) /\ \A j \in 1..i - 1 + 1 : a[j] = s[1 + j - 1]
    BY <1>2, <2>1, SubSeqProperties
  <2> QED BY <1>1, <2>2
<1>4. PICK c : c = SubSeq(s, i + 1, Len(s))
  OBVIOUS
<1>5. c \in Seq(S) /\ Len(c) = Len(s) - i /\ \A j \in 1..Len(s) - i : c[j] = s[i + j]
  <2>1. \A j \in i + 1..Len(s) : s[j] \in S
    BY <1>1
  <2>2. /\ c \in Seq(S)
        /\ Len(c) = (IF i + 1 <= Len(s) THEN Len(s) - (i + 1) + 1 ELSE 0)
        /\ \A j \in 1..Len(s) - (i + 1) + 1 : c[j] = s[i + 1 + j - 1]
    BY <1>1, <1>4, <2>1, SubSeqProperties
  <2> QED BY <1>1, <2>2
<1>6. /\ a \o u \in Seq(S) /\ Len(a \o u) = i + Len(u)
      /\ \A j \in 1..i + Len(u) : (a \o u)[j] = IF j <= i THEN a[j] ELSE u[j - i]
  BY <1>3, ConcatProperties
<1>7. PICK b : b = a \o u
  OBVIOUS
<1>8. /\ b \o c \in Seq(S) /\ Len(b \o c) = Len(b) + Len(c)
      /\ \A j \in 1..Len(b) + Len(c) : (b \o c)[j] = IF j <= Len(b) THEN b[j] ELSE c[j - Len(b)]
  BY <1>5, <1>6, <1>7, ConcatProperties
<1>9. Spliced(s, i, u) = b \o c
  BY <1>2, <1>4, <1>7 DEF Spliced
<1>10. Len(b) + Len(c) = Len(s) + Len(u) /\ Len(b) = i + Len(u)
  <2>1. Len(b) = i + Len(u) /\ Len(c) = Len(s) - i
    BY <1>5, <1>6, <1>7
  <2>2. i + Len(u) + (Len(s) - i) = Len(s) + Len(u)
    BY <1>1
  <2> QED BY <2>1, <2>2
<1>11. ASSUME NEW j \in 1..Len(s) + Len(u)
       PROVE  (b \o c)[j] = IF j <= i THEN s[j]
                            ELSE IF j <= i + Len(u) THEN u[j - i] ELSE s[j - Len(u)]
  <2>1. (b \o c)[j] = IF j <= i + Len(u) THEN b[j] ELSE c[j - (i + Len(u))]
    BY <1>8, <1>10
  <2>2. CASE j <= i
    BY <1>1, <1>3, <1>6, <1>7, <2>1, <2>2
  <2>3. CASE ~(j <= i) /\ j <= i + Len(u)
    BY <1>1, <1>6, <1>7, <2>1, <2>3
  <2>4. CASE ~(j <= i + Len(u))
    <3>1. PICK k : k = j - (i + Len(u))
      OBVIOUS
    <3>2. k \in 1..Len(s) - i /\ i + k = j - Len(u) /\ ~(j <= i)
      BY <1>1, <2>4, <3>1
    <3>3. c[k] = s[i + k]
      BY <1>5, <3>2
    <3>4. (b \o c)[j] = c[k]
      BY <2>1, <2>4, <3>1
    <3> QED BY <2>4, <3>2, <3>3, <3>4
  <2> QED BY <2>2, <2>3, <2>4
<1> QED BY <1>8, <1>9, <1>10, <1>11

LEMMA SplicedHolds ==
    ASSUME NEW S, NEW s \in Seq(S), NEW u \in Seq(S), NEW i \in 0..Len(s)
    PROVE  /\ ToSet(Spliced(s, i, u)) = ToSet(s) \cup ToSet(u)
           /\ IsInjective(s) /\ IsInjective(u) /\ ToSet(s) \cap ToSet(u) = {}
              => IsInjective(Spliced(s, i, u))
<1>1. PICK r : r = Spliced(s, i, u)
  OBVIOUS
<1>2. /\ Len(s) \in Nat /\ DOMAIN s = 1..Len(s) /\ Len(u) \in Nat /\ DOMAIN u = 1..Len(u)
      /\ DOMAIN r = 1..Len(s) + Len(u)
  BY <1>1, LenProperties, SplicedAt
<1>3. \A j \in 1..Len(s) + Len(u) :
         r[j] = IF j <= i THEN s[j] ELSE IF j <= i + Len(u) THEN u[j - i] ELSE s[j - Len(u)]
  BY <1>1, SplicedAt
<1>4. ToSet(r) \subseteq ToSet(s) \cup ToSet(u)
  <2>1. ASSUME NEW j \in DOMAIN r PROVE r[j] \in ToSet(s) \cup ToSet(u)
    <3>1. CASE j <= i
      BY <1>2, <1>3, <3>1 DEF ToSet
    <3>2. CASE ~(j <= i) /\ j <= i + Len(u)
      <4>1. j - i \in DOMAIN u /\ r[j] = u[j - i]
        BY <1>2, <1>3, <3>2
      <4> QED BY <4>1 DEF ToSet
    <3>3. CASE ~(j <= i + Len(u))
      <4>1. j - Len(u) \in DOMAIN s /\ r[j] = s[j - Len(u)]
        BY <1>2, <1>3, <3>3
      <4> QED BY <4>1 DEF ToSet
    <3> QED BY <3>1, <3>2, <3>3
  <2> QED BY <2>1 DEF ToSet
<1>5. ToSet(s) \subseteq ToSet(r)
  <2>1. ASSUME NEW j \in DOMAIN s PROVE \E k \in DOMAIN r : r[k] = s[j]
    <3>1. CASE j <= i
      BY <1>2, <1>3, <3>1
    <3>2. CASE ~(j <= i)
      <4>1. PICK k : k = j + Len(u)
        OBVIOUS
      <4>2. k \in DOMAIN r /\ ~(k <= i) /\ ~(k <= i + Len(u)) /\ k - Len(u) = j
        BY <1>2, <3>2, <4>1
      <4> QED BY <1>2, <1>3, <4>2
    <3> QED BY <3>1, <3>2
  <2> QED BY <2>1 DEF ToSet
<1>6. ToSet(u) \subseteq ToSet(r)
  <2>1. ASSUME NEW j \in DOMAIN u PROVE \E k \in DOMAIN r : r[k] = u[j]
    <3>1. PICK k : k = j + i
      OBVIOUS
    <3>2. k \in DOMAIN r /\ ~(k <= i) /\ k <= i + Len(u) /\ k - i = j
      BY <1>2, <3>1
    <3> QED BY <1>2, <1>3, <3>2
  <2> QED BY <2>1 DEF ToSet
<1>7. ASSUME IsInjective(s), IsInjective(u), ToSet(s) \cap ToSet(u) = {}
      PROVE  IsInjective(r)
  <2>1. \A j \in DOMAIN s, k \in DOMAIN u : s[j] # u[k]
    BY <1>7 DEF ToSet
  <2>2. \A j, k \in DOMAIN s : s[j] = s[k] => j = k
    BY <1>7 DEF IsInjective
  <2>3. \A j, k \in DOMAIN u : u[j] = u[k] => j = k
    BY <1>7 DEF IsInjective
  <2> DEFINE From(j) == IF j <= i THEN j ELSE j - Len(u)
  <2>4. \A j \in DOMAIN r :
           \/ From(j) \in DOMAIN s /\ r[j] = s[From(j)] /\ (j <= i \/ ~(j <= i + Len(u)))
           \/ j - i \in DOMAIN u /\ r[j] = u[j - i] /\ ~(j <= i) /\ j <= i + Len(u)
    BY <1>2, <1>3
  <2>5. ASSUME NEW j \in DOMAIN r, NEW k \in DOMAIN r, r[j] = r[k]
        PROVE  j = k
    <3>1. CASE From(j) \in DOMAIN s /\ r[j] = s[From(j)] /\ (j <= i \/ ~(j <= i + Len(u)))
      <4>1. From(k) \in DOMAIN s /\ r[k] = s[From(k)] /\ (k <= i \/ ~(k <= i + Len(u)))
        BY <2>1, <2>4, <2>5, <3>1
      <4>2. From(j) = From(k)
        BY <2>2, <2>5, <3>1, <4>1
      <4> QED BY <1>2, <3>1, <4>1, <4>2
    <3>2. CASE j - i \in DOMAIN u /\ r[j] = u[j - i] /\ ~(j <= i) /\ j <= i + Len(u)
      <4>1. k - i \in DOMAIN u /\ r[k] = u[k - i]
        BY <2>1, <2>4, <2>5, <3>2
      <4>2. j - i = k - i
        BY <2>3, <2>5, <3>2, <4>1
      <4> QED BY <1>2, <4>2
    <3> QED BY <2>4, <3>1, <3>2
  <2> QED BY <2>5 DEF IsInjective
<1> QED BY <1>1, <1>4, <1>5, <1>6, <1>7

LEMMA IndexOfIs ==
    ASSUME NEW s, NEW x \in ToSet(s)
    PROVE  IndexOf(s, x) \in DOMAIN s /\ s[IndexOf(s, x)] = x
BY DEF IndexOf, ToSet

LEMMA OneElement ==
    ASSUME NEW S, NEW x \in S
    PROVE  <<x>> \in Seq(S) /\ Len(<<x>>) = 1 /\ ToSet(<<x>>) = {x} /\ IsInjective(<<x>>)
<1>1. <<x>> \in Seq(S) /\ Len(<<x>>) = 1 /\ DOMAIN <<x>> = {1} /\ <<x>>[1] = x
  OBVIOUS
<1> QED BY <1>1 DEF ToSet, IsInjective

LEMMA InsertAtHolds ==
    ASSUME NEW S, NEW s \in Seq(S), NEW x \in S, NEW k \in 1..Len(s) + 1
    PROVE  /\ InsertAt(s, k, x) \in Seq(S)
           /\ ToSet(InsertAt(s, k, x)) = ToSet(s) \cup {x}
           /\ IsInjective(s) /\ x \notin ToSet(s) => IsInjective(InsertAt(s, k, x))
<1>1. Len(s) \in Nat
  BY LenProperties
<1>2. k - 1 \in 0..Len(s) /\ k - 1 + 1 = k
  BY <1>1
<1>3. InsertAt(s, k, x) = Spliced(s, k - 1, <<x>>)
  BY <1>2 DEF InsertAt, Spliced
<1>4. <<x>> \in Seq(S) /\ ToSet(<<x>>) = {x} /\ IsInjective(<<x>>)
  BY OneElement
<1>5. /\ Spliced(s, k - 1, <<x>>) \in Seq(S)
      /\ ToSet(Spliced(s, k - 1, <<x>>)) = ToSet(s) \cup ToSet(<<x>>)
      /\ IsInjective(s) /\ IsInjective(<<x>>) /\ ToSet(s) \cap ToSet(<<x>>) = {}
         => IsInjective(Spliced(s, k - 1, <<x>>))
  BY <1>2, <1>4, SplicedAt, SplicedHolds
<1> QED BY <1>3, <1>4, <1>5

LEMMA AppendHolds ==
    ASSUME NEW S, NEW s \in Seq(S), NEW x \in S
    PROVE  /\ Append(s, x) \in Seq(S)
           /\ ToSet(Append(s, x)) = ToSet(s) \cup {x}
           /\ IsInjective(s) /\ x \notin ToSet(s) => IsInjective(Append(s, x))
<1>1. /\ Append(s, x) \in Seq(S) /\ Len(Append(s, x)) = Len(s) + 1 /\ Len(s) \in Nat
      /\ \A i \in 1..Len(s) : Append(s, x)[i] = s[i]
      /\ Append(s, x)[Len(s) + 1] = x
  BY AppendProperties, LenProperties
<1>2. DOMAIN s = 1..Len(s) /\ DOMAIN Append(s, x) = (1..Len(s)) \cup {Len(s) + 1}
  BY <1>1, LenProperties
<1>3. PICK r : r = Append(s, x)
  OBVIOUS
<1>4. ToSet(r) = ToSet(s) \cup {x}
  BY <1>1, <1>2, <1>3 DEF ToSet
<1>5. IsInjective(s) /\ x \notin ToSet(s) => IsInjective(r)
  BY <1>1, <1>2, <1>3 DEF ToSet, IsInjective
<1> QED BY <1>1, <1>3, <1>4, <1>5

LEMMA RemoveFirstHolds ==
    ASSUME NEW S, NEW s \in Seq(S), NEW x, IsInjective(s)
    PROVE  /\ RemoveFirst(s, x) \in Seq(S)
           /\ ToSet(RemoveFirst(s, x)) = ToSet(s) \ {x}
           /\ IsInjective(RemoveFirst(s, x))
           /\ x \in ToSet(s) => Len(RemoveFirst(s, x)) = Len(s) - 1
           /\ x \notin ToSet(s) => RemoveFirst(s, x) = s
<1>1. Len(s) \in Nat /\ DOMAIN s = 1..Len(s) /\ \A j \in 1..Len(s) : s[j] \in S
  BY LenProperties, ElementOfSeq
<1>2. CASE x \notin ToSet(s)
  <2>1. ~\E i \in 1..Len(s) : s[i] = x
    BY <1>1, <1>2 DEF ToSet
  <2>2. RemoveFirst(s, x) = s
    BY <2>1 DEF RemoveFirst
  <2> QED BY <1>2, <2>2
<1>3. CASE x \in ToSet(s)
  <2>1. PICK i \in 1..Len(s) : s[i] = x
    BY <1>1, <1>3 DEF ToSet
  <2>2. \A j \in 1..Len(s) : s[j] = x => j = i
    BY <1>1, <2>1 DEF IsInjective
  <2>3. {j \in 1..Len(s) : s[j] = x} = {i}
    BY <2>1, <2>2
  <2>4. SelectInSeq(s, LAMBDA v : v = x) = Min({i})
    BY <2>3 DEF SelectInSeq
  <2>5. Min({i}) = i
    BY <1>1, <2>1 DEF Min
  <2>6. PICK r : r = SubSeq(s, 1, i - 1) \o SubSeq(s, i + 1, Len(s))
    OBVIOUS
  <2>7. RemoveFirst(s, x) = r
    BY <2>1, <2>4, <2>5, <2>6 DEF RemoveFirst, RemoveAt
  <2>8. PICK a, c : a = SubSeq(s, 1, i - 1) /\ c = SubSeq(s, i + 1, Len(s))
    OBVIOUS
  <2>9. a \in Seq(S) /\ Len(a) = i - 1 /\ \A j \in 1..i - 1 : a[j] = s[j]
    <3>1. \A j \in 1..i - 1 : s[j] \in S
      BY <1>1
    <3>2. /\ a \in Seq(S) /\ Len(a) = (IF 1 <= i - 1 THEN i - 1 - 1 + 1 ELSE 0)
          /\ \A j \in 1..i - 1 - 1 + 1 : a[j] = s[1 + j - 1]
      BY <2>8, <3>1, SubSeqProperties
    <3>3. Len(a) = i - 1
      BY <1>1, <3>2
    <3>4. ASSUME NEW j \in 1..i - 1 PROVE a[j] = s[j]
      <4>1. j \in 1..i - 1 - 1 + 1 /\ 1 + j - 1 = j
        BY <1>1
      <4> QED BY <3>2, <4>1
    <3> QED BY <3>2, <3>3, <3>4
  <2>10. c \in Seq(S) /\ Len(c) = Len(s) - i /\ \A j \in 1..Len(s) - i : c[j] = s[i + j]
    <3>1. \A j \in i + 1..Len(s) : s[j] \in S
      BY <1>1
    <3>2. /\ c \in Seq(S) /\ Len(c) = (IF i + 1 <= Len(s) THEN Len(s) - (i + 1) + 1 ELSE 0)
          /\ \A j \in 1..Len(s) - (i + 1) + 1 : c[j] = s[i + 1 + j - 1]
      BY <1>1, <2>8, <3>1, SubSeqProperties
    <3>3. Len(c) = Len(s) - i
      <4>1. Len(c) = (IF i + 1 <= Len(s) THEN Len(s) - (i + 1) + 1 ELSE 0)
        BY <3>2
      <4>2. Len(s) \in Nat
        BY <1>1
      <4> QED BY <4>1, <4>2
    <3>4. ASSUME NEW j \in 1..Len(s) - i PROVE c[j] = s[i + j]
      <4>1. j \in 1..Len(s) - (i + 1) + 1 /\ i + 1 + j - 1 = i + j
        BY <1>1
      <4> QED BY <3>2, <4>1
    <3> QED BY <3>2, <3>3, <3>4
  <2>11. r = a \o c
    BY <2>6, <2>8
  <2>12. /\ r \in Seq(S) /\ Len(r) = Len(a) + Len(c)
         /\ \A j \in 1..Len(a) + Len(c) : r[j] = IF j <= Len(a) THEN a[j] ELSE c[j - Len(a)]
    BY <2>9, <2>10, <2>11, ConcatProperties
  <2>13. Len(r) = Len(s) - 1 /\ Len(a) + Len(c) = Len(s) - 1
    <3>1. i - 1 + (Len(s) - i) = Len(s) - 1
      BY <1>1
    <3> QED BY <2>9, <2>10, <2>12, <3>1
  <2>14. \A j \in 1..Len(s) - 1 : r[j] = IF j < i THEN s[j] ELSE s[j + 1]
    <3> TAKE j \in 1..Len(s) - 1
    <3>1. r[j] = IF j <= i - 1 THEN a[j] ELSE c[j - (i - 1)]
      BY <2>9, <2>12, <2>13
    <3>2. CASE j < i
      BY <1>1, <2>9, <3>1, <3>2
    <3>3. CASE ~(j < i)
      <4>1. PICK k : k = j - (i - 1)
        OBVIOUS
      <4>2. k \in 1..Len(s) - i /\ i + k = j + 1 /\ ~(j <= i - 1)
        BY <1>1, <3>3, <4>1
      <4>3. c[k] = s[i + k]
        BY <2>10, <4>2
      <4> QED BY <3>1, <3>3, <4>1, <4>2, <4>3
    <3> QED BY <3>2, <3>3
  <2>15. DOMAIN r = 1..Len(s) - 1
    BY <2>12, <2>13, LenProperties
  <2> DEFINE From(j) == IF j < i THEN j ELSE j + 1
  <2>16. \A j \in DOMAIN r : From(j) \in DOMAIN s /\ From(j) # i /\ r[j] = s[From(j)]
    BY <1>1, <2>14, <2>15
  <2>17. ToSet(r) \subseteq ToSet(s) \ {x}
    <3>1. ASSUME NEW j \in DOMAIN r PROVE r[j] \in ToSet(s) /\ r[j] # x
      BY <1>1, <2>2, <2>16 DEF ToSet
    <3> QED BY <3>1 DEF ToSet
  <2>18. ToSet(s) \ {x} \subseteq ToSet(r)
    <3>1. ASSUME NEW j \in DOMAIN s, s[j] # x PROVE \E k \in DOMAIN r : r[k] = s[j]
      <4>1. j # i
        BY <2>1, <3>1
      <4>2. CASE j < i
        <5>1. j \in DOMAIN r /\ r[j] = s[j]
          BY <1>1, <2>14, <2>15, <4>2
        <5> QED BY <5>1
      <4>3. CASE ~(j < i)
        <5>1. PICK k : k = j - 1
          OBVIOUS
        <5>2. k \in 1..Len(s) - 1 /\ ~(k < i) /\ k + 1 = j
          BY <1>1, <4>1, <4>3, <5>1
        <5> QED BY <2>14, <2>15, <5>2
      <4> QED BY <4>2, <4>3
    <3> QED BY <3>1 DEF ToSet
  <2>19. IsInjective(r)
    <3>1. ASSUME NEW j \in DOMAIN r, NEW k \in DOMAIN r, r[j] = r[k]
          PROVE  j = k
      <4>1. From(j) = From(k)
        BY <2>16, <3>1 DEF IsInjective
      <4> QED BY <2>15, <4>1, <1>1
    <3> QED BY <3>1 DEF IsInjective
  <2> QED BY <1>3, <2>7, <2>12, <2>13, <2>17, <2>18, <2>19
<1> QED BY <1>2, <1>3

-----------------------------------------------------------------------------
(* Trees that lose nodes, get nodes, and hold a node that was held nowhere. *)

Nested(t) == t \in Seq(Seq(DOMAIN t))
Rootless(t, S) == \E n \in S : \A m \in S : n \notin ToSet(t[m])

LEMMA TreeIs ==
    ASSUME NEW t, IsTree(t)
    PROVE  /\ Nested(t) /\ Len(t) \in Nat /\ DOMAIN t = 1..Len(t) /\ Section \in DOMAIN t
           /\ \A m \in DOMAIN t : /\ t[m] \in Seq(DOMAIN t) /\ IsInjective(t[m])
                                  /\ ToSet(t[m]) \subseteq DOMAIN t
                                  /\ Section \notin ToSet(t[m])
           /\ \A m, n \in DOMAIN t : m # n => ToSet(t[m]) \cap ToSet(t[n]) = {}
           /\ \A S \in SUBSET DOMAIN t : S # {} => Rootless(t, S)
<1>1. t \in Seq(Seq(DOMAIN t)) /\ Section \in DOMAIN t
  BY DEF IsTree
<1>2. Len(t) \in Nat /\ DOMAIN t = 1..Len(t)
  BY <1>1, LenProperties
<1>3. ASSUME NEW m \in DOMAIN t PROVE t[m] \in Seq(DOMAIN t) /\ ToSet(t[m]) \subseteq DOMAIN t
  <2>1. t[m] \in Seq(DOMAIN t)
    BY <1>1, <1>2, ElementOfSeq
  <2>2. DOMAIN t[m] = 1..Len(t[m]) /\ \A i \in 1..Len(t[m]) : t[m][i] \in DOMAIN t
    BY <2>1, LenProperties, ElementOfSeq
  <2> QED BY <2>1, <2>2 DEF ToSet
<1> QED BY <1>1, <1>2, <1>3 DEF IsTree, Nested, Rootless

LEMMA TreeFrom ==
    ASSUME NEW t, Nested(t), Section \in DOMAIN t,
           \A m \in DOMAIN t : IsInjective(t[m]) /\ Section \notin ToSet(t[m]),
           \A m, n \in DOMAIN t : m # n => ToSet(t[m]) \cap ToSet(t[n]) = {},
           \A S \in SUBSET DOMAIN t : S # {} => Rootless(t, S)
    PROVE  IsTree(t)
BY DEF IsTree, Nested, Rootless

\* A tree without some of its edges.
LEMMA LesserTree ==
    ASSUME NEW t, IsTree(t), NEW r, Nested(r), DOMAIN r = DOMAIN t,
           \A m \in DOMAIN t : IsInjective(r[m]) /\ ToSet(r[m]) \subseteq ToSet(t[m])
    PROVE  IsTree(r)
<1>1. \A m \in DOMAIN r : IsInjective(r[m]) /\ Section \notin ToSet(r[m])
  BY TreeIs
<1>2. \A m, n \in DOMAIN r : m # n => ToSet(r[m]) \cap ToSet(r[n]) = {}
  BY TreeIs
<1>3. \A S \in SUBSET DOMAIN r : S # {} => Rootless(r, S)
  BY TreeIs DEF Rootless
<1>4. Section \in DOMAIN r
  BY TreeIs
<1> QED BY <1>1, <1>2, <1>3, <1>4, TreeFrom

\* A tree in which p holds x as well, which nothing held, and B, which holds
\* whatever its nodes hold, is hung up with x.
LEMMA GraftedTree ==
    ASSUME NEW t, IsTree(t), NEW r, Nested(r), DOMAIN r = DOMAIN t,
           NEW p \in DOMAIN t, NEW x \in DOMAIN t, x # Section,
           \A m \in DOMAIN t : x \notin ToSet(t[m]),
           IsInjective(r[p]), ToSet(r[p]) = ToSet(t[p]) \cup {x},
           \A m \in DOMAIN t : m # p => r[m] = t[m],
           NEW B, x \in B, p \notin B, \A m \in DOMAIN t : m \in B => ToSet(t[m]) \subseteq B
    PROVE  IsTree(r)
<1>1. \A m \in DOMAIN r : IsInjective(r[m]) /\ Section \notin ToSet(r[m])
  BY TreeIs
<1>2. \A m, n \in DOMAIN r : m # n => ToSet(r[m]) \cap ToSet(r[n]) = {}
  <2>1. \A m \in DOMAIN t : ToSet(r[m]) = ToSet(t[m]) \/ (m = p /\ ToSet(r[m]) = ToSet(t[m]) \cup {x})
    OBVIOUS
  <2>2. \A m, n \in DOMAIN t : m # n => ToSet(t[m]) \cap ToSet(t[n]) = {}
    BY TreeIs
  <2> QED BY <2>1, <2>2
<1>3. ASSUME NEW S \in SUBSET DOMAIN r, S # {} PROVE Rootless(r, S)
  <2>1. CASE S \subseteq B
    <3>1. Rootless(t, S)
      BY <1>3, TreeIs
    <3>2. \A m \in S : r[m] = t[m]
      BY <2>1
    <3> QED BY <3>1, <3>2 DEF Rootless
  <2>2. CASE ~(S \subseteq B)
    <3>1. Rootless(t, S \ B)
      <4>1. S \ B \in SUBSET DOMAIN t /\ S \ B # {}
        BY <2>2
      <4> QED BY <4>1, TreeIs
    <3>2. PICK n \in S \ B : \A m \in S \ B : n \notin ToSet(t[m])
      BY <3>1 DEF Rootless
    <3>3. \A m \in S : n \notin ToSet(t[m])
      BY <3>2
    <3>4. \A m \in S : n \notin ToSet(r[m])
      BY <3>2, <3>3
    <3> QED BY <3>2, <3>4 DEF Rootless
  <2> QED BY <2>1, <2>2
<1>4. Section \in DOMAIN r
  BY TreeIs
<1> QED BY <1>1, <1>2, <1>3, <1>4, TreeFrom

\* A tree and, behind it, nodes that hold each other only.
LEMMA GrownTree ==
    ASSUME NEW t, IsTree(t), NEW r, Nested(r), DOMAIN t \subseteq DOMAIN r,
           \A m \in DOMAIN t : r[m] = t[m],
           \A m \in DOMAIN r \ DOMAIN t :
              IsInjective(r[m]) /\ ToSet(r[m]) \subseteq DOMAIN r \ DOMAIN t,
           \A m, n \in DOMAIN r \ DOMAIN t : m # n => ToSet(r[m]) \cap ToSet(r[n]) = {},
           \A S \in SUBSET (DOMAIN r \ DOMAIN t) : S # {} => Rootless(r, S)
    PROVE  IsTree(r)
<1>0. Section \in DOMAIN t
  BY TreeIs
<1>1. \A m \in DOMAIN r : IsInjective(r[m]) /\ Section \notin ToSet(r[m])
  BY <1>0, TreeIs
<1>2. \A m \in DOMAIN t : ToSet(r[m]) \subseteq DOMAIN t
  BY TreeIs
<1>3. \A m, n \in DOMAIN r : m # n => ToSet(r[m]) \cap ToSet(r[n]) = {}
  BY <1>2, TreeIs
<1>4. ASSUME NEW S \in SUBSET DOMAIN r, S # {} PROVE Rootless(r, S)
  <2>1. CASE S \cap DOMAIN t = {}
    <3>1. S \in SUBSET (DOMAIN r \ DOMAIN t)
      BY <2>1
    <3> QED BY <1>4, <3>1
  <2>2. CASE S \cap DOMAIN t # {}
    <3>1. Rootless(t, S \cap DOMAIN t)
      BY <2>2, TreeIs
    <3>2. PICK n \in S \cap DOMAIN t : \A m \in S \cap DOMAIN t : n \notin ToSet(t[m])
      BY <3>1 DEF Rootless
    <3>3. \A m \in S : n \notin ToSet(r[m])
      BY <3>2
    <3> QED BY <3>2, <3>3 DEF Rootless
  <2> QED BY <2>1, <2>2
<1> QED BY <1>0, <1>1, <1>3, <1>4, TreeFrom

\* Whoever holds a node of a tree is its parent.
LEMMA UpIs ==
    ASSUME NEW t, IsTree(t), NEW m \in DOMAIN t, NEW n \in ToSet(t[m])
    PROVE  Up(t, n) = m
<1>1. \A a \in DOMAIN t : Contains(t[a], n) <=> n \in ToSet(t[a])
  <2> TAKE a \in DOMAIN t
  <2>1. DOMAIN t[a] = 1..Len(t[a])
    BY TreeIs, LenProperties
  <2> QED BY <2>1 DEF Contains, ToSet
<1>2. \A a \in DOMAIN t : n \in ToSet(t[a]) => a = m
  BY TreeIs
<1> QED BY <1>1, <1>2 DEF Up

LEMMA DropIs ==
    ASSUME NEW t, IsTree(t), NEW p \in DOMAIN t, NEW n \in ToSet(t[p])
    PROVE  /\ IsTree(Drop(t, n)) /\ DOMAIN Drop(t, n) = DOMAIN t /\ Len(Drop(t, n)) = Len(t)
           /\ \A m \in DOMAIN t : ToSet(Drop(t, n)[m]) = ToSet(t[m]) \ {n}
           /\ \A m \in DOMAIN t : m # p => Drop(t, n)[m] = t[m]
           /\ Drop(t, n)[p] = RemoveFirst(t[p], n)
<1>1. PICK r : r = [t EXCEPT ![p] = RemoveFirst(@, n)]
  OBVIOUS
<1>2. Drop(t, n) = r
  BY <1>1, UpIs DEF Drop
<1>3. /\ Len(t) \in Nat /\ DOMAIN t = 1..Len(t)
      /\ \A m \in DOMAIN t : t[m] \in Seq(DOMAIN t) /\ IsInjective(t[m])
      /\ t \in Seq(Seq(DOMAIN t))
  BY TreeIs DEF Nested
<1>4. PICK u : u = RemoveFirst(t[p], n)
  OBVIOUS
<1>5. u \in Seq(DOMAIN t) /\ ToSet(u) = ToSet(t[p]) \ {n} /\ IsInjective(u)
  BY <1>3, <1>4, RemoveFirstHolds
<1>6. r = [t EXCEPT ![p] = u]
  BY <1>1, <1>4
<1>7. r \in Seq(Seq(DOMAIN t)) /\ Len(r) = Len(t) /\ \A m \in DOMAIN t : r[m] = IF m = p THEN u ELSE t[m]
  BY <1>3, <1>5, <1>6, ExceptSeq
<1>8. DOMAIN r = DOMAIN t
  BY <1>3, <1>7, LenProperties
<1>9. \A m \in DOMAIN t : ToSet(r[m]) = ToSet(t[m]) \ {n}
  <2> TAKE m \in DOMAIN t
  <2>1. CASE m = p
    BY <1>5, <1>7, <2>1
  <2>2. CASE m # p
    <3>1. n \notin ToSet(t[m])
      BY <2>2, TreeIs
    <3> QED BY <1>7, <2>2, <3>1
  <2> QED BY <2>1, <2>2
<1>10. IsTree(r)
  <2>1. Nested(r)
    BY <1>7, <1>8 DEF Nested
  <2>2. \A m \in DOMAIN t : IsInjective(r[m]) /\ ToSet(r[m]) \subseteq ToSet(t[m])
    BY <1>3, <1>5, <1>7, <1>9
  <2> QED BY <1>8, <2>1, <2>2, LesserTree
<1> QED BY <1>2, <1>4, <1>7, <1>8, <1>9, <1>10

-----------------------------------------------------------------------------
(* The walk of a subtree.                                                  *)

\* What s is after i visits from n: without repetition, its first i nodes followed
\* by what they hold, and every node but n held by one of these.
Walked(t, n, s, i) ==
    /\ s \in Seq(DOMAIN t) /\ IsInjective(s)
    /\ Len(s) > 0 /\ s[1] = n
    /\ \A j \in DOMAIN s : j <= i => ToSet(t[s[j]]) \subseteq ToSet(s)
    /\ \A x \in ToSet(s) \ {n} : \E j \in DOMAIN s : j <= i /\ x \in ToSet(t[s[j]])

LEMMA VisitTyped ==
    ASSUME NEW t, IsTree(t), NEW s \in Seq(DOMAIN t), NEW i \in Nat \ {0}
    PROVE  Visit(t, s, i) \in Seq(DOMAIN t)
<1>1. CASE i > Len(s)
  BY <1>1 DEF Visit
<1>2. CASE ~(i > Len(s))
  <2>1. i \in 0..Len(s) /\ i \in 1..Len(s)
    BY <1>2, LenProperties
  <2>2. s[i] \in DOMAIN t
    BY <2>1, ElementOfSeq
  <2>3. t[s[i]] \in Seq(DOMAIN t)
    BY <2>2, TreeIs
  <2>4. Visit(t, s, i) = Spliced(s, i, t[s[i]])
    BY <1>2 DEF Visit, Spliced
  <2> QED BY <2>1, <2>3, <2>4, SplicedAt
<1> QED BY <1>1, <1>2

LEMMA VisitWalks ==
    ASSUME NEW t, IsTree(t), NEW n \in DOMAIN t, NEW s, NEW i \in Nat, Walked(t, n, s, i)
    PROVE  Walked(t, n, Visit(t, s, i + 1), i + 1)
<1>1. /\ s \in Seq(DOMAIN t) /\ IsInjective(s) /\ Len(s) \in Nat /\ DOMAIN s = 1..Len(s)
      /\ Len(s) > 0 /\ s[1] = n
      /\ \A j \in DOMAIN s : s[j] \in DOMAIN t
  BY LenProperties, ElementOfSeq DEF Walked
<1>2. CASE i + 1 > Len(s)
  <2>1. Visit(t, s, i + 1) = s
    BY <1>2 DEF Visit
  <2>2. \A j \in DOMAIN s : j <= i + 1 => j <= i
    BY <1>1, <1>2
  <2>3. \A j \in DOMAIN s : j <= i => j <= i + 1
    BY <1>1
  <2> QED BY <2>1, <2>2, <2>3 DEF Walked
<1>3. CASE ~(i + 1 > Len(s))
  <2>1. PICK h : h = s[i + 1]
    OBVIOUS
  <2>2. PICK u : u = t[h]
    OBVIOUS
  <2>3. PICK r : r = Spliced(s, i + 1, u)
    OBVIOUS
  <2>4. i + 1 \in DOMAIN s /\ i + 1 \in 0..Len(s) /\ h \in DOMAIN t /\ h \in ToSet(s)
    BY <1>1, <1>3, <2>1 DEF ToSet
  <2>5. u \in Seq(DOMAIN t) /\ IsInjective(u)
    BY <2>2, <2>4, TreeIs
  <2>6. Visit(t, s, i + 1) = r
    BY <1>3, <2>1, <2>2, <2>3 DEF Visit, Spliced
  <2>7. ToSet(s) \subseteq DOMAIN t
    BY <1>1 DEF ToSet
  <2>8. ToSet(s) \cap ToSet(u) = {}
    <3> SUFFICES ASSUME NEW x \in ToSet(s), x \in ToSet(u) PROVE FALSE
      OBVIOUS
    <3>1. CASE x = n
      <4>1. \A y \in ToSet(s) : \E m \in ToSet(s) : y \in ToSet(t[m])
        <5> TAKE y \in ToSet(s)
        <5>1. CASE y = n
          BY <2>2, <2>4, <3>1, <5>1
        <5>2. CASE y # n
          <6>1. PICK j \in DOMAIN s : y \in ToSet(t[s[j]])
            BY <5>2 DEF Walked
          <6> QED BY <6>1 DEF ToSet
        <5> QED BY <5>1, <5>2
      <4>2. ~Rootless(t, ToSet(s))
        BY <4>1 DEF Rootless
      <4> QED BY <2>4, <2>7, <4>2, TreeIs
    <3>2. CASE x # n
      <4>1. PICK j \in DOMAIN s : j <= i /\ x \in ToSet(t[s[j]])
        BY <3>2 DEF Walked
      <4>2. s[j] = h
        BY <1>1, <2>2, <2>4, <4>1, TreeIs
      <4>3. j = i + 1
        BY <1>1, <2>1, <2>4, <4>1, <4>2 DEF IsInjective
      <4> QED BY <1>1, <4>1, <4>3
    <3> QED BY <3>1, <3>2
  <2>9. /\ r \in Seq(DOMAIN t) /\ Len(r) = Len(s) + Len(u)
        /\ ToSet(r) = ToSet(s) \cup ToSet(u) /\ IsInjective(r)
    <3>1. i + 1 \in 0..Len(s) /\ s \in Seq(DOMAIN t) /\ u \in Seq(DOMAIN t)
      BY <1>1, <2>4, <2>5
    <3>2. /\ Spliced(s, i + 1, u) \in Seq(DOMAIN t)
          /\ Len(Spliced(s, i + 1, u)) = Len(s) + Len(u)
      BY <3>1, SplicedAt
    <3>3. /\ ToSet(Spliced(s, i + 1, u)) = ToSet(s) \cup ToSet(u)
          /\ IsInjective(s) /\ IsInjective(u) /\ ToSet(s) \cap ToSet(u) = {}
             => IsInjective(Spliced(s, i + 1, u))
      BY <3>1, SplicedHolds
    <3> QED BY <1>1, <2>3, <2>5, <2>8, <3>2, <3>3
  <2>10. Len(u) \in Nat /\ DOMAIN r = 1..Len(s) + Len(u)
    BY <2>5, <2>9, LenProperties
  <2>11. \A j \in 1..i + 1 : j \in DOMAIN s /\ j \in DOMAIN r /\ r[j] = s[j]
    <3>1. \A j \in 1..Len(s) + Len(u) :
             r[j] = IF j <= i + 1 THEN s[j]
                    ELSE IF j <= i + 1 + Len(u) THEN u[j - (i + 1)] ELSE s[j - Len(u)]
      BY <1>1, <2>3, <2>4, <2>5, SplicedAt
    <3> QED BY <1>1, <2>4, <2>10, <3>1
  <2>12. r[1] = n /\ Len(r) > 0
    BY <1>1, <2>9, <2>10, <2>11
  <2>13. \A j \in DOMAIN r : j <= i + 1 => ToSet(t[r[j]]) \subseteq ToSet(r)
    <3> SUFFICES ASSUME NEW j \in DOMAIN r, j <= i + 1 PROVE ToSet(t[r[j]]) \subseteq ToSet(r)
      OBVIOUS
    <3>1. j \in 1..i + 1 /\ j \in DOMAIN s /\ r[j] = s[j]
      BY <2>10, <2>11
    <3>2. CASE j = i + 1
      BY <2>1, <2>2, <2>9, <3>1, <3>2
    <3>3. CASE j # i + 1
      <4>1. j <= i
        BY <3>1, <3>3
      <4>2. ToSet(t[s[j]]) \subseteq ToSet(s)
        BY <3>1, <4>1 DEF Walked
      <4> QED BY <2>9, <3>1, <4>2
    <3> QED BY <3>2, <3>3
  <2>14. ASSUME NEW x \in ToSet(r) \ {n}
         PROVE  \E j \in DOMAIN r : j <= i + 1 /\ x \in ToSet(t[r[j]])
    <3>1. CASE x \in ToSet(u)
      <4>1. i + 1 \in DOMAIN r /\ r[i + 1] = h
        BY <2>1, <2>11
      <4> QED BY <2>2, <3>1, <4>1
    <3>2. CASE x \in ToSet(s)
      <4>1. PICK j \in DOMAIN s : j <= i /\ x \in ToSet(t[s[j]])
        BY <3>2 DEF Walked
      <4>2. j \in 1..i + 1 /\ j <= i + 1
        BY <1>1, <4>1
      <4> QED BY <2>11, <4>1, <4>2
    <3> QED BY <2>9, <3>1, <3>2
  <2>15. Walked(t, n, r, i + 1)
    BY <2>9, <2>12, <2>13, <2>14 DEF Walked
  <2> QED BY <2>6, <2>15
<1> QED BY <1>2, <1>3

LEMMA WalkDefined ==
    ASSUME NEW t, IsTree(t), NEW n \in DOMAIN t
    PROVE  \E f : f = [i \in 0..Len(t) |-> IF i = 0 THEN <<n>> ELSE Visit(t, f[i - 1], i)]
<1>1. PICK S : S = Seq(DOMAIN t)
  OBVIOUS
<1>2. PICK G : G = [i \in Nat |-> [s \in S |-> IF i = 0 THEN s ELSE Visit(t, s, i)]]
  OBVIOUS
<1>3. Len(t) \in Nat /\ <<n>> \in S
  BY <1>1, TreeIs
<1>4. G \in [Nat -> [S -> S]]
  <2>1. \A i \in Nat, s \in S : (IF i = 0 THEN s ELSE Visit(t, s, i)) \in S
    BY <1>1, VisitTyped
  <2> QED BY <1>2, <2>1
<1>5. PICK f : Recurrent(f, S, <<n>>, G, Len(t))
  BY <1>3, <1>4, Defined
<1>6. f \in [0..Len(t) -> S] /\ f[0] = <<n>> /\ \A i \in 1..Len(t) : f[i] = G[i][f[i - 1]]
  BY <1>5 DEF Recurrent
<1>7. ASSUME NEW i \in 0..Len(t) PROVE f[i] = IF i = 0 THEN <<n>> ELSE Visit(t, f[i - 1], i)
  <2>1. CASE i = 0
    BY <1>6, <2>1
  <2>2. CASE i # 0
    <3>1. i \in 1..Len(t) /\ i \in Nat /\ i - 1 \in 0..Len(t)
      BY <1>3, <2>2
    <3>2. f[i - 1] \in S
      BY <1>6, <3>1
    <3>3. G[i][f[i - 1]] = Visit(t, f[i - 1], i)
      BY <1>2, <2>2, <3>1, <3>2
    <3> QED BY <1>6, <2>2, <3>1, <3>3
  <2> QED BY <2>1, <2>2
<1>8. f = [i \in 0..Len(t) |-> IF i = 0 THEN <<n>> ELSE Visit(t, f[i - 1], i)]
  BY <1>6, <1>7
<1> QED BY <1>8

\* A sequence without repetition is no longer than what it is drawn from.
LEMMA NoLonger ==
    ASSUME NEW k \in Nat, NEW s \in Seq(1..k), IsInjective(s)
    PROVE  Len(s) <= k
<1>1. Len(s) \in Nat /\ DOMAIN s = 1..Len(s) /\ s \in [1..Len(s) -> 1..k]
  BY LenProperties
<1>2. IsFiniteSet(1..Len(s)) /\ Cardinality(1..Len(s)) = Len(s)
  <2>1. 1 \in Int /\ Len(s) \in Int
    BY <1>1
  <2>2. IsFiniteSet(1..Len(s)) /\ Cardinality(1..Len(s)) = IF 1 > Len(s) THEN 0 ELSE Len(s) - 1 + 1
    BY <2>1, FS_Interval
  <2>3. (IF 1 > Len(s) THEN 0 ELSE Len(s) - 1 + 1) = Len(s)
    BY <1>1
  <2> QED BY <2>2, <2>3
<1>3. IsFiniteSet(1..k) /\ Cardinality(1..k) = k
  <2>1. 1 \in Int /\ k \in Int
    OBVIOUS
  <2>2. Cardinality(1..k) = IF 1 > k THEN 0 ELSE k - 1 + 1
    BY <2>1, FS_Interval
  <2> QED BY <2>1, <2>2, FS_Interval
<1>4. \A i, j \in 1..Len(s) : s[i] = s[j] => i = j
  BY <1>1 DEF IsInjective
<1>5. s \in Injection(1..Len(s), 1..k)
  BY <1>1, <1>4 DEF Injection
<1>6. Cardinality(1..Len(s)) <= Cardinality(1..k)
  BY <1>3, <1>5, FS_Injection
<1> QED BY <1>2, <1>3, <1>6

LEMMA BelowIs ==
    ASSUME NEW t, IsTree(t), NEW n \in DOMAIN t
    PROVE  /\ Below(t, n) \in Seq(DOMAIN t) /\ IsInjective(Below(t, n))
           /\ Len(Below(t, n)) > 0 /\ Below(t, n)[1] = n
           /\ \A m \in ToSet(Below(t, n)) : ToSet(t[m]) \subseteq ToSet(Below(t, n)) \ {n}
           /\ \A x \in ToSet(Below(t, n)) \ {n} : \E m \in ToSet(Below(t, n)) : x \in ToSet(t[m])
<1> DEFINE walk == CHOOSE f : f = [i \in 0..Len(t) |-> IF i = 0 THEN <<n>> ELSE Visit(t, f[i - 1], i)]
<1>1. walk = [i \in 0..Len(t) |-> IF i = 0 THEN <<n>> ELSE Visit(t, walk[i - 1], i)]
  BY WalkDefined
<1>2. Below(t, n) = walk[Len(t)]
  BY DEF Below
<1> HIDE DEF walk
<1>3. Len(t) \in Nat
  BY TreeIs
<1>4. walk[0] = <<n>> /\ \A i \in 0..Len(t) : i # 0 => walk[i] = Visit(t, walk[i - 1], i)
  <2>1. 0 \in 0..Len(t)
    BY <1>3
  <2> QED BY <1>1, <2>1
<1> DEFINE D == {i \in Nat : i <= Len(t) => Walked(t, n, walk[i], i)}
<1>5. 0 \in D
  <2>1. <<n>> \in Seq(DOMAIN t) /\ Len(<<n>>) = 1 /\ ToSet(<<n>>) = {n} /\ IsInjective(<<n>>)
    BY OneElement
  <2>2. \A j \in DOMAIN <<n>> : ~(j <= 0)
    OBVIOUS
  <2>3. Walked(t, n, <<n>>, 0)
    BY <2>1, <2>2 DEF Walked
  <2> QED BY <1>4, <2>3
<1>6. ASSUME NEW i \in Nat, i \in D PROVE i + 1 \in D
  <2> SUFFICES ASSUME i + 1 <= Len(t) PROVE Walked(t, n, walk[i + 1], i + 1)
    OBVIOUS
  <2>1. i <= Len(t) /\ i + 1 \in 0..Len(t) /\ i + 1 # 0 /\ i + 1 - 1 = i
    BY <1>3
  <2>2. walk[i + 1] = Visit(t, walk[i], i + 1)
    <3>1. PICK k : k = i + 1
      OBVIOUS
    <3>2. walk[k] = Visit(t, walk[k - 1], k)
      BY <1>4, <2>1, <3>1
    <3> QED BY <2>1, <3>1, <3>2
  <2>3. Walked(t, n, walk[i], i)
    BY <1>6, <2>1
  <2> QED BY <2>2, <2>3, VisitWalks
<1>7. Len(t) \in D
  <2> HIDE DEF D
  <2> QED BY <1>3, <1>5, <1>6, Induct
<1>8. PICK s : s = Below(t, n)
  OBVIOUS
<1>9. Walked(t, n, s, Len(t))
  BY <1>2, <1>3, <1>7, <1>8
<1> HIDE DEF D
<1>10. /\ s \in Seq(DOMAIN t) /\ IsInjective(s) /\ DOMAIN s = 1..Len(s) /\ Len(s) \in Nat
       /\ Len(s) > 0 /\ s[1] = n
  BY <1>9, LenProperties DEF Walked
<1>11. Len(s) <= Len(t)
  BY <1>3, <1>10, TreeIs, NoLonger
<1>12. \A j \in DOMAIN s : j <= Len(t)
  BY <1>3, <1>10, <1>11
<1>13. \A m \in ToSet(s) : ToSet(t[m]) \subseteq ToSet(s)
  <2>1. \A j \in DOMAIN s : ToSet(t[s[j]]) \subseteq ToSet(s)
    BY <1>9, <1>12 DEF Walked
  <2>2. \A m \in ToSet(s) : \E j \in DOMAIN s : m = s[j]
    BY DEF ToSet
  <2> QED BY <2>1, <2>2
<1>14. \A x \in ToSet(s) \ {n} : \E m \in ToSet(s) : x \in ToSet(t[m])
  BY <1>9 DEF Walked, ToSet
<1>15. \A m \in ToSet(s) : n \notin ToSet(t[m])
  <2> SUFFICES ASSUME \E m \in ToSet(s) : n \in ToSet(t[m]) PROVE FALSE
    OBVIOUS
  <2>1. ~Rootless(t, ToSet(s))
    BY <1>14 DEF Rootless
  <2>2. ToSet(s) \in SUBSET DOMAIN t /\ n \in ToSet(s)
    BY <1>10, ElementOfSeq DEF ToSet
  <2> QED BY <2>1, <2>2, TreeIs
<1> QED BY <1>8, <1>10, <1>13, <1>14, <1>15

-----------------------------------------------------------------------------
(* Siblings and positions.                                                 *)

LEMMA ConcatInjective ==
    ASSUME NEW S, NEW s \in Seq(S), NEW u \in Seq(S), IsInjective(s), IsInjective(u),
           ToSet(s) \cap ToSet(u) = {}
    PROVE  IsInjective(s \o u)
<1>1. /\ DOMAIN (s \o u) = 1..Len(s) + Len(u) /\ DOMAIN s = 1..Len(s) /\ DOMAIN u = 1..Len(u)
      /\ Len(s) \in Nat /\ Len(u) \in Nat
  BY ConcatProperties, LenProperties
<1>2. \A i \in DOMAIN (s \o u) : (s \o u)[i] = IF i <= Len(s) THEN s[i] ELSE u[i - Len(s)]
  BY <1>1, ConcatProperties
<1>3. \A i \in DOMAIN (s \o u) : /\ i <= Len(s) => i \in DOMAIN s
                                 /\ ~(i <= Len(s)) => i - Len(s) \in DOMAIN u
  BY <1>1
<1>4. \A i \in DOMAIN s, j \in DOMAIN u : s[i] # u[j]
  BY DEF ToSet
<1>5. \A i, j \in DOMAIN s : s[i] = s[j] => i = j
  BY DEF IsInjective
<1>6. \A i, j \in DOMAIN u : u[i] = u[j] => i = j
  BY DEF IsInjective
<1>7. ASSUME NEW i \in DOMAIN (s \o u), NEW j \in DOMAIN (s \o u), (s \o u)[i] = (s \o u)[j]
      PROVE  i = j
  <2>1. CASE i <= Len(s)
    <3>1. j <= Len(s)
      BY <1>2, <1>3, <1>4, <1>7, <2>1
    <3> QED BY <1>2, <1>3, <1>5, <1>7, <2>1, <3>1
  <2>2. CASE ~(i <= Len(s))
    <3>1. ~(j <= Len(s))
      BY <1>2, <1>3, <1>4, <1>7, <2>2
    <3>2. i - Len(s) = j - Len(s)
      BY <1>2, <1>3, <1>6, <1>7, <2>2, <3>1
    <3> QED BY <1>1, <3>2
  <2> QED BY <2>1, <2>2
<1> QED BY <1>7 DEF IsInjective

\* What FlattenSeq returns is without repetition if the sequences are, and share
\* nothing.
LEMMA FlattenInjective ==
    ASSUME NEW S, NEW ss \in Seq(Seq(S)), \A i \in DOMAIN ss : IsInjective(ss[i]),
           \A i, j \in DOMAIN ss : i # j => ToSet(ss[i]) \cap ToSet(ss[j]) = {}
    PROVE  IsInjective(FlattenSeq(ss))
<1>1. Len(ss) \in Nat /\ DOMAIN ss = 1..Len(ss) /\ \A i \in DOMAIN ss : ss[i] \in Seq(S)
  BY LenProperties, ElementOfSeq
<1>2. CASE Len(ss) = 0
  <2>1. ss = <<>>
    BY <1>2, EmptySeq
  <2>2. FlattenSeq(ss) = <<>>
    BY <1>2, <2>1 DEF FlattenSeq
  <2> QED BY <2>2 DEF IsInjective
<1>3. CASE Len(ss) # 0
  <2>1. PICK f : /\ FlattenSeq(ss) = f[Len(ss)]
                 /\ f[1] = ss[1]
                 /\ \A i \in 1..Len(ss) : i # 1 => f[i] = f[i - 1] \o ss[i]
    BY <1>1, <1>3, FlattenEquation
  <2> DEFINE U(n) == UNION {ToSet(ss[i]) : i \in 1..n}
             G(n) == f[n] \in Seq(S) /\ ToSet(f[n]) = U(n) /\ IsInjective(f[n])
             D == {n \in Nat : n \in 1..Len(ss) => G(n)}
  <2>2. 0 \in D
    OBVIOUS
  <2>3. ASSUME NEW n \in Nat, n \in D PROVE n + 1 \in D
    <3> SUFFICES ASSUME n + 1 \in 1..Len(ss) PROVE G(n + 1)
      OBVIOUS
    <3>1. U(n + 1) = U(n) \cup ToSet(ss[n + 1])
      <4>1. 1..n + 1 = (1..n) \cup {n + 1}
        OBVIOUS
      <4> QED BY <4>1
    <3>2. CASE n = 0
      BY <1>1, <2>1, <3>1, <3>2
    <3>3. CASE n # 0
      <4>1. n \in 1..Len(ss)
        BY <1>1, <3>3
      <4>2. f[n + 1] = f[n] \o ss[n + 1] /\ ss[n + 1] \in Seq(S) /\ IsInjective(ss[n + 1])
        <5>1. PICK k : k = n + 1
          OBVIOUS
        <5>2. k \in 1..Len(ss) /\ k # 1 /\ k - 1 = n
          BY <4>1, <5>1
        <5>3. f[k] = f[k - 1] \o ss[k]
          BY <2>1, <5>2, Zenon
        <5> QED BY <1>1, <5>1, <5>2, <5>3
      <4>3. f[n] \in Seq(S) /\ ToSet(f[n]) = U(n) /\ IsInjective(f[n])
        BY <2>3, <4>1
      <4>4. f[n] \o ss[n + 1] \in Seq(S) /\ ToSet(f[n] \o ss[n + 1]) = ToSet(f[n]) \cup ToSet(ss[n + 1])
        BY <4>2, <4>3, ConcatSet
      <4>5. U(n) \cap ToSet(ss[n + 1]) = {}
        <5>1. \A i \in 1..n : i \in DOMAIN ss /\ n + 1 \in DOMAIN ss /\ i # n + 1
          BY <1>1
        <5> QED BY <5>1
      <4>6. IsInjective(f[n] \o ss[n + 1])
        <5> HIDE DEF U
        <5> QED BY <4>2, <4>3, <4>5, ConcatInjective
      <4> HIDE DEF U
      <4> QED BY <3>1, <4>2, <4>3, <4>4, <4>6
    <3> QED BY <3>2, <3>3
  <2>4. Len(ss) \in D
    <3> HIDE DEF D
    <3> QED BY <1>1, <2>2, <2>3, Induct
  <2>5. Len(ss) \in 1..Len(ss)
    BY <1>1, <1>3
  <2> QED BY <2>1, <2>4, <2>5
<1> QED BY <1>2, <1>3

LEMMA OfKindIs ==
    ASSUME NEW S \in SUBSET Nat, NEW s \in Seq(S), NEW k
    PROVE  /\ OfKind(k)[s] \in Seq(S)
           /\ ToSet(OfKind(k)[s]) = {m \in ToSet(s) : kind[m] = k}
           /\ IsInjective(s) => IsInjective(OfKind(k)[s])
<1>1. s \in Seq(Nat) /\ Len(s) \in Nat /\ DOMAIN s = 1..Len(s) /\ \A i \in DOMAIN s : s[i] \in S
  BY LenProperties, ElementOfSeq, SeqMonotonic
<1>2. PICK ss : ss = [i \in DOMAIN s |-> IF kind[s[i]] = k THEN <<s[i]>> ELSE <<>>]
  OBVIOUS
<1>3. OfKind(k)[s] = FlattenSeq(ss)
  BY <1>1, <1>2 DEF OfKind
<1>4. \A i \in DOMAIN s : /\ ss[i] \in Seq(S) /\ IsInjective(ss[i])
                          /\ \A x : x \in ToSet(ss[i]) <=> kind[s[i]] = k /\ x = s[i]
  <2> TAKE i \in DOMAIN s
  <2>1. CASE kind[s[i]] = k
    BY <1>1, <1>2, <2>1, OneElement
  <2>2. CASE kind[s[i]] # k
    <3>1. ss[i] = <<>>
      BY <1>2, <2>2
    <3>2. ToSet(<<>>) = {} /\ <<>> \in Seq(S) /\ IsInjective(<<>>)
      BY DEF ToSet, IsInjective
    <3> QED BY <2>2, <3>1, <3>2
  <2> QED BY <2>1, <2>2
<1>5. DOMAIN ss = DOMAIN s /\ ss \in Seq(Seq(S))
  <2>1. ss \in [1..Len(s) -> Seq(S)]
    BY <1>1, <1>2, <1>4
  <2> QED BY <1>1, <1>2, <2>1
<1>6. FlattenSeq(ss) \in Seq(S) /\ ToSet(FlattenSeq(ss)) = UNION {ToSet(ss[i]) : i \in DOMAIN ss}
  BY <1>5, FlattenHolds
<1>7. UNION {ToSet(ss[i]) : i \in DOMAIN ss} = {m \in ToSet(s) : kind[m] = k}
  <2>1. ASSUME NEW x
        PROVE  x \in UNION {ToSet(ss[i]) : i \in DOMAIN ss}
               <=> \E i \in DOMAIN s : kind[s[i]] = k /\ x = s[i]
    BY <1>4, <1>5
  <2>2. ASSUME NEW x
        PROVE  x \in {m \in ToSet(s) : kind[m] = k} <=> \E i \in DOMAIN s : kind[s[i]] = k /\ x = s[i]
    BY DEF ToSet
  <2> QED BY <2>1, <2>2
<1>8. ASSUME IsInjective(s) PROVE IsInjective(FlattenSeq(ss))
  <2>1. \A i, j \in DOMAIN s : i # j => s[i] # s[j]
    BY <1>8 DEF IsInjective
  <2>2. \A i, j \in DOMAIN ss : i # j => ToSet(ss[i]) \cap ToSet(ss[j]) = {}
    BY <1>4, <1>5, <2>1
  <2> QED BY <1>4, <1>5, <2>2, FlattenInjective
<1> QED BY <1>3, <1>6, <1>7, <1>8

\* x is a node of s, or held by one of kind k.
Found(t, k, s, x) == \E m \in ToSet(s) : IF kind[m] = k THEN x \in ToSet(t[m]) ELSE x = m

LEMMA OpenedIs ==
    ASSUME NEW S \in SUBSET Nat, NEW s \in Seq(S), NEW t, \A m \in S : t[m] \in Seq(S), NEW k
    PROVE  /\ Opened(t, k)[s] \in Seq(S)
           /\ \A x : x \in ToSet(Opened(t, k)[s]) <=> Found(t, k, s, x)
<1>1. s \in Seq(Nat) /\ Len(s) \in Nat /\ DOMAIN s = 1..Len(s) /\ \A i \in DOMAIN s : s[i] \in S
  BY LenProperties, ElementOfSeq, SeqMonotonic
<1>2. PICK ss : ss = [i \in DOMAIN s |-> IF kind[s[i]] = k THEN t[s[i]] ELSE <<s[i]>>]
  OBVIOUS
<1>3. Opened(t, k)[s] = FlattenSeq(ss)
  BY <1>1, <1>2 DEF Opened
<1>4. \A i \in DOMAIN s : /\ ss[i] \in Seq(S)
                          /\ \A x : x \in ToSet(ss[i])
                                    <=> IF kind[s[i]] = k THEN x \in ToSet(t[s[i]]) ELSE x = s[i]
  <2> TAKE i \in DOMAIN s
  <2>1. CASE kind[s[i]] = k
    BY <1>1, <1>2, <2>1
  <2>2. CASE kind[s[i]] # k
    BY <1>1, <1>2, <2>2, OneElement
  <2> QED BY <2>1, <2>2
<1>5. DOMAIN ss = DOMAIN s /\ ss \in Seq(Seq(S))
  <2>1. ss \in [1..Len(s) -> Seq(S)]
    BY <1>1, <1>2, <1>4
  <2> QED BY <1>1, <1>2, <2>1
<1>6. FlattenSeq(ss) \in Seq(S) /\ ToSet(FlattenSeq(ss)) = UNION {ToSet(ss[i]) : i \in DOMAIN ss}
  BY <1>5, FlattenHolds
<1>7. ASSUME NEW x
      PROVE  x \in UNION {ToSet(ss[i]) : i \in DOMAIN ss} <=> Found(t, k, s, x)
  <2>1. x \in UNION {ToSet(ss[i]) : i \in DOMAIN ss}
        <=> \E i \in DOMAIN s : IF kind[s[i]] = k THEN x \in ToSet(t[s[i]]) ELSE x = s[i]
    BY <1>4, <1>5
  <2> QED BY <2>1 DEF ToSet, Found
<1> QED BY <1>3, <1>6, <1>7

LEMMA RemoveFirstTyped ==
    ASSUME NEW S, NEW s \in Seq(S), NEW x
    PROVE  RemoveFirst(s, x) \in Seq(S)
<1>1. Len(s) \in Nat /\ \A j \in 1..Len(s) : s[j] \in S
  BY LenProperties, ElementOfSeq
<1>2. CASE ~\E i \in 1..Len(s) : s[i] = x
  BY <1>2 DEF RemoveFirst
<1>3. CASE \E i \in 1..Len(s) : s[i] = x
  <2>1. PICK I : I = {i \in 1..Len(s) : s[i] = x}
    OBVIOUS
  <2>2. PICK i \in I : \A j \in I : i <= j
    <3>1. I \in SUBSET Nat /\ I # {}
      BY <1>1, <1>3, <2>1
    <3> QED BY <3>1, LeastNumber
  <2>3. Min(I) = CHOOSE j \in I : \A m \in I : j <= m
    BY DEF Min
  <2>4. PICK k : k = Min(I)
    OBVIOUS
  <2>5. k \in 1..Len(s)
    BY <2>1, <2>2, <2>3, <2>4
  <2>6. RemoveFirst(s, x) = SubSeq(s, 1, k - 1) \o SubSeq(s, k + 1, Len(s))
    BY <1>3, <2>1, <2>4 DEF RemoveFirst, RemoveAt, SelectInSeq
  <2>7. SubSeq(s, 1, k - 1) \in Seq(S) /\ SubSeq(s, k + 1, Len(s)) \in Seq(S)
    <3>1. (\A j \in 1..k - 1 : s[j] \in S) /\ (\A j \in k + 1..Len(s) : s[j] \in S)
      BY <1>1, <2>5
    <3> QED BY <1>1, <2>5, <3>1, SubSeqProperties
  <2> QED BY <2>6, <2>7, ConcatProperties
<1> QED BY <1>2, <1>3

LEMMA PositionsAre ==
    ASSUME NEW S \in SUBSET Nat, NEW s \in Seq(S), NEW pos \in Positions(s)
    PROVE  pos \in Place /\ Insertion(s, pos) \in Nat
<1>1. Len(s) \in Nat /\ DOMAIN s = 1..Len(s) /\ ToSet(s) \subseteq Nat
  <2>1. Len(s) \in Nat /\ DOMAIN s = 1..Len(s) /\ \A i \in DOMAIN s : s[i] \in S
    BY LenProperties, ElementOfSeq
  <2> QED BY <2>1 DEF ToSet
<1>2. CASE pos = At("append", 0) \/ pos = At("prepend", 0)
  BY <1>1, <1>2 DEF At, Place, Modes, Insertion
<1>3. CASE \E i \in 1..Len(s) + 1 : pos = At("index", i)
  BY <1>1, <1>3 DEF At, Place, Modes, Insertion
<1>4. CASE \E a \in ToSet(s) : pos = At("before", a) \/ pos = At("after", a)
  <2>1. PICK a \in ToSet(s) : pos = At("before", a) \/ pos = At("after", a)
    BY <1>4
  <2>2. IndexOf(s, a) \in DOMAIN s
    BY IndexOfIs
  <2>3. IndexOf(s, a) \in Nat /\ IndexOf(s, a) - 1 \in Nat
    BY <1>1, <2>2
  <2>4. pos.at = a /\ pos.mode \in {"before", "after"} /\ pos \in Place
    BY <1>1, <2>1 DEF At, Place, Modes
  <2> QED BY <2>3, <2>4 DEF Insertion
<1> QED BY <1>2, <1>3, <1>4 DEF Positions

LEMMA ContainsIs ==
    ASSUME NEW S, NEW s \in Seq(S), NEW x
    PROVE  Contains(s, x) <=> x \in ToSet(s)
<1>1. DOMAIN s = 1..Len(s)
  BY LenProperties
<1> QED BY <1>1 DEF Contains, ToSet

LEMMA LandingIs ==
    ASSUME NEW S \in SUBSET Nat, NEW s \in Seq(S), NEW pos \in Positions(s), NEW n
    PROVE  Landing(s, n, pos) \in Nat
<1>1. pos \in Place /\ Insertion(s, pos) \in Nat
  BY PositionsAre
<1>2. CASE ~Contains(s, n)
  BY <1>1, <1>2 DEF Landing
<1>3. CASE Contains(s, n) /\ pos.mode \notin {"before", "after"}
  <2>1. PICK r : r = RemoveFirst(s, n)
    OBVIOUS
  <2>2. Len(r) \in Nat
    BY <2>1, RemoveFirstTyped, LenProperties
  <2>3. pos.mode = "append" \/ pos.mode = "prepend" \/ (pos.mode = "index" /\ pos.at - 1 \in Nat)
    BY <1>3, LenProperties DEF Positions, At
  <2>4. Insertion(r, pos) \in Nat
    BY <2>2, <2>3 DEF Insertion
  <2> QED BY <1>3, <2>1, <2>4 DEF Landing
<1>4. CASE Contains(s, n) /\ pos.mode \in {"before", "after"}
  <2>1. IndexOf(s, n) \in DOMAIN s /\ DOMAIN s = 1..Len(s) /\ Len(s) \in Nat
    BY <1>4, ContainsIs, IndexOfIs, LenProperties
  <2>2. PICK i, j : i = IndexOf(s, n) /\ j = Insertion(s, pos)
    OBVIOUS
  <2>3. (IF i <= j THEN j - 1 ELSE j) \in Nat
    BY <1>1, <2>1, <2>2
  <2> QED BY <1>4, <2>2, <2>3 DEF Landing
<1> QED BY <1>2, <1>3, <1>4

-----------------------------------------------------------------------------
(* What may hold what.                                                     *)

\* Every node is held by one that may, and a control that is held holds something.
Fits(t, kd) ==
    \A m \in DOMAIN t : \A n \in ToSet(t[m]) :
        kd[m] \in Holders(kd[n]) /\ (kd[n] = "ctrl" => t[n] # <<>>)

\* What holds something is in the tree itself.
Hung(t) == \A m \in DOMAIN t : t[m] # <<>> => m \in InTree(t)

LEMMA NodesAre ==
    ASSUME NEW t, IsTree(t)
    PROVE  DOMAIN t \in SUBSET Nat /\ Len(t) \in Nat /\ \A m \in DOMAIN t : t[m] \in Seq(DOMAIN t)
BY TreeIs

LEMMA ContentIs ==
    ASSUME NEW t, IsTree(t), NEW p \in DOMAIN t
    PROVE  /\ Content(t, p) \in Seq(DOMAIN t)
           /\ \A x \in ToSet(Content(t, p)) :
                 \E c : /\ IF kind[c] = "ctrl" THEN x \in ToSet(t[c]) ELSE x = c
                        /\ \E r \in ToSet(t[p]) : IF kind[r] = "run" THEN c \in ToSet(t[r]) ELSE c = r
<1>1. PICK S : S = DOMAIN t
  OBVIOUS
<1>2. S \in SUBSET Nat /\ (\A m \in S : t[m] \in Seq(S)) /\ t[p] \in Seq(S)
  BY <1>1, NodesAre
<1>3. PICK o : o = Opened(t, "run")[t[p]]
  OBVIOUS
<1>4. /\ o \in Seq(S)
      /\ \A x : x \in ToSet(o) <=> Found(t, "run", t[p], x)
  <2>1. PICK s : s = t[p]
    OBVIOUS
  <2>2. /\ Opened(t, "run")[s] \in Seq(S)
        /\ \A x : x \in ToSet(Opened(t, "run")[s]) <=> Found(t, "run", s, x)
    BY <1>2, <2>1, OpenedIs
  <2> QED BY <1>3, <2>1, <2>2
<1>5. PICK q : q = Opened(t, "ctrl")[o]
  OBVIOUS
<1>6. /\ q \in Seq(S)
      /\ \A x : x \in ToSet(q) <=> Found(t, "ctrl", o, x)
  <2>1. /\ Opened(t, "ctrl")[o] \in Seq(S)
        /\ \A x : x \in ToSet(Opened(t, "ctrl")[o]) <=> Found(t, "ctrl", o, x)
    BY <1>2, <1>4, OpenedIs
  <2> QED BY <1>5, <2>1
<1>7. q = Content(t, p)
  BY <1>3, <1>5 DEF Content
<1>8. ASSUME NEW x \in ToSet(q)
      PROVE  \E c : /\ IF kind[c] = "ctrl" THEN x \in ToSet(t[c]) ELSE x = c
                    /\ \E r \in ToSet(t[p]) : IF kind[r] = "run" THEN c \in ToSet(t[r]) ELSE c = r
  <2>1. PICK c \in ToSet(o) : IF kind[c] = "ctrl" THEN x \in ToSet(t[c]) ELSE x = c
    BY <1>6 DEF Found
  <2> QED BY <1>4, <2>1 DEF Found
<1> QED BY <1>1, <1>6, <1>7, <1>8

LEMMA SiblingsAre ==
    ASSUME NEW t, IsTree(t), NEW p \in DOMAIN t, NEW k
    PROVE  /\ Siblings(t, p, k) \in Seq(DOMAIN t)
           /\ k \in Inline => ToSet(Siblings(t, p, k)) = {m \in ToSet(Content(t, p)) : kind[m] = k}
           /\ k \notin Inline => /\ ToSet(Siblings(t, p, k)) = {m \in ToSet(t[p]) : kind[m] = k}
                                 /\ IsInjective(Siblings(t, p, k))
<1>1. PICK s : s = IF k \in Inline THEN Content(t, p) ELSE t[p]
  OBVIOUS
<1>2. Siblings(t, p, k) = OfKind(k)[s]
  BY <1>1 DEF Siblings
<1>3. s \in Seq(DOMAIN t) /\ (k \notin Inline => IsInjective(s)) /\ DOMAIN t \in SUBSET Nat
  BY <1>1, ContentIs, TreeIs
<1>4. /\ OfKind(k)[s] \in Seq(DOMAIN t)
      /\ ToSet(OfKind(k)[s]) = {m \in ToSet(s) : kind[m] = k}
      /\ IsInjective(s) => IsInjective(OfKind(k)[s])
  BY <1>3, OfKindIs
<1>5. CASE k \in Inline
  <2>1. s = Content(t, p)
    BY <1>1, <1>5
  <2> QED BY <1>2, <1>4, <1>5, <2>1
<1>6. CASE k \notin Inline
  <2>1. s = t[p]
    BY <1>1, <1>6
  <2> QED BY <1>2, <1>3, <1>4, <1>6, <2>1
<1> QED BY <1>5, <1>6

\* An inline object among the siblings of its kind in a paragraph is in a run of
\* the paragraph, a note in a control of such a run.
\* x is in a run of p, or in a control of one.
Borne(t, p, x) ==
    \E r \in ToSet(t[p]) :
        /\ kind[r] = "run"
        /\ x \in ToSet(t[r]) \/ \E c \in ToSet(t[r]) : kind[c] = "ctrl" /\ x \in ToSet(t[c])

LEMMA BorneAre ==
    ASSUME NEW t, IsTree(t), Fits(t, kind), NEW p \in DOMAIN t, kind[p] = "paragraph",
           NEW k \in Inline, NEW x \in ToSet(Siblings(t, p, k))
    PROVE  x \in DOMAIN t /\ kind[x] = k /\ Borne(t, p, x)
<1>1. x \in ToSet(Content(t, p)) /\ kind[x] = k
  BY SiblingsAre
<1>2. PICK c : /\ IF kind[c] = "ctrl" THEN x \in ToSet(t[c]) ELSE x = c
               /\ \E r \in ToSet(t[p]) : IF kind[r] = "run" THEN c \in ToSet(t[r]) ELSE c = r
  BY <1>1, ContentIs
<1>3. PICK r \in ToSet(t[p]) : IF kind[r] = "run" THEN c \in ToSet(t[r]) ELSE c = r
  BY <1>2
<1>4. \A m \in DOMAIN t : \A n \in ToSet(t[m]) : n \in DOMAIN t /\ kind[m] \in Holders(kind[n])
  BY TreeIs DEF Fits
<1>5. r \in DOMAIN t /\ kind[p] \in Holders(kind[r])
  BY <1>4
<1>6. Holders("ctrl") = {"run"} /\ Holders("table") = {"run"} /\ Holders("picture") = {"run"}
      /\ Holders("note") = {"ctrl"}
  BY DEF Holders
<1>7. kind[r] # "ctrl" /\ kind[r] \notin Inline
  BY <1>5, <1>6 DEF Inline
<1>8. kind[r] = "run" /\ c \in ToSet(t[r]) /\ c \in DOMAIN t
  <2>1. CASE kind[r] = "run"
    BY <1>3, <1>4, <1>5, <2>1
  <2>2. CASE kind[r] # "run"
    <3>1. c = r
      BY <1>3, <2>2
    <3>2. x = r
      BY <1>2, <1>7, <3>1
    <3> QED BY <1>1, <1>7, <3>2
  <2> QED BY <2>1, <2>2
<1>9. Borne(t, p, x)
  BY <1>2, <1>8 DEF Borne
<1>10. x \in DOMAIN t
  BY <1>2, <1>4, <1>8
<1> QED BY <1>1, <1>9, <1>10

LEMMA RunOfIs ==
    ASSUME NEW t, IsTree(t), NEW p \in DOMAIN t, NEW x, Borne(t, p, x)
    PROVE  RunOf(t, x) \in ToSet(t[p]) /\ RunOf(t, x) \in DOMAIN t /\ kind[RunOf(t, x)] = "run"
<1>1. PICK r \in ToSet(t[p]) :
         /\ kind[r] = "run"
         /\ x \in ToSet(t[r]) \/ \E c \in ToSet(t[r]) : kind[c] = "ctrl" /\ x \in ToSet(t[c])
  BY DEF Borne
<1>2. r \in DOMAIN t
  BY TreeIs
<1>3. CASE x \in ToSet(t[r])
  <2>1. Up(t, x) = r
    BY <1>2, <1>3, UpIs
  <2>2. RunOf(t, x) = r
    BY <1>1, <2>1 DEF RunOf
  <2> QED BY <1>1, <1>2, <2>2
<1>4. ASSUME NEW c \in ToSet(t[r]), kind[c] = "ctrl", x \in ToSet(t[c])
      PROVE  RunOf(t, x) = r
  <2>1. c \in DOMAIN t
    BY <1>2, TreeIs
  <2>2. Up(t, x) = c /\ Up(t, c) = r
    BY <1>2, <1>4, <2>1, UpIs
  <2> QED BY <1>4, <2>2 DEF RunOf
<1> QED BY <1>1, <1>2, <1>3, <1>4

LEMMA RunsAre ==
    ASSUME NEW t, IsTree(t), Fits(t, kind), NEW p \in DOMAIN t, kind[p] = "paragraph",
           NEW k \in Inline, NEW x \in ToSet(Siblings(t, p, k))
    PROVE  /\ x \in DOMAIN t /\ kind[x] = k
           /\ RunOf(t, x) \in ToSet(t[p]) /\ RunOf(t, x) \in DOMAIN t /\ kind[RunOf(t, x)] = "run"
BY BorneAre, RunOfIs

-----------------------------------------------------------------------------
(* What the steps of the commands make of a tree.                          *)

\* Nothing holds x, and p is not below it.
Loose(t, x, p) ==
    /\ x \in DOMAIN t /\ x # Section
    /\ \A m \in DOMAIN t : x \notin ToSet(t[m])
    /\ \E B \in SUBSET DOMAIN t : x \in B /\ p \notin B /\ \A m \in B : ToSet(t[m]) \subseteq B

\* p holds x as well, in the order u.
Hanging(t, p, u, r) ==
    /\ IsTree(r) /\ DOMAIN r = DOMAIN t /\ Len(r) = Len(t)
    /\ r[p] = u
    /\ \A m \in DOMAIN t : m # p => r[m] = t[m]

LEMMA HungTree ==
    ASSUME NEW t, IsTree(t), NEW p \in DOMAIN t, NEW x, Loose(t, x, p),
           NEW u \in Seq(DOMAIN t), IsInjective(u), ToSet(u) = ToSet(t[p]) \cup {x}
    PROVE  Hanging(t, p, u, [t EXCEPT ![p] = u])
<1>0. PICK r : r = [t EXCEPT ![p] = u]
  OBVIOUS
<1>1. t \in Seq(Seq(DOMAIN t)) /\ Len(t) \in Nat /\ DOMAIN t = 1..Len(t)
  BY TreeIs DEF Nested
<1>2. r \in Seq(Seq(DOMAIN t)) /\ Len(r) = Len(t) /\ \A m \in DOMAIN t : r[m] = IF m = p THEN u ELSE t[m]
  BY <1>0, <1>1, ExceptSeq
<1>3. DOMAIN r = DOMAIN t
  BY <1>1, <1>2, LenProperties
<1>4. Nested(r)
  BY <1>2, <1>3 DEF Nested
<1>5. r[p] = u /\ \A m \in DOMAIN t : m # p => r[m] = t[m]
  BY <1>2
<1>6. PICK B \in SUBSET DOMAIN t : x \in B /\ p \notin B /\ \A m \in B : ToSet(t[m]) \subseteq B
  BY DEF Loose
<1>7. \A m \in DOMAIN t : m \in B => ToSet(t[m]) \subseteq B
  BY <1>6
<1>8. x \in DOMAIN t /\ x # Section /\ \A m \in DOMAIN t : x \notin ToSet(t[m])
  BY DEF Loose
<1>9. IsInjective(r[p]) /\ ToSet(r[p]) = ToSet(t[p]) \cup {x}
  BY <1>5
<1>10. IsTree(r)
  BY <1>3, <1>4, <1>5, <1>6, <1>7, <1>8, <1>9, GraftedTree
<1> QED BY <1>0, <1>2, <1>3, <1>5, <1>10 DEF Hanging

\* The nodes of c, behind those of t, hold each other only, and no node is held
\* twice.
Separate(t, c) ==
    /\ c \in Seq(Seq(Nat))
    /\ \A i \in DOMAIN c : /\ IsInjective(c[i])
                           /\ \A y \in ToSet(c[i]) : Len(t) < y /\ y <= Len(t) + Len(c)
    /\ \A i, j \in DOMAIN c : i # j => ToSet(c[i]) \cap ToSet(c[j]) = {}

Grounded(t, c) ==
    \A S \in SUBSET DOMAIN c : S # {} => \E i \in S : \A j \in S : Len(t) + i \notin ToSet(c[j])

Joined(t, c) ==
    /\ IsTree(t \o c) /\ Len(t \o c) = Len(t) + Len(c)
    /\ DOMAIN t \subseteq DOMAIN (t \o c)
    /\ \A m \in DOMAIN t : (t \o c)[m] = t[m]
    /\ \A i \in DOMAIN c : Len(t) + i \in DOMAIN (t \o c) /\ (t \o c)[Len(t) + i] = c[i]

LEMMA JoinedTree ==
    ASSUME NEW t, IsTree(t), NEW c, Separate(t, c), Grounded(t, c)
    PROVE  Joined(t, c)
<1>1. PICK r : r = t \o c
  OBVIOUS
<1>2. /\ Len(t) \in Nat /\ DOMAIN t = 1..Len(t) /\ t \in Seq(Seq(DOMAIN t))
      /\ Len(c) \in Nat /\ DOMAIN c = 1..Len(c) /\ \A i \in DOMAIN c : c[i] \in Seq(Nat)
      /\ c \in Seq(Seq(Nat))
  BY TreeIs, LenProperties, ElementOfSeq DEF Nested, Separate
<1>3. t \in Seq(Seq(Nat))
  <2>1. \A m \in DOMAIN t : t[m] \in Seq(Nat)
    BY <1>2, TreeIs, SeqMonotonic
  <2>2. t \in [1..Len(t) -> Seq(Nat)]
    BY <1>2, <2>1
  <2> QED BY <1>2, <2>2
<1>4. /\ Len(r) = Len(t) + Len(c) /\ r \in Seq(Seq(Nat)) /\ DOMAIN r = 1..Len(t) + Len(c)
      /\ \A m \in 1..Len(t) + Len(c) : r[m] = IF m <= Len(t) THEN t[m] ELSE c[m - Len(t)]
  BY <1>1, <1>2, <1>3, ConcatProperties, LenProperties
<1>5. DOMAIN t \subseteq DOMAIN r /\ \A m \in DOMAIN t : r[m] = t[m]
  BY <1>2, <1>4
<1>6. ASSUME NEW i \in DOMAIN c PROVE Len(t) + i \in DOMAIN r /\ r[Len(t) + i] = c[i]
  <2>1. PICK k : k = Len(t) + i
    OBVIOUS
  <2>2. k \in 1..Len(t) + Len(c) /\ ~(k <= Len(t)) /\ k - Len(t) = i
    BY <1>2, <2>1
  <2> QED BY <1>4, <2>1, <2>2
<1>7. ASSUME NEW m \in DOMAIN r \ DOMAIN t PROVE m - Len(t) \in DOMAIN c /\ r[m] = c[m - Len(t)]
  <2>1. m \in 1..Len(t) + Len(c) /\ ~(m <= Len(t)) /\ m - Len(t) \in 1..Len(c)
    BY <1>2, <1>4
  <2> QED BY <1>2, <1>4, <2>1
<1>8. ASSUME NEW m \in DOMAIN r \ DOMAIN t
      PROVE  IsInjective(r[m]) /\ ToSet(r[m]) \subseteq DOMAIN r \ DOMAIN t /\ r[m] \in Seq(DOMAIN r)
  <2>1. PICK s : s = c[m - Len(t)]
    OBVIOUS
  <2>2. r[m] = s /\ IsInjective(s) /\ s \in Seq(Nat) /\ \A y \in ToSet(s) : Len(t) < y /\ y <= Len(t) + Len(c)
    BY <1>2, <1>7, <2>1 DEF Separate
  <2>3. ToSet(s) \subseteq Nat /\ Len(s) \in Nat /\ DOMAIN s = 1..Len(s)
    BY <2>2, LenProperties, ElementOfSeq DEF ToSet
  <2>4. ToSet(s) \subseteq DOMAIN r \ DOMAIN t
    BY <1>2, <1>4, <2>2, <2>3
  <2>5. \A i \in 1..Len(s) : s[i] \in DOMAIN r
    BY <2>3, <2>4 DEF ToSet
  <2>6. s \in [1..Len(s) -> DOMAIN r]
    BY <2>2, <2>3, <2>5
  <2>7. s \in Seq(DOMAIN r)
    BY <2>3, <2>6
  <2> QED BY <2>2, <2>4, <2>7
<1>9. \A m, n \in DOMAIN r \ DOMAIN t : m # n => ToSet(r[m]) \cap ToSet(r[n]) = {}
  <2> TAKE m, n \in DOMAIN r \ DOMAIN t
  <2> HAVE m # n
  <2>1. m - Len(t) # n - Len(t)
    BY <1>2, <1>4
  <2> QED BY <1>7, <2>1 DEF Separate
<1>10. ASSUME NEW S \in SUBSET (DOMAIN r \ DOMAIN t), S # {} PROVE Rootless(r, S)
  <2>1. PICK C : C = {i \in DOMAIN c : Len(t) + i \in S}
    OBVIOUS
  <2>2. C # {}
    <3>1. PICK m \in S : TRUE
      BY <1>10
    <3>2. m - Len(t) \in DOMAIN c /\ Len(t) + (m - Len(t)) = m
      BY <1>2, <1>4, <1>7
    <3> QED BY <2>1, <3>1, <3>2
  <2>3. PICK i \in C : \A j \in C : Len(t) + i \notin ToSet(c[j])
    BY <2>1, <2>2 DEF Grounded
  <2>4. \A m \in S : Len(t) + i \notin ToSet(r[m])
    <3> TAKE m \in S
    <3>1. m - Len(t) \in DOMAIN c /\ Len(t) + (m - Len(t)) = m /\ r[m] = c[m - Len(t)]
      BY <1>2, <1>4, <1>7
    <3>2. m - Len(t) \in C
      BY <2>1, <3>1
    <3> QED BY <2>3, <3>1, <3>2
  <2>5. Len(t) + i \in S
    BY <2>1
  <2> QED BY <2>4, <2>5 DEF Rootless
<1>11. Nested(r)
  <2>1. \A m \in DOMAIN r : r[m] \in Seq(DOMAIN r)
    <3> TAKE m \in DOMAIN r
    <3>1. CASE m \in DOMAIN t
      <4>1. t[m] \in Seq(DOMAIN t) /\ Seq(DOMAIN t) \subseteq Seq(DOMAIN r)
        BY <1>5, <3>1, TreeIs, SeqMonotonic
      <4> QED BY <1>5, <3>1, <4>1
    <3>2. CASE m \notin DOMAIN t
      BY <1>8, <3>2
    <3> QED BY <3>1, <3>2
  <2>2. r \in [1..Len(r) -> Seq(DOMAIN r)] /\ Len(r) \in Nat
    BY <1>2, <1>4, <2>1
  <2> QED BY <2>2 DEF Nested
<1>12. IsTree(r)
  BY <1>5, <1>8, <1>9, <1>10, <1>11, GrownTree
<1> QED BY <1>1, <1>4, <1>5, <1>6, <1>12 DEF Joined

\* What the new nodes hold comes after them.
LEMMA GrownUp ==
    ASSUME NEW t, IsTree(t), NEW c \in Seq(Seq(Nat)),
           \A i \in DOMAIN c : /\ IsInjective(c[i])
                               /\ \A y \in ToSet(c[i]) : Len(t) + i < y /\ y <= Len(t) + Len(c),
           \A i, j \in DOMAIN c : i # j => ToSet(c[i]) \cap ToSet(c[j]) = {}
    PROVE  Joined(t, c)
<1>1. Len(t) \in Nat /\ Len(c) \in Nat /\ DOMAIN c = 1..Len(c) /\ \A i \in DOMAIN c : ToSet(c[i]) \subseteq Nat
  <2>1. Len(t) \in Nat /\ Len(c) \in Nat /\ DOMAIN c = 1..Len(c) /\ \A i \in DOMAIN c : c[i] \in Seq(Nat)
    BY TreeIs, LenProperties, ElementOfSeq
  <2>2. \A i \in DOMAIN c : \A j \in DOMAIN c[i] : c[i][j] \in Nat
    BY <2>1, ElementOfSeq, LenProperties
  <2> QED BY <2>1, <2>2 DEF ToSet
<1>2. \A i \in DOMAIN c : IsInjective(c[i]) /\ \A y \in ToSet(c[i]) : Len(t) < y /\ y <= Len(t) + Len(c)
  BY <1>1
<1>3. ASSUME NEW S \in SUBSET DOMAIN c, S # {}
      PROVE  \E i \in S : \A j \in S : Len(t) + i \notin ToSet(c[j])
  <2>1. S \in SUBSET Nat
    BY <1>1
  <2>2. PICK i \in S : \A j \in S : i <= j
    BY <1>3, <2>1, LeastNumber
  <2>3. \A j \in S : Len(t) + i \notin ToSet(c[j])
    <3> TAKE j \in S
    <3>1. j \in DOMAIN c /\ i <= j /\ i \in Nat /\ j \in Nat
      BY <2>1, <2>2
    <3>2. ~(Len(t) + j < Len(t) + i)
      BY <1>1, <3>1
    <3> QED BY <3>1, <3>2
  <2> QED BY <2>2, <2>3
<1>4. Separate(t, c)
  BY <1>2 DEF Separate
<1>5. Grounded(t, c)
  BY <1>3 DEF Grounded
<1> QED BY <1>4, <1>5, JoinedTree

\* p holds x as well.
Extended(t, p, x, r) ==
    /\ IsTree(r) /\ DOMAIN r = DOMAIN t /\ Len(r) = Len(t)
    /\ ToSet(r[p]) = ToSet(t[p]) \cup {x}
    /\ \A m \in DOMAIN t : m # p => r[m] = t[m]

\* x put into the children of p at its place among the siblings s.
LEMMA InsertDirectIs ==
    ASSUME NEW t, IsTree(t), NEW p \in DOMAIN t, NEW x, Loose(t, x, p),
           NEW s \in Seq(DOMAIN t), ToSet(s) \subseteq ToSet(t[p]), NEW i \in Nat
    PROVE  Extended(t, p, x, InsertDirect(t, p, s, i, x))
<1>0. PICK r : r = InsertDirect(t, p, s, i, x)
  OBVIOUS
<1>1. /\ t[p] \in Seq(DOMAIN t) /\ IsInjective(t[p]) /\ Len(t[p]) \in Nat /\ DOMAIN t[p] = 1..Len(t[p])
      /\ Len(s) \in Nat /\ DOMAIN s = 1..Len(s)
  BY TreeIs, LenProperties
<1>2. PICK u : u = IF s = <<>> THEN Append(t[p], x)
                   ELSE IF i >= Len(s) THEN InsertAt(t[p], IndexOf(t[p], Last(s)) + 1, x)
                   ELSE InsertAt(t[p], IndexOf(t[p], s[i + 1]), x)
  OBVIOUS
<1>3. r = [t EXCEPT ![p] = u]
  BY <1>0, <1>2 DEF InsertDirect
<1>4. x \in DOMAIN t /\ x \notin ToSet(t[p])
  BY DEF Loose
<1>5. u \in Seq(DOMAIN t) /\ ToSet(u) = ToSet(t[p]) \cup {x} /\ IsInjective(u)
  <2>1. CASE s = <<>>
    <3>1. u = Append(t[p], x)
      BY <1>2, <2>1
    <3> QED BY <1>1, <1>4, <3>1, AppendHolds
  <2>2. ASSUME s # <<>>
        PROVE  \E k \in 1..Len(t[p]) + 1 : u = InsertAt(t[p], k, x)
    <3>1. Len(s) # 0
      BY <2>2, EmptySeq
    <3>2. CASE i >= Len(s)
      <4>1. Last(s) \in ToSet(t[p])
        <5>1. Len(s) \in DOMAIN s
          BY <1>1, <3>1
        <5> QED BY <5>1 DEF Last, ToSet
      <4>2. PICK k : k = IndexOf(t[p], Last(s))
        OBVIOUS
      <4>3. k \in 1..Len(t[p])
        BY <1>1, <4>1, <4>2, IndexOfIs
      <4>4. k + 1 \in 1..Len(t[p]) + 1
        BY <1>1, <4>3
      <4> QED BY <1>2, <2>2, <3>2, <4>2, <4>4
    <3>3. CASE ~(i >= Len(s))
      <4>1. i + 1 \in DOMAIN s
        BY <1>1, <3>3
      <4>2. s[i + 1] \in ToSet(t[p])
        BY <4>1 DEF ToSet
      <4>3. PICK k : k = IndexOf(t[p], s[i + 1])
        OBVIOUS
      <4>4. k \in 1..Len(t[p])
        BY <1>1, <4>2, <4>3, IndexOfIs
      <4>5. k \in 1..Len(t[p]) + 1
        BY <1>1, <4>4
      <4> QED BY <1>2, <2>2, <3>3, <4>3, <4>5
    <3> QED BY <3>2, <3>3
  <2>3. CASE s # <<>>
    <3>1. PICK k \in 1..Len(t[p]) + 1 : u = InsertAt(t[p], k, x)
      BY <2>2, <2>3
    <3> QED BY <1>1, <1>4, <3>1, InsertAtHolds
  <2> QED BY <2>1, <2>3
<1>6. Hanging(t, p, u, r)
  <2>1. Hanging(t, p, u, [t EXCEPT ![p] = u])
    BY <1>5, HungTree
  <2> QED BY <1>3, <2>1
<1> QED BY <1>0, <1>5, <1>6 DEF Hanging, Extended

\* p holds x in a new run, a note in a new control of it.
Wrapped(t, p, x, k, r) ==
    /\ IsTree(r) /\ Len(r) = Len(t) + Len(Wrapping(k))
    /\ DOMAIN t \subseteq DOMAIN r
    /\ ToSet(r[p]) = ToSet(t[p]) \cup {Len(t) + 1}
    /\ \A m \in DOMAIN t : m # p => r[m] = t[m]
    /\ k # "note" => r[Len(t) + 1] = <<x>>
    /\ k = "note" => r[Len(t) + 1] = <<Len(t) + 2>> /\ r[Len(t) + 2] = <<x>>

\* x in a run of its own, a note in a control of it, put into the paragraph p.
LEMMA InsertInlineIs ==
    ASSUME NEW t, IsTree(t), NEW p \in DOMAIN t, NEW x, Loose(t, x, p),
           NEW s \in Seq(DOMAIN t), \A z \in ToSet(s) : RunOf(t, z) \in ToSet(t[p]), NEW i \in Nat,
           NEW k
    PROVE  Wrapped(t, p, x, k, InsertInline(t, p, s, i, x, k))
<1>0. PICK run, r : run = Len(t) + 1 /\ r = InsertInline(t, p, s, i, x, k)
  OBVIOUS
<1>1. Len(t) \in Nat /\ DOMAIN t = 1..Len(t) /\ run \in Nat /\ run + 1 \in Nat
  BY <1>0, TreeIs
<1>2. PICK c : c = IF k = "note" THEN <<<<run + 1>>, <<>>>> ELSE <<<<>>>>
  OBVIOUS
<1>3. PICK h : h = IF k = "note" THEN run + 1 ELSE run
  OBVIOUS
<1>4. PICK g : g = t \o c
  OBVIOUS
<1>5. Joined(t, c) /\ Len(c) = Len(Wrapping(k))
  <2>1. CASE k = "note"
    <3>1. PICK a : a = <<run + 1>>
      OBVIOUS
    <3>2. c = <<a, <<>>>>
      BY <1>2, <2>1, <3>1
    <3>3. a \in Seq(Nat) /\ ToSet(a) = {run + 1} /\ IsInjective(a)
      BY <1>1, <3>1, OneElement
    <3>4. <<>> \in Seq(Nat) /\ ToSet(<<>>) = {} /\ IsInjective(<<>>)
      BY DEF ToSet, IsInjective
    <3>5. c \in Seq(Seq(Nat)) /\ Len(c) = 2 /\ DOMAIN c = {1, 2} /\ c[1] = a /\ c[2] = <<>>
      BY <3>2, <3>3, <3>4
    <3>6. \A j \in DOMAIN c : /\ IsInjective(c[j])
                              /\ \A y \in ToSet(c[j]) : Len(t) + j < y /\ y <= Len(t) + Len(c)
      BY <1>0, <1>1, <3>3, <3>4, <3>5
    <3>7. \A j, l \in DOMAIN c : j # l => ToSet(c[j]) \cap ToSet(c[l]) = {}
      BY <3>4, <3>5
    <3>8. Len(Wrapping(k)) = 2
      BY <2>1 DEF Wrapping
    <3> QED BY <3>5, <3>6, <3>7, <3>8, GrownUp
  <2>2. CASE k # "note"
    <3>1. c = <<<<>>>>
      BY <1>2, <2>2
    <3>2. <<>> \in Seq(Nat) /\ ToSet(<<>>) = {} /\ IsInjective(<<>>)
      BY DEF ToSet, IsInjective
    <3>3. c \in Seq(Seq(Nat)) /\ Len(c) = 1 /\ DOMAIN c = {1} /\ c[1] = <<>>
      BY <3>1, <3>2
    <3>4. \A j \in DOMAIN c : /\ IsInjective(c[j])
                              /\ \A y \in ToSet(c[j]) : Len(t) + j < y /\ y <= Len(t) + Len(c)
      BY <3>2, <3>3
    <3>5. \A j, l \in DOMAIN c : j # l => ToSet(c[j]) \cap ToSet(c[l]) = {}
      BY <3>3
    <3>6. Len(Wrapping(k)) = 1
      BY <2>2 DEF Wrapping
    <3> QED BY <3>3, <3>4, <3>5, <3>6, GrownUp
  <2> QED BY <2>1, <2>2
<1>6. /\ IsTree(g) /\ Len(g) = Len(t) + Len(c) /\ Len(c) \in {1, 2} /\ DOMAIN g = 1..Len(t) + Len(c)
      /\ \A m \in DOMAIN t : m \in DOMAIN g /\ g[m] = t[m] /\ m # run /\ m # h
      /\ run \in DOMAIN g /\ h \in DOMAIN g /\ g[h] = <<>>
      /\ DOMAIN g = DOMAIN t \cup {run, h}
      /\ k = "note" => g[run] = <<run + 1>> /\ h = run + 1 /\ Len(c) = 2
      /\ k # "note" => h = run /\ Len(c) = 1
  <2>1. IsTree(g) /\ Len(g) = Len(t) + Len(c) /\ \A m \in DOMAIN t : m \in DOMAIN g /\ g[m] = t[m]
    BY <1>4, <1>5 DEF Joined
  <2>2. \A j \in DOMAIN c : Len(t) + j \in DOMAIN g /\ g[Len(t) + j] = c[j]
    BY <1>4, <1>5 DEF Joined
  <2>3. DOMAIN g = 1..Len(t) + Len(c)
    BY <2>1, TreeIs
  <2>4. \A m \in DOMAIN t : m # run /\ m # h
    BY <1>0, <1>1, <1>3
  <2>5. CASE k = "note"
    <3>1. Len(c) = 2 /\ DOMAIN c = {1, 2} /\ c[1] = <<run + 1>> /\ c[2] = <<>> /\ h = run + 1
      BY <1>2, <1>3, <2>5
    <3>2. g[run] = <<run + 1>> /\ g[run + 1] = <<>> /\ run \in DOMAIN g /\ run + 1 \in DOMAIN g
      <4>1. g[Len(t) + 1] = c[1] /\ g[Len(t) + 2] = c[2] /\ Len(t) + 1 \in DOMAIN g /\ Len(t) + 2 \in DOMAIN g
        BY <2>2, <3>1
      <4>2. Len(t) + 2 = run + 1
        BY <1>0, <1>1
      <4> QED BY <1>0, <3>1, <4>1, <4>2
    <3>3. 1..Len(t) + 2 = (1..Len(t)) \cup {run, run + 1}
      BY <1>0, <1>1
    <3> QED BY <1>0, <1>1, <2>1, <2>3, <2>4, <2>5, <3>1, <3>2, <3>3
  <2>6. CASE k # "note"
    <3>1. Len(c) = 1 /\ DOMAIN c = {1} /\ c[1] = <<>> /\ h = run
      BY <1>2, <1>3, <2>6
    <3>2. g[run] = <<>> /\ run \in DOMAIN g
      BY <1>0, <2>2, <3>1
    <3>3. 1..Len(t) + 1 = (1..Len(t)) \cup {run}
      BY <1>0, <1>1
    <3> QED BY <1>0, <1>1, <2>1, <2>3, <2>4, <2>6, <3>1, <3>2, <3>3
  <2> QED BY <2>5, <2>6
<1>7. x \in DOMAIN t /\ x # Section /\ x # run /\ x # h /\ x # run + 1 /\ Section \in DOMAIN t
      /\ \A m \in DOMAIN t : x \notin ToSet(t[m]) /\ ToSet(t[m]) \subseteq DOMAIN t
  <2>1. x \in DOMAIN t /\ x # Section /\ \A m \in DOMAIN t : x \notin ToSet(t[m])
    BY DEF Loose
  <2>2. Section \in DOMAIN t /\ \A m \in DOMAIN t : ToSet(t[m]) \subseteq DOMAIN t
    BY TreeIs
  <2>3. x # run /\ x # run + 1
    BY <1>0, <1>1, <2>1
  <2> QED BY <1>6, <2>1, <2>2, <2>3
<1>8. PICK B \in SUBSET DOMAIN t : x \in B /\ p \notin B /\ \A m \in B : ToSet(t[m]) \subseteq B
  BY DEF Loose
<1>9. PICK w : w = [g EXCEPT ![h] = <<x>>]
  OBVIOUS
<1>10. <<x>> \in Seq(DOMAIN g) /\ ToSet(<<x>>) = {x} /\ IsInjective(<<x>>)
  BY <1>6, <1>7, OneElement
<1>11. \A y : ToSet(<<y>>) = {y}
  BY OneElement
<1>12. Loose(g, x, h)
  <2>1. \A m \in DOMAIN g : x \notin ToSet(g[m])
    <3> TAKE m \in DOMAIN g
    <3>1. CASE m \in DOMAIN t
      BY <1>6, <1>7, <3>1
    <3>2. CASE m = h
      BY <1>6, <3>2 DEF ToSet
    <3>3. CASE m = run /\ m # h
      <4>1. g[m] = <<run + 1>>
        BY <1>6, <3>3
      <4> QED BY <1>7, <1>11, <4>1
    <3> QED BY <1>6, <3>1, <3>2, <3>3
  <2>2. B \in SUBSET DOMAIN g /\ h \notin B /\ \A m \in B : ToSet(g[m]) \subseteq B
    BY <1>6, <1>8
  <2> QED BY <1>6, <1>7, <1>8, <2>1, <2>2 DEF Loose
<1>13. Hanging(g, h, <<x>>, w)
  <2>1. ToSet(<<x>>) = ToSet(g[h]) \cup {x}
    BY <1>6, <1>10 DEF ToSet
  <2>2. Hanging(g, h, <<x>>, [g EXCEPT ![h] = <<x>>])
    BY <1>6, <1>10, <1>12, <2>1, HungTree
  <2> QED BY <1>9, <2>2
<1>14. /\ IsTree(w) /\ DOMAIN w = DOMAIN g /\ Len(w) = Len(g) /\ w[h] = <<x>>
       /\ \A m \in DOMAIN t : w[m] = t[m]
       /\ k = "note" => w[run] = <<run + 1>>
  <2>1. IsTree(w) /\ DOMAIN w = DOMAIN g /\ Len(w) = Len(g) /\ w[h] = <<x>>
        /\ \A m \in DOMAIN g : m # h => w[m] = g[m]
    BY <1>13 DEF Hanging
  <2>2. k = "note" => run # h
    BY <1>1, <1>6
  <2> QED BY <1>6, <2>1, <2>2
<1>15. Loose(w, run, p)
  <2>1. \A m \in DOMAIN w : run \notin ToSet(w[m])
    <3> TAKE m \in DOMAIN w
    <3>1. CASE m \in DOMAIN t
      BY <1>6, <1>7, <1>14, <3>1
    <3>2. CASE m = h
      BY <1>7, <1>10, <1>14, <3>2
    <3>3. CASE m = run /\ m # h
      <4>1. w[m] = <<run + 1>>
        BY <1>6, <1>14, <3>3
      <4> QED BY <1>1, <1>11, <4>1
    <3> QED BY <1>6, <1>14, <3>1, <3>2, <3>3
  <2>2. PICK C : C = B \cup {run, h}
    OBVIOUS
  <2>3. \A m \in C : ToSet(w[m]) \subseteq C
    <3> TAKE m \in C
    <3>1. CASE m \in B
      BY <1>8, <1>14, <2>2, <3>1
    <3>2. CASE m = h
      BY <1>8, <1>10, <1>14, <2>2, <3>2
    <3>3. CASE m = run /\ m # h
      <4>1. w[m] = <<run + 1>> /\ h = run + 1
        BY <1>6, <1>14, <3>3
      <4> QED BY <1>11, <2>2, <4>1
    <3> QED BY <2>2, <3>1, <3>2, <3>3
  <2>4. C \in SUBSET DOMAIN w /\ run \in C /\ p \notin C
    BY <1>6, <1>8, <1>14, <2>2
  <2>5. run \in DOMAIN w /\ run # Section
    BY <1>6, <1>7, <1>14
  <2> QED BY <2>1, <2>3, <2>4, <2>5 DEF Loose
<1>16. w = t \o (IF k = "note" THEN <<<<run + 1>>, <<x>>>> ELSE <<<<x>>>>)
  <2>1. PICK v : v = IF k = "note" THEN <<<<run + 1>>, <<x>>>> ELSE <<<<x>>>>
    OBVIOUS
  <2>2. t \in Seq(Seq(Nat)) /\ w \in Seq(Seq(Nat)) /\ v \in Seq(Seq(Nat))
    <3>1. t \in Seq(Seq(DOMAIN t)) /\ w \in Seq(Seq(DOMAIN w)) /\ DOMAIN t \subseteq Nat /\ DOMAIN w \subseteq Nat
      BY <1>14, TreeIs DEF Nested
    <3>2. x \in Nat
      BY <1>7, <3>1
    <3>3. v \in Seq(Seq(Nat))
      BY <1>1, <2>1, <3>2
    <3> QED BY <3>1, <3>3, SeqMonotonic
  <2>3. /\ Len(v) = Len(c)
        /\ k = "note" => v[1] = <<run + 1>> /\ v[2] = <<x>>
        /\ k # "note" => v[1] = <<x>>
    BY <1>6, <2>1
  <2>4. /\ t \o v \in Seq(Seq(Nat)) /\ Len(t \o v) = Len(t) + Len(v)
        /\ \A m \in 1..Len(t) + Len(v) : (t \o v)[m] = IF m <= Len(t) THEN t[m] ELSE v[m - Len(t)]
    BY <2>2, ConcatProperties
  <2>5. \A m \in 1..Len(w) : w[m] = (t \o v)[m]
    <3> TAKE m \in 1..Len(w)
    <3>1. m \in 1..Len(t) + Len(v)
      BY <1>6, <1>14, <2>3
    <3>2. CASE m \in DOMAIN t
      BY <1>1, <1>14, <2>4, <3>1, <3>2
    <3>3. CASE m = run
      <4>1. ~(m <= Len(t)) /\ m - Len(t) = 1
        BY <1>0, <1>1, <3>3
      <4>2. (t \o v)[m] = v[1]
        BY <2>4, <3>1, <4>1
      <4> QED BY <1>6, <1>14, <2>3, <3>3, <4>2
    <3>4. CASE m = h /\ h # run
      <4>1. ~(m <= Len(t)) /\ m - Len(t) = 2 /\ k = "note"
        BY <1>0, <1>1, <1>6, <3>4
      <4>2. (t \o v)[m] = v[2]
        BY <2>4, <3>1, <4>1
      <4> QED BY <1>14, <2>3, <3>4, <4>1, <4>2
    <3>5. m \in DOMAIN t \cup {run, h}
      BY <1>6, <1>14
    <3> QED BY <3>2, <3>3, <3>4, <3>5
  <2>6. Len(w) = Len(t \o v)
    BY <1>6, <1>14, <2>3, <2>4
  <2>7. w = t \o v
    BY <2>2, <2>4, <2>5, <2>6, SeqEqual
  <2> QED BY <2>1, <2>7
<1>17. PICK u : u = IF i >= Len(s) THEN Append(t[p], run)
                    ELSE InsertAt(t[p], IndexOf(t[p], RunOf(t, s[i + 1])), run)
  OBVIOUS
<1>18. r = [w EXCEPT ![p] = u]
  <2>1. w[p] = t[p]
    BY <1>14
  <2>2. r = [w EXCEPT ![p] = IF i >= Len(s) THEN Append(@, run)
                             ELSE InsertAt(@, IndexOf(@, RunOf(t, s[i + 1])), run)]
    BY <1>0, <1>16 DEF InsertInline
  <2> QED BY <1>17, <2>1, <2>2
<1>19. u \in Seq(DOMAIN w) /\ ToSet(u) = ToSet(w[p]) \cup {run} /\ IsInjective(u)
  <2>1. /\ w[p] = t[p] /\ w[p] \in Seq(DOMAIN w) /\ IsInjective(w[p]) /\ run \in DOMAIN w
        /\ run \notin ToSet(w[p]) /\ Len(w[p]) \in Nat /\ DOMAIN w[p] = 1..Len(w[p])
    <3>1. p \in DOMAIN w /\ w[p] = t[p] /\ run \in DOMAIN w
      BY <1>6, <1>14
    <3>2. w[p] \in Seq(DOMAIN w) /\ IsInjective(w[p])
      BY <1>14, <3>1, TreeIs
    <3> QED BY <1>15, <3>1, <3>2, LenProperties DEF Loose
  <2>2. CASE i >= Len(s)
    <3>1. u = Append(w[p], run)
      BY <1>17, <2>1, <2>2
    <3> QED BY <2>1, <3>1, AppendHolds
  <2>3. CASE ~(i >= Len(s))
    <3>1. i + 1 \in DOMAIN s
      <4>1. Len(s) \in Nat /\ DOMAIN s = 1..Len(s)
        BY LenProperties
      <4> QED BY <2>3, <4>1
    <3>2. RunOf(t, s[i + 1]) \in ToSet(w[p])
      BY <2>1, <3>1 DEF ToSet
    <3>3. PICK l : l = IndexOf(w[p], RunOf(t, s[i + 1]))
      OBVIOUS
    <3>4. l \in 1..Len(w[p]) + 1
      BY <2>1, <3>2, <3>3, IndexOfIs
    <3>5. u = InsertAt(w[p], l, run)
      BY <1>17, <2>1, <2>3, <3>3
    <3> QED BY <2>1, <3>4, <3>5, InsertAtHolds
  <2> QED BY <2>2, <2>3
<1>20. Hanging(w, p, u, r)
  <2>1. p \in DOMAIN w
    BY <1>6, <1>14
  <2>2. Hanging(w, p, u, [w EXCEPT ![p] = u])
    BY <1>14, <1>15, <1>19, <2>1, HungTree
  <2> QED BY <1>18, <2>2
<1>21. /\ IsTree(r) /\ DOMAIN r = DOMAIN w /\ Len(r) = Len(w) /\ ToSet(r[p]) = ToSet(t[p]) \cup {run}
       /\ \A m \in DOMAIN w : m # p => r[m] = w[m]
  BY <1>14, <1>19, <1>20 DEF Hanging
<1>22. p # run /\ p # h /\ run + 1 = Len(t) + 2
  BY <1>0, <1>1, <1>6
<1> QED BY <1>0, <1>5, <1>6, <1>14, <1>21, <1>22 DEF Wrapped

LEMMA EmptyIs ==
    ASSUME NEW S, NEW s \in Seq(S)
    PROVE  s = <<>> <=> ToSet(s) = {}
<1>1. Len(s) \in Nat /\ DOMAIN s = 1..Len(s) /\ (s = <<>> <=> Len(s) = 0)
  BY LenProperties, EmptySeq
<1>2. CASE Len(s) = 0
  BY <1>1, <1>2 DEF ToSet
<1>3. CASE Len(s) # 0
  <2>1. 1 \in DOMAIN s
    BY <1>1, <1>3
  <2>2. s[1] \in ToSet(s)
    BY <2>1 DEF ToSet
  <2> QED BY <1>1, <1>3, <2>2
<1> QED BY <1>2, <1>3

LEMMA InTreeIs ==
    ASSUME NEW t, IsTree(t), NEW n
    PROVE  /\ n \in InTree(t) <=> n = Section \/ \E m \in DOMAIN t : n \in ToSet(t[m])
           /\ n \in InTree(t) => n \in DOMAIN t
BY TreeIs DEF InTree

\* A subtree that nothing holds is taken apart.
Clearing(t, n, r) ==
    /\ IsTree(r) /\ DOMAIN r = DOMAIN t /\ Len(r) = Len(t)
    /\ \E gone \in SUBSET DOMAIN t :
          /\ gone = ToSet(Below(t, n)) /\ n \in gone /\ Section \notin gone
          /\ \A m \in gone : r[m] = <<>> /\ ToSet(t[m]) \subseteq gone
          /\ \A m \in DOMAIN t \ gone : r[m] = t[m] /\ ToSet(t[m]) \cap gone = {}

LEMMA ClearedIs ==
    ASSUME NEW t, IsTree(t), NEW n \in DOMAIN t, n # Section, \A m \in DOMAIN t : n \notin ToSet(t[m])
    PROVE  Clearing(t, n, Cleared(t, n))
<1>1. PICK gone : gone = ToSet(Below(t, n))
  OBVIOUS
<1>2. PICK b : b = Below(t, n)
  OBVIOUS
<1>3. /\ b \in Seq(DOMAIN t) /\ Len(b) > 0 /\ b[1] = n /\ gone = ToSet(b)
      /\ \A m \in gone : ToSet(t[m]) \subseteq gone
      /\ \A x \in gone \ {n} : \E m \in gone : x \in ToSet(t[m])
  BY <1>1, <1>2, BelowIs
<1>4. gone \in SUBSET DOMAIN t /\ n \in gone
  <2>1. DOMAIN b = 1..Len(b) /\ Len(b) \in Nat /\ \A i \in DOMAIN b : b[i] \in DOMAIN t
    BY <1>3, LenProperties, ElementOfSeq
  <2>2. 1 \in DOMAIN b
    BY <1>3, <2>1
  <2> QED BY <1>3, <2>1, <2>2 DEF ToSet
<1>5. Section \notin gone
  BY <1>3, <1>4, TreeIs
<1>6. ASSUME NEW m \in DOMAIN t \ gone PROVE ToSet(t[m]) \cap gone = {}
  <2> SUFFICES ASSUME NEW x \in ToSet(t[m]), x \in gone PROVE FALSE
    OBVIOUS
  <2>1. x # n
    OBVIOUS
  <2>2. PICK l \in gone : x \in ToSet(t[l])
    BY <1>3, <2>1
  <2>3. l = m
    BY <1>4, <2>2, TreeIs
  <2> QED BY <2>3
<1>7. PICK r : r = [m \in DOMAIN t |-> IF m \in gone THEN <<>> ELSE t[m]]
  OBVIOUS
<1>8. Cleared(t, n) = r
  BY <1>1, <1>7 DEF Cleared
<1>9. /\ Len(t) \in Nat /\ DOMAIN t = 1..Len(t) /\ \A m \in DOMAIN t : t[m] \in Seq(DOMAIN t)
      /\ \A m \in DOMAIN t : IsInjective(t[m])
  BY TreeIs
<1>10. /\ r \in [1..Len(t) -> Seq(DOMAIN t)]
       /\ \A m \in gone : r[m] = <<>>
       /\ \A m \in DOMAIN t \ gone : r[m] = t[m]
  <2>1. DOMAIN r = 1..Len(t) /\ r = [m \in 1..Len(t) |-> r[m]]
    BY <1>7, <1>9
  <2>2. (\A m \in gone : r[m] = <<>>) /\ \A m \in DOMAIN t \ gone : r[m] = t[m]
    BY <1>4, <1>7
  <2>3. \A m \in 1..Len(t) : r[m] \in Seq(DOMAIN t)
    <3> TAKE m \in 1..Len(t)
    <3>1. t[m] \in Seq(DOMAIN t) /\ m \in DOMAIN t /\ <<>> \in Seq(DOMAIN t)
      BY <1>9
    <3> QED BY <2>2, <3>1
  <2> QED BY <2>1, <2>2, <2>3
<1>11. r \in Seq(Seq(DOMAIN t)) /\ Len(r) = Len(t) /\ DOMAIN r = DOMAIN t
  <2>1. PICK T : T = Seq(DOMAIN t)
    OBVIOUS
  <2>2. r \in Seq(T) /\ Len(r) = Len(t) /\ DOMAIN r = DOMAIN t
    BY <1>9, <1>10, <2>1
  <2> QED BY <2>1, <2>2
<1>12. \A m \in DOMAIN t : IsInjective(r[m]) /\ ToSet(r[m]) \subseteq ToSet(t[m])
  <2>1. ToSet(<<>>) = {} /\ IsInjective(<<>>)
    BY DEF ToSet, IsInjective
  <2> QED BY <1>9, <1>10, <2>1
<1>13. IsTree(r)
  BY <1>11, <1>12, LesserTree DEF Nested
<1> QED BY <1>1, <1>3, <1>4, <1>5, <1>6, <1>8, <1>10, <1>11, <1>13 DEF Clearing

-----------------------------------------------------------------------------
\* Where an inline object is: in a control or not, in a run of a paragraph.
Placed(t, n, a, run, q) ==
    /\ a \in DOMAIN t /\ run \in DOMAIN t /\ q \in DOMAIN t
    /\ Up(t, n) = a /\ RunOf(t, n) = run /\ Holder(t, n) = q
    /\ n \in ToSet(t[a]) /\ run \in ToSet(t[q])
    /\ kind[run] = "run" /\ kind[q] = "paragraph"
    /\ \/ a = run
       \/ kind[a] = "ctrl" /\ a \in ToSet(t[run])

LEMMA InlineIs ==
    ASSUME NEW t, IsTree(t), Fits(t, kind), Hung(t), kind[Section] = "section",
           NEW a \in DOMAIN t, NEW n \in ToSet(t[a]), kind[n] \in Inline
    PROVE  \E run, q : Placed(t, n, a, run, q)
<1>1. Up(t, n) = a
  BY UpIs
<1>2. kind[a] \in Holders(kind[n])
  BY DEF Fits
<1>3. Holders("ctrl") = {"run"} /\ Holders("run") = {"paragraph"}
      /\ \A k \in Inline : Holders(k) = IF k = "note" THEN {"ctrl"} ELSE {"run"}
  BY DEF Holders, Inline
<1>4. ASSUME NEW x \in DOMAIN t, NEW y \in ToSet(t[x]), x # Section
      PROVE  \E m \in DOMAIN t : x \in ToSet(t[m]) /\ Up(t, x) = m /\ kind[m] \in Holders(kind[x])
  <2>1. t[x] # <<>>
    <3>1. ToSet(<<>>) = {}
      BY DEF ToSet
    <3> QED BY <1>4, <3>1
  <2>2. x \in InTree(t)
    BY <2>1 DEF Hung
  <2>3. PICK m \in DOMAIN t : x \in ToSet(t[m])
    BY <1>4, <2>2, InTreeIs
  <2> QED BY <2>3, UpIs DEF Fits
<1>5. ASSUME NEW x, x = Section PROVE kind[x] \notin {"ctrl", "run"}
  BY <1>5
<1>6. PICK run \in DOMAIN t : /\ RunOf(t, n) = run /\ kind[run] = "run" /\ ToSet(t[run]) # {}
                              /\ \/ a = run
                                 \/ kind[a] = "ctrl" /\ a \in ToSet(t[run])
  <2>1. CASE kind[a] = "ctrl"
    <3>1. PICK m \in DOMAIN t : a \in ToSet(t[m]) /\ Up(t, a) = m /\ kind[m] \in Holders(kind[a])
      BY <1>4, <1>5, <2>1
    <3>2. RunOf(t, n) = m
      BY <1>1, <2>1, <3>1 DEF RunOf
    <3> QED BY <1>3, <2>1, <3>1, <3>2
  <2>2. CASE kind[a] # "ctrl"
    <3>1. kind[a] = "run"
      BY <1>2, <1>3, <2>2
    <3>2. RunOf(t, n) = a
      BY <1>1, <2>2 DEF RunOf
    <3> QED BY <3>1, <3>2
  <2> QED BY <2>1, <2>2
<1>7. PICK q \in DOMAIN t : run \in ToSet(t[q]) /\ Up(t, run) = q /\ kind[q] \in Holders(kind[run])
  BY <1>4, <1>5, <1>6
<1>8. Holder(t, n) = q
  BY <1>6, <1>7 DEF Holder
<1>9. kind[q] = "paragraph"
  BY <1>3, <1>6, <1>7
<1>10. Placed(t, n, a, run, q)
  BY <1>1, <1>6, <1>7, <1>8, <1>9 DEF Placed
<1> QED BY <1>10

\* An inline object out of its paragraph, with the control and the run that it
\* leaves empty.
Detached(t, n, a, run, q, r) ==
    /\ IsTree(r) /\ DOMAIN r = DOMAIN t /\ Len(r) = Len(t)
    /\ \A m \in DOMAIN t : ToSet(r[m]) \subseteq ToSet(t[m]) \ {n}
    /\ \A m \in DOMAIN t : \A y \in ToSet(t[m]) : y \in ToSet(r[m]) \/ y = n \/ kind[y] \in {"ctrl", "run"}
    /\ \A m \in DOMAIN t \ {a, run, q} : r[m] = t[m]
    /\ Fits(r, kind)
    /\ \A m \in DOMAIN t \ {n} : r[m] # <<>> => m \in InTree(r)

LEMMA DetachInlineIs ==
    ASSUME NEW t, IsTree(t), Fits(t, kind), Hung(t), kind[Section] = "section",
           NEW n, NEW a, NEW run, NEW q, Placed(t, n, a, run, q)
    PROVE  Detached(t, n, a, run, q, DetachInline(t, n))
<1>1. /\ a \in DOMAIN t /\ run \in DOMAIN t /\ q \in DOMAIN t
      /\ Up(t, n) = a /\ RunOf(t, n) = run
      /\ n \in ToSet(t[a]) /\ run \in ToSet(t[q])
      /\ kind[run] = "run" /\ kind[q] = "paragraph"
      /\ a = run \/ (kind[a] = "ctrl" /\ a \in ToSet(t[run]))
  BY DEF Placed
<1>2. PICK t1 : t1 = Drop(t, n)
  OBVIOUS
<1>3. /\ IsTree(t1) /\ DOMAIN t1 = DOMAIN t /\ Len(t1) = Len(t)
      /\ \A m \in DOMAIN t : ToSet(t1[m]) = ToSet(t[m]) \ {n}
      /\ \A m \in DOMAIN t : m # a => t1[m] = t[m]
  BY <1>1, <1>2, DropIs
<1>4. PICK t2 : t2 = IF kind[a] = "ctrl" /\ t1[a] = <<>> THEN Drop(t1, a) ELSE t1
  OBVIOUS
<1>5. a \notin ToSet(t[a]) /\ run \notin ToSet(t[run])
  <2>1. \A m \in DOMAIN t : m \notin ToSet(t[m])
    <3> SUFFICES ASSUME NEW m \in DOMAIN t, m \in ToSet(t[m]) PROVE FALSE
      OBVIOUS
    <3>1. ~Rootless(t, {m})
      BY DEF Rootless
    <3>2. {m} \in SUBSET DOMAIN t /\ {m} # {}
      OBVIOUS
    <3> QED BY <3>1, <3>2, TreeIs
  <2> QED BY <1>1, <2>1
<1>6. kind[a] = "ctrl" => a \in ToSet(t1[run]) /\ a # run
  <2>1. a # n
    BY <1>1, <1>5
  <2> QED BY <1>1, <1>3, <2>1
<1>7. /\ IsTree(t2) /\ DOMAIN t2 = DOMAIN t /\ Len(t2) = Len(t)
      /\ \A m \in DOMAIN t : ToSet(t2[m]) \subseteq ToSet(t1[m])
      /\ \A m \in DOMAIN t : \A y \in ToSet(t1[m]) : y \in ToSet(t2[m]) \/ (y = a /\ t1[a] = <<>>)
      /\ kind[a] = "ctrl" /\ t1[a] = <<>> => \A m \in DOMAIN t : a \notin ToSet(t2[m])
      /\ \A m \in DOMAIN t : m # run => t2[m] = t1[m]
  <2>1. CASE kind[a] = "ctrl" /\ t1[a] = <<>>
    <3>1. t2 = Drop(t1, a) /\ a \in ToSet(t1[run]) /\ run \in DOMAIN t1
      BY <1>1, <1>3, <1>4, <1>6, <2>1
    <3>2. /\ IsTree(t2) /\ DOMAIN t2 = DOMAIN t1 /\ Len(t2) = Len(t1)
          /\ \A m \in DOMAIN t1 : ToSet(t2[m]) = ToSet(t1[m]) \ {a}
          /\ \A m \in DOMAIN t1 : m # run => t2[m] = t1[m]
      BY <1>3, <3>1, DropIs
    <3> QED BY <1>3, <2>1, <3>2
  <2>2. CASE ~(kind[a] = "ctrl" /\ t1[a] = <<>>)
    <3>1. t2 = t1
      BY <1>4, <2>2
    <3> QED BY <1>3, <2>2, <3>1
  <2> QED BY <2>1, <2>2
<1>8. run # n
  <2> SUFFICES ASSUME run = n PROVE FALSE
    OBVIOUS
  <2>1. CASE a = run
    BY <1>1, <1>5, <2>1
  <2>2. CASE kind[a] = "ctrl" /\ a \in ToSet(t[run])
    <3>1. ~Rootless(t, {a, run})
      BY <1>1, <2>2 DEF Rootless
    <3>2. {a, run} \in SUBSET DOMAIN t /\ {a, run} # {}
      BY <1>1
    <3> QED BY <3>1, <3>2, TreeIs
  <2> QED BY <1>1, <2>1, <2>2
<1>9. PICK r : r = IF t2[run] = <<>> THEN Drop(t2, run) ELSE t2
  OBVIOUS
<1>10. DetachInline(t, n) = r
  BY <1>1, <1>2, <1>4, <1>9 DEF DetachInline
<1>11. /\ IsTree(r) /\ DOMAIN r = DOMAIN t /\ Len(r) = Len(t)
       /\ \A m \in DOMAIN t : ToSet(r[m]) \subseteq ToSet(t2[m])
       /\ \A m \in DOMAIN t : \A y \in ToSet(t2[m]) : y \in ToSet(r[m]) \/ (y = run /\ t2[run] = <<>>)
       /\ \A m \in DOMAIN t : m # q => r[m] = t2[m]
  <2>1. CASE t2[run] = <<>>
    <3>1. run # a \/ kind[a] # "ctrl"
      BY <1>1
    <3>2. run \in ToSet(t2[q])
      <4>1. run \in ToSet(t1[q])
        BY <1>1, <1>3, <1>8
      <4>2. run # a \/ t2 = t1
        BY <1>4, <3>1
      <4> QED BY <1>1, <1>7, <4>1, <4>2
    <3>3. r = Drop(t2, run)
      BY <1>9, <2>1
    <3>4. /\ IsTree(r) /\ DOMAIN r = DOMAIN t2 /\ Len(r) = Len(t2)
          /\ \A m \in DOMAIN t2 : ToSet(r[m]) = ToSet(t2[m]) \ {run}
          /\ \A m \in DOMAIN t2 : m # q => r[m] = t2[m]
      BY <1>1, <1>7, <3>2, <3>3, DropIs
    <3> QED BY <1>7, <2>1, <3>4
  <2>2. CASE t2[run] # <<>>
    BY <1>7, <1>9, <2>2
  <2> QED BY <2>1, <2>2
<1>12. \A m \in DOMAIN t : ToSet(r[m]) \subseteq ToSet(t[m]) \ {n}
  BY <1>3, <1>7, <1>11
<1>13. \A m \in DOMAIN t \ {a, run, q} : r[m] = t[m]
  BY <1>3, <1>7, <1>11
<1>14. Fits(r, kind)
  <2>1. ASSUME NEW m \in DOMAIN t, NEW y \in ToSet(r[m]), kind[y] = "ctrl" PROVE r[y] # <<>>
    <3>1. y \in ToSet(t[m]) /\ y \in DOMAIN t /\ t[y] # <<>>
      <4>1. y \in ToSet(t[m])
        BY <1>12
      <4> QED BY <2>1, <4>1, TreeIs DEF Fits
    <3>2. y # run /\ y # q
      BY <1>1, <2>1
    <3>3. CASE y # a
      BY <1>13, <3>1, <3>2, <3>3
    <3>4. CASE y = a
      <4>1. y \in ToSet(t2[m])
        BY <1>11
      <4>2. t1[a] # <<>>
        BY <1>7, <2>1, <3>4, <4>1
      <4>3. r[a] = t1[a]
        BY <1>1, <1>7, <1>11, <3>2, <3>4
      <4> QED BY <3>4, <4>2, <4>3
    <3> QED BY <3>3, <3>4
  <2>2. ASSUME NEW m \in DOMAIN t, NEW y \in ToSet(r[m]) PROVE kind[m] \in Holders(kind[y])
    BY <1>12 DEF Fits
  <2> QED BY <1>11, <2>1, <2>2 DEF Fits
<1>15. ASSUME NEW m \in DOMAIN t, m # n, r[m] # <<>> PROVE m \in InTree(r)
  <2>1. ToSet(r[m]) # {}
    <3>1. r[m] \in Seq(DOMAIN r)
      BY <1>11, TreeIs
    <3> QED BY <1>15, <3>1, EmptyIs
  <2>2. ToSet(<<>>) = {}
    BY DEF ToSet
  <2>3. t[m] # <<>> /\ t1[m] # <<>> /\ t2[m] # <<>>
    BY <1>3, <1>7, <1>11, <2>1, <2>2
  <2>4. m \in InTree(t)
    BY <2>3 DEF Hung
  <2>5. CASE m = Section
    BY <2>5 DEF InTree
  <2>6. CASE m # Section
    <3>1. PICK j \in DOMAIN t : m \in ToSet(t[j])
      BY <2>4, <2>6, InTreeIs
    <3>2. m \in ToSet(t1[j])
      BY <1>3, <1>15, <3>1
    <3>3. m \in ToSet(t2[j])
      BY <1>7, <2>3, <3>2
    <3>4. m \in ToSet(r[j])
      BY <1>11, <2>3, <3>3
    <3> QED BY <1>11, <3>4 DEF InTree
  <2> QED BY <2>5, <2>6
<1>16. ASSUME NEW m \in DOMAIN t, NEW y \in ToSet(t[m]), y # n
       PROVE  y \in ToSet(r[m]) \/ kind[y] \in {"ctrl", "run"}
  <2>1. y \in ToSet(t1[m])
    BY <1>3, <1>16
  <2> QED BY <1>1, <1>7, <1>11, <2>1
<1> QED BY <1>10, <1>11, <1>12, <1>13, <1>14, <1>15, <1>16 DEF Detached

-----------------------------------------------------------------------------
\* c holds copies of the nodes of src, in the same places.
Mirrors(src, c) ==
    /\ Len(c) = Len(src) /\ DOMAIN c = DOMAIN src
    /\ \A i \in DOMAIN src :
          /\ c[i] \in Seq(Nat) /\ Len(c[i]) = Len(kids[src[i]])
          /\ \A j \in 1..Len(kids[src[i]]) :
                \E e \in DOMAIN src : c[i][j] = Len(kids) + e /\ src[e] = kids[src[i]][j]
    /\ \A i, e \in DOMAIN src : Len(kids) + e \in ToSet(c[i]) <=> src[e] \in ToSet(kids[src[i]])

LEMMA CloneIs ==
    ASSUME IsTree(kids), NEW n \in Nodes, NEW src, src = Below(kids, n)
    PROVE  Mirrors(src, Clone(src)) /\ Joined(kids, Clone(src))
<1> DEFINE L == Len(kids)
           A(i) == kids[src[i]]
<1>1. /\ src \in Seq(Nodes) /\ IsInjective(src) /\ DOMAIN src = 1..Len(src) /\ Len(src) \in Nat
      /\ \A i \in DOMAIN src : src[i] \in Nodes
      /\ L \in Nat /\ Nodes = 1..L
      /\ \A i \in DOMAIN src : /\ A(i) \in Seq(Nodes) /\ IsInjective(A(i)) /\ DOMAIN A(i) = 1..Len(A(i))
                               /\ Len(A(i)) \in Nat
  <2>1. src \in Seq(Nodes) /\ IsInjective(src)
    BY BelowIs DEF Nodes
  <2>2. /\ DOMAIN src = 1..Len(src) /\ Len(src) \in Nat /\ \A i \in DOMAIN src : src[i] \in Nodes
    BY <2>1, LenProperties, ElementOfSeq
  <2>3. L \in Nat /\ Nodes = 1..L /\ \A m \in Nodes : kids[m] \in Seq(Nodes) /\ IsInjective(kids[m])
    BY TreeIs DEF Nodes
  <2> QED BY <2>1, <2>2, <2>3, LenProperties
<1>2. \A m \in ToSet(src) : ToSet(kids[m]) \subseteq ToSet(src)
  BY BelowIs DEF Nodes
<1>3. \A i \in DOMAIN src : \A j \in DOMAIN A(i) : A(i)[j] \in ToSet(src)
  BY <1>2 DEF ToSet
<1>4. \A x \in ToSet(src) : IndexOf(src, x) \in DOMAIN src /\ src[IndexOf(src, x)] = x
  BY IndexOfIs
<1>5. PICK c : c = Clone(src)
  OBVIOUS
<1>6. /\ DOMAIN c = DOMAIN src
      /\ \A i \in DOMAIN src : c[i] = [j \in DOMAIN A(i) |-> L + IndexOf(src, A(i)[j])]
  BY <1>5 DEF Clone
<1>7. ASSUME NEW i \in DOMAIN src
      PROVE  /\ c[i] \in Seq(Nat) /\ Len(c[i]) = Len(A(i)) /\ DOMAIN c[i] = DOMAIN A(i)
             /\ \A j \in DOMAIN A(i) : /\ c[i][j] = L + IndexOf(src, A(i)[j])
                                       /\ IndexOf(src, A(i)[j]) \in DOMAIN src
                                       /\ src[IndexOf(src, A(i)[j])] = A(i)[j]
  <2>1. PICK d, k : d = c[i] /\ k = Len(A(i))
    OBVIOUS
  <2>2. d = [j \in 1..k |-> L + IndexOf(src, A(i)[j])] /\ DOMAIN A(i) = 1..k /\ k \in Nat
    BY <1>1, <1>6, <2>1
  <2>3. \A j \in 1..k : IndexOf(src, A(i)[j]) \in DOMAIN src /\ src[IndexOf(src, A(i)[j])] = A(i)[j]
    BY <1>3, <1>4, <2>2
  <2>4. \A j \in 1..k : L + IndexOf(src, A(i)[j]) \in Nat
    BY <1>1, <2>3
  <2>5. d \in [1..k -> Nat]
    BY <2>2, <2>4
  <2>6. d \in Seq(Nat) /\ Len(d) = k /\ DOMAIN d = 1..k
    BY <2>2, <2>5
  <2> QED BY <2>1, <2>2, <2>3, <2>6
<1>8. ASSUME NEW i \in DOMAIN src, NEW e \in DOMAIN src
      PROVE  L + e \in ToSet(c[i]) <=> src[e] \in ToSet(A(i))
  <2>1. ASSUME NEW j \in DOMAIN A(i), c[i][j] = L + e PROVE A(i)[j] = src[e]
    <3>1. L + IndexOf(src, A(i)[j]) = L + e /\ IndexOf(src, A(i)[j]) \in DOMAIN src
      BY <1>7, <2>1
    <3>2. IndexOf(src, A(i)[j]) = e
      BY <1>1, <3>1
    <3> QED BY <1>7, <3>2
  <2>2. ASSUME NEW j \in DOMAIN A(i), A(i)[j] = src[e] PROVE c[i][j] = L + e
    <3>1. IndexOf(src, A(i)[j]) \in DOMAIN src /\ src[IndexOf(src, A(i)[j])] = src[e]
      BY <1>7, <2>2
    <3>2. IndexOf(src, A(i)[j]) = e
      BY <1>1, <3>1 DEF IsInjective
    <3> QED BY <1>7, <3>2
  <2> HIDE DEF A, L
  <2> QED BY <1>7, <2>1, <2>2 DEF ToSet
<1>9. ASSUME NEW i \in DOMAIN src, NEW y \in ToSet(c[i])
      PROVE  \E e \in DOMAIN src : y = L + e /\ src[e] \in ToSet(A(i))
  <2>1. PICK j \in DOMAIN A(i) : y = c[i][j]
    BY <1>7 DEF ToSet
  <2>2. y = L + IndexOf(src, A(i)[j]) /\ IndexOf(src, A(i)[j]) \in DOMAIN src
        /\ src[IndexOf(src, A(i)[j])] = A(i)[j]
    BY <1>7, <2>1
  <2>3. A(i)[j] \in ToSet(A(i))
    BY DEF ToSet
  <2> QED BY <2>2, <2>3
<1>10. Mirrors(src, c)
  <2>1. Len(c) = Len(src)
    BY <1>1, <1>6
  <2>2. ASSUME NEW i \in DOMAIN src, NEW j \in 1..Len(A(i))
        PROVE  \E e \in DOMAIN src : c[i][j] = L + e /\ src[e] = A(i)[j]
    <3>1. j \in DOMAIN A(i)
      BY <1>1
    <3> QED BY <1>7, <3>1
  <2> QED BY <1>6, <1>7, <1>8, <2>1, <2>2 DEF Mirrors
<1>11. Separate(kids, c)
  <2>1. c \in Seq(Seq(Nat))
    <3>1. c = [i \in 1..Len(src) |-> c[i]]
      BY <1>1, <1>5 DEF Clone
    <3>2. \A i \in 1..Len(src) : c[i] \in Seq(Nat)
      BY <1>1, <1>7
    <3> QED BY <1>1, <3>1, <3>2
  <2>2. ASSUME NEW i \in DOMAIN c PROVE IsInjective(c[i])
    <3>1. ASSUME NEW j \in DOMAIN A(i), NEW l \in DOMAIN A(i), c[i][j] = c[i][l] PROVE j = l
      <4>1. IndexOf(src, A(i)[j]) = IndexOf(src, A(i)[l])
        <5>1. L + IndexOf(src, A(i)[j]) = L + IndexOf(src, A(i)[l])
              /\ IndexOf(src, A(i)[j]) \in DOMAIN src /\ IndexOf(src, A(i)[l]) \in DOMAIN src
          BY <1>6, <1>7, <3>1
        <5> QED BY <1>1, <5>1
      <4>2. A(i)[j] = A(i)[l]
        BY <1>6, <1>7, <4>1
      <4> QED BY <1>1, <1>6, <4>2 DEF IsInjective
    <3>2. DOMAIN c[i] = DOMAIN A(i)
      BY <1>6, <1>7
    <3> QED BY <3>1, <3>2 DEF IsInjective
  <2>3. ASSUME NEW i \in DOMAIN c, NEW y \in ToSet(c[i]) PROVE L < y /\ y <= L + Len(c)
    <3>1. PICK e \in DOMAIN src : y = L + e
      BY <1>6, <1>9
    <3>2. Len(c) = Len(src)
      BY <1>1, <1>6
    <3> QED BY <1>1, <3>1, <3>2
  <2>4. ASSUME NEW i \in DOMAIN c, NEW l \in DOMAIN c, i # l PROVE ToSet(c[i]) \cap ToSet(c[l]) = {}
    <3> SUFFICES ASSUME NEW y \in ToSet(c[i]), y \in ToSet(c[l]) PROVE FALSE
      OBVIOUS
    <3>1. PICK e \in DOMAIN src : y = L + e /\ src[e] \in ToSet(A(i))
      BY <1>6, <1>9
    <3>2. src[e] \in ToSet(A(l))
      BY <1>6, <1>8, <3>1
    <3>3. src[i] # src[l] /\ src[i] \in Nodes /\ src[l] \in Nodes
      BY <1>1, <1>6, <2>4 DEF IsInjective
    <3> QED BY <3>1, <3>2, <3>3, TreeIs DEF Nodes
  <2> QED BY <2>1, <2>2, <2>3, <2>4 DEF Separate
<1>12. Grounded(kids, c)
  <2>1. ASSUME NEW S \in SUBSET DOMAIN c, S # {}
        PROVE  \E i \in S : \A j \in S : L + i \notin ToSet(c[j])
    <3>1. PICK T : T = {src[i] : i \in S}
      OBVIOUS
    <3>2. T \in SUBSET DOMAIN kids /\ T # {}
      BY <1>1, <1>6, <2>1, <3>1 DEF Nodes
    <3>3. Rootless(kids, T)
      BY <3>2, TreeIs
    <3>4. PICK i \in S : \A m \in T : src[i] \notin ToSet(kids[m])
      BY <3>1, <3>3 DEF Rootless
    <3>5. \A j \in S : L + i \notin ToSet(c[j])
      BY <1>6, <1>8, <3>1, <3>4
    <3> QED BY <3>5
  <2> QED BY <2>1 DEF Grounded
<1>13. Joined(kids, c)
  BY <1>11, <1>12, JoinedTree
<1> QED BY <1>5, <1>10, <1>13

-----------------------------------------------------------------------------
(* A tree that has a new part stays one in which every node is held by one  *)
(* that may.                                                                *)

HungBut(t, x) == \A m \in DOMAIN t \ {x} : t[m] # <<>> => m \in InTree(t)

LEMMA ExtendedFits ==
    ASSUME NEW t, IsTree(t), NEW p \in DOMAIN t, NEW x \in DOMAIN t, NEW r, Extended(t, p, x, r),
           NEW kd, Fits(t, kd), kd[p] \in Holders(kd[x]), kd[x] = "ctrl" => t[x] # <<>>
    PROVE  Fits(r, kd)
<1>1. \A m \in DOMAIN t : m # p => r[m] = t[m]
  BY DEF Extended
<1>2. ToSet(r[p]) = ToSet(t[p]) \cup {x} /\ DOMAIN r = DOMAIN t
  BY DEF Extended
<1>3. r[p] # <<>>
  <2>1. ToSet(<<>>) = {}
    BY DEF ToSet
  <2> QED BY <1>2, <2>1
<1>4. ASSUME NEW m \in DOMAIN t, NEW n \in ToSet(r[m])
      PROVE  kd[m] \in Holders(kd[n]) /\ (kd[n] = "ctrl" => r[n] # <<>>)
  <2>1. n \in ToSet(t[m]) \/ (m = p /\ n = x)
    BY <1>1, <1>2
  <2>2. n \in DOMAIN t /\ kd[m] \in Holders(kd[n]) /\ (kd[n] = "ctrl" => t[n] # <<>>)
    BY <2>1, TreeIs DEF Fits
  <2> QED BY <1>1, <1>3, <2>2
<1> QED BY <1>2, <1>4 DEF Fits

LEMMA ExtendedHung ==
    ASSUME NEW t, IsTree(t), NEW p \in InTree(t), NEW x \in DOMAIN t, NEW r, Extended(t, p, x, r),
           HungBut(t, x)
    PROVE  Hung(r) /\ InTree(r) = InTree(t) \cup {x}
<1>1. p \in DOMAIN t
  BY InTreeIs
<1>2. \A m \in DOMAIN t : ToSet(r[m]) = ToSet(t[m]) \/ (m = p /\ ToSet(r[m]) = ToSet(t[m]) \cup {x})
  BY <1>1 DEF Extended
<1>3. ToSet(r[p]) = ToSet(t[p]) \cup {x} /\ DOMAIN r = DOMAIN t
  BY DEF Extended
<1>4. ASSUME NEW y PROVE y \in InTree(r) <=> y \in InTree(t) \/ y = x
  <2>1. (\E m \in DOMAIN t : y \in ToSet(r[m])) <=> (\E m \in DOMAIN t : y \in ToSet(t[m])) \/ y = x
    BY <1>1, <1>2, <1>3
  <2> QED BY <1>3, <2>1 DEF InTree
<1>5. \A m \in DOMAIN t : m # p => r[m] = t[m]
  BY DEF Extended
<1>6. ASSUME NEW m \in DOMAIN r, r[m] # <<>> PROVE m \in InTree(r)
  <2>1. CASE m = p \/ m = x
    BY <1>4, <2>1
  <2>2. CASE m # p /\ m # x
    BY <1>3, <1>4, <1>5, <1>6, <2>2 DEF HungBut
  <2> QED BY <2>1, <2>2
<1> QED BY <1>4, <1>6 DEF Hung

LEMMA WrappedFits ==
    ASSUME NEW t, IsTree(t), NEW p \in DOMAIN t, NEW x \in DOMAIN t, NEW k \in Inline,
           NEW r, Wrapped(t, p, x, k, r), NEW kd, Fits(t, kd), kd[p] = "paragraph", kd[x] = k,
           kd[Len(t) + 1] = "run", k = "note" => kd[Len(t) + 2] = "ctrl"
    PROVE  Fits(r, kd)
<1>1. PICK run, hold : run = Len(t) + 1 /\ hold = Len(t) + 2
  OBVIOUS
<1>2. /\ DOMAIN t = 1..Len(t) /\ Len(t) \in Nat
      /\ \A m \in DOMAIN t : m # run /\ m # hold /\ ToSet(t[m]) \subseteq DOMAIN t
  BY <1>1, TreeIs
<1>3. /\ ToSet(r[p]) = ToSet(t[p]) \cup {run}
      /\ \A m \in DOMAIN t : m # p => r[m] = t[m]
      /\ k # "note" => r[run] = <<x>>
      /\ k = "note" => r[run] = <<hold>> /\ r[hold] = <<x>>
  BY <1>1 DEF Wrapped
<1>4. DOMAIN r = DOMAIN t \cup (IF k = "note" THEN {run, hold} ELSE {run})
  <2>1. DOMAIN r = 1..Len(t) + Len(Wrapping(k))
    BY TreeIs DEF Wrapped
  <2>2. CASE k = "note"
    <3>1. Len(Wrapping(k)) = 2
      BY <2>2 DEF Wrapping
    <3>2. 1..Len(t) + 2 = (1..Len(t)) \cup {run, hold}
      BY <1>1, <1>2
    <3> QED BY <1>2, <2>1, <2>2, <3>1, <3>2
  <2>3. CASE k # "note"
    <3>1. Len(Wrapping(k)) = 1
      BY <2>3 DEF Wrapping
    <3>2. 1..Len(t) + 1 = (1..Len(t)) \cup {run}
      BY <1>1, <1>2
    <3> QED BY <1>2, <2>1, <2>3, <3>1, <3>2
  <2> QED BY <2>2, <2>3
<1>5. \A y : ToSet(<<y>>) = {y} /\ <<y>> # <<>>
  <2> TAKE y
  <2>1. ToSet(<<y>>) = {y}
    BY OneElement
  <2> QED BY <2>1
<1>6. /\ Holders("run") = {"paragraph"} /\ Holders("ctrl") = {"run"}
      /\ k = "note" => Holders(k) = {"ctrl"}
      /\ k # "note" => Holders(k) = {"run"}
  BY DEF Holders, Inline
<1>7. kd[x] # "ctrl" /\ kd[p] # "ctrl"
  BY DEF Inline
<1>8. ASSUME NEW m \in DOMAIN r, NEW n \in ToSet(r[m])
      PROVE  kd[m] \in Holders(kd[n]) /\ (kd[n] = "ctrl" => r[n] # <<>>)
  <2>1. CASE m \in DOMAIN t /\ n \in ToSet(t[m])
    <3>1. n \in DOMAIN t /\ kd[m] \in Holders(kd[n]) /\ (kd[n] = "ctrl" => t[n] # <<>>)
      BY <1>2, <2>1 DEF Fits
    <3> QED BY <1>3, <1>7, <3>1
  <2>2. CASE m = p /\ n = run
    BY <1>1, <1>6, <2>2
  <2>3. CASE m = run
    <3>1. CASE k = "note"
      <4>1. n = hold /\ r[hold] # <<>>
        BY <1>3, <1>5, <2>3, <3>1, <1>8
      <4> QED BY <1>1, <1>6, <2>3, <3>1, <4>1
    <3>2. CASE k # "note"
      <4>1. n = x
        BY <1>3, <1>5, <2>3, <3>2, <1>8
      <4> QED BY <1>1, <1>6, <1>7, <2>3, <3>2, <4>1
    <3> QED BY <3>1, <3>2
  <2>4. CASE k = "note" /\ m = hold
    <3>1. n = x
      BY <1>3, <1>5, <2>4, <1>8
    <3> QED BY <1>1, <1>6, <1>7, <2>4, <3>1
  <2>5. m \in DOMAIN t => n \in ToSet(t[m]) \/ (m = p /\ n = run)
    BY <1>3
  <2> QED BY <1>4, <2>1, <2>2, <2>3, <2>4, <2>5
<1> QED BY <1>8 DEF Fits

LEMMA WrappedHung ==
    ASSUME NEW t, IsTree(t), NEW p \in InTree(t), NEW x \in DOMAIN t, NEW k \in Inline,
           NEW r, Wrapped(t, p, x, k, r), HungBut(t, x)
    PROVE  /\ Hung(r)
           /\ InTree(r) \subseteq InTree(t) \cup {x} \cup (DOMAIN r \ DOMAIN t)
           /\ InTree(t) \cup {x} \subseteq InTree(r)
<1>1. PICK run, hold : run = Len(t) + 1 /\ hold = Len(t) + 2
  OBVIOUS
<1>2. /\ DOMAIN t = 1..Len(t) /\ Len(t) \in Nat /\ p \in DOMAIN t
      /\ \A m \in DOMAIN t : m # run /\ m # hold
  BY <1>1, TreeIs, InTreeIs
<1>3. /\ ToSet(r[p]) = ToSet(t[p]) \cup {run}
      /\ \A m \in DOMAIN t : m # p => r[m] = t[m]
      /\ k # "note" => r[run] = <<x>>
      /\ k = "note" => r[run] = <<hold>> /\ r[hold] = <<x>>
      /\ IsTree(r) /\ DOMAIN t \subseteq DOMAIN r
  BY <1>1 DEF Wrapped
<1>4. DOMAIN r = DOMAIN t \cup (IF k = "note" THEN {run, hold} ELSE {run})
  <2>1. DOMAIN r = 1..Len(t) + Len(Wrapping(k))
    BY TreeIs DEF Wrapped
  <2>2. CASE k = "note"
    <3>1. Len(Wrapping(k)) = 2
      BY <2>2 DEF Wrapping
    <3>2. 1..Len(t) + 2 = (1..Len(t)) \cup {run, hold}
      BY <1>1, <1>2
    <3> QED BY <1>2, <2>1, <2>2, <3>1, <3>2
  <2>3. CASE k # "note"
    <3>1. Len(Wrapping(k)) = 1
      BY <2>3 DEF Wrapping
    <3>2. 1..Len(t) + 1 = (1..Len(t)) \cup {run}
      BY <1>1, <1>2
    <3> QED BY <1>2, <2>1, <2>3, <3>1, <3>2
  <2> QED BY <2>2, <2>3
<1>5. \A y : ToSet(<<y>>) = {y}
  BY OneElement
<1>6. run \in InTree(r) /\ (k = "note" => hold \in InTree(r)) /\ x \in InTree(r)
  <2>1. run \in InTree(r)
    BY <1>2, <1>3 DEF InTree
  <2>2. \A m \in DOMAIN r : \A y \in ToSet(r[m]) : y \in InTree(r)
    BY DEF InTree
  <2>3. run \in DOMAIN r
    BY <1>4
  <2>4. k = "note" => hold \in InTree(r)
    <3>1. ToSet(<<hold>>) = {hold}
      BY <1>5
    <3> QED BY <1>3, <2>2, <2>3, <3>1
  <2>5. ToSet(<<x>>) = {x}
    BY <1>5
  <2>6. CASE k = "note"
    <3>1. hold \in DOMAIN r
      BY <1>4, <2>6
    <3> QED BY <1>3, <2>1, <2>4, <2>6, <2>2, <2>5, <3>1
  <2>7. CASE k # "note"
    BY <1>3, <2>1, <2>7, <2>2, <2>3, <2>5
  <2> QED BY <2>1, <2>4, <2>6, <2>7
<1>7. ASSUME NEW y \in InTree(t) PROVE y \in InTree(r)
  <2>1. CASE y = Section
    BY <2>1 DEF InTree
  <2>2. CASE \E m \in DOMAIN t : y \in ToSet(t[m])
    <3>1. PICK m \in DOMAIN t : y \in ToSet(t[m])
      BY <2>2
    <3>2. m \in DOMAIN r /\ y \in ToSet(r[m])
      BY <1>3, <3>1
    <3> QED BY <3>2 DEF InTree
  <2> QED BY <2>1, <2>2, InTreeIs
<1>8. ASSUME NEW y \in InTree(r) PROVE y \in InTree(t) \cup {x} \cup (DOMAIN r \ DOMAIN t)
  <2>1. CASE y = Section
    BY <2>1 DEF InTree
  <2>2. CASE \E m \in DOMAIN r : y \in ToSet(r[m])
    <3>1. PICK m \in DOMAIN r : y \in ToSet(r[m])
      BY <2>2
    <3>2. CASE m \in DOMAIN t
      <4>1. y \in ToSet(t[m]) \/ y = run
        BY <1>3, <3>1, <3>2
      <4> QED BY <1>2, <1>4, <3>2, <4>1 DEF InTree
    <3>3. CASE m \notin DOMAIN t
      <4>1. y = x \/ (k = "note" /\ y = hold)
        BY <1>3, <1>4, <1>5, <3>1, <3>3
      <4> QED BY <1>2, <1>4, <4>1
    <3> QED BY <3>2, <3>3
  <2> QED BY <1>3, <2>1, <2>2, InTreeIs
<1>9. ASSUME NEW m \in DOMAIN r, r[m] # <<>> PROVE m \in InTree(r)
  <2>1. CASE m = p \/ m = x \/ m \notin DOMAIN t
    BY <1>4, <1>6, <1>7, <2>1
  <2>2. CASE m # p /\ m # x /\ m \in DOMAIN t
    BY <1>3, <1>7, <1>9, <2>2 DEF HungBut
  <2> QED BY <2>1, <2>2
<1> QED BY <1>6, <1>7, <1>8, <1>9 DEF Hung

-----------------------------------------------------------------------------
(* The invariant of the tree, and what a command does to a state that has it.*)

Formed(t, kd) ==
    /\ IsTree(t)
    /\ kd \in Seq(Kinds) /\ Len(kd) = Len(t)
    /\ kd[Section] = "section"
    /\ Fits(t, kd)
    /\ Hung(t)

Described ==
    /\ id \in Seq(Nat) /\ Len(id) = Len(kids)
    /\ shape \in Seq(Shapes) /\ Len(shape) = Len(kids)
    /\ addr \in Seq(Nat) /\ Len(addr) = Len(kids)
    /\ cached \subseteq Nodes

\* What is still in the tree is as it was, but for the children of a few nodes.
Effect(touched) ==
    /\ Formed(kids', kind') /\ Described'
    /\ Nodes \subseteq DOMAIN kids'
    /\ \A m \in Nodes : kind'[m] = kind[m] /\ id'[m] = id[m] /\ shape'[m] = shape[m]
    /\ InTree(kids') \subseteq InTree(kids) \cup (DOMAIN kids' \ DOMAIN kids)
    /\ \A m \in (Nodes \cap InTree(kids')) \ touched : kids'[m] = kids[m]

\* r is u behind s.
Tailed(S, s, u, r) ==
    /\ r \in Seq(S) /\ Len(r) = Len(s) + Len(u)
    /\ \A i \in 1..Len(s) : r[i] = s[i]
    /\ \A i \in 1..Len(u) : r[Len(s) + i] = u[i]

LEMMA TailIs ==
    ASSUME NEW S, NEW s \in Seq(S), NEW u \in Seq(S)
    PROVE  Tailed(S, s, u, s \o u)
<1>1. /\ s \o u \in Seq(S) /\ Len(s \o u) = Len(s) + Len(u) /\ Len(s) \in Nat /\ Len(u) \in Nat
      /\ \A i \in 1..Len(s) + Len(u) : (s \o u)[i] = IF i <= Len(s) THEN s[i] ELSE u[i - Len(s)]
  BY ConcatProperties, LenProperties
<1>2. ASSUME NEW i \in 1..Len(u) PROVE (s \o u)[Len(s) + i] = u[i]
  <2>1. PICK k : k = Len(s) + i
    OBVIOUS
  <2>2. k \in 1..Len(s) + Len(u) /\ ~(k <= Len(s)) /\ k - Len(s) = i
    BY <1>1, <2>1
  <2> QED BY <1>1, <2>1, <2>2
<1> QED BY <1>1, <1>2 DEF Tailed

LEMMA MakesIs ==
    ASSUME Formed(kids, kind), Described, NEW new \in Seq(Kinds), Makes(new)
    PROVE  /\ kind' \in Seq(Kinds) /\ Len(kind') = Len(kids) + Len(new)
           /\ \A m \in Nodes : kind'[m] = kind[m] /\ id'[m] = id[m] /\ shape'[m] = shape[m]
           /\ \A i \in 1..Len(new) : /\ kind'[Len(kids) + i] = new[i]
                                     /\ id'[Len(kids) + i] = 0
                                     /\ shape'[Len(kids) + i] = "full"
           /\ id' \in Seq(Nat) /\ Len(id') = Len(kids) + Len(new)
           /\ shape' \in Seq(Shapes) /\ Len(shape') = Len(kids) + Len(new)
<1>1. /\ kind \in Seq(Kinds) /\ Len(kind) = Len(kids) /\ Nodes = 1..Len(kids)
      /\ id \in Seq(Nat) /\ Len(id) = Len(kids) /\ shape \in Seq(Shapes) /\ Len(shape) = Len(kids)
  BY TreeIs DEF Formed, Described, Nodes
<1>2. DOMAIN new = 1..Len(new) /\ Len(new) \in Nat
  BY LenProperties
<1>3. PICK a, z : a = [i \in DOMAIN new |-> "full"] /\ z = [i \in DOMAIN new |-> 0]
  OBVIOUS
<1>4. /\ a \in Seq(Shapes) /\ Len(a) = Len(new) /\ \A i \in 1..Len(new) : a[i] = "full"
      /\ z \in Seq(Nat) /\ Len(z) = Len(new) /\ \A i \in 1..Len(new) : z[i] = 0
  BY <1>2, <1>3 DEF Shapes
<1>5. kind' = kind \o new /\ shape' = shape \o a /\ id' = id \o z
  BY <1>3 DEF Makes
<1>6. Tailed(Kinds, kind, new, kind \o new)
  BY <1>1, TailIs
<1>7. Tailed(Shapes, shape, a, shape \o a)
  BY <1>1, <1>4, TailIs
<1>8. Tailed(Nat, id, z, id \o z)
  BY <1>1, <1>4, TailIs
<1> QED BY <1>1, <1>4, <1>5, <1>6, <1>7, <1>8 DEF Tailed

\* New nodes behind those of a document, of kinds that may hold each other, with
\* the first of them still to be put into its place.
LEMMA JoinedFits ==
    ASSUME NEW t, IsTree(t), NEW kd, Fits(t, kd), Hung(t), NEW c, Joined(t, c),
           NEW k \in Nat \ {0}, DOMAIN c = 1..k,
           \A i \in 1..k : \A y \in ToSet(c[i]) :
              \E e \in 2..k : /\ y = Len(t) + e
                              /\ kd[Len(t) + i] \in Holders(kd[y])
                              /\ kd[y] = "ctrl" => c[e] # <<>>,
           \A i \in 2..k : c[i] # <<>> => \E j \in 1..k : Len(t) + i \in ToSet(c[j]),
           NEW p \in InTree(t)
    PROVE  /\ Fits(t \o c, kd)
           /\ HungBut(t \o c, Len(t) + 1)
           /\ InTree(t) \subseteq InTree(t \o c)
           /\ InTree(t \o c) \subseteq InTree(t) \cup (DOMAIN (t \o c) \ DOMAIN t)
           /\ Loose(t \o c, Len(t) + 1, p)
<1>1. PICK r : r = t \o c
  OBVIOUS
<1>2. /\ IsTree(r) /\ Len(r) = Len(t) + Len(c) /\ DOMAIN t \subseteq DOMAIN r
      /\ \A m \in DOMAIN t : r[m] = t[m]
      /\ \A i \in 1..k : Len(t) + i \in DOMAIN r /\ r[Len(t) + i] = c[i]
  BY <1>1 DEF Joined
<1>3. Len(t) \in Nat /\ DOMAIN t = 1..Len(t) /\ \A m \in DOMAIN t : ToSet(t[m]) \subseteq DOMAIN t
  BY TreeIs
<1>4. /\ Len(c) \in Nat /\ Len(r) \in Nat /\ DOMAIN r = 1..Len(r)
      /\ \A m \in DOMAIN r : ToSet(r[m]) \subseteq DOMAIN r
      /\ k \in Nat \ {0} /\ Section = 1 /\ Section \in DOMAIN t
  <2>1. Len(r) \in Nat /\ DOMAIN r = 1..Len(r) /\ \A m \in DOMAIN r : ToSet(r[m]) \subseteq DOMAIN r
    BY <1>2, TreeIs
  <2>2. Section = 1 /\ Section \in DOMAIN t
    BY TreeIs DEF Section
  <2>3. Len(t) + k \in 1..Len(r)
    BY <1>2, <2>1
  <2>4. Len(c) \in Nat
    BY LenProperties, <1>2, <1>3, <2>1
  <2> QED BY <2>1, <2>2, <2>4
<1>5. Len(r) = Len(t) + k
  BY <1>2
<1>6. ASSUME NEW m \in DOMAIN r
      PROVE  m \in DOMAIN t \/ \E i \in 1..k : m = Len(t) + i
  <2>1. m <= Len(t) \/ (m - Len(t) \in 1..k /\ m = Len(t) + (m - Len(t)))
    BY <1>3, <1>4, <1>5
  <2> QED BY <1>3, <1>4, <2>1
<1>7. ASSUME NEW i \in 1..k, NEW y \in ToSet(r[Len(t) + i])
      PROVE  /\ y \in DOMAIN r \ DOMAIN t /\ y # Len(t) + 1
             /\ kd[Len(t) + i] \in Holders(kd[y]) /\ (kd[y] = "ctrl" => r[y] # <<>>)
  <2>1. PICK e \in 2..k : /\ y = Len(t) + e
                          /\ kd[Len(t) + i] \in Holders(kd[y])
                          /\ kd[y] = "ctrl" => c[e] # <<>>
    BY <1>2
  <2>2. e \in 1..k /\ y \notin DOMAIN t /\ y # Len(t) + 1
    BY <1>3, <1>4, <2>1
  <2> QED BY <1>2, <2>1, <2>2
<1>8. Fits(r, kd)
  <2>1. ASSUME NEW m \in DOMAIN r, NEW n \in ToSet(r[m])
        PROVE  kd[m] \in Holders(kd[n]) /\ (kd[n] = "ctrl" => r[n] # <<>>)
    <3>1. CASE m \in DOMAIN t
      <4>1. n \in ToSet(t[m]) /\ n \in DOMAIN t
        BY <1>2, <1>3, <2>1, <3>1
      <4> QED BY <1>2, <3>1, <4>1 DEF Fits
    <3>2. CASE m \notin DOMAIN t
      BY <1>6, <1>7, <2>1, <3>2
    <3> QED BY <3>1, <3>2
  <2> QED BY <2>1 DEF Fits
<1>9. InTree(t) \subseteq InTree(r)
  <2>1. ASSUME NEW n \in InTree(t) PROVE n \in InTree(r)
    BY <1>2, <2>1, InTreeIs
  <2> QED BY <2>1
<1>10. InTree(r) \subseteq InTree(t) \cup (DOMAIN r \ DOMAIN t)
  <2>1. ASSUME NEW n \in InTree(r) PROVE n \in InTree(t) \/ n \in DOMAIN r \ DOMAIN t
    <3>1. CASE n = Section
      BY <3>1, InTreeIs
    <3>2. ASSUME NEW m \in DOMAIN r, n \in ToSet(r[m]) PROVE n \in InTree(t) \/ n \in DOMAIN r \ DOMAIN t
      <4>1. CASE m \in DOMAIN t
        BY <1>2, <3>2, <4>1, InTreeIs
      <4>2. CASE m \notin DOMAIN t
        BY <1>6, <1>7, <3>2, <4>2
      <4> QED BY <4>1, <4>2
    <3> QED BY <1>2, <2>1, <3>1, <3>2, InTreeIs
  <2> QED BY <2>1
<1>11. HungBut(r, Len(t) + 1)
  <2>1. ASSUME NEW m \in DOMAIN r \ {Len(t) + 1}, r[m] # <<>> PROVE m \in InTree(r)
    <3>1. CASE m \in DOMAIN t
      BY <1>2, <1>9, <2>1, <3>1 DEF Hung
    <3>2. CASE m \notin DOMAIN t
      <4>1. PICK i \in 1..k : m = Len(t) + i
        BY <1>6, <2>1, <3>2
      <4>2. i \in 2..k
        BY <1>3, <2>1, <4>1
      <4>3. PICK j \in 1..k : m \in ToSet(c[j])
        BY <1>2, <2>1, <4>1, <4>2
      <4>4. Len(t) + j \in DOMAIN r /\ m \in ToSet(r[Len(t) + j])
        BY <1>2, <4>3
      <4> QED BY <1>2, <4>4, InTreeIs
    <3> QED BY <3>1, <3>2
  <2> QED BY <2>1 DEF HungBut
<1>12. Loose(r, Len(t) + 1, p)
  <2>1. PICK B : B = DOMAIN r \ DOMAIN t
    OBVIOUS
  <2>2. Len(t) + 1 \in DOMAIN r /\ Len(t) + 1 \notin DOMAIN t /\ Len(t) + 1 # Section
    BY <1>3, <1>4, <1>5
  <2>3. ASSUME NEW m \in DOMAIN r PROVE Len(t) + 1 \notin ToSet(r[m])
    <3>1. CASE m \in DOMAIN t
      BY <1>2, <1>3, <2>2, <3>1
    <3>2. CASE m \notin DOMAIN t
      BY <1>6, <1>7, <2>3, <3>2
    <3> QED BY <3>1, <3>2
  <2>4. ASSUME NEW m \in B PROVE ToSet(r[m]) \subseteq B
    BY <1>6, <1>7, <2>1, <2>4
  <2>5. p \notin B
    BY <2>1, InTreeIs
  <2> QED BY <2>1, <2>2, <2>3, <2>4, <2>5 DEF Loose
<1> QED BY <1>1, <1>8, <1>9, <1>10, <1>11, <1>12

-----------------------------------------------------------------------------
(* What adds nodes: a subtree is joined to the tree and put under p.           *)

\* n nodes more, and those there were as they were.
Carried(n) ==
    /\ kind' \in Seq(Kinds) /\ Len(kind') = Len(kids) + n
    /\ id' \in Seq(Nat) /\ Len(id') = Len(kids) + n
    /\ shape' \in Seq(Shapes) /\ Len(shape') = Len(kids) + n
    /\ addr' \in Seq(Nat) /\ Len(addr') = Len(kids) + n
    /\ cached' \subseteq 1..Len(kids) + n
    /\ \A m \in Nodes : kind'[m] = kind[m] /\ id'[m] = id[m] /\ shape'[m] = shape[m]

\* The children of the nodes that join the tree.
Joins(c, k) ==
    /\ k \in Nat \ {0} /\ DOMAIN c = 1..k
    /\ Joined(kids, c)
    /\ \A i \in 1..k : \A y \in ToSet(c[i]) :
          \E e \in 2..k : /\ y = Len(kids) + e
                          /\ kind'[Len(kids) + i] \in Holders(kind'[y])
                          /\ kind'[y] = "ctrl" => c[e] # <<>>
    /\ \A i \in 2..k : c[i] # <<>> => \E j \in 1..k : Len(kids) + i \in ToSet(c[j])

\* The tree t that is to take New under p.
Ready(t, c, k, p) ==
    /\ IsTree(t) /\ Len(t) = Len(kids) + k /\ DOMAIN t = 1..Len(kids) + k /\ Len(kids) \in Nat
    /\ Nodes \subseteq DOMAIN t /\ Nodes = 1..Len(kids)
    /\ \A m \in Nodes : t[m] = kids[m]
    /\ New \in DOMAIN t /\ New \notin Nodes /\ t[New] = c[1]
    /\ Fits(t, kind') /\ HungBut(t, New)
    /\ p \in InTree(t) /\ p \in Nodes
    /\ InTree(kids) \subseteq InTree(t)
    /\ InTree(t) \subseteq InTree(kids) \cup (DOMAIN t \ Nodes)
    /\ Loose(t, New, p)

LEMMA ReadyIs ==
    ASSUME Formed(kids, kind), \A m \in Nodes : kind'[m] = kind[m],
           NEW c, NEW k, Joins(c, k), NEW p \in InTree(kids)
    PROVE  Ready(kids \o c, c, k, p)
<1>1. IsTree(kids) /\ Fits(kids, kind) /\ Hung(kids)
  BY DEF Formed
<1>2. Fits(kids, kind')
  <2>1. ASSUME NEW m \in DOMAIN kids, NEW x \in ToSet(kids[m])
        PROVE  kind'[m] \in Holders(kind'[x]) /\ (kind'[x] = "ctrl" => kids[x] # <<>>)
    <3>1. x \in DOMAIN kids
      BY <1>1, TreeIs
    <3> QED BY <1>1, <3>1 DEF Fits, Nodes
  <2> QED BY <2>1 DEF Fits
<1>3. Joined(kids, c) /\ k \in Nat \ {0} /\ DOMAIN c = 1..k
  BY DEF Joins
<1>4. /\ Fits(kids \o c, kind')
      /\ HungBut(kids \o c, Len(kids) + 1)
      /\ InTree(kids) \subseteq InTree(kids \o c)
      /\ InTree(kids \o c) \subseteq InTree(kids) \cup (DOMAIN (kids \o c) \ DOMAIN kids)
      /\ Loose(kids \o c, Len(kids) + 1, p)
  BY <1>1, <1>2, <1>3, JoinedFits DEF Joins
<1>5. PICK t : t = kids \o c
  OBVIOUS
<1>6. /\ IsTree(t) /\ Len(t) = Len(kids) + Len(c) /\ DOMAIN kids \subseteq DOMAIN t
      /\ \A m \in DOMAIN kids : t[m] = kids[m]
      /\ \A i \in 1..k : Len(kids) + i \in DOMAIN t /\ t[Len(kids) + i] = c[i]
  BY <1>3, <1>5 DEF Joined
<1>7. Len(kids) \in Nat /\ DOMAIN kids = 1..Len(kids) /\ Len(t) \in Nat /\ DOMAIN t = 1..Len(t)
  BY <1>1, <1>6, TreeIs
<1>8. 1 \in 1..k
  BY <1>3
<1>9. Len(kids) + 1 \in DOMAIN t /\ t[Len(kids) + 1] = c[1] /\ Len(kids) + 1 \notin DOMAIN kids
  BY <1>6, <1>7, <1>8
<1>10. Len(c) = k
  BY <1>3, <1>6, <1>7, LenProperties
<1>11. p \in InTree(t) /\ p \in DOMAIN kids
  BY <1>1, <1>4, <1>5, InTreeIs
<1>12. Len(t) = Len(kids) + k
  BY <1>6, <1>10
<1>13. /\ Fits(t, kind') /\ HungBut(t, New) /\ InTree(kids) \subseteq InTree(t)
       /\ InTree(t) \subseteq InTree(kids) \cup (DOMAIN t \ Nodes)
       /\ Loose(t, New, p)
  BY <1>4, <1>5 DEF New, Nodes
<1>14. Ready(t, c, k, p)
  BY <1>6, <1>7, <1>9, <1>11, <1>12, <1>13 DEF Ready, Nodes, New
<1> QED BY <1>5, <1>14

LEMMA GraftedEffect ==
    ASSUME Formed(kids, kind), NEW k, Carried(k), NEW c, NEW p, NEW t, Ready(t, c, k, p),
           Extended(t, p, New, kids'), kind'[p] \in Holders(kind'[New]), kind'[New] = "ctrl" => c[1] # <<>>
    PROVE  Effect({p})
<1>1. /\ IsTree(kids') /\ DOMAIN kids' = DOMAIN t /\ Len(kids') = Len(t)
      /\ \A m \in DOMAIN t : m # p => kids'[m] = t[m]
  BY DEF Extended
<1>2. Fits(kids', kind')
  BY ExtendedFits DEF Ready
<1>3. Hung(kids') /\ InTree(kids') = InTree(t) \cup {New}
  BY ExtendedHung DEF Ready
<1>4. Formed(kids', kind')
  BY <1>1, <1>2, <1>3 DEF Formed, Ready, Carried, Nodes, IsTree
<1>5. Described'
  BY <1>1 DEF Described, Carried, Ready, Nodes
<1>6. InTree(kids') \subseteq InTree(kids) \cup (DOMAIN kids' \ DOMAIN kids)
  BY <1>1, <1>3 DEF Ready, Nodes
<1>7. ASSUME NEW m \in (Nodes \cap InTree(kids')) \ {p} PROVE kids'[m] = kids[m]
  BY <1>1 DEF Ready
<1> QED BY <1>1, <1>4, <1>5, <1>6, <1>7 DEF Effect, Ready, Carried

LEMMA WrappedEffect ==
    ASSUME Formed(kids, kind), NEW k \in Nat, NEW kk \in Inline, Carried(k + Len(Wrapping(kk))),
           NEW c, NEW p, NEW t, Ready(t, c, k, p), Wrapped(t, p, New, kk, kids'),
           kind'[p] = "paragraph", kind'[New] = kk, kind'[Len(kids) + k + 1] = "run",
           kk = "note" => kind'[Len(kids) + k + 2] = "ctrl"
    PROVE  Effect({p})
<1>1. /\ IsTree(kids') /\ DOMAIN t \subseteq DOMAIN kids' /\ Len(kids') = Len(t) + Len(Wrapping(kk))
      /\ \A m \in DOMAIN t : m # p => kids'[m] = t[m]
  BY DEF Wrapped
<1>2. Fits(kids', kind')
  <2>1. kind'[Len(t) + 1] = "run" /\ (kk = "note" => kind'[Len(t) + 2] = "ctrl")
    BY DEF Ready
  <2>2. IsTree(t) /\ p \in DOMAIN t /\ New \in DOMAIN t /\ Fits(t, kind')
    BY DEF Ready
  <2> QED BY <2>1, <2>2, WrappedFits
<1>3. Hung(kids') /\ InTree(kids') \subseteq InTree(t) \cup {New} \cup (DOMAIN kids' \ DOMAIN t)
  BY WrappedHung DEF Ready
<1>4. Len(Wrapping(kk)) \in Nat
  BY DEF Wrapping
<1>5. Len(kids') = Len(kids) + (k + Len(Wrapping(kk))) /\ DOMAIN kids' = 1..Len(kids')
  <2>1. DOMAIN kids' = 1..Len(kids')
    BY <1>1, TreeIs
  <2> QED BY <1>1, <1>4, <2>1 DEF Ready
<1>6. Formed(kids', kind')
  BY <1>1, <1>2, <1>3, <1>5 DEF Formed, Ready, Carried, Nodes, IsTree
<1>7. Described'
  BY <1>5 DEF Described, Carried, Ready, Nodes
<1>8. InTree(kids') \subseteq InTree(kids) \cup (DOMAIN kids' \ DOMAIN kids)
  BY <1>1, <1>3 DEF Ready, Nodes
<1>9. ASSUME NEW m \in (Nodes \cap InTree(kids')) \ {p} PROVE kids'[m] = kids[m]
  BY <1>1 DEF Ready
<1> QED BY <1>1, <1>6, <1>7, <1>8, <1>9 DEF Effect, Ready, Carried

-----------------------------------------------------------------------------
(* What the library makes: each node holds the next.                           *)

Chain(c, k) ==
    /\ k \in Nat \ {0} /\ c \in Seq(Seq(Nat)) /\ Len(c) = k
    /\ \A i \in 1..k - 1 : c[i] = <<Len(kids) + i + 1>>
    /\ c[k] = <<>>

LEMMA OneIs ==
    ASSUME NEW x \in Nat
    PROVE  <<x>> \in Seq(Nat) /\ IsInjective(<<x>>) /\ ToSet(<<x>>) = {x} /\ <<x>> # <<>>
BY DEF IsInjective, ToSet

LEMMA NoneIs ==
    <<>> \in Seq(Nat) /\ IsInjective(<<>>) /\ ToSet(<<>>) = {}
BY DEF IsInjective, ToSet

LEMMA ChainJoins ==
    ASSUME IsTree(kids), NEW c, NEW k, Chain(c, k),
           \A i \in 1..k - 1 : /\ kind'[Len(kids) + i] \in Holders(kind'[Len(kids) + i + 1])
                               /\ kind'[Len(kids) + i + 1] # "ctrl"
    PROVE  Joins(c, k)
<1>1. Len(kids) \in Nat /\ k \in Nat \ {0} /\ DOMAIN c = 1..k /\ c \in Seq(Seq(Nat)) /\ Len(c) = k
  BY TreeIs DEF Chain
<1>2. ASSUME NEW i \in 1..k
      PROVE  IsInjective(c[i]) /\ \A y \in ToSet(c[i]) : y = Len(kids) + i + 1 /\ i < k
  <2>1. CASE i = k
    BY <2>1, NoneIs DEF Chain
  <2>2. CASE i # k
    <3>1. i \in 1..k - 1 /\ Len(kids) + i + 1 \in Nat /\ i < k
      BY <1>1, <2>2
    <3>2. c[i] = <<Len(kids) + i + 1>>
      BY <3>1 DEF Chain
    <3> QED BY <3>1, <3>2, OneIs
  <2> QED BY <2>1, <2>2
<1>3. \A i \in DOMAIN c : /\ IsInjective(c[i])
                          /\ \A y \in ToSet(c[i]) : Len(kids) + i < y /\ y <= Len(kids) + Len(c)
  <2>1. ASSUME NEW i \in 1..k, NEW y \in ToSet(c[i]) PROVE Len(kids) + i < y /\ y <= Len(kids) + k
    <3>1. y = Len(kids) + i + 1 /\ i < k
      BY <1>2
    <3> QED BY <1>1, <3>1
  <2> QED BY <1>1, <1>2, <2>1
<1>4. \A i, j \in DOMAIN c : i # j => ToSet(c[i]) \cap ToSet(c[j]) = {}
  <2>1. ASSUME NEW i \in 1..k, NEW j \in 1..k, i # j, NEW y, y \in ToSet(c[i]), y \in ToSet(c[j]) PROVE FALSE
    <3>1. y = Len(kids) + i + 1 /\ y = Len(kids) + j + 1
      BY <1>2, <2>1
    <3> QED BY <1>1, <2>1, <3>1
  <2> QED BY <1>1, <2>1
<1>5. Joined(kids, c)
  BY <1>1, <1>3, <1>4, GrownUp
<1>6. ASSUME NEW i \in 1..k, NEW y \in ToSet(c[i])
      PROVE  \E e \in 2..k : /\ y = Len(kids) + e
                             /\ kind'[Len(kids) + i] \in Holders(kind'[y])
                             /\ kind'[y] = "ctrl" => c[e] # <<>>
  <2>1. y = Len(kids) + i + 1 /\ i < k
    BY <1>2
  <2>2. i \in 1..k - 1 /\ i + 1 \in 2..k /\ y = Len(kids) + (i + 1)
    BY <1>1, <2>1
  <2> QED BY <2>1, <2>2
<1>7. ASSUME NEW i \in 2..k PROVE \E j \in 1..k : Len(kids) + i \in ToSet(c[j])
  <2>1. i - 1 \in 1..k - 1 /\ i - 1 \in 1..k /\ Len(kids) + (i - 1) + 1 = Len(kids) + i /\ Len(kids) + i \in Nat
    BY <1>1
  <2>2. c[i - 1] = <<Len(kids) + (i - 1) + 1>>
    BY <2>1 DEF Chain
  <2>3. Len(kids) + i \in ToSet(c[i - 1])
    BY <2>1, <2>2, OneIs
  <2> QED BY <2>1, <2>3
<1> QED BY <1>1, <1>5, <1>6, <1>7 DEF Joins

\* A node of some kind, other than an inline object, put among the siblings of its kind.
LEMMA InsertMadeIs ==
    ASSUME Formed(kids, kind), NEW c, NEW k, NEW p, NEW t, Ready(t, c, k, p),
           NEW kk \in Kinds \ Inline, NEW pos \in Positions(Siblings(kids, p, kk))
    PROVE  /\ Extended(t, p, New, InsertMade(t, p, kk, pos))
           /\ Extended(t, p, New, InsertDirect(t, p, Siblings(kids, p, kk), Insertion(Siblings(kids, p, kk), pos), New))
<1>1. IsTree(kids) /\ p \in DOMAIN kids /\ t[p] = kids[p] /\ DOMAIN kids \subseteq DOMAIN t /\ IsTree(t)
      /\ Loose(t, New, p) /\ p \in DOMAIN t
  BY DEF Formed, Ready, Nodes
<1>2. PICK s : s = Siblings(kids, p, kk)
  OBVIOUS
<1>3. s \in Seq(DOMAIN kids) /\ ToSet(s) \subseteq ToSet(t[p])
  BY <1>1, <1>2, SiblingsAre
<1>4. s \in Seq(DOMAIN t)
  BY <1>1, <1>3
<1>5. Insertion(s, pos) \in Nat
  BY <1>1, <1>2, <1>3, PositionsAre, NodesAre
<1>6. Extended(t, p, New, InsertDirect(t, p, s, Insertion(s, pos), New))
  BY <1>1, <1>3, <1>4, <1>5, InsertDirectIs
<1>7. Extended(t, p, New, [t EXCEPT ![p] = Append(t[p], New)])
  <2>1. PICK u : u = Append(t[p], New)
    OBVIOUS
  <2>2. t[p] \in Seq(DOMAIN t) /\ IsInjective(t[p]) /\ New \in DOMAIN t /\ New \notin ToSet(t[p])
    BY <1>1, TreeIs DEF Loose
  <2>3. u \in Seq(DOMAIN t) /\ IsInjective(u) /\ ToSet(u) = ToSet(t[p]) \cup {New}
    BY <2>1, <2>2, AppendHolds
  <2>4. Hanging(t, p, u, [t EXCEPT ![p] = u])
    BY <1>1, <2>3, HungTree
  <2>5. Extended(t, p, New, [t EXCEPT ![p] = u])
    BY <2>3, <2>4 DEF Hanging, Extended
  <2> QED BY <2>1, <2>5
<1>8. Extended(t, p, New, InsertMade(t, p, kk, pos))
  <2>1. CASE pos.mode = "append"
    BY <1>7, <2>1 DEF InsertMade
  <2>2. CASE pos.mode # "append"
    BY <1>2, <1>6, <2>2 DEF InsertMade
  <2> QED BY <2>1, <2>2
<1> QED BY <1>2, <1>6, <1>8

-----------------------------------------------------------------------------
(* The commands that add.                                                      *)

LEMMA MakesCarries ==
    ASSUME Formed(kids, kind), Described, NEW new \in Seq(Kinds), Makes(new),
           addr' \in Seq(Nat), Len(addr') = Len(kids) + Len(new), cached' \subseteq cached
    PROVE  Carried(Len(new))
<1>1. Len(kids) \in Nat /\ Nodes = 1..Len(kids) /\ Len(new) \in Nat
  BY TreeIs, LenProperties DEF Formed, Nodes
<1>2. cached' \subseteq 1..Len(kids) + Len(new)
  BY <1>1 DEF Described
<1> QED BY <1>2, MakesIs DEF Carried

LEMMA AddParagraphEffect ==
    ASSUME Formed(kids, kind), Described, NEW p \in InTree(kids),
           NEW pos \in Positions(Siblings(kids, p, "paragraph")), AddParagraph(p, pos)
    PROVE  Effect({p})
<1>1. PICK new : new = <<"paragraph", "run", "text">>
  OBVIOUS
<1>2. new \in Seq(Kinds) /\ Len(new) = 3 /\ new[1] = "paragraph" /\ new[2] = "run" /\ new[3] = "text"
  BY <1>1 DEF Kinds, Addressable, Direct, Inline
<1>3. PICK c : c = <<<<New + 1>>, <<New + 2>>, <<>>>>
  OBVIOUS
<1>4. IsTree(kids) /\ Len(kids) \in Nat /\ Nodes = 1..Len(kids) /\ addr \in Seq(Nat) /\ Len(addr) = Len(kids)
  BY TreeIs DEF Formed, Nodes, Described
<1>5. Makes(new) /\ kind[p] = "section" /\ cached' = cached
      /\ kids' = InsertMade(kids \o c, p, "paragraph", pos)
      /\ addr' = addr \o <<0, 0, 0>>
  BY <1>1, <1>3 DEF AddParagraph
<1>6. addr' \in Seq(Nat) /\ Len(addr') = Len(kids) + Len(new)
  BY <1>2, <1>4, <1>5
<1>7. Carried(3)
  BY <1>2, <1>5, <1>6, MakesCarries
<1>8. \A i \in 1..3 : kind'[Len(kids) + i] = new[i]
  BY <1>2, <1>5, MakesIs
<1>9. /\ kind'[Len(kids) + 1] = "paragraph" /\ kind'[Len(kids) + 2] = "run" /\ kind'[Len(kids) + 3] = "text"
  BY <1>2, <1>8
<1>10. Chain(c, 3)
  BY <1>3, <1>4 DEF Chain, New
<1>11. \A i \in 1..3 - 1 : /\ kind'[Len(kids) + i] \in Holders(kind'[Len(kids) + i + 1])
                           /\ kind'[Len(kids) + i + 1] # "ctrl"
  <2>1. "paragraph" \in Holders("run") /\ "run" \in Holders("text")
    BY DEF Holders
  <2>2. /\ kind'[Len(kids) + 1] \in Holders(kind'[Len(kids) + 1 + 1]) /\ kind'[Len(kids) + 1 + 1] # "ctrl"
        /\ kind'[Len(kids) + 2] \in Holders(kind'[Len(kids) + 2 + 1]) /\ kind'[Len(kids) + 2 + 1] # "ctrl"
    BY <1>4, <1>9, <2>1
  <2>3. 1..3 - 1 = {1, 2}
    OBVIOUS
  <2> QED BY <2>2, <2>3
<1>12. Ready(kids \o c, c, 3, p)
  BY <1>4, <1>7, <1>10, <1>11, ChainJoins, ReadyIs DEF Carried
<1>13. Extended(kids \o c, p, New, kids')
  BY <1>5, <1>12, InsertMadeIs DEF Kinds, Addressable, Direct, Inline
<1>14. kind'[p] \in Holders(kind'[New]) /\ kind'[New] # "ctrl"
  <2>1. p \in Nodes /\ kind'[p] = "section" /\ kind'[New] = "paragraph"
    BY <1>5, <1>7, <1>9, <1>12 DEF Carried, Ready, New
  <2>2. "section" \in Holders("paragraph")
    BY DEF Holders
  <2> QED BY <2>1, <2>2
<1> QED BY <1>7, <1>12, <1>13, <1>14, GraftedEffect

LEMMA AddRunEffect ==
    ASSUME Formed(kids, kind), Described, NEW p \in InTree(kids),
           NEW pos \in Positions(Siblings(kids, p, "run")), AddRun(p, pos)
    PROVE  Effect({p})
<1>1. PICK new : new = <<"run", "text">>
  OBVIOUS
<1>2. new \in Seq(Kinds) /\ Len(new) = 2 /\ new[1] = "run" /\ new[2] = "text"
  BY <1>1 DEF Kinds, Addressable, Direct, Inline
<1>3. PICK c : c = <<<<New + 1>>, <<>>>>
  OBVIOUS
<1>4. IsTree(kids) /\ Len(kids) \in Nat /\ Nodes = 1..Len(kids) /\ addr \in Seq(Nat) /\ Len(addr) = Len(kids)
  BY TreeIs DEF Formed, Nodes, Described
<1>5. Makes(new) /\ kind[p] = "paragraph" /\ cached' \subseteq cached
      /\ kids' = InsertMade(kids \o c, p, "run", pos)
      /\ addr' = addr \o <<0, 0>>
  BY <1>1, <1>3 DEF AddRun
<1>6. addr' \in Seq(Nat) /\ Len(addr') = Len(kids) + Len(new)
  BY <1>2, <1>4, <1>5
<1>7. Carried(2)
  BY <1>2, <1>5, <1>6, MakesCarries
<1>8. \A i \in 1..2 : kind'[Len(kids) + i] = new[i]
  BY <1>2, <1>5, MakesIs
<1>9. kind'[Len(kids) + 1] = "run" /\ kind'[Len(kids) + 2] = "text"
  BY <1>2, <1>8
<1>10. Chain(c, 2)
  BY <1>3, <1>4 DEF Chain, New
<1>11. \A i \in 1..2 - 1 : /\ kind'[Len(kids) + i] \in Holders(kind'[Len(kids) + i + 1])
                           /\ kind'[Len(kids) + i + 1] # "ctrl"
  <2>1. "run" \in Holders("text")
    BY DEF Holders
  <2>2. kind'[Len(kids) + 1] \in Holders(kind'[Len(kids) + 1 + 1]) /\ kind'[Len(kids) + 1 + 1] # "ctrl"
    BY <1>4, <1>9, <2>1
  <2>3. 1..2 - 1 = {1}
    OBVIOUS
  <2> QED BY <2>2, <2>3
<1>12. Ready(kids \o c, c, 2, p)
  BY <1>4, <1>7, <1>10, <1>11, ChainJoins, ReadyIs DEF Carried
<1>13. Extended(kids \o c, p, New, kids')
  BY <1>5, <1>12, InsertMadeIs DEF Kinds, Addressable, Direct, Inline
<1>14. kind'[p] \in Holders(kind'[New]) /\ kind'[New] # "ctrl"
  <2>1. p \in Nodes /\ kind'[p] = "paragraph" /\ kind'[New] = "run"
    BY <1>5, <1>7, <1>9, <1>12 DEF Carried, Ready, New
  <2>2. "paragraph" \in Holders("run")
    BY DEF Holders
  <2> QED BY <2>1, <2>2
<1> QED BY <1>7, <1>12, <1>13, <1>14, GraftedEffect

\* The rows of some tables are numbered by their places, and nothing else is.
Renumbered(t, a, tables, r) ==
    /\ r \in Seq(Nat) /\ Len(r) = Len(t)
    /\ \A b \in tables : \A x \in ToSet(t[b]) : r[x] = IndexOf(t[b], x)
    /\ \A x \in DOMAIN t : x \in UNION {ToSet(t[b]) : b \in tables} \/ r[x] = a[x]

LEMMA RenumberIs ==
    ASSUME NEW t, IsTree(t), NEW a \in Seq(Nat), Len(a) = Len(t), NEW tables \in SUBSET DOMAIN t
    PROVE  Renumbered(t, a, tables, Renumber(t, a, tables))
<1>1. PICK r : r = Renumber(t, a, tables)
  OBVIOUS
<1>2. Len(t) \in Nat /\ DOMAIN t = 1..Len(t) /\ DOMAIN a = DOMAIN t /\ \A m \in DOMAIN t : t[m] \in Seq(DOMAIN t)
  BY TreeIs
<1>3. /\ DOMAIN r = DOMAIN t
      /\ \A x \in DOMAIN t : r[x] = IF \E b \in tables : Contains(t[b], x)
                                    THEN IndexOf(t[CHOOSE b \in tables : Contains(t[b], x)], x)
                                    ELSE a[x]
  BY <1>1 DEF Renumber
<1>4. ASSUME NEW b \in tables, NEW x \in ToSet(t[b])
      PROVE  x \in DOMAIN t /\ r[x] = IndexOf(t[b], x) /\ r[x] \in Nat
  <2>1. x \in DOMAIN t /\ Contains(t[b], x)
    BY <1>2, TreeIs, ContainsIs
  <2>2. PICK e \in tables : e = CHOOSE d \in tables : Contains(t[d], x)
    BY <2>1
  <2>3. Contains(t[e], x)
    BY <2>1, <2>2
  <2>4. x \in ToSet(t[e])
    BY <1>2, <2>3, ContainsIs
  <2>5. e = b
    BY <2>4, TreeIs
  <2>6. r[x] = IndexOf(t[b], x)
    BY <1>3, <2>1, <2>2, <2>5
  <2>7. IndexOf(t[b], x) \in Nat
    BY <1>2, IndexOfIs
  <2> QED BY <2>1, <2>6, <2>7
<1>5. ASSUME NEW x \in DOMAIN t, x \notin UNION {ToSet(t[b]) : b \in tables} PROVE r[x] = a[x]
  <2>1. ~\E b \in tables : Contains(t[b], x)
    BY <1>2, <1>5, ContainsIs
  <2> QED BY <1>3, <2>1
<1>6. ASSUME NEW x \in DOMAIN t PROVE r[x] \in Nat
  <2>1. CASE x \in UNION {ToSet(t[b]) : b \in tables}
    BY <1>4, <2>1
  <2>2. CASE x \notin UNION {ToSet(t[b]) : b \in tables}
    BY <1>2, <1>5, <2>2
  <2> QED BY <2>1, <2>2
<1>7. r \in [1..Len(t) -> Nat]
  BY <1>1, <1>2, <1>6 DEF Renumber
<1>8. r \in Seq(Nat) /\ Len(r) = Len(t)
  BY <1>2, <1>7
<1> QED BY <1>1, <1>4, <1>5, <1>8 DEF Renumbered

\* Nodes that join the tree leave the runs of the siblings where they are.
LEMMA RunStays ==
    ASSUME Formed(kids, kind), NEW c, NEW k, NEW p, NEW t, Ready(t, c, k, p), kind[p] = "paragraph",
           NEW kk \in Inline, NEW x \in ToSet(Siblings(kids, p, kk))
    PROVE  RunOf(t, x) \in ToSet(t[p])
<1>1. /\ IsTree(kids) /\ Fits(kids, kind) /\ p \in DOMAIN kids
      /\ IsTree(t) /\ p \in DOMAIN t /\ \A m \in DOMAIN kids : t[m] = kids[m]
  BY DEF Formed, Ready, Nodes
<1>2. Borne(kids, p, x)
  BY <1>1, BorneAre
<1>3. \A m \in DOMAIN kids : ToSet(kids[m]) \subseteq DOMAIN kids
  BY <1>1, TreeIs
<1>4. Borne(t, p, x)
  BY <1>1, <1>2, <1>3 DEF Borne
<1> QED BY <1>1, <1>4, RunOfIs

LEMMA AddTableEffect ==
    ASSUME Formed(kids, kind), Described, NEW p \in InTree(kids),
           NEW pos \in Positions(Siblings(kids, p, "table")), AddTable(p, pos)
    PROVE  /\ Effect({p}) /\ kids'[New] = <<New + 1>> /\ DOMAIN kids' = 1..Len(kids) + 3
           /\ kind'[New] = "table" /\ kind'[New + 1] = "row" /\ kind'[New + 2] = "run"
           /\ shape'[New + 1] = "full" /\ addr' = addr \o <<0, 1, 0>>
<1>1. PICK new : new = <<"table", "row", "run">>
  OBVIOUS
<1>2. new \in Seq(Kinds) /\ Len(new) = 3 /\ new[1] = "table" /\ new[2] = "row" /\ new[3] = "run"
  BY <1>1 DEF Kinds, Addressable, Direct, Inline
<1>3. PICK c : c = <<<<New + 1>>, <<>>>>
  OBVIOUS
<1>4. IsTree(kids) /\ Len(kids) \in Nat /\ Nodes = 1..Len(kids) /\ addr \in Seq(Nat) /\ Len(addr) = Len(kids)
      /\ p \in DOMAIN kids
  BY TreeIs, InTreeIs DEF Formed, Nodes, Described
<1>5. PICK s : s = Siblings(kids, p, "table")
  OBVIOUS
<1>6. Makes(new) /\ kind[p] = "paragraph" /\ cached' \subseteq cached
      /\ kids' = InsertInline(kids \o c, p, s, Insertion(s, pos), New, "table")
      /\ addr' = addr \o <<0, 1, 0>>
  BY <1>1, <1>3, <1>5 DEF AddTable
<1>7. addr' \in Seq(Nat) /\ Len(addr') = Len(kids) + Len(new)
  BY <1>2, <1>4, <1>6
<1>8. Carried(3)
  BY <1>2, <1>6, <1>7, MakesCarries
<1>9. \A i \in 1..3 : kind'[Len(kids) + i] = new[i]
  BY <1>2, <1>6, MakesIs
<1>10. kind'[Len(kids) + 1] = "table" /\ kind'[Len(kids) + 2] = "row" /\ kind'[Len(kids) + 3] = "run"
  BY <1>2, <1>9
<1>11. Chain(c, 2)
  BY <1>3, <1>4 DEF Chain, New
<1>12. \A i \in 1..2 - 1 : /\ kind'[Len(kids) + i] \in Holders(kind'[Len(kids) + i + 1])
                           /\ kind'[Len(kids) + i + 1] # "ctrl"
  <2>1. "table" \in Holders("row")
    BY DEF Holders
  <2>2. kind'[Len(kids) + 1] \in Holders(kind'[Len(kids) + 1 + 1]) /\ kind'[Len(kids) + 1 + 1] # "ctrl"
    BY <1>4, <1>10, <2>1
  <2>3. 1..2 - 1 = {1}
    OBVIOUS
  <2> QED BY <2>2, <2>3
<1>13. PICK t : t = kids \o c
  OBVIOUS
<1>14. Ready(t, c, 2, p)
  BY <1>4, <1>8, <1>11, <1>12, <1>13, ChainJoins, ReadyIs DEF Carried
<1>15. Wrapped(t, p, New, "table", kids')
  <2>1. IsTree(t) /\ p \in DOMAIN t /\ Loose(t, New, p) /\ t[p] = kids[p]
    BY <1>14 DEF Ready
  <2>2. s \in Seq(DOMAIN kids) /\ Insertion(s, pos) \in Nat
    BY <1>4, <1>5, SiblingsAre, PositionsAre, NodesAre
  <2>3. s \in Seq(DOMAIN t)
    BY <1>14, <2>2 DEF Ready, Nodes
  <2>4. ASSUME NEW z \in ToSet(s) PROVE RunOf(t, z) \in ToSet(t[p])
    BY <1>5, <1>6, <1>14, RunStays DEF Inline
  <2> QED BY <1>6, <1>13, <2>1, <2>2, <2>3, <2>4, InsertInlineIs
<1>16. kind'[p] = "paragraph" /\ kind'[New] = "table" /\ kind'[Len(kids) + 2 + 1] = "run"
  <2>1. p \in Nodes /\ kind'[p] = "paragraph" /\ kind'[New] = "table"
    BY <1>6, <1>8, <1>10, <1>14 DEF Carried, Ready, New
  <2>2. Len(kids) + 2 + 1 = Len(kids) + 3
    BY <1>4
  <2> QED BY <1>10, <2>1, <2>2
<1>17. Carried(2 + Len(Wrapping("table")))
  BY <1>8 DEF Wrapping
<1>18. Effect({p})
  BY <1>14, <1>15, <1>16, <1>17, WrappedEffect DEF Inline
<1>19. kids'[New] = <<New + 1>>
  <2>1. New \in DOMAIN t /\ New # p /\ t[New] = c[1]
    BY <1>14 DEF Ready
  <2>2. kids'[New] = t[New]
    BY <1>15, <2>1 DEF Wrapped
  <2> QED BY <1>3, <2>1, <2>2
<1>20. kind'[New] = "table" /\ kind'[New + 1] = "row" /\ kind'[New + 2] = "run"
  <2>1. New + 1 = Len(kids) + 2 /\ New + 2 = Len(kids) + 3
    BY <1>4 DEF New
  <2> QED BY <1>10, <2>1 DEF New
<1>21. shape'[New + 1] = "full"
  <2>1. New + 1 = Len(kids) + 2 /\ 2 \in 1..Len(new)
    BY <1>2, <1>4 DEF New
  <2>2. \A i \in 1..Len(new) : shape'[Len(kids) + i] = "full"
    BY <1>2, <1>6, MakesIs
  <2> QED BY <2>1, <2>2
<1>22. DOMAIN kids' = 1..Len(kids) + 3
  <2>1. Len(kids') = Len(kids) + 3
    BY <1>8, <1>18 DEF Effect, Described, Carried
  <2>2. DOMAIN kids' = 1..Len(kids')
    BY <1>18, TreeIs DEF Effect, Formed
  <2> QED BY <2>1, <2>2
<1> QED BY <1>6, <1>18, <1>19, <1>20, <1>21, <1>22

LEMMA AddRowEffect ==
    ASSUME Formed(kids, kind), Described, NEW p \in InTree(kids),
           NEW pos \in Positions(Siblings(kids, p, "row")), AddRow(p, pos)
    PROVE  /\ Effect({p}) /\ Renumbered(kids', Append(addr, 0), {p}, addr')
           /\ ToSet(kids'[p]) = ToSet(kids[p]) \cup {New} /\ shape'[New] = "full"
<1>1. PICK new : new = <<"row">>
  OBVIOUS
<1>2. new \in Seq(Kinds) /\ Len(new) = 1 /\ new[1] = "row"
  BY <1>1 DEF Kinds, Addressable, Direct, Inline
<1>3. PICK c : c = <<<<>>>>
  OBVIOUS
<1>4. IsTree(kids) /\ Len(kids) \in Nat /\ Nodes = 1..Len(kids) /\ addr \in Seq(Nat) /\ Len(addr) = Len(kids)
  BY TreeIs DEF Formed, Nodes, Described
<1>5. /\ Makes(new) /\ kind[p] = "table" /\ cached' = cached
      /\ kids' = InsertDirect(Append(kids, <<>>), p, Siblings(kids, p, "row"), Insertion(Siblings(kids, p, "row"), pos), New)
      /\ addr' = Renumber(kids', Append(addr, 0), {p})
  BY <1>1 DEF AddRow
<1>6. Append(kids, <<>>) = kids \o c
  <2>1. kids \in Seq(Seq(Nodes)) /\ <<>> \in Seq(Nodes)
    BY <1>4 DEF IsTree, Nodes
  <2>2. Append(kids, <<>>) = kids \o <<<<>>>>
    BY <2>1, AppendIsConcat
  <2> QED BY <1>3, <2>2
<1>7. \A m \in Nodes : kind'[m] = kind[m]
  BY <1>2, <1>5, MakesIs
<1>8. kind'[Len(kids) + 1] = "row"
  BY <1>2, <1>5, MakesIs
<1>9. Chain(c, 1)
  BY <1>3, <1>4 DEF Chain, New
<1>10. PICK t : t = kids \o c
  OBVIOUS
<1>11. Ready(t, c, 1, p)
  <2>1. 1..1 - 1 = {}
    OBVIOUS
  <2>2. Joins(c, 1)
    BY <1>4, <1>9, <2>1, ChainJoins
  <2> QED BY <1>7, <1>10, <2>2, ReadyIs
<1>12. Extended(t, p, New, kids')
  BY <1>5, <1>6, <1>10, <1>11, InsertMadeIs DEF Kinds, Addressable, Direct, Inline
<1>13. IsTree(kids') /\ Len(kids') = Len(kids) + 1 /\ {p} \in SUBSET DOMAIN kids'
  BY <1>11, <1>12 DEF Extended, Ready
<1>14. Append(addr, 0) \in Seq(Nat) /\ Len(Append(addr, 0)) = Len(kids')
  BY <1>4, <1>13
<1>15. Renumbered(kids', Append(addr, 0), {p}, addr')
  BY <1>5, <1>13, <1>14, RenumberIs
<1>16. Carried(1)
  <2>1. addr' \in Seq(Nat) /\ Len(addr') = Len(kids) + 1
    BY <1>13, <1>15 DEF Renumbered
  <2> QED BY <1>2, <1>5, <2>1, MakesCarries
<1>17. kind'[p] \in Holders(kind'[New]) /\ kind'[New] # "ctrl"
  <2>1. p \in Nodes /\ kind'[p] = "table" /\ kind'[New] = "row"
    BY <1>5, <1>7, <1>8, <1>11 DEF Ready, New
  <2>2. "table" \in Holders("row")
    BY DEF Holders
  <2> QED BY <2>1, <2>2
<1>18. Effect({p})
  BY <1>11, <1>12, <1>16, <1>17, GraftedEffect
<1>19. ToSet(kids'[p]) = ToSet(kids[p]) \cup {New}
  BY <1>11, <1>12 DEF Extended, Ready
<1>20. shape'[Len(kids) + 1] = "full"
  <2>1. 1 \in 1..Len(new)
    BY <1>2
  <2> QED BY <1>2, <1>5, <2>1, MakesIs
<1> QED BY <1>15, <1>18, <1>19, <1>20 DEF New

-----------------------------------------------------------------------------
(* The commands that remove.                                                   *)

\* n is out of the tree r, the children of a few nodes are fewer.
Removed(n, touched, r) ==
    /\ n \in Nodes /\ n # Section
    /\ IsTree(r) /\ DOMAIN r = Nodes /\ Len(r) = Len(kids)
    /\ \A m \in Nodes : ToSet(r[m]) \subseteq ToSet(kids[m]) \ {n}
    /\ \A m \in Nodes \ touched : r[m] = kids[m]
    /\ Fits(r, kind)
    /\ HungBut(r, n)

LEMMA DropRemoves ==
    ASSUME Formed(kids, kind), NEW p \in Nodes, NEW n \in ToSet(kids[p]), kind[p] # "ctrl"
    PROVE  Removed(n, {p}, Drop(kids, n))
<1>1. IsTree(kids) /\ Fits(kids, kind) /\ Hung(kids)
  BY DEF Formed
<1>2. PICK r : r = Drop(kids, n)
  OBVIOUS
<1>3. /\ IsTree(r) /\ DOMAIN r = Nodes /\ Len(r) = Len(kids)
      /\ \A m \in Nodes : ToSet(r[m]) = ToSet(kids[m]) \ {n}
      /\ \A m \in Nodes : m # p => r[m] = kids[m]
  BY <1>1, <1>2, DropIs DEF Nodes
<1>4. n \in Nodes /\ n # Section /\ \A m \in Nodes : ToSet(kids[m]) \subseteq Nodes /\ Section \notin ToSet(kids[m])
  BY <1>1, TreeIs DEF Nodes
<1>5. Fits(r, kind)
  <2>1. ASSUME NEW m \in Nodes, NEW x \in ToSet(r[m])
        PROVE  kind[m] \in Holders(kind[x]) /\ (kind[x] = "ctrl" => r[x] # <<>>)
    <3>1. x \in ToSet(kids[m]) /\ x \in Nodes
      BY <1>3, <1>4
    <3>2. kind[x] = "ctrl" => r[x] = kids[x]
      BY <1>3, <3>1
    <3> QED BY <1>1, <3>1, <3>2 DEF Fits, Nodes
  <2> QED BY <1>3, <2>1 DEF Fits
<1>6. HungBut(r, n)
  <2>1. ASSUME NEW m \in Nodes, m # n, r[m] # <<>> PROVE m \in InTree(r)
    <3>1. kids[m] # <<>>
      <4>1. r[m] \in Seq(Nodes) /\ kids[m] \in Seq(Nodes)
        BY <1>1, <1>3, TreeIs DEF Nodes
      <4> QED BY <1>3, <2>1, <4>1, EmptyIs
    <3>2. m \in InTree(kids)
      BY <1>1, <3>1 DEF Hung, Nodes
    <3>3. m = Section \/ \E o \in Nodes : m \in ToSet(kids[o])
      BY <1>1, <3>2, InTreeIs DEF Nodes
    <3> QED BY <1>3, <2>1, <3>3, InTreeIs
  <2> QED BY <1>3, <2>1 DEF HungBut
<1>7. \A m \in Nodes : ToSet(r[m]) \subseteq ToSet(kids[m]) \ {n}
  BY <1>3
<1>8. \A m \in Nodes \ {p} : r[m] = kids[m]
  BY <1>3
<1>9. Removed(n, {p}, r)
  BY <1>3, <1>4, <1>5, <1>6, <1>7, <1>8 DEF Removed
<1> QED BY <1>2, <1>9

LEMMA DetachRemoves ==
    ASSUME Formed(kids, kind), NEW n, NEW a, NEW run, NEW q, Placed(kids, n, a, run, q)
    PROVE  Removed(n, {a, run, q}, DetachInline(kids, n))
<1>1. IsTree(kids) /\ Fits(kids, kind) /\ Hung(kids) /\ kind[Section] = "section"
  BY DEF Formed
<1>2. Detached(kids, n, a, run, q, DetachInline(kids, n))
  BY <1>1, DetachInlineIs
<1>3. n \in Nodes /\ n # Section
  BY <1>1, TreeIs DEF Placed, Nodes
<1> QED BY <1>2, <1>3 DEF Detached, Removed, Nodes, HungBut

\* What it leaves when the removed subtree is taken apart.
LEMMA ClearedEffect ==
    ASSUME Formed(kids, kind), Described, NEW n, NEW touched, NEW r, Removed(n, touched, r),
           kids' = Cleared(r, n), UNCHANGED <<kind, id, shape>>,
           addr' \in Seq(Nat), Len(addr') = Len(kids), cached' \subseteq cached
    PROVE  /\ Effect(touched) /\ DOMAIN kids' = Nodes
           /\ \A m \in Nodes : ToSet(kids'[m]) \subseteq ToSet(kids[m])
<1>1. /\ n \in Nodes /\ n # Section
      /\ IsTree(r) /\ DOMAIN r = Nodes /\ Len(r) = Len(kids)
      /\ \A m \in Nodes : ToSet(r[m]) \subseteq ToSet(kids[m]) \ {n}
      /\ \A m \in Nodes \ touched : r[m] = kids[m]
      /\ Fits(r, kind) /\ HungBut(r, n)
  BY DEF Removed
<1>2. Clearing(r, n, kids')
  BY <1>1, ClearedIs
<1>3. PICK gone \in SUBSET Nodes :
         /\ n \in gone /\ Section \notin gone
         /\ \A m \in gone : kids'[m] = <<>> /\ ToSet(r[m]) \subseteq gone
         /\ \A m \in Nodes \ gone : kids'[m] = r[m] /\ ToSet(r[m]) \cap gone = {}
  BY <1>1, <1>2 DEF Clearing
<1>4. IsTree(kids') /\ DOMAIN kids' = Nodes /\ Len(kids') = Len(kids) /\ IsTree(kids)
  BY <1>1, <1>2 DEF Clearing, Formed
<1>5. ASSUME NEW m \in Nodes, NEW x \in ToSet(kids'[m])
      PROVE  m \notin gone /\ x \notin gone /\ x \in ToSet(r[m]) /\ x \in ToSet(kids[m]) /\ x \in Nodes
  <2>1. m \notin gone
    BY <1>3, NoneIs
  <2>2. x \in ToSet(r[m]) /\ x \notin gone
    BY <1>3, <2>1
  <2>3. x \in ToSet(kids[m])
    BY <1>1, <2>2
  <2>4. x \in Nodes
    BY <1>1, <2>2, TreeIs
  <2> QED BY <2>1, <2>2, <2>3, <2>4
<1>6. \A m \in InTree(kids') : m \in Nodes /\ m \notin gone
  BY <1>3, <1>4, <1>5, InTreeIs
<1>7. Fits(kids', kind')
  <2>1. ASSUME NEW m \in Nodes, NEW x \in ToSet(kids'[m])
        PROVE  kind[m] \in Holders(kind[x]) /\ (kind[x] = "ctrl" => kids'[x] # <<>>)
    BY <1>1, <1>3, <1>5 DEF Fits
  <2> QED BY <1>4, <2>1 DEF Fits
<1>8. Hung(kids')
  <2>1. ASSUME NEW m \in Nodes, kids'[m] # <<>> PROVE m \in InTree(kids')
    <3>1. m \notin gone /\ r[m] # <<>>
      BY <1>3, <2>1
    <3>2. m \in InTree(r)
      BY <1>1, <1>3, <3>1 DEF HungBut
    <3>3. m = Section \/ \E o \in Nodes : m \in ToSet(r[o])
      BY <1>1, <3>2, InTreeIs
    <3>4. ASSUME NEW o \in Nodes, m \in ToSet(r[o]) PROVE m \in ToSet(kids'[o])
      BY <1>3, <3>1, <3>4
    <3> QED BY <1>4, <3>3, <3>4, InTreeIs
  <2> QED BY <1>4, <2>1 DEF Hung
<1>9. Formed(kids', kind')
  BY <1>4, <1>7, <1>8 DEF Formed
<1>10. Described'
  BY <1>4 DEF Described, Nodes
<1>11. InTree(kids') \subseteq InTree(kids)
  <2>1. ASSUME NEW m \in InTree(kids') PROVE m \in InTree(kids)
    BY <1>4, <1>5, InTreeIs DEF Nodes
  <2> QED BY <2>1
<1>12. ASSUME NEW m \in (Nodes \cap InTree(kids')) \ touched PROVE kids'[m] = kids[m]
  BY <1>1, <1>3, <1>6
<1>13. Effect(touched)
  BY <1>4, <1>9, <1>10, <1>11, <1>12 DEF Effect, Nodes
<1> QED BY <1>4, <1>5, <1>13

LEMMA HeldBy ==
    ASSUME Formed(kids, kind), NEW n \in InTree(kids), kind[n] # "section"
    PROVE  /\ n \in Nodes /\ n # Section /\ Up(kids, n) \in Nodes /\ n \in ToSet(kids[Up(kids, n)])
           /\ kind[Up(kids, n)] \in Holders(kind[n])
           /\ \A m \in Nodes : n \in ToSet(kids[m]) => m = Up(kids, n)
<1>1. IsTree(kids) /\ Fits(kids, kind) /\ n # Section
  BY DEF Formed
<1>2. PICK p \in DOMAIN kids : n \in ToSet(kids[p])
  BY <1>1, InTreeIs
<1>3. Up(kids, n) = p /\ n \in DOMAIN kids
  BY <1>1, <1>2, UpIs, InTreeIs
<1>4. \A m \in DOMAIN kids : n \in ToSet(kids[m]) => m = p
  BY <1>1, <1>3, UpIs
<1> QED BY <1>1, <1>2, <1>3, <1>4 DEF Fits, Nodes

LEMMA RemoveParagraphEffect ==
    ASSUME Formed(kids, kind), Described, NEW n \in InTree(kids), RemoveParagraph(n), UNCHANGED <<kind, id, shape>>
    PROVE  Effect({Up(kids, n)}) /\ DOMAIN kids' = Nodes
<1>1. kind[n] = "paragraph" /\ kids' = Cleared(Drop(kids, n), n) /\ addr' = addr /\ cached' = cached
  BY DEF RemoveParagraph, Prune
<1>2. PICK p : p = Up(kids, n)
  OBVIOUS
<1>3. p \in Nodes /\ n \in ToSet(kids[p]) /\ kind[p] # "ctrl"
  BY <1>1, <1>2, HeldBy DEF Holders
<1>4. Removed(n, {p}, Drop(kids, n))
  BY <1>3, DropRemoves
<1> QED BY <1>1, <1>2, <1>4, ClearedEffect DEF Described

LEMMA RemoveRowEffect ==
    ASSUME Formed(kids, kind), Described, NEW n \in InTree(kids), RemoveRow(n), UNCHANGED <<kind, id, shape>>
    PROVE  /\ Effect({Up(kids, n)}) /\ DOMAIN kids' = Nodes
           /\ Renumbered(kids', addr, {Up(kids, n)}, addr')
           /\ Up(kids, n) \in Nodes /\ ToSet(kids'[Up(kids, n)]) \subseteq ToSet(kids[Up(kids, n)])
<1>1. PICK p : p = Up(kids, n)
  OBVIOUS
<1>2. /\ kind[n] = "row" /\ kids' = Cleared(Drop(kids, n), n)
      /\ addr' = Renumber(kids', addr, {p}) /\ cached' = cached
  BY <1>1 DEF RemoveRow, Prune
<1>3. p \in Nodes /\ n \in ToSet(kids[p]) /\ kind[p] # "ctrl"
  BY <1>1, <1>2, HeldBy DEF Holders
<1>4. Removed(n, {p}, Drop(kids, n))
  BY <1>3, DropRemoves
<1>5. Clearing(Drop(kids, n), n, kids')
  BY <1>2, <1>4, ClearedIs DEF Removed
<1>6. IsTree(kids') /\ Len(kids') = Len(kids) /\ {p} \in SUBSET DOMAIN kids'
  BY <1>3, <1>4, <1>5 DEF Clearing, Removed
<1>7. addr \in Seq(Nat) /\ Len(addr) = Len(kids')
  BY <1>6 DEF Described
<1>8. Renumbered(kids', addr, {p}, addr')
  BY <1>2, <1>6, <1>7, RenumberIs
<1>9. addr' \in Seq(Nat) /\ Len(addr') = Len(kids)
  BY <1>6, <1>8 DEF Renumbered
<1> QED BY <1>1, <1>2, <1>3, <1>4, <1>8, <1>9, ClearedEffect

LEMMA RemoveInlineEffect ==
    ASSUME Formed(kids, kind), Described, NEW n \in InTree(kids), RemoveInline(n), UNCHANGED <<kind, id, shape>>
    PROVE  /\ Effect({Up(kids, n), RunOf(kids, n), Holder(kids, n)}) /\ DOMAIN kids' = Nodes
           /\ n \in Nodes /\ Up(kids, n) \in Nodes /\ Holder(kids, n) \in Nodes
<1>1. PICK p : p = Up(kids, n)
  OBVIOUS
<1>2. /\ kind[n] \in Inline \cup {"run"} /\ addr' = addr /\ cached' \subseteq cached
      /\ addr' \in Seq(Nat) /\ Len(addr') = Len(kids)
  BY DEF RemoveInline, Described
<1>3. /\ n \in Nodes /\ p \in Nodes /\ n \in ToSet(kids[p]) /\ kind[p] \in Holders(kind[n])
  BY <1>1, <1>2, HeldBy DEF Inline
<1>4. ASSUME NEW touched, Effect(touched), touched \subseteq {Up(kids, n), RunOf(kids, n), Holder(kids, n)}
      PROVE  Effect({Up(kids, n), RunOf(kids, n), Holder(kids, n)})
  BY <1>4 DEF Effect
<1>5. CASE kind[n] \in {"run", "picture"}
  <2>1. kind[p] # "ctrl"
    BY <1>3, <1>5 DEF Holders
  <2>2. Removed(n, {p}, Drop(kids, n))
    BY <1>3, <2>1, DropRemoves
  <2>3. kids' = Cleared(Drop(kids, n), n)
    BY <1>5 DEF RemoveInline, Prune
  <2>4. Effect({p}) /\ DOMAIN kids' = Nodes
    BY <1>2, <2>2, <2>3, ClearedEffect
  <2>5. Holder(kids, n) \in Nodes
    <3>1. CASE kind[n] = "run"
      BY <1>1, <1>3, <3>1 DEF Holder, Inline
    <3>2. CASE kind[n] = "picture"
      <4>1. IsTree(kids) /\ Fits(kids, kind) /\ Hung(kids) /\ kind[Section] = "section" /\ kind[n] \in Inline
        BY <3>2 DEF Formed, Inline
      <4>2. PICK run, q : Placed(kids, n, p, run, q)
        BY <1>3, <4>1, InlineIs DEF Nodes
      <4> QED BY <4>2 DEF Placed, Nodes
    <3> QED BY <1>5, <3>1, <3>2
  <2> QED BY <1>1, <1>3, <1>4, <2>4, <2>5
<1>6. CASE kind[n] \notin {"run", "picture"}
  <2>1. IsTree(kids) /\ Fits(kids, kind) /\ Hung(kids) /\ kind[Section] = "section" /\ kind[n] \in Inline
    BY <1>2, <1>6 DEF Formed
  <2>2. PICK run, q : Placed(kids, n, p, run, q)
    BY <1>3, <2>1, InlineIs DEF Nodes
  <2>3. p = Up(kids, n) /\ run = RunOf(kids, n) /\ q = Holder(kids, n) /\ q \in Nodes
    BY <2>2 DEF Placed, Nodes
  <2>4. Removed(n, {p, run, q}, DetachInline(kids, n))
    BY <2>2, DetachRemoves
  <2>5. kids' = Cleared(DetachInline(kids, n), n)
    BY <1>6 DEF RemoveInline
  <2>6. Effect({p, run, q}) /\ DOMAIN kids' = Nodes
    BY <1>2, <2>4, <2>5, ClearedEffect
  <2> QED BY <1>3, <2>3, <2>6
<1> QED BY <1>5, <1>6

-----------------------------------------------------------------------------
(* The commands that move.                                                     *)

\* The subtree that moves is apart from where it goes.
LEMMA MovedLoose ==
    ASSUME Formed(kids, kind), NEW n, NEW touched, NEW r, Removed(n, touched, r),
           NEW p \in InTree(kids), p \notin ToSet(Below(kids, n)),
           \A m \in Nodes : p \in ToSet(kids[m]) => p \in ToSet(r[m])
    PROVE  Loose(r, n, p) /\ p \in InTree(r) /\ p # n /\ p \in Nodes
<1>1. /\ IsTree(kids) /\ IsTree(r) /\ n \in DOMAIN kids /\ n # Section /\ DOMAIN r = DOMAIN kids
      /\ \A m \in DOMAIN kids : ToSet(r[m]) \subseteq ToSet(kids[m]) \ {n}
  BY DEF Formed, Removed, Nodes
<1>2. PICK b : b = Below(kids, n)
  OBVIOUS
<1>3. /\ b \in Seq(DOMAIN kids) /\ Len(b) > 0 /\ b[1] = n
      /\ \A m \in ToSet(b) : ToSet(kids[m]) \subseteq ToSet(b)
  BY <1>1, <1>2, BelowIs
<1>4. n \in ToSet(b) /\ ToSet(b) \in SUBSET DOMAIN kids
  <2>1. DOMAIN b = 1..Len(b) /\ Len(b) \in Nat /\ \A i \in DOMAIN b : b[i] \in DOMAIN kids
    BY <1>3, LenProperties, ElementOfSeq
  <2>2. 1 \in DOMAIN b
    BY <1>3, <2>1
  <2> QED BY <1>3, <2>1, <2>2 DEF ToSet
<1>5. ASSUME NEW m \in ToSet(b) PROVE ToSet(r[m]) \subseteq ToSet(b)
  BY <1>1, <1>3, <1>4
<1>6. p \notin ToSet(b)
  BY <1>2
<1>7. p # n
  BY <1>4, <1>6
<1>8. p \in InTree(r) /\ p \in Nodes
  <2>1. p = Section \/ \E m \in DOMAIN kids : p \in ToSet(kids[m])
    BY <1>1, InTreeIs
  <2> QED BY <1>1, <2>1, InTreeIs DEF Nodes
<1>9. Loose(r, n, p)
  BY <1>1, <1>4, <1>5, <1>6 DEF Loose
<1> QED BY <1>7, <1>8, <1>9

LEMMA MoveDirectEffect ==
    ASSUME Formed(kids, kind), Described, NEW n \in InTree(kids), NEW p \in InTree(kids),
           kind[p] = Home(kind[n]), NEW pos \in Positions(Siblings(kids, p, kind[n])),
           Movable(n, p), MoveDirect(n, p, pos)
    PROVE  /\ Effect({Up(kids, n), p}) /\ DOMAIN kids' = Nodes
           /\ kind[n] = "row" => Renumbered(kids', addr, {Up(kids, n), p}, addr')
           /\ kind[n] # "row" => addr' = addr
           /\ Up(kids, n) \in Nodes /\ n \in ToSet(kids[Up(kids, n)]) /\ p \in Nodes
           /\ ToSet(kids'[p]) = ToSet(kids[p]) \cup {n}
           /\ \A m \in Nodes \ {p} : ToSet(kids'[m]) \subseteq ToSet(kids[m])
<1>1. PICK a : a = Up(kids, n)
  OBVIOUS
<1>2. PICK s : s = Siblings(kids, p, kind[n])
  OBVIOUS
<1>3. PICK r : r = Drop(kids, n)
  OBVIOUS
<1>4. /\ kind[n] \in {"paragraph", "row"} /\ kind[n] \notin Inline /\ kind[n] # "section"
      /\ p \notin ToSet(Below(kids, n))
      /\ kids' = InsertDirect(r, p, RemoveFirst(s, n), Landing(s, n, pos), n)
      /\ addr' = IF kind[n] = "row" THEN Renumber(kids', addr, {a, p}) ELSE addr
      /\ kind' = kind /\ id' = id /\ shape' = shape /\ cached' = cached
  BY <1>1, <1>2, <1>3 DEF Movable, MoveDirect, Direct, Inline
<1>5. a \in Nodes /\ n \in ToSet(kids[a]) /\ kind[a] # "ctrl"
  BY <1>1, <1>4, HeldBy DEF Holders
<1>6. Removed(n, {a}, r)
  BY <1>3, <1>5, DropRemoves
<1>7. /\ IsTree(kids) /\ IsTree(r) /\ DOMAIN r = DOMAIN kids /\ Len(r) = Len(kids)
      /\ Fits(r, kind) /\ HungBut(r, n) /\ n \in DOMAIN r
      /\ \A m \in Nodes \ {a} : r[m] = kids[m]
  BY <1>6 DEF Formed, Removed, Nodes
<1>8. \A m \in DOMAIN kids : ToSet(r[m]) = ToSet(kids[m]) \ {n}
  BY <1>3, <1>5, <1>7, DropIs DEF Nodes
<1>9. p # n
  <2>1. kind[p] # kind[n]
    BY <1>4 DEF Home
  <2> QED BY <2>1
<1>10. Loose(r, n, p) /\ p \in InTree(r) /\ p \in DOMAIN r
  BY <1>4, <1>6, <1>7, <1>8, <1>9, MovedLoose DEF Nodes
<1>11. /\ s \in Seq(DOMAIN kids) /\ IsInjective(s) /\ ToSet(s) \subseteq ToSet(kids[p])
  <2>1. PICK k : k = kind[n]
    OBVIOUS
  <2>2. p \in DOMAIN kids /\ k \notin Inline /\ s = Siblings(kids, p, k)
    BY <1>2, <1>4, <1>7, <1>10, <2>1
  <2>3. Siblings(kids, p, k) \in Seq(DOMAIN kids) /\ IsInjective(Siblings(kids, p, k))
    BY <1>7, <2>2, SiblingsAre
  <2>4. ToSet(Siblings(kids, p, k)) = {m \in ToSet(kids[p]) : kind[m] = k}
    BY <1>7, <2>2, SiblingsAre
  <2> QED BY <2>2, <2>3, <2>4
<1>12. RemoveFirst(s, n) \in Seq(DOMAIN r) /\ ToSet(RemoveFirst(s, n)) \subseteq ToSet(r[p])
  BY <1>7, <1>8, <1>10, <1>11, RemoveFirstHolds
<1>13. Landing(s, n, pos) \in Nat
  BY <1>2, <1>7, <1>11, LandingIs, NodesAre
<1>14. Extended(r, p, n, kids')
  BY <1>4, <1>7, <1>10, <1>12, <1>13, InsertDirectIs
<1>15. kind[p] \in Holders(kind[n]) /\ kind[n] # "ctrl"
  BY <1>4 DEF Home, Holders
<1>16. Fits(kids', kind')
  BY <1>4, <1>7, <1>10, <1>14, <1>15, ExtendedFits
<1>17. Hung(kids') /\ InTree(kids') = InTree(r) \cup {n}
  BY <1>7, <1>10, <1>14, ExtendedHung
<1>18. /\ IsTree(kids') /\ DOMAIN kids' = DOMAIN kids /\ Len(kids') = Len(kids)
       /\ \A m \in DOMAIN kids : m # p => kids'[m] = r[m]
  BY <1>7, <1>14 DEF Extended
<1>19. {a, p} \in SUBSET DOMAIN kids'
  BY <1>5, <1>7, <1>10, <1>18 DEF Nodes
<1>20. kind[n] = "row" => Renumbered(kids', addr, {a, p}, addr')
  BY <1>4, <1>18, <1>19, RenumberIs DEF Described
<1>21. addr' \in Seq(Nat) /\ Len(addr') = Len(kids')
  BY <1>4, <1>18, <1>20 DEF Renumbered, Described
<1>22. Formed(kids', kind')
  BY <1>4, <1>16, <1>17, <1>18 DEF Formed
<1>23. Described'
  BY <1>4, <1>18, <1>21 DEF Described, Nodes
<1>24. InTree(kids') \subseteq InTree(kids)
  <2>1. ASSUME NEW m \in InTree(r) PROVE m \in InTree(kids)
    BY <1>7, <1>8, InTreeIs
  <2> QED BY <1>17, <2>1
<1>25. ASSUME NEW m \in (Nodes \cap InTree(kids')) \ {a, p} PROVE kids'[m] = kids[m]
  BY <1>7, <1>18 DEF Nodes
<1>26. Effect({a, p}) /\ DOMAIN kids' = Nodes
  BY <1>4, <1>18, <1>22, <1>23, <1>24, <1>25 DEF Effect, Nodes
<1>27. ToSet(kids'[p]) = ToSet(kids[p]) \cup {n} /\ p \in Nodes
  BY <1>7, <1>8, <1>10, <1>14 DEF Extended, Nodes
<1>28. \A m \in Nodes \ {p} : ToSet(kids'[m]) \subseteq ToSet(kids[m])
  BY <1>8, <1>18 DEF Nodes
<1> QED BY <1>1, <1>4, <1>5, <1>20, <1>26, <1>27, <1>28

LEMMA MoveInlineEffect ==
    ASSUME Formed(kids, kind), Described, NEW n \in InTree(kids), NEW p \in InTree(kids),
           kind[p] = Home(kind[n]), NEW pos \in Positions(Siblings(kids, p, kind[n])),
           Movable(n, p), MoveInline(n, p, pos)
    PROVE  /\ Effect({Up(kids, n), RunOf(kids, n), Holder(kids, n), p})
           /\ DOMAIN kids' = 1..Len(kids) + 1 /\ Len(kids) \in Nat
           /\ kind'[Len(kids) + 1] = "run"
           /\ addr' = Append(addr, 0)
           /\ Holder(kids, n) \in Nodes
<1>1. PICK a : a = Up(kids, n)
  OBVIOUS
<1>2. PICK k : k = kind[n]
  OBVIOUS
<1>3. PICK s, i : s = Siblings(DetachInline(kids, n), p, k) /\ i = Landing(Siblings(kids, p, k), n, pos)
  OBVIOUS
<1>4. PICK r : r = DetachInline(kids, n)
  OBVIOUS
<1>5. /\ k \in Inline /\ k # "note" /\ k # "ctrl" /\ k \in {"table", "picture"} /\ k # "section"
      /\ kind[p] = "paragraph" /\ p \notin ToSet(Below(kids, n))
      /\ kids' = InsertInline(r, p, s, i, n, k)
      /\ Makes(<<"run">>) /\ addr' = Append(addr, 0) /\ cached' \subseteq cached
  BY <1>2, <1>3, <1>4 DEF Movable, MoveInline, Inline, Home
<1>6. IsTree(kids) /\ Fits(kids, kind) /\ Hung(kids) /\ kind[Section] = "section"
  BY DEF Formed
<1>7. a \in DOMAIN kids /\ n \in ToSet(kids[a]) /\ n \in DOMAIN kids
  BY <1>1, <1>2, <1>5, HeldBy DEF Nodes
<1>8. PICK run, q : Placed(kids, n, a, run, q)
  BY <1>2, <1>5, <1>6, <1>7, InlineIs
<1>9. a = Up(kids, n) /\ run = RunOf(kids, n) /\ q = Holder(kids, n) /\ q \in Nodes
  BY <1>1, <1>8 DEF Placed, Nodes
<1>10. Removed(n, {a, run, q}, r) /\ Detached(kids, n, a, run, q, r)
  BY <1>4, <1>6, <1>8, DetachRemoves, DetachInlineIs
<1>11. /\ IsTree(r) /\ DOMAIN r = DOMAIN kids /\ Len(r) = Len(kids)
       /\ Fits(r, kind) /\ HungBut(r, n) /\ n \in DOMAIN r
       /\ \A m \in Nodes \ {a, run, q} : r[m] = kids[m]
       /\ \A m \in DOMAIN kids : ToSet(r[m]) \subseteq ToSet(kids[m]) \ {n}
  BY <1>10 DEF Removed, Nodes
<1>12. p # n
  BY <1>2, <1>5
<1>13. ASSUME NEW m \in Nodes, p \in ToSet(kids[m]) PROVE p \in ToSet(r[m])
  BY <1>5, <1>10, <1>12, <1>13 DEF Detached, Nodes
<1>14. Loose(r, n, p) /\ p \in InTree(r) /\ p \in DOMAIN r
  BY <1>5, <1>10, <1>11, <1>13, MovedLoose DEF Nodes
<1>15. s \in Seq(DOMAIN r) /\ \A z \in ToSet(s) : RunOf(r, z) \in ToSet(r[p])
  BY <1>3, <1>4, <1>5, <1>11, <1>14, SiblingsAre, RunsAre
<1>16. i \in Nat
  <2>1. Siblings(kids, p, k) \in Seq(DOMAIN kids) /\ DOMAIN kids \in SUBSET Nat
    BY <1>6, <1>11, <1>14, SiblingsAre, NodesAre
  <2> QED BY <1>2, <1>3, <2>1, LandingIs
<1>17. Wrapped(r, p, n, k, kids')
  BY <1>5, <1>11, <1>14, <1>15, <1>16, InsertInlineIs
<1>18. Len(kids) \in Nat /\ DOMAIN kids = 1..Len(kids) /\ addr \in Seq(Nat) /\ Len(addr) = Len(kids)
  BY <1>6, TreeIs DEF Described
<1>19. Carried(1) /\ kind'[Len(kids) + 1] = "run"
  <2>1. PICK new : new = <<"run">>
    OBVIOUS
  <2>2. new \in Seq(Kinds) /\ Len(new) = 1 /\ new[1] = "run"
    BY <2>1 DEF Kinds, Addressable, Direct, Inline
  <2>3. addr' \in Seq(Nat) /\ Len(addr') = Len(kids) + Len(new)
    BY <1>5, <1>18, <2>2
  <2>4. Makes(new)
    BY <1>5, <2>1
  <2>5. Carried(Len(new))
    BY <1>5, <2>2, <2>3, <2>4, MakesCarries
  <2>6. 1 \in 1..Len(new)
    BY <2>2
  <2> QED BY <2>2, <2>4, <2>5, <2>6, MakesIs
<1>20. /\ IsTree(kids') /\ DOMAIN r \subseteq DOMAIN kids' /\ Len(kids') = Len(kids) + 1
       /\ DOMAIN kids' = 1..Len(kids) + 1
       /\ \A m \in DOMAIN kids : m # p => kids'[m] = r[m]
  <2>1. /\ IsTree(kids') /\ DOMAIN r \subseteq DOMAIN kids' /\ Len(kids') = Len(r) + Len(Wrapping(k))
        /\ \A m \in DOMAIN r : m # p => kids'[m] = r[m]
    BY <1>17 DEF Wrapped
  <2>2. Len(Wrapping(k)) = 1
    BY <1>5 DEF Wrapping
  <2>3. DOMAIN kids' = 1..Len(kids')
    BY <2>1, TreeIs
  <2> QED BY <1>11, <2>1, <2>2, <2>3
<1>21. Fits(kids', kind')
  <2>1. Fits(r, kind')
    <3>1. ASSUME NEW m \in DOMAIN r, NEW x \in ToSet(r[m])
          PROVE  kind'[m] \in Holders(kind'[x]) /\ (kind'[x] = "ctrl" => r[x] # <<>>)
      <4>1. x \in DOMAIN r
        BY <1>11, TreeIs
      <4> QED BY <1>11, <1>19, <4>1 DEF Fits, Carried, Nodes
    <3> QED BY <3>1 DEF Fits
  <2>2. kind'[p] = "paragraph" /\ kind'[n] = k /\ kind'[Len(r) + 1] = "run"
    BY <1>2, <1>5, <1>11, <1>14, <1>19 DEF Carried, Nodes
  <2> QED BY <1>5, <1>11, <1>14, <1>17, <2>1, <2>2, WrappedFits
<1>22. Hung(kids') /\ InTree(kids') \subseteq InTree(r) \cup {n} \cup (DOMAIN kids' \ DOMAIN r)
  BY <1>5, <1>11, <1>14, <1>17, WrappedHung
<1>23. Formed(kids', kind')
  <2>1. Section \in Nodes
    BY <1>6, TreeIs DEF Nodes
  <2> QED BY <1>6, <1>19, <1>20, <1>21, <1>22, <2>1 DEF Formed, Carried
<1>24. Described'
  BY <1>19, <1>20 DEF Described, Nodes, Carried
<1>25. InTree(kids') \subseteq InTree(kids) \cup (DOMAIN kids' \ DOMAIN kids)
  <2>1. ASSUME NEW m \in InTree(r) PROVE m \in InTree(kids)
    BY <1>6, <1>11, InTreeIs
  <2> QED BY <1>11, <1>22, <2>1
<1>26. ASSUME NEW m \in (Nodes \cap InTree(kids')) \ {a, run, q, p} PROVE kids'[m] = kids[m]
  BY <1>11, <1>20 DEF Nodes
<1>27. Effect({a, run, q, p})
  BY <1>11, <1>19, <1>20, <1>23, <1>24, <1>25, <1>26 DEF Effect, Nodes, Carried
<1> QED BY <1>5, <1>9, <1>18, <1>19, <1>20, <1>27

-----------------------------------------------------------------------------
(* The identities of a copy.                                                   *)

LEMMA Bounded ==
    ASSUME NEW N \in Nat, NEW f, \A i \in 1..N : f[i] \in Nat
    PROVE  \E u \in Nat : \A i \in 1..N : f[i] <= u
<1>1. PICK S : S = {n \in Nat : n <= N => \E u \in Nat : \A i \in 1..n : f[i] <= u}
  OBVIOUS
<1>2. 0 \in S
  <2>1. 1..0 = {} /\ 0 \in Nat
    OBVIOUS
  <2> QED BY <1>1, <2>1
<1>3. ASSUME NEW n \in Nat, n \in S PROVE n + 1 \in S
  <2> SUFFICES ASSUME n + 1 <= N PROVE \E u \in Nat : \A i \in 1..n + 1 : f[i] <= u
    BY <1>1
  <2>1. n \in 0..N /\ n <= N /\ n + 1 \in 1..N
    OBVIOUS
  <2>2. PICK u \in Nat : \A i \in 1..n : f[i] <= u
    BY <1>1, <1>3, <2>1
  <2>3. f[n + 1] \in Nat
    BY <2>1
  <2>4. PICK w \in Nat : u <= w /\ f[n + 1] <= w
    <3>1. u <= u + f[n + 1] /\ f[n + 1] <= u + f[n + 1] /\ u + f[n + 1] \in Nat
      BY <2>3
    <3> QED BY <3>1
  <2>5. ASSUME NEW i \in 1..n + 1 PROVE f[i] <= w
    <3>1. CASE i = n + 1
      BY <2>4, <3>1
    <3>2. CASE i # n + 1
      <4>1. i \in 1..n /\ i \in 1..N
        BY <2>1, <3>2
      <4>2. f[i] <= u /\ f[i] \in Nat
        BY <2>2, <4>1
      <4> QED BY <2>4, <4>2
    <3> QED BY <3>1, <3>2
  <2> QED BY <2>4, <2>5
<1>4. N \in S
  <2>1. \A n \in Nat : n \in S
    BY <1>2, <1>3, Induct
  <2> QED BY <2>1
<1> QED BY <1>1, <1>4

LEMMA HighestIs ==
    ASSUME Formed(kids, kind), Described
    PROVE  Highest \in Nat /\ \A m \in InTree(kids) : id[m] <= Highest
<1>1. PICK ids : ids = {id[m] : m \in InTree(kids)}
  OBVIOUS
<1>2. /\ IsTree(kids) /\ Len(kids) \in Nat /\ DOMAIN kids = 1..Len(kids)
      /\ id \in Seq(Nat) /\ DOMAIN id = 1..Len(kids) /\ \A m \in 1..Len(kids) : id[m] \in Nat
  BY TreeIs, LenProperties, ElementOfSeq DEF Formed, Described
<1>3. InTree(kids) \subseteq 1..Len(kids) /\ Section \in InTree(kids)
  BY <1>2, InTreeIs
<1>4. ids \subseteq Nat /\ id[Section] \in ids
  BY <1>1, <1>2, <1>3
<1>5. PICK U : U = {u \in Nat : \A j \in ids : j <= u}
  OBVIOUS
<1>6. U \in SUBSET Nat /\ U # {}
  <2>1. PICK u \in Nat : \A i \in 1..Len(kids) : id[i] <= u
    BY <1>2, Bounded
  <2>2. u \in U
    BY <1>1, <1>3, <1>5, <2>1
  <2> QED BY <1>5, <2>2
<1>7. PICK u \in U : \A w \in U : u <= w
  BY <1>6, LeastNumber
<1>8. u \in ids
  <2> SUFFICES ASSUME u \notin ids PROVE FALSE
    OBVIOUS
  <2>1. u \in Nat /\ \A j \in ids : j <= u
    BY <1>5
  <2>2. \A j \in ids : j \in Nat /\ j < u
    BY <1>4, <2>1
  <2>3. u - 1 \in Nat
    <3>1. PICK j \in ids : j = id[Section]
      BY <1>4
    <3>2. j \in Nat /\ j < u
      BY <2>2
    <3> QED BY <2>1, <3>2
  <2>4. \A j \in ids : j <= u - 1
    BY <2>1, <2>2
  <2>5. u - 1 \in U
    BY <1>5, <2>3, <2>4
  <2>6. u <= u - 1
    BY <1>7, <2>5
  <2> QED BY <2>1, <2>6
<1>9. \E i \in ids : \A j \in ids : j <= i
  BY <1>5, <1>8
<1>10. PICK h : h = CHOOSE i \in ids : \A j \in ids : j <= i
  OBVIOUS
<1>11. h \in ids /\ \A j \in ids : j <= h
  BY <1>9, <1>10
<1>12. Highest = h
  BY <1>1, <1>10 DEF Highest
<1> QED BY <1>1, <1>4, <1>11, <1>12

\* Positive where the source has an identity, above all there are, and no two alike.
Renewed(src, f) ==
    /\ f \in Seq(Nat) /\ Len(f) = Len(src)
    /\ \A i \in 1..Len(src) : f[i] > 0 => f[i] > Highest
    /\ \A i, j \in 1..Len(src) : f[i] > 0 /\ f[i] = f[j] => i = j

LEMMA FreshIs ==
    ASSUME Formed(kids, kind), Described, NEW src \in Seq(Nodes)
    PROVE  Renewed(src, Fresh(src))
<1>1. PICK f : f = Fresh(src)
  OBVIOUS
<1>2. PICK top : top = Highest
  OBVIOUS
<1>3. top \in Nat
  BY <1>2, HighestIs
<1>4. Len(src) \in Nat /\ DOMAIN src = 1..Len(src) /\ \A i \in 1..Len(src) : src[i] \in Nodes
  BY LenProperties, ElementOfSeq
<1>5. \A m \in Nodes : id[m] \in Nat
  BY TreeIs, LenProperties, ElementOfSeq DEF Formed, Described, Nodes
<1>6. /\ DOMAIN f = 1..Len(src)
      /\ \A i \in 1..Len(src) : f[i] = IF id[src[i]] = 0 THEN 0 ELSE top + Cardinality({j \in 1..i : id[src[j]] > 0})
      /\ f = [i \in 1..Len(src) |-> f[i]]
  BY <1>1, <1>2, <1>4 DEF Fresh
<1>7. ASSUME NEW i \in 1..Len(src)
      PROVE  /\ IsFiniteSet({j \in 1..i : id[src[j]] > 0})
             /\ Cardinality({j \in 1..i : id[src[j]] > 0}) \in Nat
             /\ id[src[i]] > 0 => Cardinality({j \in 1..i : id[src[j]] > 0}) > 0
  <2>1. PICK A : A = {j \in 1..i : id[src[j]] > 0}
    OBVIOUS
  <2>2. i \in Int /\ 1 \in Int
    BY <1>4
  <2>3. IsFiniteSet(1..i)
    BY <2>2, FS_Interval
  <2>4. A \subseteq 1..i
    BY <2>1
  <2>5. IsFiniteSet(A)
    BY <2>3, <2>4, FS_Subset
  <2>6. Cardinality(A) \in Nat /\ (Cardinality(A) = 0 <=> A = {})
    BY <2>5, FS_CardinalityType, FS_EmptySet
  <2>7. id[src[i]] > 0 => i \in A
    BY <1>4, <2>1
  <2> QED BY <2>1, <2>5, <2>6, <2>7
<1>8. ASSUME NEW i \in 1..Len(src)
      PROVE  f[i] \in Nat /\ (f[i] > 0 => id[src[i]] > 0 /\ f[i] > top)
  <2>1. CASE id[src[i]] = 0
    <3>1. f[i] = 0
      BY <1>6, <2>1
    <3> QED BY <3>1
  <2>2. CASE id[src[i]] # 0
    <3>1. id[src[i]] > 0
      BY <1>4, <1>5, <2>2
    <3>2. PICK x : x = Cardinality({j \in 1..i : id[src[j]] > 0})
      OBVIOUS
    <3>3. x \in Nat /\ x > 0
      BY <1>7, <3>1, <3>2
    <3>4. f[i] = top + x
      BY <1>6, <2>2, <3>2
    <3> QED BY <1>3, <3>1, <3>3, <3>4
  <2> QED BY <2>1, <2>2
<1>9. f \in Seq(Nat) /\ Len(f) = Len(src)
  <2>1. f \in [1..Len(src) -> Nat]
    BY <1>6, <1>8
  <2> QED BY <1>4, <2>1
<1>10. ASSUME NEW i \in 1..Len(src), NEW j \in 1..Len(src), i < j, f[i] > 0, f[j] > 0 PROVE f[i] # f[j]
  <2>1. PICK A : A = {l \in 1..i : id[src[l]] > 0}
    OBVIOUS
  <2>2. PICK B : B = {l \in 1..j : id[src[l]] > 0}
    OBVIOUS
  <2>3. id[src[i]] > 0 /\ id[src[j]] > 0 /\ id[src[i]] \in Nat /\ id[src[j]] \in Nat
    BY <1>4, <1>5, <1>8, <1>10
  <2>4. A \subseteq B /\ j \in B /\ j \notin A
    BY <1>10, <2>1, <2>2, <2>3
  <2>5. IsFiniteSet(B) /\ Cardinality(A) \in Nat /\ Cardinality(B) \in Nat
    BY <1>7, <2>1, <2>2
  <2>6. Cardinality(A) # Cardinality(B)
    BY <2>4, <2>5, FS_Subset
  <2>7. f[i] = top + Cardinality(A) /\ f[j] = top + Cardinality(B)
    BY <1>6, <2>1, <2>2, <2>3
  <2> QED BY <1>3, <2>5, <2>6, <2>7
<1>11. ASSUME NEW i \in 1..Len(src), NEW j \in 1..Len(src), f[i] > 0, f[i] = f[j] PROVE i = j
  <2>1. CASE i < j
    BY <1>10, <1>11, <2>1
  <2>2. CASE j < i
    BY <1>10, <1>11, <2>2
  <2> QED BY <2>1, <2>2
<1>12. Renewed(src, f)
  BY <1>2, <1>8, <1>9, <1>11 DEF Renewed
<1> QED BY <1>1, <1>12

-----------------------------------------------------------------------------
(* The command that copies.                                                    *)

\* r is f, then u for the copied nodes, then w for the run of an object.
Trailed(S, f, u, w, r) ==
    /\ r \in Seq(S) /\ Len(r) = Len(f) + (Len(u) + Len(w))
    /\ \A i \in 1..Len(f) : r[i] = f[i]
    /\ \A i \in 1..Len(u) : r[Len(f) + i] = u[i]
    /\ \A i \in 1..Len(w) : r[Len(f) + Len(u) + i] = w[i]

LEMMA TrailIs ==
    ASSUME NEW S, NEW f \in Seq(S), NEW u \in Seq(S), NEW w \in Seq(S)
    PROVE  Trailed(S, f, u, w, f \o u \o w)
<1>1. PICK h : h = f \o u
  OBVIOUS
<1>2. PICK r : r = h \o w
  OBVIOUS
<1>3. Tailed(S, f, u, h)
  BY <1>1, TailIs
<1>4. h \in Seq(S)
  BY <1>3 DEF Tailed
<1>5. Tailed(S, h, w, r)
  BY <1>2, <1>4, TailIs
<1>6. Len(f) \in Nat /\ Len(u) \in Nat /\ Len(w) \in Nat
  BY LenProperties
<1>7. Len(h) = Len(f) + Len(u)
  BY <1>3 DEF Tailed
<1>8. r \in Seq(S) /\ Len(r) = Len(f) + (Len(u) + Len(w))
  BY <1>5, <1>6, <1>7 DEF Tailed
<1>9. ASSUME NEW i \in 1..Len(f) PROVE r[i] = f[i]
  <2>1. i \in 1..Len(h)
    BY <1>6, <1>7
  <2> QED BY <1>3, <1>5, <2>1 DEF Tailed
<1>10. ASSUME NEW i \in 1..Len(u) PROVE r[Len(f) + i] = u[i]
  <2>1. Len(f) + i \in 1..Len(h)
    BY <1>6, <1>7
  <2> QED BY <1>3, <1>5, <2>1 DEF Tailed
<1>11. ASSUME NEW i \in 1..Len(w) PROVE r[Len(f) + Len(u) + i] = w[i]
  BY <1>5, <1>7 DEF Tailed
<1>12. Trailed(S, f, u, w, r)
  BY <1>8, <1>9, <1>10, <1>11 DEF Trailed
<1> QED BY <1>1, <1>2, <1>12

\* r is f again, for the nodes of src.
Drawn(S, f, src, r) ==
    /\ r \in Seq(S) /\ Len(r) = Len(src)
    /\ \A i \in 1..Len(src) : r[i] = f[src[i]]

LEMMA OfIs ==
    ASSUME IsTree(kids), NEW S, NEW f \in Seq(S), Len(f) = Len(kids), NEW src \in Seq(Nodes)
    PROVE  Drawn(S, f, src, Of(f, src))
<1>1. Len(src) \in Nat /\ DOMAIN src = 1..Len(src) /\ \A i \in 1..Len(src) : src[i] \in Nodes
  BY LenProperties, ElementOfSeq
<1>2. PICK r : r = [i \in 1..Len(src) |-> f[src[i]]]
  OBVIOUS
<1>3. Of(f, src) = r
  BY <1>1, <1>2 DEF Of
<1>4. \A m \in Nodes : f[m] \in S
  BY TreeIs, LenProperties, ElementOfSeq DEF Nodes
<1>5. r \in [1..Len(src) -> S] /\ \A i \in 1..Len(src) : r[i] = f[src[i]]
  BY <1>1, <1>2, <1>4
<1>6. r \in Seq(S) /\ Len(r) = Len(src)
  BY <1>1, <1>5
<1>7. Drawn(S, f, src, r)
  BY <1>5, <1>6 DEF Drawn
<1> QED BY <1>3, <1>7

\* What a copy is: the nodes of src again, and the run and the control of an object.
Copies(src, wrap) ==
    /\ Trailed(Kinds, kind, Of(kind, src), wrap, kind')
    /\ \E f, none : Renewed(src, f) /\ Trailed(Nat, id, f, none, id')
                    /\ Len(none) = Len(wrap) /\ \A i \in 1..Len(wrap) : none[i] = 0
    /\ \E full : Trailed(Shapes, shape, Of(shape, src), full, shape') /\ Len(full) = Len(wrap)

LEMMA CopyJoins ==
    ASSUME Formed(kids, kind), NEW n \in Nodes, NEW src, src = Below(kids, n),
           NEW wrap, Trailed(Kinds, kind, Of(kind, src), wrap, kind')
    PROVE  Joins(Clone(src), Len(src))
<1>1. IsTree(kids) /\ Fits(kids, kind) /\ Len(kind) = Len(kids) /\ kind \in Seq(Kinds)
  BY DEF Formed
<1>2. PICK c, k : c = Clone(src) /\ k = Len(src)
  OBVIOUS
<1>3. Mirrors(src, c) /\ Joined(kids, c)
  BY <1>1, <1>2, CloneIs DEF Nodes
<1>4. /\ src \in Seq(Nodes) /\ IsInjective(src) /\ Len(src) > 0 /\ src[1] = n
      /\ \A m \in ToSet(src) : ToSet(kids[m]) \subseteq ToSet(src) \ {n}
      /\ \A x \in ToSet(src) \ {n} : \E m \in ToSet(src) : x \in ToSet(kids[m])
  <2>1. src \in Seq(Nodes) /\ IsInjective(src) /\ Len(src) > 0 /\ src[1] = n
    BY <1>1, BelowIs DEF Nodes
  <2>2. \A m \in ToSet(src) : ToSet(kids[m]) \subseteq ToSet(src) \ {n}
    BY <1>1, BelowIs DEF Nodes
  <2>3. \A x \in ToSet(src) \ {n} : \E m \in ToSet(src) : x \in ToSet(kids[m])
    BY <1>1, BelowIs DEF Nodes
  <2> QED BY <2>1, <2>2, <2>3
<1>5. /\ k \in Nat \ {0} /\ DOMAIN src = 1..k /\ \A i \in 1..k : src[i] \in Nodes /\ src[i] \in ToSet(src)
      /\ \A x \in ToSet(src) : \E i \in 1..k : x = src[i]
      /\ \A i, e \in 1..k : src[i] = src[e] => i = e
      /\ 1 \in 1..k
  <2>1. k \in Nat \ {0} /\ DOMAIN src = 1..k /\ \A i \in 1..k : src[i] \in Nodes
    BY <1>2, <1>4, LenProperties, ElementOfSeq
  <2>2. 1 \in 1..k
    BY <2>1
  <2> QED BY <1>4, <2>1, <2>2 DEF ToSet, IsInjective
<1>6. DOMAIN c = 1..k
  BY <1>3, <1>5 DEF Mirrors
<1>7. \A i \in 1..k : kind'[Len(kids) + i] = kind[src[i]]
  <2>1. Drawn(Kinds, kind, src, Of(kind, src))
    BY <1>1, <1>4, OfIs
  <2> QED BY <1>1, <1>2, <2>1 DEF Trailed, Drawn
<1>8. ASSUME NEW i \in 1..k, NEW y \in ToSet(c[i])
      PROVE  \E e \in 2..k : /\ y = Len(kids) + e
                             /\ kind'[Len(kids) + i] \in Holders(kind'[y])
                             /\ kind'[y] = "ctrl" => c[e] # <<>>
  <2>1. c[i] \in Seq(Nat) /\ Len(c[i]) = Len(kids[src[i]])
        /\ \A j \in 1..Len(kids[src[i]]) : \E e \in 1..k : c[i][j] = Len(kids) + e /\ src[e] = kids[src[i]][j]
    BY <1>3, <1>5 DEF Mirrors
  <2>2. PICK j \in 1..Len(c[i]) : y = c[i][j]
    <3>1. DOMAIN c[i] = 1..Len(c[i])
      BY <2>1, LenProperties
    <3> QED BY <3>1 DEF ToSet
  <2>3. PICK e \in 1..k : y = Len(kids) + e /\ src[e] = kids[src[i]][j]
    BY <2>1, <2>2
  <2>4. src[e] \in ToSet(kids[src[i]])
    <3>1. kids[src[i]] \in Seq(Nodes)
      BY <1>1, <1>5, TreeIs DEF Nodes
    <3>2. j \in DOMAIN kids[src[i]]
      BY <2>1, <2>2, <3>1, LenProperties
    <3> QED BY <2>3, <3>2 DEF ToSet
  <2>5. e # 1
    BY <1>4, <1>5, <2>4
  <2>6. e \in 2..k
    BY <1>5, <2>5
  <2>7. kind[src[i]] \in Holders(kind[src[e]]) /\ (kind[src[e]] = "ctrl" => kids[src[e]] # <<>>)
    BY <1>1, <1>5, <2>4 DEF Fits, Nodes
  <2>8. kids[src[e]] # <<>> => c[e] # <<>>
    <3>1. Len(c[e]) = Len(kids[src[e]])
      BY <1>3, <1>5 DEF Mirrors
    <3>2. kids[src[e]] \in Seq(Nodes)
      BY <1>1, <1>5, TreeIs DEF Nodes
    <3> QED BY <3>1, <3>2, EmptySeq
  <2> QED BY <1>7, <2>3, <2>6, <2>7, <2>8
<1>9. ASSUME NEW i \in 2..k PROVE \E j \in 1..k : Len(kids) + i \in ToSet(c[j])
  <2>1. i \in 1..k /\ i # 1
    BY <1>5
  <2>2. src[i] # n
    BY <1>4, <1>5, <2>1
  <2>3. PICK m \in ToSet(src) : src[i] \in ToSet(kids[m])
    BY <1>4, <1>5, <2>1, <2>2
  <2>4. PICK j \in 1..k : m = src[j]
    BY <1>5
  <2>5. Len(kids) + i \in ToSet(c[j])
    BY <1>3, <1>5, <2>1, <2>3, <2>4 DEF Mirrors
  <2> QED BY <2>5
<1> QED BY <1>2, <1>3, <1>5, <1>6, <1>8, <1>9 DEF Joins

\* A copy of the subtree src is put under p.
Copied(src, p, k, wrap) ==
    /\ src \in Seq(Nodes) /\ Mirrors(src, Clone(src)) /\ Copies(src, wrap)
    /\ wrap = IF k \in Inline THEN Wrapping(k) ELSE <<>>
    /\ \E t : /\ Ready(t, Clone(src), Len(src), p) /\ t = kids \o Clone(src)
              /\ IF k \in Inline THEN Wrapped(t, p, New, k, kids') ELSE Extended(t, p, New, kids')
    /\ Len(kids') = Len(kids) + (Len(src) + Len(wrap))
    /\ \E a, none : /\ Len(none) = Len(wrap) /\ \A i \in 1..Len(wrap) : none[i] = 0
                    /\ Trailed(Nat, addr, Of(addr, src), none, a)
                    /\ addr' = IF k = "row" THEN Renumber(kids', a, {p}) ELSE a

LEMMA WrappingIs ==
    ASSUME NEW k
    PROVE  /\ Wrapping(k) \in Seq(Kinds) /\ Len(Wrapping(k)) \in {1, 2} /\ Wrapping(k)[1] = "run"
           /\ k = "note" => Len(Wrapping(k)) = 2 /\ Wrapping(k)[2] = "ctrl"
           /\ k # "note" => Len(Wrapping(k)) = 1
<1>1. CASE k = "note"
  BY <1>1 DEF Wrapping, Kinds, Addressable, Direct, Inline
<1>2. CASE k # "note"
  BY <1>2 DEF Wrapping, Kinds, Addressable, Direct, Inline
<1> QED BY <1>1, <1>2

LEMMA CopyIs ==
    ASSUME Formed(kids, kind), Described, NEW n \in InTree(kids), NEW p \in InTree(kids),
           kind[n] \in Addressable, kind[p] = Home(kind[n]),
           NEW pos \in Positions(Siblings(kids, p, kind[n])), CopyNode(n, p, pos)
    PROVE  /\ Effect({p})
           /\ \E wrap : Copied(Below(kids, n), p, kind[n], wrap)
<1>1. PICK k : k = kind[n]
  OBVIOUS
<1>2. PICK s : s = Siblings(kids, p, k)
  OBVIOUS
<1>3. PICK src : src = Below(kids, n)
  OBVIOUS
<1>4. PICK t : t = kids \o Clone(src)
  OBVIOUS
<1>5. PICK wrap : wrap = IF k \in Inline THEN Wrapping(k) ELSE <<>>
  OBVIOUS
<1>6. PICK none, full : none = [i \in DOMAIN wrap |-> 0] /\ full = [i \in DOMAIN wrap |-> "full"]
  OBVIOUS
<1>7. PICK a : a = addr \o Of(addr, src) \o none
  OBVIOUS
<1>8. /\ kind' = kind \o Of(kind, src) \o wrap
      /\ id' = id \o Fresh(src) \o none
      /\ shape' = shape \o Of(shape, src) \o full
      /\ kids' = IF k \in Inline THEN InsertInline(t, p, s, Insertion(s, pos), New, k)
                                 ELSE InsertDirect(t, p, s, Insertion(s, pos), New)
      /\ addr' = IF k = "row" THEN Renumber(kids', a, {p}) ELSE a
  BY <1>1, <1>2, <1>3, <1>4, <1>5, <1>6, <1>7 DEF CopyNode
<1>9. cached' \subseteq cached \cup {Len(kids) + i : i \in DOMAIN src}
  BY <1>1, <1>3 DEF CopyNode
<1>10. /\ IsTree(kids) /\ Len(kids) \in Nat /\ Nodes = 1..Len(kids) /\ n \in Nodes /\ p \in Nodes
       /\ kind \in Seq(Kinds) /\ Len(kind) = Len(kids)
       /\ id \in Seq(Nat) /\ Len(id) = Len(kids)
       /\ shape \in Seq(Shapes) /\ Len(shape) = Len(kids)
       /\ addr \in Seq(Nat) /\ Len(addr) = Len(kids) /\ cached \subseteq Nodes
  BY TreeIs, InTreeIs DEF Formed, Nodes, Described
<1>11. src \in Seq(Nodes) /\ Len(src) > 0 /\ src[1] = n
  BY <1>3, <1>10, BelowIs DEF Nodes
<1>12. Len(src) \in Nat \ {0} /\ DOMAIN src = 1..Len(src)
  BY <1>11, LenProperties
<1>13. wrap \in Seq(Kinds) /\ Len(wrap) \in Nat /\ (k \notin Inline => Len(wrap) = 0)
       /\ (k \in Inline => wrap = Wrapping(k))
  <2>1. CASE k \in Inline
    BY <1>5, <2>1, WrappingIs
  <2>2. CASE k \notin Inline
    BY <1>5, <2>2
  <2> QED BY <2>1, <2>2
<1>14. /\ none \in Seq(Nat) /\ Len(none) = Len(wrap) /\ \A i \in 1..Len(wrap) : none[i] = 0
       /\ full \in Seq(Shapes) /\ Len(full) = Len(wrap)
  <2>1. DOMAIN wrap = 1..Len(wrap)
    BY <1>13, LenProperties
  <2> QED BY <1>6, <1>13, <2>1 DEF Shapes
<1>15. Drawn(Kinds, kind, src, Of(kind, src)) /\ Drawn(Shapes, shape, src, Of(shape, src))
       /\ Drawn(Nat, addr, src, Of(addr, src)) /\ Renewed(src, Fresh(src))
  <2>1. Drawn(Kinds, kind, src, Of(kind, src))
    BY <1>10, <1>11, OfIs
  <2>2. Drawn(Shapes, shape, src, Of(shape, src))
    BY <1>10, <1>11, OfIs
  <2>3. Drawn(Nat, addr, src, Of(addr, src))
    BY <1>10, <1>11, OfIs
  <2> QED BY <1>11, <2>1, <2>2, <2>3, FreshIs
<1>16. Trailed(Kinds, kind, Of(kind, src), wrap, kind')
  BY <1>8, <1>10, <1>13, <1>15, TrailIs DEF Drawn
<1>17. Trailed(Shapes, shape, Of(shape, src), full, shape')
  BY <1>8, <1>10, <1>14, <1>15, TrailIs DEF Drawn
<1>18. Trailed(Nat, id, Fresh(src), none, id')
  BY <1>8, <1>10, <1>14, <1>15, TrailIs DEF Renewed
<1>19. Trailed(Nat, addr, Of(addr, src), none, a)
  BY <1>7, <1>10, <1>14, <1>15, TrailIs DEF Drawn
<1>20. Copies(src, wrap)
  BY <1>14, <1>15, <1>16, <1>17, <1>18 DEF Copies
<1>21. Joins(Clone(src), Len(src)) /\ Mirrors(src, Clone(src))
  BY <1>3, <1>10, <1>16, CopyJoins, CloneIs
<1>22. \A m \in Nodes : kind'[m] = kind[m]
  BY <1>10, <1>16 DEF Trailed
<1>23. Ready(t, Clone(src), Len(src), p)
  BY <1>4, <1>21, <1>22, ReadyIs
<1>24. s \in Seq(DOMAIN kids) /\ Insertion(s, pos) \in Nat
  <2>1. s \in Seq(DOMAIN kids) /\ DOMAIN kids \in SUBSET Nat
    BY <1>2, <1>10, SiblingsAre, NodesAre DEF Nodes
  <2> QED BY <1>1, <1>2, <2>1, PositionsAre
<1>25. ASSUME k \in Inline
       PROVE  Wrapped(t, p, New, k, kids') /\ kind[p] = "paragraph" /\ Len(kids') = Len(kids) + (Len(src) + Len(wrap))
  <2>1. kind[p] = "paragraph"
    BY <1>1, <1>25 DEF Home, Inline
  <2>2. Wrapped(t, p, New, k, kids')
    <3>1. IsTree(t) /\ p \in DOMAIN t /\ Loose(t, New, p) /\ s \in Seq(DOMAIN t)
      BY <1>23, <1>24 DEF Ready, Nodes
    <3>3. ASSUME NEW z \in ToSet(s) PROVE RunOf(t, z) \in ToSet(t[p])
      BY <1>2, <1>23, <1>25, <2>1, RunStays
    <3>4. kids' = InsertInline(t, p, s, Insertion(s, pos), New, k)
      BY <1>8, <1>25
    <3> QED BY <1>24, <3>1, <3>3, <3>4, InsertInlineIs
  <2>3. Len(kids') = Len(kids) + (Len(src) + Len(wrap))
    BY <1>10, <1>12, <1>13, <1>23, <1>25, <2>2 DEF Wrapped, Ready
  <2> QED BY <2>1, <2>2, <2>3
<1>26. ASSUME k \notin Inline
       PROVE  Extended(t, p, New, kids') /\ Len(kids') = Len(kids) + (Len(src) + Len(wrap))
  <2>1. Extended(t, p, New, kids')
    <3>1. k \in Kinds \ Inline
      BY <1>1, <1>26 DEF Kinds
    <3>2. kids' = InsertDirect(t, p, s, Insertion(s, pos), New)
      BY <1>8, <1>26
    <3> QED BY <1>1, <1>2, <1>23, <3>1, <3>2, InsertMadeIs
  <2>2. Len(kids') = Len(kids) + (Len(src) + Len(wrap))
    BY <1>10, <1>12, <1>13, <1>23, <1>26, <2>1 DEF Extended, Ready
  <2> QED BY <2>1, <2>2
<1>27. Len(kids') = Len(kids) + (Len(src) + Len(wrap)) /\ IsTree(kids') /\ {p} \in SUBSET DOMAIN kids'
  <2>1. p \in DOMAIN t
    BY <1>23 DEF Ready
  <2> QED BY <1>25, <1>26, <2>1 DEF Extended, Wrapped
<1>28. a \in Seq(Nat) /\ Len(a) = Len(kids')
  BY <1>10, <1>14, <1>15, <1>19, <1>27 DEF Trailed, Drawn
<1>29. addr' \in Seq(Nat) /\ Len(addr') = Len(kids')
  <2>1. Renumbered(kids', a, {p}, Renumber(kids', a, {p}))
    BY <1>27, <1>28, RenumberIs
  <2> QED BY <1>8, <1>28, <2>1 DEF Renumbered
<1>30. Carried(Len(src) + Len(wrap))
  <2>1. kind' \in Seq(Kinds) /\ Len(kind') = Len(kids) + (Len(src) + Len(wrap)) /\ \A m \in Nodes : kind'[m] = kind[m]
    BY <1>10, <1>15, <1>16 DEF Trailed, Drawn
  <2>2. shape' \in Seq(Shapes) /\ Len(shape') = Len(kids) + (Len(src) + Len(wrap)) /\ \A m \in Nodes : shape'[m] = shape[m]
    BY <1>10, <1>14, <1>15, <1>17 DEF Trailed, Drawn
  <2>3. id' \in Seq(Nat) /\ Len(id') = Len(kids) + (Len(src) + Len(wrap)) /\ \A m \in Nodes : id'[m] = id[m]
    BY <1>10, <1>14, <1>15, <1>18 DEF Trailed, Renewed
  <2>4. cached' \subseteq 1..Len(kids) + (Len(src) + Len(wrap))
    <3>1. ASSUME NEW i \in DOMAIN src PROVE Len(kids) + i \in 1..Len(kids) + (Len(src) + Len(wrap))
      <4>1. Len(src) \in Nat /\ Len(wrap) \in Nat /\ Len(kids) \in Nat /\ i \in 1..Len(src)
        BY <1>10, <1>12, <1>13
      <4> QED BY <4>1
    <3>2. Nodes \subseteq 1..Len(kids) + (Len(src) + Len(wrap))
      BY <1>10, <1>12, <1>13
    <3> QED BY <1>9, <1>10, <3>1, <3>2
  <2> QED BY <1>27, <1>29, <2>1, <2>2, <2>3, <2>4 DEF Carried
<1>31. kind'[New] = k
  <2>1. 1 \in 1..Len(src) /\ New = Len(kids) + 1
    BY <1>12 DEF New
  <2> QED BY <1>1, <1>10, <1>11, <1>15, <1>16, <2>1 DEF Trailed, Drawn
<1>32. kind'[p] = Home(k)
  BY <1>1, <1>10, <1>22
<1>33. Copied(src, p, k, wrap)
  BY <1>4, <1>5, <1>8, <1>11, <1>14, <1>19, <1>20, <1>21, <1>23, <1>25, <1>26, <1>27 DEF Copied
<1>34. CASE k \in Inline
  <2>1. Len(src) \in Nat /\ Carried(Len(src) + Len(Wrapping(k)))
    BY <1>12, <1>13, <1>30, <1>34
  <2>2. kind'[Len(kids) + Len(src) + 1] = "run" /\ (k = "note" => kind'[Len(kids) + Len(src) + 2] = "ctrl")
    <3>1. Len(Wrapping(k)) \in {1, 2} /\ Wrapping(k)[1] = "run" /\ (k = "note" => Len(Wrapping(k)) = 2 /\ Wrapping(k)[2] = "ctrl")
      BY WrappingIs
    <3>2. \A i \in 1..Len(wrap) : kind'[Len(kids) + Len(src) + i] = wrap[i]
      BY <1>10, <1>15, <1>16 DEF Trailed, Drawn
    <3> QED BY <1>13, <1>34, <3>1, <3>2
  <2>3. Effect({p})
    BY <1>22, <1>23, <1>25, <1>31, <1>34, <1>10, <2>1, <2>2, WrappedEffect
  <2> QED BY <1>1, <1>3, <1>33, <2>3
<1>35. CASE k \notin Inline
  <2>1. Carried(Len(src))
    BY <1>12, <1>13, <1>30, <1>35
  <2>2. kind'[p] \in Holders(kind'[New]) /\ kind'[New] # "ctrl"
    BY <1>1, <1>31, <1>32, <1>35 DEF Home, Holders, Addressable, Direct
  <2>3. Effect({p})
    BY <1>23, <1>26, <1>35, <2>1, <2>2, GraftedEffect
  <2> QED BY <1>1, <1>3, <1>33, <2>3
<1> QED BY <1>34, <1>35

-----------------------------------------------------------------------------
(* The invariant.                                                              *)

\* No identity is in the tree twice.
Distinct == \A m, n \in InTree(kids) : id[m] = id[n] /\ kind[m] = kind[n] /\ id[m] > 0 => m = n

CommandsInv ==
    /\ Formed(kids, kind) /\ Described /\ Distinct
    /\ count \in 0..MaxCommands
    /\ last \in [op : Ops, node : Nat, into : Nat, pos : Place]

\* The identities of the nodes a command makes are those of no other.
Anew ==
    \A m \in DOMAIN kids' \ Nodes : id'[m] > 0 =>
        /\ \A o \in InTree(kids) : id'[m] # id[o]
        /\ \A x \in DOMAIN kids' \ Nodes : id'[x] = id'[m] => x = m

LEMMA DistinctStays ==
    ASSUME Formed(kids, kind), Distinct, NEW touched, Effect(touched), Anew
    PROVE  Distinct'
<1>1. IsTree(kids) /\ IsTree(kids')
  BY DEF Formed, Effect
<1>2. ASSUME NEW m \in InTree(kids')
      PROVE  \/ m \in InTree(kids) /\ m \in Nodes /\ id'[m] = id[m] /\ kind'[m] = kind[m]
             \/ m \in DOMAIN kids' \ Nodes
  BY <1>1, InTreeIs DEF Effect, Nodes
<1>3. ASSUME NEW m \in InTree(kids'), NEW n \in InTree(kids'), id'[m] = id'[n], kind'[m] = kind'[n], id'[m] > 0
      PROVE  m = n
  <2>1. CASE m \in DOMAIN kids' \ Nodes
    <3>1. CASE n \in DOMAIN kids' \ Nodes
      BY <1>3, <2>1, <3>1 DEF Anew
    <3>2. CASE n \in InTree(kids) /\ id'[n] = id[n]
      BY <1>3, <2>1, <3>2 DEF Anew
    <3> QED BY <1>2, <3>1, <3>2
  <2>2. CASE m \in InTree(kids) /\ id'[m] = id[m] /\ kind'[m] = kind[m]
    <3>1. CASE n \in DOMAIN kids' \ Nodes
      <4>1. id'[n] > 0 /\ id'[n] = id[m]
        BY <1>3, <2>2
      <4> QED BY <2>2, <3>1, <4>1 DEF Anew
    <3>2. CASE n \in InTree(kids) /\ id'[n] = id[n] /\ kind'[n] = kind[n]
      BY <1>3, <2>2, <3>2 DEF Distinct
    <3> QED BY <1>2, <3>1, <3>2
  <2> QED BY <1>2, <2>1, <2>2
<1> QED BY <1>3 DEF Distinct

LEMMA NewIs ==
    ASSUME Formed(kids, kind), Formed(kids', kind'), NEW m \in DOMAIN kids' \ Nodes
    PROVE  \E i \in 1..Len(kids') - Len(kids) : m = Len(kids) + i
<1>1. /\ Len(kids) \in Nat /\ Nodes = 1..Len(kids) /\ DOMAIN kids' = 1..Len(kids') /\ Len(kids') \in Nat
  BY TreeIs DEF Formed, Nodes
<1>2. m - Len(kids) \in 1..Len(kids') - Len(kids) /\ m = Len(kids) + (m - Len(kids))
  BY <1>1
<1> QED BY <1>2

LEMMA MakesAnew ==
    ASSUME Formed(kids, kind), Described, NEW new \in Seq(Kinds), Makes(new), NEW touched, Effect(touched)
    PROVE  Anew
<1>1. Len(id') = Len(kids) + Len(new) /\ Len(kids') = Len(id') /\ Len(new) \in Nat
      /\ \A i \in 1..Len(new) : id'[Len(kids) + i] = 0
  BY MakesIs, LenProperties DEF Effect, Described
<1>2. Formed(kids', kind')
  BY DEF Effect
<1>3. ASSUME NEW m \in DOMAIN kids' \ Nodes PROVE id'[m] = 0
  <2>1. PICK i \in 1..Len(kids') - Len(kids) : m = Len(kids) + i
    BY <1>2, NewIs
  <2>2. Len(kids) \in Nat
    BY TreeIs DEF Formed
  <2> QED BY <1>1, <2>1, <2>2
<1>4. ASSUME NEW m \in DOMAIN kids' \ Nodes PROVE ~(id'[m] > 0)
  BY <1>3
<1> QED BY <1>4 DEF Anew

LEMMA CopyAnew ==
    ASSUME Formed(kids, kind), Described, NEW touched, Effect(touched),
           NEW src, NEW p, NEW k, NEW wrap, Copied(src, p, k, wrap)
    PROVE  Anew
<1>1. PICK f, none : /\ Renewed(src, f) /\ Trailed(Nat, id, f, none, id')
                     /\ Len(none) = Len(wrap) /\ \A i \in 1..Len(wrap) : none[i] = 0
  BY DEF Copied, Copies
<1>2. src \in Seq(Nodes) /\ Len(src) \in Nat /\ f \in Seq(Nat) /\ Len(f) = Len(src) /\ Len(id) = Len(kids)
      /\ DOMAIN f = 1..Len(src) /\ \A i \in 1..Len(src) : f[i] \in Nat
  BY <1>1, LenProperties, ElementOfSeq DEF Copied, Renewed, Described
<1>3. wrap \in Seq(Kinds) /\ Len(wrap) \in Nat
  <2>1. CASE k \in Inline
    BY <2>1, WrappingIs DEF Copied
  <2>2. CASE k \notin Inline
    BY <2>2 DEF Copied
  <2> QED BY <2>1, <2>2
<1>4. Len(kids') = Len(kids) + (Len(src) + Len(wrap)) /\ Len(kids) \in Nat
  BY TreeIs DEF Copied, Formed
<1>5. ASSUME NEW m \in DOMAIN kids' \ Nodes, id'[m] > 0
      PROVE  \E i \in 1..Len(src) : m = Len(kids) + i /\ id'[m] = f[i] /\ f[i] > 0
  <2>1. PICK i \in 1..Len(src) + Len(wrap) : m = Len(kids) + i
    <3>1. PICK i \in 1..Len(kids') - Len(kids) : m = Len(kids) + i
      BY NewIs DEF Effect
    <3> QED BY <1>2, <1>3, <1>4, <3>1
  <2>2. CASE i <= Len(src)
    <3>1. i \in 1..Len(src)
      BY <1>2, <2>2
    <3> QED BY <1>1, <1>2, <1>5, <2>1, <3>1 DEF Trailed
  <2>3. CASE i > Len(src)
    <3>1. PICK j : j = i - Len(src)
      OBVIOUS
    <3>2. j \in 1..Len(wrap) /\ m = Len(kids) + Len(src) + j
      BY <1>2, <1>3, <1>4, <2>1, <2>3, <3>1
    <3>3. id'[m] = 0
      BY <1>1, <1>2, <3>2 DEF Trailed
    <3> QED BY <1>5, <3>3
  <2> QED BY <1>2, <1>3, <2>1, <2>2, <2>3
<1>6. Highest \in Nat /\ \A o \in InTree(kids) : id[o] <= Highest /\ id[o] \in Nat
  <2>1. \A o \in InTree(kids) : o \in DOMAIN id
    BY TreeIs, InTreeIs, LenProperties DEF Formed, Described
  <2> QED BY <2>1, HighestIs, ElementOfSeq, LenProperties DEF Described
<1>7. ASSUME NEW m \in DOMAIN kids' \ Nodes, id'[m] > 0
      PROVE  /\ \A o \in InTree(kids) : id'[m] # id[o]
             /\ \A x \in DOMAIN kids' \ Nodes : id'[x] = id'[m] => x = m
  <2>1. PICK i \in 1..Len(src) : m = Len(kids) + i /\ id'[m] = f[i] /\ f[i] > 0
    BY <1>5, <1>7
  <2>2. id'[m] > Highest /\ id'[m] \in Nat
    BY <1>1, <1>2, <2>1 DEF Renewed
  <2>3. \A o \in InTree(kids) : id'[m] # id[o]
    BY <1>6, <2>2
  <2>4. ASSUME NEW x \in DOMAIN kids' \ Nodes, id'[x] = id'[m] PROVE x = m
    <3>1. PICK j \in 1..Len(src) : x = Len(kids) + j /\ id'[x] = f[j]
      BY <1>5, <1>7, <2>4
    <3>2. i = j
      BY <1>1, <2>1, <2>4, <3>1 DEF Renewed
    <3> QED BY <2>1, <3>1, <3>2
  <2> QED BY <2>3, <2>4
<1> QED BY <1>7 DEF Anew

LEMMA FunctionIsSeq ==
    ASSUME NEW S, NEW n \in Nat, NEW f \in [1..n -> S]
    PROVE  f \in Seq(S) /\ Len(f) = n
OBVIOUS

LEMMA CommandsInit == Init => CommandsInv
<1> SUFFICES ASSUME Init PROVE CommandsInv
  OBVIOUS
<1>1. PICK d \in Documents :
         /\ kids = d.kids /\ kind = d.kind
         /\ id = [n \in Nodes |->
                     IF /\ kind[n] \in {"paragraph", "table", "picture", "note"}
                        /\ \A m \in Nodes : kind[m] = "note" => n \notin Inside(kids, m)
                     THEN n ELSE 0]
         /\ shape = [n \in Nodes |-> IF n \in d.spans THEN "spans" ELSE IF n \in d.covered THEN "covered" ELSE "full"]
         /\ addr = [n \in Nodes |-> IF kind[n] = "row" THEN IndexOf(kids[Up(kids, n)], n) ELSE 0]
         /\ cached = {n \in Nodes : kind[n] = "paragraph"}
         /\ count = 0
         /\ last = [op |-> "none", node |-> 0, into |-> 0, pos |-> At("append", 0)]
  BY DEF Init
<1>2. /\ IsTree(kids) /\ InTree(kids) = Nodes /\ kind \in [Nodes -> Kinds] /\ kind[Section] = "section"
      /\ \A m \in Nodes : /\ \A n \in ToSet(kids[m]) : kind[m] \in Holders(kind[n])
                          /\ kind[m] = "ctrl" => kids[m] # <<>>
  <2>1. IsDocument(d)
    BY <1>1, CommandsAssumption
  <2> QED BY <1>1, <2>1 DEF IsDocument, Nodes
<1>3. Len(kids) \in Nat /\ Nodes = 1..Len(kids) /\ \A m \in Nodes : ToSet(kids[m]) \subseteq Nodes
  BY <1>2, TreeIs DEF Nodes
<1>4. Fits(kids, kind)
  BY <1>2, <1>3 DEF Fits, Nodes
<1>5. Hung(kids)
  BY <1>2 DEF Hung, Nodes
<1>6. kind \in Seq(Kinds) /\ Len(kind) = Len(kids)
  BY <1>2, <1>3
<1>7. Formed(kids, kind)
  BY <1>2, <1>4, <1>5, <1>6 DEF Formed
<1>8. ASSUME NEW n \in Nodes PROVE addr[n] \in Nat
  <2>1. CASE kind[n] = "row"
    <3>1. n \in InTree(kids) /\ kind[n] # "section"
      BY <1>2, <2>1
    <3>2. Up(kids, n) \in Nodes /\ n \in ToSet(kids[Up(kids, n)])
      BY <1>7, <3>1, HeldBy
    <3>3. kids[Up(kids, n)] \in Seq(Nodes)
      BY <1>2, <3>2, TreeIs DEF Nodes
    <3>4. IndexOf(kids[Up(kids, n)], n) \in DOMAIN kids[Up(kids, n)]
      BY <3>2, IndexOfIs
    <3>5. DOMAIN kids[Up(kids, n)] = 1..Len(kids[Up(kids, n)]) /\ Len(kids[Up(kids, n)]) \in Nat
      BY <3>3, LenProperties
    <3>6. IndexOf(kids[Up(kids, n)], n) \in Nat
      BY <3>4, <3>5
    <3> QED BY <1>1, <2>1, <3>6
  <2>2. CASE kind[n] # "row"
    BY <1>1, <2>2
  <2> QED BY <2>1, <2>2
<1>9. /\ id \in Seq(Nat) /\ Len(id) = Len(kids)
      /\ shape \in Seq(Shapes) /\ Len(shape) = Len(kids)
      /\ addr \in Seq(Nat) /\ Len(addr) = Len(kids)
  <2>1. id \in [1..Len(kids) -> Nat]
    BY <1>1, <1>3
  <2>2. shape \in [1..Len(kids) -> Shapes]
    BY <1>1, <1>3 DEF Shapes
  <2>3. addr \in [1..Len(kids) -> Nat]
    <3>1. DOMAIN addr = Nodes /\ addr = [n \in Nodes |-> addr[n]]
      BY <1>1
    <3> QED BY <1>3, <1>8, <3>1
  <2> QED BY <1>3, <2>1, <2>2, <2>3, FunctionIsSeq
<1>10. Described
  BY <1>1, <1>9 DEF Described
<1>11. Distinct
  <2>1. ASSUME NEW m \in Nodes, id[m] > 0 PROVE id[m] = m
    <3>1. kind[m] \in {"paragraph", "table", "picture", "note"} \/ id[m] = 0
      BY <1>1
    <3>2. id[m] # 0
      BY <2>1
    <3> QED BY <1>1, <3>1, <3>2
  <2>2. ASSUME NEW m \in InTree(kids), NEW n \in InTree(kids), id[m] = id[n], id[m] > 0 PROVE m = n
    BY <1>2, <2>1, <2>2
  <2> QED BY <2>2 DEF Distinct
<1>12. count \in 0..MaxCommands
  BY <1>1, CommandsAssumption
<1>13. last \in [op : Ops, node : Nat, into : Nat, pos : Place]
  BY <1>1 DEF Ops, Place, Modes, At
<1> QED BY <1>7, <1>10, <1>11, <1>12, <1>13 DEF CommandsInv

LEMMA RecordsIs ==
    ASSUME CommandsInv, count < MaxCommands, NEW op \in Ops, NEW n \in Nat, NEW p \in Nat, NEW pos \in Place,
           Records(op, n, p, pos)
    PROVE  count' \in 0..MaxCommands /\ last' \in [op : Ops, node : Nat, into : Nat, pos : Place]
BY CommandsAssumption DEF CommandsInv, Records

\* What every command does.
Stepped == (\E touched : Effect(touched)) /\ Anew
           /\ count' \in 0..MaxCommands /\ last' \in [op : Ops, node : Nat, into : Nat, pos : Place]

LEMMA AddStep ==
    ASSUME CommandsInv, count < MaxCommands, NEW k \in {"paragraph", "run", "table", "row"}, NEW p \in InTree(kids),
           NEW pos \in Positions(Siblings(kids, p, k)), AddNode(k, p, pos)
    PROVE  Stepped
<1>1. Formed(kids, kind) /\ Described /\ IsTree(kids) /\ Len(kids) \in Nat /\ p \in Nat
  BY TreeIs, InTreeIs DEF CommandsInv, Formed
<1>2. Effect({p})
  <2>1. CASE k = "paragraph" /\ AddParagraph(p, pos)
    BY <1>1, <2>1, AddParagraphEffect
  <2>2. CASE k = "run" /\ AddRun(p, pos)
    BY <1>1, <2>2, AddRunEffect
  <2>3. CASE k = "table" /\ AddTable(p, pos)
    BY <1>1, <2>3, AddTableEffect
  <2>4. CASE k = "row" /\ AddRow(p, pos)
    BY <1>1, <2>4, AddRowEffect
  <2> QED BY <2>1, <2>2, <2>3, <2>4 DEF AddNode
<1>3. \E new \in Seq(Kinds) : Makes(new)
  <2>1. /\ <<"paragraph", "run", "text">> \in Seq(Kinds) /\ <<"run", "text">> \in Seq(Kinds)
        /\ <<"table", "row", "run">> \in Seq(Kinds) /\ <<"row">> \in Seq(Kinds)
    BY DEF Kinds, Addressable, Direct, Inline
  <2> QED BY <2>1 DEF AddNode, AddParagraph, AddRun, AddTable, AddRow
<1>4. Anew
  BY <1>1, <1>2, <1>3, MakesAnew
<1>5. pos \in Place
  <2>1. p \in DOMAIN kids
    BY <1>1, InTreeIs
  <2>2. Siblings(kids, p, k) \in Seq(DOMAIN kids) /\ DOMAIN kids \in SUBSET Nat
    BY <1>1, <2>1, SiblingsAre, NodesAre
  <2> QED BY <2>2, PositionsAre
<1>6. Records("add", New, p, pos) /\ New \in Nat /\ "add" \in Ops
  BY <1>1 DEF AddNode, New, Ops
<1>7. count' \in 0..MaxCommands /\ last' \in [op : Ops, node : Nat, into : Nat, pos : Place]
  BY <1>1, <1>5, <1>6, RecordsIs
<1> QED BY <1>2, <1>4, <1>7 DEF Stepped

LEMMA RemoveStep ==
    ASSUME CommandsInv, count < MaxCommands, NEW n \in InTree(kids), RemoveNode(n)
    PROVE  Stepped
<1>1. Formed(kids, kind) /\ Described /\ n \in Nat
  BY TreeIs, InTreeIs DEF CommandsInv, Formed
<1>2. UNCHANGED <<kind, id, shape>> /\ (RemoveInline(n) \/ RemoveParagraph(n) \/ RemoveRow(n))
      /\ Records("remove", n, 0, At("append", 0))
  BY DEF RemoveNode
<1>3. PICK touched : Effect(touched) /\ DOMAIN kids' = Nodes
  <2>1. CASE RemoveInline(n)
    BY <1>1, <1>2, <2>1, RemoveInlineEffect
  <2>2. CASE RemoveParagraph(n)
    BY <1>1, <1>2, <2>2, RemoveParagraphEffect
  <2>3. CASE RemoveRow(n)
    BY <1>1, <1>2, <2>3, RemoveRowEffect
  <2> QED BY <1>2, <2>1, <2>2, <2>3
<1>4. Anew
  BY <1>3 DEF Anew
<1>5. At("append", 0) \in Place /\ "remove" \in Ops
  BY DEF At, Place, Modes, Ops
<1>6. count' \in 0..MaxCommands /\ last' \in [op : Ops, node : Nat, into : Nat, pos : Place]
  BY <1>1, <1>2, <1>5, RecordsIs
<1> QED BY <1>3, <1>4, <1>6 DEF Stepped

LEMMA MoveStep ==
    ASSUME CommandsInv, count < MaxCommands, NEW n \in InTree(kids), NEW p \in InTree(kids),
           kind[p] = Home(kind[n]), NEW pos \in Positions(Siblings(kids, p, kind[n])), MoveNode(n, p, pos)
    PROVE  Stepped
<1>1. Formed(kids, kind) /\ Described /\ IsTree(kids) /\ p \in Nat /\ n \in Nat /\ p \in DOMAIN kids
  BY TreeIs, InTreeIs DEF CommandsInv, Formed
<1>2. Movable(n, p) /\ (MoveDirect(n, p, pos) \/ MoveInline(n, p, pos)) /\ Records("move", n, p, pos)
  BY DEF MoveNode
<1>3. (\E touched : Effect(touched)) /\ Anew
  <2>1. CASE MoveDirect(n, p, pos)
    <3>1. Effect({Up(kids, n), p}) /\ DOMAIN kids' = Nodes
      BY <1>1, <1>2, <2>1, MoveDirectEffect
    <3> QED BY <3>1 DEF Anew
  <2>2. CASE MoveInline(n, p, pos)
    <3>1. PICK touched : Effect(touched)
      BY <1>1, <1>2, <2>2, MoveInlineEffect
    <3>2. PICK new : new = <<"run">>
      OBVIOUS
    <3>3. new \in Seq(Kinds) /\ Makes(new)
      BY <2>2, <3>2 DEF MoveInline, Kinds, Addressable, Direct, Inline
    <3> QED BY <1>1, <3>1, <3>3, MakesAnew
  <2> QED BY <1>2, <2>1, <2>2
<1>4. pos \in Place /\ "move" \in Ops
  <2>1. Siblings(kids, p, kind[n]) \in Seq(DOMAIN kids) /\ DOMAIN kids \in SUBSET Nat
    BY <1>1, SiblingsAre, NodesAre
  <2> QED BY <2>1, PositionsAre DEF Ops
<1>5. count' \in 0..MaxCommands /\ last' \in [op : Ops, node : Nat, into : Nat, pos : Place]
  BY <1>1, <1>2, <1>4, RecordsIs
<1> QED BY <1>3, <1>5 DEF Stepped

LEMMA CopyStep ==
    ASSUME CommandsInv, count < MaxCommands, NEW n \in InTree(kids), NEW p \in InTree(kids), kind[n] \in Addressable,
           kind[p] = Home(kind[n]), NEW pos \in Positions(Siblings(kids, p, kind[n])), CopyNode(n, p, pos)
    PROVE  Stepped
<1>1. Formed(kids, kind) /\ Described /\ IsTree(kids) /\ p \in Nat /\ New \in Nat /\ p \in DOMAIN kids
  BY TreeIs, InTreeIs DEF CommandsInv, Formed, New
<1>2. Effect({p})
  BY <1>1, CopyIs
<1>3. PICK wrap : Copied(Below(kids, n), p, kind[n], wrap)
  BY <1>1, CopyIs
<1>4. Anew
  BY <1>1, <1>2, <1>3, CopyAnew
<1>5. pos \in Place /\ "copy" \in Ops /\ Records("copy", New, p, pos)
  <2>1. Siblings(kids, p, kind[n]) \in Seq(DOMAIN kids) /\ DOMAIN kids \in SUBSET Nat
    BY <1>1, SiblingsAre, NodesAre
  <2> QED BY <2>1, PositionsAre DEF Ops, CopyNode
<1>6. count' \in 0..MaxCommands /\ last' \in [op : Ops, node : Nat, into : Nat, pos : Place]
  BY <1>1, <1>5, RecordsIs
<1> QED BY <1>2, <1>4, <1>6 DEF Stepped

\* What is projected is in the tree.
LEMMA NextIs ==
    ASSUME Next
    PROVE  /\ count < MaxCommands
           /\ \/ \E k \in {"paragraph", "run", "table", "row"}, p \in InTree(kids) :
                    /\ kind[p] = Home(k)
                    /\ \E pos \in Positions(Siblings(kids, p, k)) : AddNode(k, p, pos)
              \/ \E n \in InTree(kids) : RemoveNode(n)
              \/ \E n, p \in InTree(kids) :
                    /\ kind[n] \in Addressable
                    /\ kind[p] = Home(kind[n])
                    /\ \E pos \in Positions(Siblings(kids, p, kind[n])) : MoveNode(n, p, pos) \/ CopyNode(n, p, pos)
<1>1. Projected \subseteq InTree(kids)
  BY DEF Projected
<1> QED BY <1>1 DEF Next

LEMMA CommandsStep == CommandsInv /\ [Next]_vars => CommandsInv'
<1> SUFFICES ASSUME CommandsInv, [Next]_vars PROVE CommandsInv'
  OBVIOUS
<1>1. CASE UNCHANGED vars
  BY <1>1 DEF vars, CommandsInv, Formed, Described, Distinct, Nodes
<1>2. CASE Next
  <2>1. Stepped
    <3>1. CASE \E k \in {"paragraph", "run", "table", "row"}, p \in InTree(kids) :
                  /\ kind[p] = Home(k)
                  /\ \E pos \in Positions(Siblings(kids, p, k)) : AddNode(k, p, pos)
      BY <1>2, <3>1, AddStep, NextIs
    <3>2. CASE \E n \in InTree(kids) : RemoveNode(n)
      BY <1>2, <3>2, RemoveStep, NextIs
    <3>3. CASE \E n, p \in InTree(kids) :
                  /\ kind[n] \in Addressable
                  /\ kind[p] = Home(kind[n])
                  /\ \E pos \in Positions(Siblings(kids, p, kind[n])) : MoveNode(n, p, pos) \/ CopyNode(n, p, pos)
      BY <1>2, <3>3, MoveStep, CopyStep, NextIs
    <3> QED BY <1>2, <3>1, <3>2, <3>3, NextIs
  <2>2. Formed(kids, kind) /\ Distinct
    BY DEF CommandsInv
  <2>3. Distinct'
    BY <2>1, <2>2, DistinctStays DEF Stepped
  <2>4. Formed(kids', kind') /\ Described'
    BY <2>1 DEF Stepped, Effect
  <2> QED BY <2>1, <2>3, <2>4 DEF CommandsInv, Stepped
<1> QED BY <1>1, <1>2

\* Whatever commands a batch has, the records of the nodes have their types: the
\* children of every node are nodes, and each node has a kind, an identity and
\* an address (add_node, remove_node, move_node, copy_node).
THEOREM CommandsTypeOK == Spec => []TypeOK
<1>1. CommandsInv => TypeOK
  <2> SUFFICES ASSUME CommandsInv PROVE TypeOK
    OBVIOUS
  <2>1. Formed(kids, kind) /\ Described /\ Nodes = 1..Len(kids) /\ Len(kids) \in Nat
    BY TreeIs DEF CommandsInv, Formed, Nodes
  <2>2. kids \in Seq(Seq(Nodes)) /\ cached \subseteq Nodes
    BY <2>1 DEF Formed, IsTree, Nodes, Described
  <2>3. kind \in [Nodes -> Kinds] /\ id \in [Nodes -> Nat] /\ shape \in [Nodes -> Shapes] /\ addr \in [Nodes -> Nat]
    BY <2>1, LenProperties, ElementOfSeq DEF Formed, Described
  <2> QED BY <2>2, <2>3 DEF CommandsInv, TypeOK
<1> QED BY <1>1, CommandsInit, CommandsStep, PTL DEF Spec

\* Whatever is added, removed, moved and copied, in any document and any number
\* of commands, no identity of a kind is there twice outside of notes, whose inside
\* has no identity here and is copied as it is, a note is in a control and no control
\* is empty (_refresh_copy_identities, _remove_inline_element, _insert_inline).
THEOREM CommandsSoundDocument == Spec => []SoundDocument
<1>1. CommandsInv => SoundDocument
  <2> SUFFICES ASSUME CommandsInv PROVE SoundDocument
    OBVIOUS
  <2>1. Formed(kids, kind) /\ Distinct /\ Fits(kids, kind)
    BY DEF CommandsInv, Formed
  <2>2. ASSUME NEW n \in Each("note") PROVE kind[Up(kids, n)] = "ctrl"
    <3>1. n \in InTree(kids) /\ kind[n] = "note"
      BY DEF Each
    <3>2. kind[Up(kids, n)] \in Holders("note")
      BY <2>1, <3>1, HeldBy
    <3> QED BY <3>2 DEF Holders
  <2>3. ASSUME NEW c \in Each("ctrl") PROVE kids[c] # <<>>
    <3>1. c \in InTree(kids) /\ kind[c] = "ctrl"
      BY DEF Each
    <3>2. Up(kids, c) \in Nodes /\ c \in ToSet(kids[Up(kids, c)])
      BY <2>1, <3>1, HeldBy
    <3> QED BY <2>1, <3>1, <3>2 DEF Fits, Nodes
  <2> QED BY <2>1, <2>2, <2>3 DEF SoundDocument, Distinct
<1> QED BY <1>1, CommandsInit, CommandsStep, PTL DEF Spec

-----------------------------------------------------------------------------
(* The lines of a paragraph.                                                   *)

\* No touched node is p, a run of p or a control in one.
Calm(touched, p) ==
    /\ p \notin touched
    /\ \A r \in ToSet(kids[p]) : kind[r] = "run" =>
          /\ r \notin touched
          /\ \A c \in ToSet(kids[r]) : kind[c] = "ctrl" => c \notin touched

LEMMA OpenedStays ==
    ASSUME NEW S \in SUBSET Nat, NEW s \in Seq(S), NEW k,
           \A m \in ToSet(s) : kind'[m] = kind[m] /\ (kind[m] = k => kids'[m] = kids[m])
    PROVE  Opened(kids, k)'[s] = Opened(kids, k)[s]
<1>1. s \in Seq(Nat) /\ \A i \in DOMAIN s : s[i] \in ToSet(s)
  <2>1. s \in Seq(Nat)
    <3>1. Len(s) \in Nat /\ s \in [1..Len(s) -> S]
      OBVIOUS
    <3>2. s \in [1..Len(s) -> Nat]
      BY <3>1
    <3> QED BY <3>1, <3>2, FunctionIsSeq
  <2> QED BY <2>1 DEF ToSet
<1>2. PICK f : f = [i \in DOMAIN s |-> IF kind[s[i]] = k THEN kids[s[i]] ELSE <<s[i]>>]
  OBVIOUS
<1>3. PICK g : g = [i \in DOMAIN s |-> IF kind'[s[i]] = k THEN kids'[s[i]] ELSE <<s[i]>>]
  OBVIOUS
<1>4. ASSUME NEW i \in DOMAIN s PROVE f[i] = g[i]
  BY <1>1, <1>2, <1>3
<1>5. f = g
  BY <1>2, <1>3, <1>4
<1>6. Opened(kids, k)[s] = FlattenSeq(f)
  BY <1>1, <1>2 DEF Opened
<1>7. Opened(kids, k)'[s] = FlattenSeq(g)
  BY <1>1, <1>3 DEF Opened
<1> QED BY <1>5, <1>6, <1>7

LEMMA LineStays ==
    ASSUME Formed(kids, kind), NEW touched, Effect(touched), NEW p \in InTree(kids) \cap InTree(kids'),
           kind[p] = "paragraph", Calm(touched, p)
    PROVE  Line(p)' = Line(p)
<1>1. IsTree(kids) /\ IsTree(kids')
  BY DEF Formed, Effect
<1>2. DOMAIN kids \in SUBSET Nat /\ \A m \in DOMAIN kids : kids[m] \in Seq(DOMAIN kids) /\ ToSet(kids[m]) \subseteq DOMAIN kids
  BY <1>1, TreeIs, NodesAre
<1>3. ASSUME NEW m \in Nodes \cap InTree(kids'), m \notin touched
      PROVE  kids'[m] = kids[m] /\ \A x \in ToSet(kids[m]) : x \in Nodes \cap InTree(kids') /\ kind'[x] = kind[x]
  <2>1. kids'[m] = kids[m] /\ m \in DOMAIN kids'
    BY <1>3 DEF Effect
  <2>2. ASSUME NEW x \in ToSet(kids[m]) PROVE x \in Nodes \cap InTree(kids')
    <3>1. x \in ToSet(kids'[m])
      BY <2>1
    <3> QED BY <1>1, <1>2, <2>1, <3>1, InTreeIs DEF Nodes
  <2> QED BY <2>1, <2>2 DEF Effect
<1>4. p \in Nodes \cap InTree(kids') /\ p \in DOMAIN kids
  BY <1>1, InTreeIs DEF Nodes
<1>5. kids'[p] = kids[p] /\ \A r \in ToSet(kids[p]) : r \in Nodes \cap InTree(kids') /\ kind'[r] = kind[r]
  BY <1>3, <1>4 DEF Calm
<1>6. \A r \in ToSet(kids[p]) : kind[r] = "run" => kids'[r] = kids[r]
  BY <1>3, <1>5 DEF Calm
<1>7. PICK s : s = kids[p]
  OBVIOUS
<1>8. s \in Seq(DOMAIN kids)
  BY <1>2, <1>4, <1>7
<1>9. Opened(kids, "run")'[s] = Opened(kids, "run")[s]
  BY <1>2, <1>5, <1>6, <1>7, <1>8, OpenedStays
<1>10. PICK o : o = Opened(kids, "run")[s]
  OBVIOUS
<1>11. o \in Seq(DOMAIN kids) /\ \A x : x \in ToSet(o) <=> Found(kids, "run", s, x)
  BY <1>2, <1>8, <1>10, OpenedIs
<1>12. ASSUME NEW c \in ToSet(o) PROVE kind'[c] = kind[c] /\ (kind[c] = "ctrl" => kids'[c] = kids[c])
  <2>1. Found(kids, "run", s, c)
    BY <1>11
  <2>2. PICK r \in ToSet(kids[p]) : IF kind[r] = "run" THEN c \in ToSet(kids[r]) ELSE c = r
    BY <1>7, <2>1 DEF Found
  <2>3. CASE kind[r] = "run"
    <3>1. r \notin touched /\ c \in ToSet(kids[r]) /\ r \in Nodes \cap InTree(kids')
      BY <1>5, <2>2, <2>3 DEF Calm
    <3>2. c \in Nodes \cap InTree(kids') /\ kind'[c] = kind[c]
      BY <1>3, <3>1
    <3>3. kind[c] = "ctrl" => c \notin touched
      BY <2>3, <3>1 DEF Calm
    <3> QED BY <1>3, <3>2, <3>3
  <2>4. CASE kind[r] # "run"
    <3>1. c \in ToSet(kids[p]) /\ c \in Nodes
      BY <1>5, <2>2, <2>4
    <3>2. kind[c] # "ctrl"
      <4>1. kind[p] \in Holders(kind[c])
        BY <1>4, <3>1 DEF Formed, Fits
      <4>2. Holders("ctrl") = {"run"}
        BY DEF Holders
      <4> QED BY <4>1, <4>2
    <3> QED BY <1>5, <3>1, <3>2
  <2> QED BY <2>3, <2>4
<1>13. Opened(kids, "ctrl")'[o] = Opened(kids, "ctrl")[o]
  BY <1>2, <1>11, <1>12, OpenedStays
<1>14. Line(p) = Opened(kids, "ctrl")[o]
  BY <1>7, <1>10 DEF Line, Content
<1>15. Line(p)' = Opened(kids, "ctrl")'[Opened(kids, "run")'[kids'[p]]]
  BY DEF Line, Content
<1> QED BY <1>5, <1>7, <1>9, <1>10, <1>13, <1>14, <1>15

\* Every paragraph that keeps its lines is away from what is touched, or the
\* library has appended a table to it.
Appended(p) == last'.op = "add" /\ last'.into = p /\ kind'[last'.node] = "table" /\ last'.pos.mode = "append"
LinesKept ==
    \E touched :
        /\ Effect(touched)
        /\ \A p \in Each("paragraph") \cap cached' : Calm(touched, p) \/ Appended(p)

\* What touches only nodes that are neither a run nor a control.
LEMMA CalmOutside ==
    ASSUME NEW p, NEW touched, p \notin touched, \A m \in touched : kind[m] \notin {"run", "ctrl"}
    PROVE  Calm(touched, p)
BY DEF Calm

LEMMA ParagraphIs ==
    ASSUME CommandsInv, NEW p \in Each("paragraph")
    PROVE  p \in InTree(kids) /\ p \in Nodes /\ kind[p] = "paragraph"
BY InTreeIs DEF CommandsInv, Formed, Each, Nodes

LEMMA AddLines ==
    ASSUME CommandsInv, NEW k \in {"paragraph", "run", "table", "row"}, NEW q \in InTree(kids),
           kind[q] = Home(k), NEW pos \in Positions(Siblings(kids, q, k)), AddNode(k, q, pos)
    PROVE  LinesKept
<1>1. Formed(kids, kind) /\ Described
  BY DEF CommandsInv
<1>2. kind[q] \notin {"run", "ctrl"}
  BY DEF Home, Inline
<1>3. Records("add", New, q, pos)
  BY DEF AddNode
<1>4. Effect({q})
  <2>1. CASE k = "paragraph" /\ AddParagraph(q, pos)
    BY <1>1, <2>1, AddParagraphEffect
  <2>2. CASE k = "run" /\ AddRun(q, pos)
    BY <1>1, <2>2, AddRunEffect
  <2>3. CASE k = "table" /\ AddTable(q, pos)
    BY <1>1, <2>3, AddTableEffect
  <2>4. CASE k = "row" /\ AddRow(q, pos)
    BY <1>1, <2>4, AddRowEffect
  <2> QED BY <2>1, <2>2, <2>3, <2>4 DEF AddNode
<1>5. ASSUME NEW p \in Each("paragraph") \cap cached' PROVE Calm({q}, p) \/ Appended(p)
  <2>1. CASE p # q
    BY <1>2, <2>1, CalmOutside
  <2>2. CASE p = q
    <3>1. kind[q] = "paragraph"
      BY <2>2, ParagraphIs
    <3>2. AddTable(q, pos) /\ pos.mode = "append"
      BY <1>5, <2>2, <3>1 DEF AddNode, AddParagraph, AddRun, AddTable, AddRow
    <3>3. kind'[New] = "table"
      <4>1. PICK new : new = <<"table", "row", "run">>
        OBVIOUS
      <4>2. new \in Seq(Kinds) /\ Len(new) = 3 /\ new[1] = "table" /\ Makes(new)
        BY <3>2, <4>1 DEF AddTable, Kinds, Addressable, Direct, Inline
      <4>3. 1 \in 1..Len(new)
        BY <4>2
      <4> QED BY <1>1, <4>2, <4>3, MakesIs DEF New
    <3> QED BY <1>3, <2>2, <3>2, <3>3 DEF Appended, Records
  <2> QED BY <2>1, <2>2
<1> QED BY <1>4, <1>5 DEF LinesKept

\* The run and the control of an object are in no other paragraph than its own.
LEMMA CalmElsewhere ==
    ASSUME CommandsInv, NEW p \in Nodes, NEW n, NEW a, NEW run, NEW q, Placed(kids, n, a, run, q), p # q,
           kind[p] = "paragraph"
    PROVE  Calm({a, run, q}, p)
<1>1. IsTree(kids)
  BY DEF CommandsInv, Formed
<1>2. /\ a \in Nodes /\ run \in Nodes /\ q \in Nodes /\ run \in ToSet(kids[q])
      /\ kind[run] = "run" /\ kind[q] = "paragraph"
      /\ a = run \/ (kind[a] = "ctrl" /\ a \in ToSet(kids[run]))
  BY DEF Placed, Nodes
<1>3. \A m, o \in Nodes : m # o => ToSet(kids[m]) \cap ToSet(kids[o]) = {}
  BY <1>1, TreeIs DEF Nodes
<1>4. p \notin {a, run, q}
  BY <1>2
<1>5. run \notin ToSet(kids[p])
  BY <1>2, <1>3
<1>6. ASSUME NEW r \in ToSet(kids[p]), kind[r] = "run"
      PROVE  r \notin {a, run, q} /\ \A c \in ToSet(kids[r]) : kind[c] = "ctrl" => c \notin {a, run, q}
  <2>1. r # run /\ r \in Nodes
    BY <1>1, <1>5, TreeIs DEF Nodes
  <2>2. r \notin {a, run, q}
    BY <1>2, <1>6, <2>1
  <2>3. ASSUME NEW c \in ToSet(kids[r]), kind[c] = "ctrl" PROVE c \notin {a, run, q}
    BY <1>2, <1>3, <2>1, <2>3
  <2> QED BY <2>2, <2>3
<1> QED BY <1>4, <1>6 DEF Calm

LEMMA RemoveLines ==
    ASSUME CommandsInv, NEW n \in InTree(kids), RemoveNode(n)
    PROVE  LinesKept
<1>1. Formed(kids, kind) /\ Described /\ IsTree(kids) /\ Fits(kids, kind) /\ Hung(kids) /\ kind[Section] = "section"
  BY DEF CommandsInv, Formed
<1>2. UNCHANGED <<kind, id, shape>>
  BY DEF RemoveNode
<1>3. CASE RemoveInline(n)
  <2>1. PICK touched : touched = {Up(kids, n), RunOf(kids, n), Holder(kids, n)}
    OBVIOUS
  <2>2. Effect(touched)
    BY <1>1, <1>2, <1>3, <2>1, RemoveInlineEffect
  <2>3. kind[n] \in Inline \cup {"run"} /\ cached' = cached \ {Holder(kids, n)}
    BY <1>3 DEF RemoveInline
  <2>4. n \in Nodes /\ Up(kids, n) \in Nodes /\ n \in ToSet(kids[Up(kids, n)]) /\ kind[Up(kids, n)] \in Holders(kind[n])
    BY <1>1, <2>3, HeldBy DEF Inline
  <2>5. ASSUME NEW p \in Each("paragraph") \cap cached' PROVE Calm(touched, p)
    <3>1. p # Holder(kids, n) /\ kind[p] = "paragraph" /\ p \in Nodes
      BY <2>3, <2>5, ParagraphIs
    <3>2. CASE kind[n] = "run"
      <4>1. kind[Up(kids, n)] = "paragraph"
        BY <2>4, <3>2 DEF Holders
      <4>2. RunOf(kids, n) = Up(kids, n) /\ Holder(kids, n) = Up(kids, n)
        BY <3>2, <4>1 DEF RunOf, Holder, Inline
      <4> QED BY <2>1, <3>1, <4>1, <4>2, CalmOutside
    <3>3. CASE kind[n] \in Inline
      <4>1. PICK a : a = Up(kids, n)
        OBVIOUS
      <4>2. PICK run, q : Placed(kids, n, a, run, q)
        BY <1>1, <2>4, <3>3, <4>1, InlineIs DEF Nodes
      <4>3. run = RunOf(kids, n) /\ q = Holder(kids, n)
        BY <4>2 DEF Placed
      <4>4. Calm({a, run, q}, p)
        BY <3>1, <4>2, <4>3, CalmElsewhere
      <4> QED BY <2>1, <4>1, <4>3, <4>4
    <3> QED BY <2>3, <3>2, <3>3
  <2> QED BY <2>2, <2>5 DEF LinesKept
<1>4. ASSUME NEW a, Effect({a}), kind[a] \in Holders("paragraph") \cup Holders("row")
      PROVE  LinesKept
  <2>1. kind[a] \notin {"paragraph", "run", "ctrl"} \/ kind[a] \in {"run", "ctrl", "paragraph"}
    OBVIOUS
  <2>2. ("paragraph" \notin Holders("paragraph") \cup Holders("row")) /\ ("run" \notin Holders("paragraph") \cup Holders("row"))
        /\ "ctrl" \notin Holders("paragraph") \cup Holders("row")
    BY DEF Holders
  <2>3. kind[a] \notin {"paragraph", "run", "ctrl"}
    BY <1>4, <2>2
  <2>4. ASSUME NEW p \in Each("paragraph") \cap cached' PROVE Calm({a}, p)
    BY <2>3, ParagraphIs, CalmOutside
  <2> QED BY <1>4, <2>4 DEF LinesKept
<1>5. CASE RemoveParagraph(n)
  <2>1. kind[n] = "paragraph"
    BY <1>5 DEF RemoveParagraph
  <2>2. kind[Up(kids, n)] \in Holders("paragraph")
    BY <1>1, <2>1, HeldBy
  <2> QED BY <1>1, <1>2, <1>4, <1>5, <2>2, RemoveParagraphEffect
<1>6. CASE RemoveRow(n)
  <2>1. kind[n] = "row"
    BY <1>6 DEF RemoveRow
  <2>2. kind[Up(kids, n)] \in Holders("row")
    BY <1>1, <2>1, HeldBy
  <2> QED BY <1>1, <1>2, <1>4, <1>6, <2>2, RemoveRowEffect
<1> QED BY <1>3, <1>5, <1>6 DEF RemoveNode

LEMMA MoveLines ==
    ASSUME CommandsInv, NEW n \in InTree(kids), NEW q \in InTree(kids),
           kind[q] = Home(kind[n]), NEW pos \in Positions(Siblings(kids, q, kind[n])), MoveNode(n, q, pos)
    PROVE  LinesKept
<1>1. Formed(kids, kind) /\ Described /\ IsTree(kids) /\ Fits(kids, kind) /\ Hung(kids) /\ kind[Section] = "section"
  BY DEF CommandsInv, Formed
<1>2. Movable(n, q) /\ (MoveDirect(n, q, pos) \/ MoveInline(n, q, pos))
  BY DEF MoveNode
<1>3. CASE MoveDirect(n, q, pos)
  <2>1. Effect({Up(kids, n), q})
    BY <1>1, <1>2, <1>3, MoveDirectEffect
  <2>2. kind[n] \in {"paragraph", "row"}
    BY <1>2, <1>3 DEF Movable, MoveDirect, Direct
  <2>3. kind[Up(kids, n)] \in Holders(kind[n])
    BY <1>1, <2>2, HeldBy
  <2>4. /\ Holders("paragraph") = {"section", "row", "note", "other"} /\ Holders("row") = {"table"}
        /\ Home("paragraph") = "section" /\ Home("row") = "table"
    BY DEF Holders, Home, Inline
  <2>5. kind[Up(kids, n)] \notin {"paragraph", "run", "ctrl"} /\ kind[q] \notin {"paragraph", "run", "ctrl"}
    BY <2>2, <2>3, <2>4
  <2>6. ASSUME NEW p \in Each("paragraph") \cap cached' PROVE Calm({Up(kids, n), q}, p)
    BY <2>5, ParagraphIs, CalmOutside
  <2> QED BY <2>1, <2>6 DEF LinesKept
<1>4. CASE MoveInline(n, q, pos)
  <2>1. PICK touched : touched = {Up(kids, n), RunOf(kids, n), Holder(kids, n), q}
    OBVIOUS
  <2>2. Effect(touched)
    BY <1>1, <1>2, <1>4, <2>1, MoveInlineEffect
  <2>3. kind[n] \in Inline /\ cached' = cached \ {Holder(kids, n), q}
    BY <1>4 DEF MoveInline
  <2>4. n \in ToSet(kids[Up(kids, n)]) /\ Up(kids, n) \in DOMAIN kids
    BY <1>1, <2>3, HeldBy DEF Inline, Nodes
  <2>5. PICK a : a = Up(kids, n)
    OBVIOUS
  <2>6. PICK run, o : Placed(kids, n, a, run, o)
    BY <1>1, <2>3, <2>4, <2>5, InlineIs
  <2>7. run = RunOf(kids, n) /\ o = Holder(kids, n)
    BY <2>6 DEF Placed
  <2>8. kind[q] = "paragraph"
    BY <2>3 DEF Home, Inline
  <2>9. ASSUME NEW p \in Each("paragraph") \cap cached' PROVE Calm(touched, p)
    <3>1. p # o /\ p # q /\ kind[p] = "paragraph" /\ p \in Nodes
      BY <2>3, <2>7, <2>9, ParagraphIs
    <3>2. Calm({a, run, o}, p)
      BY <2>6, <3>1, CalmElsewhere
    <3>3. Calm({q}, p)
      BY <2>8, <3>1, CalmOutside
    <3> QED BY <2>1, <2>5, <2>7, <3>2, <3>3 DEF Calm
  <2> QED BY <2>2, <2>9 DEF LinesKept
<1> QED BY <1>2, <1>3, <1>4

LEMMA CopyLines ==
    ASSUME CommandsInv, NEW n \in InTree(kids), NEW q \in InTree(kids), kind[n] \in Addressable,
           kind[q] = Home(kind[n]), NEW pos \in Positions(Siblings(kids, q, kind[n])), CopyNode(n, q, pos)
    PROVE  LinesKept
<1>1. Formed(kids, kind) /\ Described /\ Len(kids) \in Nat /\ Nodes = 1..Len(kids)
  BY TreeIs DEF CommandsInv, Formed, Nodes
<1>2. Effect({q})
  BY <1>1, CopyIs
<1>3. kind[q] \notin {"run", "ctrl"} /\ (kind[q] = "paragraph" => kind[n] \in Inline \cup {"run"})
  BY DEF Home, Addressable, Direct
<1>4. PICK src : src = Below(kids, n)
  OBVIOUS
<1>5. cached' = {m \in cached : kind[n] \in Inline \cup {"run"} => m # q}
                \cup {Len(kids) + i : i \in {j \in DOMAIN src : src[j] \in cached}}
  BY <1>4 DEF CopyNode
<1>6. \A i \in DOMAIN src : Len(kids) + i \notin Nodes
  <2>1. src \in Seq(Nodes)
    BY <1>1, <1>4, InTreeIs, BelowIs DEF Formed, Nodes
  <2>2. Len(src) \in Nat /\ DOMAIN src = 1..Len(src)
    BY <2>1, LenProperties
  <2> QED BY <1>1, <2>2
<1>7. ASSUME NEW p \in Each("paragraph") \cap cached' PROVE Calm({q}, p)
  <2>1. kind[p] = "paragraph" /\ p \in Nodes
    BY ParagraphIs
  <2>2. p # q
    BY <1>3, <1>5, <1>6, <1>7, <2>1
  <2> QED BY <1>3, <2>2, CalmOutside
<1> QED BY <1>2, <1>7 DEF LinesKept

\* A paragraph that still has its layout cache has the content it had, but for a
\* table that the library appends: every command that changes the runs, the
\* controls or the objects of a paragraph drops its line segments
\* (_drop_layout_cache in the handlers of the commands).
THEOREM CommandsLinesMatch == Spec => LinesMatch
<1>1. CommandsInv /\ [Next]_vars =>
         [\A p \in Each("paragraph") \cap cached' \cap InTree(kids') :
             \/ Line(p)' = Line(p)
             \/ last'.op = "add" /\ last'.into = p /\ kind'[last'.node] = "table" /\ last'.pos.mode = "append"]_vars
  <2> SUFFICES ASSUME CommandsInv, Next, NEW p \in Each("paragraph") \cap cached' \cap InTree(kids')
               PROVE  Line(p)' = Line(p) \/ Appended(p)
    BY DEF Appended
  <2>1. LinesKept
    <3>1. CASE \E k \in {"paragraph", "run", "table", "row"}, q \in InTree(kids) :
                  /\ kind[q] = Home(k)
                  /\ \E pos \in Positions(Siblings(kids, q, k)) : AddNode(k, q, pos)
      BY <3>1, AddLines
    <3>2. CASE \E n \in InTree(kids) : RemoveNode(n)
      BY <3>2, RemoveLines
    <3>3. CASE \E n, q \in InTree(kids) :
                  /\ kind[n] \in Addressable
                  /\ kind[q] = Home(kind[n])
                  /\ \E pos \in Positions(Siblings(kids, q, kind[n])) : MoveNode(n, q, pos) \/ CopyNode(n, q, pos)
      BY <3>3, MoveLines, CopyLines
    <3> QED BY <3>1, <3>2, <3>3, NextIs
  <2>2. PICK touched : Effect(touched) /\ (Calm(touched, p) \/ Appended(p))
    BY <2>1 DEF LinesKept
  <2>3. p \in InTree(kids) \cap InTree(kids') /\ kind[p] = "paragraph" /\ Formed(kids, kind)
    BY ParagraphIs DEF CommandsInv
  <2> QED BY <2>2, <2>3, LineStays
<1> QED BY <1>1, CommandsInit, CommandsStep, PTL DEF Spec, LinesMatch

-----------------------------------------------------------------------------
(* The rows of the tables.                                                     *)

InOrder(t, a, b) == \A i \in DOMAIN t[b] : a[t[b][i]] = i

\* A covered row is only where one spans.
Backed(t, sh, b) ==
    (\E x \in ToSet(t[b]) : sh[x] = "covered") => \E x \in ToSet(t[b]) : sh[x] = "spans"

TablesInv == \A b \in Each("table") : InOrder(kids, addr, b) /\ Backed(kids, shape, b)

\* The command puts a row into b.
RowPut(b) == last'.op \in {"add", "move"} /\ last'.into = b

TablesStep ==
    /\ \A m \in Nodes : kind'[m] = kind[m]
    /\ \A b \in InTree(kids') : kind'[b] = "table" =>
          /\ InOrder(kids', addr', b) /\ Backed(kids', shape', b)
          /\ b \in Nodes /\ Whole(b) => Whole(b)' \/ RowPut(b)

\* Neither covered nor spanning.
Plain(t, sh, b) == \A x \in ToSet(t[b]) : sh[x] \notin {"spans", "covered"}

LEMMA PlainIs ==
    ASSUME NEW t, IsTree(t), NEW b \in DOMAIN t, NEW sh, Plain(t, sh, b)
    PROVE  /\ Backed(t, sh, b)
           /\ \A i \in DOMAIN t[b] : sh[t[b][i]] \notin {"spans", "covered"}
BY TreeIs DEF Plain, Backed, ToSet

LEMMA NotMerged ==
    ASSUME CommandsInv, TablesInv, NEW b \in Each("table"), ~Merged(kids, b)
    PROVE  Plain(kids, shape, b)
<1>1. \A x \in ToSet(kids[b]) : shape[x] # "spans"
  BY DEF Merged, ToSet
<1>2. Backed(kids, shape, b)
  BY DEF TablesInv
<1> QED BY <1>1, <1>2 DEF Backed, Plain

LEMMA NumberedIs ==
    ASSUME NEW t, IsTree(t), NEW a, NEW tables, NEW r, Renumbered(t, a, tables, r),
           NEW b \in tables, b \in DOMAIN t
    PROVE  InOrder(t, r, b)
<1>1. t[b] \in Seq(DOMAIN t) /\ IsInjective(t[b])
  BY TreeIs
<1>2. ASSUME NEW i \in DOMAIN t[b] PROVE r[t[b][i]] = i
  <2>1. t[b][i] \in ToSet(t[b])
    BY DEF ToSet
  <2>2. r[t[b][i]] = IndexOf(t[b], t[b][i])
    BY <2>1 DEF Renumbered
  <2>3. IndexOf(t[b], t[b][i]) \in DOMAIN t[b] /\ t[b][IndexOf(t[b], t[b][i])] = t[b][i]
    BY <2>1, IndexOfIs
  <2> QED BY <1>1, <2>2, <2>3 DEF IsInjective
<1> QED BY <1>2 DEF InOrder

\* What is to be shown of a command that numbers the rows of some tables.
LEMMA TablesFrom ==
    ASSUME CommandsInv, TablesInv, NEW touched, Effect(touched), NEW tables,
           \A m \in touched : kind[m] = "table" => m \in tables,
           \A b \in tables : /\ b \in Nodes /\ InOrder(kids', addr', b) /\ Backed(kids', shape', b)
                             /\ Whole(b) => Whole(b)' \/ RowPut(b),
           \A x \in Nodes : (\E b \in tables : x \in ToSet(kids'[b])) \/ addr'[x] = addr[x],
           \A b \in DOMAIN kids' \ Nodes : kind'[b] = "table" => InOrder(kids', addr', b) /\ Backed(kids', shape', b)
    PROVE  TablesStep
<1>1. IsTree(kids) /\ IsTree(kids') /\ Nodes \subseteq DOMAIN kids'
  BY DEF CommandsInv, Formed, Effect
<1>2. ASSUME NEW b \in InTree(kids'), kind'[b] = "table", b \in Nodes, b \notin tables
      PROVE  InOrder(kids', addr', b) /\ Backed(kids', shape', b) /\ (Whole(b) => Whole(b)')
  <2>1. kind[b] = "table" /\ b \in InTree(kids)
    BY <1>2 DEF Effect, Nodes
  <2>2. kids'[b] = kids[b]
    BY <1>2, <2>1 DEF Effect
  <2>3. InOrder(kids, addr, b) /\ Backed(kids, shape, b)
    BY <2>1 DEF TablesInv, Each
  <2>4. ASSUME NEW x \in ToSet(kids[b]) PROVE x \in Nodes /\ shape'[x] = shape[x] /\ addr'[x] = addr[x]
    <3>1. x \in Nodes
      BY <1>1, <1>2, TreeIs DEF Nodes
    <3>2. ASSUME NEW d \in tables PROVE x \notin ToSet(kids'[d])
      <4>1. d # b /\ d \in DOMAIN kids' /\ b \in DOMAIN kids'
        BY <1>1, <1>2
      <4>2. x \in ToSet(kids'[b])
        BY <2>2
      <4> QED BY <1>1, <4>1, <4>2, TreeIs
    <3> QED BY <3>1, <3>2 DEF Effect
  <2>5. \A i \in DOMAIN kids[b] : kids[b][i] \in ToSet(kids[b])
    BY DEF ToSet
  <2>6. InOrder(kids', addr', b)
    BY <2>2, <2>3, <2>4, <2>5 DEF InOrder
  <2>7. Backed(kids', shape', b)
    BY <2>2, <2>3, <2>4 DEF Backed
  <2>8. ASSUME Whole(b) PROVE Whole(b)'
    <3>1. DOMAIN kids[b] = 1..Len(kids[b]) /\ Len(kids[b]) \in Nat
      BY <1>1, <1>2, TreeIs, LenProperties DEF Nodes
    <3>2. \A i \in DOMAIN kids[b] : shape'[kids[b][i]] = shape[kids[b][i]]
      BY <2>4, <2>5
    <3>3. ASSUME NEW i \in DOMAIN kids[b]
          PROVE  /\ shape'[kids[b][i]] = "spans" => i < Len(kids[b]) /\ shape'[kids[b][i + 1]] = "covered"
                 /\ shape'[kids[b][i]] = "covered" => i > 1 /\ shape'[kids[b][i - 1]] = "spans"
      <4>1. i < Len(kids[b]) => i + 1 \in DOMAIN kids[b]
        BY <3>1
      <4>2. i > 1 => i - 1 \in DOMAIN kids[b]
        BY <3>1
      <4> QED BY <2>8, <3>2, <4>1, <4>2 DEF Whole
    <3> QED BY <2>2, <3>3 DEF Whole
  <2> QED BY <2>6, <2>7, <2>8
<1>3. ASSUME NEW b \in InTree(kids'), kind'[b] = "table"
      PROVE  /\ InOrder(kids', addr', b) /\ Backed(kids', shape', b)
             /\ b \in Nodes /\ Whole(b) => Whole(b)' \/ RowPut(b)
  <2>1. b \in DOMAIN kids'
    BY <1>1, InTreeIs
  <2>2. CASE b \in tables
    BY <2>2
  <2>3. CASE b \in Nodes /\ b \notin tables
    BY <1>2, <1>3, <2>3
  <2>4. CASE b \notin Nodes
    BY <1>3, <2>1, <2>4
  <2> QED BY <2>2, <2>3, <2>4
<1> QED BY <1>3 DEF TablesStep, Effect

\* No table among what is touched, and no new one.
LEMMA TablesAside ==
    ASSUME CommandsInv, TablesInv, NEW touched, Effect(touched), \A m \in touched : kind[m] # "table",
           \A x \in Nodes : addr'[x] = addr[x],
           \A b \in DOMAIN kids' \ Nodes : kind'[b] # "table"
    PROVE  TablesStep
<1>1. PICK tables : tables = {}
  OBVIOUS
<1> QED BY <1>1, TablesFrom

LEMMA MakesKinds ==
    ASSUME Formed(kids, kind), Described, NEW new \in Seq(Kinds), Makes(new), NEW touched, Effect(touched),
           NEW b \in DOMAIN kids' \ Nodes
    PROVE  \E i \in 1..Len(new) : b = Len(kids) + i /\ kind'[b] = new[i]
<1>1. Len(kind') = Len(kids) + Len(new) /\ Len(kids') = Len(kind') /\ Len(new) \in Nat
      /\ \A i \in 1..Len(new) : kind'[Len(kids) + i] = new[i]
  BY MakesIs, LenProperties DEF Effect, Formed
<1>2. PICK i \in 1..Len(kids') - Len(kids) : b = Len(kids) + i
  BY NewIs DEF Effect
<1>3. Len(kids) \in Nat
  BY TreeIs DEF Formed
<1> QED BY <1>1, <1>2, <1>3

LEMMA AddrStays ==
    ASSUME Formed(kids, kind), Described, NEW u \in Seq(Nat), addr' = addr \o u
    PROVE  \A x \in Nodes : addr'[x] = addr[x]
<1>1. addr \in Seq(Nat) /\ Len(addr) = Len(kids) /\ Nodes = 1..Len(kids)
  BY TreeIs DEF Described, Formed, Nodes
<1>2. Tailed(Nat, addr, u, addr \o u)
  BY <1>1, TailIs
<1> QED BY <1>1, <1>2 DEF Tailed

LEMMA AddTables ==
    ASSUME CommandsInv, TablesInv, NEW k \in {"paragraph", "run", "table", "row"}, NEW q \in InTree(kids),
           kind[q] = Home(k), NEW pos \in Positions(Siblings(kids, q, k)), AddNode(k, q, pos)
    PROVE  TablesStep
<1>1. Formed(kids, kind) /\ Described /\ IsTree(kids) /\ Len(kids) \in Nat /\ Nodes = 1..Len(kids)
      /\ addr \in Seq(Nat) /\ Len(addr) = Len(kids)
  BY TreeIs DEF CommandsInv, Formed, Described, Nodes
<1>2. /\ <<0>> \in Seq(Nat) /\ <<0, 0>> \in Seq(Nat) /\ <<0, 0, 0>> \in Seq(Nat) /\ <<0, 1, 0>> \in Seq(Nat)
  OBVIOUS
<1>3. CASE k = "paragraph" /\ AddParagraph(q, pos)
  <2>1. PICK new : new = <<"paragraph", "run", "text">>
    OBVIOUS
  <2>2. new \in Seq(Kinds) /\ Makes(new) /\ \A i \in 1..Len(new) : new[i] # "table"
    BY <1>3, <2>1 DEF AddParagraph, Kinds, Addressable, Direct, Inline
  <2>3. Effect({q}) /\ kind[q] # "table" /\ addr' = addr \o <<0, 0, 0>>
    BY <1>1, <1>3, AddParagraphEffect DEF AddParagraph
  <2>4. \A b \in DOMAIN kids' \ Nodes : kind'[b] # "table"
    BY <1>1, <2>2, <2>3, MakesKinds
  <2>5. \A x \in Nodes : addr'[x] = addr[x]
    BY <1>1, <1>2, <2>3, AddrStays
  <2> QED BY <2>3, <2>4, <2>5, TablesAside
<1>4. CASE k = "run" /\ AddRun(q, pos)
  <2>1. PICK new : new = <<"run", "text">>
    OBVIOUS
  <2>2. new \in Seq(Kinds) /\ Makes(new) /\ \A i \in 1..Len(new) : new[i] # "table"
    BY <1>4, <2>1 DEF AddRun, Kinds, Addressable, Direct, Inline
  <2>3. Effect({q}) /\ kind[q] # "table" /\ addr' = addr \o <<0, 0>>
    BY <1>1, <1>4, AddRunEffect DEF AddRun
  <2>4. ASSUME NEW b \in DOMAIN kids' \ Nodes PROVE kind'[b] # "table"
    <3>1. PICK i \in 1..Len(new) : b = Len(kids) + i /\ kind'[b] = new[i]
      BY <1>1, <2>2, <2>3, MakesKinds
    <3> QED BY <2>2, <3>1
  <2>5. \A x \in Nodes : addr'[x] = addr[x]
    BY <1>1, <1>2, <2>3, AddrStays
  <2> QED BY <2>3, <2>4, <2>5, TablesAside
<1>5. CASE k = "table" /\ AddTable(q, pos)
  <2>1. /\ Effect({q}) /\ kids'[New] = <<New + 1>> /\ DOMAIN kids' = 1..Len(kids) + 3
        /\ kind'[New + 1] = "row" /\ kind'[New + 2] = "run" /\ shape'[New + 1] = "full" /\ addr' = addr \o <<0, 1, 0>>
    BY <1>1, <1>5, AddTableEffect
  <2>2. kind[q] # "table"
    BY <1>5 DEF AddTable
  <2>3. \A x \in Nodes : addr'[x] = addr[x]
    BY <1>1, <1>2, <2>1, AddrStays
  <2>4. addr'[New + 1] = 1
    <3>1. PICK u : u = <<0, 1, 0>>
      OBVIOUS
    <3>2. u \in Seq(Nat) /\ Len(u) = 3 /\ u[2] = 1 /\ addr' = addr \o u
      BY <2>1, <3>1
    <3>3. Tailed(Nat, addr, u, addr \o u)
      BY <1>1, <3>2, TailIs
    <3>4. 2 \in 1..Len(u) /\ New + 1 = Len(addr) + 2
      BY <1>1, <3>2 DEF New
    <3> QED BY <3>2, <3>3, <3>4 DEF Tailed
  <2>5. ASSUME NEW b \in DOMAIN kids' \ Nodes, kind'[b] = "table"
        PROVE  InOrder(kids', addr', b) /\ Backed(kids', shape', b)
    <3>1. b = New
      <4>1. b \in {New, New + 1, New + 2}
        BY <1>1, <2>1 DEF New
      <4> QED BY <2>1, <2>5, <4>1
    <3>2. PICK s : s = <<New + 1>>
      OBVIOUS
    <3>3. DOMAIN s = {1} /\ s[1] = New + 1 /\ kids'[b] = s
      BY <2>1, <3>1, <3>2
    <3>4. InOrder(kids', addr', b)
      BY <2>4, <3>3 DEF InOrder
    <3>5. Backed(kids', shape', b)
      BY <2>1, <3>3 DEF Backed, ToSet
    <3> QED BY <3>4, <3>5
  <2>6. PICK tables : tables = {}
    OBVIOUS
  <2>7. \A m \in {q} : kind[m] = "table" => m \in tables
    BY <2>2
  <2>8. \A b \in tables : /\ b \in Nodes /\ InOrder(kids', addr', b) /\ Backed(kids', shape', b)
                          /\ Whole(b) => Whole(b)' \/ RowPut(b)
    BY <2>6
  <2>9. \A x \in Nodes : (\E b \in tables : x \in ToSet(kids'[b])) \/ addr'[x] = addr[x]
    BY <2>3
  <2>10. \A b \in DOMAIN kids' \ Nodes : kind'[b] = "table" => InOrder(kids', addr', b) /\ Backed(kids', shape', b)
    BY <2>5
  <2>11. Effect({q})
    BY <2>1
  <2> QED BY <2>7, <2>8, <2>9, <2>10, <2>11, TablesFrom
<1>6. CASE k = "row" /\ AddRow(q, pos)
  <2>1. /\ Effect({q}) /\ Renumbered(kids', Append(addr, 0), {q}, addr')
        /\ ToSet(kids'[q]) = ToSet(kids[q]) \cup {New} /\ shape'[New] = "full"
    BY <1>1, <1>6, AddRowEffect
  <2>2. q \in Nodes /\ kind[q] = "table" /\ q \in Each("table")
    BY <1>1, <1>6, InTreeIs DEF AddRow, Each, Nodes
  <2>3. PICK new : new = <<"row">>
    OBVIOUS
  <2>4. new \in Seq(Kinds) /\ Makes(new) /\ \A i \in 1..Len(new) : new[i] # "table"
    BY <1>6, <2>3 DEF AddRow, Kinds, Addressable, Direct, Inline
  <2>5. \A b \in DOMAIN kids' \ Nodes : kind'[b] # "table"
    BY <1>1, <2>1, <2>4, MakesKinds
  <2>6. IsTree(kids') /\ q \in DOMAIN kids'
    BY <2>1, <2>2 DEF Effect, Formed
  <2>7. InOrder(kids', addr', q)
    BY <2>1, <2>6, NumberedIs
  <2>8. ASSUME NEW x \in Nodes PROVE x \in ToSet(kids'[q]) \/ addr'[x] = addr[x]
    <3>1. x \in DOMAIN kids'
      BY <2>1 DEF Effect
    <3>2. Append(addr, 0)[x] = addr[x]
      BY <1>1
    <3>3. x \in UNION {ToSet(kids'[b]) : b \in {q}} \/ addr'[x] = Append(addr, 0)[x]
      BY <2>1, <3>1 DEF Renumbered
    <3> QED BY <3>2, <3>3
  <2>9. Backed(kids', shape', q)
    <3>1. Backed(kids, shape, q)
      BY <2>2 DEF TablesInv
    <3>2. \A x \in ToSet(kids[q]) : x \in Nodes /\ shape'[x] = shape[x]
      BY <1>1, <2>1, <2>2, TreeIs DEF Effect, Nodes
    <3> QED BY <2>1, <3>1, <3>2 DEF Backed
  <2>10. RowPut(q)
    BY DEF RowPut, AddNode, Records
  <2>11. PICK tables : tables = {q}
    OBVIOUS
  <2> QED BY <2>1, <2>2, <2>5, <2>7, <2>8, <2>9, <2>10, <2>11, TablesFrom
<1> QED BY <1>3, <1>4, <1>5, <1>6 DEF AddNode

\* What a command owes a table whose rows it numbers.
Settled(b) ==
    /\ InOrder(kids', addr', b) /\ Backed(kids', shape', b)
    /\ Whole(b) => Whole(b)' \/ RowPut(b)

LEMMA PlainSettles ==
    ASSUME IsTree(kids'), NEW a, NEW tables, Renumbered(kids', a, tables, addr'),
           NEW b \in tables, b \in DOMAIN kids', Plain(kids', shape', b)
    PROVE  Settled(b)
<1>1. InOrder(kids', addr', b)
  BY NumberedIs
<1>2. Backed(kids', shape', b) /\ \A i \in DOMAIN kids'[b] : shape'[kids'[b][i]] \notin {"spans", "covered"}
  BY PlainIs
<1>3. Whole(b)'
  BY <1>2 DEF Whole
<1> QED BY <1>1, <1>2, <1>3 DEF Settled

LEMMA TablesAt ==
    ASSUME CommandsInv, TablesInv, NEW tables \in SUBSET Nodes, Effect(tables),
           NEW a, Renumbered(kids', a, tables, addr'), \A x \in Nodes : a[x] = addr[x],
           \A b \in tables : Settled(b),
           \A b \in DOMAIN kids' \ Nodes : kind'[b] = "table" => InOrder(kids', addr', b) /\ Backed(kids', shape', b)
    PROVE  TablesStep
<1>1. \A m \in tables : kind[m] = "table" => m \in tables
  OBVIOUS
<1>2. \A b \in tables : /\ b \in Nodes /\ InOrder(kids', addr', b) /\ Backed(kids', shape', b)
                        /\ Whole(b) => Whole(b)' \/ RowPut(b)
  BY DEF Settled
<1>3. ASSUME NEW x \in Nodes PROVE (\E b \in tables : x \in ToSet(kids'[b])) \/ addr'[x] = addr[x]
  <2>1. x \in DOMAIN kids'
    BY DEF Effect
  <2>2. x \in UNION {ToSet(kids'[b]) : b \in tables} \/ addr'[x] = a[x]
    BY <2>1 DEF Renumbered
  <2> QED BY <2>2
<1> QED BY <1>1, <1>2, <1>3, TablesFrom

LEMMA TableThere ==
    ASSUME Formed(kids, kind), NEW b \in Nodes, NEW n \in ToSet(kids[b])
    PROVE  b \in InTree(kids)
<1>1. kids[b] # <<>>
  BY EmptyIs DEF ToSet
<1> QED BY <1>1 DEF Formed, Hung, Nodes

LEMMA RemoveTables ==
    ASSUME CommandsInv, TablesInv, NEW n \in InTree(kids), RemoveNode(n)
    PROVE  TablesStep
<1>1. Formed(kids, kind) /\ Described /\ IsTree(kids) /\ Fits(kids, kind) /\ Hung(kids) /\ kind[Section] = "section"
      /\ Nodes = DOMAIN kids
  BY DEF CommandsInv, Formed, Nodes
<1>2. UNCHANGED <<kind, id, shape>>
  BY DEF RemoveNode
<1>3. CASE RemoveInline(n)
  <2>1. PICK touched : touched = {Up(kids, n), RunOf(kids, n), Holder(kids, n)}
    OBVIOUS
  <2>2. Effect(touched) /\ DOMAIN kids' = Nodes
    BY <1>1, <1>2, <1>3, <2>1, RemoveInlineEffect
  <2>3. kind[n] \in Inline \cup {"run"} /\ addr' = addr
    BY <1>3 DEF RemoveInline
  <2>4. n \in Nodes /\ Up(kids, n) \in Nodes /\ n \in ToSet(kids[Up(kids, n)]) /\ kind[Up(kids, n)] \in Holders(kind[n])
    BY <1>1, <2>3, HeldBy DEF Inline
  <2>5. \A m \in touched : kind[m] # "table"
    <3>1. CASE kind[n] = "run"
      <4>1. kind[Up(kids, n)] = "paragraph"
        BY <2>4, <3>1 DEF Holders
      <4>2. RunOf(kids, n) = Up(kids, n) /\ Holder(kids, n) = Up(kids, n)
        BY <3>1, <4>1 DEF RunOf, Holder, Inline
      <4> QED BY <2>1, <4>1, <4>2
    <3>2. CASE kind[n] \in Inline
      <4>1. PICK a : a = Up(kids, n)
        OBVIOUS
      <4>2. PICK run, q : Placed(kids, n, a, run, q)
        BY <1>1, <2>4, <3>2, <4>1, InlineIs DEF Nodes
      <4> QED BY <2>1, <4>1, <4>2 DEF Placed
    <3> QED BY <2>3, <3>1, <3>2
  <2> QED BY <2>2, <2>3, <2>5, TablesAside
<1>4. CASE RemoveParagraph(n)
  <2>1. kind[n] = "paragraph" /\ addr' = addr
    BY <1>4 DEF RemoveParagraph
  <2>2. kind[Up(kids, n)] \in Holders("paragraph")
    BY <1>1, <2>1, HeldBy
  <2>3. kind[Up(kids, n)] # "table"
    BY <2>2 DEF Holders
  <2>4. Effect({Up(kids, n)}) /\ DOMAIN kids' = Nodes
    BY <1>1, <1>2, <1>4, RemoveParagraphEffect
  <2> QED BY <2>1, <2>3, <2>4, TablesAside
<1>5. CASE RemoveRow(n)
  <2>1. PICK b : b = Up(kids, n)
    OBVIOUS
  <2>2. kind[n] = "row" /\ ~Merged(kids, b)
    BY <1>5, <2>1 DEF RemoveRow
  <2>3. kind[b] = "table" /\ b \in Nodes
    BY <1>1, <2>1, <2>2, HeldBy DEF Holders
  <2>4. /\ Effect({b}) /\ DOMAIN kids' = Nodes /\ Renumbered(kids', addr, {b}, addr')
        /\ ToSet(kids'[b]) \subseteq ToSet(kids[b])
    BY <1>1, <1>2, <1>5, <2>1, RemoveRowEffect
  <2>5. Plain(kids, shape, b)
    <3>1. n \in ToSet(kids[b])
      BY <1>1, <2>1, <2>2, HeldBy
    <3>2. b \in Each("table")
      BY <1>1, <2>3, <3>1, TableThere DEF Each
    <3> QED BY <2>2, <3>2, NotMerged
  <2>6. Plain(kids', shape', b) /\ IsTree(kids') /\ b \in DOMAIN kids'
    BY <1>2, <2>3, <2>4, <2>5 DEF Plain, Effect, Formed
  <2>7. Settled(b)
    <3>1. b \in {b}
      OBVIOUS
    <3> QED BY <2>4, <2>6, <3>1, PlainSettles
  <2>8. PICK tables : tables = {b}
    OBVIOUS
  <2>9. /\ tables \in SUBSET Nodes /\ Effect(tables) /\ Renumbered(kids', addr, tables, addr')
        /\ \A c \in tables : Settled(c)
    BY <2>3, <2>4, <2>7, <2>8
  <2> QED BY <2>4, <2>9, TablesAt
<1> QED BY <1>3, <1>4, <1>5 DEF RemoveNode

LEMMA MoveRowTables ==
    ASSUME CommandsInv, TablesInv, NEW n \in InTree(kids), NEW q \in InTree(kids), kind[n] = "row",
           kind[q] = Home(kind[n]), NEW pos \in Positions(Siblings(kids, q, kind[n])),
           Movable(n, q), MoveDirect(n, q, pos), RowPut(q)
    PROVE  TablesStep
<1>1. Formed(kids, kind) /\ Described /\ IsTree(kids) /\ Nodes = DOMAIN kids
  BY DEF CommandsInv, Formed, Nodes
<1>2. PICK b, tables : b = Up(kids, n) /\ tables = {b, q}
  OBVIOUS
<1>3. /\ Effect(tables) /\ DOMAIN kids' = Nodes /\ Renumbered(kids', addr, tables, addr')
      /\ b \in Nodes /\ n \in ToSet(kids[b]) /\ q \in Nodes
      /\ ToSet(kids'[q]) = ToSet(kids[q]) \cup {n}
      /\ \A m \in Nodes \ {q} : ToSet(kids'[m]) \subseteq ToSet(kids[m])
  BY <1>1, <1>2, MoveDirectEffect
<1>4. kind[b] = "table" /\ kind[q] = "table"
  <2>1. kind[b] \in Holders("row")
    BY <1>1, <1>2, HeldBy
  <2>2. Holders("row") = {"table"} /\ Home("row") = "table"
    BY DEF Holders, Home, Inline
  <2> QED BY <2>1, <2>2
<1>5. b \in Each("table") /\ q \in Each("table")
  BY <1>1, <1>3, <1>4, TableThere DEF Each
<1>6. Plain(kids, shape, b)
  <2>1. ~Merged(kids, b)
    BY <1>2 DEF Movable
  <2> QED BY <1>5, <2>1, NotMerged
<1>7. \A x \in Nodes : shape'[x] = shape[x]
  BY <1>3 DEF Effect
<1>8. Plain(kids', shape', b)
  <2>1. ToSet(kids'[b]) \subseteq ToSet(kids[b])
    BY <1>3
  <2>2. ToSet(kids[b]) \subseteq Nodes
    BY <1>1, <1>3, TreeIs
  <2> QED BY <1>6, <1>7, <2>1, <2>2 DEF Plain
<1>9. IsTree(kids') /\ b \in DOMAIN kids' /\ q \in DOMAIN kids' /\ b \in tables /\ q \in tables
  BY <1>2, <1>3 DEF Effect, Formed
<1>10. Settled(b)
  BY <1>3, <1>8, <1>9, PlainSettles
<1>11. Settled(q)
  <2>1. InOrder(kids', addr', q)
    BY <1>3, <1>9, NumberedIs
  <2>2. Backed(kids, shape, q)
    BY <1>5 DEF TablesInv
  <2>3. ToSet(kids[q]) \subseteq Nodes /\ n \in Nodes
    BY <1>1, <1>3, TreeIs
  <2>4. shape[n] # "covered"
    BY <1>3, <1>6 DEF Plain
  <2>5. Backed(kids', shape', q)
    BY <1>3, <1>7, <2>2, <2>3, <2>4 DEF Backed
  <2> QED BY <2>1, <2>5 DEF Settled
<1>12. tables \in SUBSET Nodes /\ \A c \in tables : Settled(c)
  BY <1>2, <1>3, <1>10, <1>11
<1> QED BY <1>3, <1>12, TablesAt

LEMMA MoveTables ==
    ASSUME CommandsInv, TablesInv, NEW n \in InTree(kids), NEW q \in InTree(kids),
           kind[q] = Home(kind[n]), NEW pos \in Positions(Siblings(kids, q, kind[n])), MoveNode(n, q, pos)
    PROVE  TablesStep
<1>1. Formed(kids, kind) /\ Described /\ IsTree(kids) /\ Fits(kids, kind) /\ Hung(kids) /\ kind[Section] = "section"
      /\ Nodes = DOMAIN kids
  BY DEF CommandsInv, Formed, Nodes
<1>2. Movable(n, q) /\ (MoveDirect(n, q, pos) \/ MoveInline(n, q, pos)) /\ RowPut(q)
  BY DEF MoveNode, Records, RowPut
<1>3. CASE MoveDirect(n, q, pos) /\ kind[n] # "row"
  <2>1. kind[n] = "paragraph"
    BY <1>2, <1>3 DEF Movable, MoveDirect, Direct
  <2>2. Effect({Up(kids, n), q}) /\ DOMAIN kids' = Nodes /\ addr' = addr
    BY <1>1, <1>2, <1>3, MoveDirectEffect
  <2>3. kind[Up(kids, n)] \in Holders("paragraph")
    BY <1>1, <2>1, HeldBy
  <2>4. kind[Up(kids, n)] # "table" /\ kind[q] # "table"
    BY <2>1, <2>3 DEF Holders, Home
  <2> QED BY <2>2, <2>4, TablesAside
<1>4. CASE MoveDirect(n, q, pos) /\ kind[n] = "row"
  BY <1>2, <1>4, MoveRowTables
<1>5. CASE MoveInline(n, q, pos)
  <2>1. PICK touched : touched = {Up(kids, n), RunOf(kids, n), Holder(kids, n), q}
    OBVIOUS
  <2>2. Effect(touched) /\ DOMAIN kids' = 1..Len(kids) + 1 /\ Len(kids) \in Nat /\ kind'[Len(kids) + 1] = "run"
        /\ addr' = Append(addr, 0)
    BY <1>1, <1>2, <1>5, <2>1, MoveInlineEffect
  <2>3. kind[n] \in Inline
    BY <1>5 DEF MoveInline
  <2>4. n \in ToSet(kids[Up(kids, n)]) /\ Up(kids, n) \in DOMAIN kids
    BY <1>1, <2>3, HeldBy DEF Inline, Nodes
  <2>5. PICK a : a = Up(kids, n)
    OBVIOUS
  <2>6. PICK run, o : Placed(kids, n, a, run, o)
    BY <1>1, <2>3, <2>4, <2>5, InlineIs
  <2>7. kind[q] = "paragraph"
    BY <2>3 DEF Home, Inline
  <2>8. \A m \in touched : kind[m] # "table"
    BY <2>1, <2>5, <2>6, <2>7 DEF Placed
  <2>9. \A b \in DOMAIN kids' \ Nodes : kind'[b] # "table"
    <3>1. Nodes = 1..Len(kids)
      BY <1>1, TreeIs
    <3> QED BY <2>2, <3>1
  <2>10. \A x \in Nodes : addr'[x] = addr[x]
    <3>1. addr \in Seq(Nat) /\ Len(addr) = Len(kids) /\ Nodes = 1..Len(kids)
      BY <1>1, TreeIs DEF Described
    <3> QED BY <2>2, <3>1
  <2> QED BY <2>2, <2>8, <2>9, <2>10, TablesAside
<1> QED BY <1>2, <1>3, <1>4, <1>5

\* The nodes a copy makes are like those they are copies of.
Twinned(src, a) ==
    /\ \A x \in Nodes : a[x] = addr[x]
    /\ \A i \in 1..Len(src) : /\ src[i] \in Nodes
                              /\ kind'[Len(kids) + i] = kind[src[i]]
                              /\ shape'[Len(kids) + i] = shape[src[i]]
                              /\ a[Len(kids) + i] = addr[src[i]]
    /\ \A b \in DOMAIN kids' \ Nodes : kind'[b] = "table" => \E i \in 1..Len(src) : b = Len(kids) + i

LEMMA TwinnedIs ==
    ASSUME Formed(kids, kind), Described, Formed(kids', kind'), NEW p, NEW k, NEW src, NEW wrap, Copied(src, p, k, wrap),
           NEW a, NEW none, Trailed(Nat, addr, Of(addr, src), none, a)
    PROVE  Twinned(src, a)
<1>1. /\ IsTree(kids) /\ Len(kids) \in Nat /\ Nodes = 1..Len(kids)
      /\ kind \in Seq(Kinds) /\ Len(kind) = Len(kids)
      /\ shape \in Seq(Shapes) /\ Len(shape) = Len(kids)
      /\ addr \in Seq(Nat) /\ Len(addr) = Len(kids)
  BY TreeIs DEF Formed, Nodes, Described
<1>2. src \in Seq(Nodes) /\ Copies(src, wrap) /\ Len(kids') = Len(kids) + (Len(src) + Len(wrap))
      /\ wrap = IF k \in Inline THEN Wrapping(k) ELSE <<>>
  BY DEF Copied
<1>3. Len(src) \in Nat /\ \A i \in 1..Len(src) : src[i] \in Nodes
  BY <1>2, LenProperties, ElementOfSeq
<1>4. Drawn(Kinds, kind, src, Of(kind, src)) /\ Drawn(Shapes, shape, src, Of(shape, src)) /\ Drawn(Nat, addr, src, Of(addr, src))
  <2>1. Drawn(Kinds, kind, src, Of(kind, src))
    BY <1>1, <1>2, OfIs
  <2>2. Drawn(Shapes, shape, src, Of(shape, src))
    BY <1>1, <1>2, OfIs
  <2>3. Drawn(Nat, addr, src, Of(addr, src))
    BY <1>1, <1>2, OfIs
  <2> QED BY <2>1, <2>2, <2>3
<1>5. Trailed(Kinds, kind, Of(kind, src), wrap, kind')
  BY <1>2 DEF Copies
<1>6. PICK full : Trailed(Shapes, shape, Of(shape, src), full, shape')
  BY <1>2 DEF Copies
<1>7. \A x \in Nodes : a[x] = addr[x]
  BY <1>1 DEF Trailed
<1>8. ASSUME NEW i \in 1..Len(src)
      PROVE  /\ kind'[Len(kids) + i] = kind[src[i]] /\ shape'[Len(kids) + i] = shape[src[i]]
             /\ a[Len(kids) + i] = addr[src[i]]
  <2>1. kind'[Len(kids) + i] = kind[src[i]]
    BY <1>1, <1>4, <1>5 DEF Trailed, Drawn
  <2>2. shape'[Len(kids) + i] = shape[src[i]]
    BY <1>1, <1>4, <1>6 DEF Trailed, Drawn
  <2>3. a[Len(kids) + i] = addr[src[i]]
    BY <1>1, <1>4 DEF Trailed, Drawn
  <2> QED BY <2>1, <2>2, <2>3
<1>9. Len(wrap) \in Nat /\ \A j \in 1..Len(wrap) : wrap[j] # "table"
  <2>1. CASE k \in Inline
    <3>1. Len(Wrapping(k)) \in {1, 2} /\ Wrapping(k)[1] = "run" /\ (k = "note" => Wrapping(k)[2] = "ctrl")
          /\ (k # "note" => Len(Wrapping(k)) = 1)
      BY WrappingIs
    <3>2. wrap = Wrapping(k)
      BY <1>2, <2>1
    <3>3. ASSUME NEW j \in 1..Len(wrap) PROVE j = 1 \/ (j = 2 /\ k = "note")
      <4>1. CASE Len(wrap) = 1
        <5>1. j \in 1..1
          BY <4>1
        <5> QED BY <5>1
      <4>2. CASE Len(wrap) = 2 /\ k = "note"
        <5>1. j \in 1..2
          BY <4>2
        <5>2. j = 1 \/ j = 2
          BY <5>1
        <5> QED BY <4>2, <5>2
      <4> QED BY <3>1, <3>2, <4>1, <4>2
    <3> QED BY <3>1, <3>2, <3>3
  <2>2. CASE k \notin Inline
    BY <1>2, <2>2
  <2> QED BY <2>1, <2>2
<1>10. ASSUME NEW b \in DOMAIN kids' \ Nodes, kind'[b] = "table"
       PROVE  \E i \in 1..Len(src) : b = Len(kids) + i
  <2>1. PICK i \in 1..Len(kids') - Len(kids) : b = Len(kids) + i
    BY NewIs
  <2>2. CASE i <= Len(src)
    BY <1>3, <2>1, <2>2
  <2>3. CASE ~(i <= Len(src))
    <3>1. PICK j \in 1..Len(wrap) : i = Len(src) + j
      <4>1. i - Len(src) \in 1..Len(wrap) /\ i = Len(src) + (i - Len(src))
        BY <1>1, <1>2, <1>3, <1>9, <2>1, <2>3
      <4> QED BY <4>1
    <3>2. kind'[Len(kids) + Len(src) + j] = wrap[j]
      BY <1>1, <1>4, <1>5 DEF Trailed, Drawn
    <3>3. b = Len(kids) + Len(src) + j
      BY <1>1, <1>3, <1>9, <2>1, <3>1
    <3> QED BY <1>9, <1>10, <3>2, <3>3
  <2> QED BY <2>2, <2>3
<1> QED BY <1>3, <1>7, <1>8, <1>10 DEF Twinned

\* A copied node has the children copied for it.
LEMMA TwinHolds ==
    ASSUME Formed(kids, kind), NEW p, NEW k, NEW src, NEW wrap, Copied(src, p, k, wrap), NEW i \in 1..Len(src)
    PROVE  kids'[Len(kids) + i] = Clone(src)[i] /\ p # Len(kids) + i /\ Len(kids) + i \in DOMAIN kids'
           /\ Mirrors(src, Clone(src))
<1>1. IsTree(kids) /\ Len(kids) \in Nat /\ Nodes = 1..Len(kids)
  BY TreeIs DEF Formed, Nodes
<1>2. PICK c, t : /\ c = Clone(src) /\ t = kids \o c /\ Ready(t, c, Len(src), p)
                  /\ IF k \in Inline THEN Wrapped(t, p, New, k, kids') ELSE Extended(t, p, New, kids')
  BY DEF Copied
<1>3. Mirrors(src, c) /\ src \in Seq(Nodes) /\ Len(src) \in Nat /\ DOMAIN c = 1..Len(src)
  BY <1>2, LenProperties DEF Copied, Mirrors
<1>4. Len(kids) + i \in DOMAIN t /\ p \in Nodes /\ p # Len(kids) + i
  BY <1>1, <1>2, <1>3 DEF Ready
<1>5. t[Len(kids) + i] = c[i]
  <2>1. c \in Seq(Seq(Nat))
    <3>1. \A j \in 1..Len(src) : c[j] \in Seq(Nat)
      BY <1>3, LenProperties DEF Mirrors
    <3>2. PICK d : d = [j \in 1..Len(src) |-> c[j]]
      OBVIOUS
    <3>3. c = d
      BY <1>2, <1>3, <3>2, LenProperties DEF Clone
    <3> QED BY <1>3, <3>1, <3>2, <3>3
  <2>2. kids \in Seq(Seq(Nat))
    <3>1. DOMAIN kids \in SUBSET Nat /\ \A m \in DOMAIN kids : kids[m] \in Seq(DOMAIN kids)
      BY <1>1, NodesAre
    <3>2. \A m \in DOMAIN kids : kids[m] \in Seq(Nat)
      BY <3>1
    <3>3. kids \in Seq(Seq(DOMAIN kids))
      BY <1>1 DEF IsTree
    <3> QED BY <3>2, <3>3
  <2>3. Tailed(Seq(Nat), kids, c, kids \o c)
    BY <2>1, <2>2, TailIs
  <2>4. Len(c) = Len(src)
    BY <1>3 DEF Mirrors
  <2> QED BY <1>2, <2>3, <2>4 DEF Tailed
<1>6. kids'[Len(kids) + i] = t[Len(kids) + i] /\ Len(kids) + i \in DOMAIN kids'
  BY <1>2, <1>4 DEF Wrapped, Extended
<1> QED BY <1>2, <1>3, <1>4, <1>5, <1>6

\* A copied table is in order like the one it is a copy of.
LEMMA TwinOrder ==
    ASSUME CommandsInv, TablesInv, Formed(kids', kind'), NEW p, NEW k, NEW src, NEW wrap, Copied(src, p, k, wrap),
           NEW a, Twinned(src, a), \A x \in DOMAIN kids' : x \in ToSet(kids'[p]) \/ addr'[x] = a[x],
           p \in DOMAIN kids',
           NEW i \in 1..Len(src), kind[src[i]] = "table"
    PROVE  InOrder(kids', addr', Len(kids) + i) /\ Backed(kids', shape', Len(kids) + i)
<1>1. PICK b, s, c : b = Len(kids) + i /\ s = src[i] /\ c = Clone(src)
  OBVIOUS
<1>2. Formed(kids, kind) /\ IsTree(kids) /\ IsTree(kids') /\ Nodes = DOMAIN kids
  BY DEF CommandsInv, Formed, Nodes
<1>3. kids'[b] = c[i] /\ p # b /\ b \in DOMAIN kids' /\ Mirrors(src, c)
  BY <1>1, <1>2, TwinHolds
<1>4. s \in Nodes /\ src \in Seq(Nodes) /\ DOMAIN src = 1..Len(src)
  BY <1>1, LenProperties DEF Twinned, Copied
<1>5. kids[s] \in Seq(Nodes) /\ DOMAIN kids[s] = 1..Len(kids[s]) /\ c[i] \in Seq(Nat) /\ DOMAIN c[i] = 1..Len(c[i])
      /\ Len(c[i]) = Len(kids[s])
  <2>1. kids[s] \in Seq(Nodes) /\ DOMAIN kids[s] = 1..Len(kids[s])
    BY <1>2, <1>4, TreeIs, LenProperties
  <2>2. c[i] \in Seq(Nat) /\ Len(c[i]) = Len(kids[src[i]])
    BY <1>3, <1>4 DEF Mirrors
  <2>3. DOMAIN c[i] = 1..Len(c[i])
    BY <2>2, LenProperties
  <2> QED BY <1>1, <2>1, <2>2, <2>3
<1>6. ASSUME NEW j \in DOMAIN kids[s]
      PROVE  \E e \in 1..Len(src) : c[i][j] = Len(kids) + e /\ src[e] = kids[s][j]
  <2>1. i \in DOMAIN src
    BY <1>4
  <2>2. \A l \in 1..Len(kids[src[i]]) : \E e \in DOMAIN src : c[i][l] = Len(kids) + e /\ src[e] = kids[src[i]][l]
    BY <1>3, <2>1 DEF Mirrors
  <2>3. j \in 1..Len(kids[src[i]])
    BY <1>1, <1>5
  <2> QED BY <1>1, <1>4, <2>2, <2>3
<1>7. ASSUME NEW j \in DOMAIN kids[s] PROVE InOrder(kids, addr, s) /\ Backed(kids, shape, s)
  <2>1. kids[s][j] \in ToSet(kids[s])
    BY DEF ToSet
  <2>2. s \in Each("table")
    BY <1>1, <1>2, <1>4, <2>1, TableThere DEF Each
  <2> QED BY <2>2 DEF TablesInv
<1>8. InOrder(kids', addr', b)
  <2>1. ASSUME NEW j \in DOMAIN kids'[b] PROVE addr'[kids'[b][j]] = j
    <3>1. j \in DOMAIN kids[s] /\ kids'[b][j] = c[i][j]
      BY <1>3, <1>5
    <3>2. PICK e \in 1..Len(src) : c[i][j] = Len(kids) + e /\ src[e] = kids[s][j]
      BY <1>6, <3>1
    <3>3. addr[src[e]] = j
      BY <1>7, <3>1, <3>2 DEF InOrder
    <3>4. a[Len(kids) + e] = j
      BY <3>3 DEF Twinned
    <3>5. Len(kids) + e \in ToSet(kids'[b])
      BY <3>1, <3>2 DEF ToSet
    <3>6. Len(kids) + e \in DOMAIN kids' /\ Len(kids) + e \notin ToSet(kids'[p])
      BY <1>2, <1>3, <3>5, TreeIs
    <3> QED BY <3>1, <3>2, <3>4, <3>6
  <2> QED BY <2>1 DEF InOrder
<1>9. Backed(kids', shape', b)
  <2>1. ASSUME NEW x \in ToSet(kids'[b]), shape'[x] = "covered"
        PROVE  \E y \in ToSet(kids'[b]) : shape'[y] = "spans"
    <3>1. PICK j \in DOMAIN kids[s] : x = c[i][j]
      BY <1>3, <1>5, <2>1 DEF ToSet
    <3>2. PICK e \in 1..Len(src) : c[i][j] = Len(kids) + e /\ src[e] = kids[s][j]
      BY <1>6, <3>1
    <3>3. shape[kids[s][j]] = "covered" /\ kids[s][j] \in ToSet(kids[s])
      BY <2>1, <3>1, <3>2 DEF Twinned, ToSet
    <3>4. PICK y \in ToSet(kids[s]) : shape[y] = "spans"
      BY <1>7, <3>3 DEF Backed
    <3>5. PICK j2 \in DOMAIN kids[s] : y = kids[s][j2]
      BY DEF ToSet
    <3>6. PICK e2 \in 1..Len(src) : c[i][j2] = Len(kids) + e2 /\ src[e2] = kids[s][j2]
      BY <1>6, <3>5
    <3>7. shape'[Len(kids) + e2] = "spans"
      BY <3>4, <3>5, <3>6 DEF Twinned
    <3>8. c[i][j2] \in ToSet(kids'[b])
      BY <1>3, <1>5, <3>5 DEF ToSet
    <3> QED BY <3>6, <3>7, <3>8
  <2> QED BY <2>1 DEF Backed
<1> QED BY <1>1, <1>8, <1>9

LEMMA CopyTables ==
    ASSUME CommandsInv, TablesInv, NEW n \in InTree(kids), NEW q \in InTree(kids), kind[n] \in Addressable,
           kind[q] = Home(kind[n]), NEW pos \in Positions(Siblings(kids, q, kind[n])), CopyNode(n, q, pos)
    PROVE  TablesStep
<1>1. Formed(kids, kind) /\ Described /\ IsTree(kids) /\ Len(kids) \in Nat /\ Nodes = 1..Len(kids) /\ Nodes = DOMAIN kids
      /\ addr \in Seq(Nat) /\ Len(addr) = Len(kids) /\ n \in Nodes /\ q \in Nodes
  BY TreeIs, InTreeIs DEF CommandsInv, Formed, Described, Nodes
<1>2. PICK src, k : src = Below(kids, n) /\ k = kind[n]
  OBVIOUS
<1>3. Effect({q}) /\ \E wrap : Copied(src, q, k, wrap)
  BY <1>1, <1>2, CopyIs
<1>4. PICK wrap : Copied(src, q, k, wrap)
  BY <1>3
<1>5. Formed(kids', kind') /\ IsTree(kids') /\ q \in DOMAIN kids' /\ Len(kids') \in Nat /\ {q} \in SUBSET DOMAIN kids'
  BY <1>1, <1>3, TreeIs DEF Effect, Formed
<1>6. PICK a, none : /\ Len(none) = Len(wrap) /\ \A i \in 1..Len(wrap) : none[i] = 0
                     /\ Trailed(Nat, addr, Of(addr, src), none, a)
                     /\ addr' = IF k = "row" THEN Renumber(kids', a, {q}) ELSE a
  BY <1>4 DEF Copied
<1>7. Twinned(src, a)
  BY <1>1, <1>4, <1>5, <1>6, TwinnedIs
<1>8. a \in Seq(Nat) /\ Len(a) = Len(kids')
  <2>1. src \in Seq(Nodes) /\ Len(kids') = Len(kids) + (Len(src) + Len(wrap))
    BY <1>4 DEF Copied
  <2>2. Drawn(Nat, addr, src, Of(addr, src))
    BY <1>1, <2>1, OfIs
  <2>3. a \in Seq(Nat) /\ Len(a) = Len(addr) + (Len(Of(addr, src)) + Len(none))
    BY <1>6 DEF Trailed
  <2>4. Len(Of(addr, src)) = Len(src)
    BY <2>2 DEF Drawn
  <2> QED BY <1>1, <1>6, <2>1, <2>3, <2>4
<1>9. k = "row" => Renumbered(kids', a, {q}, addr')
  <2>1. Renumbered(kids', a, {q}, Renumber(kids', a, {q}))
    BY <1>5, <1>8, RenumberIs
  <2> QED BY <1>6, <2>1
<1>10. ASSUME NEW x \in DOMAIN kids' PROVE x \in ToSet(kids'[q]) \/ addr'[x] = a[x]
  <2>1. CASE k = "row"
    <3>1. x \in UNION {ToSet(kids'[b]) : b \in {q}} \/ addr'[x] = a[x]
      BY <1>9, <2>1 DEF Renumbered
    <3> QED BY <3>1
  <2>2. CASE k # "row"
    BY <1>6, <2>2
  <2> QED BY <2>1, <2>2
<1>11. ASSUME NEW b \in DOMAIN kids' \ Nodes, kind'[b] = "table"
       PROVE  InOrder(kids', addr', b) /\ Backed(kids', shape', b)
  <2>1. PICK i \in 1..Len(src) : b = Len(kids) + i
    BY <1>7, <1>11 DEF Twinned
  <2>2. kind[src[i]] = "table"
    BY <1>7, <1>11, <2>1 DEF Twinned
  <2> QED BY <1>4, <1>5, <1>7, <1>10, <2>1, <2>2, TwinOrder
<1>12. CASE k = "row"
  <2>1. kind[q] = "table" /\ ~Merged(kids, Up(kids, n)) /\ ~Merged(kids, q)
    BY <1>2, <1>12 DEF CopyNode, Home, Inline
  <2>2. PICK b : b = Up(kids, n)
    OBVIOUS
  <2>3. b \in Nodes /\ n \in ToSet(kids[b]) /\ kind[b] = "table"
    BY <1>1, <1>2, <1>12, <2>2, HeldBy DEF Holders
  <2>4. b \in Each("table") /\ q \in Each("table")
    BY <1>1, <2>1, <2>3, TableThere DEF Each
  <2>5. Plain(kids, shape, b) /\ Plain(kids, shape, q)
    BY <2>1, <2>2, <2>4, NotMerged
  <2>6. ToSet(kids'[q]) = ToSet(kids[q]) \cup {New}
    <3>1. PICK t : /\ Ready(t, Clone(src), Len(src), q)
                   /\ IF k \in Inline THEN Wrapped(t, q, New, k, kids') ELSE Extended(t, q, New, kids')
      BY <1>4 DEF Copied
    <3>2. Extended(t, q, New, kids')
      BY <1>12, <3>1 DEF Inline
    <3> QED BY <1>1, <3>1, <3>2 DEF Ready, Extended
  <2>7. shape'[New] = shape[n]
    <3>1. Len(src) > 0 /\ src[1] = n /\ src \in Seq(DOMAIN kids)
      BY <1>1, <1>2, BelowIs
    <3>2. 1 \in 1..Len(src)
      BY <3>1, LenProperties
    <3> QED BY <1>7, <3>1, <3>2 DEF Twinned, New
  <2>8. Plain(kids', shape', q)
    <3>1. \A x \in Nodes : shape'[x] = shape[x]
      BY <1>3 DEF Effect
    <3>2. ToSet(kids[q]) \subseteq Nodes
      BY <1>1, TreeIs
    <3> QED BY <2>3, <2>5, <2>6, <2>7, <3>1, <3>2 DEF Plain
  <2>9. PICK tables : tables = {q}
    OBVIOUS
  <2>10. q \in tables /\ tables \in SUBSET Nodes /\ Effect(tables) /\ Renumbered(kids', a, tables, addr')
    BY <1>1, <1>3, <1>9, <1>12, <2>9
  <2>11. Settled(q)
    BY <1>5, <2>8, <2>10, PlainSettles
  <2>12. \A c \in tables : Settled(c)
    BY <2>9, <2>11
  <2>13. \A x \in Nodes : a[x] = addr[x]
    BY <1>7 DEF Twinned
  <2> QED BY <1>11, <2>10, <2>12, <2>13, TablesAt
<1>13. CASE k # "row"
  <2>1. kind[q] # "table"
    BY <1>2, <1>13 DEF Home, Addressable, Direct, Inline
  <2>2. PICK tables : tables = {}
    OBVIOUS
  <2>3. \A m \in {q} : kind[m] = "table" => m \in tables
    BY <2>1
  <2>4. \A b \in tables : /\ b \in Nodes /\ InOrder(kids', addr', b) /\ Backed(kids', shape', b)
                          /\ Whole(b) => Whole(b)' \/ RowPut(b)
    BY <2>2
  <2>5. \A x \in Nodes : (\E b \in tables : x \in ToSet(kids'[b])) \/ addr'[x] = addr[x]
    BY <1>6, <1>7, <1>13 DEF Twinned
  <2> QED BY <1>3, <1>11, <2>3, <2>4, <2>5, TablesFrom
<1> QED BY <1>12, <1>13

LEMMA TablesInit == Init => TablesInv
<1>1. SUFFICES ASSUME Init PROVE TablesInv
  OBVIOUS
<1>2. PICK d \in Documents :
         /\ kids = d.kids /\ kind = d.kind
         /\ shape = [n \in Nodes |-> IF n \in d.spans THEN "spans" ELSE IF n \in d.covered THEN "covered" ELSE "full"]
         /\ addr = [n \in Nodes |-> IF kind[n] = "row" THEN IndexOf(kids[Up(kids, n)], n) ELSE 0]
  BY <1>1 DEF Init
<1>3. IsDocument(d)
  BY CommandsAssumption
<1>4. IsTree(kids) /\ Nodes = DOMAIN kids
  BY <1>2, <1>3 DEF IsDocument, Nodes
<1>5. kind \in [Nodes -> Kinds]
  BY <1>2, <1>3 DEF IsDocument, Nodes
<1>6. \A m \in Nodes : /\ \A n \in ToSet(kids[m]) : kind[m] \in Holders(kind[n])
                       /\ \A i \in DOMAIN kids[m] : kids[m][i] \in d.covered => i > 1 /\ kids[m][i - 1] \in d.spans
  BY <1>2, <1>3 DEF IsDocument, Nodes
<1>7. ASSUME NEW b \in Each("table") PROVE InOrder(kids, addr, b) /\ Backed(kids, shape, b)
  <2>1. b \in Nodes /\ kind[b] = "table"
    BY <1>4, InTreeIs DEF Each
  <2>2. kids[b] \in Seq(Nodes) /\ IsInjective(kids[b]) /\ DOMAIN kids[b] = 1..Len(kids[b]) /\ Len(kids[b]) \in Nat
    BY <1>4, <2>1, TreeIs, LenProperties
  <2>3. ASSUME NEW i \in DOMAIN kids[b] PROVE kids[b][i] \in ToSet(kids[b]) /\ kids[b][i] \in Nodes
    BY <2>2 DEF ToSet
  <2>4. ASSUME NEW i \in DOMAIN kids[b] PROVE addr[kids[b][i]] = i
    <3>1. PICK r : r = kids[b][i]
      OBVIOUS
    <3>2. r \in ToSet(kids[b]) /\ r \in Nodes
      BY <2>3, <3>1
    <3>3. kind[r] = "row"
      <4>1. "table" \in Holders(kind[r]) /\ kind[r] \in Kinds
        BY <1>5, <1>6, <2>1, <3>2
      <4>2. PICK k : k = kind[r]
        OBVIOUS
      <4>3. \A x \in Kinds : "table" \in Holders(x) => x = "row"
        BY DEF Holders, Kinds, Addressable, Direct, Inline
      <4> QED BY <4>1, <4>3
    <3>4. Up(kids, r) = b
      BY <1>4, <2>1, <3>2, UpIs
    <3>5. addr[r] = IndexOf(kids[b], r)
      BY <1>2, <3>2, <3>3, <3>4
    <3>6. IndexOf(kids[b], r) \in DOMAIN kids[b] /\ kids[b][IndexOf(kids[b], r)] = r
      BY <2>2, <3>2, IndexOfIs
    <3> QED BY <2>2, <3>1, <3>5, <3>6 DEF IsInjective
  <2>5. ASSUME NEW x \in ToSet(kids[b]), shape[x] = "covered"
        PROVE  \E y \in ToSet(kids[b]) : shape[y] = "spans"
    <3>1. PICK i \in DOMAIN kids[b] : x = kids[b][i]
      BY DEF ToSet
    <3>2. x \in d.covered
      BY <1>2, <2>3, <2>5, <3>1
    <3>3. i > 1 /\ kids[b][i - 1] \in d.spans
      BY <1>6, <2>1, <3>1, <3>2
    <3>4. i - 1 \in DOMAIN kids[b]
      BY <2>2, <3>3
    <3>5. shape[kids[b][i - 1]] = "spans"
      BY <1>2, <2>3, <3>3, <3>4
    <3> QED BY <2>3, <3>4, <3>5
  <2> QED BY <2>4, <2>5 DEF InOrder, Backed
<1> QED BY <1>7 DEF TablesInv

LEMMA TablesNext ==
    ASSUME CommandsInv, TablesInv, Next
    PROVE  TablesStep
<1>1. CASE \E k \in {"paragraph", "run", "table", "row"}, p \in InTree(kids) :
              /\ kind[p] = Home(k)
              /\ \E pos \in Positions(Siblings(kids, p, k)) : AddNode(k, p, pos)
  BY <1>1, AddTables
<1>2. CASE \E n \in InTree(kids) : RemoveNode(n)
  BY <1>2, RemoveTables
<1>3. ASSUME NEW n \in InTree(kids), NEW p \in InTree(kids), kind[n] \in Addressable, kind[p] = Home(kind[n]),
             NEW pos \in Positions(Siblings(kids, p, kind[n])), MoveNode(n, p, pos) \/ CopyNode(n, p, pos)
      PROVE  TablesStep
  BY <1>3, MoveTables, CopyTables
<1> QED BY <1>1, <1>2, <1>3, NextIs

LEMMA TablesStays == CommandsInv /\ TablesInv /\ [Next]_vars => TablesInv'
<1>1. ASSUME CommandsInv, TablesInv, Next PROVE TablesInv'
  BY <1>1, TablesNext DEF TablesStep, TablesInv, Each
<1>2. ASSUME TablesInv, UNCHANGED vars PROVE TablesInv'
  <2>1. kids' = kids /\ kind' = kind /\ addr' = addr /\ shape' = shape
    BY <1>2 DEF vars
  <2> QED BY <1>2, <2>1 DEF TablesInv, Each
<1> QED BY <1>1, <1>2

\* Whatever is added, removed, moved and copied, in any document, the rows of every
\* table in the tree are numbered in their order, and no command parts merged rows
\* but one that puts a row in between (_refresh_table_rows and the refusals by
\* _table_has_vertical_merge).
THEOREM CommandsTablesKept == Spec => TablesKept
<1>1. CommandsInv /\ TablesInv /\ [Next]_vars =>
         [/\ Numbered'
          /\ \A b \in Each("table") \cap InTree(kids') :
                 Whole(b) => Whole(b)' \/ (last'.op \in {"add", "move"} /\ last'.into = b)]_vars
  <2>1. ASSUME CommandsInv, TablesInv, Next
        PROVE  /\ Numbered'
               /\ \A b \in Each("table") \cap InTree(kids') :
                      Whole(b) => Whole(b)' \/ (last'.op \in {"add", "move"} /\ last'.into = b)
    <3>1. TablesStep
      BY <2>1, TablesNext
    <3>2. Numbered'
      BY <3>1 DEF TablesStep, Numbered, InOrder, Each
    <3>3. ASSUME NEW b \in Each("table") \cap InTree(kids'), Whole(b)
          PROVE  Whole(b)' \/ (last'.op \in {"add", "move"} /\ last'.into = b)
      <4>1. b \in Nodes /\ kind[b] = "table"
        BY <2>1, InTreeIs DEF CommandsInv, Formed, Each, Nodes
      <4>2. Whole(b)' \/ RowPut(b)
        BY <3>1, <3>3, <4>1 DEF TablesStep
      <4> QED BY <4>2 DEF RowPut
    <3> QED BY <3>2, <3>3
  <2> QED BY <2>1
<1>2. Init => CommandsInv /\ TablesInv
  BY CommandsInit, TablesInit
<1>3. CommandsInv /\ TablesInv /\ [Next]_vars => (CommandsInv /\ TablesInv)'
  BY CommandsStep, TablesStays
<1> QED BY <1>1, <1>2, <1>3, PTL DEF Spec, TablesKept
=============================================================================
