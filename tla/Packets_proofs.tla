--------------------------- MODULE Packets_proofs ---------------------------
(***************************************************************************)
(* Proofs about packets, on one connection and between gateways.           *)
(*                                                                         *)
(* PacketRead: for any configuration, any stream that a peer may send and  *)
(* any chunks, the packets that are handed over are those that were sent,  *)
(* and no packet that has arrived waits.                                   *)
(*                                                                         *)
(* Routing: for any network, any paths and any loss of connections, a      *)
(* packet is at the place of its path that dest_point names, and comes to  *)
(* a script only at its destination; a request has one end, and while no   *)
(* connection is lost it is not lost either.                               *)
(***************************************************************************)
EXTENDS PacketRead, Routing, TLAPS, SequenceTheorems, FiniteSetTheorems,
        WellFoundedInduction, NaturalsInduction

-----------------------------------------------------------------------------
(* PacketRead: induction *)

(* A set of numbers that has one has a smallest. *)
LEMMA NatMin ==
    ASSUME NEW T, T \subseteq Nat, T # {}
    PROVE  \E x \in T : \A y \in T : x <= y
<1> DEFINE R == OpToRel(<, Nat)
<1>1. IsWellFoundedOn(R, Nat)
  BY NatLessThanWellFounded
<1>2. PICK x \in T : \A y \in T : ~ (<<y, x>> \in R)
  BY <1>1, WFMin
<1>3. ASSUME NEW y \in T PROVE x <= y
  <2>1. ~ (y < x)
    BY <1>2 DEF OpToRel
  <2> QED BY <2>1
<1> QED BY <1>3

(* A set that has 0 and with a number the next has all. *)
LEMMA Induct ==
    ASSUME NEW T, 0 \in T, \A n \in Nat : n \in T => n + 1 \in T
    PROVE  \A n \in Nat : n \in T
<1> SUFFICES ASSUME NEW m \in Nat, m \notin T PROVE FALSE
  OBVIOUS
<1>1. PICK x \in Nat \ T : \A y \in Nat \ T : x <= y
  <2>1. m \in Nat \ T
    OBVIOUS
  <2> QED BY <2>1, NatMin
<1>2. x - 1 \in Nat
  BY <1>1
<1>3. x - 1 \in T
  BY <1>1, <1>2
<1> QED BY <1>1, <1>2, <1>3

-----------------------------------------------------------------------------
(* Sequences *)

(* w is a and then b. *)
IsConcat(w, a, b) == w = a \o b

(* What FlattenSeq computes its result with. *)
Joins(f, ss, n) == f = [i \in 1 .. n |-> IF i = 1 THEN ss[i] ELSE f[i - 1] \o ss[i]]

(* What such a function is at i. *)
LEMMA JoinAt ==
    ASSUME NEW f, NEW ss, NEW n \in Nat, Joins(f, ss, n), NEW i \in 1 .. n
    PROVE  f[i] = IF i = 1 THEN ss[i] ELSE f[i - 1] \o ss[i]
<1> DEFINE e(j) == IF j = 1 THEN ss[j] ELSE f[j - 1] \o ss[j]
<1>1. f = [j \in 1 .. n |-> e(j)]
  BY DEF Joins
<1> HIDE DEF e
<1>2. f[i] = e(i)
  BY <1>1
<1> QED BY <1>2 DEF e

(* There is such a function, for any n. *)
LEMMA JoinExists ==
    ASSUME NEW ss, NEW n \in Nat
    PROVE  \E f : Joins(f, ss, n)
<1> DEFINE T == {m \in Nat : \E f : Joins(f, ss, m)}
<1>1. 0 \in T
  <2> DEFINE f == [i \in 1 .. 0 |-> {}]
  <2>1. Joins(f, ss, 0)
    BY DEF Joins
  <2> QED BY <2>1
<1>2. ASSUME NEW m \in Nat, m \in T PROVE m + 1 \in T
  <2>1. PICK f : Joins(f, ss, m)
    BY <1>2
  <2>2. f = [i \in 1 .. m |-> IF i = 1 THEN ss[i] ELSE f[i - 1] \o ss[i]]
    BY <2>1 DEF Joins
  <2> DEFINE e(i) == IF i = 1 THEN ss[i] ELSE f[i - 1] \o ss[i]
             g == [i \in 1 .. m + 1 |-> e(i)]
  <2>3. \A i \in 1 .. m : g[i] = f[i]
    <3>1. \A i \in 1 .. m : f[i] = e(i)
      BY <2>1, JoinAt
    <3> HIDE DEF e
    <3> QED BY <3>1
  <2>4. \A i \in 1 .. m + 1 : i # 1 => i - 1 \in 1 .. m
    OBVIOUS
  <2> DEFINE h(i) == IF i = 1 THEN ss[i] ELSE g[i - 1] \o ss[i]
  <2>5. \A i \in 1 .. m + 1 : e(i) = h(i)
    <3> HIDE DEF g
    <3> QED BY <2>3, <2>4
  <2>6. g = [i \in 1 .. m + 1 |-> h(i)]
    <3> HIDE DEF e, h
    <3> QED BY <2>5
  <2>7. Joins(g, ss, m + 1)
    <3> HIDE DEF g
    <3> QED BY <2>6 DEF Joins
  <2> QED BY <2>7
<1> HIDE DEF T
<1>3. n \in T
  BY <1>1, <1>2, Induct
<1> QED BY <1>3 DEF T

(* Two of them agree where their sequences do. *)
LEMMA JoinUnique ==
    ASSUME NEW ss, NEW n \in Nat, NEW f, Joins(f, ss, n),
           NEW tt, NEW m \in Nat, NEW g, Joins(g, tt, m), n <= m,
           \A i \in 1 .. n : ss[i] = tt[i]
    PROVE  \A i \in 1 .. n : f[i] = g[i]
<1> DEFINE T == {k \in Nat : k \in 1 .. n => f[k] = g[k]}
<1>1. 0 \in T
  OBVIOUS
<1>2. ASSUME NEW k \in Nat, k \in T PROVE k + 1 \in T
  <2> SUFFICES ASSUME k + 1 \in 1 .. n PROVE f[k + 1] = g[k + 1]
    OBVIOUS
  <2>1. f[k + 1] = IF k + 1 = 1 THEN ss[k + 1] ELSE f[k + 1 - 1] \o ss[k + 1]
    BY JoinAt
  <2>2. g[k + 1] = IF k + 1 = 1 THEN tt[k + 1] ELSE g[k + 1 - 1] \o tt[k + 1]
    <3>1. k + 1 \in 1 .. m
      OBVIOUS
    <3> QED BY <3>1, JoinAt
  <2>3. k + 1 # 1 => f[k + 1 - 1] = g[k + 1 - 1]
    <3>1. k + 1 # 1 => k \in 1 .. n /\ k + 1 - 1 = k
      OBVIOUS
    <3> QED BY <3>1, <1>2
  <2>4. ss[k + 1] = tt[k + 1]
    OBVIOUS
  <2> QED BY <2>1, <2>2, <2>3, <2>4
<1> HIDE DEF T
<1>3. \A k \in Nat : k \in T
  BY <1>1, <1>2, Induct
<1> QED BY <1>3 DEF T

(* FlattenSeq is the last of the values of such a function. *)
LEMMA FlatJoins ==
    ASSUME NEW ss, Len(ss) \in Nat \ {0}
    PROVE  \E f : Joins(f, ss, Len(ss)) /\ FlattenSeq(ss) = f[Len(ss)]
<1> DEFINE f == CHOOSE g : g = [i \in 1 .. Len(ss) |-> IF i = 1 THEN ss[i] ELSE g[i-1] \o ss[i]]
<1>1. \E g : g = [i \in 1 .. Len(ss) |-> IF i = 1 THEN ss[i] ELSE g[i-1] \o ss[i]]
  BY ZenonT(60), JoinExists DEF Joins
<1>2. f = [i \in 1 .. Len(ss) |-> IF i = 1 THEN ss[i] ELSE f[i-1] \o ss[i]]
  BY Zenon, <1>1
<1>3. FlattenSeq(ss) = f[Len(ss)]
  BY DEF FlattenSeq
<1>4. Joins(f, ss, Len(ss))
  BY ZenonT(60), <1>2 DEF Joins
<1> QED BY <1>3, <1>4

(* One step of such a function, as a definition for the provers. *)
JoinNext(f, ss, i) == f[i] = f[i - 1] \o ss[i]
(* The values of such a function follow each other. *)
LEMMA NextJoin ==
    ASSUME NEW f, NEW ss, NEW n \in Nat, Joins(f, ss, n), NEW i \in 1 .. n, i # 1
    PROVE  JoinNext(f, ss, i)
<1>1. f[i] = IF i = 1 THEN ss[i] ELSE f[i - 1] \o ss[i]
  BY ZenonT(60), JoinAt
<1> QED BY <1>1 DEF JoinNext

(* Concatenation is associative. *)
LEMMA ConcatAssoc ==
    ASSUME NEW S, NEW a \in Seq(S), NEW b \in Seq(S), NEW c \in Seq(S)
    PROVE  (a \o b) \o c = a \o (b \o c) /\ b \o c \in Seq(S)
<1>1. (a \o b) \o c = a \o (b \o c)
  BY ConcatAssociative
<1> QED BY <1>1, ConcatProperties

(* Joining from the second sequence on, and then the first in front. *)
LEMMA JoinShift ==
    ASSUME NEW S, NEW n \in Nat \ {0}, NEW N \in Nat, N = n + 1, NEW ss, NEW tt, NEW f, NEW g,
           Joins(f, ss, N), Joins(g, tt, n), \A i \in 1 .. n : tt[i] = ss[i + 1],
           \A i \in 1 .. N : ss[i] \in Seq(S)
    PROVE  f[N] = ss[1] \o g[n] /\ g[n] \in Seq(S)
<1>a. Joins(f, ss, N) /\ Joins(g, tt, n) /\ N \in Nat /\ n \in Nat
  OBVIOUS
<1>1. f[1] = ss[1] /\ g[1] = ss[2] /\ ss[1] \in Seq(S) /\ ss[2] \in Seq(S)
  <2>1. f[1] = IF 1 = 1 THEN ss[1] ELSE f[1 - 1] \o ss[1]
    <3>1. 1 \in 1 .. N
      OBVIOUS
    <3> QED BY ONLY <3>1, <1>a, JoinAt
  <2>2. g[1] = IF 1 = 1 THEN tt[1] ELSE g[1 - 1] \o tt[1]
    <3>1. 1 \in 1 .. n
      OBVIOUS
    <3> QED BY ONLY <3>1, <1>a, JoinAt
  <2>3. tt[1] = ss[2] /\ 1 \in 1 .. N /\ 2 \in 1 .. N
    OBVIOUS
  <2> QED BY <2>1, <2>2, <2>3
<1> DEFINE P(k, m) == f[m] = ss[1] \o g[k] /\ g[k] \in Seq(S)
           T == {k \in Nat : \A i \in 1 .. n, m \in 1 .. N : i = k + 1 /\ m = k + 2 => P(i, m)}
<1>2. 0 \in T
  <2>1. 1 \in 1 .. N /\ 2 \in 1 .. N /\ 2 = 1 + 1
    OBVIOUS
  <2>2. f[2] = f[1] \o ss[2]
    <3>1. 2 \in 1 .. N /\ 2 # 1
      BY <2>1
    <3>2. JoinNext(f, ss, 2)
      BY ONLY <3>1, <1>a, NextJoin
    <3>3. f[2] = f[2 - 1] \o ss[2]
      BY <3>2 DEF JoinNext
    <3> QED BY <3>3
  <2>3. P(1, 2)
    BY <1>1, <2>2
  <2>4. 0 + 1 = 1 /\ 0 + 2 = 2
    OBVIOUS
  <2> HIDE DEF P
  <2> QED BY <2>3, <2>4
<1>3. ASSUME NEW k \in Nat, k \in T PROVE k + 1 \in T
  <2> SUFFICES ASSUME NEW i \in 1 .. n, NEW m \in 1 .. N, i = k + 2, m = k + 3 PROVE P(i, m)
    <3>1. \A i \in 1 .. n, m \in 1 .. N : i = k + 1 + 1 /\ m = k + 1 + 2 => i = k + 2 /\ m = k + 3
      OBVIOUS
    <3> HIDE DEF P
    <3> QED BY <3>1
  <2>1. PICK h \in 1 .. n : h = k + 1 /\ i = h + 1 /\ i \in 1 .. N /\ i = k + 2 /\ m = i + 1
    <3>1. k + 1 \in 1 .. n
      OBVIOUS
    <3> QED BY <3>1
  <2>2. P(h, i)
    <3> HIDE DEF P
    <3> QED BY <1>3, <2>1
  <2>3. f[m] = f[i] \o ss[m]
    <3>1. m \in 1 .. N /\ m # 1 /\ m - 1 = i
      BY <2>1
    <3>2. JoinNext(f, ss, m)
      BY ONLY <3>1, <1>a, NextJoin
    <3>3. f[m] = f[m - 1] \o ss[m]
      BY <3>2 DEF JoinNext
    <3> QED BY <3>1, <3>3
  <2>4. g[i] = g[h] \o tt[i]
    <3>1. i \in 1 .. n /\ i # 1 /\ i - 1 = h
      BY <2>1
    <3>2. JoinNext(g, tt, i)
      BY ONLY <3>1, <1>a, NextJoin
    <3>3. g[i] = g[i - 1] \o tt[i]
      BY <3>2 DEF JoinNext
    <3> QED BY <3>1, <3>3
  <2>5. tt[i] = ss[m]
    BY <2>1
  <2>6. PICK a \in Seq(S), b \in Seq(S), c \in Seq(S) : a = ss[1] /\ b = g[h] /\ c = ss[m]
    BY <1>1, <2>2
  <2>7. (a \o b) \o c = a \o (b \o c) /\ b \o c \in Seq(S)
    BY ONLY ConcatAssoc, a \in Seq(S), b \in Seq(S), c \in Seq(S)
  <2>8. f[m] = (a \o b) \o c /\ g[i] = b \o c
    BY <2>2, <2>3, <2>4, <2>5, <2>6
  <2> QED BY <2>6, <2>7, <2>8
<1> HIDE DEF T
<1>4. \A k \in Nat : k \in T
  BY <1>2, <1>3, Induct
<1>5. P(n, N)
  <2>1. PICK k \in Nat : n = k + 1 /\ N = k + 2
    <3>1. n - 1 \in Nat /\ n = n - 1 + 1 /\ N = n - 1 + 2
      OBVIOUS
    <3> QED BY <3>1
  <2>2. k \in T
    BY <1>4
  <2>3. n \in 1 .. n /\ N \in 1 .. N
    OBVIOUS
  <2> HIDE DEF P
  <2> QED BY <2>1, <2>2, <2>3 DEF T
<1> QED BY <1>5

(* FlattenSeq from the front. *)
LEMMA FlatCons ==
    ASSUME NEW S, NEW n \in Nat, NEW ss, NEW tt, tt \in Seq(Seq(S)),
           Len(ss) = n + 1, Len(tt) = n, \A i \in 1 .. n : tt[i] = ss[i + 1],
           \A i \in 1 .. n + 1 : ss[i] \in Seq(S)
    PROVE  IsConcat(FlattenSeq(ss), ss[1], FlattenSeq(tt)) /\ FlattenSeq(ss) \in Seq(S) /\ FlattenSeq(tt) \in Seq(S)
<1>0. PICK N \in Nat \ {0} : N = n + 1 /\ N = Len(ss)
  OBVIOUS
<1>1. PICK f : Joins(f, ss, N) /\ FlattenSeq(ss) = f[N]
  BY <1>0, FlatJoins
<1>2. ss[1] \in Seq(S)
  OBVIOUS
<1>3. CASE n = 0
  <2>1. tt = <<>>
    BY <1>3
  <2>2. FlattenSeq(tt) = <<>>
    BY <1>3, <2>1 DEF FlattenSeq
  <2>3. N = 1
    BY <1>0, <1>3
  <2>4. f[1] = IF 1 = 1 THEN ss[1] ELSE f[1 - 1] \o ss[1]
    <3>1. Joins(f, ss, 1) /\ 1 \in 1 .. 1
      BY <1>1, <2>3
    <3> QED BY ONLY <3>1, JoinAt
  <2>5. f[N] = ss[1]
    BY <2>3, <2>4
  <2> QED BY <1>1, <1>2, <2>2, <2>5, ConcatEmptySeq, EmptySeq DEF IsConcat
<1>4. CASE n # 0
  <2>1. PICK g : Joins(g, tt, n) /\ FlattenSeq(tt) = g[n]
    BY <1>4, FlatJoins
  <2>2. \A i \in 1 .. N : ss[i] \in Seq(S)
    BY <1>0
  <2>3. n \in Nat \ {0}
    BY <1>4
  <2>4. \A i \in 1 .. n : tt[i] = ss[i + 1]
    OBVIOUS
  <2>5. f[N] = ss[1] \o g[n] /\ g[n] \in Seq(S)
    BY ONLY <1>0, <1>1, <2>1, <2>2, <2>3, <2>4, JoinShift
  <2> QED BY <1>1, <1>2, <2>1, <2>5, ConcatProperties DEF IsConcat
<1> QED BY <1>3, <1>4

(* A prefix agrees at each of its places. *)
LEMMA PrefixIs ==
    ASSUME NEW S, NEW p \in Seq(S), NEW s \in Seq(S)
    PROVE  IsPrefix(p, s) <=> Len(p) <= Len(s) /\ \A j \in 1 .. Len(p) : p[j] = s[j]
<1>1. Len(p) \in Nat /\ Len(s) \in Nat
  OBVIOUS
<1>2. CASE Len(p) <= Len(s)
  <2>1. PICK n \in Nat : n = Len(p)
    BY <1>1
  <2>2. \A i \in 1 .. n : p[i] \in S /\ s[i] \in S
    BY <1>1, <1>2, <2>1
  <2>3. /\ SubSeq(p, 1, n) \in Seq(S) /\ Len(SubSeq(p, 1, n)) = IF 1 <= n THEN n - 1 + 1 ELSE 0
        /\ \A i \in 1 .. n - 1 + 1 : SubSeq(p, 1, n)[i] = p[1 + i - 1]
    BY <2>2, SubSeqProperties
  <2>4. /\ SubSeq(s, 1, n) \in Seq(S) /\ Len(SubSeq(s, 1, n)) = IF 1 <= n THEN n - 1 + 1 ELSE 0
        /\ \A i \in 1 .. n - 1 + 1 : SubSeq(s, 1, n)[i] = s[1 + i - 1]
    BY <2>2, SubSeqProperties
  <2>5. n - 1 + 1 = n /\ \A i \in 1 .. n : 1 + i - 1 = i
    OBVIOUS
  <2>6. Len(SubSeq(p, 1, n)) = n /\ Len(SubSeq(s, 1, n)) = n
    BY <2>3, <2>4
  <2>7. \A i \in 1 .. n : SubSeq(p, 1, n)[i] = p[i] /\ SubSeq(s, 1, n)[i] = s[i]
    BY <2>3, <2>4, <2>5
  <2>8. ASSUME \A j \in 1 .. n : p[j] = s[j] PROVE SubSeq(p, 1, n) = SubSeq(s, 1, n)
    <3>1. \A j \in 1 .. Len(SubSeq(p, 1, n)) : SubSeq(p, 1, n)[j] = SubSeq(s, 1, n)[j]
      BY <2>6, <2>7, <2>8
    <3> QED BY <2>3, <2>4, <2>6, <3>1, SeqEqual
  <2>9. ASSUME SubSeq(p, 1, n) = SubSeq(s, 1, n) PROVE \A j \in 1 .. n : p[j] = s[j]
    BY <2>7, <2>9
  <2> QED BY <1>2, <2>1, <2>8, <2>9 DEF IsPrefix
<1>3. CASE ~(Len(p) <= Len(s))
  BY <1>3 DEF IsPrefix
<1> QED BY <1>2, <1>3

(* What is left when n are taken off the front. *)
LEMMA EraseIs ==
    ASSUME NEW S, NEW s \in Seq(S), NEW n \in 0 .. Len(s)
    PROVE  /\ Erase(s, n) \in Seq(S) /\ Len(Erase(s, n)) = Len(s) - n /\ Len(s) \in Nat
           /\ \A i \in 1 .. Len(s) - n : Erase(s, n)[i] = s[n + i]
<1>1. PICK L \in Nat : L = Len(s)
  OBVIOUS
<1>2. PICK m \in Int : m = n + 1
  OBVIOUS
<1>3. \A i \in m .. L : s[i] \in S
  BY <1>1, <1>2
<1>4. /\ SubSeq(s, m, L) \in Seq(S) /\ Len(SubSeq(s, m, L)) = IF m <= L THEN L - m + 1 ELSE 0
      /\ \A i \in 1 .. L - m + 1 : SubSeq(s, m, L)[i] = s[m + i - 1]
  BY <1>3, SubSeqProperties
<1>5. L - m + 1 = L - n /\ \A i \in 1 .. L - n : m + i - 1 = n + i
  BY <1>1, <1>2
<1>6. Erase(s, n) = SubSeq(s, m, L)
  BY <1>1, <1>2 DEF Erase
<1>7. Len(SubSeq(s, m, L)) = L - n
  BY <1>1, <1>2, <1>4
<1>8. \A i \in 1 .. L - n : SubSeq(s, m, L)[i] = s[n + i]
  BY <1>4, <1>5
<1> QED BY <1>1, <1>4, <1>6, <1>7, <1>8

(* The first n, and what they are. *)
LEMMA FrontIs ==
    ASSUME NEW S, NEW s \in Seq(S), NEW n \in 0 .. Len(s)
    PROVE  /\ SubSeq(s, 1, n) \in Seq(S) /\ Len(SubSeq(s, 1, n)) = n /\ Len(s) \in Nat
           /\ \A i \in 1 .. n : SubSeq(s, 1, n)[i] = s[i]
<1>1. PICK L \in Nat : L = Len(s)
  OBVIOUS
<1>2. \A i \in 1 .. n : s[i] \in S
  BY <1>1
<1>3. n \in Nat
  OBVIOUS
<1>4. /\ SubSeq(s, 1, n) \in Seq(S) /\ Len(SubSeq(s, 1, n)) = IF 1 <= n THEN n - 1 + 1 ELSE 0
      /\ \A i \in 1 .. n - 1 + 1 : SubSeq(s, 1, n)[i] = s[1 + i - 1]
  BY <1>2, <1>3, SubSeqProperties
<1>5. n - 1 + 1 = n /\ \A i \in 1 .. n : 1 + i - 1 = i
  BY <1>3
<1>6. Len(SubSeq(s, 1, n)) = n
  BY <1>3, <1>4
<1>7. \A i \in 1 .. n : SubSeq(s, 1, n)[i] = s[i]
  BY <1>4, <1>5
<1> QED BY <1>1, <1>4, <1>6, <1>7

(* A sequence is its front and what is left. *)
LEMMA SplitIs ==
    ASSUME NEW S, NEW s \in Seq(S), NEW n \in 0 .. Len(s)
    PROVE  s = SubSeq(s, 1, n) \o Erase(s, n)
<1>1. PICK L \in Nat : L = Len(s)
  OBVIOUS
<1>2. 1 \in 1 .. L + 1 /\ n \in 1 - 1 .. L /\ L \in n .. L
  BY <1>1
<1>3. SubSeq(s, 1, n) \o SubSeq(s, n + 1, L) = SubSeq(s, 1, L)
  BY <1>1, <1>2, ConcatAdjacentSubSeq
<1> QED BY <1>1, <1>3, SubSeqFull DEF Erase

(* Two ways to cut the same sequence. *)
Same(x, r, b, c) == x \o r = b \o c
(* If x begins what b and c make and is no longer than b, it is the front  *)
(* of b, and the rest goes on.                                             *)
LEMMA CutFront ==
    ASSUME NEW S, NEW x \in Seq(S), NEW r \in Seq(S), NEW b \in Seq(S), NEW c \in Seq(S),
           Same(x, r, b, c), Len(x) <= Len(b)
    PROVE  SubSeq(b, 1, Len(x)) = x /\ Erase(b, Len(x)) \in Seq(S) /\ IsConcat(r, Erase(b, Len(x)), c)
<1>0. x \o r = b \o c
  BY DEF Same
<1>1. PICK n \in Nat : n = Len(x) /\ n \in 0 .. Len(b)
  OBVIOUS
<1>2. /\ SubSeq(b, 1, n) \in Seq(S) /\ Len(SubSeq(b, 1, n)) = n
      /\ \A i \in 1 .. n : SubSeq(b, 1, n)[i] = b[i]
  BY <1>1, FrontIs
<1>3. \A i \in 1 .. n : b[i] = x[i]
  <2>1. \A i \in 1 .. n : (x \o r)[i] = x[i]
    BY <1>1
  <2>2. \A i \in 1 .. n : (b \o c)[i] = b[i]
    BY <1>1
  <2> QED BY <1>0, <2>1, <2>2
<1>4. SubSeq(b, 1, n) = x
  <2>1. \A i \in 1 .. Len(x) : SubSeq(b, 1, n)[i] = x[i]
    BY <1>1, <1>2, <1>3
  <2>2. Len(SubSeq(b, 1, n)) = Len(x)
    BY <1>1, <1>2
  <2> QED BY <1>2, <2>1, <2>2, SeqEqual
<1>5. PICK e \in Seq(S) : e = Erase(b, n) /\ b = x \o e
  <2>1. Erase(b, n) \in Seq(S)
    BY <1>1, EraseIs
  <2>2. b = SubSeq(b, 1, n) \o Erase(b, n)
    BY <1>1, SplitIs
  <2> QED BY <2>1, <2>2, <1>4
<1>6. x \o (e \o c) = x \o r
  <2>1. (x \o e) \o c = x \o (e \o c)
    BY SMTT(30), ConcatAssociative
  <2> QED BY <1>0, <1>5, <2>1
<1>7. e \o c \in Seq(S)
  BY ConcatProperties
<1>8. e \o c = r
  BY <1>6, <1>7, ConcatSimplifications
<1> QED BY <1>1, <1>4, <1>5, <1>8 DEF IsConcat

(* What begins the same sequence agrees as far as both go. *)
LEMMA SameFront ==
    ASSUME NEW S, NEW x \in Seq(S), NEW r \in Seq(S), NEW b \in Seq(S), NEW c \in Seq(S),
           x \o r = b \o c, NEW j \in 1 .. Len(x), j <= Len(b)
    PROVE  b[j] = x[j]
<1>1. (x \o r)[j] = x[j]
  OBVIOUS
<1>2. (b \o c)[j] = b[j]
  OBVIOUS
<1> QED BY <1>1, <1>2

(* Bytes taken off the buffer are taken off all that is to come. *)
LEMMA EraseFront ==
    ASSUME NEW S, NEW b \in Seq(S), NEW c \in Seq(S), NEW n \in 0 .. Len(b)
    PROVE  Erase(b, n) \o c = Erase(b \o c, n)
<1>1. PICK w \in Seq(S) : w = b \o c /\ Len(w) = Len(b) + Len(c) /\ Len(b) \in Nat /\ Len(c) \in Nat
  BY ConcatProperties, LenProperties
<1>2. n \in 0 .. Len(w) /\ n \in Nat
  BY <1>1
<1>3. PICK x \in Seq(S) : x = SubSeq(w, 1, n) /\ Len(x) = n /\ \A i \in 1 .. n : x[i] = w[i]
  BY ZenonT(60), <1>2, FrontIs
<1>4. PICK r \in Seq(S) : r = Erase(w, n) /\ w = x \o r
  BY <1>2, <1>3, EraseIs, SplitIs
<1>5. Same(x, r, b, c)
  BY <1>1, <1>4 DEF Same
<1>6. Len(x) <= Len(b)
  BY <1>1, <1>3
<1>7. IsConcat(r, Erase(b, Len(x)), c)
  BY <1>5, <1>6, CutFront
<1> QED BY <1>1, <1>3, <1>4, <1>7 DEF IsConcat
-----------------------------------------------------------------------------
(* Items and their bytes *)

(* The type of FlattenSeq. *)
LEMMA FlatType ==
    ASSUME NEW S, NEW tt \in Seq(Seq(S))
    PROVE  FlattenSeq(tt) \in Seq(S)
<1>1. CASE tt = <<>>
  BY <1>1, EmptySeq DEF FlattenSeq
<1>2. CASE tt # <<>>
  <2>1. PICK n \in Nat : Len(tt) = n + 1
    <3>1. Len(tt) \in Nat \ {0}
      BY <1>2
    <3>2. Len(tt) - 1 \in Nat /\ Len(tt) = Len(tt) - 1 + 1
      BY <3>1
    <3> QED BY <3>2
  <2>2. PICK r : r = Tail(tt)
    OBVIOUS
  <2>3. r \in Seq(Seq(S)) /\ Len(r) = n /\ \A i \in 1 .. n : r[i] = tt[i + 1]
    BY <1>2, <2>1, <2>2
  <2>4. \A i \in 1 .. n + 1 : tt[i] \in Seq(S)
    BY <2>1
  <2>5. n \in Nat /\ Len(tt) = n + 1
    BY <2>1
  <2> QED BY ONLY <2>3, <2>4, <2>5, FlatCons
<1> QED BY <1>1, <1>2

(* What an item is. *)
LEMMA ItemIs ==
    ASSUME NEW it \in ItemSet
    PROVE  /\ it.junk \in BOOLEAN /\ it.bytes \in Seq(Nat) /\ it.bytes # <<>>
           /\ Len(it.bytes) \in Nat \ {0} /\ DOMAIN it.bytes = 1 .. Len(it.bytes)
           /\ \A j \in 1 .. Len(it.bytes) : it.bytes[j] \in Nat
<1>1. it.junk \in BOOLEAN /\ it.bytes \in Seq(Nat) /\ it.bytes # <<>>
  BY DEF ItemSet
<1> QED BY <1>1

(* The packets of one item: itself, or none. *)
PacketOf(it) == IF it.junk THEN <<>> ELSE <<it.bytes>>

(* Their type. *)
LEMMA PacketIs ==
    ASSUME NEW it \in ItemSet
    PROVE  PacketOf(it) \in Seq(Seq(Nat))
  BY ItemIs DEF PacketOf

(* The types of the bytes and of the packets of items. *)
LEMMA BytesType ==
    ASSUME NEW its \in Seq(ItemSet)
    PROVE  Bytes(its) \in Seq(Nat) /\ Packets(its) \in Seq(Seq(Nat))
<1> DEFINE bs == [i \in DOMAIN its |-> its[i].bytes]
           ps == [i \in DOMAIN its |-> IF its[i].junk THEN <<>> ELSE <<its[i].bytes>>]
<1>1. PICK n \in Nat : n = Len(its) /\ DOMAIN its = 1 .. n
  OBVIOUS
<1>2. \A i \in 1 .. n : its[i] \in ItemSet
  BY <1>1
<1>3. bs \in Seq(Seq(Nat))
  <2>1. \A i \in 1 .. n : its[i].bytes \in Seq(Nat)
    BY <1>2, ItemIs
  <2>2. bs \in [1 .. n -> Seq(Nat)]
    BY <1>1, <2>1
  <2> HIDE DEF bs
  <2> QED BY <2>2
<1>4. ps \in Seq(Seq(Seq(Nat)))
  <2> DEFINE e(i) == IF its[i].junk THEN <<>> ELSE <<its[i].bytes>>
  <2>1. \A i \in 1 .. n : e(i) \in Seq(Seq(Nat))
    BY <1>2, PacketIs DEF PacketOf
  <2> HIDE DEF e
  <2>2. [i \in 1 .. n |-> e(i)] \in [1 .. n -> Seq(Seq(Nat))]
    BY <2>1
  <2>3. [i \in 1 .. n |-> e(i)] \in Seq(Seq(Seq(Nat)))
    BY <2>2
  <2> QED BY <1>1, <2>3 DEF e
<1>5. FlattenSeq(bs) \in Seq(Nat)
  <2> HIDE DEF bs
  <2> QED BY <1>3, FlatType
<1>6. FlattenSeq(ps) \in Seq(Seq(Nat))
  <2> HIDE DEF ps
  <2> QED BY <1>4, FlatType
<1> QED BY <1>5, <1>6 DEF Bytes, Packets

(* No items have no bytes and no packets. *)
LEMMA NoItems == Bytes(<<>>) = <<>> /\ Packets(<<>>) = <<>>
<1>1. [i \in DOMAIN <<>> |-> <<>>[i].bytes] = <<>>
  OBVIOUS
<1>2. [i \in DOMAIN <<>> |-> IF <<>>[i].junk THEN <<>> ELSE << <<>>[i].bytes >>] = <<>>
  OBVIOUS
<1>3. FlattenSeq(<<>>) = <<>>
  BY DEF FlattenSeq
<1> QED BY <1>1, <1>2, <1>3 DEF Bytes, Packets

(* What the tail of a sequence is. *)
LEMMA TailIs ==
    ASSUME NEW S, NEW s \in Seq(S), s # <<>>
    PROVE  /\ Tail(s) \in Seq(S) /\ Len(s) \in Nat \ {0} /\ Len(Tail(s)) = Len(s) - 1 /\ s[1] \in S
           /\ DOMAIN s = 1 .. Len(s) /\ DOMAIN Tail(s) = 1 .. Len(s) - 1
           /\ \A i \in 1 .. Len(s) - 1 : Tail(s)[i] = s[i + 1]
  OBVIOUS

(* The bytes and the packets of items are those of the first and then of   *)
(* the others.                                                             *)
LEMMA BytesCons ==
    ASSUME NEW its \in Seq(ItemSet), its # <<>>
    PROVE  /\ IsConcat(Bytes(its), its[1].bytes, Bytes(Tail(its)))
           /\ IsConcat(Packets(its), PacketOf(its[1]), Packets(Tail(its)))
<1>1. PICK t \in Seq(ItemSet) : t = Tail(its)
  BY Zenon, TailIs
<1>2. PICK n \in Nat : Len(t) = n /\ Len(its) = n + 1 /\ DOMAIN its = 1 .. n + 1 /\ DOMAIN t = 1 .. n
                       /\ \A i \in 1 .. n : t[i] = its[i + 1]
  <2>1. Len(its) - 1 \in Nat /\ Len(its) = Len(its) - 1 + 1
    BY TailIs
  <2> QED BY Zenon, <1>1, <2>1, TailIs
<1>3. \A i \in 1 .. n + 1 : its[i] \in ItemSet
  BY <1>2
<1>4. \A i \in 1 .. n : t[i] \in ItemSet /\ i + 1 \in 1 .. n + 1
  BY <1>2
<1>5. 1 \in 1 .. n + 1
  OBVIOUS
<1>6. Bytes(its) = its[1].bytes \o Bytes(t)
  <2> DEFINE e(i) == its[i].bytes
             h(i) == t[i].bytes
             bs == [i \in 1 .. n + 1 |-> e(i)]
             cs == [i \in 1 .. n |-> h(i)]
  <2>1. (\A i \in 1 .. n + 1 : e(i) \in Seq(Nat)) /\ \A i \in 1 .. n : h(i) \in Seq(Nat) /\ h(i) = e(i + 1)
    BY <1>2, <1>3, <1>4, ItemIs
  <2> HIDE DEF e, h
  <2>2. cs \in [1 .. n -> Seq(Nat)] /\ bs \in [1 .. n + 1 -> Seq(Nat)]
    BY <2>1
  <2>3. cs \in Seq(Seq(Nat)) /\ Len(bs) = n + 1 /\ Len(cs) = n
    BY <2>2
  <2>4. (\A i \in 1 .. n : cs[i] = bs[i + 1]) /\ (\A i \in 1 .. n + 1 : bs[i] \in Seq(Nat)) /\ bs[1] = e(1)
    BY <2>1, <1>4, <1>5
  <2> HIDE DEF bs, cs
  <2>5. n \in Nat
    OBVIOUS
  <2>6. IsConcat(FlattenSeq(bs), bs[1], FlattenSeq(cs))
    BY ONLY <2>3, <2>4, <2>5, FlatCons
  <2>7. Bytes(its) = FlattenSeq(bs) /\ Bytes(t) = FlattenSeq(cs)
    BY <1>2 DEF Bytes, bs, cs, e, h
  <2> QED BY <2>4, <2>6, <2>7 DEF e, IsConcat
<1>7. Packets(its) = PacketOf(its[1]) \o Packets(t)
  <2> DEFINE e(i) == PacketOf(its[i])
             h(i) == PacketOf(t[i])
             bs == [i \in 1 .. n + 1 |-> e(i)]
             cs == [i \in 1 .. n |-> h(i)]
  <2>1. (\A i \in 1 .. n + 1 : e(i) \in Seq(Seq(Nat))) /\ \A i \in 1 .. n : h(i) \in Seq(Seq(Nat)) /\ h(i) = e(i + 1)
    BY <1>2, <1>3, <1>4, PacketIs
  <2> HIDE DEF e, h
  <2>2. cs \in [1 .. n -> Seq(Seq(Nat))] /\ bs \in [1 .. n + 1 -> Seq(Seq(Nat))]
    BY <2>1
  <2>3. cs \in Seq(Seq(Seq(Nat))) /\ Len(bs) = n + 1 /\ Len(cs) = n
    BY <2>2
  <2>4. (\A i \in 1 .. n : cs[i] = bs[i + 1]) /\ (\A i \in 1 .. n + 1 : bs[i] \in Seq(Seq(Nat))) /\ bs[1] = e(1)
    BY <2>1, <1>4, <1>5
  <2> HIDE DEF bs, cs
  <2>5. n \in Nat
    OBVIOUS
  <2>6. IsConcat(FlattenSeq(bs), bs[1], FlattenSeq(cs))
    BY ONLY <2>3, <2>4, <2>5, FlatCons
  <2>7. Packets(its) = FlattenSeq(bs) /\ Packets(t) = FlattenSeq(cs)
    BY <1>2 DEF Packets, bs, cs, e, h, PacketOf
  <2> QED BY <2>4, <2>6, <2>7 DEF e, IsConcat
<1> QED BY <1>1, <1>6, <1>7 DEF IsConcat

(* An item in front of items. *)
LEMMA ConsIs ==
    ASSUME NEW it \in ItemSet, NEW t \in Seq(ItemSet)
    PROVE  \E s \in Seq(ItemSet) :
              /\ s # <<>> /\ s[1] = it /\ Tail(s) = t /\ Len(s) = Len(t) + 1
              /\ \A i \in 1 .. Len(t) : s[i + 1] = t[i]
<1>1. PICK s : s = <<it>> \o t
  OBVIOUS
<1>2. s \in Seq(ItemSet) /\ Len(s) = Len(t) + 1 /\ s[1] = it /\ \A i \in 1 .. Len(t) : s[i + 1] = t[i]
  BY <1>1
<1>3. s # <<>>
  BY <1>2
<1>4. Tail(s) = t
  <2>1. Tail(s) \in Seq(ItemSet) /\ Len(Tail(s)) = Len(t) /\ \A i \in 1 .. Len(t) : Tail(s)[i] = t[i]
    BY <1>2, <1>3
  <2> QED BY <2>1, SeqEqual
<1> QED BY <1>2, <1>3, <1>4
-----------------------------------------------------------------------------
(* Nothing taken off is all of it. *)
LEMMA EraseNone ==
    ASSUME NEW S, NEW s \in Seq(S)
    PROVE  Erase(s, 0) = s
  BY SubSeqFull DEF Erase

(* One taken off is the tail. *)
LEMMA EraseOne ==
    ASSUME NEW S, NEW s \in Seq(S), s # <<>>
    PROVE  Erase(s, 1) = Tail(s)
<1>1. Tail(s) = SubSeq(s, 2, Len(s))
  BY TailIsSubSeq
<1> QED BY <1>1 DEF Erase

(* m taken off and then n are m + n. *)
LEMMA EraseErase ==
    ASSUME NEW S, NEW s \in Seq(S), NEW m \in 0 .. Len(s), NEW n \in 0 .. Len(s) - m
    PROVE  Erase(Erase(s, m), n) = Erase(s, m + n)
<1>1. PICK L \in Nat : L = Len(s)
  OBVIOUS
<1>2. PICK k \in 0 .. L : k = m + n /\ k \in Nat /\ m \in Nat /\ n \in Nat
  BY <1>1
<1>a. PICK t : t = Erase(s, m)
  OBVIOUS
<1>3. t \in Seq(S) /\ Len(t) = L - m /\ \A i \in 1 .. L - m : t[i] = s[m + i]
  <2>1. /\ Erase(s, m) \in Seq(S) /\ Len(Erase(s, m)) = Len(s) - m
        /\ \A i \in 1 .. Len(s) - m : Erase(s, m)[i] = s[m + i]
    BY EraseIs
  <2> QED BY <1>1, <1>a, <2>1
<1>b. PICK u : u = Erase(t, n)
  OBVIOUS
<1>4. u \in Seq(S) /\ Len(u) = L - k /\ \A i \in 1 .. L - k : u[i] = t[n + i]
  <2>1. n \in 0 .. Len(t) /\ Len(t) - n = L - k
    BY <1>1, <1>2, <1>3
  <2>2. /\ Erase(t, n) \in Seq(S) /\ Len(Erase(t, n)) = Len(t) - n
        /\ \A i \in 1 .. Len(t) - n : Erase(t, n)[i] = t[n + i]
    BY <1>3, <2>1, EraseIs
  <2> QED BY <1>b, <2>1, <2>2
<1>c. PICK v : v = Erase(s, k)
  OBVIOUS
<1>5. v \in Seq(S) /\ Len(v) = L - k /\ \A i \in 1 .. L - k : v[i] = s[k + i]
  <2>1. k \in 0 .. Len(s)
    BY <1>1
  <2>2. /\ Erase(s, k) \in Seq(S) /\ Len(Erase(s, k)) = Len(s) - k
        /\ \A i \in 1 .. Len(s) - k : Erase(s, k)[i] = s[k + i]
    BY <2>1, EraseIs
  <2> QED BY <1>1, <1>c, <2>2
<1>6. ASSUME NEW i \in 1 .. L - k PROVE u[i] = v[i]
  <2>1. n + i \in 1 .. L - m /\ m + (n + i) = k + i
    BY <1>2
  <2> QED BY <2>1, <1>3, <1>4, <1>5
<1>7. u = v
  BY <1>4, <1>5, <1>6, SeqEqual
<1> QED BY <1>2, <1>a, <1>b, <1>c, <1>7

(* The places of a concatenation. *)
LEMMA ConcatIs ==
    ASSUME NEW S, NEW a \in Seq(S), NEW b \in Seq(S), NEW w, IsConcat(w, a, b)
    PROVE  /\ w \in Seq(S) /\ Len(a) \in Nat /\ Len(b) \in Nat /\ Len(w) = Len(a) + Len(b)
           /\ \A j \in 1 .. Len(a) : w[j] = a[j]
           /\ \A j \in 1 .. Len(b) : w[Len(a) + j] = b[j]
  BY DEF IsConcat

(* Without the first part, the second is left. *)
LEMMA ConcatRest ==
    ASSUME NEW S, NEW a \in Seq(S), NEW b \in Seq(S), NEW w, IsConcat(w, a, b)
    PROVE  Erase(w, Len(a)) = b
<1>1. /\ w \in Seq(S) /\ Len(a) \in Nat /\ Len(b) \in Nat /\ Len(w) = Len(a) + Len(b)
      /\ \A j \in 1 .. Len(b) : w[Len(a) + j] = b[j]
  BY ConcatIs
<1>2. PICK n \in 0 .. Len(w) : n = Len(a)
  BY <1>1
<1>a. PICK e : e = Erase(w, n)
  OBVIOUS
<1>3. e \in Seq(S) /\ Len(e) = Len(w) - n /\ \A i \in 1 .. Len(w) - n : e[i] = w[n + i]
  <2>1. /\ Erase(w, n) \in Seq(S) /\ Len(Erase(w, n)) = Len(w) - n
        /\ \A i \in 1 .. Len(w) - n : Erase(w, n)[i] = w[n + i]
    BY <1>1, EraseIs
  <2> QED BY <1>a, <2>1
<1>4. Len(e) = Len(b) /\ \A i \in 1 .. Len(e) : e[i] = b[i]
  BY <1>1, <1>2, <1>3
<1>5. e = b
  BY <1>3, <1>4, SeqEqual
<1> QED BY <1>2, <1>a, <1>5

(* Taken off the first part. *)
LEMMA ConcatErase ==
    ASSUME NEW S, NEW a \in Seq(S), NEW b \in Seq(S), NEW w, IsConcat(w, a, b), NEW n \in 0 .. Len(a)
    PROVE  IsConcat(Erase(w, n), Erase(a, n), b)
<1>1. w = a \o b
  BY DEF IsConcat
<1>2. Erase(a, n) \o b = Erase(a \o b, n)
  BY EraseFront
<1> QED BY <1>1, <1>2 DEF IsConcat

(* What begins with y and goes on as p. *)
LEMMA ConcatOne ==
    ASSUME NEW S, NEW y \in S, NEW p \in Seq(S), NEW w, IsConcat(w, <<y>>, p)
    PROVE  w \in Seq(S) /\ w # <<>> /\ w[1] = y /\ Tail(w) = p /\ Len(w) = Len(p) + 1
<1>1. <<y>> \in Seq(S) /\ Len(<<y>>) = 1 /\ <<y>>[1] = y
  OBVIOUS
<1>2. w = <<y>> \o p
  BY DEF IsConcat
<1>3. w \in Seq(S) /\ Len(w) = Len(p) + 1 /\ w[1] = y
  BY <1>2
<1>4. w # <<>>
  BY <1>3
<1>5. Erase(w, 1) = p
  BY <1>1, ConcatRest
<1>6. Erase(w, 1) = Tail(w)
  BY <1>3, <1>4, EraseOne
<1> QED BY <1>3, <1>4, <1>5, <1>6

(* Of what is left behind k, the first and the rest. *)
LEMMA EraseNext ==
    ASSUME NEW S, NEW s \in Seq(S), NEW k \in 0 .. Len(s), Erase(s, k) # <<>>
    PROVE  k + 1 \in 1 .. Len(s) /\ Erase(s, k)[1] = s[k + 1] /\ Tail(Erase(s, k)) = Erase(s, k + 1)
<1>1. /\ Erase(s, k) \in Seq(S) /\ Len(Erase(s, k)) = Len(s) - k /\ Len(s) \in Nat
      /\ \A i \in 1 .. Len(s) - k : Erase(s, k)[i] = s[k + i]
  BY EraseIs
<1>2. PICK e \in Seq(S) : e = Erase(s, k)
  BY <1>1
<1>3. Len(e) \in Nat \ {0}
  BY <1>2
<1>4. k + 1 \in 1 .. Len(s) /\ 1 \in 1 .. Len(s) - k /\ 1 \in 0 .. Len(s) - k
  BY <1>1, <1>2, <1>3
<1>5. Erase(e, 1) = Tail(e)
  BY <1>2, EraseOne
<1>6. Erase(Erase(s, k), 1) = Erase(s, k + 1)
  BY <1>4, EraseErase
<1> QED BY <1>1, <1>2, <1>4, <1>5, <1>6

-----------------------------------------------------------------------------
(* Items that may follow *)

Ok(items, n) == \A i \in n .. Len(items) : First(conf, Dispatched, From(items, i))
(* The items are such as the peer may send from here on, the first one too *)
(* if n is 1.                                                              *)
Good(items, n) ==
    /\ items \in Seq(ItemSet) /\ Ok(items, n)
    /\ Dispatched => Known(conf, items)

(* From(its, i) and the tail. *)
LEMMA FromIs ==
    ASSUME NEW its \in Seq(ItemSet)
    PROVE  /\ From(its, 1) = its
           /\ its # <<>> => \A i \in 1 .. Len(its) - 1 : From(Tail(its), i) = From(its, i + 1)
<1>1. From(its, 1) = its
  BY SubSeqFull DEF From
<1>2. ASSUME its # <<>>, NEW i \in 1 .. Len(its) - 1 PROVE From(Tail(its), i) = From(its, i + 1)
  <2>1. PICK t \in Seq(ItemSet) : t = Tail(its) /\ Len(t) = Len(its) - 1 /\ Len(its) \in Nat
    BY <1>2, TailIs
  <2>2. t = Erase(its, 1)
    BY <1>2, <2>1, EraseOne
  <2>3. 1 \in 0 .. Len(its) /\ i - 1 \in 0 .. Len(its) - 1 /\ 1 + (i - 1) = i /\ i - 1 + 1 = i
    BY <1>2, <2>1
  <2>4. Erase(Erase(its, 1), i - 1) = Erase(its, 1 + (i - 1))
    BY <2>3, EraseErase
  <2>5. From(t, i) = Erase(t, i - 1) /\ From(its, i + 1) = Erase(its, i)
    BY <2>3 DEF From, Erase
  <2> QED BY <2>1, <2>2, <2>3, <2>4, <2>5
<1> QED BY <1>1, <1>2

(* Items may follow when the first may and the others may. *)
LEMMA OkTail ==
    ASSUME NEW its \in Seq(ItemSet), its # <<>>
    PROVE  /\ Ok(its, 1) => First(conf, Dispatched, its) /\ Ok(its, 2)
           /\ Ok(its, 2) <=> Ok(Tail(its), 1)
           /\ First(conf, Dispatched, its) /\ Ok(its, 2) => Ok(its, 1)
<1>1. PICK n \in Nat \ {0} : n = Len(its) /\ Len(Tail(its)) = n - 1 /\ 1 \in 1 .. n
  BY TailIs
<1>2. From(its, 1) = its /\ \A i \in 1 .. n - 1 : From(Tail(its), i) = From(its, i + 1)
  BY <1>1, FromIs
<1>3. (\A i \in 2 .. n : i \in 1 .. n) /\ (\A i \in 1 .. n : i = 1 \/ i \in 2 .. n)
      /\ (\A i \in 1 .. n - 1 : i + 1 \in 2 .. n) /\ (\A i \in 2 .. n : i - 1 \in 1 .. n - 1 /\ i - 1 + 1 = i)
  BY <1>1
<1> DEFINE F(i) == First(conf, Dispatched, From(its, i))
           G(i) == First(conf, Dispatched, From(Tail(its), i))
<1>4. F(1) <=> First(conf, Dispatched, its)
  BY <1>2
<1>5. \A i \in 1 .. n - 1 : G(i) <=> F(i + 1)
  BY <1>2
<1>6. (Ok(its, 1) <=> \A i \in 1 .. n : F(i)) /\ (Ok(its, 2) <=> \A i \in 2 .. n : F(i))
      /\ (Ok(Tail(its), 1) <=> \A i \in 1 .. n - 1 : G(i))
  BY <1>1 DEF Ok
<1> HIDE DEF F, G
<1>7. (\A i \in 2 .. n : F(i)) <=> (\A i \in 1 .. n - 1 : G(i))
  <2>1. ASSUME \A i \in 2 .. n : F(i), NEW i \in 1 .. n - 1 PROVE G(i)
    BY <1>3, <1>5, <2>1
  <2>2. ASSUME \A i \in 1 .. n - 1 : G(i), NEW i \in 2 .. n PROVE F(i)
    <3>1. PICK j \in 1 .. n - 1 : j + 1 = i
      BY <1>3
    <3> QED BY <1>5, <2>2, <3>1
  <2> QED BY <2>1, <2>2
<1>8. (\A i \in 1 .. n : F(i)) <=> F(1) /\ \A i \in 2 .. n : F(i)
  BY <1>1, <1>3
<1> QED BY <1>4, <1>6, <1>7, <1>8

(* The others still may follow. *)
LEMMA GoodTail ==
    ASSUME NEW its, Good(its, 2), its # <<>>
    PROVE  Good(Tail(its), 1)
<1>1. its \in Seq(ItemSet) /\ Ok(Tail(its), 1) /\ Tail(its) \in Seq(ItemSet)
  BY OkTail, TailIs DEF Good
<1>2. ASSUME Known(conf, its) PROVE Known(conf, Tail(its))
  <2>1. ASSUME NEW i \in 1 .. Len(its) - 1
        PROVE  ToSet(Tail(its)[i].bytes) \subseteq conf.known
    <3>1. Tail(its)[i] = its[i + 1] /\ i + 1 \in DOMAIN its
      BY <1>1, TailIs
    <3> QED BY <1>2, <3>1 DEF Known
  <2>2. DOMAIN Tail(its) = 1 .. Len(its) - 1
    BY <1>1, TailIs
  <2> QED BY <2>1, <2>2 DEF Known
<1> QED BY <1>1, <1>2 DEF Good

(* What is known of the first item and of the others. *)
LEMMA GoodFirst ==
    ASSUME NEW its, Good(its, 1), its # <<>>
    PROVE  First(conf, Dispatched, its) /\ Good(its, 2) /\ Good(Tail(its), 1)
<1>1. First(conf, Dispatched, its) /\ Good(its, 2)
  BY OkTail DEF Good
<1> QED BY <1>1, GoodTail

(* An item in front of items that may follow. *)
LEMMA GoodCons ==
    ASSUME NEW it \in ItemSet, NEW t, Good(t, 1), Dispatched => ToSet(it.bytes) \subseteq conf.known,
           NEW s \in Seq(ItemSet), s # <<>>, s[1] = it, Tail(s) = t, First(conf, Dispatched, s)
    PROVE  Good(s, 1)
<1>1. Ok(s, 1)
  BY OkTail DEF Good
<1>2. ASSUME Known(conf, t), ToSet(it.bytes) \subseteq conf.known PROVE Known(conf, s)
  <2>1. ASSUME NEW i \in DOMAIN s PROVE ToSet(s[i].bytes) \subseteq conf.known
    <3>1. CASE i = 1
      BY <1>2, <3>1
    <3>2. CASE i # 1
      <4>1. PICK j \in 1 .. Len(s) - 1 : i = j + 1
        <5>1. i - 1 \in 1 .. Len(s) - 1 /\ i = i - 1 + 1
          BY <3>2, TailIs
        <5> QED BY <5>1
      <4>2. j \in DOMAIN t /\ t[j] = s[i]
        BY <4>1, TailIs
      <4> QED BY <1>2, <4>2 DEF Known
    <3> QED BY <3>1, <3>2
  <2> QED BY <2>1 DEF Known
<1> QED BY <1>1, <1>2 DEF Good
-----------------------------------------------------------------------------
(* What the items that follow have to do with what was handed over *)

(* Sequences of packets. *)
Strings == Seq(Seq(Nat))

(* What was handed over are some of the first k that are due, in their     *)
(* order, and all of them if nothing gets lost.                            *)
Some(f, k) ==
    /\ f \in [1 .. Len(loaded) -> 1 .. k]
    /\ \A i \in 1 .. Len(loaded) : loaded[i] = due[f[i]]
    /\ \A i, j \in 1 .. Len(loaded) : i < j => f[i] < f[j]
(* What was handed over when the first k that are due were passed. *)
Got(k) ==
    /\ Dispatched => Len(loaded) = k /\ \A i \in 1 .. k : loaded[i] = due[i]
    /\ \E f : Some(f, k)
(* The items are what is due from k on, and what was handed over is what   *)
(* was due before.                                                         *)
Follows(items) == \E k \in 0 .. Len(due) : Packets(items) = Erase(due, k) /\ Got(k)

(* Bytes to skip are no packet. *)
LEMMA JunkFirst ==
    ASSUME NEW its \in Seq(ItemSet), its # <<>>, its[1].junk
    PROVE  Packets(its) = Packets(Tail(its))
<1>1. IsConcat(Packets(its), PacketOf(its[1]), Packets(Tail(its))) /\ PacketOf(its[1]) = <<>>
  BY BytesCons DEF PacketOf
<1>2. Packets(Tail(its)) \in Seq(Seq(Nat))
  BY TailIs, BytesType
<1> QED BY <1>1, <1>2, ConcatEmptySeq DEF IsConcat

(* The first item is the first packet, if it is one. *)
LEMMA PacketFirst ==
    ASSUME NEW its \in Seq(ItemSet), its # <<>>, ~its[1].junk
    PROVE  /\ Packets(its) # <<>> /\ Packets(its)[1] = its[1].bytes
           /\ Tail(Packets(its)) = Packets(Tail(its))
<1>1. IsConcat(Packets(its), <<its[1].bytes>>, Packets(Tail(its)))
  BY BytesCons DEF PacketOf
<1>2. Packets(Tail(its)) \in Seq(Seq(Nat))
  BY TailIs, BytesType
<1>3. its[1].bytes \in Seq(Nat)
  BY TailIs, ItemIs
<1> QED BY <1>1, <1>2, <1>3, ConcatOne

(* The first that follows is the next that is due. *)
LEMMA NextDue ==
    ASSUME NEW its \in Seq(ItemSet), its # <<>>, ~its[1].junk, due \in Strings,
           NEW k \in 0 .. Len(due), Packets(its) = Erase(due, k)
    PROVE  /\ k + 1 \in 1 .. Len(due) /\ due[k + 1] = its[1].bytes
           /\ Packets(Tail(its)) = Erase(due, k + 1)
  BY PacketFirst, EraseNext DEF Strings

(* One more that is lost. *)
LEMMA GotMore ==
    ASSUME NEW k \in Nat, Got(k), ~Dispatched
    PROVE  Got(k + 1)
<1>1. PICK f : Some(f, k)
  BY DEF Got
<1>2. 1 .. k \subseteq 1 .. k + 1
  OBVIOUS
<1>3. Some(f, k + 1)
  <2>1. f \in [1 .. Len(loaded) -> 1 .. k + 1]
    BY <1>1, <1>2 DEF Some
  <2> QED BY <1>1, <2>1 DEF Some
<1> QED BY <1>3 DEF Got

(* The first item is skipped. *)
LEMMA FollowsSkip ==
    ASSUME NEW its \in Seq(ItemSet), its # <<>>, Follows(its), due \in Strings,
           its[1].junk \/ ~Dispatched, NEW s, Packets(s) = Packets(Tail(its))
    PROVE  Follows(s)
<1>1. PICK k \in 0 .. Len(due) : Packets(its) = Erase(due, k) /\ Got(k)
  BY DEF Follows
<1>2. CASE its[1].junk
  <2>1. Packets(s) = Erase(due, k)
    BY <1>1, <1>2, JunkFirst
  <2> QED BY <1>1, <2>1 DEF Follows
<1>3. CASE ~its[1].junk
  <2>1. k + 1 \in 1 .. Len(due) /\ Packets(Tail(its)) = Erase(due, k + 1)
    BY <1>1, <1>3, NextDue
  <2>2. k + 1 \in 0 .. Len(due) /\ k \in Nat
    BY <2>1
  <2>3. Got(k + 1)
    BY <1>1, <1>3, <2>2, GotMore
  <2> QED BY <2>1, <2>2, <2>3 DEF Follows
<1> QED BY <1>2, <1>3

(* The first item is handed over. *)
LEMMA FollowsLoad ==
    ASSUME NEW its \in Seq(ItemSet), its # <<>>, Follows(its), ~its[1].junk,
           due \in Strings, loaded \in Strings, due' = due, Dispatched' = Dispatched,
           loaded' = Append(loaded, its[1].bytes)
    PROVE  Follows(Tail(its))'
<1>1. PICK k \in 0 .. Len(due) : Packets(its) = Erase(due, k) /\ Got(k)
  BY DEF Follows
<1>2. /\ k + 1 \in 1 .. Len(due) /\ Packets(Tail(its)) = Erase(due, k + 1)
      /\ due[k + 1] = its[1].bytes
  BY <1>1, NextDue
<1>3. PICK n \in Nat : n = Len(loaded)
  BY DEF Strings
<1>4. PICK m \in Nat : m = k + 1 /\ m \in 0 .. Len(due)
  BY <1>2
<1>5. PICK l \in Nat : l = n + 1 /\ 1 .. l = (1 .. n) \cup {l} /\ l \notin 1 .. n
  OBVIOUS
<1>6. Len(loaded') = l /\ (\A i \in 1 .. n : loaded'[i] = loaded[i]) /\ loaded'[l] = due[m]
  <2>1. its[1].bytes \in Seq(Nat)
    BY TailIs, ItemIs
  <2> QED BY <1>2, <1>3, <1>4, <1>5, <2>1 DEF Strings
<1>7. PICK f : Some(f, k)
  BY <1>1 DEF Got
<1>8. f \in [1 .. n -> 1 .. k] /\ (\A i \in 1 .. n : loaded[i] = due[f[i]])
      /\ \A i, j \in 1 .. n : i < j => f[i] < f[j]
  BY <1>3, <1>7 DEF Some
<1> DEFINE g == [i \in 1 .. l |-> IF i = l THEN m ELSE f[i]]
<1>9. g[l] = m /\ \A i \in 1 .. n : g[i] = f[i] /\ f[i] \in 1 .. k
  BY <1>5, <1>8
<1>10. g \in [1 .. l -> 1 .. m]
  <2>1. \A i \in 1 .. n : f[i] \in 1 .. m
    <3>1. \A x \in 1 .. k : x \in 1 .. m
      BY <1>4
    <3>2. \A i \in 1 .. n : f[i] \in 1 .. k
      BY <1>9
    <3> QED BY <3>1, <3>2
  <2> QED BY <1>4, <1>5, <2>1
<1> HIDE DEF g
<1>11. \A i \in 1 .. l : loaded'[i] = due[g[i]]
  BY <1>5, <1>6, <1>8, <1>9
<1>12. ASSUME NEW i \in 1 .. l, NEW j \in 1 .. l, i < j PROVE g[i] < g[j]
  <2>1. i \in 1 .. n
    BY <1>5, <1>12
  <2>2. CASE j \in 1 .. n
    BY <2>1, <2>2, <1>8, <1>9, <1>12
  <2>3. CASE j = l
    BY <2>1, <2>3, <1>4, <1>9
  <2> QED BY <1>5, <2>2, <2>3
<1>13. Some(g, m)'
  BY <1>6, <1>10, <1>11, <1>12 DEF Some
<1>14. Dispatched => Len(loaded') = m /\ \A i \in 1 .. m : loaded'[i] = due[i]
  <2> SUFFICES ASSUME Dispatched PROVE Len(loaded') = m /\ \A i \in 1 .. m : loaded'[i] = due[i]
    OBVIOUS
  <2>1. n = k /\ \A i \in 1 .. k : loaded[i] = due[i]
    BY <1>1, <1>3 DEF Got
  <2>2. l = m
    BY <2>1, <1>4, <1>5
  <2> QED BY <2>1, <2>2, <1>5, <1>6
<1>15. Got(m)'
  BY <1>13, <1>14 DEF Got
<1> QED BY <1>2, <1>4, <1>15 DEF Follows

(* Follows does not depend on where the bytes are. *)
LEMMA FollowsSame ==
    ASSUME NEW its, Follows(its), UNCHANGED <<conf, stream, loaded, due>>
    PROVE  Follows(its)'
  BY DEF Follows, Got, Some, Dispatched

(* Nor does Good. *)
LEMMA GoodSame ==
    ASSUME NEW its, NEW n, Good(its, n), UNCHANGED <<conf, stream>>
    PROVE  Good(its, n)'
  BY DEF Good, Ok, Dispatched

(* w is a, then b, then c. *)
Thrice(w, a, b, c) == w = (a \o b) \o c
(* And so a, and then b and c. *)
LEMMA ThriceIs ==
    ASSUME NEW S, NEW a \in Seq(S), NEW b \in Seq(S), NEW c \in Seq(S), NEW w, Thrice(w, a, b, c)
    PROVE  IsConcat(w, a, b \o c) /\ b \o c \in Seq(S)
<1>1. (a \o b) \o c = a \o (b \o c) /\ b \o c \in Seq(S)
  BY ConcatAssociative
<1> QED BY <1>1 DEF Thrice, IsConcat

(* A string is put behind those that were handed over. *)
LEMMA InsertIs ==
    ASSUME NEW S, NEW s \in Seq(S), NEW e \in S, NEW k \in 0 .. Len(s), NEW m, m = k + 1
    PROVE  /\ InsertAt(s, m, e) \in Seq(S) /\ k \in 0 .. Len(InsertAt(s, m, e))
           /\ \A i \in 1 .. k : InsertAt(s, m, e)[i] = s[i]
           /\ IsConcat(Erase(InsertAt(s, m, e), k), <<e>>, Erase(s, k))
<1>1. PICK n \in Nat : n = k /\ n \in 0 .. Len(s) /\ m - 1 = n /\ m = n + 1
  OBVIOUS
<1>2. PICK a : a = SubSeq(s, 1, n)
  OBVIOUS
<1>3. a \in Seq(S) /\ Len(a) = n /\ \A i \in 1 .. n : a[i] = s[i]
  BY <1>1, <1>2, FrontIs
<1>4. PICK c : c = Erase(s, n)
  OBVIOUS
<1>5. c \in Seq(S)
  BY <1>1, <1>4, EraseIs
<1>6. PICK b : b = <<e>>
  OBVIOUS
<1>7. b \in Seq(S)
  BY <1>6
<1>8. InsertAt(s, m, e) = (a \o b) \o c
  <2>1. InsertAt(s, m, e) = SubSeq(s, 1, m - 1) \o <<e>> \o SubSeq(s, m, Len(s))
    BY ONLY DEF InsertAt
  <2>2. SubSeq(s, 1, m - 1) = a /\ SubSeq(s, m, Len(s)) = c
    BY <1>1, <1>2, <1>4 DEF Erase
  <2> QED BY ONLY <2>1, <2>2, <1>6
<1>11. PICK w : w = InsertAt(s, m, e)
  OBVIOUS
<1>10. PICK v : v = b \o c
  OBVIOUS
<1>12. IsConcat(w, a, v) /\ v \in Seq(S) /\ a \in Seq(S)
  <2>1. Thrice(w, a, b, c)
    BY ONLY <1>8, <1>11 DEF Thrice
  <2>2. IsConcat(w, a, b \o c) /\ b \o c \in Seq(S)
    BY ONLY <2>1, <1>3, <1>5, <1>7, ThriceIs
  <2> QED BY <2>2, <1>3, <1>10
<1>13. Erase(w, Len(a)) = v
  BY ONLY <1>12, ConcatRest
<1>14. /\ w \in Seq(S) /\ Len(a) \in Nat /\ Len(v) \in Nat /\ Len(w) = Len(a) + Len(v)
       /\ \A j \in 1 .. Len(a) : w[j] = a[j]
  BY ONLY <1>12, ConcatIs
<1>15. Erase(w, n) = b \o c /\ n \in 0 .. Len(w) /\ \A i \in 1 .. n : w[i] = s[i]
  BY <1>3, <1>10, <1>13, <1>14
<1> QED BY <1>1, <1>4, <1>6, <1>11, <1>14, <1>15 DEF IsConcat

(* A string that is reloaded is due next, and comes before the items that  *)
(* were to follow.                                                         *)
LEMMA FollowsReload ==
    ASSUME NEW its \in Seq(ItemSet), Follows(its), due \in Strings, loaded \in Strings,
           Dispatched, Dispatched' = Dispatched, loaded' = loaded, NEW p \in Seq(Nat),
           due' = InsertAt(due, Len(loaded) + 1, p),
           NEW s, IsConcat(Packets(s), <<p>>, Packets(its))
    PROVE  Follows(s)' /\ due' \in Strings
<1>1. PICK k \in 0 .. Len(due) : Packets(its) = Erase(due, k) /\ Got(k)
  BY DEF Follows
<1>2. Len(loaded) = k /\ \A i \in 1 .. k : loaded[i] = due[i]
  BY <1>1 DEF Got
<1>3. /\ due' \in Strings /\ k \in 0 .. Len(due') /\ \A i \in 1 .. k : due'[i] = due[i]
      /\ IsConcat(Erase(due', k), <<p>>, Erase(due, k))
  <2>1. PICK T, d, e, m, x : T = Seq(Nat) /\ d = due /\ e = due' /\ m = k + 1 /\ x = InsertAt(d, m, p)
    OBVIOUS
  <2>2. d \in Seq(T) /\ p \in T /\ k \in 0 .. Len(d) /\ m = k + 1 /\ x = InsertAt(d, m, p)
    BY <2>1 DEF Strings
  <2>3. /\ InsertAt(d, m, p) \in Seq(T) /\ k \in 0 .. Len(InsertAt(d, m, p))
        /\ \A i \in 1 .. k : InsertAt(d, m, p)[i] = d[i]
        /\ IsConcat(Erase(InsertAt(d, m, p), k), <<p>>, Erase(d, k))
    BY ONLY <2>2, InsertIs
  <2>4. e = x
    BY <1>2, <2>1
  <2>5. /\ e \in Seq(T) /\ k \in 0 .. Len(e) /\ \A i \in 1 .. k : e[i] = d[i]
        /\ IsConcat(Erase(e, k), <<p>>, Erase(d, k))
    BY ONLY <2>2, <2>3, <2>4
  <2> QED BY <2>1, <2>5 DEF Strings
<1>4. Packets(s) = Erase(due', k)
  BY <1>1, <1>3 DEF IsConcat
<1>5. loaded' = loaded /\ Len(loaded') = k /\ \A i \in 1 .. k : loaded'[i] = due'[i]
  BY <1>2, <1>3
<1>6. Some([i \in 1 .. k |-> i], k)'
  BY <1>5 DEF Some
<1>7. Got(k)'
  BY <1>5, <1>6 DEF Got
<1> QED BY <1>3, <1>4, <1>7 DEF Follows

-----------------------------------------------------------------------------
(* Bytes that are dropped *)

(* The bytes behind the first item. *)
LEMMA BytesTail ==
    ASSUME NEW its \in Seq(ItemSet), its # <<>>
    PROVE  /\ Erase(Bytes(its), Len(its[1].bytes)) = Bytes(Tail(its))
           /\ Len(Bytes(its)) = Len(its[1].bytes) + Len(Bytes(Tail(its)))
           /\ Len(its[1].bytes) \in Nat \ {0} /\ Len(Bytes(Tail(its))) \in Nat
           /\ Bytes(its) \in Seq(Nat) /\ Bytes(Tail(its)) \in Seq(Nat)
           /\ \A j \in 1 .. Len(its[1].bytes) : Bytes(its)[j] = its[1].bytes[j]
<1>1. its[1].bytes \in Seq(Nat) /\ Len(its[1].bytes) \in Nat \ {0}
  BY TailIs, ItemIs
<1>2. Bytes(Tail(its)) \in Seq(Nat)
  BY TailIs, BytesType
<1>3. IsConcat(Bytes(its), its[1].bytes, Bytes(Tail(its)))
  BY BytesCons
<1>4. PICK x, t, w : x = its[1].bytes /\ t = Bytes(Tail(its)) /\ w = Bytes(its)
  OBVIOUS
<1>5. x \in Seq(Nat) /\ t \in Seq(Nat) /\ IsConcat(w, x, t)
  BY ONLY <1>1, <1>2, <1>3, <1>4
<1>6. Erase(w, Len(x)) = t
  BY ONLY <1>5, ConcatRest
<1>7. /\ w \in Seq(Nat) /\ Len(x) \in Nat /\ Len(t) \in Nat /\ Len(w) = Len(x) + Len(t)
      /\ \A j \in 1 .. Len(x) : w[j] = x[j]
  BY ONLY <1>5, ConcatIs
<1> QED BY <1>1, <1>2, <1>4, <1>6, <1>7

(* There are bytes when there are items. *)
LEMMA SomeBytes ==
    ASSUME NEW its \in Seq(ItemSet)
    PROVE  Bytes(its) # <<>> <=> its # <<>>
<1>1. CASE its = <<>>
  BY <1>1, NoItems
<1>2. CASE its # <<>>
  <2>1. Len(Bytes(its)) # 0
    BY <1>2, BytesTail
  <2> QED BY <1>2, <2>1
<1> QED BY <1>1, <1>2
-----------------------------------------------------------------------------
(* The buffer and the packet it begins with *)

(* As far as both go, b and x are the same. *)
Agree(b, x) == \A j \in 1 .. Len(b) : j <= Len(x) => b[j] = x[j]

(* The buffer begins as the first item does. *)
LEMMA FrontBytes ==
    ASSUME NEW its \in Seq(ItemSet), its # <<>>, NEW b \in Seq(Nat), NEW c \in Seq(Nat),
           IsConcat(Bytes(its), b, c)
    PROVE  Agree(b, its[1].bytes)
<1>1. PICK x, w : x = its[1].bytes /\ w = Bytes(its)
  OBVIOUS
<1>2. Len(x) \in Nat /\ \A j \in 1 .. Len(x) : w[j] = x[j]
  BY <1>1, BytesTail
<1>3. IsConcat(w, b, c)
  BY <1>1
<1>4. Len(b) \in Nat /\ \A j \in 1 .. Len(b) : w[j] = b[j]
  BY <1>3, ConcatIs
<1> QED BY <1>1, <1>2, <1>4 DEF Agree

(* Where a byte is found *)
FirstAt(x, m, n) == n \in 1 .. Len(x) /\ x[n] = m /\ \A j \in 1 .. n - 1 : x[j] # m

(* A byte that is there is there a first time. *)
LEMMA FirstExists ==
    ASSUME NEW x \in Seq(Nat), NEW m, Contains(x, m)
    PROVE  \E n \in Nat \ {0} : FirstAt(x, m, n)
<1> DEFINE T == {i \in 1 .. Len(x) : x[i] = m}
<1>1. T \subseteq Nat /\ T # {}
  BY DEF Contains
<1>2. PICK n \in T : \A y \in T : n <= y
  BY <1>1, NatMin
<1> QED BY <1>2 DEF FirstAt

(* Find returns the place of the first one, from 0. *)
LEMMA FindAt ==
    ASSUME NEW x \in Seq(Nat), NEW m, NEW n \in Nat, FirstAt(x, m, n)
    PROVE  Contains(x, m) /\ Find(x, m) = n - 1
<1>1. Contains(x, m)
  BY DEF Contains, FirstAt
<1>2. PICK c : c = CHOOSE i \in DOMAIN x : x[i] = m /\ \A j \in 1 .. i - 1 : x[j] # m
  OBVIOUS
<1>3. n \in DOMAIN x /\ x[n] = m /\ \A j \in 1 .. n - 1 : x[j] # m
  BY DEF FirstAt
<1>4. c \in DOMAIN x /\ x[c] = m /\ \A j \in 1 .. c - 1 : x[j] # m
  BY ONLY <1>2, <1>3
<1>5. c = n
  <2>1. c \in Nat /\ n \in Nat /\ c >= 1 /\ n >= 1
    BY <1>3, <1>4
  <2>2. ~(c < n) /\ ~(n < c)
    BY <2>1, <1>3, <1>4
  <2> QED BY <2>1, <2>2
<1> QED BY <1>1, <1>2, <1>5 DEF Find

(* If Find returns a place, the byte is there first. *)
LEMMA FindHas ==
    ASSUME NEW x \in Seq(Nat), NEW m, NEW n \in Nat \ {0}, Find(x, m) = n - 1
    PROVE  FirstAt(x, m, n)
<1>1. Contains(x, m)
  BY DEF Find
<1>2. PICK k \in Nat \ {0} : FirstAt(x, m, k)
  BY <1>1, FirstExists
<1>3. Find(x, m) = k - 1
  BY <1>2, FindAt
<1> QED BY <1>2, <1>3

(* Find returns npos when it is not there. *)
LEMMA FindNone ==
    ASSUME NEW x \in Seq(Nat), NEW m
    PROVE  Find(x, m) < 0 <=> ~Contains(x, m)
<1>1. CASE Contains(x, m)
  <2>1. PICK n \in Nat \ {0} : FirstAt(x, m, n)
    BY <1>1, FirstExists
  <2> QED BY <1>1, <2>1, FindAt
<1>2. CASE ~Contains(x, m)
  BY <1>2 DEF Find
<1> QED BY <1>1, <1>2

(* EndHex comes with the last byte of the packet. *)
LEMMA FindAlike ==
    ASSUME NEW x \in Seq(Nat), x # <<>>, NEW b \in Seq(Nat), Agree(b, x), NEW m,
           Find(x, m) = Len(x) - 1
    PROVE  /\ Len(x) <= Len(b) => Contains(b, m) /\ Find(b, m) = Len(x) - 1
           /\ Len(b) < Len(x) => ~Contains(b, m)
<1>1. PICK n \in Nat \ {0} : n = Len(x)
  OBVIOUS
<1>2. FirstAt(x, m, n)
  BY <1>1, FindHas
<1>3. CASE n <= Len(b)
  <2>1. FirstAt(b, m, n)
    <3>1. n \in 1 .. Len(b) /\ \A j \in 1 .. n : b[j] = x[j]
      BY <1>1, <1>3 DEF Agree
    <3>2. n \in 1 .. n /\ \A j \in 1 .. n - 1 : j \in 1 .. n
      OBVIOUS
    <3> QED BY <1>2, <3>1, <3>2 DEF FirstAt
  <2> QED BY <1>1, <1>3, <2>1, FindAt
<1>4. CASE Len(b) < n
  <2>1. \A j \in 1 .. Len(b) : j \in 1 .. n - 1 /\ b[j] = x[j]
    BY <1>1, <1>4 DEF Agree
  <2>2. \A j \in 1 .. Len(b) : b[j] # m
    BY <1>2, <2>1 DEF FirstAt
  <2> QED BY <1>1, <1>4, <2>2 DEF Contains
<1> QED BY <1>1, <1>3, <1>4

(* The length a node takes from the buffer *)

(* The byte at LenAt is the length when it is a digit that an int holds. *)
LEMMA ParseIs ==
    ASSUME NEW b \in Seq(Nat), LenAt <= Len(b), NEW v \in Nat, b[LenAt] = v,
           IsDigit(v), v < IntWidth \div 2
    PROVE  ParseLen(b) = v
<1>1. ParseLen(b) = AsSize(AsInt(v))
  BY DEF ParseLen
<1>2. AsInt(v) = v
  BY DEF AsInt
<1>3. v < SizeWidth /\ SizeWidth \in Nat
  BY ReadAssumption
<1>4. (v % SizeWidth) = v
  BY <1>3
<1> QED BY <1>1, <1>2, <1>4 DEF AsSize

(* The packet's length, or that of a packet whose EndHex is to come. *)
Framing(l, x) ==
    \/ l = Len(x) /\ Len(x) < PacketLenEnd
    \/ l = PacketLenEnd /\ Len(x) <= PacketLenEnd /\ Find(x, EndMark) = Len(x) - 1

(* The constants as numbers; PACKET_LEN_END is no NaN and fits a size_t. *)
LEMMA EndIs == PacketLenEnd \in Nat /\ PacketLenEnd < NaN /\ PacketLenEnd < SizeWidth
               /\ SizeWidth \in Nat /\ NaN \in Nat /\ LenAt \in Nat \ {0} /\ ReadMax \in Nat \ {0}
  BY ReadAssumption DEF PacketLenEnd

(* Such a length is none of the special values 0 and NaN. *)
LEMMA FramingIs ==
    ASSUME NEW x \in Seq(Nat), x # <<>>, NEW l, Framing(l, x)
    PROVE  l \in 0 .. SizeWidth - 1 /\ l # NaN /\ l # 0
<1>1. Len(x) \in Nat \ {0}
  OBVIOUS
<1> QED BY <1>1, EndIs DEF Framing

(* packet_len from the attributes of a node frames the packet that comes   *)
(* first.                                                                  *)
LEMMA FrameIs ==
    ASSUME NEW node \in {"skhd", "step"}, NEW x \in Seq(Nat), x # <<>>, NEW b \in Seq(Nat),
           Agree(b, x), Cut(conf[node], x), conf[node] \in Attributes, conf[node].minLen <= Len(b)
    PROVE  Framing(FrameLen(node, b), x)
<1>1. PICK a \in Attributes : a = conf[node]
  OBVIOUS
<1>2. a.len \in BOOLEAN /\ a.minLen \in Nat /\ Len(x) \in Nat \ {0} /\ Len(b) \in Nat /\ a.minLen <= Len(b)
  BY <1>1 DEF Attributes
<1>3. CASE a.len
  <2>1. /\ LenAt <= a.minLen /\ LenAt <= Len(x) /\ x[LenAt] = Len(x) /\ IsDigit(Len(x))
        /\ Len(x) < IntWidth \div 2 /\ Len(x) < PacketLenEnd
    BY <1>1, <1>3 DEF Cut, HasLen
  <2>2. LenAt <= Len(b) /\ b[LenAt] = Len(x)
    BY SMTT(30), <1>2, <2>1, EndIs DEF Agree
  <2>3. ParseLen(b) = Len(x)
    BY <1>2, <2>1, <2>2, ParseIs
  <2>4. FrameLen(node, b) = Len(x)
    BY <1>1, <1>2, <1>3, <2>3 DEF FrameLen
  <2> QED BY <2>1, <2>4 DEF Framing
<1>4. CASE ~a.len
  <2>1. a.end /\ Len(x) <= PacketLenEnd /\ Find(x, EndMark) = Len(x) - 1
    BY <1>1, <1>4 DEF Cut
  <2>2. FrameLen(node, b) = PacketLenEnd
    BY <1>1, <1>4, <2>1 DEF FrameLen
  <2> QED BY <2>1, <2>2 DEF Framing
<1> QED BY <1>3, <1>4

(* CASE_LOAD_PACKET takes the packet when it is whole, and waits before. *)
LEMMA LoadIs ==
    ASSUME NEW x \in Seq(Nat), x # <<>>, buffer \in Seq(Nat), Agree(buffer, x),
           Framing(packetLen, x)
    PROVE  /\ LoadLen # 0 /\ LoadLen \in 0 .. SizeWidth - 1
           /\ Len(x) <= Len(buffer) => LoadLen = Len(x)
           /\ Len(buffer) < Len(x) => Len(buffer) < LoadLen
<1>1. Len(x) \in Nat \ {0} /\ Len(buffer) \in Nat
  OBVIOUS
<1>2. CASE packetLen = Len(x) /\ Len(x) < PacketLenEnd
  <2>1. LoadLen = Len(x)
    BY <1>1, <1>2, EndIs DEF LoadLen
  <2> QED BY <1>1, <1>2, <2>1, EndIs
<1>3. CASE packetLen = PacketLenEnd /\ Len(x) <= PacketLenEnd /\ Find(x, EndMark) = Len(x) - 1
  <2>1. /\ Len(x) <= Len(buffer) => Contains(buffer, EndMark) /\ Find(buffer, EndMark) = Len(x) - 1
        /\ Len(buffer) < Len(x) => ~Contains(buffer, EndMark)
    BY <1>3, FindAlike
  <2>2. CASE Len(x) <= Len(buffer)
    <3>1. LoadLen = Len(x)
      BY <1>1, <1>3, <2>1, <2>2 DEF LoadLen
    <3> QED BY <1>1, <1>3, <2>2, <3>1, EndIs
  <2>3. CASE Len(buffer) < Len(x)
    <3>1. LoadLen = PacketLenEnd
      BY <1>3, <2>1, <2>3 DEF LoadLen
    <3> QED BY <1>1, <1>3, <2>3, <3>1, EndIs
  <2> QED BY <1>1, <2>2, <2>3
<1> QED BY <1>2, <1>3 DEF Framing
-----------------------------------------------------------------------------
(* Bytes that are dropped *)

(* No "@~@" comes behind bytes that are skipped or lost. *)
LEMMA SecondHead ==
    ASSUME NEW its \in Seq(ItemSet), Good(its, 1), Len(its) > 1, its[1].junk \/ ~Dispatched
    PROVE  its # <<>> /\ Tail(its)[1] = its[2] /\ its[2].bytes[1] # AtMark
<1>1. its # <<>> /\ Tail(its) # <<>> /\ Tail(its)[1] = its[2]
  <2>1. its # <<>>
    OBVIOUS
  <2>2. /\ Len(its) \in Nat /\ Tail(its) \in Seq(ItemSet) /\ Len(Tail(its)) = Len(its) - 1
        /\ \A i \in 1 .. Len(its) - 1 : Tail(its)[i] = its[i + 1]
    BY <2>1, TailIs
  <2>3. 1 \in 1 .. Len(its) - 1 /\ Len(Tail(its)) # 0
    BY SMTT(30), <2>2
  <2>4. Tail(its)[1] = its[1 + 1]
    BY <2>2, <2>3
  <2>5. Tail(its) # <<>>
    BY ONLY <2>3
  <2> QED BY ONLY <2>1, <2>4, <2>5
<1>2. First(conf, Dispatched, its) /\ Good(Tail(its), 1)
  BY <1>1, GoodFirst
<1>3. CASE its[1].junk
  BY <1>1, <1>2, <1>3 DEF First
<1>4. CASE ~Dispatched
  <2>1. PICK t \in Seq(ItemSet) : t = Tail(its) /\ t # <<>> /\ t[1] = its[2] /\ Good(t, 1)
    BY <1>1, <1>2, TailIs
  <2>2. First(conf, Dispatched, t)
    BY <2>1, GoodFirst
  <2>3. t[1] \in ItemSet
    BY <2>1, TailIs
  <2>4. 1 \in DOMAIN t[1].bytes
    BY <2>3, ItemIs
  <2>5. t[1].bytes[1] # AtMark
    BY <1>4, <2>2, <2>4 DEF First, Inside, Normal
  <2> QED BY <1>1, <2>1, <2>5
<1> QED BY <1>3, <1>4

(* What is left of the first item when its first byte goes. *)
LEMMA DropOne ==
    ASSUME NEW its \in Seq(ItemSet), its # <<>>, Good(its, 1), its[1].junk \/ ~Dispatched
    PROVE  \E s \in Seq(ItemSet) :
              /\ Good(s, 1) /\ Bytes(s) = Erase(Bytes(its), 1) /\ Packets(s) = Packets(Tail(its))
              /\ s = Tail(its) \/ (s # <<>> /\ s[1].junk /\ Tail(s) = Tail(its))
              /\ its[1].junk /\ s # <<>> => s[1].bytes[1] # AtMark
<1>1. PICK t, x, w, u : t = Tail(its) /\ x = its[1].bytes /\ w = Bytes(its) /\ u = Bytes(t)
  OBVIOUS
<1>2. /\ t \in Seq(ItemSet) /\ x \in Seq(Nat) /\ x # <<>> /\ w \in Seq(Nat) /\ u \in Seq(Nat)
      /\ Len(x) \in Nat \ {0} /\ Len(its) \in Nat /\ Len(t) = Len(its) - 1
  BY <1>1, TailIs, ItemIs, BytesType
<1>3. IsConcat(w, x, u)
  BY <1>1, BytesCons
<1>4. Erase(w, Len(x)) = u
  BY <1>1, BytesTail
<1>5. First(conf, Dispatched, its) /\ Good(t, 1)
  BY <1>1, GoodFirst
<1>6. t # <<>> => Len(its) > 1 /\ t[1] = its[2] /\ its[2].bytes[1] # AtMark
  <2>1. t # <<>> => Len(its) > 1
    BY <1>2
  <2> QED BY <1>1, <2>1, SecondHead
<1>7. \A j \in 2 .. Len(x) : Inside(conf, its, j)
  <2>1. \A j \in 2 .. Len(x) : j \in DOMAIN x
    BY <1>2
  <2> QED BY <1>1, <1>5, <2>1 DEF First
<1>8. CASE Len(x) = 1
  BY <1>1, <1>2, <1>4, <1>5, <1>6, <1>8
<1>9. CASE Len(x) # 1
  <2>0. Len(x) \in Nat /\ Len(x) >= 2
    <3>1. Len(x) \in Nat \ {0}
      BY <1>2
    <3>2. PICK n : n = Len(x)
      OBVIOUS
    <3>3. n \in Nat /\ n # 0 /\ n # 1
      BY ONLY <1>9, <3>1, <3>2
    <3> QED BY ONLY <3>2, <3>3
  <2>1. PICK y : y = Tail(x)
    OBVIOUS
  <2>2. /\ y \in Seq(Nat) /\ y # <<>> /\ DOMAIN y = 1 .. Len(x) - 1 /\ Len(y) = Len(x) - 1
        /\ \A i \in 1 .. Len(x) - 1 : y[i] = x[i + 1]
    <3>1. /\ y \in Seq(Nat) /\ DOMAIN y = 1 .. Len(x) - 1 /\ Len(y) = Len(x) - 1
          /\ \A i \in 1 .. Len(x) - 1 : y[i] = x[i + 1]
      BY <1>2, <2>1, TailIs
    <3>2. Len(y) # 0
      BY <2>0, <3>1
    <3> QED BY <3>1, <3>2
  <2>3. PICK it \in ItemSet : it.junk /\ it.bytes = y
    <3>1. [junk |-> TRUE, bytes |-> y] \in ItemSet
      BY <2>2 DEF ItemSet
    <3> QED BY <3>1
  <2>4. PICK s \in Seq(ItemSet) :
           /\ s # <<>> /\ s[1] = it /\ Tail(s) = t /\ Len(s) = Len(t) + 1
           /\ \A i \in 1 .. Len(t) : s[i + 1] = t[i]
    BY <1>2, ConsIs
  <2>5. PICK v : v = Bytes(s)
    OBVIOUS
  <2>6. IsConcat(v, y, u)
    BY <1>1, <2>3, <2>4, <2>5, BytesCons
  <2>7. IsConcat(Erase(w, 1), Erase(x, 1), u) /\ Erase(x, 1) = y
    <3>1. 1 \in 0 .. Len(x)
      BY <1>2
    <3> QED BY ONLY <1>2, <1>3, <2>1, <3>1, ConcatErase, EraseOne
  <2>8. v = Erase(w, 1)
    BY <2>6, <2>7 DEF IsConcat
  <2>9. Packets(s) = Packets(t)
    BY <2>3, <2>4, JunkFirst
  <2>10. Len(w) \in Nat /\ Len(w) >= Len(x)
    BY SMTT(30), <1>2, <1>3, ConcatIs
  <2>11. ASSUME NEW j \in 1 .. Len(x) - 1 PROVE Inside(conf, s, j)
    <3>1. PICK k \in 2 .. Len(x) : k = j + 1 /\ k - 1 = j
      BY <1>2
    <3>2. x[k] # AtMark /\ ~IsPrefix(conf.begin, Erase(w, j))
      BY <1>1, <1>7, <3>1 DEF Inside
    <3>3. Erase(v, j - 1) = Erase(w, j)
      <4>3. j \in Nat /\ j >= 1 /\ j <= Len(w) - 1
        BY <2>0, <2>10
      <4>4. PICK i : i = j - 1
        OBVIOUS
      <4>1. i = j - 1 /\ i \in 0 .. Len(w) - 1 /\ 1 + i = j /\ 1 \in 0 .. Len(w)
        BY <2>10, <4>3, <4>4
      <4>2. Erase(Erase(w, 1), i) = Erase(w, 1 + i)
        BY <1>2, <4>1, EraseErase
      <4> QED BY <2>8, <4>1, <4>2
    <3> QED BY <2>2, <2>3, <2>4, <2>5, <3>1, <3>2, <3>3 DEF Inside
  <2>12. Len(s) > 1 => s[2].bytes[1] # AtMark
    BY <1>2, <1>6, <2>4
  <2>13. First(conf, Dispatched, s)
    BY <2>2, <2>3, <2>4, <2>11, <2>12 DEF First
  <2>14. Dispatched => ToSet(it.bytes) \subseteq conf.known
    <3>1. SUFFICES ASSUME Dispatched, NEW b \in ToSet(y) PROVE b \in conf.known
      BY <2>3
    <3>2. ToSet(x) \subseteq conf.known
      <4>1. 1 \in DOMAIN its
        BY TailIs
      <4> QED BY <1>1, <3>1, <4>1 DEF Good, Known
    <3>3. PICK i \in 1 .. Len(x) - 1 : b = x[i + 1]
      BY <2>2 DEF ToSet
    <3>4. i + 1 \in DOMAIN x
      BY <1>2
    <3> QED BY <3>2, <3>3, <3>4 DEF ToSet
  <2>15. Good(s, 1)
    BY <1>5, <2>4, <2>13, <2>14, GoodCons
  <2>16. s[1].bytes[1] # AtMark
    <3>1. 1 \in 1 .. Len(x) - 1
      BY <2>0
    <3> QED BY <2>11, <3>1 DEF Inside
  <2> QED BY <1>1, <2>3, <2>4, <2>5, <2>8, <2>9, <2>15, <2>16
<1> QED BY <1>8, <1>9

(* When n bytes w begins with are lost, what is left is still items that   *)
(* may follow.                                                             *)
Dropped(w, n) ==
    n <= Len(w) => \E s \in Seq(ItemSet) : Good(s, 1) /\ Follows(s) /\ Bytes(s) = Erase(w, n)

(* The buffer is lost. *)
LEMMA DropAll ==
    ASSUME NEW its \in Seq(ItemSet), Good(its, 1), Follows(its), due \in Strings, ~Dispatched,
           NEW m \in 0 .. Len(Bytes(its))
    PROVE  \E s \in Seq(ItemSet) : Good(s, 1) /\ Follows(s) /\ Bytes(s) = Erase(Bytes(its), m)
<1>1. PICK w \in Seq(Nat) : w = Bytes(its) /\ Len(w) \in Nat
  BY BytesType
<1> DEFINE T == {n \in Nat : Dropped(w, n)}
<1>2. 0 \in T
  <2>1. Erase(w, 0) = w
    BY EraseNone
  <2> QED BY <1>1, <2>1 DEF Dropped
<1>3. ASSUME NEW n \in Nat, n \in T PROVE n + 1 \in T
  <2>1. SUFFICES ASSUME n + 1 <= Len(w)
                 PROVE  \E s \in Seq(ItemSet) : Good(s, 1) /\ Follows(s) /\ Bytes(s) = Erase(w, n + 1)
    BY DEF Dropped
  <2>2. n <= Len(w) /\ n \in 0 .. Len(w) /\ 1 \in 0 .. Len(w) - n
    BY <1>1, <2>1
  <2>3. PICK s \in Seq(ItemSet) : Good(s, 1) /\ Follows(s) /\ Bytes(s) = Erase(w, n)
    BY <1>3, <2>2 DEF Dropped
  <2>4. Len(Erase(w, n)) = Len(w) - n
    BY <2>2, EraseIs
  <2>5. s # <<>>
    <3>1. Erase(w, n) # <<>>
      BY <1>1, <2>1, <2>4
    <3> QED BY <2>3, <3>1, SomeBytes
  <2>6. PICK r \in Seq(ItemSet) :
           Good(r, 1) /\ Bytes(r) = Erase(Bytes(s), 1) /\ Packets(r) = Packets(Tail(s))
    BY <2>3, <2>5, DropOne
  <2>7. Follows(r)
    BY <2>3, <2>5, <2>6, FollowsSkip
  <2>8. Erase(Erase(w, n), 1) = Erase(w, n + 1)
    BY <2>2, EraseErase
  <2> QED BY <2>3, <2>6, <2>7, <2>8
<1> HIDE DEF T
<1>6. m \in Nat
  BY <1>1
<1>4. m \in T
  BY <1>2, <1>3, <1>6, Induct
<1> USE DEF T
<1>5. Dropped(w, m)
  BY <1>4
<1> QED BY <1>1, <1>5 DEF Dropped
-----------------------------------------------------------------------------
(* The bytes that are not yet taken, wherever they are *)

Coming == input \o net
Rest == buffer \o Coming

(* The bytes are bytes. *)
BytesOK == buffer \in Seq(Nat) /\ input \in Seq(Nat) /\ net \in Seq(Nat)

(* All that is not taken is the buffer and what comes. *)
LEMMA RestIs ==
    ASSUME BytesOK
    PROVE  IsConcat(Rest, buffer, Coming) /\ Coming \in Seq(Nat) /\ Rest \in Seq(Nat)
  BY DEF BytesOK, IsConcat, Rest, Coming

(* Bytes a go from the front of what comes to the end of b: the two ways   *)
(* to put brackets.                                                        *)
Moved(w, b, a, e, c) == w = (b \o a) \o (e \o c)
Placed(w, b, a, e, c) == w = b \o ((a \o e) \o c)
(* They are the same sequence. *)
LEMMA MovedIs ==
    ASSUME NEW S, NEW a \in Seq(S), NEW b \in Seq(S), NEW c \in Seq(S), NEW e \in Seq(S), NEW w
    PROVE  Moved(w, b, a, e, c) <=> Placed(w, b, a, e, c)
<1>1. (a \o e) \o c = a \o (e \o c) /\ e \o c \in Seq(S)
  BY SMTT(30), ConcatAssoc
<1>2. PICK d \in Seq(S) : d = e \o c
  BY <1>1
<1>3. (b \o a) \o d = b \o (a \o d)
  BY SMTT(30), ConcatAssoc
<1> QED BY <1>1, <1>2, <1>3 DEF Moved, Placed

(* bufferevent_read moves bytes from the input buffer to the buffer. *)
LEMMA RestRead ==
    ASSUME BytesOK, ReadInput, net' = net
    PROVE  BytesOK' /\ Rest' = Rest
<1>1. PICK n \in 0 .. Len(input) : buffer' = buffer \o SubSeq(input, 1, n) /\ input' = Erase(input, n)
  <2>1. Len(input) \in Nat /\ ReadMax \in Nat
    BY EndIs DEF BytesOK
  <2>2. PICK n : n = IF Len(input) < ReadMax THEN Len(input) ELSE ReadMax
    OBVIOUS
  <2>3. n \in 0 .. Len(input)
    BY <2>1, <2>2
  <2> QED BY <2>2, <2>3 DEF ReadInput
<1>2. PICK a, e : a = SubSeq(input, 1, n) /\ e = Erase(input, n)
  OBVIOUS
<1>3. a \in Seq(Nat) /\ e \in Seq(Nat)
  BY <1>2, FrontIs, EraseIs DEF BytesOK
<1>4. input = a \o e
  BY <1>2, SplitIs DEF BytesOK
<1>5. BytesOK'
  BY <1>1, <1>2, <1>3 DEF BytesOK
<1>6. PICK w, b, c : w = Rest' /\ b = buffer /\ c = net
  OBVIOUS
<1>7. Moved(w, b, a, e, c)
  BY <1>1, <1>2, <1>6 DEF Moved, Rest, Coming
<1>8. b \in Seq(Nat) /\ c \in Seq(Nat)
  BY <1>6 DEF BytesOK
<1>9. Placed(w, b, a, e, c)
  BY ONLY <1>3, <1>7, <1>8, MovedIs
<1>10. Rest = b \o ((a \o e) \o c)
  BY <1>4, <1>6 DEF Rest, Coming
<1> QED BY <1>5, <1>6, <1>9, <1>10 DEF Placed

(* A chunk goes from the net to the input buffer. *)
LEMMA RestArrive ==
    ASSUME BytesOK, NEW n \in 1 .. Len(net), input' = input \o SubSeq(net, 1, n),
           net' = Erase(net, n), buffer' = buffer
    PROVE  BytesOK' /\ Rest' = Rest
<1>0. n \in 0 .. Len(net)
  OBVIOUS
<1>1. PICK a, e : a = SubSeq(net, 1, n) /\ e = Erase(net, n)
  OBVIOUS
<1>2. a \in Seq(Nat) /\ e \in Seq(Nat)
  BY <1>0, <1>1, FrontIs, EraseIs DEF BytesOK
<1>3. net = a \o e
  BY <1>0, <1>1, SplitIs DEF BytesOK
<1>4. BytesOK'
  BY <1>1, <1>2 DEF BytesOK
<1>5. PICK i \in Seq(Nat) : i = input
  BY DEF BytesOK
<1>6. (i \o a) \o e = i \o (a \o e)
  <2>1. PICK w : w = (i \o a) \o e
    OBVIOUS
  <2>2. Thrice(w, i, a, e) /\ i \in Seq(Nat)
    BY <2>1 DEF Thrice
  <2>3. IsConcat(w, i, a \o e)
    BY ONLY <1>2, <2>2, ThriceIs
  <2> QED BY <2>1, <2>3 DEF IsConcat
<1>7. Coming' = Coming
  BY <1>1, <1>3, <1>5, <1>6 DEF Coming
<1> QED BY <1>4, <1>7 DEF Rest

(* Nothing moves. *)
LEMMA RestSame ==
    ASSUME BytesOK, UNCHANGED <<buffer, input, net>>
    PROVE  BytesOK' /\ Rest' = Rest
  BY DEF BytesOK, Rest, Coming

(* The buffer begins as the first of the items that are to come. *)
LEMMA RestFront ==
    ASSUME NEW its \in Seq(ItemSet), its # <<>>, BytesOK, Rest = Bytes(its)
    PROVE  Agree(buffer, its[1].bytes)
<1>1. PICK b, c : b = buffer /\ c = Coming
  OBVIOUS
<1>2. b \in Seq(Nat) /\ c \in Seq(Nat) /\ IsConcat(Bytes(its), b, c)
  BY <1>1, RestIs DEF BytesOK
<1> QED BY <1>1, <1>2, FrontBytes

(* If there is something in the buffer, there is an item, and it begins    *)
(* with that.                                                              *)
LEMMA BytesSome ==
    ASSUME NEW its \in Seq(ItemSet), NEW b \in Seq(Nat), NEW c \in Seq(Nat),
           IsConcat(Bytes(its), b, c), b # <<>>
    PROVE  its # <<>> /\ b[1] = its[1].bytes[1] /\ its[1] \in ItemSet
<1>1. Len(b) \in Nat /\ Len(b) # 0
  OBVIOUS
<1>2. its # <<>>
  <2>1. PICK w : w = Bytes(its)
    OBVIOUS
  <2>2. b \in Seq(Nat) /\ c \in Seq(Nat) /\ IsConcat(w, b, c)
    BY <2>1
  <2>3. Len(w) = Len(b) + Len(c) /\ Len(b) \in Nat /\ Len(c) \in Nat
    BY ONLY <2>2, ConcatIs
  <2>4. Len(w) # 0
    BY <1>1, <2>1, <2>3
  <2>5. w # <<>>
    BY <2>4
  <2> QED BY <2>1, <2>5, SomeBytes
<1>3. its[1] \in ItemSet
  BY <1>2, TailIs
<1>4. Len(its[1].bytes) \in Nat \ {0}
  BY <1>3, ItemIs
<1>5. Agree(b, its[1].bytes)
  BY <1>2, FrontBytes
<1>6. 1 \in 1 .. Len(b) /\ 1 <= Len(its[1].bytes)
  BY <1>1, <1>4
<1> QED BY <1>2, <1>3, <1>5, <1>6 DEF Agree

(* The same of the buffer in a state. *)
LEMMA RestSome ==
    ASSUME NEW its \in Seq(ItemSet), BytesOK, Rest = Bytes(its), buffer # <<>>
    PROVE  its # <<>> /\ buffer[1] = its[1].bytes[1] /\ its[1] \in ItemSet
<1>1. PICK b, c : b = buffer /\ c = Coming
  OBVIOUS
<1>2. b \in Seq(Nat) /\ c \in Seq(Nat) /\ IsConcat(Bytes(its), b, c)
  BY <1>1, RestIs DEF BytesOK
<1> QED BY <1>1, <1>2, BytesSome

(* The same of what follows a step. *)
LEMMA RestNext ==
    ASSUME NEW its, BytesOK', Rest' = Bytes(its)
    PROVE  IsConcat(Bytes(its), buffer', Coming') /\ buffer' \in Seq(Nat) /\ Coming' \in Seq(Nat)
<1>1. buffer' \in Seq(Nat) /\ Coming' \in Seq(Nat)
  BY DEF BytesOK, Coming
<1>2. Rest' = buffer' \o Coming'
  BY DEF Rest
<1> QED BY <1>1, <1>2 DEF IsConcat

(* n bytes of the buffer go. *)
LEMMA RestErase ==
    ASSUME BytesOK, NEW n \in 0 .. Len(buffer), buffer' = Erase(buffer, n),
           UNCHANGED <<input, net>>
    PROVE  BytesOK' /\ Rest' = Erase(Rest, n)
<1>1. PICK w, b, c : w = Rest /\ b = buffer /\ c = Coming
  OBVIOUS
<1>2. b \in Seq(Nat) /\ c \in Seq(Nat) /\ IsConcat(w, b, c) /\ n \in 0 .. Len(b)
  BY <1>1, RestIs DEF BytesOK
<1>3. IsConcat(Erase(w, n), Erase(b, n), c)
  BY ONLY <1>2, ConcatErase
<1>4. Erase(b, n) \in Seq(Nat)
  BY <1>2, EraseIs
<1>5. Rest' = Erase(b, n) \o c
  BY <1>1 DEF Rest, Coming
<1>6. BytesOK'
  BY <1>1, <1>4 DEF BytesOK
<1> QED BY <1>1, <1>3, <1>5, <1>6 DEF IsConcat

(* A string is put into the buffer behind its first n bytes. *)
LEMMA RestInsert ==
    ASSUME BytesOK, NEW n \in 0 .. Len(buffer), NEW p \in Seq(Nat),
           buffer' = SubSeq(buffer, 1, n) \o p \o Erase(buffer, n), UNCHANGED <<input, net>>
    PROVE  /\ BytesOK' /\ IsConcat(Erase(Rest', n), p, Erase(Rest, n)) /\ n \in 0 .. Len(buffer')
           /\ Len(buffer') >= Len(buffer)
<1>1. PICK w, b, c, a, e : w = Rest' /\ b = buffer /\ c = Coming /\ a = SubSeq(b, 1, n) /\ e = Erase(b, n)
  OBVIOUS
<1>2. b \in Seq(Nat) /\ c \in Seq(Nat) /\ n \in 0 .. Len(b) /\ IsConcat(Rest, b, c)
  BY <1>1, RestIs DEF BytesOK
<1>3. /\ a \in Seq(Nat) /\ Len(a) = n /\ e \in Seq(Nat) /\ Len(b) \in Nat /\ Len(e) = Len(b) - n
      /\ Len(p) \in Nat
  <2>1. b \in Seq(Nat) /\ n \in 0 .. Len(b) /\ a = SubSeq(b, 1, n) /\ e = Erase(b, n)
    BY <1>1, <1>2
  <2>2. a \in Seq(Nat) /\ Len(a) = n
    BY ONLY <2>1, FrontIs
  <2>3. e \in Seq(Nat) /\ Len(b) \in Nat /\ Len(e) = Len(b) - n
    BY ONLY <2>1, EraseIs
  <2> QED BY <2>2, <2>3
<1>4. buffer' = (a \o p) \o e
  BY <1>1
<1>5. PICK f, ap, ec, v : f = buffer' /\ ap = a \o p /\ ec = e \o c /\ v = p \o ec
  OBVIOUS
<1>14. IsConcat(ap, a, p) /\ IsConcat(f, ap, e) /\ IsConcat(ec, e, c) /\ IsConcat(v, p, ec) /\ p \in Seq(Nat)
  BY <1>4, <1>5 DEF IsConcat
<1>15. ap \in Seq(Nat) /\ Len(ap) = n + Len(p)
  BY ONLY <1>3, <1>14, ConcatIs
<1>16. f \in Seq(Nat) /\ Len(f) = Len(ap) + Len(e)
  <2>1. IsConcat(f, ap, e) /\ ap \in Seq(Nat) /\ e \in Seq(Nat)
    BY ONLY <1>3, <1>14, <1>15
  <2> QED BY ONLY <2>1, ConcatIs
<1>17. ec \in Seq(Nat)
  BY ONLY <1>2, <1>3, <1>14, ConcatIs
<1>18. v \in Seq(Nat)
  BY ONLY <1>14, <1>17, ConcatIs
<1>7. IsConcat(w, ap, ec)
  <2>1. Thrice(w, ap, e, c)
    BY <1>1, <1>4, <1>5 DEF Rest, Coming, Thrice
  <2>2. IsConcat(w, ap, e \o c)
    BY ONLY <2>1, <1>2, <1>3, <1>15, ThriceIs
  <2> QED BY <2>2, <1>5
<1>9. IsConcat(w, a, v)
  <2>1. Thrice(w, a, p, ec)
    BY <1>5, <1>7 DEF Thrice, IsConcat
  <2>2. IsConcat(w, a, p \o ec)
    BY ONLY <2>1, <1>3, <1>14, <1>17, ThriceIs
  <2> QED BY <2>2, <1>5
<1>10. Erase(w, n) = v
  <2>1. Erase(w, Len(a)) = v
    BY ONLY <1>3, <1>9, <1>18, ConcatRest
  <2> QED BY <1>3, <2>1
<1>11. Erase(Rest, n) = ec
  <2>1. PICK r : r = Rest
    OBVIOUS
  <2>2. IsConcat(r, b, c)
    BY <1>2, <2>1
  <2>3. IsConcat(Erase(r, n), Erase(b, n), c)
    BY ONLY <1>2, <2>2, ConcatErase
  <2> QED BY <1>1, <1>5, <2>1, <2>3 DEF IsConcat
<1>12. BytesOK'
  BY <1>5, <1>16 DEF BytesOK
<1>13. n \in 0 .. Len(buffer') /\ Len(buffer') >= Len(buffer)
  <2>1. n \in 0 .. Len(f) /\ Len(f) >= Len(b)
    BY ONLY <1>2, <1>3, <1>15, <1>16
  <2> QED BY <1>1, <1>5, <2>1
<1> QED BY <1>1, <1>5, <1>10, <1>11, <1>12, <1>13 DEF IsConcat
-----------------------------------------------------------------------------
(* The items behind an item *)

(* The number of bytes behind the first j items. *)
Left(its, j) == Len(Bytes(Erase(its, j)))

(* It is a number. *)
LEMMA LeftIs ==
    ASSUME NEW its \in Seq(ItemSet), NEW j \in 0 .. Len(its)
    PROVE  Left(its, j) \in Nat /\ Len(Packets(Erase(its, j))) \in Nat /\ Erase(its, j) \in Seq(ItemSet)
<1>1. PICK t \in Seq(ItemSet) : t = Erase(its, j)
  BY EraseIs
<1>2. Bytes(t) \in Seq(Nat) /\ Packets(t) \in Seq(Seq(Nat))
  BY BytesType
<1>3. Len(Bytes(t)) \in Nat /\ Len(Packets(t)) \in Nat
  BY <1>2
<1> QED BY <1>1, <1>3 DEF Left

(* Behind the first, one item less. *)
LEMMA LeftTail ==
    ASSUME NEW its \in Seq(ItemSet), its # <<>>, NEW j \in 0 .. Len(Tail(its)), NEW i, i = j + 1
    PROVE  Erase(its, i) = Erase(Tail(its), j) /\ Left(its, i) = Left(Tail(its), j) /\ i \in 1 .. Len(its)
<1>1. Len(its) \in Nat \ {0} /\ Len(Tail(its)) = Len(its) - 1 /\ Erase(its, 1) = Tail(its)
  BY TailIs, EraseOne
<1>5. PICK n : n = Len(its)
  OBVIOUS
<1>6. n \in Nat /\ n >= 1 /\ j \in 0 .. n - 1
  BY <1>1, <1>5
<1>2. n = Len(its) /\ n >= 1 /\ j \in 0 .. n - 1 /\ 1 + j = i /\ i \in 1 .. n
  BY ONLY <1>5, <1>6, i = j + 1
<1>3. 1 \in 0 .. Len(its) /\ j \in 0 .. Len(its) - 1
  BY <1>2
<1>4. Erase(Erase(its, 1), j) = Erase(its, 1 + j)
  BY <1>3, EraseErase
<1> QED BY <1>1, <1>2, <1>4 DEF Left

(* How many bytes and how many packets a front and the rest have. *)
Halves(s, n) ==
    /\ Len(Bytes(SubSeq(s, 1, n))) + Left(s, n) = Len(Bytes(s))
    /\ Len(Packets(SubSeq(s, 1, n))) + Len(Packets(Erase(s, n))) = Len(Packets(s))
    /\ {Len(Bytes(SubSeq(s, 1, n))), Len(Packets(SubSeq(s, 1, n)))} \subseteq Nat
(* Halves of all sequences, as a set for the induction on n. *)
AllHalves(n) == \A s \in Seq(ItemSet) : n <= Len(s) => Halves(s, n)

(* The front of a sequence and that of its tail. *)
LEMMA FrontTail ==
    ASSUME NEW S, NEW s \in Seq(S), NEW n \in Nat, n + 1 <= Len(s)
    PROVE  /\ SubSeq(s, 1, n + 1) # <<>> /\ SubSeq(s, 1, n + 1)[1] = s[1]
           /\ Tail(SubSeq(s, 1, n + 1)) = SubSeq(Tail(s), 1, n)
           /\ s # <<>> /\ n <= Len(Tail(s))
<1>1. PICK m \in Nat : m = n + 1 /\ m \in 0 .. Len(s) /\ m - 1 = n /\ 1 \in 1 .. m
  OBVIOUS
<1>2. PICK a : a = SubSeq(s, 1, m)
  OBVIOUS
<1>3. a \in Seq(S) /\ Len(a) = m /\ \A i \in 1 .. m : a[i] = s[i]
  BY <1>1, <1>2, FrontIs
<1>4. a # <<>> /\ a[1] = s[1] /\ s # <<>>
  BY <1>1, <1>3
<1>5. PICK t : t = Tail(s)
  OBVIOUS
<1>6. /\ t \in Seq(S) /\ Len(t) = Len(s) - 1 /\ Len(s) \in Nat
      /\ \A i \in 1 .. Len(s) - 1 : t[i] = s[i + 1]
  BY <1>4, <1>5, TailIs
<1>7. n \in 0 .. Len(t)
  BY <1>1, <1>6
<1>8. /\ SubSeq(t, 1, n) \in Seq(S) /\ Len(SubSeq(t, 1, n)) = n
      /\ \A i \in 1 .. n : SubSeq(t, 1, n)[i] = t[i]
  BY <1>6, <1>7, FrontIs
<1>9. PICK b : b = SubSeq(t, 1, n)
  OBVIOUS
<1>10. PICK c : c = Tail(a)
  OBVIOUS
<1>11. /\ c \in Seq(S) /\ Len(c) = n /\ \A i \in 1 .. m - 1 : c[i] = a[i + 1]
  BY <1>1, <1>3, <1>4, <1>10, TailIs
<1>12. \A i \in 1 .. n : c[i] = b[i]
  <2>1. ASSUME NEW i \in 1 .. n PROVE c[i] = b[i]
    <3>1. i \in 1 .. m - 1 /\ i + 1 \in 1 .. m /\ i \in 1 .. Len(s) - 1
      BY <1>1, <1>6
    <3> QED BY <1>3, <1>6, <1>8, <1>9, <1>11, <3>1
  <2> QED BY <2>1
<1>13. c = b
  <2>1. b \in Seq(S) /\ Len(b) = n
    BY <1>8, <1>9
  <2> QED BY ONLY <2>1, <1>11, <1>12, n \in Nat
<1> QED BY <1>1, <1>2, <1>4, <1>5, <1>7, <1>9, <1>10, <1>13

(* The first item counts its bytes, and one packet or none. *)
LEMMA CountCons ==
    ASSUME NEW its \in Seq(ItemSet), its # <<>>
    PROVE  /\ Len(Packets(its)) = Len(Packets(Tail(its))) + (IF its[1].junk THEN 0 ELSE 1)
           /\ Len(Bytes(its)) = Len(its[1].bytes) + Len(Bytes(Tail(its)))
           /\ Len(Packets(Tail(its))) \in Nat /\ Len(Bytes(Tail(its))) \in Nat
           /\ Len(its[1].bytes) \in Nat \ {0} /\ its[1].junk \in BOOLEAN
<1>1. PICK t \in Seq(ItemSet) : t = Tail(its)
  BY TailIs
<1>2. Packets(t) \in Seq(Seq(Nat)) /\ Packets(its) \in Seq(Seq(Nat))
  BY BytesType
<1>3. PICK p, q : p = Packets(its) /\ q = Packets(t)
  OBVIOUS
<1>4. Len(p) \in Nat /\ Len(q) \in Nat
  BY <1>2, <1>3
<1>5. CASE its[1].junk
  BY <1>1, <1>3, <1>4, <1>5, BytesTail, JunkFirst, TailIs, ItemIs
<1>6. CASE ~its[1].junk
  <2>1. p # <<>> /\ Tail(p) = q
    BY <1>1, <1>3, <1>6, PacketFirst
  <2>2. Len(q) = Len(p) - 1
    BY <1>2, <1>3, <2>1
  <2> QED BY <1>1, <1>3, <1>4, <1>6, <2>2, BytesTail, TailIs, ItemIs
<1> QED BY <1>5, <1>6

(* The front and the rest make up the whole. *)
LEMMA HalvesIs ==
    ASSUME NEW s \in Seq(ItemSet), NEW n \in 0 .. Len(s)
    PROVE  Halves(s, n)
<1> DEFINE T == {m \in Nat : AllHalves(m)}
<1>1. 0 \in T
  <2>1. ASSUME NEW u \in Seq(ItemSet) PROVE Halves(u, 0)
    <3>1. SubSeq(u, 1, 0) = <<>> /\ Erase(u, 0) = u
      BY EraseNone
    <3>2. Bytes(u) \in Seq(Nat) /\ Packets(u) \in Seq(Seq(Nat))
      BY BytesType
    <3>3. Len(Bytes(u)) \in Nat /\ Len(Packets(u)) \in Nat
      BY <3>2
    <3>4. Bytes(<<>>) = <<>> /\ Packets(<<>>) = <<>> /\ Len(<<>>) = 0
      BY NoItems
    <3>5. /\ Len(Bytes(SubSeq(u, 1, 0))) = 0 /\ Len(Packets(SubSeq(u, 1, 0))) = 0
          /\ Left(u, 0) = Len(Bytes(u)) /\ Len(Packets(Erase(u, 0))) = Len(Packets(u))
      BY <3>1, <3>4 DEF Left
    <3> QED BY ONLY <3>3, <3>5 DEF Halves
  <2> QED BY <2>1 DEF AllHalves
<1>2. ASSUME NEW m \in Nat, m \in T PROVE m + 1 \in T
  <2>1. SUFFICES ASSUME NEW u \in Seq(ItemSet), m + 1 <= Len(u) PROVE Halves(u, m + 1)
    BY DEF AllHalves
  <2>2. PICK l \in Nat : l = m + 1
    OBVIOUS
  <2>3. PICK a, t : a = SubSeq(u, 1, l) /\ t = Tail(u)
    OBVIOUS
  <2>4. a # <<>> /\ a[1] = u[1] /\ Tail(a) = SubSeq(t, 1, m) /\ u # <<>> /\ m <= Len(t)
    BY <2>1, <2>2, <2>3, FrontTail
  <2>5. t \in Seq(ItemSet)
    BY <2>3, <2>4, TailIs
  <2>6. Halves(t, m)
    BY <1>2, <2>4, <2>5 DEF AllHalves
  <2>7. a \in Seq(ItemSet)
    <3>1. l \in 0 .. Len(u)
      BY <2>1, <2>2
    <3> QED BY <2>3, <3>1, FrontIs
  <2>8. /\ Len(Packets(u)) = Len(Packets(t)) + (IF u[1].junk THEN 0 ELSE 1)
        /\ Len(Bytes(u)) = Len(u[1].bytes) + Len(Bytes(t))
        /\ Len(Packets(t)) \in Nat /\ Len(Bytes(t)) \in Nat
        /\ Len(u[1].bytes) \in Nat \ {0} /\ u[1].junk \in BOOLEAN
    BY <2>3, <2>4, CountCons
  <2>9. /\ Len(Packets(a)) = Len(Packets(SubSeq(t, 1, m))) + (IF u[1].junk THEN 0 ELSE 1)
        /\ Len(Bytes(a)) = Len(u[1].bytes) + Len(Bytes(SubSeq(t, 1, m)))
        /\ Len(Packets(SubSeq(t, 1, m))) \in Nat /\ Len(Bytes(SubSeq(t, 1, m))) \in Nat
    BY <2>4, <2>7, CountCons
  <2>10. m \in 0 .. Len(t)
    BY <2>4, <2>5
  <2>11. Erase(u, l) = Erase(t, m) /\ Left(u, l) = Left(t, m)
    BY <2>2, <2>3, <2>4, <2>10, LeftTail
  <2>12. Left(t, m) \in Nat /\ Len(Packets(Erase(t, m))) \in Nat
    BY <2>5, <2>10, LeftIs
  <2>14. /\ Len(Bytes(SubSeq(t, 1, m))) + Left(t, m) = Len(Bytes(t))
         /\ Len(Packets(SubSeq(t, 1, m))) + Len(Packets(Erase(t, m))) = Len(Packets(t))
    BY <2>6 DEF Halves
  <2>15. SubSeq(u, 1, l) = a /\ Len(Packets(Erase(u, l))) = Len(Packets(Erase(t, m)))
    BY <2>3, <2>11
  <2>16. Len(Bytes(a)) + Left(u, l) = Len(Bytes(u)) /\ Len(Bytes(a)) \in Nat
    <3>1. PICK x, y, z, q, v, w :
             /\ x = Len(u[1].bytes) /\ y = Len(Bytes(t)) /\ z = Len(Bytes(SubSeq(t, 1, m)))
             /\ q = Left(t, m) /\ v = Len(Bytes(u)) /\ w = Len(Bytes(a))
      OBVIOUS
    <3>2. {x, y, z, q} \subseteq Nat /\ v = x + y /\ w = x + z /\ z + q = y
      BY ONLY <2>8, <2>9, <2>12, <2>14, <3>1
    <3>3. w + q = v /\ w \in Nat
      BY ONLY SMTT(30), <3>2
    <3> QED BY ONLY <2>11, <3>1, <3>3
  <2>17. Len(Packets(a)) + Len(Packets(Erase(t, m))) = Len(Packets(u)) /\ Len(Packets(a)) \in Nat
    BY ONLY SMTT(30), <2>8, <2>9, <2>12, <2>14
  <2>13. Halves(u, l)
    BY ONLY <2>15, <2>16, <2>17 DEF Halves
  <2> QED BY <2>2, <2>13
<1> HIDE DEF T
<1>3. n \in T
  BY <1>1, <1>2, Induct
<1> USE DEF T
<1> QED BY <1>3 DEF AllHalves

(* Skipped items are no packets. *)
JunkRun(s, n) == (\A j \in 1 .. n : s[j].junk) => Packets(Erase(s, n)) = Packets(s)
(* JunkRun of all sequences, for the induction on n. *)
AllRuns(n) == \A s \in Seq(ItemSet) : n <= Len(s) => JunkRun(s, n)

(* Nothing is handed over for items that are skipped. *)
LEMMA RunIs ==
    ASSUME NEW s \in Seq(ItemSet), NEW n \in 0 .. Len(s)
    PROVE  JunkRun(s, n)
<1> DEFINE T == {m \in Nat : AllRuns(m)}
<1>1. 0 \in T
  BY EraseNone DEF AllRuns, JunkRun
<1>2. ASSUME NEW m \in Nat, m \in T PROVE m + 1 \in T
  <2>1. SUFFICES ASSUME NEW u \in Seq(ItemSet), m + 1 <= Len(u), \A j \in 1 .. m + 1 : u[j].junk
                 PROVE  Packets(Erase(u, m + 1)) = Packets(u)
    BY DEF AllRuns, JunkRun
  <2>2. u # <<>>
    BY <2>1
  <2>3. PICK t \in Seq(ItemSet) : t = Tail(u) /\ Len(t) = Len(u) - 1 /\ Len(u) \in Nat
                                  /\ \A i \in 1 .. Len(u) - 1 : t[i] = u[i + 1]
    BY <2>2, TailIs
  <2>4. m \in 0 .. Len(t)
    BY <2>1, <2>3
  <2>5. \A j \in 1 .. m : t[j].junk
    <3>1. ASSUME NEW j \in 1 .. m PROVE t[j].junk
      <4>1. j \in 1 .. Len(u) - 1 /\ j + 1 \in 1 .. m + 1
        BY <2>1, <2>3
      <4> QED BY <2>1, <2>3, <4>1
    <3> QED BY <3>1
  <2>6. Packets(Erase(t, m)) = Packets(t)
    <3>1. AllRuns(m) /\ m <= Len(t)
      BY <1>2, <2>4
    <3>2. JunkRun(t, m)
      BY <2>3, <3>1 DEF AllRuns
    <3> QED BY <2>5, <3>2 DEF JunkRun
  <2>7. Erase(u, m + 1) = Erase(t, m)
    BY <2>2, <2>3, <2>4, LeftTail
  <2>8. u[1].junk
    <3>1. 1 \in 1 .. m + 1
      OBVIOUS
    <3> QED BY <2>1, <3>1
  <2>9. Packets(u) = Packets(t)
    BY <2>2, <2>3, <2>8, JunkFirst
  <2> QED BY <2>6, <2>7, <2>9
<1> HIDE DEF T
<1>3. n \in T
  BY <1>1, <1>2, Induct
<1> USE DEF T
<1> QED BY <1>3 DEF AllRuns

(* Less is left behind a later item. *)
LEMMA LeftLess ==
    ASSUME NEW its \in Seq(ItemSet), NEW j \in 0 .. Len(its), NEW k \in j .. Len(its)
    PROVE  /\ Left(its, k) <= Left(its, j) /\ Left(its, k) \in Nat /\ Left(its, j) \in Nat
           /\ Len(Packets(Erase(its, k))) <= Len(Packets(Erase(its, j)))
           /\ Erase(its, k) = Erase(Erase(its, j), k - j)
<1>1. PICK n \in Nat : n = Len(its)
  OBVIOUS
<1>2. PICK t \in Seq(ItemSet) : t = Erase(its, j) /\ Len(t) = n - j
  BY <1>1, EraseIs
<1>3. PICK i \in 0 .. n - j : i = k - j /\ j + i = k
  BY <1>1
<1>4. Erase(t, i) = Erase(its, k)
  <2>1. i \in 0 .. Len(its) - j
    BY <1>1
  <2>2. Erase(Erase(its, j), i) = Erase(its, j + i)
    BY <2>1, EraseErase
  <2> QED BY <1>2, <1>3, <2>2
<1>5. Halves(t, i) /\ Left(t, i) \in Nat /\ Len(Packets(Erase(t, i))) \in Nat
  BY <1>2, HalvesIs, LeftIs
<1>6. Left(its, k) = Left(t, i) /\ Left(its, j) = Len(Bytes(t))
  BY <1>2, <1>4 DEF Left
<1>7. Left(its, j) \in Nat /\ Len(Packets(t)) \in Nat
  BY <1>2, LeftIs
<1>8. Left(its, k) <= Left(its, j) /\ Len(Packets(Erase(t, i))) <= Len(Packets(t))
  BY SMTT(30), <1>5, <1>6, <1>7 DEF Halves
<1> QED BY <1>2, <1>3, <1>4, <1>5, <1>6, <1>7, <1>8
-----------------------------------------------------------------------------
(* The items that follow and the stream *)

(* Behind the first r items comes what is sent behind the first m; those r *)
(* are rests of items that are skipped, and strings that were reloaded,    *)
(* which are all in the buffer.                                            *)
Ends(its, r, m) ==
    /\ Erase(its, r) = Erase(stream, m)
    /\ \A j \in 1 .. r : its[j].junk \/ Left(its, j) >= Len(Coming)
(* The items that follow end as the stream does. *)
Link(its) == \E r \in 0 .. Len(its), m \in 0 .. Len(stream) : Ends(its, r, m)

(* Every packet has bytes that have not arrived. *)
Over(its, c) == \A j \in 1 .. Len(its) : ~its[j].junk => Left(its, j) < Len(c)
(* No packet that follows has arrived whole. *)
Pending(its) == Over(its, Coming)

(* It stays when bytes arrive or are read. *)
LEMMA LinkSame ==
    ASSUME NEW its \in Seq(ItemSet), Link(its), stream' = stream,
           Len(Coming') <= Len(Coming), Len(Coming) \in Nat, Len(Coming') \in Nat
    PROVE  Link(its)'
<1>1. PICK r \in 0 .. Len(its), m \in 0 .. Len(stream) : Ends(its, r, m)
  BY DEF Link
<1>2. \A j \in 1 .. r : Left(its, j) >= Len(Coming) => Left(its, j) >= Len(Coming')
  <2>1. ASSUME NEW j \in 1 .. r PROVE Left(its, j) \in Nat
    <3>1. j \in 0 .. Len(its)
      OBVIOUS
    <3> QED BY <3>1, LeftIs
  <2> QED BY <2>1
<1>3. Ends(its, r, m)'
  <2>1. Left(its, 0)' = Left(its, 0) /\ \A j \in 1 .. r : Left(its, j)' = Left(its, j)
    BY DEF Left
  <2> QED BY <1>1, <1>2, <2>1 DEF Ends
<1> QED BY <1>1, <1>3 DEF Link

(* The first item is taken. *)
LEMMA LinkTail ==
    ASSUME NEW its \in Seq(ItemSet), its # <<>>, Link(its), stream \in Seq(ItemSet)
    PROVE  Link(Tail(its))
<1>1. PICK r \in 0 .. Len(its), m \in 0 .. Len(stream) : Ends(its, r, m)
  BY DEF Link
<1>2. PICK t \in Seq(ItemSet) :
         /\ t = Tail(its) /\ Len(t) = Len(its) - 1 /\ Len(its) \in Nat
         /\ \A i \in 1 .. Len(its) - 1 : t[i] = its[i + 1]
  BY TailIs
<1>3. CASE r = 0
  <2>1. its = Erase(stream, m)
    BY <1>1, <1>3, EraseNone DEF Ends
  <2>2. m + 1 \in 1 .. Len(stream) /\ t = Erase(stream, m + 1)
    BY <1>2, <2>1, EraseNext
  <2>3. PICK n : n = m + 1 /\ n \in 0 .. Len(stream) /\ t = Erase(stream, n)
    BY <2>2
  <2>4. Ends(t, 0, n)
    <3>1. Erase(t, 0) = t /\ 1 .. 0 = {}
      BY EraseNone
    <3> QED BY <2>3, <3>1 DEF Ends
  <2>5. 0 \in 0 .. Len(t)
    BY <1>2
  <2> QED BY <1>2, <2>3, <2>4, <2>5 DEF Link
<1>4. CASE r # 0
  <2>1. PICK q : q = r - 1
    OBVIOUS
  <2>2. q \in 0 .. Len(t) /\ r = q + 1
    BY <1>2, <1>4, <2>1
  <2>3. Erase(t, q) = Erase(stream, m)
    BY <1>1, <1>2, <2>2, LeftTail DEF Ends
  <2>4. ASSUME NEW j \in 1 .. q PROVE t[j].junk \/ Left(t, j) >= Len(Coming)
    <3>1. PICK k : k = j + 1
      OBVIOUS
    <3>2. j \in 0 .. Len(t) /\ k \in 1 .. r /\ j \in 1 .. Len(its) - 1
      BY <1>2, <2>2, <3>1
    <3>3. Left(its, k) = Left(t, j) /\ t[j] = its[k]
      BY <1>2, <3>1, <3>2, LeftTail
    <3> QED BY <1>1, <3>2, <3>3 DEF Ends
  <2>5. Ends(t, q, m)
    BY <2>3, <2>4 DEF Ends
  <2> QED BY <1>2, <2>2, <2>5 DEF Link
<1> QED BY <1>3, <1>4

(* A rest of skipped bytes, or a reloaded string that is all in the        *)
(* buffer, comes in front.                                                 *)
LEMMA LinkCons ==
    ASSUME NEW s \in Seq(ItemSet), s # <<>>, Link(Tail(s)),
           s[1].junk \/ Left(s, 1) >= Len(Coming)
    PROVE  Link(s)
<1>1. PICK t \in Seq(ItemSet) :
         /\ t = Tail(s) /\ Len(t) = Len(s) - 1 /\ Len(s) \in Nat
         /\ \A i \in 1 .. Len(s) - 1 : t[i] = s[i + 1]
  BY TailIs
<1>2. PICK q \in 0 .. Len(t), m \in 0 .. Len(stream) : Ends(t, q, m)
  BY <1>1 DEF Link
<1>3. PICK r : r = q + 1
  OBVIOUS
<1>4. Erase(s, r) = Erase(t, q) /\ r \in 0 .. Len(s)
  BY <1>1, <1>3, LeftTail
<1>5. ASSUME NEW k \in 1 .. r PROVE s[k].junk \/ Left(s, k) >= Len(Coming)
  <2>1. CASE k = 1
    BY <2>1
  <2>2. CASE k # 1
    <3>1. PICK j : j = k - 1
      OBVIOUS
    <3>2. j \in 1 .. q /\ k = j + 1 /\ j \in 0 .. Len(t) /\ j \in 1 .. Len(s) - 1
      BY <1>1, <1>3, <2>2, <3>1
    <3>3. Left(s, k) = Left(t, j) /\ t[j] = s[k]
      BY <1>1, <3>2, LeftTail
    <3> QED BY <1>2, <3>2, <3>3 DEF Ends
  <2> QED BY <2>1, <2>2
<1>6. Ends(s, r, m)
  BY <1>2, <1>4, <1>5 DEF Ends
<1> QED BY <1>4, <1>6 DEF Link

-----------------------------------------------------------------------------
(* When no packet is whole *)

(* Len(x) <= n: what is left behind any item is less than all without n.  *)
Behind(its, j, n) == Left(its, j) + n <= Len(Bytes(its))

(* Behind any item is less than all without the first. *)
LEMMA FirstBehind ==
    ASSUME NEW its \in Seq(ItemSet), NEW j \in 1 .. Len(its), NEW n \in Nat, n <= Len(its[1].bytes)
    PROVE  Behind(its, j, n)
<1>1. its # <<>> /\ 1 \in 0 .. Len(its) /\ j \in 1 .. Len(its)
  OBVIOUS
<1>2. Left(its, j) <= Left(its, 1) /\ Left(its, 1) \in Nat /\ Left(its, j) \in Nat
  BY <1>1, LeftLess
<1>3. Left(its, 1) = Len(Bytes(Tail(its)))
  BY <1>1, EraseOne DEF Left
<1>4. Len(Bytes(its)) = Len(its[1].bytes) + Len(Bytes(Tail(its))) /\ Len(its[1].bytes) \in Nat
  BY <1>1, CountCons
<1> QED BY <1>2, <1>3, <1>4 DEF Behind

(* The first packet behind bytes that are skipped is a normal one. *)
LongEnough(its, j) ==
    its # <<>> /\ its[1].bytes[1] # AtMark /\ Good(its, 1) /\ j <= Len(its) /\ ~its[j].junk
        => Behind(its, j, conf.step.minLen)

(* MinLen bytes of the step stand before the end of any packet behind      *)
(* skipped bytes.                                                          *)
LEMMA NormalBehind ==
    ASSUME conf.step.minLen \in Nat, NEW its \in Seq(ItemSet), NEW j \in 1 .. Len(its)
    PROVE  LongEnough(its, j)
<1> DEFINE T == {n \in Nat : \A s \in Seq(ItemSet) : LongEnough(s, n + 1)}
<1>0. ASSUME NEW n \in Nat, NEW s \in Seq(ItemSet), s # <<>>, s[1].bytes[1] # AtMark, Good(s, 1),
             n + 1 <= Len(s), ~s[1].junk
      PROVE  Behind(s, n + 1, conf.step.minLen)
  <2>1. First(conf, Dispatched, s)
    BY <1>0, GoodFirst
  <2>2. conf.step.minLen <= Len(s[1].bytes)
    BY <1>0, <2>1 DEF First, Normal, Routed, Cut
  <2>3. n + 1 \in 1 .. Len(s)
    BY <1>0
  <2> QED BY <2>2, <2>3, FirstBehind
<1>1. 0 \in T
  <2>1. ASSUME NEW s \in Seq(ItemSet) PROVE LongEnough(s, 0 + 1)
    BY SMTT(30), <1>0 DEF LongEnough
  <2> QED BY <2>1
<1>2. ASSUME NEW n \in Nat, n \in T PROVE n + 1 \in T
  <2>1. SUFFICES ASSUME NEW s \in Seq(ItemSet), s # <<>>, s[1].bytes[1] # AtMark, Good(s, 1),
                        (n + 1) + 1 <= Len(s), ~s[(n + 1) + 1].junk
                 PROVE  Behind(s, (n + 1) + 1, conf.step.minLen)
    BY DEF LongEnough
  <2>2. CASE ~s[1].junk
    <3>1. PICK k \in Nat : k = n + 1
      OBVIOUS
    <3>2. k + 1 <= Len(s)
      BY <2>1, <3>1
    <3>3. Behind(s, k + 1, conf.step.minLen)
      BY <1>0, <2>1, <2>2, <3>2
    <3> QED BY <3>1, <3>3
  <2>3. CASE s[1].junk
    <3>1. PICK k, l : k = n + 1 /\ l = k + 1
      OBVIOUS
    <3>2. PICK t \in Seq(ItemSet) :
             /\ t = Tail(s) /\ Len(t) = Len(s) - 1 /\ Len(s) \in Nat
             /\ \A i \in 1 .. Len(s) - 1 : t[i] = s[i + 1]
      BY <2>1, TailIs
    <3>3. k \in 1 .. Len(s) - 1 /\ k \in 0 .. Len(t) /\ k <= Len(t) /\ Len(s) > 1 /\ l = k + 1
      BY <2>1, <3>1, <3>2
    <3>4. Good(t, 1)
      BY <2>1, <3>2, GoodFirst
    <3>5. t # <<>>
      <4>1. Len(t) # 0
        BY <3>3
      <4> QED BY <4>1
    <3>6. t[1].bytes[1] # AtMark
      BY <2>1, <2>3, <3>2, <3>3, SecondHead
    <3>7. ~t[k].junk
      BY <2>1, <3>1, <3>2, <3>3
    <3>8. LongEnough(t, k)
      BY <1>2, <3>1, <3>2
    <3>9. Behind(t, k, conf.step.minLen)
      BY <3>3, <3>4, <3>5, <3>6, <3>7, <3>8 DEF LongEnough
    <3>10. Left(s, l) = Left(t, k) /\ Left(t, k) \in Nat
      BY <2>1, <3>2, <3>3, LeftTail, LeftIs
    <3>11. Len(Bytes(s)) = Len(s[1].bytes) + Len(Bytes(t)) /\ Len(s[1].bytes) \in Nat /\ Len(Bytes(t)) \in Nat
      BY <2>1, <3>2, CountCons
    <3>12. Behind(s, l, conf.step.minLen)
      <4>1. PICK m \in Nat : m = conf.step.minLen
        OBVIOUS
      <4>2. PICK q, x, y, v : q = Left(t, k) /\ x = Len(s[1].bytes) /\ y = Len(Bytes(t)) /\ v = Len(Bytes(s))
        OBVIOUS
      <4>3. q + m <= y
        BY ONLY <3>9, <4>1, <4>2 DEF Behind
      <4>4. {q, x, y, m} \subseteq Nat /\ v = x + y
        BY ONLY <3>10, <3>11, <4>1, <4>2
      <4>5. q + m <= v
        BY ONLY <4>3, <4>4
      <4>6. Left(s, l) = q
        BY ONLY <3>10, <4>2
      <4> QED BY ONLY <4>1, <4>2, <4>5, <4>6 DEF Behind
    <3> QED BY <3>1, <3>12
  <2> QED BY <2>2, <2>3
<1> HIDE DEF T
<1>3. PICK n \in Nat : j = n + 1
  <2>1. PICK n : n = j - 1
    OBVIOUS
  <2> QED BY <2>1
<1>4. n \in T
  BY <1>1, <1>2, Induct
<1> USE DEF T
<1> QED BY <1>3, <1>4

(* Fewer than n bytes are in the buffer. *)
LEMMA OverBehind ==
    ASSUME NEW its \in Seq(ItemSet), NEW n \in Nat, NEW b \in Seq(Nat), NEW c \in Seq(Nat),
           IsConcat(Bytes(its), b, c), Len(b) < n,
           \A j \in 1 .. Len(its) : ~its[j].junk => Behind(its, j, n)
    PROVE  Over(its, c)
<1>1. PICK w : w = Bytes(its)
  OBVIOUS
<1>2. b \in Seq(Nat) /\ c \in Seq(Nat) /\ IsConcat(w, b, c)
  BY <1>1
<1>3. Len(w) = Len(b) + Len(c) /\ Len(b) \in Nat /\ Len(c) \in Nat
  BY ONLY <1>2, ConcatIs
<1>4. ASSUME NEW j \in 1 .. Len(its), ~its[j].junk PROVE Left(its, j) < Len(c)
  <2>1. j \in 0 .. Len(its)
    OBVIOUS
  <2>2. Left(its, j) \in Nat
    BY <2>1, LeftIs
  <2>3. Left(its, j) + n <= Len(w)
    BY <1>1, <1>4 DEF Behind
  <2> QED BY <1>3, <2>2, <2>3
<1> QED BY <1>4 DEF Over

(* When there are no bytes in the buffer, no packet is whole. *)
LEMMA OverNone ==
    ASSUME NEW its \in Seq(ItemSet), NEW b \in Seq(Nat), NEW c \in Seq(Nat),
           IsConcat(Bytes(its), b, c), b = <<>>
    PROVE  Over(its, c)
<1>1. Len(b) < 1
  <2>1. Len(b) = 0
    OBVIOUS
  <2> QED BY <2>1
<1>2. ASSUME NEW j \in 1 .. Len(its) PROVE Behind(its, j, 1)
  <2>1. its # <<>>
    OBVIOUS
  <2>2. 1 <= Len(its[1].bytes)
    BY <2>1, CountCons
  <2> QED BY <2>2, FirstBehind
<1> QED BY <1>1, <1>2, OverBehind

(* The first packet is not whole. *)
LEMMA OverFirst ==
    ASSUME NEW its \in Seq(ItemSet), NEW b \in Seq(Nat), NEW c \in Seq(Nat),
           IsConcat(Bytes(its), b, c), its # <<>> => Len(b) < Len(its[1].bytes)
    PROVE  Over(its, c)
<1>1. CASE its = <<>>
  BY <1>1 DEF Over
<1>2. CASE its # <<>>
  <2>1. PICK n \in Nat : n = Len(its[1].bytes)
    BY <1>2, CountCons
  <2>2. ASSUME NEW j \in 1 .. Len(its) PROVE Behind(its, j, n)
    BY <2>1, FirstBehind
  <2> QED BY <1>2, <2>1, <2>2, OverBehind
<1> QED BY <1>1, <1>2
-----------------------------------------------------------------------------
(* The types of the state. *)
Typed == ReadTypeOK /\ BytesOK /\ due \in Strings /\ loaded \in Strings

(* The connection has no name yet, and what comes begins with the packet of who connects. *)
Hand(its) ==
    /\ caseStep \in {"START", "SKHD"} /\ named = FALSE /\ conf.accepted /\ loaded = <<>>
    /\ Rest = Bytes(its) /\ Good(its, 2)
    /\ its # <<>> => Handshake(conf, its)
    /\ caseStep = "SKHD" => buffer # <<>>
(* A packet or bytes to skip come next. *)
Seek(its) ==
    /\ caseStep \in {"START", "ROUTING_STEP", "NORMAL_STEP"} /\ named = TRUE
    /\ Rest = Bytes(its) /\ Good(its, 1)
    /\ caseStep = "ROUTING_STEP" => buffer # <<>> /\ buffer[1] = AtMark
    /\ caseStep = "NORMAL_STEP" =>
            /\ packetLen = 0
            /\ its # <<>> => its[1].bytes[1] # AtMark
            /\ Dispatched => head \in conf.known
(* The packet that comes next is not taken yet. *)
Wait(its) ==
    /\ caseStep = "LOAD_PACKET" /\ named = TRUE
    /\ Rest = Bytes(its) /\ Good(its, 2)
    /\ its # <<>> /\ ~its[1].junk /\ Framing(packetLen, its[1].bytes)
(* The packet is handed over, and still in the buffer. *)
Held(its) ==
    /\ caseStep \in {"PROCESS", "RSEND_STEP", "NEXT_STEP", "ROUTING_PROCESS", "END"} /\ named = TRUE
    /\ packetLen \in 1 .. Len(buffer)
    /\ Erase(Rest, packetLen) = Bytes(its) /\ Good(its, 1)
(* No start step: the buffer goes. *)
Lost(its) ==
    /\ caseStep = "END" /\ named = TRUE /\ packetLen = 0 /\ ~Dispatched
    /\ Rest = Bytes(its) /\ Good(its, 1)
(* The five phases of a packet. *)
Phase(its) == Hand(its) \/ Seek(its) \/ Wait(its) \/ Held(its) \/ Lost(its)

(* All that arrives is read at once. *)
Eager == Dispatched /\ conf.maxArrive <= ReadMax
(* The case reads what is in the input buffer when it comes to it. *)
Ready == caseStep = "START" \/ (caseStep = "LOAD_PACKET" /\ Len(buffer) < LoadLen)
(* When all that arrives is read at once, the callback does not return     *)
(* before all is read, and only a case that reads finds something to read. *)
Waits ==
    Eager => /\ Len(input) <= ReadMax
             /\ ~running => input = <<>>
             /\ ~running \/ input # <<>> => Ready

(* The items that follow, in the phase of the loop. *)
Covers(its) ==
    /\ Follows(its) /\ Phase(its)
    /\ Dispatched => Link(its)
    /\ Eager /\ ~running => Pending(its)

(* The inductive invariant: some items cover what is not yet handed over. *)
ReadInv == Typed /\ Waits /\ \E its \in Seq(ItemSet) : Covers(its)

-----------------------------------------------------------------------------

(* What ReadAssumption says of the configuration. *)
LEMMA ConfIs ==
    ASSUME conf \in Confs
    PROVE  /\ conf.skhd \in Attributes /\ conf.step \in Attributes /\ conf.begin \in Seq(Nat)
           /\ {conf.skhd.minLen, conf.step.minLen, conf.maxArrive} \subseteq Nat \ {0}
           /\ conf.accepted \in BOOLEAN /\ conf.defaultConn \in BOOLEAN
           /\ \A p \in conf.reloads :
                /\ p \in Seq(Nat) /\ p # <<>> /\ ToSet(p) \subseteq conf.known
                /\ Normal(conf, p) \/ Routed(p)
           /\ \A items \in conf.streams : Framed(conf, items)
<1>1. PICK c \in Confs : c = conf
  OBVIOUS
<1>2. /\ {c.accepted, c.defaultConn} \subseteq BOOLEAN
      /\ {c.skhd, c.step} \subseteq Attributes
      /\ c.begin \in Seq(Nat) /\ c.maxArrive \in Nat \ {0}
      /\ \A p \in c.reloads :
             /\ p \in Seq(Nat) \ {<<>>} /\ ToSet(p) \subseteq c.known
             /\ Normal(c, p) \/ Routed(p)
      /\ \A items \in c.streams : Framed(c, items)
  BY ReadAssumption
<1>3. {c.skhd.minLen, c.step.minLen} \subseteq Nat \ {0}
  BY <1>2 DEF Attributes
<1> QED BY <1>1, <1>2, <1>3

(* The numbers of bytes. *)
LEMMA ComingIs ==
    ASSUME BytesOK
    PROVE  /\ Len(Rest) = Len(buffer) + Len(Coming) /\ Len(Coming) \in Nat /\ Len(buffer) \in Nat
           /\ Len(Coming) = Len(input) + Len(net) /\ Len(input) \in Nat /\ Len(net) \in Nat
           /\ buffer \in Seq(Nat)
<1>1. PICK w, b, c, i, n : w = Rest /\ b = buffer /\ c = Coming /\ i = input /\ n = net
  OBVIOUS
<1>2. /\ b \in Seq(Nat) /\ c \in Seq(Nat) /\ IsConcat(w, b, c) /\ i \in Seq(Nat) /\ n \in Seq(Nat)
      /\ IsConcat(c, i, n)
  BY <1>1, RestIs DEF BytesOK, IsConcat, Coming
<1>3. Len(w) = Len(b) + Len(c) /\ Len(b) \in Nat /\ Len(c) \in Nat
  BY ONLY <1>2, ConcatIs
<1>4. Len(c) = Len(i) + Len(n) /\ Len(i) \in Nat /\ Len(n) \in Nat
  BY ONLY <1>2, ConcatIs
<1> QED BY <1>1, <1>2, <1>3, <1>4

(* At first, the items that follow are all of the stream. *)
LEMMA ReadInitInv ==
    ASSUME ReadInit
    PROVE  ReadInv
<1>0. <<>> \in Seq(Nat) /\ <<>> \in Seq(Seq(Nat)) /\ Len(<<>>) = 0 /\ 1 .. 0 = {}
  OBVIOUS
<1>1. Framed(conf, stream) /\ conf.accepted \in BOOLEAN
  BY ConfIs DEF ReadInit
<1>2. /\ stream \in Seq(ItemSet)
      /\ conf.accepted /\ stream # <<>> => Handshake(conf, stream)
      /\ \A i \in DOMAIN stream :
            (i = 1 /\ conf.accepted) \/ First(conf, Known(conf, stream), From(stream, i))
  BY <1>1 DEF Framed
<1>3. Bytes(stream) \in Seq(Nat) /\ Packets(stream) \in Seq(Seq(Nat))
  BY <1>2, BytesType
<1>4. BytesOK /\ due \in Strings /\ loaded \in Strings
  <2>1. BytesOK
    BY <1>0, <1>3 DEF ReadInit, BytesOK
  <2> QED BY <1>0, <1>3, <2>1 DEF ReadInit, Strings
<1>5. Typed
  <2>1. 0 \in 0 .. SizeWidth - 1
    BY ReadAssumption
  <2>2. ReadTypeOK
    BY <1>1, <2>1 DEF ReadInit, ReadTypeOK, Cases, Steps
  <2> QED BY <1>4, <2>2 DEF Typed
<1>6. Waits
  <2>1. ReadMax \in Nat /\ 0 <= ReadMax
    BY EndIs
  <2>2. Len(input) = 0 /\ input = <<>> /\ caseStep = "START"
    BY <1>0 DEF ReadInit
  <2> QED BY <2>1, <2>2 DEF Waits, Ready, ReadInit
<1>7. Coming = net /\ Rest = Bytes(stream)
  <2>1. Coming = net
    BY <1>4, ConcatEmptySeq DEF ReadInit, Coming, BytesOK
  <2> QED BY <1>4, <2>1, ConcatEmptySeq DEF ReadInit, Rest, BytesOK
<1>8. Follows(stream)
  <2>1. Erase(due, 0) = due /\ 0 \in 0 .. Len(due)
    BY <1>4, EraseNone DEF Strings
  <2>2. Len(loaded) = 0 /\ 1 .. 0 = {}
    BY <1>0 DEF ReadInit
  <2>3. Some([i \in 1 .. 0 |-> i], 0)
    BY <2>2 DEF Some
  <2>4. Got(0)
    BY <2>2, <2>3 DEF Got
  <2> QED BY <2>1, <2>4 DEF Follows, ReadInit
<1>9. Link(stream)
  <2>1. 0 \in 0 .. Len(stream) /\ 1 .. 0 = {}
    BY <1>2
  <2> QED BY <2>1 DEF Link, Ends
<1>10. Pending(stream)
  <2>1. PICK s, b, c : s = stream /\ b = buffer /\ c = Coming
    OBVIOUS
  <2>2. s \in Seq(ItemSet) /\ b \in Seq(Nat) /\ c \in Seq(Nat) /\ IsConcat(Bytes(s), b, c) /\ b = <<>>
    BY <1>2, <1>4, <1>7, <2>1, RestIs DEF BytesOK, ReadInit
  <2>3. Over(s, c)
    BY ONLY <2>2, OverNone
  <2> QED BY <2>1, <2>3 DEF Pending
<1>11. Good(stream, 2) /\ (~conf.accepted => Good(stream, 1))
  <2>1. \A i \in 1 .. Len(stream) : (i # 1 \/ ~conf.accepted) => First(conf, Dispatched, From(stream, i))
    BY <1>2 DEF Dispatched
  <2>2. \A i \in 2 .. Len(stream) : i # 1 /\ i \in 1 .. Len(stream)
    BY <1>2
  <2> QED BY <1>2, <2>1, <2>2 DEF Good, Ok, Dispatched
<1>12. Phase(stream)
  <2>1. CASE conf.accepted
    <3>1. Hand(stream)
      BY <1>2, <1>7, <1>11, <2>1 DEF Hand, ReadInit
    <3> QED BY <3>1 DEF Phase
  <2>2. CASE ~conf.accepted
    <3>1. Seek(stream)
      BY <1>7, <1>11, <2>2 DEF Seek, ReadInit
    <3> QED BY <3>1 DEF Phase
  <2> QED BY <2>1, <2>2
<1> QED BY <1>2, <1>5, <1>6, <1>8, <1>9, <1>10, <1>12 DEF ReadInv, Covers

(* What the invariant says *)

(* What was handed over is what was due up to the items that follow. *)
LEMMA InvExact ==
    ASSUME ReadInv
    PROVE  Exact
<1>1. PICK its \in Seq(ItemSet) : Covers(its)
  BY DEF ReadInv
<1>2. PICK k \in 0 .. Len(due) : Packets(its) = Erase(due, k) /\ Got(k)
  BY <1>1 DEF Covers, Follows
<1>3. loaded \in Seq(Seq(Nat)) /\ due \in Seq(Seq(Nat)) /\ ReadTypeOK
  BY DEF ReadInv, Typed, Strings
<1>4. Dispatched => IsPrefix(loaded, due)
  <2> SUFFICES ASSUME Dispatched PROVE IsPrefix(loaded, due)
    OBVIOUS
  <2>1. Len(loaded) = k /\ \A i \in 1 .. k : loaded[i] = due[i]
    BY <1>2 DEF Got
  <2>2. Len(loaded) <= Len(due) /\ \A i \in 1 .. Len(loaded) : loaded[i] = due[i]
    BY <1>3, <2>1
  <2>3. PICK T, l, d : T = Seq(Nat) /\ l = loaded /\ d = due
    OBVIOUS
  <2>4. l \in Seq(T) /\ d \in Seq(T) /\ Len(l) <= Len(d) /\ \A i \in 1 .. Len(l) : l[i] = d[i]
    BY <1>3, <2>2, <2>3
  <2>5. IsPrefix(l, d)
    BY ONLY <2>4, PrefixIs
  <2> QED BY <2>3, <2>5
<1>5. PICK f : Some(f, k)
  BY <1>2 DEF Got
<1>6. PICK n \in Nat : n = Len(loaded) /\ DOMAIN loaded = 1 .. n
  BY <1>3
<1>7. PICK m \in Nat : m = Len(due) /\ DOMAIN due = 1 .. m /\ \A x \in 1 .. k : x \in 1 .. m
  BY <1>3
<1>8. /\ f \in [1 .. n -> 1 .. k] /\ \A i \in 1 .. n : loaded[i] = due[f[i]]
      /\ \A i, j \in 1 .. n : i < j => f[i] < f[j]
  BY <1>5, <1>6 DEF Some
<1>9. f \in [1 .. n -> 1 .. m]
  <2>1. 1 .. k \subseteq 1 .. m
    BY <1>7
  <2> QED BY ONLY <1>8, <2>1
<1> QED BY <1>3, <1>4, <1>6, <1>7, <1>8, <1>9 DEF Exact

(* When the callback has returned, the items whose last byte has arrived   *)
(* are no longer among those that follow.                                  *)
LEMMA InvPrompt ==
    ASSUME ReadInv
    PROVE  Prompt
<1>1. SUFFICES ASSUME Dispatched, conf.maxArrive <= ReadMax, ~running, NEW i \in DOMAIN stream,
                      Len(Bytes(SubSeq(stream, 1, i))) + Len(net) <= Len(Bytes(stream))
               PROVE  Len(loaded) >= Len(Packets(SubSeq(stream, 1, i)))
                                      + Len(due) - Len(Packets(stream))
  BY DEF Prompt
<1>2. Eager
  BY <1>1 DEF Eager
<1>3. PICK its \in Seq(ItemSet) : Covers(its)
  BY DEF ReadInv
<1>4. Follows(its) /\ Link(its) /\ Pending(its)
  BY <1>1, <1>2, <1>3 DEF Covers
<1>5. BytesOK /\ due \in Seq(Seq(Nat)) /\ loaded \in Seq(Seq(Nat)) /\ stream \in Seq(ItemSet) /\ input = <<>>
  <2>1. stream \in Seq(ItemSet)
    BY ConfIs DEF ReadInv, Typed, ReadTypeOK, Framed
  <2> QED BY <1>1, <1>2, <2>1 DEF ReadInv, Typed, Waits, Strings
<1>6. Len(Coming) = Len(net) /\ Len(net) \in Nat
  <2>1. Len(input) = 0
    BY <1>5
  <2> QED BY <1>5, <2>1, ComingIs
<1>7. PICK s \in Seq(ItemSet) : s = stream
  BY <1>5
<1>8. Len(s) \in Nat /\ i \in 1 .. Len(s) /\ i \in 0 .. Len(s)
  BY <1>7
<1>9. Halves(s, i) /\ Left(s, i) \in Nat /\ Len(Packets(Erase(s, i))) \in Nat
  BY <1>8, HalvesIs, LeftIs
<1>10. Left(s, i) >= Len(net)
  <2>1. PICK a, b, c, d : /\ a = Len(Bytes(SubSeq(s, 1, i))) /\ b = Len(net)
                          /\ c = Len(Bytes(s)) /\ d = Left(s, i)
    OBVIOUS
  <2>2. a \in Nat /\ d \in Nat /\ a + d = c /\ b \in Nat /\ a + b <= c
    BY <1>1, <1>6, <1>7, <1>9, <2>1 DEF Halves
  <2>3. d >= b
    BY ONLY <2>2
  <2> QED BY <2>1, <2>3
<1>11. PICK r \in 0 .. Len(its), m \in 0 .. Len(s) : Ends(its, r, m)
  BY <1>4, <1>7 DEF Link
<1>12. Erase(its, r) = Erase(s, m) /\ Len(its) \in Nat
  BY <1>7, <1>11 DEF Ends
<1>13. \A j \in 1 .. r : its[j].junk
  <2>1. ASSUME NEW j \in 1 .. r, ~its[j].junk PROVE FALSE
    <3>1. j \in 1 .. Len(its) /\ j \in 0 .. Len(its)
      BY <1>12
    <3>2. Left(its, j) \in Nat
      BY <3>1, LeftIs
    <3>3. Left(its, j) < Len(Coming)
      BY <1>4, <2>1, <3>1 DEF Pending, Over
    <3>4. Left(its, j) >= Len(Coming)
      BY <1>11, <2>1 DEF Ends
    <3> QED BY <1>6, <3>2, <3>3, <3>4
  <2> QED BY <2>1
<1>14. Packets(Erase(its, r)) = Packets(its)
  BY <1>13, RunIs DEF JunkRun
<1>15. Len(Packets(its)) <= Len(Packets(Erase(s, i)))
  <2>1. CASE i <= m
    <3>1. m \in i .. Len(s)
      BY <1>8, <2>1
    <3>2. Len(Packets(Erase(s, m))) <= Len(Packets(Erase(s, i)))
      BY <1>8, <3>1, LeftLess
    <3> QED BY <1>12, <1>14, <3>2
  <2>2. CASE ~(i <= m)
    <3>1. PICK n \in Nat : n = i - m
      BY <1>8, <2>2
    <3>2. PICK t \in Seq(ItemSet) : t = Erase(s, m) /\ Len(t) = Len(s) - m /\ t = Erase(its, r)
                                    /\ Len(t) = Len(its) - r /\ n \in 0 .. Len(t)
      <4>1. /\ Erase(s, m) \in Seq(ItemSet) /\ Len(Erase(s, m)) = Len(s) - m
            /\ Len(Erase(its, r)) = Len(its) - r
        BY EraseIs
      <4>2. n \in 0 .. Len(s) - m
        BY <1>8, <2>2, <3>1
      <4> QED BY <1>12, <4>1, <4>2
    <3>3. i \in m .. Len(s)
      BY <1>8, <2>2
    <3>4. Erase(t, n) = Erase(s, i)
      BY <3>1, <3>2, <3>3, LeftLess
    <3>5. ASSUME NEW j \in 1 .. n, ~t[j].junk PROVE FALSE
      <4>1. PICK k \in Nat : k = r + j /\ k \in 1 .. Len(its) /\ k \in r .. Len(its) /\ k - r = j
                             /\ j \in 1 .. Len(its) - r /\ j \in 0 .. Len(t) /\ n \in j .. Len(t)
        <5>1. PICK k : k = r + j
          OBVIOUS
        <5>2. k \in Nat /\ k \in 1 .. Len(its) /\ k \in r .. Len(its) /\ k - r = j
          BY <1>12, <3>2, <5>1
        <5>3. j \in 1 .. Len(its) - r /\ j \in 0 .. Len(t) /\ n \in j .. Len(t)
          BY <1>12, <3>2
        <5> QED BY <5>1, <5>2, <5>3
      <4>2. Erase(its, r)[j] = its[r + j]
        BY <4>1, EraseIs
      <4>3. ~its[k].junk
        BY <3>2, <3>5, <4>1, <4>2
      <4>4. Left(its, k) < Len(net)
        BY <1>4, <1>6, <4>1, <4>3 DEF Pending, Over
      <4>5. Erase(its, k) = Erase(Erase(its, r), k - r)
        BY <4>1, LeftLess
      <4>6. Left(its, k) = Left(t, j)
        BY <3>2, <4>1, <4>5 DEF Left
      <4>7. Left(t, n) <= Left(t, j) /\ Left(t, n) \in Nat /\ Left(t, j) \in Nat
        BY <4>1, LeftLess
      <4>8. Left(t, n) = Left(s, i)
        BY <3>4 DEF Left
      <4> QED BY <1>6, <1>10, <4>4, <4>6, <4>7, <4>8
    <3>6. JunkRun(t, n)
      BY <3>2, RunIs
    <3>7. Packets(Erase(t, n)) = Packets(t)
      BY <3>5, <3>6 DEF JunkRun
    <3> QED BY <1>9, <1>12, <1>14, <3>2, <3>4, <3>7
  <2> QED BY <1>8, <2>1, <2>2
<1>16. PICK k \in 0 .. Len(due) : Packets(its) = Erase(due, k) /\ Got(k)
  BY <1>4 DEF Follows
<1>17. Len(loaded) = k
  BY <1>1, <1>16 DEF Got
<1>18. Len(Packets(its)) = Len(due) - k /\ Len(due) \in Nat
  BY <1>5, <1>16, EraseIs
<1>19. PICK a, b, c, d : /\ a = Len(Packets(SubSeq(s, 1, i))) /\ b = Len(Packets(Erase(s, i)))
                         /\ c = Len(Packets(s)) /\ d = Len(due)
  OBVIOUS
<1>20. a \in Nat /\ b \in Nat /\ a + b = c /\ d \in Nat /\ d - k <= b /\ k \in Nat
  BY <1>9, <1>15, <1>18, <1>19 DEF Halves
<1>21. k >= a + d - c
  BY ONLY <1>20
<1> QED BY <1>7, <1>17, <1>19, <1>21
-----------------------------------------------------------------------------
(* What the steps of the callback have in common *)

(* The case the loop is at tells the phase. *)
LEMMA PhaseIs ==
    ASSUME NEW its, Phase(its)
    PROVE  /\ caseStep = "START" => Hand(its) \/ Seek(its)
           /\ caseStep = "SKHD" => Hand(its)
           /\ caseStep \in {"ROUTING_STEP", "NORMAL_STEP"} => Seek(its)
           /\ caseStep = "LOAD_PACKET" => Wait(its)
           /\ caseStep \in {"PROCESS", "RSEND_STEP", "NEXT_STEP", "ROUTING_PROCESS"} => Held(its)
           /\ caseStep = "END" => Held(its) \/ Lost(its)
  BY DEF Phase, Hand, Seek, Wait, Held, Lost

(* What a step has to show for the types. *)
LEMMA TypedKept ==
    ASSUME Typed, UNCHANGED <<conf, stream, due, loaded>>, BytesOK',
           caseStep' \in Cases, procStep' \in Steps, packetLen' \in 0 .. SizeWidth - 1,
           closeRead' \in BOOLEAN, running' \in BOOLEAN, closed' \in BOOLEAN,
           named' = named \/ named' = TRUE
    PROVE  Typed'
  BY DEF Typed, ReadTypeOK, Strings

(* The types, one by one. *)
LEMMA TypedIs ==
    ASSUME Typed
    PROVE  /\ BytesOK /\ conf \in Confs /\ stream \in Seq(ItemSet) /\ Framed(conf, stream)
           /\ caseStep \in Cases /\ procStep \in Steps /\ packetLen \in 0 .. SizeWidth - 1
           /\ {closeRead, running, named, closed} \subseteq BOOLEAN
           /\ due \in Strings /\ loaded \in Strings
<1>1. Framed(conf, stream)
  BY ConfIs DEF Typed, ReadTypeOK
<1>2. stream \in Seq(ItemSet)
  BY <1>1 DEF Framed
<1> QED BY <1>1, <1>2 DEF Typed, ReadTypeOK

(* The items still follow when only bytes are moved. *)
LEMMA MoreItems ==
    ASSUME Typed, NEW its \in Seq(ItemSet), Follows(its), Dispatched => Link(its),
           UNCHANGED <<conf, stream, due, loaded>>, BytesOK', Len(Coming') <= Len(Coming)
    PROVE  /\ Follows(its)' /\ (Dispatched => Link(its))'
           /\ Dispatched' = Dispatched /\ Eager' = Eager
<1>1. Dispatched' = Dispatched /\ Eager' = Eager
  BY DEF Dispatched, Eager
<1>2. Follows(its)'
  BY FollowsSame
<1>3. (Dispatched => Link(its))'
  <2>1. Len(Coming) \in Nat /\ Len(Coming') \in Nat
    <3>1. Len(Coming) \in Nat
      BY ComingIs DEF Typed
    <3>2. Coming' \in Seq(Nat)
      BY DEF BytesOK, Coming
    <3> QED BY <3>1, <3>2
  <2> QED BY <1>1, <2>1, LinkSame
<1> QED BY <1>1, <1>2, <1>3

(* The same of items that cover. *)
LEMMA SameItems ==
    ASSUME Typed, NEW its \in Seq(ItemSet), Covers(its), UNCHANGED <<conf, stream, due, loaded>>,
           BytesOK', Len(Coming') <= Len(Coming)
    PROVE  /\ Follows(its)' /\ (Dispatched => Link(its))'
           /\ Dispatched' = Dispatched /\ Eager' = Eager
  BY MoreItems DEF Covers

(* What a step has to show. *)
LEMMA Finish ==
    ASSUME Typed', Waits', NEW its \in Seq(ItemSet), Follows(its)', Phase(its)',
           (Dispatched => Link(its))', (Eager /\ ~running => Pending(its))'
    PROVE  ReadInv'
  BY DEF ReadInv, Covers

(* Away from CASE_START and CASE_LOAD_PACKET nothing is in the input buffer. *)
LEMMA AllRead ==
    ASSUME Waits, Eager, caseStep \notin {"START", "LOAD_PACKET"}
    PROVE  input = <<>> /\ running
  BY DEF Waits, Ready

(* So a case that reads nothing leaves Waits as it is. *)
LEMMA WaitsIdle ==
    ASSUME Waits, caseStep \notin {"START", "LOAD_PACKET"}, Eager' = Eager, input' = input,
           running' = TRUE \/ caseStep' = "START"
    PROVE  Waits'
<1>1. ReadMax \in Nat /\ Len(<<>>) = 0
  BY EndIs
<1>2. SUFFICES ASSUME Eager PROVE (Len(input) <= ReadMax)' /\ (~running => input = <<>>)' /\ (~running \/ input # <<>> => Ready)'
  BY DEF Waits
<1>3. input' = <<>>
  BY <1>2, AllRead
<1>4. Len(input') <= ReadMax
  BY <1>1, <1>3
<1> QED BY <1>3, <1>4 DEF Ready

(* bufferevent_read *)
LEMMA ReadAll ==
    ASSUME BytesOK, ReadInput, net' = net
    PROVE  /\ BytesOK' /\ Rest' = Rest /\ Len(Coming') <= Len(Coming)
           /\ Len(input) <= ReadMax => input' = <<>>
<1>1. BytesOK' /\ Rest' = Rest
  BY RestRead
<1>2. PICK n \in 0 .. Len(input) : input' = Erase(input, n) /\ (Len(input) <= ReadMax => n = Len(input))
  <2>1. Len(input) \in Nat /\ ReadMax \in Nat
    BY EndIs DEF BytesOK
  <2>2. PICK n : n = IF Len(input) < ReadMax THEN Len(input) ELSE ReadMax
    OBVIOUS
  <2>3. n \in 0 .. Len(input) /\ (Len(input) <= ReadMax => n = Len(input))
    BY <2>1, <2>2
  <2> QED BY <2>2, <2>3 DEF ReadInput
<1>3. input \in Seq(Nat)
  BY DEF BytesOK
<1>4. input' \in Seq(Nat) /\ Len(input') = Len(input) - n /\ Len(input) \in Nat
  BY <1>2, <1>3, EraseIs
<1>5. Len(Coming) = Len(input) + Len(net) /\ Len(net) \in Nat
  BY ComingIs
<1>6. Len(Coming') = Len(input') + Len(net)
  <2>1. PICK c, i, m : c = Coming' /\ i = input' /\ m = net
    OBVIOUS
  <2>2. IsConcat(c, i, m) /\ i \in Seq(Nat) /\ m \in Seq(Nat)
    BY <1>4, <2>1 DEF IsConcat, Coming, BytesOK
  <2>3. Len(c) = Len(i) + Len(m)
    BY ONLY <2>2, ConcatIs
  <2> QED BY <2>1, <2>3
<1>7. Len(Coming') <= Len(Coming)
  BY <1>2, <1>4, <1>5, <1>6
<1>8. Len(input) <= ReadMax => input' = <<>>
  <2> SUFFICES ASSUME Len(input) <= ReadMax PROVE input' = <<>>
    OBVIOUS
  <2>1. Len(input') = 0
    BY <1>2, <1>4
  <2> QED BY <1>4, <2>1
<1> QED BY <1>1, <1>7, <1>8

(* Nothing arrives and nothing is read. *)
LEMMA SameComing ==
    ASSUME BytesOK, UNCHANGED <<input, net>>
    PROVE  Len(Coming') <= Len(Coming) /\ Coming' = Coming
<1>1. Coming' = Coming /\ Len(Coming) \in Nat
  BY ComingIs DEF Coming
<1> QED BY <1>1

(* When a break leaves a packet that is not whole. *)
LEMMA PendingNone ==
    ASSUME NEW its \in Seq(ItemSet), BytesOK', Rest' = Bytes(its), buffer' = <<>>
    PROVE  Pending(its)'
<1>1. PICK b, c : b = buffer' /\ c = Coming'
  OBVIOUS
<1>2. b \in Seq(Nat) /\ c \in Seq(Nat) /\ IsConcat(Bytes(its), b, c) /\ b = <<>>
  BY <1>1, RestNext
<1>3. Over(its, c)
  BY <1>2, OverNone
<1> QED BY <1>1, <1>3 DEF Pending, Over, Left

(* Nor is there one when the first is not whole. *)
LEMMA PendingFirst ==
    ASSUME NEW its \in Seq(ItemSet), BytesOK', Rest' = Bytes(its),
           its # <<>> => Len(buffer') < Len(its[1].bytes)
    PROVE  Pending(its)'
<1>1. PICK b, c : b = buffer' /\ c = Coming'
  OBVIOUS
<1>2. /\ b \in Seq(Nat) /\ c \in Seq(Nat) /\ IsConcat(Bytes(its), b, c)
      /\ its # <<>> => Len(b) < Len(its[1].bytes)
  BY <1>1, RestNext
<1>3. Over(its, c)
  BY <1>2, OverFirst
<1> QED BY <1>1, <1>3 DEF Pending, Over, Left

(* A phase stays when its variables do; what comes into the buffer matters  *)
(* to none that waits for it.                                              *)
LEMMA PhaseKept ==
    ASSUME NEW its, UNCHANGED <<conf, stream, loaded, caseStep, named, packetLen, head>>,
           Rest' = Rest, Phase(its), caseStep \in {"START", "LOAD_PACKET"} \/ buffer' = buffer
    PROVE  Phase(its)'
<1>1. Dispatched' = Dispatched
  BY DEF Dispatched
<1>2. CASE Hand(its)
  <2>1. Good(its, 2)'
    BY <1>2, GoodSame DEF Hand
  <2>2. Hand(its)'
    BY <1>2, <2>1 DEF Hand
  <2> QED BY <2>2 DEF Phase
<1>3. CASE Seek(its)
  <2>1. Good(its, 1)'
    BY <1>3, GoodSame DEF Seek
  <2>2. Seek(its)'
    BY <1>1, <1>3, <2>1 DEF Seek
  <2> QED BY <2>2 DEF Phase
<1>4. CASE Wait(its)
  <2>1. Good(its, 2)'
    BY <1>4, GoodSame DEF Wait
  <2>2. Framing(packetLen, its[1].bytes)'
    BY <1>4 DEF Wait, Framing
  <2>3. Wait(its)'
    BY <1>4, <2>1, <2>2 DEF Wait
  <2> QED BY <2>3 DEF Phase
<1>5. CASE Held(its)
  <2>1. Good(its, 1)'
    BY <1>5, GoodSame DEF Held
  <2>2. Held(its)'
    BY <1>5, <2>1 DEF Held
  <2> QED BY <2>2 DEF Phase
<1>6. CASE Lost(its)
  <2>1. Good(its, 1)'
    BY <1>6, GoodSame DEF Lost
  <2>2. Lost(its)'
    BY <1>1, <1>6, <2>1 DEF Lost
  <2> QED BY <2>2 DEF Phase
<1> QED BY <1>2, <1>3, <1>4, <1>5, <1>6 DEF Phase
-----------------------------------------------------------------------------
(* A chunk arrives, and the callback is called. *)
LEMMA StepArrive ==
    ASSUME ReadInv, NEW n \in 1 .. conf.maxArrive, Arrive(n)
    PROVE  ReadInv'
<1>1. PICK its \in Seq(ItemSet) : Covers(its)
  BY DEF ReadInv
<1>2. Typed /\ Waits /\ BytesOK /\ ~running
  BY DEF ReadInv, Typed, Arrive
<1>3. UNCHANGED <<conf, stream, due, loaded, buffer, named, caseStep, procStep, packetLen, head, closeRead, closed>>
      /\ running' = TRUE
  BY DEF Arrive
<1>4. BytesOK' /\ Rest' = Rest
  BY <1>2, RestArrive DEF Arrive
<1>5. Len(Coming') <= Len(Coming)
  <2>1. Len(Rest') = Len(buffer) + Len(Coming') /\ Len(Rest) = Len(buffer) + Len(Coming)
        /\ Len(buffer) \in Nat /\ Len(Coming) \in Nat /\ Len(Coming') \in Nat
    <3>1. Len(Rest) = Len(buffer) + Len(Coming) /\ Len(buffer) \in Nat /\ Len(Coming) \in Nat
      BY <1>2, ComingIs
    <3>2. PICK w, b, c : w = Rest' /\ b = buffer' /\ c = Coming'
      OBVIOUS
    <3>3. IsConcat(w, b, c) /\ b \in Seq(Nat) /\ c \in Seq(Nat)
      <4>1. c \in Seq(Nat) /\ b \in Seq(Nat)
        BY <1>4, <3>2 DEF Coming, BytesOK
      <4>2. IsConcat(w, b, c)
        BY <3>2 DEF IsConcat, Rest
      <4> QED BY <4>1, <4>2
    <3>4. Len(w) = Len(b) + Len(c) /\ Len(c) \in Nat
      BY ONLY <3>3, ConcatIs
    <3> QED BY <1>3, <3>1, <3>2, <3>4
  <2> QED BY <1>4, <2>1
<1>6. /\ Follows(its)' /\ (Dispatched => Link(its))'
      /\ Dispatched' = Dispatched /\ Eager' = Eager
  BY <1>1, <1>2, <1>3, <1>4, <1>5, SameItems
<1>7. Typed'
  BY <1>2, <1>3, <1>4, TypedIs, TypedKept
<1>8. Waits'
  <2>1. SUFFICES ASSUME Eager PROVE Len(input') <= ReadMax /\ Ready'
    BY <1>3, <1>6 DEF Waits
  <2>2. input = <<>> /\ Ready /\ conf.maxArrive <= ReadMax
    BY <1>2, <2>1 DEF Waits, Eager
  <2>3. Ready'
    BY <1>3, <2>2 DEF Ready, LoadLen
  <2>4. Len(input') <= ReadMax
    <3>1. net \in Seq(Nat) /\ n \in Nat /\ n \in 1 .. Len(net) /\ conf.maxArrive \in Nat
      BY SMTT(30), <1>2, TypedIs, ConfIs DEF BytesOK, Arrive
    <3>2. n \in 0 .. Len(net)
      BY <3>1
    <3>3. SubSeq(net, 1, n) \in Seq(Nat) /\ Len(SubSeq(net, 1, n)) = n
      BY <3>1, <3>2, FrontIs
    <3>4. input' = SubSeq(net, 1, n)
      BY <2>2, <3>3, ConcatEmptySeq DEF Arrive
    <3>5. n <= ReadMax
      BY <2>2, <3>1, EndIs
    <3> QED BY <3>3, <3>4, <3>5
  <2> QED BY <2>3, <2>4
<1>9. Phase(its)'
  BY <1>1, <1>3, <1>4, PhaseKept DEF Covers
<1> QED BY <1>3, <1>6, <1>7, <1>8, <1>9, Finish

(* CASE_START reads, and goes on by the first byte. *)
LEMMA StepStart ==
    ASSUME ReadInv, CaseStart
    PROVE  ReadInv'
<1>1. PICK its \in Seq(ItemSet) : Covers(its)
  BY DEF ReadInv
<1>2. Typed /\ Waits /\ BytesOK /\ running /\ caseStep = "START"
  BY DEF ReadInv, Typed, CaseStart, In
<1>3. UNCHANGED <<conf, stream, due, loaded, net, named, procStep, closeRead>> /\ ReadInput
  BY DEF CaseStart
<1>4. BytesOK' /\ Rest' = Rest /\ Len(Coming') <= Len(Coming) /\ (Len(input) <= ReadMax => input' = <<>>)
  BY <1>2, <1>3, ReadAll
<1>5. /\ Follows(its)' /\ (Dispatched => Link(its))'
      /\ Dispatched' = Dispatched /\ Eager' = Eager
  BY <1>1, <1>2, <1>3, <1>4, SameItems
<1>6. Eager => input' = <<>> /\ Len(input') <= ReadMax
  <2>1. Len(<<>>) = 0 /\ 0 <= ReadMax
    BY EndIs
  <2> QED BY <1>2, <1>4, <2>1 DEF Waits
<1>7. Hand(its) \/ Seek(its)
  BY <1>1, <1>2, PhaseIs DEF Covers
<1>8. Rest = Bytes(its)
  BY <1>7 DEF Hand, Seek
<1>9. CASE buffer' = <<>>
  <2>1. running' = FALSE /\ closed' = closeRead /\ UNCHANGED <<caseStep, head, packetLen>>
    BY <1>9 DEF CaseStart, Break
  <2>2. Typed'
    BY <1>2, <1>3, <1>4, <2>1, TypedIs, TypedKept
  <2>3. Phase(its)'
    BY <1>1, <1>2, <1>3, <1>4, <2>1, PhaseKept DEF Covers
  <2>4. Waits'
    BY <1>2, <1>5, <1>6, <2>1 DEF Waits, Ready
  <2>5. Pending(its)'
    <3>1. Bytes(its) = Rest'
      BY <1>4, <1>8
    <3> QED BY <1>4, <1>9, <3>1, PendingNone
  <2> QED BY <1>5, <2>2, <2>3, <2>4, <2>5, Finish
<1>10. CASE buffer' # <<>>
  <2>1. /\ running' = TRUE /\ closed' = closed /\ head' = buffer'[1] /\ packetLen' = 0
        /\ caseStep' = IF ~named THEN "SKHD"
                       ELSE IF buffer'[1] = AtMark THEN "ROUTING_STEP" ELSE "NORMAL_STEP"
    BY <1>10 DEF CaseStart, Continue
  <2>2. Typed'
    <3>1. caseStep' \in Cases /\ 0 \in 0 .. SizeWidth - 1
      BY <2>1, ReadAssumption DEF Cases
    <3> QED BY <1>2, <1>3, <1>4, <2>1, <3>1, TypedIs, TypedKept
  <2>3. Waits'
    BY <1>5, <1>6, <2>1 DEF Waits
  <2>4. its # <<>> /\ buffer'[1] = its[1].bytes[1] /\ its[1] \in ItemSet
    <3>1. PICK b, c : b = buffer' /\ c = Coming'
      OBVIOUS
    <3>2. b \in Seq(Nat) /\ c \in Seq(Nat) /\ IsConcat(Bytes(its), b, c) /\ b # <<>>
      BY <1>4, <1>8, <1>10, <3>1, RestNext
    <3> QED BY <3>1, <3>2, BytesSome
  <2>5. Phase(its)'
    <3>1. CASE Hand(its)
      <4>1. Good(its, 2)'
        BY <1>3, <3>1, GoodSame DEF Hand
      <4>2. Hand(its)'
        BY <1>3, <1>4, <1>10, <2>1, <3>1, <4>1 DEF Hand
      <4> QED BY <4>2 DEF Phase
    <3>2. CASE Seek(its)
      <4>1. Good(its, 1)'
        BY <1>3, <3>2, GoodSame DEF Seek
      <4>2. Dispatched => head' \in conf.known
        <5>1. SUFFICES ASSUME Dispatched PROVE its[1].bytes[1] \in conf.known
          BY <2>1, <2>4
        <5>2. 1 \in DOMAIN its /\ 1 \in DOMAIN its[1].bytes
          BY <2>4, TailIs, ItemIs
        <5> QED BY <3>2, <5>1, <5>2 DEF Seek, Good, Known, ToSet
      <4>3. Seek(its)'
        BY <1>3, <1>4, <1>5, <1>10, <2>1, <2>4, <3>2, <4>1, <4>2 DEF Seek
      <4> QED BY <4>3 DEF Phase
    <3> QED BY <1>7, <3>1, <3>2
  <2> QED BY <1>5, <2>1, <2>2, <2>3, <2>5, Finish
<1> QED BY <1>9, <1>10

(* The handshake *)
LEMMA HandFind ==
    ASSUME NEW its \in Seq(ItemSet), its # <<>>, Handshake(conf, its), BytesOK, Rest = Bytes(its),
           ~conf.defaultConn \/ Contains(buffer, MatchMark)
    PROVE  \E n \in {1, 2} : FirstAt(its[1].bytes, MatchMark, n)
<1>1. PICK x \in Seq(Nat) : x = its[1].bytes
  BY TailIs, ItemIs
<1>2. ASSUME Contains(buffer, MatchMark) PROVE Contains(Bytes(its), MatchMark)
  <2>1. PICK w, b, c : w = Rest /\ b = buffer /\ c = Coming
    OBVIOUS
  <2>2. b \in Seq(Nat) /\ c \in Seq(Nat) /\ IsConcat(w, b, c)
    BY <2>1, RestIs DEF BytesOK
  <2>3. /\ Len(w) = Len(b) + Len(c) /\ Len(b) \in Nat /\ Len(c) \in Nat
        /\ \A j \in 1 .. Len(b) : w[j] = b[j]
    BY ONLY SMTT(30), <2>2, ConcatIs
  <2>4. PICK i \in 1 .. Len(b) : b[i] = MatchMark
    BY <1>2, <2>1 DEF Contains
  <2>5. i \in 1 .. Len(w) /\ w[i] = MatchMark
    BY <2>3, <2>4
  <2> QED BY <2>1, <2>5 DEF Contains
<1>3. Find(x, MatchMark) \in {0, 1}
  BY <1>1, <1>2 DEF Handshake
<1>4. PICK n \in {1, 2} : Find(x, MatchMark) = n - 1
  BY <1>3
<1>5. FirstAt(x, MatchMark, n)
  <2>1. n \in Nat \ {0}
    OBVIOUS
  <2> QED BY <1>4, <2>1, FindHas
<1> QED BY <1>1, <1>5

(* CASE_SKHD finds no CONNECT node only while the packet is not whole. *)
LEMMA NoMatchShort ==
    ASSUME NEW its \in Seq(ItemSet), its # <<>>, Hand(its), BytesOK, CheckConn(buffer) < 0,
           conf \in Confs
    PROVE  Len(buffer) < Len(its[1].bytes)
<1>1. PICK b \in Seq(Nat) : b = buffer /\ Len(b) \in Nat
  BY DEF BytesOK
<1>2. Find(b, MatchMark) < 0 /\ ~conf.defaultConn
  BY <1>1 DEF CheckConn
<1>3. ~Contains(b, MatchMark)
  BY <1>2, FindNone
<1>4. PICK n \in {1, 2} : FirstAt(its[1].bytes, MatchMark, n)
  BY <1>2, HandFind DEF Hand
<1>5. Agree(b, its[1].bytes)
  BY <1>1, RestFront DEF Hand
<1>6. PICK l \in Nat : l = Len(its[1].bytes)
  BY CountCons
<1>7. ~(n \in 1 .. Len(b))
  <2>1. n <= l /\ its[1].bytes[n] = MatchMark
    BY <1>4, <1>6 DEF FirstAt
  <2> QED BY <1>3, <1>5, <1>6, <2>1 DEF Agree, Contains
<1> QED BY <1>1, <1>4, <1>6, <1>7 DEF FirstAt

(* Nothing is cut off before MatchStr. *)
LEMMA TrimIs ==
    ASSUME NEW its \in Seq(ItemSet), its # <<>>, Hand(its), BytesOK, conf \in Confs
    PROVE  Trim(buffer, CheckConn(buffer)) = buffer
<1>1. PICK b \in Seq(Nat) : b = buffer /\ Len(b) \in Nat
  BY DEF BytesOK
<1>2. CASE ~Contains(b, MatchMark)
  <2>1. Find(b, MatchMark) = -1
    BY <1>2 DEF Find
  <2>2. CheckConn(b) \in {-1, 0}
    BY <2>1 DEF CheckConn
  <2> QED BY <1>1, <2>2 DEF Trim
<1>3. CASE Contains(b, MatchMark)
  <2>1. PICK n \in {1, 2} : FirstAt(its[1].bytes, MatchMark, n)
    BY <1>1, <1>3, HandFind DEF Hand
  <2>2. Agree(b, its[1].bytes)
    BY <1>1, RestFront DEF Hand
  <2>3. PICK l \in Nat : l = Len(its[1].bytes)
    BY CountCons
  <2>4. PICK k \in Nat \ {0} : FirstAt(b, MatchMark, k)
    BY <1>3, FirstExists
  <2>5. k \in 1 .. 2
    <3>1. SUFFICES ASSUME n < k PROVE FALSE
      BY <2>4
    <3>2. n \in 1 .. k - 1 /\ n \in 1 .. Len(b) /\ n <= l
      BY <1>1, <2>1, <2>3, <2>4, <3>1 DEF FirstAt
    <3>3. b[n] = MatchMark
      BY <2>1, <2>2, <2>3, <3>2 DEF Agree, FirstAt
    <3> QED BY <2>4, <3>2, <3>3 DEF FirstAt
  <2>6. Find(b, MatchMark) = k - 1
    BY <2>4, FindAt
  <2>7. CheckConn(b) = k - 1
    BY <2>5, <2>6 DEF CheckConn
  <2>8. Erase(b, 0) = b
    BY EraseNone
  <2> QED BY <1>1, <2>5, <2>7, <2>8 DEF Trim
<1> QED BY <1>2, <1>3

(* CASE_SKHD without a match waits for more. *)
LEMMA StepNoMatch ==
    ASSUME ReadInv, SkhdNoMatch
    PROVE  ReadInv'
<1>1. PICK its \in Seq(ItemSet) : Covers(its)
  BY DEF ReadInv
<1>2. Typed /\ Waits /\ BytesOK /\ running /\ caseStep = "SKHD" /\ CheckConn(buffer) < 0
  BY DEF ReadInv, Typed, SkhdNoMatch, In
<1>3. /\ UNCHANGED <<conf, stream, due, loaded, net, input, buffer, named, head, procStep, packetLen, closeRead>>
      /\ caseStep' = "START" /\ (input # <<>> => running' = TRUE) /\ running' \in BOOLEAN
      /\ closed' \in {closed, closeRead}
  BY DEF SkhdNoMatch, ReadOn, Break, Continue
<1>4. BytesOK' /\ Rest' = Rest
  BY <1>2, <1>3, RestSame
<1>5. /\ Follows(its)' /\ (Dispatched => Link(its))'
      /\ Dispatched' = Dispatched /\ Eager' = Eager
  BY <1>1, <1>2, <1>3, <1>4, SameComing, SameItems
<1>6. Typed'
  BY <1>2, <1>3, <1>4, TypedIs, TypedKept DEF Cases
<1>7. Waits'
  BY <1>2, <1>3, <1>5, WaitsIdle
<1>8. Hand(its)
  BY <1>1, <1>2, PhaseIs DEF Covers
<1>9. Phase(its)'
  <2>1. Good(its, 2)'
    BY <1>3, <1>8, GoodSame DEF Hand
  <2>2. Hand(its)'
    BY <1>3, <1>4, <1>8, <2>1 DEF Hand
  <2> QED BY <2>2 DEF Phase
<1>10. Pending(its)'
  <2>1. its # <<>> => Len(buffer) < Len(its[1].bytes)
    BY <1>2, <1>8, TypedIs, NoMatchShort
  <2>2. Rest' = Bytes(its) /\ buffer' = buffer
    BY <1>3, <1>4, <1>8 DEF Hand
  <2> QED BY <1>4, <2>1, <2>2, PendingFirst
<1> QED BY <1>5, <1>6, <1>7, <1>9, <1>10, Finish
-----------------------------------------------------------------------------
(* CASE_SKHD with a match frames the packet, or waits for MinLen bytes. *)
LEMMA StepSkhd ==
    ASSUME ReadInv, Skhd
    PROVE  ReadInv'
<1>1. PICK its \in Seq(ItemSet) : Covers(its)
  BY DEF ReadInv
<1>2. Typed /\ Waits /\ BytesOK /\ running /\ caseStep = "SKHD" /\ conf \in Confs
  BY TypedIs DEF ReadInv, Typed, Skhd, In
<1>3. /\ UNCHANGED <<conf, stream, due, loaded, net, input, head, closeRead>> /\ procStep' = "skhd"
      /\ buffer' = Trim(buffer, CheckConn(buffer))
  BY DEF Skhd
<1>4. Hand(its) /\ buffer # <<>> /\ Rest = Bytes(its)
  <2>1. Hand(its)
    BY <1>1, <1>2, PhaseIs DEF Covers
  <2> QED BY <1>2, <2>1 DEF Hand
<1>5. its # <<>> /\ Agree(buffer, its[1].bytes)
  BY <1>2, <1>4, RestSome, RestFront
<1>6. buffer' = buffer
  BY <1>2, <1>3, <1>4, <1>5, TrimIs
<1>7. BytesOK' /\ Rest' = Rest
  BY <1>2, <1>3, <1>6, RestSame
<1>8. /\ Follows(its)' /\ (Dispatched => Link(its))'
      /\ Dispatched' = Dispatched /\ Eager' = Eager
  BY <1>1, <1>2, <1>3, <1>7, SameComing, SameItems
<1>9. Good(its, 2)'
  BY <1>3, <1>4, GoodSame DEF Hand
<1>10. Cut(conf.skhd, its[1].bytes) /\ ~its[1].junk
  BY <1>4, <1>5 DEF Hand, Handshake
<1>11. /\ its[1].bytes \in Seq(Nat) /\ its[1].bytes # <<>> /\ conf.skhd \in Attributes
       /\ conf.skhd.minLen \in Nat /\ Len(its[1].bytes) \in Nat /\ buffer \in Seq(Nat) /\ Len(buffer) \in Nat
  <2>1. its[1] \in ItemSet
    BY <1>5, TailIs
  <2>2. conf.skhd \in Attributes /\ conf.skhd.minLen \in Nat
    BY <1>2, ConfIs
  <2>3. buffer \in Seq(Nat) /\ Len(buffer) \in Nat
    BY <1>2 DEF BytesOK
  <2> QED BY <2>1, <2>2, <2>3, ItemIs
<1>12. CASE Len(buffer) < conf.skhd.minLen
  <2>1. named' = FALSE /\ caseStep' = "START" /\ running' = FALSE /\ closed' = closeRead /\ packetLen' = packetLen
    BY <1>6, <1>11, <1>12 DEF Skhd, Break
  <2>2. named' = named
    BY <1>4, <2>1 DEF Hand
  <2>3. Typed'
    BY <1>2, <1>3, <1>7, <2>1, <2>2, TypedIs, TypedKept DEF Cases, Steps, Nodes
  <2>4. Waits'
    BY <1>2, <1>3, <1>8, <2>1, WaitsIdle
  <2>5. Hand(its)'
    BY <1>3, <1>4, <1>7, <1>9, <2>1 DEF Hand
  <2>6. Pending(its)'
    <3>1. Len(buffer') < Len(its[1].bytes)
      BY SMTT(30), <1>6, <1>10, <1>11, <1>12 DEF Cut
    <3> QED BY <1>4, <1>7, <3>1, PendingFirst
  <2> QED BY <1>8, <2>3, <2>4, <2>5, <2>6, Finish DEF Phase
<1>13. CASE ~(Len(buffer) < conf.skhd.minLen)
  <2>1. conf.skhd.minLen <= Len(buffer)
    BY <1>11, <1>13
  <2>2. Framing(FrameLen("skhd", buffer), its[1].bytes)
    <3>1. PICK b \in Seq(Nat) : b = buffer
      BY <1>11
    <3> QED BY <1>5, <1>10, <1>11, <2>1, <3>1, FrameIs
  <2>3. FrameLen("skhd", buffer) \in 0 .. SizeWidth - 1 /\ FrameLen("skhd", buffer) # NaN
    BY <1>11, <2>2, FramingIs
  <2>4. /\ packetLen' = FrameLen("skhd", buffer) /\ named' = TRUE /\ caseStep' = "LOAD_PACKET"
        /\ running' = TRUE /\ closed' = closed
    BY <1>6, <1>11, <1>13, <2>3 DEF Skhd, Continue
  <2>5. Typed'
    BY <1>2, <1>3, <1>7, <2>3, <2>4, TypedIs, TypedKept DEF Cases, Steps, Nodes
  <2>6. Waits'
    BY <1>2, <1>3, <1>8, <2>4, WaitsIdle
  <2>7. Framing(packetLen, its[1].bytes)'
    BY <2>2, <2>4 DEF Framing
  <2>8. Wait(its)'
    BY <1>4, <1>5, <1>7, <1>9, <1>10, <2>4, <2>7 DEF Wait
  <2> QED BY <1>8, <2>4, <2>5, <2>6, <2>8, Finish DEF Phase
<1> QED BY <1>12, <1>13

(* What the actions of CASE_ROUTING_STEP and CASE_NORMAL_STEP find. *)
LEMMA SeekIs ==
    ASSUME Typed, NEW its \in Seq(ItemSet), Covers(its), caseStep \in {"ROUTING_STEP", "NORMAL_STEP"}
    PROVE  /\ Seek(its) /\ Rest = Bytes(its) /\ Good(its, 1)
           /\ buffer \in Seq(Nat) /\ Len(buffer) \in Nat
           /\ its # <<>> => /\ its[1].bytes \in Seq(Nat) /\ its[1].bytes # <<>> /\ its[1].junk \in BOOLEAN
                            /\ Len(its[1].bytes) \in Nat /\ Agree(buffer, its[1].bytes)
                            /\ First(conf, Dispatched, its) /\ Good(its, 2)
                            /\ 1 \in DOMAIN its[1].bytes
           /\ buffer # <<>> => its # <<>> /\ buffer[1] = its[1].bytes[1]
<1>1. Seek(its)
  BY PhaseIs DEF Covers
<1>2. Rest = Bytes(its) /\ Good(its, 1) /\ BytesOK
  BY <1>1 DEF Seek, Typed
<1>3. buffer \in Seq(Nat) /\ Len(buffer) \in Nat
  BY <1>2 DEF BytesOK
<1>4. ASSUME its # <<>>
      PROVE  /\ its[1].bytes \in Seq(Nat) /\ its[1].bytes # <<>> /\ its[1].junk \in BOOLEAN
             /\ Len(its[1].bytes) \in Nat /\ Agree(buffer, its[1].bytes)
             /\ First(conf, Dispatched, its) /\ Good(its, 2)
             /\ 1 \in DOMAIN its[1].bytes
  <2>1. its[1] \in ItemSet
    BY <1>4, TailIs
  <2>2. First(conf, Dispatched, its) /\ Good(its, 2)
    BY <1>2, <1>4, GoodFirst
  <2>3. Agree(buffer, its[1].bytes)
    BY <1>2, <1>4, RestFront
  <2> QED BY <2>1, <2>2, <2>3, ItemIs
<1> QED BY <1>1, <1>2, <1>3, <1>4, RestSome

(* CASE_ROUTING_STEP takes the length from the header, or waits for it. *)
LEMMA StepRouting ==
    ASSUME ReadInv, RoutingStep
    PROVE  ReadInv'
<1>1. PICK its \in Seq(ItemSet) : Covers(its)
  BY DEF ReadInv
<1>2. Typed /\ Waits /\ BytesOK /\ running /\ caseStep = "ROUTING_STEP" /\ conf \in Confs
  BY TypedIs DEF ReadInv, Typed, RoutingStep, In
<1>3. /\ UNCHANGED <<conf, stream, due, loaded, net, input, buffer, named, head, closeRead>>
      /\ procStep' = "routing"
  BY DEF RoutingStep
<1>4. BytesOK' /\ Rest' = Rest
  BY <1>2, <1>3, RestSame
<1>5. /\ Follows(its)' /\ (Dispatched => Link(its))'
      /\ Dispatched' = Dispatched /\ Eager' = Eager
  BY <1>1, <1>2, <1>3, <1>4, SameComing, SameItems
<1>6. /\ Seek(its) /\ Rest = Bytes(its) /\ Good(its, 1)
      /\ buffer \in Seq(Nat) /\ Len(buffer) \in Nat
      /\ its # <<>> => /\ its[1].bytes \in Seq(Nat) /\ its[1].bytes # <<>> /\ its[1].junk \in BOOLEAN
                       /\ Len(its[1].bytes) \in Nat /\ Agree(buffer, its[1].bytes)
                       /\ First(conf, Dispatched, its) /\ Good(its, 2)
                       /\ 1 \in DOMAIN its[1].bytes
      /\ buffer # <<>> => its # <<>> /\ buffer[1] = its[1].bytes[1]
  BY <1>1, <1>2, SeekIs
<1>7. its # <<>> /\ its[1].bytes[1] = AtMark /\ named = TRUE
  BY <1>2, <1>6 DEF Seek
<1>8. ~its[1].junk /\ HasLen(its[1].bytes)
  BY <1>6, <1>7 DEF First, Inside, Normal, Routed
<1>9. CASE Len(buffer) >= LenAt
  <2>1. buffer[LenAt] = Len(its[1].bytes) /\ Len(its[1].bytes) < PacketLenEnd
    BY <1>6, <1>7, <1>8, <1>9, EndIs DEF HasLen, Agree
  <2>2. packetLen' = Len(its[1].bytes) /\ caseStep' = "LOAD_PACKET" /\ running' = TRUE /\ closed' = closed
    BY <1>9, <2>1 DEF RoutingStep, Continue
  <2>3. Framing(packetLen, its[1].bytes)'
    BY <2>1, <2>2 DEF Framing
  <2>4. Framing(packetLen', its[1].bytes)
    BY <2>1, <2>2 DEF Framing
  <2>5. packetLen' \in 0 .. SizeWidth - 1
    BY <1>6, <1>7, <2>4, FramingIs
  <2>6. Typed'
    BY <1>2, <1>3, <1>4, <2>2, <2>5, TypedIs, TypedKept DEF Cases, Steps, Nodes
  <2>7. Waits'
    BY <1>2, <1>3, <1>5, <2>2, WaitsIdle
  <2>8. Good(its, 2)'
    BY <1>3, <1>6, <1>7, GoodSame
  <2>9. Wait(its)'
    BY <1>3, <1>4, <1>6, <1>7, <1>8, <2>2, <2>3, <2>8 DEF Wait
  <2> QED BY <1>5, <2>2, <2>6, <2>7, <2>9, Finish DEF Phase
<1>10. CASE ~(Len(buffer) >= LenAt)
  <2>1. /\ packetLen' = packetLen /\ caseStep' = "START" /\ running' \in BOOLEAN /\ closed' \in {closed, closeRead}
    BY <1>10 DEF RoutingStep, ReadOn, Break, Continue
  <2>2. Typed'
    BY <1>2, <1>3, <1>4, <2>1, TypedIs, TypedKept DEF Cases, Steps, Nodes
  <2>3. Waits'
    BY <1>2, <1>3, <1>5, <2>1, WaitsIdle
  <2>4. Good(its, 1)'
    BY <1>3, <1>6, GoodSame
  <2>5. Seek(its)'
    BY <1>3, <1>4, <1>6, <1>7, <2>1, <2>4 DEF Seek
  <2>6. Pending(its)'
    <3>1. Len(buffer') < Len(its[1].bytes)
      BY <1>3, <1>6, <1>7, <1>8, <1>10, EndIs DEF HasLen
    <3> QED BY <1>4, <1>6, <3>1, PendingFirst
  <2> QED BY <1>5, <2>2, <2>3, <2>5, <2>6, Finish DEF Phase
<1> QED BY <1>9, <1>10

(* CASE_NORMAL_STEP without a start step: the buffer is going to be lost. *)
LEMMA StepNoStep ==
    ASSUME ReadInv, NormalNoStep
    PROVE  ReadInv'
<1>1. PICK its \in Seq(ItemSet) : Covers(its)
  BY DEF ReadInv
<1>2. Typed /\ Waits /\ BytesOK /\ running /\ caseStep = "NORMAL_STEP" /\ head \notin conf.known
  BY DEF ReadInv, Typed, NormalNoStep, In
<1>3. /\ UNCHANGED <<conf, stream, due, loaded, net, input, buffer, named, head, closeRead, packetLen, closed>>
      /\ procStep' = "" /\ caseStep' = "END" /\ running' = TRUE
  BY DEF NormalNoStep, Continue
<1>4. BytesOK' /\ Rest' = Rest
  BY <1>2, <1>3, RestSame
<1>5. /\ Follows(its)' /\ (Dispatched => Link(its))'
      /\ Dispatched' = Dispatched /\ Eager' = Eager
  BY <1>1, <1>2, <1>3, <1>4, SameComing, SameItems
<1>6. Seek(its)
  BY <1>1, <1>2, SeekIs
<1>7. Typed'
  BY <1>2, <1>3, <1>4, TypedIs, TypedKept DEF Cases, Steps, Nodes
<1>8. Waits'
  BY <1>2, <1>3, <1>5, WaitsIdle
<1>9. Good(its, 1)'
  BY <1>3, <1>6, GoodSame DEF Seek
<1>10. Lost(its)'
  BY <1>2, <1>3, <1>4, <1>5, <1>6, <1>9 DEF Lost, Seek
<1> QED BY <1>3, <1>5, <1>7, <1>8, <1>10, Finish DEF Phase
-----------------------------------------------------------------------------
(* CASE_NORMAL_STEP waits for MinLen bytes: no packet is whole. *)
LEMMA StepShort ==
    ASSUME ReadInv, NormalShort
    PROVE  ReadInv'
<1>1. PICK its \in Seq(ItemSet) : Covers(its)
  BY DEF ReadInv
<1>2. /\ Typed /\ Waits /\ BytesOK /\ running /\ caseStep = "NORMAL_STEP" /\ conf \in Confs
      /\ Len(buffer) < conf.step.minLen
  BY TypedIs DEF ReadInv, Typed, NormalShort, StepFound, TooShort, In
<1>3. /\ UNCHANGED <<conf, stream, due, loaded, net, input, buffer, named, head, packetLen, closeRead>>
      /\ procStep' = "step" /\ caseStep' = "START" /\ running' \in BOOLEAN /\ closed' \in {closed, closeRead}
  BY DEF NormalShort, StepFound, ReadOn, Break, Continue
<1>4. BytesOK' /\ Rest' = Rest
  BY <1>2, <1>3, RestSame
<1>5. /\ Follows(its)' /\ (Dispatched => Link(its))'
      /\ Dispatched' = Dispatched /\ Eager' = Eager
  BY <1>1, <1>2, <1>3, <1>4, SameComing, SameItems
<1>6. Seek(its) /\ Rest = Bytes(its) /\ Good(its, 1)
  BY <1>1, <1>2, SeekIs
<1>7. Typed'
  BY <1>2, <1>3, <1>4, TypedIs, TypedKept DEF Cases, Steps, Nodes
<1>8. Waits'
  BY <1>2, <1>3, <1>5, WaitsIdle
<1>9. Good(its, 1)'
  BY <1>3, <1>6, GoodSame
<1>10. Seek(its)'
  BY <1>3, <1>4, <1>6, <1>9 DEF Seek
<1>11. Pending(its)'
  <2>1. PICK n \in Nat : n = conf.step.minLen
    BY <1>2, ConfIs
  <2>2. ASSUME NEW j \in 1 .. Len(its), ~its[j].junk PROVE Behind(its, j, n)
    <3>1. its # <<>> /\ j <= Len(its)
      OBVIOUS
    <3>2. its[1].bytes[1] # AtMark
      BY <1>2, <1>6, <3>1 DEF Seek
    <3>3. LongEnough(its, j)
      BY <2>1, NormalBehind
    <3> QED BY <1>6, <2>1, <2>2, <3>1, <3>2, <3>3 DEF LongEnough
  <2>3. PICK b, c : b = buffer' /\ c = Coming'
    OBVIOUS
  <2>4. b \in Seq(Nat) /\ c \in Seq(Nat) /\ IsConcat(Bytes(its), b, c)
    BY <1>4, <1>6, <2>3, RestNext
  <2>5. Len(b) < n
    BY <1>2, <1>3, <2>1, <2>3
  <2>6. Over(its, c)
    BY <2>2, <2>4, <2>5, OverBehind
  <2> QED BY <2>3, <2>6 DEF Pending, Over, Left
<1> QED BY <1>5, <1>7, <1>8, <1>10, <1>11, Finish DEF Phase

(* BeginHex in the buffer and in the bytes that come. *)
LEMMA BeginIs ==
    ASSUME NEW p \in Seq(Nat), NEW b \in Seq(Nat), NEW c \in Seq(Nat), NEW w, IsConcat(w, b, c),
           IsPrefix(p, b)
    PROVE  IsPrefix(p, Erase(w, 1 - 1))
<1>1. /\ w \in Seq(Nat) /\ Len(b) \in Nat /\ Len(c) \in Nat /\ Len(w) = Len(b) + Len(c)
      /\ \A j \in 1 .. Len(b) : w[j] = b[j]
  BY ConcatIs
<1>2. Len(p) \in Nat /\ Len(p) <= Len(b) /\ \A j \in 1 .. Len(p) : p[j] = b[j]
  BY PrefixIs
<1>3. IsPrefix(p, w)
  <2>1. Len(p) <= Len(w)
    BY <1>1, <1>2
  <2>2. \A j \in 1 .. Len(p) : p[j] = w[j]
    BY <1>1, <1>2
  <2> QED BY <1>1, <2>1, <2>2, PrefixIs
<1>4. Erase(w, 0) = w /\ 1 - 1 = 0
  BY <1>1, EraseNone
<1> QED BY <1>3, <1>4

(* CASE_NORMAL_STEP frames the packet when BeginHex is there. *)
LEMMA StepFrame ==
    ASSUME ReadInv, NormalFrame
    PROVE  ReadInv'
<1>1. PICK its \in Seq(ItemSet) : Covers(its)
  BY DEF ReadInv
<1>2. /\ Typed /\ Waits /\ BytesOK /\ running /\ caseStep = "NORMAL_STEP" /\ conf \in Confs
      /\ ~(Len(buffer) < conf.step.minLen) /\ IsPrefix(conf.begin, buffer)
  BY TypedIs DEF ReadInv, Typed, NormalFrame, StepFound, TooShort, In
<1>3. /\ UNCHANGED <<conf, stream, due, loaded, net, input, buffer, named, head, closeRead, closed>>
      /\ procStep' = "step" /\ running' = TRUE /\ packetLen' = FrameLen("step", buffer)
      /\ caseStep' = IF packetLen' = NaN THEN "END" ELSE "LOAD_PACKET"
  BY DEF NormalFrame, StepFound, Continue
<1>4. BytesOK' /\ Rest' = Rest
  BY <1>2, <1>3, RestSame
<1>5. /\ Follows(its)' /\ (Dispatched => Link(its))'
      /\ Dispatched' = Dispatched /\ Eager' = Eager
  BY <1>1, <1>2, <1>3, <1>4, SameComing, SameItems
<1>6. /\ Seek(its) /\ Rest = Bytes(its) /\ Good(its, 1)
      /\ buffer \in Seq(Nat) /\ Len(buffer) \in Nat
      /\ its # <<>> => /\ its[1].bytes \in Seq(Nat) /\ its[1].bytes # <<>> /\ its[1].junk \in BOOLEAN
                       /\ Len(its[1].bytes) \in Nat /\ Agree(buffer, its[1].bytes)
                       /\ First(conf, Dispatched, its) /\ Good(its, 2)
                       /\ 1 \in DOMAIN its[1].bytes
      /\ buffer # <<>> => its # <<>> /\ buffer[1] = its[1].bytes[1]
  BY <1>1, <1>2, SeekIs
<1>7. conf.step \in Attributes /\ conf.step.minLen \in Nat \ {0} /\ conf.begin \in Seq(Nat)
  BY <1>2, ConfIs
<1>8. conf.step.minLen <= Len(buffer) /\ buffer # <<>>
  <2>1. conf.step.minLen <= Len(buffer) /\ Len(buffer) # 0
    BY <1>2, <1>6, <1>7
  <2> QED BY <2>1
<1>9. its # <<>> /\ its[1].bytes[1] # AtMark
  BY <1>2, <1>6, <1>8 DEF Seek
<1>10. ~its[1].junk
  <2>1. PICK p, b, c : p = conf.begin /\ b = buffer /\ c = Coming
    OBVIOUS
  <2>2. /\ p \in Seq(Nat) /\ b \in Seq(Nat) /\ c \in Seq(Nat) /\ IsConcat(Bytes(its), b, c)
        /\ IsPrefix(p, b)
    BY <1>2, <1>6, <1>7, <2>1, RestIs
  <2>3. IsPrefix(p, Erase(Bytes(its), 1 - 1))
    BY <2>2, BeginIs
  <2>4. ~Inside(conf, its, 1)
    BY <2>1, <2>3 DEF Inside
  <2> QED BY <1>6, <1>9, <2>4 DEF First
<1>11. Cut(conf.step, its[1].bytes)
  BY <1>6, <1>9, <1>10 DEF First, Normal, Routed
<1>12. Framing(FrameLen("step", buffer), its[1].bytes)
  <2>1. PICK b \in Seq(Nat) : b = buffer
    BY <1>6
  <2> QED BY <1>6, <1>7, <1>8, <1>9, <1>11, <2>1, FrameIs
<1>13. packetLen' \in 0 .. SizeWidth - 1 /\ packetLen' # NaN
  BY <1>3, <1>6, <1>9, <1>12, FramingIs
<1>14. caseStep' = "LOAD_PACKET"
  BY <1>3, <1>13
<1>15. Typed'
  BY <1>2, <1>3, <1>4, <1>13, <1>14, TypedIs, TypedKept DEF Cases, Steps, Nodes
<1>16. Waits'
  BY <1>2, <1>3, <1>5, WaitsIdle
<1>17. Framing(packetLen, its[1].bytes)'
  BY <1>3, <1>12 DEF Framing
<1>18. Good(its, 2)'
  BY <1>3, <1>6, <1>9, GoodSame
<1>19. Wait(its)'
  BY <1>3, <1>4, <1>6, <1>9, <1>10, <1>14, <1>17, <1>18 DEF Wait, Seek
<1> QED BY <1>3, <1>5, <1>15, <1>16, <1>19, Finish DEF Phase

(* CASE_NORMAL_STEP skips a byte: what is left of the item still is one. *)
LEMMA StepSkip ==
    ASSUME ReadInv, NormalSkip
    PROVE  ReadInv'
<1>1. PICK its \in Seq(ItemSet) : Covers(its)
  BY DEF ReadInv
<1>2. /\ Typed /\ Waits /\ BytesOK /\ running /\ caseStep = "NORMAL_STEP" /\ conf \in Confs
      /\ ~(Len(buffer) < conf.step.minLen) /\ ~IsPrefix(conf.begin, buffer)
      /\ stream \in Seq(ItemSet) /\ due \in Strings /\ loaded \in Strings
  BY TypedIs DEF ReadInv, Typed, NormalSkip, StepFound, TooShort, In
<1>3. /\ UNCHANGED <<conf, stream, due, loaded, net, input, named, head, caseStep, packetLen, closeRead, running, closed>>
      /\ procStep' = "step" /\ buffer' = Erase(buffer, 1)
  BY DEF NormalSkip, StepFound
<1>6. /\ Seek(its) /\ Rest = Bytes(its) /\ Good(its, 1)
      /\ buffer \in Seq(Nat) /\ Len(buffer) \in Nat
      /\ its # <<>> => /\ its[1].bytes \in Seq(Nat) /\ its[1].bytes # <<>> /\ its[1].junk \in BOOLEAN
                       /\ Len(its[1].bytes) \in Nat /\ Agree(buffer, its[1].bytes)
                       /\ First(conf, Dispatched, its) /\ Good(its, 2)
                       /\ 1 \in DOMAIN its[1].bytes
      /\ buffer # <<>> => its # <<>> /\ buffer[1] = its[1].bytes[1]
  BY <1>1, <1>2, SeekIs
<1>7. conf.step \in Attributes /\ conf.step.minLen \in Nat \ {0} /\ conf.begin \in Seq(Nat)
  BY <1>2, ConfIs
<1>8. conf.step.minLen <= Len(buffer) /\ buffer # <<>> /\ 1 \in 0 .. Len(buffer)
  <2>1. conf.step.minLen <= Len(buffer) /\ Len(buffer) # 0
    BY <1>2, <1>6, <1>7
  <2> QED BY <1>6, <2>1
<1>9. its # <<>> /\ its[1].bytes[1] # AtMark
  BY <1>2, <1>6, <1>8 DEF Seek
<1>10. its[1].junk
  <2>1. SUFFICES ASSUME ~its[1].junk PROVE FALSE
    BY <1>6, <1>9
  <2>2. Normal(conf, its[1].bytes)
    BY <1>6, <1>9, <2>1 DEF First, Routed
  <2>3. PICK p, x, b : p = conf.begin /\ x = its[1].bytes /\ b = buffer
    OBVIOUS
  <2>4. p \in Seq(Nat) /\ x \in Seq(Nat) /\ b \in Seq(Nat) /\ IsPrefix(p, x) /\ Len(p) <= Len(b) /\ Agree(b, x)
    <3>1. Len(conf.begin) <= conf.step.minLen /\ Len(conf.begin) \in Nat
      BY <1>7, <2>2 DEF Normal
    <3> QED BY SMTT(30), <1>6, <1>7, <1>8, <1>9, <2>2, <2>3, <3>1 DEF Normal
  <2>5. Len(p) \in Nat /\ Len(x) \in Nat /\ Len(b) \in Nat /\ Len(p) <= Len(x) /\ \A j \in 1 .. Len(p) : p[j] = x[j]
    BY <2>4, PrefixIs
  <2>6. \A j \in 1 .. Len(p) : p[j] = b[j]
    <3>1. \A j \in 1 .. Len(p) : j \in 1 .. Len(b) /\ j <= Len(x)
      BY SMTT(30), <2>4, <2>5
    <3> QED BY <2>4, <2>5, <3>1 DEF Agree
  <2>7. IsPrefix(p, b)
    BY <2>4, <2>6, PrefixIs
  <2> QED BY <1>2, <2>3, <2>7
<1>4. BytesOK' /\ Rest' = Erase(Rest, 1)
  BY <1>2, <1>3, <1>8, RestErase
<1>11. PICK s \in Seq(ItemSet) :
         /\ Good(s, 1) /\ Bytes(s) = Erase(Bytes(its), 1) /\ Packets(s) = Packets(Tail(its))
         /\ s = Tail(its) \/ (s # <<>> /\ s[1].junk /\ Tail(s) = Tail(its))
         /\ s # <<>> => s[1].bytes[1] # AtMark
  BY <1>6, <1>9, <1>10, DropOne
<1>12. Follows(s)
  BY <1>1, <1>2, <1>9, <1>10, <1>11, FollowsSkip DEF Covers
<1>13. Dispatched => Link(s)
  <2>1. Dispatched => Link(Tail(its))
    BY <1>1, <1>2, <1>9, LinkTail DEF Covers
  <2> QED BY <1>11, <2>1, LinkCons
<1>5. /\ Follows(s)' /\ (Dispatched => Link(s))'
      /\ Dispatched' = Dispatched /\ Eager' = Eager
  BY <1>2, <1>3, <1>4, <1>11, <1>12, <1>13, SameComing, MoreItems
<1>15. Typed'
  BY <1>2, <1>3, <1>4, TypedIs, TypedKept DEF Cases, Steps, Nodes
<1>16. Waits'
  <2>1. Eager => input = <<>> /\ running
    BY <1>2, AllRead
  <2>2. Len(<<>>) = 0 /\ 0 <= ReadMax
    BY EndIs
  <2> QED BY <1>3, <1>5, <2>1, <2>2, <1>2 DEF Waits
<1>17. Good(s, 1)'
  BY <1>3, <1>11, GoodSame
<1>18. Seek(s)'
  BY <1>2, <1>3, <1>4, <1>5, <1>6, <1>11, <1>17 DEF Seek
<1>19. running'
  BY <1>2, <1>3
<1> QED BY <1>5, <1>11, <1>15, <1>16, <1>18, <1>19, Finish DEF Phase
-----------------------------------------------------------------------------
(* What the actions of CASE_LOAD_PACKET find. *)
LEMMA WaitIs ==
    ASSUME Typed, NEW its \in Seq(ItemSet), Covers(its), caseStep = "LOAD_PACKET"
    PROVE  /\ Wait(its) /\ Rest = Bytes(its) /\ Good(its, 2) /\ its # <<>> /\ ~its[1].junk
           /\ buffer \in Seq(Nat) /\ Len(buffer) \in Nat
           /\ its[1].bytes \in Seq(Nat) /\ its[1].bytes # <<>> /\ Len(its[1].bytes) \in Nat \ {0}
           /\ LoadLen # 0 /\ LoadLen \in 0 .. SizeWidth - 1
           /\ Len(its[1].bytes) <= Len(buffer) => LoadLen = Len(its[1].bytes)
           /\ Len(buffer) < Len(its[1].bytes) => Len(buffer) < LoadLen
<1>1. Wait(its)
  BY PhaseIs DEF Covers
<1>2. /\ Rest = Bytes(its) /\ Good(its, 2) /\ BytesOK /\ its # <<>> /\ ~its[1].junk
      /\ Framing(packetLen, its[1].bytes)
  BY <1>1 DEF Wait, Typed
<1>3. buffer \in Seq(Nat) /\ Len(buffer) \in Nat
  BY <1>2 DEF BytesOK
<1>4. its[1] \in ItemSet
  BY <1>2, TailIs
<1>5. its[1].bytes \in Seq(Nat) /\ its[1].bytes # <<>> /\ Len(its[1].bytes) \in Nat \ {0}
  BY <1>4, ItemIs
<1>6. Agree(buffer, its[1].bytes)
  BY <1>2, RestFront
<1> QED BY <1>1, <1>2, <1>3, <1>5, <1>6, LoadIs

(* CASE_LOAD_PACKET waits for the rest of the packet. *)
LEMMA StepMore ==
    ASSUME ReadInv, LoadMore
    PROVE  ReadInv'
<1>1. PICK its \in Seq(ItemSet) : Covers(its)
  BY DEF ReadInv
<1>2. /\ Typed /\ Waits /\ BytesOK /\ running /\ caseStep = "LOAD_PACKET" /\ conf \in Confs
      /\ Len(buffer) < LoadLen
  BY TypedIs DEF ReadInv, Typed, LoadMore, In
<1>3. UNCHANGED <<conf, stream, due, loaded, net, named, head, caseStep, procStep, packetLen, closeRead>>
  BY DEF LoadMore
<1>4. /\ Wait(its) /\ Rest = Bytes(its) /\ Good(its, 2) /\ its # <<>> /\ ~its[1].junk
      /\ buffer \in Seq(Nat) /\ Len(buffer) \in Nat
      /\ its[1].bytes \in Seq(Nat) /\ its[1].bytes # <<>> /\ Len(its[1].bytes) \in Nat \ {0}
      /\ LoadLen # 0 /\ LoadLen \in 0 .. SizeWidth - 1
      /\ Len(its[1].bytes) <= Len(buffer) => LoadLen = Len(its[1].bytes)
      /\ Len(buffer) < Len(its[1].bytes) => Len(buffer) < LoadLen
  BY <1>1, <1>2, WaitIs
<1>5. Len(buffer) < Len(its[1].bytes)
  BY <1>2, <1>4
<1>6. CASE input = <<>>
  <2>1. running' = FALSE /\ closed' = closeRead /\ UNCHANGED <<input, buffer>>
    BY <1>6 DEF LoadMore, Break
  <2>2. BytesOK' /\ Rest' = Rest
    BY <1>2, <1>3, <2>1, RestSame
  <2>3. /\ Follows(its)' /\ (Dispatched => Link(its))'
        /\ Dispatched' = Dispatched /\ Eager' = Eager
    BY <1>1, <1>2, <1>3, <2>1, <2>2, SameComing, SameItems
  <2>4. Typed'
    BY <1>2, <1>3, <2>1, <2>2, TypedIs, TypedKept
  <2>5. Phase(its)'
    BY <1>1, <1>3, <2>1, <2>2, PhaseKept DEF Covers
  <2>6. Pending(its)'
    BY <1>4, <1>5, <2>1, <2>2, PendingFirst
  <2>7. Waits'
    <3>1. Len(<<>>) = 0 /\ 0 <= ReadMax
      BY EndIs
    <3>2. Ready'
      BY <1>2, <1>3, <2>1 DEF Ready, LoadLen
    <3> QED BY <1>6, <2>1, <3>1, <3>2 DEF Waits
  <2> QED BY <2>3, <2>4, <2>5, <2>6, <2>7, Finish
<1>7. CASE input # <<>>
  <2>1. running' = TRUE /\ closed' = closed /\ ReadInput
    BY <1>7 DEF LoadMore, Continue
  <2>2. BytesOK' /\ Rest' = Rest /\ Len(Coming') <= Len(Coming) /\ (Len(input) <= ReadMax => input' = <<>>)
    BY <1>2, <1>3, <2>1, ReadAll
  <2>3. /\ Follows(its)' /\ (Dispatched => Link(its))'
        /\ Dispatched' = Dispatched /\ Eager' = Eager
    BY <1>1, <1>2, <1>3, <2>2, SameItems
  <2>4. Typed'
    BY <1>2, <1>3, <2>1, <2>2, TypedIs, TypedKept
  <2>5. Phase(its)'
    BY <1>1, <1>2, <1>3, <2>2, PhaseKept DEF Covers
  <2>6. Waits'
    <3>1. Len(<<>>) = 0 /\ 0 <= ReadMax
      BY EndIs
    <3>2. Eager => input' = <<>>
      BY <1>2, <2>2 DEF Waits
    <3> QED BY <2>1, <2>3, <3>1, <3>2 DEF Waits
  <2> QED BY <2>1, <2>3, <2>4, <2>5, <2>6, Finish
<1> QED BY <1>6, <1>7

(* CASE_LOAD_PACKET hands over the packet: it is the next that is due. *)
LEMMA StepLoad ==
    ASSUME ReadInv, Load
    PROVE  ReadInv'
<1>1. PICK its \in Seq(ItemSet) : Covers(its)
  BY DEF ReadInv
<1>2. /\ Typed /\ Waits /\ BytesOK /\ running /\ caseStep = "LOAD_PACKET" /\ conf \in Confs
      /\ stream \in Seq(ItemSet) /\ due \in Strings /\ loaded \in Strings
      /\ LoadLen = 0 \/ Len(buffer) >= LoadLen
  BY TypedIs DEF ReadInv, Typed, Load, In
<1>3. /\ UNCHANGED <<conf, stream, due, net, input, buffer, named, head, procStep, closeRead, closed>>
      /\ running' = TRUE /\ packetLen' = LoadLen
      /\ caseStep' \in {"ROUTING_PROCESS", "PROCESS"}
  BY DEF Load, Continue
<1>4. /\ Wait(its) /\ Rest = Bytes(its) /\ Good(its, 2) /\ its # <<>> /\ ~its[1].junk
      /\ buffer \in Seq(Nat) /\ Len(buffer) \in Nat
      /\ its[1].bytes \in Seq(Nat) /\ its[1].bytes # <<>> /\ Len(its[1].bytes) \in Nat \ {0}
      /\ LoadLen # 0 /\ LoadLen \in 0 .. SizeWidth - 1
      /\ Len(its[1].bytes) <= Len(buffer) => LoadLen = Len(its[1].bytes)
      /\ Len(buffer) < Len(its[1].bytes) => Len(buffer) < LoadLen
  BY <1>1, <1>2, WaitIs
<1>5. PICK x \in Seq(Nat) : x = its[1].bytes
  BY <1>4
<1>6. LoadLen = Len(x) /\ Len(x) <= Len(buffer) /\ Len(x) \in 1 .. Len(buffer)
  <2>1. PICK l, n, k : l = LoadLen /\ n = Len(buffer) /\ k = Len(x)
    OBVIOUS
  <2>2. /\ l # 0 /\ l \in 0 .. SizeWidth - 1 /\ n \in Nat /\ k \in Nat \ {0}
        /\ k <= n => l = k
        /\ n < k => n < l
        /\ l = 0 \/ n >= l
    BY <1>2, <1>4, <1>5, <2>1
  <2>3. l = k /\ k <= n /\ k \in 1 .. n
    BY <2>2, EndIs
  <2> QED BY <2>1, <2>3
<1>7. SubSeq(buffer, 1, LoadLen) = x
  <2>1. PICK b, c, r : b = buffer /\ c = Coming /\ r = Bytes(Tail(its))
    OBVIOUS
  <2>2. /\ b \in Seq(Nat) /\ c \in Seq(Nat) /\ IsConcat(Rest, b, c) /\ IsConcat(Rest, x, r) /\ r \in Seq(Nat)
        /\ Len(x) <= Len(b)
    BY <1>2, <1>4, <1>5, <1>6, <2>1, RestIs, BytesCons, BytesTail DEF BytesOK
  <2>3. Same(x, r, b, c)
    BY <2>2 DEF IsConcat, Same
  <2>4. SubSeq(b, 1, Len(x)) = x
    BY ONLY <2>2, <2>3, x \in Seq(Nat), CutFront
  <2> QED BY <1>6, <2>1, <2>4
<1>8. loaded' = Append(loaded, its[1].bytes)
  BY <1>4, <1>5, <1>7 DEF Load
<1>9. BytesOK' /\ Rest' = Rest
  BY <1>2, <1>3, RestSame
<1>10. Dispatched' = Dispatched /\ Eager' = Eager /\ Coming' = Coming
  BY <1>3 DEF Dispatched, Eager, Coming
<1>11. PICK t \in Seq(ItemSet) : t = Tail(its)
  BY <1>4, TailIs
<1>12. Follows(t)'
  <2>1. Follows(its)
    BY <1>1 DEF Covers
  <2>2. Follows(Tail(its))'
    BY <1>2, <1>3, <1>4, <1>8, <1>10, <2>1, FollowsLoad
  <2> QED BY <1>11, <2>2
<1>13. (Dispatched => Link(t))'
  <2>1. SUFFICES ASSUME Dispatched PROVE Link(t)'
    BY <1>10
  <2>2. Link(t)
    BY <1>1, <1>2, <1>4, <1>11, <2>1, LinkTail DEF Covers
  <2> QED BY <1>2, <1>3, <1>10, <2>2, SameComing, LinkSame, ComingIs
<1>14. Typed'
  <2>1. caseStep' \in Cases
    BY <1>3 DEF Cases
  <2>2. loaded' \in Strings
    BY <1>2, <1>4, <1>8 DEF Strings
  <2>3. named = TRUE
    BY <1>4 DEF Wait
  <2> QED BY <1>2, <1>3, <1>4, <1>9, <2>1, <2>2, <2>3, TypedIs DEF Typed, ReadTypeOK
<1>15. Waits'
  <2>1. Eager => input = <<>>
    BY <1>2, <1>4 DEF Waits, Ready
  <2>2. Len(<<>>) = 0 /\ 0 <= ReadMax
    BY EndIs
  <2> QED BY <1>3, <1>10, <2>1, <2>2 DEF Waits
<1>16. Held(t)'
  <2>1. Good(t, 1)
    BY <1>4, <1>11, GoodTail
  <2>2. Good(t, 1)'
    BY <1>3, <2>1, GoodSame
  <2>3. Erase(Rest, Len(x)) = Bytes(t)
    BY <1>4, <1>5, <1>11, BytesTail
  <2>4. packetLen' = Len(x) /\ packetLen' \in 1 .. Len(buffer')
    BY <1>3, <1>6
  <2>5. named' = TRUE
    BY <1>3, <1>4 DEF Wait
  <2> QED BY <1>3, <1>9, <2>2, <2>3, <2>4, <2>5 DEF Held
<1> QED BY <1>3, <1>12, <1>13, <1>14, <1>15, <1>16, Finish DEF Phase
-----------------------------------------------------------------------------
(* The steps of a script change nothing that the phase is about. *)
Scripting == {"PROCESS", "RSEND_STEP", "NEXT_STEP", "ROUTING_PROCESS"}

(* They keep the packet in the buffer and the items behind it. *)
LEMMA ScriptKeeps ==
    ASSUME ReadInv, caseStep \in Scripting, running' = TRUE, closeRead' \in BOOLEAN, procStep' \in Steps,
           caseStep' \in Scripting \cup {"END"},
           UNCHANGED <<conf, stream, net, input, buffer, named, packetLen, closed, loaded, due>>
    PROVE  ReadInv'
<1>1. PICK its \in Seq(ItemSet) : Covers(its)
  BY DEF ReadInv
<1>2. Typed /\ Waits /\ BytesOK
  BY DEF ReadInv, Typed
<1>3. BytesOK' /\ Rest' = Rest
  BY <1>2, RestSame
<1>4. /\ Follows(its)' /\ (Dispatched => Link(its))'
      /\ Dispatched' = Dispatched /\ Eager' = Eager
  BY <1>1, <1>2, <1>3, SameComing, SameItems
<1>5. Held(its)
  BY <1>1, PhaseIs DEF Covers, Scripting
<1>6. Typed'
  BY <1>2, <1>3, TypedIs, TypedKept DEF Cases, Scripting
<1>7. Waits'
  BY <1>2, <1>4, WaitsIdle DEF Scripting
<1>8. Held(its)'
  <2>1. Good(its, 1)'
    BY <1>5, GoodSame DEF Held
  <2> QED BY <1>3, <1>5, <2>1 DEF Held, Scripting
<1> QED BY <1>4, <1>6, <1>7, <1>8, Finish DEF Phase

(* CASE_PROCESS, CASE_RSEND_STEP, CASE_NEXT_STEP and CASE_ROUTING_PROCESS. *)
LEMMA StepScript ==
    ASSUME ReadInv,
           \/ \E next \in ScriptNext, close \in BOOLEAN : CaseProcess(next, close)
           \/ \E yes \in BOOLEAN : CaseRsendStep(yes) \/ NextStep(yes) \/ RoutingProcess(yes)
    PROVE  ReadInv'
<1>1. closeRead \in BOOLEAN /\ procStep \in Steps
  BY TypedIs DEF ReadInv
<1>2. CASE \E next \in ScriptNext, close \in BOOLEAN : CaseProcess(next, close)
  <2>1. PICK next \in ScriptNext, close \in BOOLEAN : CaseProcess(next, close)
    BY <1>2
  <2>2. next \in Steps
    BY DEF ScriptNext, Steps, Nodes
  <2>3. caseStep' \in Scripting \cup {"END"} /\ caseStep \in Scripting /\ procStep' \in Steps
    BY <2>1, <2>2 DEF CaseProcess, In, Scripting
  <2>4. /\ running' = TRUE /\ closeRead' \in BOOLEAN
        /\ UNCHANGED <<conf, stream, net, input, buffer, named, packetLen, closed, loaded, due>>
    BY <1>1, <2>1 DEF CaseProcess, Continue
  <2> QED BY <2>3, <2>4, ScriptKeeps
<1>3. CASE \E yes \in BOOLEAN : CaseRsendStep(yes) \/ NextStep(yes) \/ RoutingProcess(yes)
  <2>1. PICK yes \in BOOLEAN : CaseRsendStep(yes) \/ NextStep(yes) \/ RoutingProcess(yes)
    BY <1>3
  <2>2. caseStep' \in Scripting \cup {"END"} /\ caseStep \in Scripting /\ procStep' \in Steps
    BY <1>1, <2>1 DEF CaseRsendStep, NextStep, RoutingProcess, In, Scripting, Steps, Nodes
  <2>3. /\ running' = TRUE /\ closeRead' \in BOOLEAN
        /\ UNCHANGED <<conf, stream, net, input, buffer, named, packetLen, closed, loaded, due>>
    BY <1>1, <2>1 DEF CaseRsendStep, NextStep, RoutingProcess, Continue
  <2> QED BY <2>2, <2>3, ScriptKeeps
<1> QED BY <1>2, <1>3

(* @_SYS_RELOAD puts a string behind the packet: it follows first. *)
LEMMA StepReload ==
    ASSUME ReadInv, NEW p \in conf.reloads, Reload(p)
    PROVE  ReadInv'
<1>1. PICK its \in Seq(ItemSet) : Covers(its)
  BY DEF ReadInv
<1>2. /\ Typed /\ Waits /\ BytesOK /\ running /\ caseStep = "NEXT_STEP" /\ conf \in Confs
      /\ stream \in Seq(ItemSet) /\ due \in Strings /\ loaded \in Strings /\ Framed(conf, stream)
  BY TypedIs DEF ReadInv, Typed, Reload, In
<1>3. /\ UNCHANGED <<conf, stream, loaded, net, input, named, head, packetLen, procStep, closeRead, closed>>
      /\ running' = TRUE /\ caseStep' = "END"
      /\ due' = InsertAt(due, Len(loaded) + 1, p)
      /\ buffer' = SubSeq(buffer, 1, packetLen) \o p \o Erase(buffer, packetLen)
  BY DEF Reload, Continue
<1>4. Held(its) /\ packetLen \in 1 .. Len(buffer) /\ Erase(Rest, packetLen) = Bytes(its) /\ Good(its, 1) /\ named = TRUE
  <2>1. Held(its)
    BY <1>1, <1>2, PhaseIs DEF Covers
  <2> QED BY <2>1 DEF Held
<1>5. p \in Seq(Nat) /\ p # <<>> /\ ToSet(p) \subseteq conf.known /\ (Normal(conf, p) \/ Routed(p))
  BY <1>2, ConfIs
<1>6. Dispatched
  BY <1>2 DEF Framed, Dispatched
<1>7. PICK n \in Nat : n = packetLen /\ n \in 0 .. Len(buffer)
  BY <1>4
<1>8. /\ BytesOK' /\ IsConcat(Erase(Rest', n), p, Erase(Rest, n)) /\ n \in 0 .. Len(buffer')
      /\ Len(buffer') >= Len(buffer)
  BY <1>2, <1>3, <1>5, <1>7, RestInsert
<1>9. PICK it \in ItemSet : it.junk = FALSE /\ it.bytes = p
  <2>1. [junk |-> FALSE, bytes |-> p] \in ItemSet
    BY <1>5 DEF ItemSet
  <2> QED BY <2>1
<1>10. PICK s \in Seq(ItemSet) : s # <<>> /\ s[1] = it /\ Tail(s) = its
  BY ConsIs
<1>11. Bytes(s) = Erase(Rest', n) /\ IsConcat(Packets(s), <<p>>, Packets(its))
  <2>1. IsConcat(Bytes(s), p, Bytes(its)) /\ IsConcat(Packets(s), <<p>>, Packets(its))
    BY <1>9, <1>10, BytesCons DEF PacketOf
  <2> QED BY <1>4, <1>7, <1>8, <2>1 DEF IsConcat
<1>12. Dispatched' = Dispatched /\ Eager' = Eager /\ Coming' = Coming
  BY <1>3 DEF Dispatched, Eager, Coming
<1>13. Follows(s)' /\ due' \in Strings
  <2>1. Follows(its)
    BY <1>1 DEF Covers
  <2> QED BY <1>2, <1>3, <1>5, <1>6, <1>11, <1>12, <2>1, FollowsReload
<1>14. Good(s, 1)
  <2>1. First(conf, Dispatched, s)
    BY <1>5, <1>6, <1>9, <1>10 DEF First
  <2> QED BY <1>4, <1>5, <1>9, <1>10, <2>1, GoodCons
<1>15. Link(s)'
  <2>1. Link(its)
    BY <1>1, <1>6 DEF Covers
  <2>2. Left(s, 1) >= Len(Coming)
    <3>1. Left(s, 1) = Len(Bytes(its))
      BY <1>10, EraseOne DEF Left
    <3>2. Rest \in Seq(Nat) /\ Len(Rest) = Len(buffer) + Len(Coming) /\ Len(buffer) \in Nat /\ Len(Coming) \in Nat
      BY <1>2, ComingIs, RestIs
    <3>3. n \in 0 .. Len(Rest)
      BY <1>7, <3>2
    <3>4. Len(Erase(Rest, n)) = Len(Rest) - n
      BY <3>2, <3>3, EraseIs
    <3> QED BY <1>4, <1>7, <3>1, <3>2, <3>4
  <2>3. Link(s)
    BY <1>10, <2>1, <2>2, LinkCons
  <2> QED BY <1>2, <1>3, <1>12, <2>3, SameComing, LinkSame, ComingIs
<1>16. Typed'
  BY <1>2, <1>3, <1>4, <1>8, <1>13, TypedIs DEF Typed, ReadTypeOK, Cases
<1>17. Waits'
  BY <1>2, <1>3, <1>12, WaitsIdle
<1>18. Held(s)'
  <2>1. Good(s, 1)'
    BY <1>3, <1>14, GoodSame
  <2>2. packetLen' = n /\ n \in 1 .. Len(buffer')
    BY <1>3, <1>4, <1>7, <1>8
  <2>3. named' = TRUE
    BY <1>3, <1>4
  <2> QED BY <1>3, <1>11, <2>1, <2>2, <2>3 DEF Held
<1> QED BY <1>3, <1>13, <1>15, <1>16, <1>17, <1>18, Finish DEF Phase

(* CASE_END takes the packet, or all, from the buffer. *)
LEMMA StepEnd ==
    ASSUME ReadInv, CaseEnd
    PROVE  ReadInv'
<1>1. PICK its \in Seq(ItemSet) : Covers(its)
  BY DEF ReadInv
<1>2. /\ Typed /\ Waits /\ BytesOK /\ running /\ caseStep = "END" /\ conf \in Confs
      /\ stream \in Seq(ItemSet) /\ due \in Strings /\ loaded \in Strings
  BY TypedIs DEF ReadInv, Typed, CaseEnd, In
<1>3. /\ UNCHANGED <<conf, stream, loaded, due, net, input, named, head, packetLen, closeRead>>
      /\ caseStep' = "START" /\ procStep' = "" /\ running' \in BOOLEAN /\ closed' \in {closed, closeRead}
      /\ buffer' = IF packetLen = 0 THEN <<>> ELSE Erase(buffer, packetLen)
      /\ buffer' = <<>> \/ running' = TRUE
  BY DEF CaseEnd, Break, Continue
<1>4. Dispatched' = Dispatched /\ Eager' = Eager
  BY <1>3 DEF Dispatched, Eager
<1>5. Waits'
  BY <1>2, <1>3, <1>4, WaitsIdle
<1>6. ASSUME BytesOK' PROVE Typed'
  BY <1>2, <1>3, <1>6, TypedIs, TypedKept DEF Cases, Steps
<1>7. CASE Held(its)
  <2>1. packetLen \in 1 .. Len(buffer) /\ Erase(Rest, packetLen) = Bytes(its) /\ Good(its, 1) /\ named = TRUE
    BY <1>7 DEF Held
  <2>2. packetLen \in 0 .. Len(buffer) /\ buffer' = Erase(buffer, packetLen)
    <3>1. PICK m \in Nat : m = Len(buffer)
      BY <1>2, ComingIs
    <3>2. packetLen # 0 /\ packetLen \in 0 .. m
      BY <2>1, <3>1
    <3> QED BY <1>3, <3>1, <3>2
  <2>3. BytesOK' /\ Rest' = Bytes(its)
    BY <1>2, <1>3, <2>1, <2>2, RestErase
  <2>4. Follows(its)' /\ (Dispatched => Link(its))'
    BY <1>1, <1>2, <1>3, <2>3, SameComing, SameItems
  <2>5. Good(its, 1)'
    BY <1>3, <2>1, GoodSame
  <2>6. Seek(its)'
    BY <1>3, <2>1, <2>3, <2>5 DEF Seek
  <2>7. ~running' => Pending(its)'
    BY <1>3, <2>3, PendingNone
  <2> QED BY <1>5, <1>6, <2>3, <2>4, <2>6, <2>7, Finish DEF Phase
<1>8. CASE Lost(its)
  <2>1. packetLen = 0 /\ ~Dispatched /\ Rest = Bytes(its) /\ Good(its, 1) /\ named = TRUE
    BY <1>8 DEF Lost
  <2>2. PICK m \in Nat : m = Len(buffer)
    BY <1>2, ComingIs
  <2>3. m \in 0 .. Len(buffer) /\ m \in 0 .. Len(Bytes(its))
    BY <1>2, <2>1, <2>2, ComingIs
  <2>4. buffer' = Erase(buffer, m)
    <3>1. Erase(buffer, m) \in Seq(Nat) /\ Len(Erase(buffer, m)) = 0
      BY SMTT(30), <1>2, <2>2, <2>3, EraseIs, ComingIs DEF BytesOK
    <3>2. Erase(buffer, m) = <<>>
      BY <3>1
    <3> QED BY <1>3, <2>1, <3>2
  <2>5. BytesOK' /\ Rest' = Erase(Bytes(its), m)
    BY <1>2, <1>3, <2>1, <2>3, <2>4, RestErase
  <2>6. PICK s \in Seq(ItemSet) : Good(s, 1) /\ Follows(s) /\ Bytes(s) = Erase(Bytes(its), m)
    BY <1>1, <1>2, <2>1, <2>3, DropAll DEF Covers
  <2>7. Follows(s)'
    BY <1>3, <2>6, FollowsSame
  <2>8. Good(s, 1)'
    BY <1>3, <2>6, GoodSame
  <2>9. Seek(s)'
    BY <1>3, <2>1, <2>5, <2>6, <2>8 DEF Seek
  <2>10. ~Dispatched' /\ ~Eager'
    BY <1>4, <2>1 DEF Eager
  <2> QED BY <1>5, <1>6, <2>5, <2>7, <2>9, <2>10, Finish DEF Phase
<1> QED BY <1>1, <1>2, <1>7, <1>8, PhaseIs DEF Covers

(* Nothing changes. *)
LEMMA StepNone ==
    ASSUME ReadInv, UNCHANGED readVars
    PROVE  ReadInv'
<1>1. PICK its \in Seq(ItemSet) : Covers(its)
  BY DEF ReadInv
<1>2. Typed /\ Waits /\ BytesOK
  BY DEF ReadInv, Typed
<1>3. UNCHANGED <<conf, stream, net, input, buffer, caseStep, procStep, head, packetLen,
                  closeRead, running, named, closed, loaded, due>>
  BY DEF readVars, loopVars
<1>4. BytesOK' /\ Rest' = Rest /\ Coming' = Coming
  BY <1>2, <1>3, RestSame, SameComing
<1>5. /\ Follows(its)' /\ (Dispatched => Link(its))'
      /\ Dispatched' = Dispatched /\ Eager' = Eager
  BY <1>1, <1>2, <1>3, <1>4, SameComing, SameItems
<1>6. Typed'
  BY <1>2, <1>3, <1>4, TypedIs, TypedKept
<1>7. Waits'
  BY <1>2, <1>3, <1>5 DEF Waits, Ready, LoadLen
<1>8. Phase(its)'
  BY <1>1, <1>3, <1>4, PhaseKept DEF Covers
<1>9. (Eager /\ ~running => Pending(its))'
  <2>1. Pending(its)' <=> Pending(its)
    BY <1>4 DEF Pending, Over, Left
  <2> QED BY <1>1, <1>3, <1>5, <2>1 DEF Covers
<1> QED BY <1>5, <1>6, <1>7, <1>8, <1>9, Finish

(* Every step keeps the invariant. *)
LEMMA ReadStepInv ==
    ASSUME ReadInv, [ReadNext]_readVars
    PROVE  ReadInv'
<1>1. CASE \E n \in 1 .. conf.maxArrive : Arrive(n)
  BY <1>1, StepArrive
<1>2. CASE Frame
  BY <1>2, StepStart, StepNoMatch, StepSkhd, StepRouting, StepNoStep, StepShort, StepSkip,
     StepFrame, StepMore, StepLoad DEF Frame
<1>3. CASE Script
  BY <1>3, StepScript, StepReload DEF Script
<1>4. CASE CaseEnd
  BY <1>4, StepEnd
<1>5. CASE UNCHANGED readVars
  BY <1>5, StepNone
<1> QED BY <1>1, <1>2, <1>3, <1>4, <1>5 DEF ReadNext

(* echo_read_cb always is in one of the phases of a packet, and what is    *)
(* not handed over yet are the bytes of items that the peer may send and   *)
(* that are still due.                                                     *)
THEOREM ReadInvHolds == ReadSpec => []ReadInv
  BY ReadInitInv, ReadStepInv, PTL DEF ReadSpec

(* However the bytes of a connection arrive, echo_read_cb hands over the   *)
(* packets that were sent, whole, each once and in their order, with       *)
(* reloaded strings at their places, and nothing else when bytes are lost  *)
(* with the buffer.                                                        *)
THEOREM ExactHolds == ReadSpec => []Exact
  BY ReadInvHolds, InvExact, PTL

(* Whenever echo_read_cb has returned, every packet that has arrived whole *)
(* has been handed over.                                                   *)
THEOREM PromptHolds == ReadSpec => []Prompt
  BY ReadInvHolds, InvPrompt, PTL

-----------------------------------------------------------------------------
(* Routing: where a packet is *)

(* A packet whose place has the name n, made for a request that was sent:  *)
(* a request keeps its path, an error string has only names of it.         *)
Sound(p, n) ==
    /\ p \in Packet
    /\ p.point \in 1 .. Len(p.path) /\ p.path[p.point] = n
    /\ p.req \in 1 .. Len(sent)
    /\ IF p.error
       THEN \A i \in 1 .. Len(p.path) :
               \E j \in 1 .. Len(sent[p.req]) : p.path[i] = sent[p.req][j]
       ELSE p.path = sent[p.req]

(* The inductive invariant. *)
RoutingTypeInv ==
    /\ conns \subseteq Pairs
    /\ sent \in Seq(Paths) /\ Len(sent) <= MaxReq
    /\ broken \in BOOLEAN
WireInv == \A w \in wire : <<w[1], w[2]>> \in Pairs /\ Sound(w[3], w[2])
WorkInv == \A w \in work : w = <<w[1], w[2]>> /\ Sound(w[2], w[1])
OneInv == \A v, w \in work : v[1] = w[1] => v = w
HandledInv == \A h \in handled : Sound(h[2], h[1]) /\ h[2].point = Len(h[2].path)

RoutingInv == RoutingTypeInv /\ WireInv /\ WorkInv /\ OneInv /\ HandledInv

-----------------------------------------------------------------------------
(* The error string about a packet at place p.point starts its way back at *)
(* the gateway that made it.                                               *)
LEMMA ErrorSound ==
    ASSUME NEW g, NEW p, Sound(p, g)
    PROVE  Sound(ErrorOf(p, p.point), g)
<1> DEFINE q == ErrorOf(p, p.point)
<1>1. /\ p.path \in Seq(Gateways) /\ p.point \in 1 .. Len(p.path)
      /\ p.path[p.point] = g /\ p.req \in Req /\ p.req \in 1 .. Len(sent)
      BY DEF Sound, Packet
<1>2. /\ q.path = PathBack(p.path, p.point) /\ q.point = 1 /\ q.act = NoAct
      /\ q.error = TRUE /\ q.req = p.req
      BY DEF Sound, Packet, ErrorOf
<1>3. /\ q.path \in Seq(Gateways) /\ Len(q.path) = p.point
      /\ \A k \in 1 .. p.point : q.path[k] = p.path[p.point + 1 - k]
  <2>1. \A k \in 1 .. p.point : p.path[p.point + 1 - k] \in Gateways
        BY <1>1
  <2> QED  BY SMTT(30), <1>1, <1>2, <2>1 DEF PathBack
<1>4. q \in Packet
  BY <1>1, <1>2, <1>3 DEF Packet, ErrorOf, Sound
<1>5. q.path[1] = g
  BY <1>1, <1>3
<1>6. \A i \in 1 .. Len(p.path) :
          \E j \in 1 .. Len(sent[p.req]) : p.path[i] = sent[p.req][j]
  BY <1>1 DEF Sound
<1>7. \A k \in 1 .. Len(q.path) :
          \E j \in 1 .. Len(sent[q.req]) : q.path[k] = sent[q.req][j]
  <2> SUFFICES ASSUME NEW k \in 1 .. Len(q.path)
               PROVE  \E j \in 1 .. Len(sent[q.req]) : q.path[k] = sent[q.req][j]
      OBVIOUS
  <2> DEFINE m == p.point + 1 - k
  <2>1. k \in 1 .. p.point /\ m \in 1 .. Len(p.path)
        BY <1>1, <1>3
  <2>2. q.path[k] = p.path[m] /\ q.req = p.req
        BY <2>1, <1>2, <1>3
  <2>3. PICK j \in 1 .. Len(sent[p.req]) : p.path[m] = sent[p.req][j]
        BY <2>1, <1>6
  <2> HIDE DEF m, q
  <2> QED  BY <2>2, <2>3
<1> QED  BY <1>1, <1>2, <1>3, <1>4, <1>5, <1>7 DEF Sound

(* One place further, at the next name. *)
LEMMA ForwardSound ==
    ASSUME NEW g, NEW p, Sound(p, g), ~AtEnd(p)
    PROVE  Sound([p EXCEPT !.point = p.point + 1], NextName(p))
BY DEF Sound, AtEnd, NextName, Packet

(* What was sent stays what it was. *)
LEMMA SoundKept ==
    ASSUME NEW p, NEW n, Sound(p, n), NEW path, sent \in Seq(Paths),
           path \in Paths, sent' = Append(sent, path)
    PROVE  Sound(p, n)'
<1>1. p.req \in 1 .. Len(sent) /\ p.req \in 1 .. Len(sent') /\ sent'[p.req] = sent[p.req]
      BY DEF Sound
<1> QED  BY <1>1 DEF Sound

LEMMA SoundSame ==
    ASSUME NEW p, NEW n, Sound(p, n), UNCHANGED sent
    PROVE  Sound(p, n)'
BY DEF Sound

-----------------------------------------------------------------------------
LEMMA RoutingInitInv == Init => RoutingInv
<1> SUFFICES ASSUME Init PROVE RoutingInv
    OBVIOUS
<1>1. sent \in Seq(Paths) /\ Len(sent) = 0
      BY DEF Init
<1>2. RoutingTypeInv
  <2>1. 0 <= MaxReq
        BY RoutingAssumption
  <2>2. conns \subseteq Pairs /\ broken \in BOOLEAN
        BY DEF Init
  <2> QED  BY <1>1, <2>1, <2>2 DEF RoutingTypeInv
<1>3. WireInv /\ WorkInv /\ OneInv /\ HandledInv
      BY DEF Init, WireInv, WorkInv, OneInv, HandledInv
<1> QED  BY <1>2, <1>3 DEF RoutingInv

LEMMA RsendKeepsInv ==
    ASSUME RoutingInv, NEW path \in Paths, NEW act \in Acts \cup {NoAct},
           RsendStep(path, act)
    PROVE  RoutingInv'
<1> PICK p : p = [req |-> Len(sent) + 1, path |-> path, point |-> 1,
                  act |-> act, error |-> FALSE]
    OBVIOUS
<1>1. path \in Seq(Gateways) /\ path # <<>> /\ sent \in Seq(Paths)
      /\ Len(sent) < MaxReq /\ MaxReq \in Nat /\ sent' = Append(sent, path)
      BY RoutingAssumption DEF RsendStep, RoutingInv, RoutingTypeInv
<1>2. RoutingTypeInv'
      BY <1>1 DEF RsendStep, RoutingInv, RoutingTypeInv
<1>3. /\ p \in Packet /\ p.point \in 1 .. Len(p.path) /\ p.req \in 1 .. Len(sent')
      /\ sent'[p.req] = path
      BY <1>1 DEF Packet, Req
<1>4. Sound(p, path[1])'
      BY <1>1, <1>3 DEF Sound
<1>5. WireInv'
      BY <1>1, SoundKept DEF RoutingInv, WireInv, RsendStep
<1>6. HandledInv'
      BY <1>1, SoundKept DEF RoutingInv, HandledInv, RsendStep
<1>7. work' = work \cup {<<path[1], p>>} /\ Idle(path[1])
      BY DEF RsendStep
<1> DEFINE x == <<path[1], p>>
<1>8. WorkInv'
  <2>1. \A w \in work : w = <<w[1], w[2]>> /\ Sound(w[2], w[1])'
        BY <1>1, SoundKept DEF RoutingInv, WorkInv
  <2>2. x = <<x[1], x[2]>> /\ Sound(x[2], x[1])'
        BY <1>4
  <2> QED  BY <1>7, <2>1, <2>2 DEF WorkInv
<1>9. OneInv'
  <2>1. x[1] = path[1]
        OBVIOUS
  <2> HIDE DEF x
  <2>2. work' = work \cup {x} /\ \A w \in work : w[1] # x[1]
        BY <1>7, <2>1 DEF Idle, x
  <2> QED  BY <2>2 DEF RoutingInv, OneInv
<1> QED  BY <1>2, <1>5, <1>6, <1>8, <1>9 DEF RoutingInv

LEMMA ReadKeepsInv ==
    ASSUME RoutingInv, NEW w \in wire, Read(w)
    PROVE  RoutingInv'
<1>1. UNCHANGED <<conns, sent, handled, broken>> /\ wire' = wire \ {w}
      /\ work' = work \cup {<<w[2], w[3]>>} /\ Idle(w[2])
      BY DEF Read
<1>2. Sound(w[3], w[2])
      BY DEF RoutingInv, WireInv
<1>3. WireInv'
      BY <1>1, SoundSame DEF RoutingInv, WireInv
<1>4. WorkInv'
      BY <1>1, <1>2, SoundSame DEF RoutingInv, WorkInv
<1>5. OneInv'
      BY <1>1 DEF RoutingInv, OneInv, Idle
<1>6. RoutingTypeInv' /\ HandledInv'
      BY <1>1, SoundSame DEF RoutingInv, RoutingTypeInv, HandledInv
<1> QED  BY <1>3, <1>4, <1>5, <1>6 DEF RoutingInv

LEMMA ForwardKeepsInv ==
    ASSUME RoutingInv, NEW g, NEW p, Forward(g, p)
    PROVE  RoutingInv'
<1> DEFINE q == [p EXCEPT !.point = p.point + 1]
           h == NextName(p)
<1>1. /\ <<g, p>> \in work /\ ~AtEnd(p) /\ <<g, h>> \in conns
      /\ work' = work \ {<<g, p>>} /\ UNCHANGED <<conns, sent, broken>>
      BY DEF Forward
<1>2. Sound(q, h) /\ <<g, h>> \in Pairs
      BY <1>1, ForwardSound DEF RoutingInv, WorkInv, RoutingTypeInv
<1>3. wire' \subseteq wire \cup {<<g, h, q>>}
      BY DEF Forward, Write
<1>4. \A x \in handled' : x \in handled \/ (x = <<h, q>> /\ AtEnd(q))
      BY DEF Forward
<1>5. WireInv'
  <2>1. \A w \in wire : <<w[1], w[2]>> \in Pairs /\ Sound(w[3], w[2])'
        BY <1>1, SoundSame DEF RoutingInv, WireInv
  <2>2. Sound(q, h)'
        BY <1>1, <1>2, SoundSame
  <2>3. \A w \in wire' : <<w[1], w[2]>> \in Pairs /\ Sound(w[3], w[2])'
    <3> SUFFICES ASSUME NEW w \in wire'
                 PROVE  <<w[1], w[2]>> \in Pairs /\ Sound(w[3], w[2])'
        OBVIOUS
    <3>1. CASE w \in wire
          BY <3>1, <2>1
    <3>2. CASE w = <<g, h, q>>
      <4>1. w[1] = g /\ w[2] = h /\ w[3] = q
            BY <3>2
      <4> QED  BY <4>1, <1>2, <2>2
    <3> QED  BY <1>3, <3>1, <3>2
  <2> QED  BY <2>3 DEF WireInv
<1>6. HandledInv'
  <2>1. \A x \in handled : Sound(x[2], x[1])' /\ x[2].point = Len(x[2].path)
        BY <1>1, SoundSame DEF RoutingInv, HandledInv
  <2>2. Sound(q, h)'
        BY <1>1, <1>2, SoundSame
  <2> HIDE DEF q, h
  <2> QED  BY <1>4, <2>1, <2>2 DEF HandledInv, AtEnd
<1>7. RoutingTypeInv' /\ WorkInv' /\ OneInv'
      BY <1>1, SoundSame DEF RoutingInv, RoutingTypeInv, WorkInv, OneInv
<1> QED  BY <1>5, <1>6, <1>7 DEF RoutingInv

LEMMA ErrorKeepsInv ==
    ASSUME RoutingInv, NEW g, NEW p, NoNode(g, p) \/ NoAction(g, p)
    PROVE  RoutingInv'
<1>1. <<g, p>> \in work /\ UNCHANGED <<conns, wire, sent, handled, broken>>
      BY DEF NoNode, NoAction
<1>2. Sound(p, g)
      BY <1>1 DEF RoutingInv, WorkInv
<1>3. work' = (work \ {<<g, p>>}) \cup {<<g, ErrorOf(p, p.point)>>}
      BY DEF NoNode, NoAction, AtEnd
<1>4. Sound(ErrorOf(p, p.point), g)
      BY <1>2, ErrorSound
<1>5. WorkInv'
      BY <1>1, <1>3, <1>4, SoundSame DEF RoutingInv, WorkInv
<1>6. OneInv'
      BY <1>1, <1>3 DEF RoutingInv, OneInv
<1>7. RoutingTypeInv' /\ WireInv' /\ HandledInv'
      BY <1>1, SoundSame DEF RoutingInv, RoutingTypeInv, WireInv, HandledInv
<1> QED  BY <1>5, <1>6, <1>7 DEF RoutingInv

LEMMA ProcessKeepsInv ==
    ASSUME RoutingInv, NEW g, NEW p, Process(g, p)
    PROVE  RoutingInv'
<1>1. /\ <<g, p>> \in work /\ UNCHANGED <<conns, wire, sent, broken>> /\ AtEnd(p)
      /\ work' = work \ {<<g, p>>} /\ handled' = handled \cup {<<g, p>>}
      BY DEF Process
<1>2. Sound(p, g)
      BY <1>1 DEF RoutingInv, WorkInv
<1>3. HandledInv'
      BY <1>1, <1>2, SoundSame DEF RoutingInv, HandledInv, AtEnd
<1>4. RoutingTypeInv' /\ WireInv' /\ WorkInv' /\ OneInv'
      BY <1>1, SoundSame DEF RoutingInv, RoutingTypeInv, WireInv, WorkInv, OneInv
<1> QED  BY <1>3, <1>4 DEF RoutingInv

LEMMA ConnectionsKeepInv ==
    ASSUME RoutingInv, NEW l \in Pairs, ConnUp(l) \/ ConnLost(l)
    PROVE  RoutingInv'
<1>1. /\ UNCHANGED <<work, sent, handled>> /\ wire' \subseteq wire
      /\ broken' \in BOOLEAN
      BY DEF ConnUp, ConnLost, RoutingInv, RoutingTypeInv
<1>2. conns' \subseteq Pairs
  <2>1. <<l[2], l[1]>> \in Pairs
        BY RoutingAssumption DEF Pairs
  <2> QED  BY <2>1 DEF ConnUp, ConnLost, RoutingInv, RoutingTypeInv
<1>3. WireInv'
      BY <1>1, SoundSame DEF RoutingInv, WireInv
<1>4. RoutingTypeInv' /\ WorkInv' /\ OneInv' /\ HandledInv'
      BY <1>1, <1>2, SoundSame DEF RoutingInv, RoutingTypeInv, WorkInv, OneInv, HandledInv
<1> QED  BY <1>3, <1>4 DEF RoutingInv

LEMMA NextKeepsInv == RoutingInv /\ [Next]_vars => RoutingInv'
<1> SUFFICES ASSUME RoutingInv, [Next]_vars PROVE RoutingInv'
    OBVIOUS
<1>1. CASE \E path \in Paths, act \in Acts \cup {NoAct} : RsendStep(path, act)
      BY <1>1, RsendKeepsInv
<1>2. CASE \E w \in wire : Read(w)
      BY <1>2, ReadKeepsInv
<1>3. CASE \E w \in work : Forward(w[1], w[2]) \/ NoNode(w[1], w[2])
      BY <1>3, ForwardKeepsInv, ErrorKeepsInv
<1>4. CASE \E w \in work : NoAction(w[1], w[2]) \/ Process(w[1], w[2])
      BY <1>4, ErrorKeepsInv, ProcessKeepsInv
<1>5. CASE Connections
      BY <1>5, ConnectionsKeepInv DEF Connections
<1>6. CASE UNCHANGED vars
  <2>1. UNCHANGED <<conns, wire, work, sent, handled, broken>>
        BY <1>6 DEF vars
  <2> QED  BY <2>1, SoundSame
              DEF RoutingInv, RoutingTypeInv, WireInv, WorkInv, OneInv, HandledInv
<1> QED  BY <1>1, <1>2, <1>3, <1>4, <1>5, <1>6 DEF Next, Gateway

(* What every reachable state of the network satisfies: each packet is     *)
(* at the gateway that its dest_point names, and carries the path that its *)
(* sender gave it, or, if it is an error string, a part of that path.      *)
THEOREM RoutingInvariant == Spec => []RoutingInv
BY RoutingInitInv, NextKeepsInv, PTL DEF Spec

(* Connections, packets and histories keep to their types, and a gateway   *)
(* works on one packet at a time.                                          *)
THEOREM RoutingTypes == Spec => []TypeOK
<1>1. RoutingInv => TypeOK
  <2> SUFFICES ASSUME RoutingInv PROVE TypeOK
      OBVIOUS
  <2>1. \A p, n : Sound(p, n) => p \in Packet /\ n \in Gateways
    <3> SUFFICES ASSUME NEW p, NEW n, Sound(p, n) PROVE p \in Packet /\ n \in Gateways
        OBVIOUS
    <3>1. p \in Packet /\ p.path \in Seq(Gateways) /\ p.point \in 1 .. Len(p.path)
          BY DEF Sound, Packet
    <3> QED  BY <3>1 DEF Sound
  <2> QED  BY <2>1 DEF RoutingInv, TypeOK, RoutingTypeInv, WireInv, WorkInv, OneInv, HandledInv
<1> QED  BY <1>1, RoutingInvariant, PTL

(* dest_point always names the gateway that has the packet. *)
THEOREM AtItsPlaceHolds == Spec => []AtItsPlace
<1>1. RoutingInv => AtItsPlace
  <2>1. \A p, n : Sound(p, n) => p.point <= Len(p.path) /\ p.path[p.point] = n
        BY DEF Sound, Packet
  <2> QED  BY <2>1 DEF RoutingInv, WireInv, WorkInv, AtItsPlace
<1> QED  BY <1>1, RoutingInvariant, PTL

(* A request comes to a script at the end of its path and nowhere else,    *)
(* and an error string only at a gateway of that path.                     *)
THEOREM AtDestinationHolds == Spec => []AtDestination
<1>1. RoutingInv => AtDestination
  <2> SUFFICES ASSUME RoutingInv, NEW h \in handled
               PROVE  IF h[2].error
                      THEN \E i \in DOMAIN sent[h[2].req] : sent[h[2].req][i] = h[1]
                      ELSE h[1] = sent[h[2].req][Len(sent[h[2].req])]
      BY DEF AtDestination
  <2>1. Sound(h[2], h[1]) /\ h[2].point = Len(h[2].path)
        BY DEF RoutingInv, HandledInv
  <2>2. h[2].req \in 1 .. Len(sent) /\ sent[h[2].req] \in Seq(Gateways)
        BY <2>1, RoutingAssumption DEF RoutingInv, RoutingTypeInv, Sound
  <2>3. DOMAIN sent[h[2].req] = 1 .. Len(sent[h[2].req])
        BY <2>2
  <2> QED  BY ZenonT(60), <2>1, <2>2, <2>3 DEF Sound
<1> QED  BY <1>1, RoutingInvariant, PTL

-----------------------------------------------------------------------------
(* Where the requests are: in a connection, at a gateway, at a script.     *)
Tokens ==
    {<<"wire", w[3].req, w>> : w \in wire} \cup {<<"work", w[2].req, w>> : w \in work}
      \cup {<<"handled", h[2].req, h>> : h \in handled}

(* A request is at one place at most; and at one while no connection is lost. *)
SingleInv == \A x, y \in Tokens : x[2] = y[2] => x = y
PresentInv == ~broken => \A r \in 1 .. Len(sent) : \E x \in Tokens : x[2] = r

(* The first i gateways of a path are joined, there and back. *)
Joined(path, i) ==
    \A k \in 1 .. i - 1 :
        <<path[k], path[k + 1]>> \in conns /\ <<path[k + 1], path[k]>> \in conns

(* The way back to the sender is open: an error string is on the whole of  *)
(* it, a request has come along it.                                        *)
Way(p) ==
    IF p.error
    THEN /\ p.act = NoAct
         /\ \E i \in 1 .. Len(sent[p.req]) :
               p.path = PathBack(sent[p.req], i) /\ Joined(sent[p.req], i)
    ELSE Joined(sent[p.req], p.point)

WayInv ==
    ~broken =>
      /\ \A l \in conns : <<l[2], l[1]>> \in conns
      /\ \A w \in wire : Way(w[3])
      /\ \A w \in work : Way(w[2])
      /\ \A h \in handled : Way(h[2])

EndInv == RoutingInv /\ SingleInv /\ PresentInv /\ WayInv

(* A request goes from one place to another, or is dropped. *)
Moves(x, y) == x \in Tokens /\ y[2] = x[2] /\ Tokens' = (Tokens \ {x}) \cup {y}
Drops(x) == x \in Tokens /\ Tokens' = Tokens \ {x}

LEMMA MovesKeeps ==
    ASSUME SingleInv, PresentInv, UNCHANGED <<sent, broken>>, NEW x, NEW y, Moves(x, y)
    PROVE  SingleInv' /\ PresentInv'
<1> DEFINE T == Tokens
<1>1. /\ \A a, b \in T : a[2] = b[2] => a = b
      /\ x \in T /\ y[2] = x[2] /\ T' = (T \ {x}) \cup {y}
      /\ ~broken => \A r \in 1 .. Len(sent) : \E a \in T : a[2] = r
  BY DEF SingleInv, PresentInv, Moves
<1>2. SingleInv' <=> \A a, b \in T' : a[2] = b[2] => a = b
  BY DEF SingleInv
<1>3. PresentInv' <=> (~broken => \A r \in 1 .. Len(sent) : \E a \in T' : a[2] = r)
  BY DEF PresentInv
<1> HIDE DEF T
<1>4. \A a, b \in T' : a[2] = b[2] => a = b
  BY <1>1
<1>5. ASSUME ~broken, NEW r \in 1 .. Len(sent) PROVE \E a \in T' : a[2] = r
  <2>1. PICK a \in T : a[2] = r
    BY <1>1, <1>5
  <2>2. CASE a = x
    BY <1>1, <2>1, <2>2
  <2>3. CASE a # x
    BY <1>1, <2>1, <2>3
  <2> QED BY <2>2, <2>3
<1> QED BY <1>2, <1>3, <1>4, <1>5

LEMMA DropsKeeps ==
    ASSUME SingleInv, NEW x, Drops(x) PROVE SingleInv'
BY DEF SingleInv, Drops

LEMMA ReadMoves ==
    ASSUME RoutingInv, NEW w \in wire, Read(w)
    PROVE  \E x, y : Moves(x, y)
<1> DEFINE x == <<"wire", w[3].req, w>>
           v == <<w[2], w[3]>>
           y == <<"work", v[2].req, v>>
<1>1. wire' = wire \ {w} /\ work' = work \cup {v} /\ handled' = handled
  BY DEF Read
<1>2. x \in Tokens /\ y[2] = x[2]
  BY DEF Tokens
<1>3. \A t \in Tokens' : t \in (Tokens \ {x}) \cup {y}
  BY <1>1 DEF Tokens
<1>4. \A t \in (Tokens \ {x}) \cup {y} : t \in Tokens'
  BY <1>1 DEF Tokens
<1> HIDE DEF x, y
<1> QED BY <1>2, <1>3, <1>4 DEF Moves

LEMMA ForwardMoves ==
    ASSUME RoutingInv, NEW g, NEW p, Forward(g, p)
    PROVE  \/ \E x, y : Moves(x, y)
           \/ /\ \E x : Drops(x)
              /\ <<NextName(p), g>> \notin conns /\ <<g, NextName(p)>> \in conns
<1> DEFINE h == NextName(p)
           q == [p EXCEPT !.point = p.point + 1]
           v == <<g, p>>
           x == <<"work", v[2].req, v>>
<1>0. v \in work /\ q.req = p.req /\ work' = work \ {v} /\ <<g, h>> \in conns
  BY DEF Forward, RoutingInv, WorkInv, Sound, Packet
<1>1. x \in Tokens
  BY <1>0 DEF Tokens
<1>2. CASE wire' = wire /\ handled' = handled \cup {<<h, q>>}
  <2> DEFINE z == <<h, q>>
             y == <<"handled", z[2].req, z>>
  <2>1. y[2] = x[2]
    BY <1>0
  <2> HIDE DEF h, q
  <2>2. \A t \in Tokens' : t \in (Tokens \ {x}) \cup {y}
    BY <1>0, <1>2 DEF Tokens
  <2>3. \A t \in (Tokens \ {x}) \cup {y} : t \in Tokens'
    BY <1>0, <1>2 DEF Tokens
  <2> HIDE DEF x, y
  <2> QED BY <1>1, <2>1, <2>2, <2>3 DEF Moves
<1>3. CASE wire' = wire \cup {<<g, h, q>>} /\ handled' = handled
  <2> DEFINE z == <<g, h, q>>
             y == <<"wire", z[3].req, z>>
  <2>1. y[2] = x[2]
    BY <1>0
  <2> HIDE DEF h, q
  <2>2. \A t \in Tokens' : t \in (Tokens \ {x}) \cup {y}
    BY <1>0, <1>3 DEF Tokens
  <2>3. \A t \in (Tokens \ {x}) \cup {y} : t \in Tokens'
    BY <1>0, <1>3 DEF Tokens
  <2> HIDE DEF x, y
  <2> QED BY <1>1, <2>1, <2>2, <2>3 DEF Moves
<1>4. CASE wire' = wire /\ handled' = handled /\ <<h, g>> \notin conns
  <2>1. Tokens' = Tokens \ {x}
    BY <1>0, <1>4 DEF Tokens
  <2> QED BY <1>0, <1>1, <1>4, <2>1 DEF Drops
<1> QED BY <1>2, <1>3, <1>4 DEF Forward, Write

LEMMA ErrorMoves ==
    ASSUME RoutingInv, NEW g, NEW p, NoNode(g, p) \/ NoAction(g, p)
    PROVE  \E x, y : Moves(x, y)
<1> DEFINE e == ErrorOf(p, p.point)
           v == <<g, p>>
           z == <<g, e>>
           x == <<"work", v[2].req, v>>
           y == <<"work", z[2].req, z>>
<1>1. /\ v \in work /\ wire' = wire /\ handled' = handled
      /\ work' = (work \ {v}) \cup {z}
  BY DEF NoNode, NoAction, AtEnd
<1>2. e.req = p.req
  BY <1>1 DEF RoutingInv, WorkInv, Sound, Packet, ErrorOf
<1> HIDE DEF e
<1>3. x \in Tokens /\ y[2] = x[2]
  BY <1>1, <1>2 DEF Tokens
<1>4. \A t \in Tokens' : t \in (Tokens \ {x}) \cup {y}
  BY <1>1 DEF Tokens
<1>5. \A t \in (Tokens \ {x}) \cup {y} : t \in Tokens'
  BY <1>1 DEF Tokens
<1> HIDE DEF x, y
<1> QED BY <1>3, <1>4, <1>5 DEF Moves

LEMMA ProcessMoves ==
    ASSUME RoutingInv, NEW g, NEW p, Process(g, p)
    PROVE  \E x, y : Moves(x, y)
<1> DEFINE v == <<g, p>>
           x == <<"work", v[2].req, v>>
           y == <<"handled", v[2].req, v>>
<1>1. v \in work /\ wire' = wire /\ handled' = handled \cup {v} /\ work' = work \ {v}
  BY DEF Process
<1>2. x \in Tokens /\ y[2] = x[2]
  BY <1>1 DEF Tokens
<1>3. \A t \in Tokens' : t \in (Tokens \ {x}) \cup {y}
  BY <1>1 DEF Tokens
<1>4. \A t \in (Tokens \ {x}) \cup {y} : t \in Tokens'
  BY <1>1 DEF Tokens
<1> HIDE DEF x, y
<1> QED BY <1>2, <1>3, <1>4 DEF Moves

(* A new request has a number of its own. *)
LEMMA RsendToken ==
    ASSUME RoutingInv, SingleInv, PresentInv, NEW path \in Paths, NEW act \in Acts \cup {NoAct},
           RsendStep(path, act)
    PROVE  SingleInv' /\ PresentInv'
<1> DEFINE p == [req |-> Len(sent) + 1, path |-> path, point |-> 1,
                 act |-> act, error |-> FALSE]
           v == <<path[1], p>>
           y == <<"work", v[2].req, v>>
           T == Tokens
<1>1. /\ work' = work \cup {v} /\ wire' = wire /\ handled' = handled /\ broken' = broken
      /\ sent \in Seq(Paths) /\ Len(sent') = Len(sent) + 1 /\ Len(sent) \in Nat
  BY DEF RsendStep, RoutingInv, RoutingTypeInv
<1>2. \A t \in Tokens : t[2] \in 1 .. Len(sent)
  <2>1. /\ \A w \in wire : w[3].req \in 1 .. Len(sent)
        /\ \A w \in work : w[2].req \in 1 .. Len(sent)
        /\ \A h \in handled : h[2].req \in 1 .. Len(sent)
    BY DEF RoutingInv, WireInv, WorkInv, HandledInv, Sound
  <2> QED BY <2>1 DEF Tokens
<1>3. y[2] = Len(sent) + 1
  OBVIOUS
<1> HIDE DEF p, y
<1>4. Tokens' = Tokens \cup {y}
  BY <1>1 DEF Tokens, y
<1>5. \A a, b \in T' : a[2] = b[2] => a = b
  <2>1. \A a, b \in T : a[2] = b[2] => a = b
    BY DEF SingleInv
  <2>2. \A a \in T : a[2] # y[2]
    BY <1>1, <1>2, <1>3
  <2>3. T' = T \cup {y}
    BY <1>4
  <2> HIDE DEF T
  <2> QED BY <2>1, <2>2, <2>3
<1>6. ASSUME ~broken, NEW r \in 1 .. Len(sent') PROVE \E a \in T' : a[2] = r
  <2>1. CASE r \in 1 .. Len(sent)
    BY <1>4, <1>6, <2>1 DEF PresentInv
  <2>2. CASE r = Len(sent) + 1
    BY <1>3, <1>4, <2>2
  <2> QED BY <1>1, <2>1, <2>2
<1> QED BY <1>1, <1>5, <1>6 DEF SingleInv, PresentInv

(* Only a lost connection, or one that was lost at the other end, drops a packet. *)
LEMMA TokensKept ==
    ASSUME RoutingInv, SingleInv, PresentInv, WayInv, [Next]_vars
    PROVE  SingleInv' /\ PresentInv'
<1>1. CASE \E path \in Paths, act \in Acts \cup {NoAct} : RsendStep(path, act)
  BY <1>1, RsendToken
<1>2. CASE \E w \in wire : Read(w)
  BY <1>2, ReadMoves, MovesKeeps DEF Read
<1>3. CASE \E w \in work : Forward(w[1], w[2])
  <2>1. PICK w \in work : Forward(w[1], w[2])
    BY <1>3
  <2>2. UNCHANGED <<sent, broken>>
    BY <2>1 DEF Forward
  <2>3. CASE \E x, y : Moves(x, y)
    BY <2>2, <2>3, MovesKeeps
  <2>4. CASE /\ \E x : Drops(x)
             /\ <<NextName(w[2]), w[1]>> \notin conns /\ <<w[1], NextName(w[2])>> \in conns
    <3>1. broken
      <4> DEFINE l == <<w[1], NextName(w[2])>>
      <4>1. l \in conns /\ <<l[2], l[1]>> \notin conns
        BY <2>4
      <4> HIDE DEF l
      <4> QED BY <4>1 DEF WayInv
    <3>2. PresentInv'
      BY <2>2, <3>1 DEF PresentInv
    <3> QED BY <2>4, <3>2, DropsKeeps
  <2> QED BY <2>1, <2>3, <2>4, ForwardMoves
<1>4. CASE \E w \in work : NoNode(w[1], w[2]) \/ NoAction(w[1], w[2])
  BY <1>4, ErrorMoves, MovesKeeps DEF NoNode, NoAction
<1>5. CASE \E w \in work : Process(w[1], w[2])
  BY <1>5, ProcessMoves, MovesKeeps DEF Process
<1>6. CASE \E l \in Pairs : ConnUp(l)
  BY <1>6 DEF ConnUp, SingleInv, PresentInv, Tokens
<1>7. CASE \E l \in Pairs : ConnLost(l)
  <2>1. Tokens' \subseteq Tokens /\ broken'
    BY <1>7 DEF ConnLost, Tokens
  <2> QED BY <2>1 DEF SingleInv, PresentInv
<1>8. CASE UNCHANGED vars
  BY <1>8 DEF vars, SingleInv, PresentInv, Tokens
<1> QED BY <1>1, <1>2, <1>3, <1>4, <1>5, <1>6, <1>7, <1>8 DEF Next, Gateway, Connections

-----------------------------------------------------------------------------
(* The way back stays open as long as no connection is lost. *)
LEMMA WayKept ==
    ASSUME NEW p, NEW n, Sound(p, n), Way(p), sent \in Seq(Paths), conns \subseteq conns',
           \/ sent' = sent
           \/ \E path \in Paths : sent' = Append(sent, path)
    PROVE  Way(p)'
<1>1. sent'[p.req] = sent[p.req]
  BY DEF Sound
<1>2. \A path, i : Joined(path, i) => Joined(path, i)'
  BY DEF Joined
<1> QED BY <1>1, <1>2 DEF Way

(* One gateway further: its connection there has another end. *)
LEMMA WayForward ==
    ASSUME RoutingInv, WayInv, ~broken, NEW g, NEW p, Forward(g, p)
    PROVE  Way([p EXCEPT !.point = p.point + 1])
<1> DEFINE q == [p EXCEPT !.point = p.point + 1]
<1>1. /\ Sound(p, g) /\ Way(p) /\ ~AtEnd(p) /\ <<g, NextName(p)>> \in conns
  <2> DEFINE v == <<g, p>>
  <2>1. v \in work /\ v[1] = g /\ v[2] = p
    BY DEF Forward
  <2>2. Sound(v[2], v[1]) /\ Way(v[2])
    BY <2>1 DEF RoutingInv, WorkInv, WayInv
  <2> QED BY <2>1, <2>2 DEF Forward
<1>2. <<NextName(p), g>> \in conns
  <2> DEFINE l == <<g, NextName(p)>>
  <2>1. <<l[2], l[1]>> \in conns
    <3> HIDE DEF l
    <3>1. l \in conns
      BY <1>1 DEF l
    <3> QED BY <3>1 DEF WayInv
  <2> QED BY <2>1
<1>3. /\ q.error = p.error /\ q.act = p.act /\ q.path = p.path /\ q.req = p.req
      /\ q.point = p.point + 1 /\ p.point \in 1 .. Len(p.path) /\ p.path \in Seq(Gateways)
      /\ p.path[p.point] = g
  BY <1>1 DEF Sound, Packet
<1> HIDE DEF q
<1>4. CASE p.error
  BY <1>1, <1>3, <1>4 DEF Way
<1>5. CASE ~p.error
  <2>1. p.path = sent[p.req] /\ Joined(p.path, p.point)
    BY <1>1, <1>5 DEF Way, Sound
  <2>2. Joined(p.path, p.point + 1)
    <3> SUFFICES ASSUME NEW k \in 1 .. p.point
                 PROVE  <<p.path[k], p.path[k + 1]>> \in conns /\ <<p.path[k + 1], p.path[k]>> \in conns
      BY <1>3 DEF Joined
    <3>1. CASE k = p.point
      BY <1>1, <1>2, <1>3, <3>1 DEF NextName
    <3>2. CASE k # p.point
      BY <1>3, <2>1, <3>2 DEF Joined
    <3> QED BY <3>1, <3>2
  <2> QED BY <1>3, <1>5, <2>1, <2>2 DEF Way
<1> QED BY <1>4, <1>5

(* An error string is never in trouble itself. *)
LEMMA WayNoNode ==
    ASSUME RoutingInv, WayInv, ~broken, NEW g, NEW p, NoNode(g, p) \/ NoAction(g, p)
    PROVE  ~p.error /\ Way(ErrorOf(p, p.point))
<1>1. Sound(p, g) /\ Way(p)
  <2> DEFINE v == <<g, p>>
  <2>1. v \in work /\ v[1] = g /\ v[2] = p
    BY DEF NoNode, NoAction
  <2>2. Sound(v[2], v[1]) /\ Way(v[2])
    BY <2>1 DEF RoutingInv, WorkInv, WayInv
  <2> QED BY <2>1, <2>2
<1>2. /\ p.point \in 1 .. Len(p.path) /\ p.path[p.point] = g /\ p.path \in Seq(Gateways)
  BY <1>1 DEF Sound, Packet
<1>3. ASSUME p.error PROVE FALSE
  <2>1. PICK i \in 1 .. Len(sent[p.req]) :
           p.path = PathBack(sent[p.req], i) /\ Joined(sent[p.req], i)
    BY <1>1, <1>3 DEF Way
  <2>2. p.act = NoAct
    BY <1>1, <1>3 DEF Way
  <2>3. NoNode(g, p)
    BY <2>2 DEF NoAction
  <2> DEFINE s == sent[p.req]
             k == i - p.point
  <2>4. i \in Nat /\ Len(p.path) = i
    BY <2>1, <1>2 DEF PathBack
  <2>5. p.point \in 1 .. i - 1 /\ k \in 1 .. i - 1
    BY <1>2, <2>3, <2>4 DEF NoNode, AtEnd
  <2>6. p.path[p.point] = s[k + 1] /\ p.path[p.point + 1] = s[k]
    <3>1. \A j \in 1 .. i : p.path[j] = s[i + 1 - j]
      BY <2>1 DEF PathBack
    <3>2. p.point + 1 \in 1 .. i /\ i + 1 - p.point = k + 1 /\ i + 1 - (p.point + 1) = k
      BY <2>4, <2>5
    <3> HIDE DEF k, s
    <3> QED BY SMTT(30), <2>5, <3>1, <3>2
  <2>7. <<s[k + 1], s[k]>> \in conns
    BY <2>1, <2>5 DEF Joined
  <2> QED BY <1>2, <2>3, <2>6, <2>7 DEF NoNode, NextName
<1>4. Way(ErrorOf(p, p.point))
  <2> DEFINE e == ErrorOf(p, p.point)
  <2>1. e.error = TRUE /\ e.act = NoAct /\ e.req = p.req /\ e.path = PathBack(p.path, p.point)
    BY <1>1 DEF ErrorOf, Sound, Packet
  <2>2. p.path = sent[p.req] /\ Joined(sent[p.req], p.point)
    BY <1>1, <1>3 DEF Way, Sound
  <2> HIDE DEF e
  <2>3. p.point \in 1 .. Len(sent[e.req]) /\ e.path = PathBack(sent[e.req], p.point)
    BY <1>2, <2>1, <2>2
  <2>4. Way(e)
    BY <2>1, <2>2, <2>3 DEF Way
  <2> QED BY <2>4 DEF e
<1> QED BY <1>3, <1>4

(* Every step keeps the ways back. *)
LEMMA WayStep ==
    ASSUME RoutingInv, WayInv, [Next]_vars
    PROVE  WayInv'
<1> SUFFICES ASSUME ~broken'
             PROVE  /\ \A l \in conns' : <<l[2], l[1]>> \in conns'
                    /\ \A w \in wire' : Way(w[3])'
                    /\ \A w \in work' : Way(w[2])'
                    /\ \A h \in handled' : Way(h[2])'
  BY DEF WayInv
<1>1. /\ ~broken /\ conns \subseteq conns' /\ sent \in Seq(Paths)
      /\ \A l \in conns : <<l[2], l[1]>> \in conns
      /\ \/ sent' = sent
         \/ \E path \in Paths : sent' = Append(sent, path)
  BY DEF RoutingInv, RoutingTypeInv, WayInv, Next, Gateway, Connections, vars, RsendStep, Read, Forward,
         NoNode, NoAction, Process, ConnUp, ConnLost
<1>2. /\ \A w \in wire : Way(w[3])'
      /\ \A w \in work : Way(w[2])'
      /\ \A h \in handled : Way(h[2])'
  BY <1>1, WayKept DEF RoutingInv, WireInv, WorkInv, HandledInv, WayInv
<1>3. CASE \E path \in Paths, act \in Acts \cup {NoAct} : RsendStep(path, act)
  <2>1. PICK path \in Paths, act \in Acts \cup {NoAct} : RsendStep(path, act)
    BY <1>3
  <2>2. PICK p : p = [req |-> Len(sent) + 1, path |-> path, point |-> 1,
                      act |-> act, error |-> FALSE]
    OBVIOUS
  <2>3. /\ p.error = FALSE /\ p.point = 1
        /\ work' = work \cup {<<path[1], p>>} /\ UNCHANGED <<conns, wire, handled>>
    BY <2>1, <2>2 DEF RsendStep
  <2>4. Way(p)'
    BY <2>3 DEF Way, Joined
  <2> QED BY <1>1, <1>2, <2>3, <2>4
<1>4. CASE \E w \in wire : Read(w)
  BY <1>1, <1>2, <1>4 DEF Read
<1>5. CASE \E w \in work : Forward(w[1], w[2])
  <2>1. PICK w \in work : Forward(w[1], w[2])
    BY <1>5
  <2> DEFINE q == [w[2] EXCEPT !.point = w[2].point + 1]
             h == NextName(w[2])
  <2>2. UNCHANGED <<conns, sent>> /\ work' \subseteq work
    BY <2>1 DEF Forward
  <2>3. Way(q)'
    BY <1>1, <2>1, <2>2, WayForward DEF Way, Joined
  <2>4. wire' \subseteq wire \cup {<<w[1], h, q>>} /\ handled' \subseteq handled \cup {<<h, q>>}
    BY <2>1 DEF Forward, Write
  <2> HIDE DEF q, h
  <2> QED BY <1>1, <1>2, <2>2, <2>3, <2>4
<1>6. CASE \E w \in work : NoNode(w[1], w[2]) \/ NoAction(w[1], w[2])
  <2>1. PICK w \in work : NoNode(w[1], w[2]) \/ NoAction(w[1], w[2])
    BY <1>6
  <2> DEFINE e == ErrorOf(w[2], w[2].point)
  <2>2. UNCHANGED <<conns, sent, wire, handled>> /\ work' \subseteq work \cup {<<w[1], e>>}
    BY SMTT(30), <2>1 DEF NoNode, NoAction, AtEnd
  <2>3. Way(e)'
    BY <1>1, <2>1, <2>2, WayNoNode DEF Way, Joined
  <2> HIDE DEF e
  <2> QED BY <1>1, <1>2, <2>2, <2>3
<1>7. CASE \E w \in work : Process(w[1], w[2])
  BY <1>1, <1>2, <1>7 DEF Process, WayInv
<1>8. CASE \E l \in Pairs : ConnUp(l)
  <2>1. PICK l \in Pairs : ConnUp(l)
    BY <1>8
  <2>2. l = <<l[1], l[2]>>
    BY RoutingAssumption DEF Pairs
  <2> QED BY <1>1, <1>2, <2>1, <2>2 DEF ConnUp
<1>9. CASE \E l \in Pairs : ConnLost(l)
  BY <1>9 DEF ConnLost
<1>10. CASE UNCHANGED vars
  BY <1>1, <1>2, <1>10 DEF vars
<1> QED BY <1>3, <1>4, <1>5, <1>6, <1>7, <1>8, <1>9, <1>10 DEF Next, Gateway, Connections

(* What every reachable state of the network satisfies besides: where each *)
(* request is, and that its way back is open while no connection is lost.  *)
THEOREM EndInvariant == Spec => []EndInv
<1>1. Init => SingleInv /\ PresentInv /\ WayInv
  <2>1. Init => Tokens = {} /\ Len(sent) = 0 /\ conns = {} /\ wire = {} /\ work = {} /\ handled = {}
    BY DEF Init, Tokens
  <2> QED BY <2>1 DEF SingleInv, PresentInv, WayInv
<1>2. RoutingInv /\ RoutingInv' /\ SingleInv /\ PresentInv /\ WayInv /\ [Next]_vars
        => (SingleInv /\ PresentInv /\ WayInv)'
  BY TokensKept, WayStep
<1> QED BY <1>1, <1>2, RoutingInvariant, PTL DEF Spec, EndInv

(* A request is handled once or its sender is told once, never both. *)
THEOREM OneEndHolds == Spec => []OneEnd
<1>1. EndInv => OneEnd
  <2> SUFFICES ASSUME EndInv, NEW r \in DOMAIN sent
               PROVE  Cardinality({p \in UnderWay : p.req = r})
                        + Cardinality({h \in handled : h[2].req = r}) <= 1
    BY DEF OneEnd
  <2> DEFINE A == {p \in UnderWay : p.req = r}
             B == {h \in handled : h[2].req = r}
  <2>1. \A x, y \in Tokens : x[2] = y[2] => x = y
    BY DEF EndInv, SingleInv
  <2>2. \A p \in A : \/ \E w \in wire : p = w[3] /\ <<"wire", r, w>> \in Tokens
                     \/ \E w \in work : p = w[2] /\ <<"work", r, w>> \in Tokens
    BY DEF UnderWay, Tokens
  <2>3. \A h \in B : <<"handled", r, h>> \in Tokens
    BY DEF Tokens
  <2>4. /\ \A p, q \in A : p = q
        /\ \A h, k \in B : h = k
        /\ A = {} \/ B = {}
    <3> DEFINE T == Tokens
    <3>1. /\ \A x, y : <<"handled", r, x>> \in T /\ <<"handled", r, y>> \in T => x = y
          /\ \A x, y : <<"wire", r, x>> \in T /\ <<"wire", r, y>> \in T => x = y
          /\ \A x, y : <<"work", r, x>> \in T /\ <<"work", r, y>> \in T => x = y
          /\ \A x, y : ~(<<"wire", r, x>> \in T /\ <<"work", r, y>> \in T)
          /\ \A x, y : ~(<<"wire", r, x>> \in T /\ <<"handled", r, y>> \in T)
          /\ \A x, y : ~(<<"work", r, x>> \in T /\ <<"handled", r, y>> \in T)
      <4>1. \A m, n, x, y : <<m, r, x>> \in T /\ <<n, r, y>> \in T => m = n /\ x = y
        <5> SUFFICES ASSUME NEW m, NEW n, NEW x, NEW y, <<m, r, x>> \in T, <<n, r, y>> \in T
                     PROVE  m = n /\ x = y
          OBVIOUS
        <5>1. <<m, r, x>> = <<n, r, y>>
          BY <2>1
        <5> QED BY <5>1
      <4> HIDE DEF T
      <4> QED BY <4>1
    <3> HIDE DEF A, B
    <3> QED BY <2>2, <2>3, <3>1
  <2>5. \A S : (\A x, y \in S : x = y) => S = {} \/ \E x : S = {x}
    OBVIOUS
  <2>6. \A S : (\A x, y \in S : x = y) => Cardinality(S) \in {0, 1} /\ (S = {} => Cardinality(S) = 0)
    BY <2>5, FS_EmptySet, FS_Singleton
  <2>7. Cardinality(A) + Cardinality(B) <= 1
    <3> HIDE DEF A, B
    <3> QED BY <2>4, <2>6
  <2> QED BY <2>7
<1> QED BY <1>1, EndInvariant, PTL

(* While every connection holds no request disappears, and the error       *)
(* strings come back to the gateway that sent the request.                 *)
THEOREM NothingLostHolds == Spec => []NothingLost
<1>1. EndInv => NothingLost
  <2> SUFFICES ASSUME EndInv, ~broken
               PROVE  /\ \A r \in DOMAIN sent :
                            \/ \E p \in UnderWay : p.req = r
                            \/ \E h \in handled : h[2].req = r
                      /\ \A h \in handled : h[2].error => h[1] = Head(sent[h[2].req])
    BY DEF NothingLost
  <2>1. ASSUME NEW r \in DOMAIN sent
        PROVE  (\E p \in UnderWay : p.req = r) \/ (\E h \in handled : h[2].req = r)
    <3>1. PICK x \in Tokens : x[2] = r
      BY DEF EndInv, PresentInv, RoutingInv, RoutingTypeInv
    <3> QED BY <3>1 DEF Tokens, UnderWay
  <2>2. ASSUME NEW h \in handled, h[2].error PROVE h[1] = Head(sent[h[2].req])
    <3> DEFINE p == h[2]
               s == sent[p.req]
    <3>1. Sound(p, h[1]) /\ p.point = Len(p.path) /\ Way(p)
      BY DEF EndInv, RoutingInv, HandledInv, WayInv
    <3>2. PICK i \in 1 .. Len(s) : p.path = PathBack(s, i)
      BY <2>2, <3>1 DEF Way
    <3>3. s \in Seq(Gateways) /\ s # <<>>
      BY <3>1, RoutingAssumption DEF Sound, EndInv, RoutingInv, RoutingTypeInv
    <3>4. i \in Nat /\ Len(p.path) = i /\ p.path[i] = s[1]
      BY <3>2, <3>3 DEF PathBack
    <3> QED BY <3>1, <3>3, <3>4 DEF Sound
  <2> QED BY <2>1, <2>2
<1> QED BY <1>1, EndInvariant, PTL
=============================================================================
