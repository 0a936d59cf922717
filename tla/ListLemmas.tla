------------------------------ MODULE ListLemmas ------------------------------
(***************************************************************************)
(* Lemmas about numbers, recursive functions and the lists of Lists, cited *)
(* by the proofs of the components.  The induction theorems of the library *)
(* are about operators; the well-founded order of the numbers gives the    *)
(* same for sets (UpTo) and for the values of a recursive function         *)
(* (Recursion).                                                            *)
(***************************************************************************)
EXTENDS Lists, SequencesExt, SequenceTheorems, FiniteSetTheorems,
        WellFoundedInduction, TLAPS

(* The least number of a set.                                              *)
LEMMA Least ==
  ASSUME NEW T \in SUBSET Nat, T # {}
  PROVE  \E n \in T : \A m \in T : n <= m
<1>1. T \subseteq Nat
  OBVIOUS
<1>2. IsWellFoundedOn(OpToRel(<, Nat), Nat)
  BY NatLessThanWellFounded
<1>3. PICK n \in T : \A m \in T : <<m, n>> \notin OpToRel(<, Nat)
  BY <1>2, WFMin
<1>4. \A i, j \in Nat : i < j => <<i, j>> \in OpToRel(<, Nat)
  BY DEF OpToRel
<1>5. \A m \in T : ~(m < n)
  BY <1>1, <1>3, <1>4
<1> QED BY <1>1, <1>5

(* What holds of 0, and of n + 1 when it holds of n, holds up to N.        *)
LEMMA UpTo ==
  ASSUME NEW N \in Nat, NEW S, 0 \in S,
         \A n \in 0..N : n < N /\ n \in S => n + 1 \in S
  PROVE  0..N \subseteq S
<1> SUFFICES ASSUME ~(0..N \subseteq S) PROVE FALSE
  OBVIOUS
<1>1. (0..N) \ S \in SUBSET Nat /\ (0..N) \ S # {}
  OBVIOUS
<1>2. PICK n \in (0..N) \ S : \A m \in (0..N) \ S : n <= m
  BY <1>1, Least
<1>3. n - 1 \in 0..N /\ n - 1 < n
  BY <1>2
<1>4. n - 1 \in S
  BY <1>2, <1>3
<1> QED BY <1>2, <1>3, <1>4

(* The function that starts with first and goes on by step.                *)
Steps(N, V) == [(1..N) \X V -> V]

Follows(f, N, V, first, step) ==
  f \in [0..N -> V] /\ f[0] = first /\ \A i \in 1..N : f[i] = step[<<i, f[i - 1]>>]

LEMMA Recursion ==
  ASSUME NEW N \in Nat, NEW V, NEW first \in V, NEW step \in Steps(N, V)
  PROVE  \E f : Follows(f, N, V, first, step)
<1>0. step \in [(1..N) \X V -> V]
  BY DEF Steps
<1> DEFINE Good(n, f) == f[0] = first /\ \A i \in 1..n : f[i] = step[<<i, f[i - 1]>>]
           S == {n \in 0..N : \E f \in [0..n -> V] : Good(n, f)}
<1>1. 0 \in S
  <2> DEFINE g == [i \in 0..0 |-> first]
  <2>1. g \in [0..0 -> V] /\ g[0] = first /\ \A i \in 1..0 : g[i] = step[<<i, g[i - 1]>>]
    OBVIOUS
  <2> HIDE DEF g
  <2>2. Good(0, g)
    BY <2>1
  <2> HIDE DEF Good
  <2> QED BY <2>1, <2>2
<1>2. ASSUME NEW n \in 0..N, n < N, n \in S PROVE n + 1 \in S
  <2>1. PICK f \in [0..n -> V] : Good(n, f)
    BY <1>2
  <2> DEFINE g == [i \in 0..n + 1 |-> IF i = n + 1 THEN step[<<n + 1, f[n]>>] ELSE f[i]]
  <2>2. n + 1 \in 1..N /\ n \in 0..n /\ f[n] \in V
    BY <1>2
  <2>3. step[<<n + 1, f[n]>>] \in V
    BY <1>0, <2>2
  <2>4. g \in [0..n + 1 -> V]
    BY <2>3
  <2>5. \A i \in 0..n : g[i] = f[i]
    OBVIOUS
  <2>6. g[n + 1] = step[<<n + 1, f[n]>>]
    BY <2>2
  <2> HIDE DEF g
  <2>7. g[0] = first
    BY <2>1, <2>5
  <2>8. ASSUME NEW i \in 1..n + 1 PROVE g[i] = step[<<i, g[i - 1]>>]
    <3>1. CASE i = n + 1
      BY <3>1, <2>2, <2>5, <2>6
    <3>2. CASE i # n + 1
      <4>1. i \in 1..n /\ i \in 0..n /\ i - 1 \in 0..n
        BY <3>2
      <4> QED BY <2>1, <2>5, <4>1
    <3> QED BY <3>1, <3>2
  <2>9. Good(n + 1, g)
    BY <2>7, <2>8
  <2> HIDE DEF Good
  <2> QED BY <2>2, <2>4, <2>9
<1>3. N \in S
  <2> HIDE DEF S
  <2>1. 0..N \subseteq S
    BY <1>1, <1>2, UpTo
  <2> QED BY <2>1
<1>4. PICK f \in [0..N -> V] : Good(N, f)
  BY <1>3
<1> QED BY <1>4 DEF Follows

-------------------------------------------------------------------------------
(* Sums.                                                                   *)

(* What Total computes.                                                    *)
Totals(t, s) ==
  /\ t[0] = 0
  /\ \A n \in 1..Len(s) : t[n] = t[n - 1] + s[n]
  /\ Total(s) = t[Len(s)]

LEMMA TotalIs ==
  ASSUME NEW s \in Seq(Nat)
  PROVE  \E t \in [0..Len(s) -> Nat] : Totals(t, s)
<1> DEFINE N == Len(s)
           V == Nat
           Body(t) == [n \in 0..N |-> IF n = 0 THEN 0 ELSE t[n - 1] + s[n]]
           step == [x \in (1..N) \X V |-> x[2] + s[x[1]]]
           t == CHOOSE f : f = Body(f)
<1>1. N \in Nat /\ 0 \in V
  OBVIOUS
<1>2. \A i \in 1..N, v \in V : (v + s[i]) \in V
  OBVIOUS
<1>3. step \in Steps(N, V)
  BY <1>2 DEF Steps
<1>4. \A i \in 1..N, v \in V : step[<<i, v>>] = v + s[i]
  OBVIOUS
<1>5. Total(s) = t[N]
  BY DEF Total
<1> HIDE DEF step, t, N, V
<1>6. PICK f : Follows(f, N, V, 0, step)
  BY <1>1, <1>3, Recursion
<1>7. ASSUME NEW i \in 0..N PROVE f[i] = Body(f)[i]
  <2>1. CASE i = 0
    BY <1>6, <2>1 DEF Follows
  <2>2. CASE i # 0
    <3>1. i \in 1..N /\ i - 1 \in 0..N /\ f[i - 1] \in V
      BY <1>1, <1>6, <2>2 DEF Follows
    <3>2. f[i] = step[<<i, f[i - 1]>>]
      BY <1>6, <3>1 DEF Follows
    <3> QED BY <1>4, <2>2, <3>1, <3>2
  <2> QED BY <2>1, <2>2
<1>8. f = Body(f)
  BY <1>6, <1>7 DEF Follows
<1>9. t = Body(t)
  <2> HIDE DEF Body
  <2> QED BY <1>8 DEF t
<1>10. t[0] = 0 /\ \A i \in 1..N : t[i] = t[i - 1] + s[i]
  <2>1. \A i \in 0..N : t[i] = IF i = 0 THEN 0 ELSE t[i - 1] + s[i]
    BY <1>9
  <2> QED BY <1>1, <2>1
<1>11. t \in [0..N -> V]
  <2> DEFINE S == {i \in 0..N : t[i] \in V}
  <2>1. 0 \in S
    BY <1>1, <1>10
  <2>2. ASSUME NEW i \in 0..N, i < N, i \in S PROVE i + 1 \in S
    <3>1. i + 1 \in 1..N /\ i + 1 \in 0..N /\ (i + 1) - 1 = i /\ t[i] \in V
      BY <1>1, <2>2
    <3>2. t[i + 1] = t[i] + s[(i + 1)]
      BY <1>10, <3>1
    <3>3. t[i + 1] \in V
      BY <1>2, <3>1, <3>2
    <3> QED BY <3>1, <3>3
  <2> HIDE DEF S
  <2>3. 0..N \subseteq S
    BY <1>1, <2>1, <2>2, UpTo
  <2>4. \A i \in 0..N : t[i] \in V
    BY <2>3 DEF S
  <2>5. t = [i \in 0..N |-> t[i]]
    BY <1>9
  <2> QED BY <2>4, <2>5
<1> QED BY <1>5, <1>10, <1>11 DEF N, V, Totals

(* What Kept computes.                                                     *)
Keeps(t, s, P) ==
  /\ t[0] = <<>>
  /\ \A n \in 1..Len(s) : t[n] = IF n \in P THEN Append(t[n - 1], s[n]) ELSE t[n - 1]
  /\ Kept(s, P) = t[Len(s)]

LEMMA KeptIs ==
  ASSUME NEW S, NEW s \in Seq(S), NEW P
  PROVE  \E t \in [0..Len(s) -> Seq(S)] : Keeps(t, s, P)
<1> DEFINE N == Len(s)
           V == Seq(S)
           Body(t) == [n \in 0..N |-> IF n = 0 THEN <<>> ELSE IF n \in P THEN Append(t[n - 1], s[n]) ELSE t[n - 1]]
           step == [x \in (1..N) \X V |-> IF x[1] \in P THEN Append(x[2], s[x[1]]) ELSE x[2]]
           t == CHOOSE f : f = Body(f)
<1>1. N \in Nat /\ <<>> \in V
  BY EmptySeq
<1>2. \A i \in 1..N, v \in V : (IF i \in P THEN Append(v, s[i]) ELSE v) \in V
  OBVIOUS
<1>3. step \in Steps(N, V)
  BY <1>2 DEF Steps
<1>4. \A i \in 1..N, v \in V : step[<<i, v>>] = IF i \in P THEN Append(v, s[i]) ELSE v
  OBVIOUS
<1>5. Kept(s, P) = t[N]
  BY DEF Kept
<1> HIDE DEF step, t, N, V
<1>6. PICK f : Follows(f, N, V, <<>>, step)
  BY <1>1, <1>3, Recursion
<1>7. ASSUME NEW i \in 0..N PROVE f[i] = Body(f)[i]
  <2>1. CASE i = 0
    BY <1>6, <2>1 DEF Follows
  <2>2. CASE i # 0
    <3>1. i \in 1..N /\ i - 1 \in 0..N /\ f[i - 1] \in V
      BY <1>1, <1>6, <2>2 DEF Follows
    <3>2. f[i] = step[<<i, f[i - 1]>>]
      BY <1>6, <3>1 DEF Follows
    <3> QED BY <1>4, <2>2, <3>1, <3>2
  <2> QED BY <2>1, <2>2
<1>8. f = Body(f)
  BY <1>6, <1>7 DEF Follows
<1>9. t = Body(t)
  <2> HIDE DEF Body
  <2> QED BY <1>8 DEF t
<1>10. t[0] = <<>> /\ \A i \in 1..N : t[i] = IF i \in P THEN Append(t[i - 1], s[i]) ELSE t[i - 1]
  <2>1. \A i \in 0..N : t[i] = IF i = 0 THEN <<>> ELSE IF i \in P THEN Append(t[i - 1], s[i]) ELSE t[i - 1]
    BY <1>9
  <2> QED BY <1>1, <2>1
<1>11. t \in [0..N -> V]
  <2> DEFINE T == {i \in 0..N : t[i] \in V}
  <2>1. 0 \in T
    BY <1>1, <1>10
  <2>2. ASSUME NEW i \in 0..N, i < N, i \in T PROVE i + 1 \in T
    <3>1. i + 1 \in 1..N /\ i + 1 \in 0..N /\ (i + 1) - 1 = i /\ t[i] \in V
      BY <1>1, <2>2
    <3>2. t[i + 1] = IF (i + 1) \in P THEN Append(t[i], s[(i + 1)]) ELSE t[i]
      BY <1>10, <3>1
    <3>3. t[i + 1] \in V
      BY <1>2, <3>1, <3>2
    <3> QED BY <3>1, <3>3
  <2> HIDE DEF T
  <2>3. 0..N \subseteq T
    BY <1>1, <2>1, <2>2, UpTo
  <2>4. \A i \in 0..N : t[i] \in V
    BY <2>3 DEF T
  <2>5. t = [i \in 0..N |-> t[i]]
    BY <1>9
  <2> QED BY <2>4, <2>5
<1> QED BY <1>5, <1>10, <1>11 DEF N, V, Keeps

(* What FlattenSeq computes.                                               *)
Flattens(t, ss) ==
  /\ t[0] = <<>>
  /\ \A n \in 1..Len(ss) : t[n] = t[n - 1] \o ss[n]
  /\ FlattenSeq(ss) = t[Len(ss)]

LEMMA FlattenIs ==
  ASSUME NEW S, NEW ss \in Seq(Seq(S))
  PROVE  \E t \in [0..Len(ss) -> Seq(S)] : Flattens(t, ss)
<1> DEFINE N == Len(ss)
           V == Seq(S)
           Body(t) == [n \in 1..N |-> IF n = 1 THEN ss[n] ELSE t[n - 1] \o ss[n]]
           step == [x \in (1..N) \X V |-> x[2] \o ss[x[1]]]
           t == CHOOSE f : f = Body(f)
<1>1. N \in Nat /\ <<>> \in V /\ \A i \in 1..N : ss[i] \in V /\ <<>> \o ss[i] = ss[i]
  BY EmptySeq, ConcatEmptySeq
<1>2. \A i \in 1..N, v \in V : v \o ss[i] \in V
  BY <1>1, ConcatProperties
<1>3. step \in Steps(N, V)
  BY <1>2 DEF Steps
<1>4. \A i \in 1..N, v \in V : step[<<i, v>>] = v \o ss[i]
  OBVIOUS
<1>5. FlattenSeq(ss) = IF N = 0 THEN ss ELSE t[N]
  BY DEF FlattenSeq
<1>6. N = 0 => ss = <<>>
  BY EmptySeq
<1> HIDE DEF step, t, N, V
<1>7. PICK f : Follows(f, N, V, <<>>, step)
  BY <1>1, <1>3, Recursion
<1>8. f[0] = <<>> /\ \A i \in 1..N : f[i] = f[i - 1] \o ss[i]
  <2> SUFFICES ASSUME NEW i \in 1..N PROVE f[i] = f[i - 1] \o ss[i]
    BY <1>7 DEF Follows
  <2>1. i - 1 \in 0..N
    BY <1>1
  <2> QED BY <1>4, <1>7, <2>1 DEF Follows
<1>9. f[1] = ss[1] \/ N = 0
  <2>1. N # 0 => 1 \in 1..N /\ 1 - 1 = 0
    BY <1>1
  <2>2. N # 0 => f[1] = f[0] \o ss[1]
    BY <1>8, <2>1
  <2> QED BY <1>1, <1>8, <2>1, <2>2
<1> DEFINE g == [i \in 1..N |-> f[i]]
<1>10. ASSUME NEW i \in 1..N PROVE g[i] = Body(g)[i]
  <2>1. CASE i = 1
    BY <1>1, <1>9, <2>1
  <2>2. CASE i # 1
    <3>1. i - 1 \in 1..N
      BY <1>1, <2>2
    <3> QED BY <1>8, <2>2, <3>1
  <2> QED BY <2>1, <2>2
<1>11. g = Body(g)
  BY <1>10
<1>12. t = Body(t)
  <2> HIDE DEF Body, g
  <2> QED BY <1>11 DEF t
<1>13. \A i \in 1..N : t[i] = IF i = 1 THEN ss[i] ELSE t[i - 1] \o ss[i]
  BY <1>12
<1> DEFINE Agree == {i \in 0..N : i = 0 \/ t[i] = f[i]}
<1>14. 0 \in Agree
  BY <1>1
<1>15. ASSUME NEW i \in 0..N, i < N, i \in Agree PROVE i + 1 \in Agree
  <2>1. i + 1 \in 1..N /\ i + 1 \in 0..N /\ (i + 1) - 1 = i
    BY <1>1, <1>15
  <2>2. f[i + 1] = f[i] \o ss[i + 1]
    BY <1>8, <2>1
  <2>3. t[i + 1] = f[i + 1]
    <3>1. CASE i = 0
      BY <1>9, <1>13, <2>1, <3>1
    <3>2. CASE i # 0
      <4>1. t[i] = f[i] /\ i + 1 # 1
        BY <1>1, <1>15, <3>2
      <4>2. t[i + 1] = t[i] \o ss[i + 1]
        BY <1>13, <2>1, <4>1
      <4> QED BY <2>2, <4>1, <4>2
    <3> QED BY <3>1, <3>2
  <2> QED BY <2>1, <2>3
<1> HIDE DEF Agree
<1>16. 0..N \subseteq Agree
  BY <1>1, <1>14, <1>15, UpTo
<1>17. FlattenSeq(ss) = f[N]
  BY <1>1, <1>5, <1>6, <1>8, <1>16 DEF Agree
<1>18. f \in [0..N -> V]
  BY <1>7 DEF Follows
<1> QED BY <1>8, <1>17, <1>18 DEF N, V, Flattens

-------------------------------------------------------------------------------
(* What a list keeps.                                                      *)

(* The kept entries are those of the places, in their order.               *)
Enumerates(s, P, n, kept) ==
  \E e \in [1..Len(kept) -> P \cap (1..n)] :
    /\ \A i, j \in 1..Len(kept) : i < j => e[i] < e[j]
    /\ \A k \in P \cap (1..n) : \E i \in 1..Len(kept) : e[i] = k
    /\ \A i \in 1..Len(kept) : kept[i] = s[e[i]]

LEMMA KeptEnum ==
  ASSUME NEW S, NEW s \in Seq(S), NEW P
  PROVE  Kept(s, P) \in Seq(S) /\ Enumerates(s, P, Len(s), Kept(s, P))
<1>0. PICK t \in [0..Len(s) -> Seq(S)] : Keeps(t, s, P)
  BY KeptIs
<1> DEFINE N == Len(s)
<1>1. /\ t \in [0..N -> Seq(S)] /\ t[0] = <<>>
      /\ \A n \in 1..N : t[n] = IF n \in P THEN Append(t[n - 1], s[n]) ELSE t[n - 1]
      /\ Kept(s, P) = t[N]
  BY <1>0 DEF Keeps
<1>2. N \in Nat /\ \A i \in 1..N : s[i] \in S
  OBVIOUS
<1> HIDE DEF N
<1> DEFINE T == {n \in 0..N : Enumerates(s, P, n, t[n])}
<1>3. 0 \in T
  <2>1. Len(t[0]) = 0 /\ 1..0 = {}
    BY <1>1
  <2> DEFINE e == [i \in 1..0 |-> 0]
  <2>2. e \in [1..0 -> P \cap (1..0)]
    OBVIOUS
  <2>3. Enumerates(s, P, 0, t[0])
    BY <2>1, <2>2 DEF Enumerates
  <2> QED BY <1>2, <2>3
<1>4. ASSUME NEW n \in 0..N, n < N, n \in T PROVE n + 1 \in T
  <2>1. n + 1 \in 1..N /\ n + 1 \in 0..N /\ (n + 1) - 1 = n
    BY <1>2, <1>4
  <2> DEFINE m == Len(t[n])
  <2>2. t[n] \in Seq(S) /\ m \in Nat /\ s[n + 1] \in S
    BY <1>1, <1>2, <2>1
  <2>3. PICK e \in [1..m -> P \cap (1..n)] :
          /\ \A i, j \in 1..m : i < j => e[i] < e[j]
          /\ \A k \in P \cap (1..n) : \E i \in 1..m : e[i] = k
          /\ \A i \in 1..m : t[n][i] = s[e[i]]
    BY <1>4 DEF Enumerates
  <2>4. CASE n + 1 \in P
    <3>1. t[n + 1] = Append(t[n], s[n + 1])
      BY <1>1, <2>1, <2>4
    <3>2. /\ Len(t[n + 1]) = m + 1 /\ t[n + 1][m + 1] = s[n + 1]
          /\ \A i \in 1..m : t[n + 1][i] = t[n][i]
      BY <2>2, <3>1, AppendProperties
    <3> DEFINE d == [i \in 1..m + 1 |-> IF i = m + 1 THEN n + 1 ELSE e[i]]
    <3> HIDE DEF m
    <3>3. ASSUME NEW i \in 1..m PROVE i \in 1..m + 1 /\ d[i] = e[i] /\ e[i] \in P /\ e[i] \in 1..n
      BY <2>2, <2>3
    <3>4. d[m + 1] = n + 1 /\ \A i \in 1..m + 1 : i = m + 1 \/ i \in 1..m
      BY <2>2
    <3>5. d \in [1..m + 1 -> P \cap (1..n + 1)]
      <4>1. \A i \in 1..m + 1 : d[i] \in P \cap (1..n + 1)
        BY <2>1, <2>4, <3>3, <3>4
      <4> QED BY <4>1
    <3> HIDE DEF d
    <3>6. \A i, j \in 1..m + 1 : i < j => d[i] < d[j]
      <4> SUFFICES ASSUME NEW i \in 1..m + 1, NEW j \in 1..m + 1, i < j PROVE d[i] < d[j]
        OBVIOUS
      <4>1. i \in 1..m
        BY <2>2
      <4>2. d[i] = e[i] /\ e[i] \in 1..n
        BY <3>3, <4>1
      <4>3. CASE j = m + 1
        BY <3>4, <4>2, <4>3
      <4>4. CASE j \in 1..m
        BY <2>3, <3>3, <4>1, <4>2, <4>4
      <4> QED BY <3>4, <4>3, <4>4
    <3>7. \A k \in P \cap (1..n + 1) : \E i \in 1..m + 1 : d[i] = k
      <4> SUFFICES ASSUME NEW k \in P \cap (1..n + 1) PROVE \E i \in 1..m + 1 : d[i] = k
        OBVIOUS
      <4>1. CASE k = n + 1
        BY <2>2, <3>4, <4>1
      <4>2. CASE k # n + 1
        <5>1. k \in P \cap (1..n)
          BY <1>4, <4>2
        <5>2. PICK i \in 1..m : e[i] = k
          BY <2>3, <5>1
        <5> QED BY <3>3, <5>2
      <4> QED BY <4>1, <4>2
    <3>8. \A i \in 1..m + 1 : t[n + 1][i] = s[d[i]]
      BY <2>3, <3>2, <3>3, <3>4 DEF m
    <3>9. Enumerates(s, P, n + 1, t[n + 1])
      BY SMTT(30), <3>2, <3>5, <3>6, <3>7, <3>8 DEF Enumerates
    <3> QED BY <2>1, <3>9
  <2>5. CASE n + 1 \notin P
    <3>1. t[n + 1] = t[n]
      BY <1>1, <2>1, <2>5
    <3>2. P \cap (1..n + 1) = P \cap (1..n)
      BY <1>4, <2>5
    <3>3. Enumerates(s, P, n + 1, t[n + 1])
      <4>1. e \in [1..m -> P \cap (1..n + 1)]
        BY <2>3, <3>2
      <4>2. \A k \in P \cap (1..n + 1) : \E i \in 1..m : e[i] = k
        BY <2>3, <3>2
      <4> QED BY <2>3, <3>1, <4>1, <4>2 DEF Enumerates
    <3> QED BY <2>1, <3>3
  <2> QED BY <2>4, <2>5
<1> HIDE DEF T
<1>5. 0..N \subseteq T
  BY <1>2, <1>3, <1>4, UpTo
<1>6. Enumerates(s, P, N, t[N])
  BY <1>2, <1>5 DEF T
<1> QED BY <1>1, <1>2, <1>6 DEF N

(* The first places keep the beginning of the list.                        *)
LEMMA KeptPrefix ==
  ASSUME NEW S, NEW s \in Seq(S), NEW P, NEW m \in 0..Len(s), P \cap (1..Len(s)) = 1..m
  PROVE  Kept(s, P) = SubSeq(s, 1, m)
<1>0. PICK t \in [0..Len(s) -> Seq(S)] : Keeps(t, s, P)
  BY KeptIs
<1> DEFINE N == Len(s)
<1>1. /\ t \in [0..N -> Seq(S)] /\ t[0] = <<>>
      /\ \A n \in 1..N : t[n] = IF n \in P THEN Append(t[n - 1], s[n]) ELSE t[n - 1]
      /\ Kept(s, P) = t[N]
  BY <1>0 DEF Keeps
<1>2. N \in Nat /\ m \in 0..N /\ P \cap (1..N) = 1..m
  OBVIOUS
<1> DEFINE T == {n \in 0..N : t[n] = IF n <= m THEN SubSeq(s, 1, n) ELSE SubSeq(s, 1, m)}
<1>3. 0 \in T
  BY <1>1, SubSeqEmpty
<1>4. ASSUME NEW n \in 0..N, n < N, n \in T PROVE n + 1 \in T
  <2>1. n + 1 \in 1..N /\ n + 1 \in 0..N /\ (n + 1) - 1 = n
    BY <1>2, <1>4
  <2>2. CASE n + 1 <= m
    <3>1. n + 1 \in P
      BY <1>2, <2>1, <2>2
    <3>2. t[n + 1] = Append(t[n], s[n + 1]) /\ t[n] = SubSeq(s, 1, n)
      <4>1. n <= m
        BY <1>2, <2>2
      <4> QED BY <1>1, <1>4, <2>1, <3>1, <4>1
    <3>3. Append(SubSeq(s, 1, n), s[n + 1]) = SubSeq(s, 1, n + 1)
      <4>1. SubSeq(s, 1, n) \in Seq(S) /\ s[n + 1] \in S
        BY <1>2, <1>1, <3>2, <2>1
      <4>2. SubSeq(s, 1, n + 1) = SubSeq(s, 1, n) \o <<s[n + 1]>>
        BY <2>1, SubSeqRecursiveSecond
      <4> QED BY <4>1, <4>2, AppendIsConcat
    <3> QED BY <2>1, <2>2, <3>2, <3>3
  <2>3. CASE ~(n + 1 <= m)
    <3>1. n + 1 \notin P
      BY <1>2, <2>1, <2>3
    <3>2. t[n + 1] = t[n]
      BY <1>1, <2>1, <3>1
    <3>3. t[n] = SubSeq(s, 1, m)
      <4>1. n <= m => n = m
        BY <1>2, <2>3
      <4> QED BY <1>4, <4>1
    <3> QED BY <2>1, <2>3, <3>2, <3>3
  <2> QED BY <2>2, <2>3
<1> HIDE DEF T
<1>5. 0..N \subseteq T
  BY <1>2, <1>3, <1>4, UpTo
<1>6. t[N] = SubSeq(s, 1, m)
  <2>1. N \in T
    BY <1>2, <1>5
  <2> QED BY <1>2, <2>1 DEF T
<1> QED BY <1>1, <1>6

(* What is kept is what stands at the places, and no place counts twice.   *)
LEMMA KeptRange ==
  ASSUME NEW S, NEW s \in Seq(S), NEW P
  PROVE  {Kept(s, P)[i] : i \in 1..Len(Kept(s, P))} = {s[k] : k \in P \cap (1..Len(s))}
<1> DEFINE m == Len(Kept(s, P))
           places == P \cap (1..Len(s))
<1>1. PICK e \in [1..m -> places] :
        /\ \A k \in places : \E i \in 1..m : e[i] = k
        /\ \A a \in 1..m : Kept(s, P)[a] = s[e[a]]
  BY KeptEnum DEF Enumerates
<1> HIDE DEF m, places
<1>2. \A i \in 1..m : e[i] \in places /\ Kept(s, P)[i] = s[e[i]]
  BY <1>1
<1>3. ASSUME NEW k \in places PROVE \E i \in 1..m : Kept(s, P)[i] = s[k]
  BY <1>1
<1>4. {Kept(s, P)[i] : i \in 1..m} = {s[k] : k \in places}
  BY <1>2, <1>3
<1> QED BY <1>4 DEF m, places

LEMMA KeptApart ==
  ASSUME NEW S, NEW s \in Seq(S), NEW P,
         \A j, k \in P \cap (1..Len(s)) : s[j] = s[k] => j = k,
         NEW i \in 1..Len(Kept(s, P)), NEW j \in 1..Len(Kept(s, P)),
         Kept(s, P)[i] = Kept(s, P)[j]
  PROVE  i = j
<1> DEFINE m == Len(Kept(s, P))
<1>1. PICK e \in [1..m -> P \cap (1..Len(s))] :
        /\ \A a, b \in 1..m : a < b => e[a] < e[b]
        /\ \A a \in 1..m : Kept(s, P)[a] = s[e[a]]
  BY KeptEnum DEF Enumerates
<1>2. e[i] \in P \cap (1..Len(s)) /\ e[j] \in P \cap (1..Len(s)) /\ e[i] = e[j]
  BY <1>1
<1>3. e[i] \in Nat /\ i \in Nat /\ j \in Nat
  BY <1>2
<1>4. ~(i < j) /\ ~(j < i)
  BY <1>1, <1>2, <1>3
<1> QED BY <1>3, <1>4

-------------------------------------------------------------------------------
(* Lists that are made longer.                                             *)

(* Two functions that begin alike and go on alike are alike.               *)
GoAlike(f, g, N) == f[0] = g[0] /\ \A i \in 1..N : f[i - 1] = g[i - 1] => f[i] = g[i]

LEMMA Alike ==
  ASSUME NEW N \in Nat, NEW f, NEW g, GoAlike(f, g, N)
  PROVE  \A n \in 0..N : f[n] = g[n]
<1>0. f[0] = g[0] /\ \A i \in 1..N : f[i - 1] = g[i - 1] => f[i] = g[i]
  BY DEF GoAlike
<1> DEFINE T == {i \in 0..N : f[i] = g[i]}
<1>1. 0 \in T
  BY <1>0
<1>2. ASSUME NEW i \in 0..N, i < N, i \in T PROVE i + 1 \in T
  <2>1. i + 1 \in 1..N /\ i + 1 \in 0..N /\ (i + 1) - 1 = i
    BY <1>2
  <2>2. f[(i + 1) - 1] = g[(i + 1) - 1]
    BY <1>2, <2>1
  <2>3. f[i + 1] = g[i + 1]
    BY <1>0, <2>1, <2>2
  <2> QED BY <2>1, <2>3
<1> HIDE DEF T
<1>3. 0..N \subseteq T
  BY <1>1, <1>2, UpTo
<1> QED BY <1>3 DEF T

LEMMA AppendKeeps ==
  ASSUME NEW S, NEW s \in Seq(S), NEW x \in S
  PROVE  /\ Append(s, x) \in Seq(S) /\ Len(Append(s, x)) = Len(s) + 1 /\ Len(s) \in Nat
         /\ \A n \in 1..Len(s) : n \in 1..Len(Append(s, x)) /\ Append(s, x)[n] = s[n]
         /\ Append(s, x)[Len(s) + 1] = x
BY AppendProperties

LEMMA TotalEmpty == Total(<<>>) = 0
<1>1. <<>> \in Seq(Nat) /\ Len(<<>>) = 0
  BY EmptySeq
<1> QED BY <1>1, TotalIs DEF Totals

LEMMA TotalAppend ==
  ASSUME NEW s \in Seq(Nat), NEW x \in Nat
  PROVE  Total(Append(s, x)) = Total(s) + x /\ Total(s) \in Nat
<1> DEFINE N == Len(s)
           z == Append(s, x)
<1>1. z \in Seq(Nat) /\ Len(z) = N + 1 /\ N \in Nat /\ (\A n \in 1..N : z[n] = s[n]) /\ z[N + 1] = x
  BY AppendKeeps
<1>2. PICK t \in [0..Len(s) -> Nat] : Totals(t, s)
  BY TotalIs
<1> HIDE DEF z
<1>3. PICK u \in [0..Len(z) -> Nat] : Totals(u, z)
  BY <1>1, TotalIs
<1>4. u[0] = t[0] /\ \A n \in 1..N : u[n - 1] = t[n - 1] => u[n] = t[n]
  BY <1>1, <1>2, <1>3 DEF Totals
<1>5. u[N] = t[N]
  <2>1. \A n \in 0..N : u[n] = t[n]
    <3> HIDE DEF N
    <3>1. PICK m, f, g : m = N /\ f = u /\ g = t
      OBVIOUS
    <3>2. GoAlike(f, g, m)
      BY <1>4, <3>1 DEF GoAlike
    <3>3. m \in Nat
      BY <1>1, <3>1
    <3>4. \A n \in 0..m : f[n] = g[n]
      BY <3>2, <3>3, Alike
    <3> QED BY <3>1, <3>4
  <2> QED BY <1>1, <2>1
<1>6. N + 1 \in 1..Len(z) /\ (N + 1) - 1 = N
  BY <1>1
<1>7. u[N + 1] = u[N] + x
  BY <1>1, <1>3, <1>6 DEF Totals
<1>8. Total(s) = t[N] /\ t[N] \in Nat /\ Total(z) = u[N + 1]
  BY SMTT(30), <1>1, <1>2, <1>3 DEF Totals
<1> QED BY <1>5, <1>7, <1>8 DEF z

LEMMA FlattenEmpty == FlattenSeq(<<>>) = <<>>
<1>1. <<>> \in Seq(Seq({})) /\ Len(<<>>) = 0
  BY EmptySeq
<1>2. \E t \in [0..Len(<<>>) -> Seq({})] : Flattens(t, <<>>)
  BY <1>1, FlattenIs
<1> QED BY <1>1, <1>2 DEF Flattens

LEMMA FlattenAppend ==
  ASSUME NEW S, NEW ss \in Seq(Seq(S)), NEW x \in Seq(S)
  PROVE  FlattenSeq(Append(ss, x)) = FlattenSeq(ss) \o x /\ FlattenSeq(ss) \in Seq(S)
<1> DEFINE N == Len(ss)
           z == Append(ss, x)
<1>1. z \in Seq(Seq(S)) /\ Len(z) = N + 1 /\ N \in Nat /\ (\A n \in 1..N : z[n] = ss[n]) /\ z[N + 1] = x
  BY AppendKeeps
<1>2. PICK t \in [0..Len(ss) -> Seq(S)] : Flattens(t, ss)
  BY FlattenIs
<1> HIDE DEF z
<1>3. PICK u \in [0..Len(z) -> Seq(S)] : Flattens(u, z)
  BY <1>1, FlattenIs
<1>4. u[0] = t[0] /\ \A n \in 1..N : u[n - 1] = t[n - 1] => u[n] = t[n]
  <2>1. u[0] = <<>> /\ t[0] = <<>>
    BY <1>2, <1>3 DEF Flattens
  <2>2. ASSUME NEW n \in 1..N PROVE u[n] = u[n - 1] \o z[n] /\ t[n] = t[n - 1] \o ss[n] /\ z[n] = ss[n]
    <3>1. n \in 1..Len(z)
      BY <1>1
    <3> QED BY <1>1, <1>2, <1>3, <3>1 DEF Flattens
  <2> QED BY <2>1, <2>2
<1>5. u[N] = t[N]
  <2>1. \A n \in 0..N : u[n] = t[n]
    <3> HIDE DEF N
    <3>1. PICK m, f, g : m = N /\ f = u /\ g = t
      OBVIOUS
    <3>2. GoAlike(f, g, m)
      BY <1>4, <3>1 DEF GoAlike
    <3>3. m \in Nat
      BY <1>1, <3>1
    <3>4. \A n \in 0..m : f[n] = g[n]
      BY <3>2, <3>3, Alike
    <3> QED BY <3>1, <3>4
  <2> QED BY <1>1, <2>1
<1>6. N + 1 \in 1..Len(z) /\ (N + 1) - 1 = N
  BY <1>1
<1>7. u[N + 1] = u[N] \o x
  BY <1>1, <1>3, <1>6 DEF Flattens
<1>8. FlattenSeq(ss) = t[N] /\ t[N] \in Seq(S) /\ FlattenSeq(z) = u[N + 1]
  <2>1. N \in 0..N
    BY <1>1
  <2> QED BY <1>1, <1>2, <1>3, <2>1 DEF Flattens
<1> QED BY <1>5, <1>7, <1>8 DEF z

LEMMA FlattenTyped ==
  ASSUME NEW S, NEW ss \in Seq(Seq(S))
  PROVE  FlattenSeq(ss) \in Seq(S)
<1>1. PICK t \in [0..Len(ss) -> Seq(S)] : Flattens(t, ss)
  BY FlattenIs
<1>2. Len(ss) \in 0..Len(ss)
  OBVIOUS
<1> QED BY <1>1, <1>2 DEF Flattens

LEMMA FlattenOne ==
  ASSUME NEW S, NEW x \in Seq(S)
  PROVE  FlattenSeq(<<x>>) = x
<1>1. <<>> \in Seq(Seq(S)) /\ Append(<<>>, x) = <<x>> /\ <<>> \o x = x
  BY EmptySeq, ConcatEmptySeq
<1> QED BY <1>1, FlattenAppend, FlattenEmpty

LEMMA FlattenConcat ==
  ASSUME NEW S, NEW ss \in Seq(Seq(S)), NEW tt \in Seq(Seq(S))
  PROVE  FlattenSeq(ss \o tt) = FlattenSeq(ss) \o FlattenSeq(tt)
<1> DEFINE T == {n \in 0..Len(tt) :
                   FlattenSeq(ss \o SubSeq(tt, 1, n)) = FlattenSeq(ss) \o FlattenSeq(SubSeq(tt, 1, n))}
<1>1. Len(tt) \in Nat /\ FlattenSeq(ss) \in Seq(S)
  BY FlattenTyped
<1>2. 0 \in T
  <2>1. SubSeq(tt, 1, 0) = <<>> /\ ss \o <<>> = ss
    BY SubSeqEmpty, ConcatEmptySeq
  <2>2. FlattenSeq(ss) \o <<>> = FlattenSeq(ss)
    BY <1>1, ConcatEmptySeq
  <2>3. FlattenSeq(ss \o SubSeq(tt, 1, 0)) = FlattenSeq(ss) \o FlattenSeq(SubSeq(tt, 1, 0))
    BY <2>1, <2>2, FlattenEmpty
  <2> QED BY <1>1, <2>3
<1>3. ASSUME NEW n \in 0..Len(tt), n < Len(tt), n \in T PROVE n + 1 \in T
  <2>1. n + 1 \in 1..Len(tt) /\ n + 1 \in 0..Len(tt) /\ (n + 1) - 1 = n /\ 1 \in 1..Len(tt)
        /\ n + 1 \in 1..Len(tt)
    BY <1>1, <1>3
  <2> DEFINE u == SubSeq(tt, 1, n)
  <2>2. u \in Seq(Seq(S)) /\ tt[n + 1] \in Seq(S)
    <3>1. \A i \in 1..n : tt[i] \in Seq(S)
      BY <1>1, <2>1
    <3> QED BY <2>1, <3>1, SubSeqProperties
  <2>3. SubSeq(tt, 1, n + 1) = Append(u, tt[n + 1])
    <3>1. SubSeq(tt, 1, n + 1) = u \o <<tt[n + 1]>>
      BY <2>1, SubSeqRecursiveSecond
    <3> HIDE DEF u
    <3> QED BY <2>2, <3>1, AppendIsConcat
  <2>4. FlattenSeq(ss \o u) = FlattenSeq(ss) \o FlattenSeq(u)
    BY <1>3
  <2> HIDE DEF u
  <2>5. ss \o Append(u, tt[n + 1]) = Append(ss \o u, tt[n + 1]) /\ ss \o u \in Seq(Seq(S))
    <3>1. ss \o u \in Seq(Seq(S)) /\ <<tt[n + 1]>> \in Seq(Seq(S))
      BY <2>2, ConcatProperties
    <3>2. Append(u, tt[n + 1]) = u \o <<tt[n + 1]>>
      BY <2>2, AppendIsConcat
    <3>3. Append(ss \o u, tt[n + 1]) = (ss \o u) \o <<tt[n + 1]>>
      BY <2>2, <3>1, AppendIsConcat
    <3> QED BY SMTT(30), <2>2, <3>1, <3>2, <3>3, ConcatAssociative
  <2>6. FlattenSeq(Append(ss \o u, tt[n + 1])) = FlattenSeq(ss \o u) \o tt[n + 1]
    BY <2>2, <2>5, FlattenAppend
  <2>7. FlattenSeq(Append(u, tt[n + 1])) = FlattenSeq(u) \o tt[n + 1] /\ FlattenSeq(u) \in Seq(S)
    BY <2>2, FlattenAppend
  <2>8. (FlattenSeq(ss) \o FlattenSeq(u)) \o tt[n + 1] = FlattenSeq(ss) \o (FlattenSeq(u) \o tt[n + 1])
    <3>1. FlattenSeq(ss) \in Seq(S) /\ FlattenSeq(u) \in Seq(S) /\ tt[n + 1] \in Seq(S)
      BY <1>1, <2>2, <2>7
    <3>2. PICK a \in Seq(S), b \in Seq(S), c \in Seq(S) :
            a = FlattenSeq(ss) /\ b = FlattenSeq(u) /\ c = tt[n + 1]
      BY <3>1
    <3>3. (a \o b) \o c = a \o (b \o c)
      BY SMTT(30), ConcatAssociative
    <3> QED BY <3>2, <3>3
  <2>9. FlattenSeq(ss \o SubSeq(tt, 1, n + 1)) = FlattenSeq(ss) \o FlattenSeq(SubSeq(tt, 1, n + 1))
    BY <2>3, <2>4, <2>5, <2>6, <2>7, <2>8
  <2> QED BY <2>1, <2>9
<1> HIDE DEF T
<1>4. 0..Len(tt) \subseteq T
  BY <1>1, <1>2, <1>3, UpTo
<1>5. Len(tt) \in T
  BY <1>1, <1>4
<1> QED BY <1>5, SubSeqFull DEF T

(* Where the lists come to lie in their concatenation.                     *)
Starts(starts, ss) ==
  /\ \A p \in 0..Len(ss) : starts[p] \in Nat
  /\ \A p \in 1..Len(ss) : starts[p] = starts[p - 1] + Len(ss[p])
  /\ \A p, q \in 0..Len(ss) : p <= q => starts[p] <= starts[q]
  /\ starts[Len(ss)] = Len(FlattenSeq(ss))
  /\ \A p \in 1..Len(ss) : \A k \in 1..Len(ss[p]) : FlattenSeq(ss)[starts[p - 1] + k] = ss[p][k]
  /\ \A i \in 1..Len(FlattenSeq(ss)) :
       \E p \in 1..Len(ss) : \E k \in 1..Len(ss[p]) : i = starts[p - 1] + k

LEMMA FlattenPlaces ==
  ASSUME NEW S, NEW ss \in Seq(Seq(S))
  PROVE  \E starts : Starts(starts, ss)
<1>16. PICK t \in [0..Len(ss) -> Seq(S)] : Flattens(t, ss)
  BY FlattenIs
<1> DEFINE N == Len(ss)
           Good(n) == /\ \A p \in 0..n : Len(t[p]) <= Len(t[n])
                      /\ \A p \in 1..n : \A k \in 1..Len(ss[p]) : t[n][Len(t[p - 1]) + k] = ss[p][k]
                      /\ \A i \in 1..Len(t[n]) :
                           \E p \in 1..n : \E k \in 1..Len(ss[p]) : i = Len(t[p - 1]) + k
           T == {n \in 0..N : Good(n)}
<1>1. N \in Nat /\ \A n \in 1..N : ss[n] \in Seq(S) /\ Len(ss[n]) \in Nat
  OBVIOUS
<1>1a. t[0] = <<>> /\ FlattenSeq(ss) = t[N] /\ \A n \in 1..N : t[n] = t[n - 1] \o ss[n]
  <2> HIDE DEF Good, T
  <2> QED BY <1>16 DEF Flattens
<1>1b. \A n \in 0..N : t[n] \in Seq(S) /\ Len(t[n]) \in Nat
  <2> HIDE DEF Good, T
  <2> QED OBVIOUS
<1>2. t[0] = <<>> /\ FlattenSeq(ss) = t[N] /\ (\A n \in 1..N : t[n] = t[n - 1] \o ss[n])
      /\ \A n \in 0..N : t[n] \in Seq(S) /\ Len(t[n]) \in Nat
  BY <1>1a, <1>1b
<1> HIDE DEF N
<1>3. ASSUME NEW p \in 1..N
      PROVE  /\ p - 1 \in 0..N /\ p \in 0..N
             /\ Len(t[p]) = Len(t[p - 1]) + Len(ss[p])
             /\ \A i \in 1..Len(t[p - 1]) : t[p][i] = t[p - 1][i]
             /\ \A k \in 1..Len(ss[p]) : t[p][Len(t[p - 1]) + k] = ss[p][k]
  <2>1. p - 1 \in 0..N /\ p \in 0..N
    BY <1>1
  <2>2. PICK a, b : a = t[p - 1] /\ b = ss[p]
    OBVIOUS
  <2>3. a \in Seq(S) /\ b \in Seq(S) /\ t[p] = a \o b /\ Len(a) \in Nat /\ Len(b) \in Nat
    BY <1>1, <1>2, <2>1, <2>2
  <2>4. Len(a \o b) = Len(a) + Len(b) /\ \A i \in 1..Len(a) + Len(b) :
          (a \o b)[i] = IF i <= Len(a) THEN a[i] ELSE b[i - Len(a)]
    BY <2>3, ConcatProperties
  <2>5. \A i \in 1..Len(a) : (a \o b)[i] = a[i]
    BY <2>3, <2>4
  <2>6. ASSUME NEW k \in 1..Len(b) PROVE (a \o b)[Len(a) + k] = b[k]
    <3>1. Len(a) + k \in 1..Len(a) + Len(b) /\ ~(Len(a) + k <= Len(a)) /\ (Len(a) + k) - Len(a) = k
      BY <2>3
    <3> QED BY <2>4, <3>1
  <2> QED BY <2>1, <2>2, <2>3, <2>4, <2>5, <2>6
<1>4. Good(0)
  BY <1>2
<1>5. ASSUME NEW n \in 0..N, n < N, Good(n) PROVE Good(n + 1)
  <2>1. n + 1 \in 1..N /\ n + 1 \in 0..N /\ (n + 1) - 1 = n
    BY <1>1, <1>5
  <2>2. PICK m : m = n + 1
    OBVIOUS
  <2>3. /\ Len(t[m]) = Len(t[n]) + Len(ss[m])
        /\ \A i \in 1..Len(t[n]) : t[m][i] = t[n][i]
        /\ \A k \in 1..Len(ss[m]) : t[m][Len(t[n]) + k] = ss[m][k]
    <3>1. m \in 1..N /\ m - 1 = n
      BY <2>1, <2>2
    <3>2. /\ Len(t[m]) = Len(t[m - 1]) + Len(ss[m])
          /\ \A i \in 1..Len(t[m - 1]) : t[m][i] = t[m - 1][i]
          /\ \A k \in 1..Len(ss[m]) : t[m][Len(t[m - 1]) + k] = ss[m][k]
      BY <1>3, <3>1
    <3> QED BY <3>1, <3>2
  <2>4. Len(t[n]) \in Nat /\ Len(ss[m]) \in Nat /\ Len(t[m]) \in Nat
    BY <1>1, <1>2, <2>1, <2>2
  <2>5. ASSUME NEW p \in 0..m PROVE Len(t[p]) <= Len(t[m])
    <3>1. p \in 0..n \/ p = m
      BY <2>2
    <3>2. p \in 0..n => Len(t[p]) <= Len(t[n]) /\ Len(t[p]) \in Nat
      <4>1. p \in 0..n => p \in 0..N
        BY <1>1
      <4> QED BY <1>2, <1>5, <4>1
    <3>3. PICK a, b, c, d : a = Len(t[p]) /\ b = Len(t[n]) /\ c = Len(ss[m]) /\ d = Len(t[m])
      OBVIOUS
    <3>4. d = b + c /\ b \in Nat /\ c \in Nat /\ (p \in 0..n => a <= b /\ a \in Nat)
      BY <2>3, <2>4, <3>2, <3>3
    <3>5. p \in 0..n => a <= d
      BY <3>4
    <3> QED BY <2>4, <3>1, <3>3, <3>5
  <2>6. ASSUME NEW p \in 1..m, NEW k \in 1..Len(ss[p]) PROVE t[m][Len(t[p - 1]) + k] = ss[p][k]
    <3>1. CASE p = m
      BY <2>1, <2>2, <2>3, <2>6, <3>1
    <3>2. CASE p # m
      <4>1. p \in 1..n /\ p \in 1..N /\ p \in 0..n
        BY <1>1, <2>2, <3>2
      <4>2. t[n][Len(t[p - 1]) + k] = ss[p][k]
        BY <1>5, <2>6, <4>1
      <4>3. Len(t[p]) = Len(t[p - 1]) + Len(ss[p]) /\ p - 1 \in 0..N /\ Len(t[p]) <= Len(t[n])
        BY <1>3, <1>5, <4>1
      <4>4. Len(t[p - 1]) + k \in 1..Len(t[n])
        <5>1. PICK a, b, c, d : a = Len(t[p - 1]) /\ b = Len(t[n]) /\ c = Len(ss[p]) /\ d = Len(t[p])
          OBVIOUS
        <5>2. d = a + c /\ a \in Nat /\ c \in Nat /\ d <= b /\ b \in Nat /\ k \in 1..c
          BY <1>1, <1>2, <2>4, <2>6, <4>1, <4>3, <5>1
        <5>3. a + k \in 1..b
          BY <5>2
        <5> QED BY <5>1, <5>3
      <4> QED BY <2>3, <4>2, <4>4
    <3> QED BY <3>1, <3>2
  <2>7. ASSUME NEW i \in 1..Len(t[m])
        PROVE  \E p \in 1..m : \E k \in 1..Len(ss[p]) : i = Len(t[p - 1]) + k
    <3>1. CASE i <= Len(t[n])
      <4>1. i \in 1..Len(t[n])
        BY <2>4, <3>1
      <4>2. PICK p \in 1..n : \E k \in 1..Len(ss[p]) : i = Len(t[p - 1]) + k
        BY <1>5, <4>1
      <4>3. p \in 1..m
        BY <2>2
      <4> QED BY <4>2, <4>3
    <3>2. CASE ~(i <= Len(t[n]))
      <4>1. i - Len(t[n]) \in 1..Len(ss[m]) /\ i = Len(t[n]) + (i - Len(t[n]))
        <5>1. PICK b, c, d : b = Len(t[n]) /\ c = Len(ss[m]) /\ d = Len(t[m])
          OBVIOUS
        <5>2. d = b + c /\ b \in Nat /\ c \in Nat /\ i \in 1..d /\ ~(i <= b)
          BY <2>3, <2>4, <2>7, <3>2, <5>1
        <5>3. i - b \in 1..c /\ i = b + (i - b)
          BY <5>2
        <5> QED BY <5>1, <5>3
      <4>2. m \in 1..m /\ m - 1 = n
        BY <2>1, <2>2
      <4> QED BY <4>1, <4>2
    <3> QED BY <3>1, <3>2
  <2>8. Good(m)
    BY <2>5, <2>6, <2>7
  <2> HIDE DEF Good
  <2> QED BY <2>2, <2>8
<1>6. 0 \in T
  BY <1>1, <1>4
<1>7. ASSUME NEW n \in 0..N, n < N, n \in T PROVE n + 1 \in T
  <2>1. n + 1 \in 0..N
    BY <1>1, <1>7
  <2> HIDE DEF Good
  <2> QED BY <1>5, <1>7, <2>1
<1> HIDE DEF T
<1>8. 0..N \subseteq T
  BY <1>1, <1>6, <1>7, UpTo
<1>9. \A n \in 0..N : Good(n)
  BY <1>8 DEF T
<1>10. \A p, q \in 0..N : p <= q => Len(t[p]) <= Len(t[q])
  <2> SUFFICES ASSUME NEW p \in 0..N, NEW q \in 0..N, p <= q PROVE Len(t[p]) <= Len(t[q])
    OBVIOUS
  <2>1. p \in 0..q
    BY <1>1
  <2> QED BY <1>9, <2>1
<1>11. N \in 0..N
  BY <1>1
<1> DEFINE z == t[N]
<1>12. Good(N)
  BY <1>9, <1>11
<1>13. /\ \A p \in 1..N : \A k \in 1..Len(ss[p]) : z[Len(t[p - 1]) + k] = ss[p][k]
       /\ \A i \in 1..Len(z) : \E p \in 1..N : \E k \in 1..Len(ss[p]) : i = Len(t[p - 1]) + k
  BY <1>12
<1>14. FlattenSeq(ss) = z
  BY <1>2
<1>15. \A p \in 1..N : Len(t[p]) = Len(t[p - 1]) + Len(ss[p])
  BY <1>3
<1> HIDE DEF z, Good
<1>17. PICK starts : starts = [p \in 0..N |-> Len(t[p])]
  OBVIOUS
<1>18. \A p \in 0..N : starts[p] = Len(t[p]) /\ starts[p] \in Nat
  BY <1>2, <1>17
<1>19. \A p \in 1..N : p \in 0..N /\ p - 1 \in 0..N
  BY <1>3
<1>20. starts[N] = Len(z)
  BY <1>11, <1>18 DEF z
<1>21. \A p \in 1..N : starts[p] = starts[p - 1] + Len(ss[p])
  BY <1>15, <1>18, <1>19
<1>22. \A p, q \in 0..N : p <= q => starts[p] <= starts[q]
  BY <1>10, <1>18
<1>23. \A p \in 1..N : \A k \in 1..Len(ss[p]) : z[starts[p - 1] + k] = ss[p][k]
  BY <1>13, <1>18, <1>19
<1>24. \A i \in 1..Len(z) : \E p \in 1..N : \E k \in 1..Len(ss[p]) : i = starts[p - 1] + k
  BY <1>13, <1>18, <1>19
<1> HIDE DEF N
<1>25. Starts(starts, ss)
  BY <1>14, <1>18, <1>20, <1>21, <1>22, <1>23, <1>24 DEF Starts, N
<1> QED BY <1>25

(* Every list comes of the empty list by appending.                        *)
LEMMA ListsUpTo ==
  ASSUME NEW S, NEW T, <<>> \in T, \A s \in Seq(S) : \A x \in S : s \in T => Append(s, x) \in T
  PROVE  Seq(S) \subseteq T
<1> SUFFICES ASSUME NEW s \in Seq(S) PROVE s \in T
  OBVIOUS
<1> DEFINE U == {n \in 0..Len(s) : SubSeq(s, 1, n) \in T}
<1>1. Len(s) \in Nat
  OBVIOUS
<1>2. 0 \in U
  <2>1. SubSeq(s, 1, 0) = <<>>
    BY SubSeqEmpty
  <2>2. SubSeq(s, 1, 0) \in T
    BY <2>1
  <2> QED BY <1>1, <2>2
<1>3. ASSUME NEW n \in 0..Len(s), n < Len(s), n \in U PROVE n + 1 \in U
  <2>1. n + 1 \in 1..Len(s) /\ n + 1 \in 0..Len(s) /\ (n + 1) - 1 = n /\ 1 \in 1..Len(s)
    BY <1>1, <1>3
  <2> DEFINE u == SubSeq(s, 1, n)
  <2>2. u \in Seq(S) /\ s[n + 1] \in S
    <3>1. \A i \in 1..n : s[i] \in S
      BY <1>1, <2>1
    <3> QED BY <2>1, <3>1, SubSeqProperties
  <2>3. SubSeq(s, 1, n + 1) = Append(u, s[n + 1])
    <3>1. SubSeq(s, 1, n + 1) = u \o <<s[n + 1]>>
      BY <2>1, SubSeqRecursiveSecond
    <3> HIDE DEF u
    <3> QED BY <2>2, <3>1, AppendIsConcat
  <2>4. u \in T
    BY <1>3
  <2> HIDE DEF u
  <2>5. SubSeq(s, 1, n + 1) \in T
    BY <2>2, <2>3, <2>4
  <2> QED BY <2>1, <2>5
<1> HIDE DEF U
<1>4. 0..Len(s) \subseteq U
  BY <1>1, <1>2, <1>3, UpTo
<1>5. Len(s) \in U
  BY <1>1, <1>4
<1> QED BY ZenonT(30), <1>5, SubSeqFull DEF U

-------------------------------------------------------------------------------
(* What f makes of the entries of a list, one by one, and run together.    *)

Maps(f, S, V) == f \in [S -> V]

Applied(f, s) == [i \in DOMAIN s |-> f[s[i]]]

Spread(f, s) == FlattenSeq(Applied(f, s))

LEMMA AppliedIs ==
  ASSUME NEW S, NEW V, NEW f, Maps(f, S, V), NEW s \in Seq(S)
  PROVE  /\ Applied(f, s) \in Seq(V) /\ Len(Applied(f, s)) = Len(s) /\ Len(s) \in Nat
         /\ \A i \in 1..Len(s) : Applied(f, s)[i] = f[s[i]] /\ s[i] \in S
<1>1. DOMAIN s = 1..Len(s) /\ Len(s) \in Nat /\ \A i \in 1..Len(s) : s[i] \in S
  OBVIOUS
<1>2. \A i \in 1..Len(s) : f[s[i]] \in V
  BY <1>1 DEF Maps
<1>3. [i \in 1..Len(s) |-> f[s[i]]] \in Seq(V)
  BY <1>1, <1>2, IsASeq
<1> QED BY <1>1, <1>3 DEF Applied

LEMMA AppliedConcat ==
  ASSUME NEW S, NEW V, NEW f, Maps(f, S, V), NEW s \in Seq(S), NEW t \in Seq(S)
  PROVE  Applied(f, s \o t) = Applied(f, s) \o Applied(f, t)
<1> DEFINE a == Applied(f, s)
           b == Applied(f, t)
           c == Applied(f, s \o t)
           m == Len(s)
           n == Len(t)
<1>1. /\ s \o t \in Seq(S) /\ Len(s \o t) = m + n
      /\ \A i \in 1..m + n : (s \o t)[i] = IF i <= m THEN s[i] ELSE t[i - m]
  BY ConcatProperties
<1>2. a \in Seq(V) /\ Len(a) = m /\ m \in Nat /\ \A i \in 1..m : a[i] = f[s[i]] /\ s[i] \in S
  BY AppliedIs
<1>3. b \in Seq(V) /\ Len(b) = n /\ n \in Nat /\ \A i \in 1..n : b[i] = f[t[i]] /\ t[i] \in S
  BY AppliedIs
<1>4. c \in Seq(V) /\ Len(c) = m + n /\ \A i \in 1..m + n : c[i] = f[(s \o t)[i]]
  <2>1. PICK z \in Seq(S) : z = s \o t
    BY <1>1
  <2>2. /\ Applied(f, z) \in Seq(V) /\ Len(Applied(f, z)) = Len(z)
        /\ \A i \in 1..Len(z) : Applied(f, z)[i] = f[z[i]] /\ z[i] \in S
    BY AppliedIs
  <2> QED BY <1>1, <2>1, <2>2
<1> HIDE DEF a, b, c, m, n
<1>5. /\ a \o b \in Seq(V) /\ Len(a \o b) = m + n
      /\ \A i \in 1..m + n : (a \o b)[i] = IF i <= m THEN a[i] ELSE b[i - m]
  <2>1. /\ a \o b \in Seq(V) /\ Len(a \o b) = Len(a) + Len(b)
        /\ \A i \in 1..Len(a) + Len(b) :
             (a \o b)[i] = IF i <= Len(a) THEN a[i] ELSE b[i - Len(a)]
    BY <1>2, <1>3, ConcatProperties
  <2> QED BY <1>2, <1>3, <2>1
<1>6. ASSUME NEW i \in 1..m + n PROVE c[i] = (a \o b)[i]
  <2>1. CASE i <= m
    <3>1. i \in 1..m
      BY <1>2, <1>3, <2>1
    <3>2. c[i] = f[(s \o t)[i]] /\ (s \o t)[i] = s[i] /\ (a \o b)[i] = a[i]
      BY <1>1, <1>4, <1>5, <2>1
    <3>3. a[i] = f[s[i]]
      BY <1>2, <3>1
    <3> QED BY <3>2, <3>3
  <2>2. CASE ~(i <= m)
    <3>1. i - m \in 1..n
      BY <1>2, <1>3, <2>2
    <3>2. c[i] = f[(s \o t)[i]] /\ (s \o t)[i] = t[i - m] /\ (a \o b)[i] = b[i - m]
      BY <1>1, <1>4, <1>5, <2>2
    <3>3. b[i - m] = f[t[i - m]]
      BY <1>3, <3>1
    <3> QED BY <3>2, <3>3
  <2> QED BY <2>1, <2>2
<1>7. c = a \o b
  BY <1>4, <1>5, <1>6, SeqEqual
<1> QED BY <1>7 DEF a, b, c

LEMMA AppliedOne ==
  ASSUME NEW S, NEW V, NEW f, Maps(f, S, V), NEW x \in S
  PROVE  Applied(f, <<x>>) = <<f[x]>>
<1>1. <<x>> \in Seq(S) /\ Len(<<x>>) = 1 /\ <<x>>[1] = x /\ f[x] \in V
  BY DEF Maps
<1>2. Applied(f, <<x>>) \in Seq(V) /\ Len(Applied(f, <<x>>)) = 1 /\ Applied(f, <<x>>)[1] = f[x]
  <2>1. PICK z \in Seq(S) : z = <<x>>
    BY <1>1
  <2>2. /\ Applied(f, z) \in Seq(V) /\ Len(Applied(f, z)) = Len(z)
        /\ \A i \in 1..Len(z) : Applied(f, z)[i] = f[z[i]] /\ z[i] \in S
    BY AppliedIs
  <2> QED BY <1>1, <2>1, <2>2
<1>3. <<f[x]>> \in Seq(V) /\ Len(<<f[x]>>) = 1 /\ <<f[x]>>[1] = f[x]
  BY <1>1
<1>4. \A i \in 1..1 : Applied(f, <<x>>)[i] = <<f[x]>>[i]
  BY <1>1, <1>2, <1>3
<1> QED BY <1>2, <1>3, <1>4, SeqEqual

LEMMA SpreadEmpty ==
  ASSUME NEW f
  PROVE  Spread(f, <<>>) = <<>>
<1>1. Applied(f, <<>>) = <<>>
  BY DEF Applied
<1> QED BY <1>1, FlattenEmpty DEF Spread

LEMMA SpreadTyped ==
  ASSUME NEW S, NEW V, NEW f, Maps(f, S, Seq(V)), NEW s \in Seq(S)
  PROVE  Spread(f, s) \in Seq(V)
<1>1. Applied(f, s) \in Seq(Seq(V))
  BY AppliedIs
<1> QED BY <1>1, FlattenTyped DEF Spread

LEMMA SpreadConcat ==
  ASSUME NEW S, NEW V, NEW f, Maps(f, S, Seq(V)), NEW s \in Seq(S), NEW t \in Seq(S)
  PROVE  Spread(f, s \o t) = Spread(f, s) \o Spread(f, t)
<1>1. Applied(f, s) \in Seq(Seq(V)) /\ Applied(f, t) \in Seq(Seq(V))
  BY AppliedIs
<1>2. Applied(f, s \o t) = Applied(f, s) \o Applied(f, t)
  BY AppliedConcat
<1> QED BY <1>1, <1>2, FlattenConcat DEF Spread

LEMMA SpreadOne ==
  ASSUME NEW S, NEW V, NEW f, Maps(f, S, Seq(V)), NEW x \in S
  PROVE  Spread(f, <<x>>) = f[x]
<1>1. Applied(f, <<x>>) = <<f[x]>>
  BY AppliedOne
<1>2. f[x] \in Seq(V)
  BY DEF Maps
<1> QED BY <1>1, <1>2, FlattenOne DEF Spread

LEMMA SpreadAppend ==
  ASSUME NEW S, NEW V, NEW f, Maps(f, S, Seq(V)), NEW s \in Seq(S), NEW x \in S
  PROVE  Spread(f, Append(s, x)) = Spread(f, s) \o f[x]
<1>0. <<x>> \in Seq(S)
  OBVIOUS
<1>1. PICK z \in Seq(S) : z = <<x>>
  BY <1>0
<1>2. Append(s, x) = s \o z
  BY <1>1, AppendIsConcat
<1>3. Spread(f, s \o z) = Spread(f, s) \o Spread(f, z)
  BY SpreadConcat
<1>4. Spread(f, <<x>>) = f[x]
  BY SpreadOne
<1> QED BY <1>1, <1>2, <1>3, <1>4

(* Of lists run together: what f makes of each, run together.              *)
LEMMA SpreadFlatten ==
  ASSUME NEW S, NEW V, NEW f, Maps(f, S, Seq(V)), NEW ss \in Seq(Seq(S))
  PROVE  Spread(f, FlattenSeq(ss)) = FlattenSeq([i \in DOMAIN ss |-> Spread(f, ss[i])])
<1> DEFINE g == [s \in Seq(S) |-> Spread(f, s)]
           T == {zz \in Seq(Seq(S)) : Spread(f, FlattenSeq(zz)) = Spread(g, zz)}
<1>1. Maps(g, Seq(S), Seq(V))
  BY SpreadTyped DEF Maps
<1>2. \A s \in Seq(S) : g[s] = Spread(f, s)
  OBVIOUS
<1> HIDE DEF g
<1>3. <<>> \in T
  <2>1. <<>> \in Seq(Seq(S))
    BY EmptySeq
  <2>2. Spread(f, FlattenSeq(<<>>)) = <<>> /\ Spread(g, <<>>) = <<>>
    BY FlattenEmpty, SpreadEmpty
  <2> QED BY <2>1, <2>2
<1>4. ASSUME NEW zz \in Seq(Seq(S)), NEW x \in Seq(S), zz \in T PROVE Append(zz, x) \in T
  <2>1. Append(zz, x) \in Seq(Seq(S))
    BY AppendProperties
  <2>2. FlattenSeq(Append(zz, x)) = FlattenSeq(zz) \o x /\ FlattenSeq(zz) \in Seq(S)
    BY FlattenAppend
  <2>3. Spread(f, FlattenSeq(zz) \o x) = Spread(f, FlattenSeq(zz)) \o Spread(f, x)
    BY <2>2, SpreadConcat
  <2>4. Spread(g, Append(zz, x)) = Spread(g, zz) \o g[x]
    BY <1>1, SpreadAppend
  <2>5. Spread(f, FlattenSeq(zz)) = Spread(g, zz)
    BY <1>4
  <2>6. Spread(f, FlattenSeq(Append(zz, x))) = Spread(g, Append(zz, x))
    BY <1>2, <2>2, <2>3, <2>4, <2>5
  <2> QED BY <2>1, <2>6
<1>5. Seq(Seq(S)) \subseteq T
  <2> HIDE DEF T
  <2> QED BY <1>3, <1>4, ListsUpTo
<1>6. Spread(f, FlattenSeq(ss)) = Spread(g, ss)
  BY <1>5
<1>7. Applied(g, ss) = [i \in DOMAIN ss |-> Spread(f, ss[i])]
  <2>1. \A i \in DOMAIN ss : ss[i] \in Seq(S)
    OBVIOUS
  <2>2. \A i \in DOMAIN ss : g[ss[i]] = Spread(f, ss[i])
    BY <1>2, <2>1
  <2> QED BY <2>2 DEF Applied
<1> QED BY <1>6, <1>7 DEF Spread

(* Lists of one entry run together are their entries.                      *)
LEMMA FlattenSingles ==
  ASSUME NEW S, NEW s \in Seq(S)
  PROVE  FlattenSeq([i \in DOMAIN s |-> <<s[i]>>]) = s
<1> DEFINE g == [x \in S |-> <<x>>]
           T == {z \in Seq(S) : Spread(g, z) = z}
<1>1. Maps(g, S, Seq(S)) /\ \A x \in S : g[x] = <<x>>
  BY DEF Maps
<1> HIDE DEF g
<1>2. <<>> \in T
  BY EmptySeq, SpreadEmpty
<1>3. ASSUME NEW z \in Seq(S), NEW x \in S, z \in T PROVE Append(z, x) \in T
  <2>1. Append(z, x) \in Seq(S) /\ Append(z, x) = z \o <<x>>
    BY AppendProperties, AppendIsConcat
  <2>2. Spread(g, Append(z, x)) = Spread(g, z) \o g[x]
    BY <1>1, SpreadAppend
  <2> QED BY <1>1, <1>3, <2>1, <2>2
<1>4. Seq(S) \subseteq T
  <2> HIDE DEF T
  <2> QED BY <1>2, <1>3, ListsUpTo
<1>5. Applied(g, s) = [i \in DOMAIN s |-> <<s[i]>>]
  <2>1. \A i \in DOMAIN s : s[i] \in S
    OBVIOUS
  <2> QED BY <1>1, <2>1 DEF Applied
<1> QED BY <1>4, <1>5 DEF Spread

(* When only one of the lists has entries, it is all there is.             *)
LEMMA FlattenOnly ==
  ASSUME NEW S, NEW ss \in Seq(Seq(S)), NEW p \in 1..Len(ss),
         \A q \in 1..Len(ss) : q # p => ss[q] = <<>>
  PROVE  FlattenSeq(ss) = ss[p]
<1>1. PICK t \in [0..Len(ss) -> Seq(S)] : Flattens(t, ss)
  BY FlattenIs
<1> DEFINE N == Len(ss)
           T == {n \in 0..N : t[n] = IF n < p THEN <<>> ELSE ss[p]}
<1>2. N \in Nat /\ p \in 1..N /\ ss[p] \in Seq(S)
  OBVIOUS
<1>3. t[0] = <<>> /\ FlattenSeq(ss) = t[N] /\ \A n \in 1..N : t[n] = t[n - 1] \o ss[n]
  BY <1>1 DEF Flattens
<1>4. \A n \in 1..N : n # p => ss[n] = <<>>
  OBVIOUS
<1> HIDE DEF N
<1>5. 0 \in T
  BY <1>2, <1>3
<1>6. ASSUME NEW n \in 0..N, n < N, n \in T PROVE n + 1 \in T
  <2>1. n + 1 \in 1..N /\ n + 1 \in 0..N /\ (n + 1) - 1 = n
    BY <1>2, <1>6
  <2>2. t[n + 1] = t[n] \o ss[n + 1]
    BY <1>3, <2>1
  <2>3. CASE n + 1 < p
    <3>1. ss[n + 1] = <<>> /\ t[n] = <<>>
      BY <1>2, <1>4, <1>6, <2>1, <2>3
    <3>2. <<>> \o <<>> = <<>>
      OBVIOUS
    <3> QED BY <2>1, <2>2, <2>3, <3>1, <3>2
  <2>4. CASE n + 1 = p
    <3>1. t[n] = <<>> /\ ~(n + 1 < p)
      BY <1>2, <1>6, <2>4
    <3>2. <<>> \o ss[p] = ss[p]
      BY <1>2, ConcatEmptySeq
    <3> QED BY <2>1, <2>2, <2>4, <3>1, <3>2
  <2>5. CASE p < n + 1
    <3>1. ss[n + 1] = <<>> /\ t[n] = ss[p] /\ ~(n + 1 < p)
      BY <1>2, <1>4, <1>6, <2>1, <2>5
    <3>2. ss[p] \o <<>> = ss[p]
      BY <1>2, ConcatEmptySeq
    <3> QED BY <2>1, <2>2, <3>1, <3>2
  <2> QED BY <1>2, <2>3, <2>4, <2>5
<1> HIDE DEF T
<1>7. 0..N \subseteq T
  BY <1>2, <1>5, <1>6, UpTo
<1>8. t[N] = ss[p]
  <2>1. N \in T /\ ~(N < p)
    BY <1>2, <1>7
  <2> QED BY <2>1 DEF T
<1> QED BY <1>3, <1>8

(* Of lists that are all empty nothing is left, of one that is not something. *)
LEMMA FlattenNone ==
  ASSUME NEW S, NEW ss \in Seq(Seq(S)), \A q \in 1..Len(ss) : ss[q] = <<>>
  PROVE  FlattenSeq(ss) = <<>>
<1>1. CASE ss = <<>>
  BY <1>1, FlattenEmpty
<1>2. CASE ss # <<>>
  <2>1. Len(ss) \in Nat /\ Len(ss) # 0
    BY <1>2, EmptySeq
  <2>2. 1 \in 1..Len(ss)
    BY <2>1
  <2>3. FlattenSeq(ss) = ss[1]
    BY <2>2, FlattenOnly
  <2> QED BY <2>2, <2>3
<1> QED BY <1>1, <1>2

LEMMA FlattenSome ==
  ASSUME NEW S, NEW ss \in Seq(Seq(S)), NEW p \in 1..Len(ss), ss[p] # <<>>
  PROVE  FlattenSeq(ss) # <<>>
<1>1. PICK starts : Starts(starts, ss)
  BY FlattenPlaces
<1>2. ss[p] \in Seq(S) /\ Len(ss[p]) \in Nat /\ Len(ss[p]) # 0
  BY EmptySeq
<1>3. Len(ss) \in Nat /\ p - 1 \in 0..Len(ss) /\ p \in 0..Len(ss) /\ Len(ss) \in 0..Len(ss) /\ p <= Len(ss)
  OBVIOUS
<1>4. /\ starts[p - 1] \in Nat /\ starts[p] = starts[p - 1] + Len(ss[p])
      /\ starts[p] <= starts[Len(ss)] /\ starts[Len(ss)] = Len(FlattenSeq(ss))
      /\ starts[Len(ss)] \in Nat
  BY <1>1, <1>3 DEF Starts
<1>5. Len(FlattenSeq(ss)) # 0
  BY <1>2, <1>4
<1>6. FlattenSeq(ss) \in Seq(S)
  BY FlattenTyped
<1> QED BY <1>5, <1>6, EmptySeq

(* The entries at earlier places, then those at later ones.                *)
LEMMA KeptJoin ==
  ASSUME NEW S, NEW s \in Seq(S), NEW P, NEW Q,
         \A i \in P \cap (1..Len(s)) : \A j \in Q \cap (1..Len(s)) : i < j
  PROVE  Kept(s, P) \o Kept(s, Q) = Kept(s, P \cup Q)
<1>0. PICK N \in Nat : N = Len(s)
  OBVIOUS
<1>1. PICK f \in [0..Len(s) -> Seq(S)] : Keeps(f, s, P)
  BY KeptIs
<1>2. PICK g \in [0..Len(s) -> Seq(S)] : Keeps(g, s, Q)
  BY KeptIs
<1>3. PICK h \in [0..Len(s) -> Seq(S)] : Keeps(h, s, P \cup Q)
  BY KeptIs
<1>4. \A n \in 0..N : f[n] \in Seq(S) /\ g[n] \in Seq(S) /\ h[n] \in Seq(S)
  BY <1>0
<1>5. \A n \in 1..N : s[n] \in S
  BY <1>0
<1>11. \A i, j \in 1..N : i \in P /\ j \in Q => i < j
  BY <1>0
<1> DEFINE T == {n \in 0..N : (\A j \in 1..n : j \notin Q) => g[n] = <<>>}
<1>6. \A n \in 0..N : (\A j \in 1..n : j \notin Q) => g[n] = <<>>
  <2>1. 0 \in T
    BY <1>0, <1>2 DEF Keeps
  <2>2. ASSUME NEW n \in 0..N, n < N, n \in T PROVE n + 1 \in T
    <3>1. n + 1 \in 1..N /\ n + 1 \in 0..N /\ (n + 1) - 1 = n /\ n \in 0..N /\ n \in Nat
      BY <2>2
    <3>0. 1..n \subseteq 1..n + 1 /\ n + 1 \in 1..n + 1
      BY <3>1
    <3>2. g[n + 1] = IF n + 1 \in Q THEN Append(g[n], s[n + 1]) ELSE g[n]
      BY <1>0, <1>2, <3>1 DEF Keeps
    <3>3. ASSUME \A j \in 1..n + 1 : j \notin Q PROVE g[n + 1] = <<>>
      <4>1. (\A j \in 1..n : j \notin Q) /\ n + 1 \notin Q
        BY <3>3, <3>0
      <4>2. g[n] = <<>> /\ n + 1 \notin Q
        BY <4>1, <2>2
      <4> QED BY <3>2, <4>2
    <3> QED BY <3>1, <3>3
  <2> HIDE DEF T
  <2>3. 0..N \subseteq T
    BY <1>0, <2>1, <2>2, UpTo
  <2> QED BY <2>3 DEF T
<1> DEFINE U == {n \in 0..N : f[n] \o g[n] = h[n]}
<1>7. 0 \in U
  <2>1. f[0] = <<>> /\ g[0] = <<>> /\ h[0] = <<>> /\ 0 \in 0..N
    BY <1>0, <1>1, <1>2, <1>3 DEF Keeps
  <2>2. <<>> \o <<>> = <<>>
    OBVIOUS
  <2> QED BY <2>1, <2>2
<1>8. ASSUME NEW n \in 0..N, n < N, n \in U PROVE n + 1 \in U
  <2>1. n + 1 \in 1..N /\ n + 1 \in 0..N /\ (n + 1) - 1 = n /\ n \in 0..N /\ n \in Nat
    BY <1>8
  <2>2. /\ f[n + 1] = (IF n + 1 \in P THEN Append(f[n], s[n + 1]) ELSE f[n])
        /\ g[n + 1] = (IF n + 1 \in Q THEN Append(g[n], s[n + 1]) ELSE g[n])
        /\ h[n + 1] = (IF n + 1 \in P \cup Q THEN Append(h[n], s[n + 1]) ELSE h[n])
    BY <1>0, <1>1, <1>2, <1>3, <2>1 DEF Keeps
  <2>3. PICK x \in S, a \in Seq(S), b \in Seq(S) : x = s[n + 1] /\ a = f[n] /\ b = g[n]
    BY <1>4, <1>5, <2>1
  <2>4. a \o b = h[n]
    BY <1>8, <2>3
  <2>5. CASE n + 1 \in P
    <3>0. \A j \in 1..n + 1 : j \in 1..N /\ ~(n + 1 < j)
      BY <2>1
    <3>1. n + 1 \notin Q
      BY <1>11, <2>1, <2>5, <3>0
    <3>2. \A j \in 1..n : j \notin Q
      BY <1>11, <2>1, <2>5, <3>0
    <3>3. b = <<>>
      BY <1>6, <2>1, <2>3, <3>2
    <3>4. Append(a, x) \o <<>> = Append(a \o <<>>, x)
      OBVIOUS
    <3> QED BY <2>1, <2>2, <2>3, <2>4, <2>5, <3>1, <3>3, <3>4
  <2>6. CASE n + 1 \notin P
    <3>1. a \o Append(b, x) = Append(a \o b, x)
      OBVIOUS
    <3> QED BY <2>1, <2>2, <2>3, <2>4, <2>6, <3>1
  <2> QED BY <2>5, <2>6
<1> HIDE DEF U
<1>9. 0..N \subseteq U
  BY <1>0, <1>7, <1>8, UpTo
<1>10. f[N] \o g[N] = h[N]
  BY <1>9 DEF U
<1> QED BY <1>0, <1>1, <1>2, <1>3, <1>10 DEF Keeps
===============================================================================
