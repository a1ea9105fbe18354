---------------------------- MODULE FlattenLemmas ----------------------------
(***************************************************************************)
(* What the loops that collect sequences compute.  The C code appends to a *)
(* list in nested loops (the sort of the FMI MCL, the loopback of the      *)
(* importer, the stacks of the gateway); the models write such a loop as   *)
(* FlattenSeq over its turns.  The library defines FlattenSeq by a         *)
(* recursive function.  This module derives the equations of that          *)
(* recursion, by smallest counterexamples, and what follows from them.     *)
(***************************************************************************)
EXTENDS Naturals, SequencesExt, SequenceTheorems, WellFoundedInduction, TLAPS

(***************************************************************************)
(* Natural numbers.                                                        *)
(***************************************************************************)
Less == {ss \in Nat \X Nat : ss[1] < ss[2]}

LEMMA LessWellFounded == IsWellFoundedOn(Less, Nat)
BY NatLessThanWellFounded, Zenon DEF OpToRel, Less

(* A non-empty set of natural numbers has a least element.                 *)
LEMMA NatMin ==
  ASSUME NEW T, T \subseteq Nat, T # {}
  PROVE  \E n \in T : \A m \in T : n <= m
<1>1. PICK n \in T : \A m \in T : ~(<<m, n>> \in Less)
  BY LessWellFounded, WFMin
<1> SUFFICES ASSUME NEW m \in T, m < n  PROVE FALSE
  OBVIOUS
<1>2. <<m, n>> \in Nat \X Nat /\ <<m, n>>[1] < <<m, n>>[2]
  OBVIOUS
<1>3. <<m, n>> \in Less
  BY <1>2 DEF Less
<1> QED  BY <1>1, <1>3

(* A bounded non-empty set of natural numbers has a greatest element.      *)
LEMMA NatMax ==
  ASSUME NEW N \in Nat, NEW T, T \subseteq 0 .. N, T # {}
  PROVE  \E n \in T : \A m \in T : m <= n
<1> DEFINE U == {b \in Nat : \A m \in T : m <= b}
<1>1. U \subseteq Nat /\ N \in U
  OBVIOUS
<1> HIDE DEF U
<1>2. PICK b \in U : \A c \in U : b <= c
  BY <1>1, NatMin
<1>3. b \in Nat /\ \A m \in T : m <= b
  BY <1>2 DEF U
<1>4. b \in T
  <2> SUFFICES ASSUME b \notin T  PROVE FALSE
    OBVIOUS
  <2>1. PICK m \in T : TRUE
    OBVIOUS
  <2>2. m < b /\ b - 1 \in Nat
    BY <1>3, <2>1
  <2>3. \A k \in T : k <= b - 1
    BY <1>3
  <2>4. b - 1 \in U
    BY <2>2, <2>3 DEF U
  <2> QED  BY <1>2, <1>3, <2>4
<1> QED  BY <1>3, <1>4

(* Induction, over a set in place of a predicate.                          *)
LEMMA NatSetInduction ==
  ASSUME NEW S, 0 \in S, \A n \in Nat : n \in S => n + 1 \in S
  PROVE  \A n \in Nat : n \in S
<1> SUFFICES ASSUME Nat \ S # {}  PROVE FALSE
  OBVIOUS
<1>1. PICK n \in Nat \ S : \A m \in Nat \ S : n <= m
  BY NatMin
<1>2. n - 1 \in Nat /\ n - 1 \in S
  BY <1>1
<1> QED  BY <1>1, <1>2
-----------------------------------------------------------------------------
(***************************************************************************)
(* The recursive function inside FlattenSeq.                               *)
(***************************************************************************)
Flattens(f, p, n) ==
  f = [i \in 1 .. n |-> IF i = 1 THEN p[i] ELSE f[i - 1] \o p[i]]

Agree(p, q, n) == \A i \in 1 .. n : p[i] = q[i]

(* Some function satisfies the recursion.                                  *)
LEMMA FlattensExists ==
  ASSUME NEW X, NEW N \in Nat, NEW p \in [1 .. N -> Seq(X)]
  PROVE  \E f \in [1 .. N -> Seq(X)] : Flattens(f, p, N)
<1> DEFINE S == {n \in Nat : n <= N => \E f \in [1 .. n -> Seq(X)] : Flattens(f, p, n)}
<1>1. 0 \in S
  <2>1. [i \in 1 .. 0 |-> << >>] \in [1 .. 0 -> Seq(X)]
    OBVIOUS
  <2>2. Flattens([i \in 1 .. 0 |-> << >>], p, 0)
    BY DEF Flattens
  <2> QED  BY <2>1, <2>2
<1>2. ASSUME NEW n \in Nat, n \in S  PROVE n + 1 \in S
  <2> SUFFICES ASSUME n + 1 <= N
               PROVE  \E f \in [1 .. n + 1 -> Seq(X)] : Flattens(f, p, n + 1)
    OBVIOUS
  <2>1. PICK f \in [1 .. n -> Seq(X)] : Flattens(f, p, n)
    BY <1>2
  <2> DEFINE h == [i \in 1 .. n + 1 |-> IF i <= n THEN f[i]
                                         ELSE IF i = 1 THEN p[i] ELSE f[n] \o p[i]]
  <2>2. \A i \in 1 .. n + 1 : p[i] \in Seq(X)
    OBVIOUS
  <2>3. \A i \in 1 .. n : f[i] = IF i = 1 THEN p[i] ELSE f[i - 1] \o p[i]
    BY <2>1 DEF Flattens
  <2>4. h[n + 1] \in Seq(X)
    <3>1. CASE n = 0  BY <2>2, <3>1
    <3>2. CASE n # 0
      <4>1. f[n] \in Seq(X) /\ p[n + 1] \in Seq(X)
        BY <2>2, <3>2
      <4>2. f[n] \o p[n + 1] \in Seq(X)
        BY <4>1, ConcatProperties
      <4> QED  BY <3>2, <4>2
    <3> QED  BY <3>1, <3>2
  <2>5. h \in [1 .. n + 1 -> Seq(X)]
    BY <2>4
  <2>6. \A i \in 1 .. n + 1 : h[i] = IF i = 1 THEN p[i] ELSE h[i - 1] \o p[i]
    <3> TAKE i \in 1 .. n + 1
    <3>1. CASE i = n + 1  BY <3>1
    <3>2. CASE i <= n
      <4>1. h[i] = f[i] /\ (i # 1 => h[i - 1] = f[i - 1])
        BY <3>2
      <4>2. i \in 1 .. n  BY <3>2
      <4> HIDE DEF h
      <4> QED  BY <2>3, <4>1, <4>2
    <3> QED  BY <3>1, <3>2
  <2>7. Flattens(h, p, n + 1)
    BY <2>6 DEF Flattens
  <2> QED  BY <2>5, <2>7
<1>3. N \in S
  <2> HIDE DEF S
  <2> QED  BY <1>1, <1>2, NatSetInduction
<1> QED  BY <1>3

(* Two of them agree where their arguments do.                             *)
LEMMA FlattensUnique ==
  ASSUME NEW n \in Nat, NEW m \in Nat, n <= m,
         NEW p, NEW q, Agree(p, q, n),
         NEW f, NEW h, Flattens(f, p, n), Flattens(h, q, m)
  PROVE  Agree(f, h, n)
<1> DEFINE S == {i \in Nat : i \in 1 .. n => f[i] = h[i]}
<1>1. /\ \A i \in 1 .. n : f[i] = IF i = 1 THEN p[i] ELSE f[i - 1] \o p[i]
      /\ \A i \in 1 .. m : h[i] = IF i = 1 THEN q[i] ELSE h[i - 1] \o q[i]
  BY DEF Flattens
<1>2. 0 \in S
  OBVIOUS
<1>3. ASSUME NEW i \in Nat, i \in S  PROVE i + 1 \in S
  <2> SUFFICES ASSUME i + 1 \in 1 .. n  PROVE f[i + 1] = h[i + 1]
    OBVIOUS
  <2>1. i + 1 \in 1 .. m /\ p[i + 1] = q[i + 1] /\ (i + 1) - 1 = i
    BY DEF Agree
  <2>2. CASE i = 0  BY <1>1, <2>1, <2>2
  <2>3. CASE i # 0  BY <1>1, <1>3, <2>1, <2>3
  <2> QED  BY <2>2, <2>3
<1>4. \A i \in Nat : i \in S
  <2> HIDE DEF S
  <2> QED  BY <1>2, <1>3, NatSetInduction
<1> QED  BY <1>4 DEF Agree

(* The function that FlattenSeq chooses.                                   *)
LEMMA FlattenSeqRec ==
  ASSUME NEW X, NEW p \in Seq(Seq(X)), Len(p) # 0
  PROVE  \E f \in [1 .. Len(p) -> Seq(X)] :
           Flattens(f, p, Len(p)) /\ FlattenSeq(p) = f[Len(p)]
<1> DEFINE N == Len(p)
           F == CHOOSE f : f = [i \in 1 .. N |-> IF i = 1 THEN p[i] ELSE f[i - 1] \o p[i]]
<1>1. N \in Nat /\ p \in [1 .. N -> Seq(X)]
  BY LenProperties
<1>2. PICK h \in [1 .. N -> Seq(X)] : Flattens(h, p, N)
  BY <1>1, FlattensExists
<1>3. Flattens(F, p, N)
  BY <1>2 DEF Flattens
<1>4. FlattenSeq(p) = F[N]
  BY DEF FlattenSeq
<1>5. F \in [1 .. N -> Seq(X)]
  <2>1. \A i \in 1 .. N : F[i] = h[i]
    <3> HIDE DEF F
    <3>1. Agree(p, p, N)  BY DEF Agree
    <3>2. Agree(F, h, N)  BY <1>1, <1>2, <1>3, <3>1, FlattensUnique
    <3> QED  BY <3>2 DEF Agree
  <2>2. F = [i \in 1 .. N |-> F[i]]
    BY <1>3 DEF Flattens
  <2> HIDE DEF F
  <2> QED  BY <2>1, <2>2
<1> HIDE DEF F
<1> QED  BY <1>3, <1>4, <1>5
-----------------------------------------------------------------------------
(***************************************************************************)
(* FlattenSeq.                                                             *)
(***************************************************************************)
LEMMA FlattenEmpty == FlattenSeq(<< >>) = << >>
BY DEF FlattenSeq

LEMMA FlattenType ==
  ASSUME NEW X, NEW p \in Seq(Seq(X))
  PROVE  FlattenSeq(p) \in Seq(X)
<1>1. CASE Len(p) = 0
  <2>1. p = << >>  BY <1>1, EmptySeq, LenProperties
  <2> QED  BY <2>1, FlattenEmpty, EmptySeq
<1>2. CASE Len(p) # 0
  <2>1. Len(p) \in 1 .. Len(p)  BY <1>2, LenProperties
  <2>2. PICK f \in [1 .. Len(p) -> Seq(X)] : FlattenSeq(p) = f[Len(p)]
    BY <1>2, FlattenSeqRec
  <2> QED  BY <2>1, <2>2
<1> QED  BY <1>1, <1>2

(* One more turn of the loop.                                              *)
LEMMA FlattenAppend ==
  ASSUME NEW X, NEW p \in Seq(Seq(X)), NEW s \in Seq(X)
  PROVE  FlattenSeq(Append(p, s)) = FlattenSeq(p) \o s
<1> DEFINE N == Len(p)
           q == Append(p, s)
<1>1. /\ N \in Nat /\ p \in [1 .. N -> Seq(X)]
      /\ q \in Seq(Seq(X)) /\ Len(q) = N + 1 /\ q[N + 1] = s
      /\ \A i \in 1 .. N : p[i] = q[i]
  BY LenProperties, AppendProperties
<1>0. N # 0 => \E f \in [1 .. N -> Seq(X)] : Flattens(f, p, N) /\ FlattenSeq(p) = f[N]
  BY FlattenSeqRec
<1> HIDE DEF q, N
<1>2. PICK h \in [1 .. N + 1 -> Seq(X)] : Flattens(h, q, N + 1) /\ FlattenSeq(q) = h[N + 1]
  <2>1. Len(q) # 0  BY <1>1
  <2> QED  BY <1>1, <2>1, FlattenSeqRec
<1>3. \A i \in 1 .. N + 1 : h[i] = IF i = 1 THEN q[i] ELSE h[i - 1] \o q[i]
  BY <1>2 DEF Flattens
<1>4. CASE N = 0
  <2>1. p = << >>  BY <1>4, EmptySeq, LenProperties DEF N
  <2>2. FlattenSeq(p) \o s = s  BY <2>1, FlattenEmpty, ConcatEmptySeq
  <2>3. FlattenSeq(q) = s  BY <1>1, <1>2, <1>3, <1>4
  <2> QED  BY <2>2, <2>3 DEF q
<1>5. CASE N # 0
  <2>1. PICK f \in [1 .. N -> Seq(X)] : Flattens(f, p, N) /\ FlattenSeq(p) = f[N]
    BY <1>0, <1>5
  <2>2. f[N] = h[N]
    <3> DEFINE M == N + 1
    <3>0. /\ N \in Nat /\ M \in Nat /\ N <= M
          /\ Agree(p, q, N) /\ Flattens(f, p, N) /\ Flattens(h, q, M)
      BY <1>1, <1>2, <2>1 DEF Agree
    <3> HIDE DEF M
    <3>1. Agree(f, h, N)
      BY <3>0, FlattensUnique
    <3> QED  BY <1>1, <1>5, <3>1 DEF Agree
  <2>3. h[N + 1] = h[N] \o s
    <3>1. N + 1 \in 1 .. N + 1 /\ N + 1 # 1 /\ (N + 1) - 1 = N
      BY <1>1, <1>5
    <3> QED  BY <1>1, <1>3, <3>1
  <2> QED  BY <1>2, <2>1, <2>2, <2>3 DEF q
<1> QED  BY <1>4, <1>5

(* Every element of the result is an element of one turn, at one place of  *)
(* it.  The result has them in the order of the turns, and of the places   *)
(* within a turn, and leaves out none.                                     *)
Locates(turn, place, p, r) ==
  /\ turn \in [1 .. Len(r) -> 1 .. Len(p)] /\ place \in [1 .. Len(r) -> Nat]
  /\ \A i \in 1 .. Len(r) : place[i] \in 1 .. Len(p[turn[i]]) /\ r[i] = p[turn[i]][place[i]]
  /\ \A i, j \in 1 .. Len(r) : i < j =>
       turn[i] < turn[j] \/ (turn[i] = turn[j] /\ place[i] < place[j])
  /\ \A m \in 1 .. Len(p) : \A k \in 1 .. Len(p[m]) :
       \E i \in 1 .. Len(r) : turn[i] = m /\ place[i] = k

LEMMA LocatesEmpty ==
  ASSUME NEW X, NEW p \in Seq(Seq(X)), Len(p) = 0
  PROVE  \E turn, place : Locates(turn, place, p, FlattenSeq(p))
<1>1. p = << >> /\ FlattenSeq(p) = << >> /\ Len(<< >>) = 0
  BY EmptySeq, LenProperties, FlattenEmpty
<1> DEFINE none == [i \in 1 .. 0 |-> 0]
<1>2. Locates(none, none, p, FlattenSeq(p))
  BY <1>1 DEF Locates
<1> QED  BY <1>2

LEMMA LocatesAppend ==
  ASSUME NEW X, NEW p \in Seq(Seq(X)), NEW s \in Seq(X),
         NEW turn, NEW place, Locates(turn, place, p, FlattenSeq(p))
  PROVE  \E tu, pl : Locates(tu, pl, Append(p, s), FlattenSeq(Append(p, s)))
<1> DEFINE q == Append(p, s)
           r == FlattenSeq(p)
           t == FlattenSeq(q)
           N == Len(p)
           R == Len(r)
           L == Len(s)
           tu == [i \in 1 .. R + L |-> IF i <= R THEN turn[i] ELSE N + 1]
           pl == [i \in 1 .. R + L |-> IF i <= R THEN place[i] ELSE i - R]
<1>1. /\ N \in Nat /\ L \in Nat /\ R \in Nat
      /\ q \in Seq(Seq(X)) /\ Len(q) = N + 1 /\ q[N + 1] = s
      /\ \A i \in 1 .. N : q[i] = p[i]
  BY LenProperties, AppendProperties, FlattenType
<1>2. /\ Len(t) = R + L
      /\ \A i \in 1 .. R + L : t[i] = IF i <= R THEN r[i] ELSE s[i - R]
  <2>1. t = r \o s /\ r \in Seq(X)  BY FlattenAppend, FlattenType
  <2> HIDE DEF t, r
  <2> QED  BY <1>1, <2>1, ConcatProperties
<1>3. /\ turn \in [1 .. R -> 1 .. N] /\ place \in [1 .. R -> Nat]
      /\ \A i \in 1 .. R : place[i] \in 1 .. Len(p[turn[i]]) /\ r[i] = p[turn[i]][place[i]]
      /\ \A i, j \in 1 .. R : i < j =>
           turn[i] < turn[j] \/ (turn[i] = turn[j] /\ place[i] < place[j])
      /\ \A m \in 1 .. N : \A k \in 1 .. Len(p[m]) :
           \E i \in 1 .. R : turn[i] = m /\ place[i] = k
  BY DEF Locates
<1>4. Len(s) = L
  OBVIOUS
<1> HIDE DEF q, r, t, R, L, N
<1>5. tu \in [1 .. R + L -> 1 .. N + 1] /\ pl \in [1 .. R + L -> Nat]
  BY <1>1, <1>3
<1>6. /\ \A i \in 1 .. R + L : i <= R => i \in 1 .. R /\ tu[i] = turn[i] /\ pl[i] = place[i]
      /\ \A i \in 1 .. R + L : ~(i <= R) => i - R \in 1 .. L /\ tu[i] = N + 1 /\ pl[i] = i - R
  BY <1>1
<1> HIDE DEF tu, pl
<1>7. ASSUME NEW i \in 1 .. R + L
      PROVE  pl[i] \in 1 .. Len(q[tu[i]]) /\ t[i] = q[tu[i]][pl[i]]
  <2>1. CASE i <= R
    <3>1. i \in 1 .. R /\ tu[i] = turn[i] /\ pl[i] = place[i] /\ t[i] = r[i]
      BY <1>2, <1>6, <2>1
    <3>2. turn[i] \in 1 .. N /\ q[turn[i]] = p[turn[i]]
      BY <1>1, <1>3, <3>1
    <3> QED  BY <1>3, <3>1, <3>2
  <2>2. CASE ~(i <= R)
    <3>1. i - R \in 1 .. L /\ tu[i] = N + 1 /\ pl[i] = i - R /\ t[i] = s[i - R]
      BY <1>2, <1>6, <2>2
    <3> QED  BY <1>1, <1>4, <3>1
  <2> QED  BY <2>1, <2>2
<1>8. ASSUME NEW i \in 1 .. R + L, NEW j \in 1 .. R + L, i < j
      PROVE  tu[i] < tu[j] \/ (tu[i] = tu[j] /\ pl[i] < pl[j])
  <2>1. CASE j <= R
    <3>1. i \in 1 .. R /\ j \in 1 .. R /\ i <= R
      BY <1>1, <1>8, <2>1
    <3> QED  BY <1>3, <1>6, <1>8, <2>1, <3>1
  <2>2. CASE i <= R /\ ~(j <= R)
    <3>1. turn[i] \in 1 .. N /\ tu[i] = turn[i] /\ tu[j] = N + 1
      BY <1>3, <1>6, <2>2
    <3> QED  BY <1>1, <3>1
  <2>3. CASE ~(i <= R)
    <3>1. ~(j <= R)
      BY <1>1, <1>8, <2>3
    <3>2. tu[i] = N + 1 /\ tu[j] = N + 1 /\ pl[i] = i - R /\ pl[j] = j - R
      BY <1>6, <2>3, <3>1
    <3> QED  BY <1>1, <1>8, <3>2
  <2> QED  BY <2>1, <2>2, <2>3
<1>9. ASSUME NEW m \in 1 .. N + 1, NEW k \in 1 .. Len(q[m])
      PROVE  \E i \in 1 .. R + L : tu[i] = m /\ pl[i] = k
  <2>1. CASE m <= N
    <3>1. m \in 1 .. N /\ k \in 1 .. Len(p[m])
      BY <1>1, <2>1
    <3>2. PICK i \in 1 .. R : turn[i] = m /\ place[i] = k
      BY <1>3, <3>1
    <3>3. i \in 1 .. R + L /\ i <= R
      BY <1>1
    <3> QED  BY <1>6, <3>2, <3>3
  <2>2. CASE m = N + 1
    <3>1. k \in 1 .. L
      BY <1>1, <1>4, <2>2
    <3>2. R + k \in 1 .. R + L /\ ~(R + k <= R) /\ (R + k) - R = k
      BY <1>1, <3>1
    <3> QED  BY <1>6, <2>2, <3>2
  <2> QED  BY <1>1, <2>1, <2>2
<1>10. Locates(tu, pl, q, t)
  BY <1>1, <1>2, <1>5, <1>7, <1>8, <1>9 DEF Locates
<1> QED  BY <1>10 DEF q, t

(* Hence for every sequence of sequences.                                  *)
LEMMA FlattenLocates ==
  ASSUME NEW X, NEW p \in Seq(Seq(X))
  PROVE  \E turn, place : Locates(turn, place, p, FlattenSeq(p))
<1> DEFINE P(w) == \E turn, place : Locates(turn, place, w, FlattenSeq(w))
           S == {n \in Nat : \A w \in Seq(Seq(X)) : Len(w) = n => P(w)}
<1>1. 0 \in S
  BY LocatesEmpty
<1>2. ASSUME NEW n \in Nat, n \in S  PROVE n + 1 \in S
  <2> SUFFICES ASSUME NEW w \in Seq(Seq(X)), Len(w) = n + 1
               PROVE  P(w)
    OBVIOUS
  <2>1. PICK u \in Seq(Seq(X)), s \in Seq(X) : w = Append(u, s)
    <3>1. w # << >>  BY EmptySeq
    <3> QED  BY <3>1, SequenceEmptyOrAppend
  <2>2. Len(u) = n
    BY <2>1, AppendProperties, LenProperties
  <2>3. PICK turn, place : Locates(turn, place, u, FlattenSeq(u))
    BY <1>2, <2>2
  <2> QED  BY <2>1, <2>3, LocatesAppend
<1>3. \A n \in Nat : n \in S
  <2> HIDE DEF S
  <2> QED  BY <1>1, <1>2, NatSetInduction
<1> QED  BY <1>3, LenProperties
=============================================================================
