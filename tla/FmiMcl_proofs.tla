---------------------------- MODULE FmiMcl_proofs ----------------------------
(***************************************************************************)
(* Proofs about the FMI MCL: about MclTable, for every set of annotations  *)
(* and any number of signals, and about MclModel, for every marshal table, *)
(* every set of values and every number of steps.                          *)
(***************************************************************************)
EXTENDS MclTable, MclModel, FlattenLemmas, FiniteSetTheorems

(***************************************************************************)
(* The keys, and their rank in the loops of the sort.                      *)
(***************************************************************************)
Key == {<<KindOrder[a], TypeOrder[b], mDirOrder[c]>> : a \in 1 .. 3, b \in 1 .. 5, c \in 1 .. 6}

IndexIn(seq, x) == CHOOSE n \in DOMAIN seq : seq[n] = x

(* The rank of a key in the nested loops: kind, then type, then direction. *)
Rank(k) ==
  30 * IndexIn(KindOrder, k[1]) + 6 * IndexIn(TypeOrder, k[2]) + IndexIn(mDirOrder, k[3])

LEMMA OrderIndex ==
  /\ \A a \in 1 .. 3 : IndexIn(KindOrder, KindOrder[a]) = a
  /\ \A b \in 1 .. 5 : IndexIn(TypeOrder, TypeOrder[b]) = b
  /\ \A c \in 1 .. 6 : IndexIn(mDirOrder, mDirOrder[c]) = c
<1>1. \A a \in 1 .. 3 : IndexIn(KindOrder, KindOrder[a]) = a
  <2> TAKE a \in 1 .. 3
  <2>1. DOMAIN KindOrder = 1 .. 3 /\ \A n \in 1 .. 3 : KindOrder[n] = KindOrder[a] => n = a
    BY DEF KindOrder
  <2> QED  BY <2>1 DEF IndexIn
<1>2. \A b \in 1 .. 5 : IndexIn(TypeOrder, TypeOrder[b]) = b
  <2> TAKE b \in 1 .. 5
  <2>1. DOMAIN TypeOrder = 1 .. 5 /\ \A n \in 1 .. 5 : TypeOrder[n] = TypeOrder[b] => n = b
    BY DEF TypeOrder
  <2> QED  BY <2>1 DEF IndexIn
<1>3. \A c \in 1 .. 6 : IndexIn(mDirOrder, mDirOrder[c]) = c
  <2> TAKE c \in 1 .. 6
  <2>1. DOMAIN mDirOrder = 1 .. 6 /\ \A n \in 1 .. 6 : mDirOrder[n] = mDirOrder[c] => n = c
    BY DEF mDirOrder
  <2> QED  BY <2>1 DEF IndexIn
<1> QED  BY <1>1, <1>2, <1>3

LEMMA NKeysIs == NKeys = 90 /\ Len(KindOrder) = 3 /\ Len(TypeOrder) = 5 /\ Len(mDirOrder) = 6
BY DEF NKeys, KindOrder, TypeOrder, mDirOrder

LEMMA Digits ==
  ASSUME NEW n \in 0 .. 89
  PROVE  /\ n \div 30 \in 0 .. 2 /\ (n \div 6) % 5 \in 0 .. 4 /\ n % 6 \in 0 .. 5
         /\ n = 30 * (n \div 30) + 6 * ((n \div 6) % 5) + (n % 6)
OBVIOUS

(* The sort visits the keys by ascending rank.                             *)
LEMMA SortKeyRank ==
  ASSUME NEW n \in 0 .. 89
  PROVE  SortKeys[n] \in Key /\ Rank(SortKeys[n]) = 37 + n
<1> DEFINE a == 1 + (n \div 30)
           b == 1 + ((n \div 6) % 5)
           c == 1 + (n % 6)
<1>1. a \in 1 .. 3 /\ b \in 1 .. 5 /\ c \in 1 .. 6 /\ 30 * a + 6 * b + c = 37 + n
  BY Digits
<1>2. SortKeys[n] = <<KindOrder[a], TypeOrder[b], mDirOrder[c]>>
  BY NKeysIs DEF SortKeys
<1> HIDE DEF a, b, c
<1>3. SortKeys[n] \in Key
  BY <1>1, <1>2 DEF Key
<1>4. Rank(SortKeys[n]) = 30 * a + 6 * b + c
  BY <1>1, <1>2, OrderIndex DEF Rank
<1> QED  BY <1>1, <1>3, <1>4

LEMMA KeyVisited ==
  ASSUME NEW k \in Key
  PROVE  \E n \in 0 .. 89 : SortKeys[n] = k
<1>1. PICK a \in 1 .. 3, b \in 1 .. 5, c \in 1 .. 6 : k = <<KindOrder[a], TypeOrder[b], mDirOrder[c]>>
  BY DEF Key
<1> DEFINE n == 30 * (a - 1) + 6 * (b - 1) + (c - 1)
<1>2. n \in 0 .. 89 /\ n \div 30 = a - 1 /\ (n \div 6) % 5 = b - 1 /\ n % 6 = c - 1
  OBVIOUS
<1> HIDE DEF n
<1>3. SortKeys[n] = <<KindOrder[1 + (n \div 30)], TypeOrder[1 + ((n \div 6) % 5)],
                      mDirOrder[1 + (n % 6)]>>
  BY <1>2, NKeysIs DEF SortKeys
<1>4. SortKeys[n] = k
  BY <1>1, <1>2, <1>3
<1> QED  BY <1>2, <1>4

LEMMA RankOfKey ==
  ASSUME NEW k \in Key
  PROVE  /\ Rank(k) \in Nat
         /\ k[1] = "PRIMITIVE" => Rank(k) <= 96
         /\ k[1] = "BINARY" => Rank(k) > 96
         /\ k[1] \in {"NONE", "PRIMITIVE", "BINARY"}
<1>1. PICK a \in 1 .. 3, b \in 1 .. 5, c \in 1 .. 6 : k = <<KindOrder[a], TypeOrder[b], mDirOrder[c]>>
  BY DEF Key
<1>2. Rank(k) = 30 * a + 6 * b + c /\ k[1] = KindOrder[a]
  BY <1>1, OrderIndex DEF Rank
<1> QED  BY <1>2 DEF KindOrder
-----------------------------------------------------------------------------
(***************************************************************************)
(* The sort.                                                               *)
(***************************************************************************)
Sig == [key : Key, vref : Nat]

(* The list of the parser: a signal's vref is its place.                   *)
ListInv == list \in Seq(Sig) /\ \A n \in 1 .. Len(list) : list[n].vref = n

LEMMA SigFields ==
  ASSUME NEW s \in Seq(Sig), NEW n \in 1 .. Len(s)
  PROVE  s[n] \in Sig /\ s[n].key \in Key /\ s[n].vref \in Nat /\ Rank(s[n].key) \in Nat
<1>1. s[n] \in Sig
  BY ElementOfSeq
<1>2. s[n].key \in Key /\ s[n].vref \in Nat
  BY <1>1 DEF Sig
<1> QED  BY <1>1, <1>2, RankOfKey

(* The innermost loop takes exactly the signals of the key, in order.      *)
LEMMA WithKeyCorrect ==
  ASSUME ListInv, NEW k
  PROVE  /\ WithKey(k) \in Seq(Sig)
         /\ \A i \in 1 .. Len(WithKey(k)) :
              WithKey(k)[i].key = k /\ \E n \in 1 .. Len(list) : WithKey(k)[i] = list[n]
         /\ \A i, j \in 1 .. Len(WithKey(k)) : i < j => WithKey(k)[i].vref < WithKey(k)[j].vref
         /\ \A n \in 1 .. Len(list) : list[n].key = k =>
              \E i \in 1 .. Len(WithKey(k)) : WithKey(k)[i] = list[n]
<1> DEFINE L == Len(list)
           p == [n \in 1 .. L |-> IF list[n].key = k THEN <<list[n]>> ELSE << >>]
           r == FlattenSeq(p)
<1>1. L \in Nat /\ list \in [1 .. L -> Sig] /\ \A n \in 1 .. L : list[n].vref = n
  BY LenProperties DEF ListInv
<1>2. \A n \in 1 .. L : <<list[n]>> \in Seq(Sig) /\ << >> \in Seq(Sig)
  BY <1>1
<1>3. p \in [1 .. L -> Seq(Sig)]
  BY <1>2
<1>4. p \in Seq(Seq(Sig)) /\ Len(p) = L
  BY <1>1, <1>3
<1>5. /\ \A n \in 1 .. L : list[n].key = k => Len(p[n]) = 1 /\ p[n][1] = list[n]
      /\ \A n \in 1 .. L : list[n].key # k => Len(p[n]) = 0
  OBVIOUS
<1> HIDE DEF p
<1>6. r \in Seq(Sig)
  BY <1>4, FlattenType
<1>7. PICK turn, place : Locates(turn, place, p, r)
  BY <1>4, FlattenLocates
<1> HIDE DEF r
<1>8. /\ turn \in [1 .. Len(r) -> 1 .. L]
      /\ \A i \in 1 .. Len(r) : place[i] \in 1 .. Len(p[turn[i]]) /\ r[i] = p[turn[i]][place[i]]
      /\ \A i, j \in 1 .. Len(r) : i < j =>
           turn[i] < turn[j] \/ (turn[i] = turn[j] /\ place[i] < place[j])
      /\ \A m \in 1 .. L : \A q \in 1 .. Len(p[m]) :
           \E i \in 1 .. Len(r) : turn[i] = m /\ place[i] = q
  BY <1>4, <1>7 DEF Locates
<1> HIDE DEF L
<1>9. ASSUME NEW i \in 1 .. Len(r)
      PROVE  turn[i] \in 1 .. L /\ place[i] = 1 /\ list[turn[i]].key = k /\ r[i] = list[turn[i]]
  <2>1. turn[i] \in 1 .. L /\ place[i] \in 1 .. Len(p[turn[i]]) /\ r[i] = p[turn[i]][place[i]]
    BY <1>8
  <2>2. CASE list[turn[i]].key = k
    BY <1>5, <2>1, <2>2
  <2>3. CASE list[turn[i]].key # k
    BY <1>5, <2>1, <2>3
  <2> QED  BY <2>2, <2>3
<1>10. ASSUME NEW i \in 1 .. Len(r), NEW j \in 1 .. Len(r), i < j
       PROVE  r[i].vref < r[j].vref
  <2>1. turn[i] < turn[j]
    BY <1>8, <1>9, <1>10
  <2> QED  BY <1>1, <1>9, <2>1
<1>11. ASSUME NEW n \in 1 .. L, list[n].key = k
       PROVE  \E i \in 1 .. Len(r) : r[i] = list[n]
  <2>1. 1 \in 1 .. Len(p[n])
    BY <1>5, <1>11
  <2>2. PICK i \in 1 .. Len(r) : turn[i] = n
    BY <1>8, <2>1
  <2> QED  BY <1>9, <2>2
<1>12. WithKey(k) = r
  BY DEF WithKey, r, p, L
<1> QED  BY <1>6, <1>9, <1>10, <1>11, <1>12 DEF L

(* The signals are ordered by key, and by their place in the files among   *)
(* equal keys.                                                             *)
Sorted(s) ==
  \A i, j \in 1 .. Len(s) : i < j =>
    Rank(s[i].key) < Rank(s[j].key) \/ (s[i].key = s[j].key /\ s[i].vref < s[j].vref)

SameSignals(s) ==
  /\ \A i \in 1 .. Len(s) : \E n \in 1 .. Len(list) : s[i] = list[n]
  /\ \A n \in 1 .. Len(list) : \E i \in 1 .. Len(s) : s[i] = list[n]

LEMMA SortedListCorrect ==
  ASSUME ListInv
  PROVE  SortedList \in Seq(Sig) /\ Sorted(SortedList) /\ SameSignals(SortedList)
<1> DEFINE p == [n \in 1 .. NKeys |-> WithKey(SortKeys[n - 1])]
           r == FlattenSeq(p)
<1>1. p \in Seq(Seq(Sig)) /\ Len(p) = NKeys
  <2>1. \A n \in 1 .. NKeys : WithKey(SortKeys[n - 1]) \in Seq(Sig)
    BY WithKeyCorrect
  <2>2. NKeys \in Nat  BY NKeysIs
  <2> QED  BY <2>1, <2>2
<1>2. \A n \in 1 .. NKeys : p[n] = WithKey(SortKeys[n - 1]) 
  OBVIOUS
<1>0. NKeys \in Nat /\ \A n \in 1 .. NKeys : n - 1 \in 0 .. 89
  BY NKeysIs
<1> HIDE DEF p
<1>3. r \in Seq(Sig)
  BY <1>1, FlattenType
<1>4. PICK turn, place : Locates(turn, place, p, r)
  BY <1>1, FlattenLocates
<1> HIDE DEF r
<1>5. /\ turn \in [1 .. Len(r) -> 1 .. NKeys]
      /\ \A i \in 1 .. Len(r) : place[i] \in 1 .. Len(p[turn[i]]) /\ r[i] = p[turn[i]][place[i]]
      /\ \A i, j \in 1 .. Len(r) : i < j =>
           turn[i] < turn[j] \/ (turn[i] = turn[j] /\ place[i] < place[j])
      /\ \A m \in 1 .. NKeys : \A q \in 1 .. Len(p[m]) :
           \E i \in 1 .. Len(r) : turn[i] = m /\ place[i] = q
  BY <1>1, <1>4 DEF Locates
<1>6. ASSUME NEW i \in 1 .. Len(r)
      PROVE  /\ turn[i] \in 1 .. NKeys /\ r[i].key = SortKeys[turn[i] - 1]
             /\ Rank(r[i].key) = 36 + turn[i]
             /\ \E n \in 1 .. Len(list) : r[i] = list[n]
  <2>1. turn[i] \in 1 .. NKeys /\ turn[i] - 1 \in 0 .. 89 /\ turn[i] \in Nat
    <3>1. turn[i] \in 1 .. NKeys  BY <1>5
    <3>2. \A n \in 1 .. NKeys : n \in Nat /\ n - 1 \in 0 .. 89
      BY NKeysIs
    <3> QED  BY <3>1, <3>2, Zenon
  <2>2. /\ r[i] = WithKey(SortKeys[turn[i] - 1])[place[i]]
        /\ place[i] \in 1 .. Len(WithKey(SortKeys[turn[i] - 1]))
    BY <1>2, <1>5, <2>1
  <2>3. r[i].key = SortKeys[turn[i] - 1] /\ \E n \in 1 .. Len(list) : r[i] = list[n]
    BY <2>2, WithKeyCorrect
  <2>4. Rank(SortKeys[turn[i] - 1]) = 37 + (turn[i] - 1)
    BY <2>1, SortKeyRank
  <2> QED  BY <2>1, <2>3, <2>4
<1>7. Sorted(r)
  <2> SUFFICES ASSUME NEW i \in 1 .. Len(r), NEW j \in 1 .. Len(r), i < j
               PROVE  \/ Rank(r[i].key) < Rank(r[j].key)
                      \/ r[i].key = r[j].key /\ r[i].vref < r[j].vref
    BY DEF Sorted
  <2>1. CASE turn[i] < turn[j]
    <3>1. /\ Rank(r[i].key) = 36 + turn[i] /\ Rank(r[j].key) = 36 + turn[j]
          /\ turn[i] \in 1 .. NKeys /\ turn[j] \in 1 .. NKeys
      BY <1>6
    <3> QED  BY <1>0, <2>1, <3>1
  <2>2. CASE turn[i] = turn[j] /\ place[i] < place[j]
    <3>1. r[i].key = r[j].key
      BY <1>6, <2>2
    <3>2. turn[i] \in 1 .. NKeys /\ p[turn[i]] = WithKey(SortKeys[turn[i] - 1])
      BY <1>2, <1>5
    <3>3. r[i].vref < r[j].vref
      <4> DEFINE w == WithKey(SortKeys[turn[i] - 1])
      <4>1. /\ r[i] = w[place[i]] /\ place[i] \in 1 .. Len(w)
            /\ r[j] = w[place[j]] /\ place[j] \in 1 .. Len(w)
        BY <1>5, <2>2, <3>2
      <4>2. \A m, n \in 1 .. Len(w) : m < n => w[m].vref < w[n].vref
        BY WithKeyCorrect
      <4> HIDE DEF w
      <4> QED  BY <2>2, <4>1, <4>2
    <3> QED  BY <3>1, <3>3
  <2> QED  BY <1>5, <2>1, <2>2
<1>8. SameSignals(r)
  <2>1. ASSUME NEW n \in 1 .. Len(list)  PROVE \E i \in 1 .. Len(r) : r[i] = list[n]
    <3>1. list[n].key \in Key
      BY SigFields DEF ListInv
    <3>2. PICK m \in 0 .. 89 : SortKeys[m] = list[n].key
      BY <3>1, KeyVisited
    <3>3. m + 1 \in 1 .. NKeys /\ p[m + 1] = WithKey(SortKeys[m])
      <4>1. m + 1 \in 1 .. NKeys /\ (m + 1) - 1 = m
        BY NKeysIs
      <4> QED  BY <1>2, <4>1
    <3>4. PICK q \in 1 .. Len(p[m + 1]) : p[m + 1][q] = list[n]
      BY <3>2, <3>3, WithKeyCorrect
    <3>5. PICK i \in 1 .. Len(r) : turn[i] = m + 1 /\ place[i] = q
      BY <1>5, <3>3
    <3> QED  BY <1>5, <3>4, <3>5
  <2> QED  BY <1>6, <2>1 DEF SameSignals
<1>9. SortedList = r
  BY NKeysIs DEF SortedList, r, p
<1> QED  BY <1>3, <1>7, <1>8, <1>9

(* The sorted list is as long as the list: the vref of a signal is its     *)
(* place in the list, so that the places correspond one to one.            *)
LEMMA SortedLength ==
  ASSUME ListInv, NEW s \in Seq(Sig), Sorted(s), SameSignals(s)
  PROVE  Len(s) = Len(list)
<1> DEFINE f == [i \in 1 .. Len(s) |-> s[i].vref]
<1>1. Len(s) \in Nat /\ Len(list) \in Nat
  BY LenProperties DEF ListInv
<1>2. ASSUME NEW i \in 1 .. Len(s)
      PROVE  \E n \in 1 .. Len(list) : s[i] = list[n] /\ s[i].vref = n
  BY DEF SameSignals, ListInv
<1>3. ASSUME NEW n \in 1 .. Len(list)  PROVE \E i \in 1 .. Len(s) : s[i].vref = n
  BY DEF SameSignals, ListInv
<1>4. ASSUME NEW i \in 1 .. Len(s), NEW j \in 1 .. Len(s), s[i].vref = s[j].vref
      PROVE  i = j
  <2>1. s[i] = s[j]
    BY <1>2, <1>4
  <2>2. \A m \in 1 .. Len(s) : Rank(s[m].key) \in Nat /\ s[m].vref \in Nat
    BY SigFields
  <2>3. /\ Rank(s[i].key) \in Nat /\ Rank(s[j].key) \in Nat
        /\ s[i].vref \in Nat /\ s[j].vref \in Nat
    BY <2>2
  <2>4. ASSUME i < j  PROVE FALSE
    <3>1. Rank(s[i].key) < Rank(s[j].key) \/ s[i].vref < s[j].vref
      BY <2>4 DEF Sorted
    <3> QED  BY <2>1, <2>3, <3>1
  <2>5. ASSUME j < i  PROVE FALSE
    <3>1. Rank(s[j].key) < Rank(s[i].key) \/ s[j].vref < s[i].vref
      BY <2>5 DEF Sorted
    <3> QED  BY <2>1, <2>3, <3>1
  <2> QED  BY <2>4, <2>5, <1>1
<1>5. f \in Bijection(1 .. Len(s), 1 .. Len(list))
  <2>1. f \in [1 .. Len(s) -> 1 .. Len(list)]
    BY <1>2
  <2>2. f \in Injection(1 .. Len(s), 1 .. Len(list))
    BY <1>4, <2>1 DEF Injection, IsInjective
  <2>3. f \in Surjection(1 .. Len(s), 1 .. Len(list))
    BY <1>3, <2>1 DEF Surjection
  <2> QED  BY <2>2, <2>3 DEF Bijection
<1>6. /\ IsFiniteSet(1 .. Len(s)) /\ Cardinality(1 .. Len(s)) = Len(s)
      /\ IsFiniteSet(1 .. Len(list)) /\ Cardinality(1 .. Len(list)) = Len(list)
  <2>1. \A m \in Nat : IsFiniteSet(1 .. m) /\ Cardinality(1 .. m) = IF 1 > m THEN 0 ELSE m - 1 + 1
    BY FS_Interval
  <2> QED  BY <1>1, <2>1
<1> HIDE DEF f
<1>7. ExistsBijection(1 .. Len(s), 1 .. Len(list))
  BY <1>5 DEF ExistsBijection
<1> QED  BY <1>6, <1>7, FS_Bijection
-----------------------------------------------------------------------------
(***************************************************************************)
(* The table.                                                              *)
(***************************************************************************)
Group == [key : Key, offset : Nat, count : Nat, ref : Seq(Nat)]

(* The signals from o + 1 to o + c are of key k and have the references.   *)
Run(o, c, k, ref) ==
  \A i \in 1 .. c : signals[o + i].key = k /\ signals[o + i].vref = ref[i]

(* The groups of T cover the first e signals, each a run of its own key,   *)
(* by ascending rank.                                                      *)
Partition(T, e) ==
  /\ T \in Seq(Group)
  /\ Len(T) = 0 => e = 0
  /\ Len(T) > 0 => T[1].offset = 0 /\ T[Len(T)].offset + T[Len(T)].count = e
  /\ \A m \in 1 .. Len(T) - 1 : T[m + 1].offset = T[m].offset + T[m].count
  /\ \A m \in 1 .. Len(T) : Run(T[m].offset, T[m].count, T[m].key, T[m].ref)
  /\ \A m, n \in 1 .. Len(T) : m < n => Rank(T[m].key) < Rank(T[n].key)

LEMMA PartitionAppend ==
  ASSUME NEW T, NEW e \in Nat, Partition(T, e),
         NEW c \in Nat, NEW k \in Key, NEW ref \in Seq(Nat), Run(e, c, k, ref),
         \A m \in 1 .. Len(T) : Rank(T[m].key) < Rank(k)
  PROVE  Partition(Append(T, [key |-> k, offset |-> e, count |-> c, ref |-> ref]), e + c)
<1> DEFINE mg == [key |-> k, offset |-> e, count |-> c, ref |-> ref]
           U == Append(T, mg)
           N == Len(T)
<1>1. /\ mg \in Group /\ mg.key = k /\ mg.offset = e /\ mg.count = c /\ mg.ref = ref
  BY DEF Group
<1> HIDE DEF mg
<1>2. /\ T \in Seq(Group) /\ N \in Nat
      /\ N = 0 => e = 0
      /\ N > 0 => T[1].offset = 0 /\ T[N].offset + T[N].count = e
      /\ \A m \in 1 .. N - 1 : T[m + 1].offset = T[m].offset + T[m].count
      /\ \A m \in 1 .. N : Run(T[m].offset, T[m].count, T[m].key, T[m].ref)
      /\ \A m, n \in 1 .. N : m < n => Rank(T[m].key) < Rank(T[n].key)
  BY LenProperties DEF Partition
<1>3. /\ U \in Seq(Group) /\ Len(U) = N + 1 /\ U[N + 1] = mg
      /\ \A m \in 1 .. N : U[m] = T[m]
  BY <1>1, <1>2, AppendProperties
<1>4. \A m \in 1 .. N : Rank(T[m].key) < Rank(k)
  OBVIOUS
<1> HIDE DEF U, N
<1>5. U[1].offset = 0
  <2>1. CASE N = 0  BY <1>1, <1>2, <1>3, <2>1
  <2>2. CASE N # 0
    <3>1. 1 \in 1 .. N /\ N > 0  BY <1>2, <2>2
    <3> QED  BY <1>2, <1>3, <3>1
  <2> QED  BY <2>1, <2>2
<1>6. ASSUME NEW m \in 1 .. N  PROVE U[m + 1].offset = U[m].offset + U[m].count
  <2>1. CASE m = N
    <3>1. N > 0 /\ U[m] = T[N] /\ U[m + 1] = mg  BY <1>2, <1>3, <2>1
    <3> QED  BY <1>1, <1>2, <3>1
  <2>2. CASE m < N
    <3>1. m \in 1 .. N - 1 /\ m + 1 \in 1 .. N  BY <1>2, <2>2
    <3> QED  BY <1>2, <1>3, <3>1
  <2> QED  BY <1>2, <2>1, <2>2
<1>7. ASSUME NEW m \in 1 .. N + 1  PROVE Run(U[m].offset, U[m].count, U[m].key, U[m].ref)
  <2>1. CASE m = N + 1  BY <1>1, <1>3, <2>1
  <2>2. CASE m \in 1 .. N  BY <1>2, <1>3, <2>2
  <2> QED  BY <1>2, <2>1, <2>2
<1>8. ASSUME NEW m \in 1 .. N + 1, NEW n \in 1 .. N + 1, m < n
      PROVE  Rank(U[m].key) < Rank(U[n].key)
  <2>1. m \in 1 .. N /\ U[m] = T[m]  BY <1>2, <1>3, <1>8
  <2>2. CASE n = N + 1  BY <1>1, <1>3, <1>4, <2>1, <2>2
  <2>3. CASE n \in 1 .. N  BY <1>2, <1>3, <1>8, <2>1, <2>3
  <2> QED  BY <1>2, <2>2, <2>3
<1>9. (N + 1) - 1 = N /\ N + 1 > 0 /\ N + 1 # 0
  BY <1>2
<1>10. Partition(U, e + c)
  BY <1>1, <1>3, <1>5, <1>6, <1>7, <1>8, <1>9 DEF Partition
<1> QED  BY <1>10 DEF U, mg

(***************************************************************************)
(* The inductive invariant.                                                *)
(***************************************************************************)
PhaseInv == phase \in {"parse", "table", "done"}

(* Before the table loop its locals have their initial values.             *)
StartInv ==
  phase = "parse" =>
    next = 1 /\ key = NoKey /\ offset = 0 /\ count = 0 /\ ref_list = << >> /\ mg_table = << >>

SortInv == phase # "parse" => signals \in Seq(Sig) /\ Sorted(signals) /\ SameSignals(signals)

(* In the table loop: the signals passed are those of the emitted groups   *)
(* and of the group being accumulated, whose key comes after theirs.       *)
LoopInv ==
  phase = "table" =>
    /\ next \in 1 .. Len(signals) + 1
    /\ offset \in Nat /\ count \in Nat /\ offset + count = next - 1
    /\ key \in Key /\ ref_list \in Seq(Nat) /\ Len(ref_list) = count
    /\ Run(offset, count, key, ref_list)
    /\ Partition(mg_table, offset)
    /\ count = 0 => mg_table = << >>
    /\ \A m \in 1 .. Len(mg_table) : Rank(mg_table[m].key) < Rank(key)

DoneInv == phase = "done" => Partition(mg_table, Len(signals))

TableInv == PhaseInv /\ ListInv /\ StartInv /\ SortInv /\ LoopInv /\ DoneInv

LEMMA TableInit == Init => TableInv
<1> SUFFICES ASSUME Init  PROVE TableInv
  OBVIOUS
<1>1. ListInv
  BY EmptySeq DEF Init, ListInv
<1> QED  BY <1>1 DEF Init, TableInv, PhaseInv, StartInv, SortInv, LoopInv, DoneInv

LEMMA DecodedKey ==
  ASSUME NEW t \in VarTypes, NEW c \in Causalities
  PROVE  <<decode_var_kind(t), decode_var_type(t), decode_var_dir(c)>> \in Key
<1>1. PICK a \in 1 .. 3 : decode_var_kind(t) = KindOrder[a]
  BY TableAssumption DEF decode_var_kind, KindOrder
<1>2. PICK b \in 1 .. 5 : decode_var_type(t) = TypeOrder[b]
  BY TableAssumption DEF decode_var_type, TypeOrder
<1>3. PICK d \in 1 .. 6 : decode_var_dir(c) = mDirOrder[d]
  BY TableAssumption DEF decode_var_dir, mDirOrder
<1> QED  BY <1>1, <1>2, <1>3 DEF Key

LEMMA NoKeyIsKey == NoKey \in Key
<1>1. NoKey = <<KindOrder[1], TypeOrder[1], mDirOrder[1]>>
  BY DEF NoKey, KindOrder, TypeOrder, mDirOrder
<1> QED  BY <1>1 DEF Key

(* The table depends on the state only through the signals array.          *)
LEMMA RunPrime ==
  ASSUME signals' = signals, Run(offset', count', key', ref_list')
  PROVE  Run(offset, count, key, ref_list)'
BY DEF Run

LEMMA PartitionPrime ==
  ASSUME signals' = signals, NEW e, Partition(mg_table', e)
  PROVE  /\ offset' = e => Partition(mg_table, offset)'
         /\ Len(signals') = e => Partition(mg_table, Len(signals))'
BY DEF Partition, Run

LEMMA SortPrime ==
  ASSUME TableInv, signals' = signals, list' = list, phase # "parse"
  PROVE  SortInv' /\ ListInv'
BY DEF TableInv, SortInv, ListInv, Sorted, SameSignals

LEMMA StepParseSignal ==
  ASSUME TableInv, NEW t \in VarTypes, NEW c \in Causalities, ParseSignal(t, c)
  PROVE  TableInv'
<1> DEFINE s == [key  |-> <<decode_var_kind(t), decode_var_type(t), decode_var_dir(c)>>,
                 vref |-> Len(list) + 1]
<1>1. list \in Seq(Sig) /\ Len(list) \in Nat /\ \A n \in 1 .. Len(list) : list[n].vref = n
  BY LenProperties DEF TableInv, ListInv
<1>2. s \in Sig /\ s.vref = Len(list) + 1
  BY <1>1, DecodedKey DEF Sig
<1>3. list' = Append(list, s)
  BY DEF ParseSignal
<1> HIDE DEF s
<1>4. /\ list' \in Seq(Sig) /\ Len(list') = Len(list) + 1 /\ list'[Len(list) + 1] = s
      /\ \A n \in 1 .. Len(list) : list'[n] = list[n]
  BY <1>1, <1>2, <1>3, AppendProperties
<1>5. ListInv'
  <2>1. ASSUME NEW n \in 1 .. Len(list')  PROVE list'[n].vref = n
    <3>1. CASE n = Len(list) + 1  BY <1>2, <1>4, <3>1
    <3>2. CASE n # Len(list) + 1
      <4>1. n \in 1 .. Len(list)  BY <1>1, <1>4, <3>2
      <4> QED  BY <1>1, <1>4, <4>1
    <3> QED  BY <3>1, <3>2
  <2> QED  BY <1>4, <2>1 DEF ListInv
<1>6. phase = "parse" /\ phase' = "parse"
  BY DEF ParseSignal
<1>7. PhaseInv' /\ StartInv'
  BY <1>6 DEF ParseSignal, TableInv, PhaseInv, StartInv
<1>8. SortInv' /\ LoopInv' /\ DoneInv'
  BY <1>6 DEF SortInv, LoopInv, DoneInv
<1> QED  BY <1>5, <1>7, <1>8 DEF TableInv

LEMMA StepParse == ASSUME TableInv, fmimcl_parse  PROVE TableInv'
<1>1. phase = "parse" /\ phase' = "table" /\ list' = list /\ signals' = SortedList
  BY DEF fmimcl_parse
<1>2. ListInv /\ ListInv'
  BY <1>1 DEF TableInv, ListInv
<1>3. SortInv'
  <2>1. SortedList \in Seq(Sig) /\ Sorted(SortedList) /\ SameSignals(SortedList)
    BY <1>2, SortedListCorrect
  <2>2. signals' \in Seq(Sig) /\ Sorted(signals') /\ SameSignals(signals')
    BY <1>1, <2>1
  <2> QED  BY <1>1, <2>2 DEF SortInv, Sorted, SameSignals
<1>4. /\ next' = 1 /\ key' = NoKey /\ offset' = 0 /\ count' = 0 /\ ref_list' = << >>
      /\ mg_table' = << >>
  BY <1>1 DEF fmimcl_parse, TableInv, StartInv
<1>5. LoopInv'
  <2>1. Len(signals') \in Nat
    BY <1>1, <1>2, SortedListCorrect, LenProperties
  <2>2. Run(offset, count, key, ref_list)'
    BY <1>4 DEF Run
  <2>3. Partition(mg_table, offset)'
    BY <1>4, EmptySeq DEF Partition
  <2> QED  BY <1>4, <2>1, <2>2, <2>3, NoKeyIsKey, EmptySeq DEF LoopInv
<1>6. PhaseInv' /\ StartInv' /\ DoneInv'
  BY <1>1 DEF PhaseInv, StartInv, DoneInv
<1> QED  BY <1>2, <1>3, <1>5, <1>6 DEF TableInv

(* What the loop knows of the group being accumulated when it ends.        *)
LEMMA GroupEmitted ==
  ASSUME TableInv, phase = "table", count > 0
  PROVE  Partition(Append(mg_table, create_mg), offset + count)
<1>1. /\ offset \in Nat /\ count \in Nat /\ key \in Key /\ ref_list \in Seq(Nat)
      /\ Run(offset, count, key, ref_list) /\ Partition(mg_table, offset)
      /\ \A m \in 1 .. Len(mg_table) : Rank(mg_table[m].key) < Rank(key)
  BY DEF TableInv, LoopInv
<1> QED  BY <1>1, PartitionAppend DEF create_mg

LEMMA StepTableSignal == ASSUME TableInv, TableSignal  PROVE TableInv'
<1> DEFINE s == signals[next]
<1>1. /\ phase = "table" /\ phase' = "table" /\ list' = list /\ signals' = signals
      /\ next <= Len(signals) /\ next' = next + 1
  BY DEF TableSignal
<1>2. /\ next \in 1 .. Len(signals) + 1
      /\ offset \in Nat /\ count \in Nat /\ offset + count = next - 1
      /\ key \in Key /\ ref_list \in Seq(Nat) /\ Len(ref_list) = count
      /\ Run(offset, count, key, ref_list)
      /\ Partition(mg_table, offset)
      /\ count = 0 => mg_table = << >>
      /\ \A m \in 1 .. Len(mg_table) : Rank(mg_table[m].key) < Rank(key)
  BY <1>1 DEF TableInv, LoopInv
<1>3. signals \in Seq(Sig) /\ Len(signals) \in Nat /\ Sorted(signals)
  BY <1>1, LenProperties DEF TableInv, SortInv
<1>4. next \in 1 .. Len(signals) /\ next = offset + count + 1
  BY <1>1, <1>2, <1>3
<1>5. s.key \in Key /\ s.vref \in Nat /\ Rank(s.key) \in Nat
  BY <1>3, <1>4, SigFields
<1>6. CASE s.key # key
  <2>1. /\ mg_table' = IF count > 0 THEN Append(mg_table, create_mg) ELSE mg_table
        /\ offset' = offset + count
        /\ key' = s.key /\ count' = 1 /\ ref_list' = <<s.vref>>
    BY <1>6 DEF TableSignal
  <2> HIDE DEF s
  <2>2. Partition(mg_table', offset')
    <3>1. CASE count > 0  BY <1>1, <2>1, <3>1, GroupEmitted
    <3>2. CASE count = 0
      <4>1. mg_table' = mg_table /\ offset' = offset  BY <1>2, <2>1, <3>2
      <4> QED  BY <1>2, <4>1
    <3> QED  BY <1>2, <3>1, <3>2
  <2>3. Run(offset', count', key', ref_list')
    <3>1. \A i \in 1 .. 1 : i = 1  OBVIOUS
    <3>2. signals[offset' + 1] = s  BY <1>4, <2>1 DEF s
    <3>3. ref_list'[1] = s.vref  BY <2>1
    <3> QED  BY <2>1, <3>1, <3>2, <3>3 DEF Run
  <2>4. ASSUME NEW m \in 1 .. Len(mg_table')  PROVE Rank(mg_table'[m].key) < Rank(key')
    <3>1. CASE count = 0
      <4>1. mg_table' = << >>  BY <1>2, <2>1, <3>1
      <4> QED  BY <4>1
    <3>2. CASE count > 0
      <4>1. Rank(key) < Rank(s.key)
        <5>1. next - 1 \in 1 .. Len(signals) /\ next - 1 < next /\ next - 1 = offset + count
          BY <1>2, <1>3, <1>4, <3>2
        <5>2. count \in 1 .. count  BY <1>2, <3>2
        <5>3. signals[next - 1].key = key  BY <1>2, <5>1, <5>2 DEF Run
        <5> QED  BY <1>3, <1>4, <1>6, <5>1, <5>3 DEF Sorted, s
      <4>2. mg_table \in Seq(Group) /\ Len(mg_table) \in Nat
        BY <1>2, LenProperties DEF Partition
      <4>3. create_mg \in Group /\ create_mg.key = key
        BY <1>2 DEF create_mg, Group
      <4>4. /\ Len(mg_table') = Len(mg_table) + 1 /\ mg_table'[Len(mg_table) + 1] = create_mg
            /\ \A n \in 1 .. Len(mg_table) : mg_table'[n] = mg_table[n]
        BY <2>1, <3>2, <4>2, <4>3, AppendProperties
      <4>5. CASE m = Len(mg_table) + 1  BY <2>1, <4>1, <4>3, <4>4, <4>5
      <4>6. CASE m # Len(mg_table) + 1
        <5>1. m \in 1 .. Len(mg_table)  BY <4>2, <4>4, <4>6
        <5>2. mg_table[m] \in Group  BY <4>2, <5>1, ElementOfSeq
        <5>3. Rank(mg_table[m].key) \in Nat /\ Rank(key) \in Nat
          BY <1>2, <5>2, RankOfKey DEF Group
        <5>4. Rank(mg_table[m].key) < Rank(key)  BY <1>2, <5>1
        <5> QED  BY <1>5, <2>1, <4>1, <4>4, <5>1, <5>3, <5>4
      <4> QED  BY <4>5, <4>6
    <3> QED  BY <1>2, <3>1, <3>2
  <2>5. LoopInv'
    <3>1. Run(offset, count, key, ref_list)' /\ Partition(mg_table, offset)'
      BY <1>1, <2>2, <2>3, RunPrime, PartitionPrime
    <3>2. ref_list' \in Seq(Nat) /\ Len(ref_list') = 1
      BY <1>5, <2>1
    <3>3. /\ next' \in 1 .. Len(signals') + 1 /\ offset' \in Nat /\ count' \in Nat
          /\ offset' + count' = next' - 1 /\ count' # 0
      BY <1>1, <1>2, <1>3, <1>4, <2>1
    <3> QED  BY <1>5, <2>1, <2>4, <3>1, <3>2, <3>3 DEF LoopInv
  <2> QED  BY <1>1, <2>5, SortPrime DEF TableInv, PhaseInv, StartInv, DoneInv
<1>7. CASE s.key = key
  <2>1. /\ mg_table' = mg_table /\ offset' = offset /\ key' = key /\ count' = count + 1
        /\ ref_list' = Append(ref_list, s.vref)
    BY <1>7 DEF TableSignal
  <2>2. /\ ref_list' \in Seq(Nat) /\ Len(ref_list') = count + 1
        /\ ref_list'[count + 1] = s.vref
        /\ \A i \in 1 .. count : ref_list'[i] = ref_list[i]
    <3>1. s.vref \in Nat  BY <1>5
    <3> HIDE DEF s
    <3>2. /\ Append(ref_list, s.vref) \in Seq(Nat)
          /\ Len(Append(ref_list, s.vref)) = Len(ref_list) + 1
          /\ Append(ref_list, s.vref)[Len(ref_list) + 1] = s.vref
          /\ \A i \in 1 .. Len(ref_list) : Append(ref_list, s.vref)[i] = ref_list[i]
      BY <1>2, <3>1, AppendProperties
    <3> QED  BY <1>2, <2>1, <3>2
  <2>3. Run(offset', count', key', ref_list')
    <3> SUFFICES ASSUME NEW i \in 1 .. count + 1
                 PROVE  signals[offset + i].key = key /\ signals[offset + i].vref = ref_list'[i]
      BY <2>1 DEF Run
    <3>1. CASE i = count + 1
      <4>1. offset + i = next  BY <1>2, <1>4, <3>1
      <4> QED  BY <1>7, <2>2, <3>1, <4>1
    <3>2. CASE i # count + 1
      <4>1. i \in 1 .. count  BY <1>2, <3>2
      <4> QED  BY <1>2, <2>2, <4>1 DEF Run
    <3> QED  BY <3>1, <3>2
  <2>4. Run(offset, count, key, ref_list)' /\ Partition(mg_table, offset)'
    BY <1>1, <1>2, <2>1, <2>3, RunPrime, PartitionPrime
  <2>5. LoopInv'
    <3>1. /\ next' \in 1 .. Len(signals') + 1 /\ offset' \in Nat /\ count' \in Nat
          /\ offset' + count' = next' - 1 /\ count' # 0
      BY <1>1, <1>2, <1>3, <1>4, <2>1
    <3> HIDE DEF s
    <3> QED  BY <1>2, <2>1, <2>2, <2>4, <3>1 DEF LoopInv
  <2> QED  BY <1>1, <2>5, SortPrime DEF TableInv, PhaseInv, StartInv, DoneInv
<1> QED  BY <1>6, <1>7

LEMMA StepTableEnd == ASSUME TableInv, TableEnd  PROVE TableInv'
<1>1. /\ phase = "table" /\ phase' = "done" /\ list' = list /\ signals' = signals
      /\ next > Len(signals)
      /\ mg_table' = IF count > 0 THEN Append(mg_table, create_mg) ELSE mg_table
  BY DEF TableEnd
<1>2. /\ next \in 1 .. Len(signals) + 1
      /\ offset \in Nat /\ count \in Nat /\ offset + count = next - 1
      /\ Partition(mg_table, offset)
  BY <1>1 DEF TableInv, LoopInv
<1>3. signals \in Seq(Sig) /\ Len(signals) \in Nat
  BY <1>1, LenProperties DEF TableInv, SortInv
<1>4. offset + count = Len(signals)
  BY <1>1, <1>2, <1>3
<1>5. Partition(mg_table', Len(signals))
  <2>1. CASE count > 0  BY <1>1, <1>4, <2>1, GroupEmitted
  <2>2. CASE count = 0
    <3>1. mg_table' = mg_table /\ offset = Len(signals)  BY <1>1, <1>2, <1>4, <2>2
    <3> QED  BY <1>2, <3>1
  <2> QED  BY <1>2, <2>1, <2>2
<1>6. Partition(mg_table, Len(signals))'
  BY <1>1, <1>5, PartitionPrime
<1> QED  BY <1>1, <1>6, SortPrime DEF TableInv, PhaseInv, StartInv, LoopInv, DoneInv

LEMMA TableStep == TableInv /\ [Next]_vars => TableInv'
<1> SUFFICES ASSUME TableInv, [Next]_vars  PROVE TableInv'
  OBVIOUS
<1>1. ASSUME NEW t \in VarTypes, NEW c \in Causalities, ParseSignal(t, c)  PROVE TableInv'
  BY <1>1, StepParseSignal
<1>2. CASE fmimcl_parse  BY <1>2, StepParse
<1>3. CASE TableSignal  BY <1>3, StepTableSignal
<1>4. CASE TableEnd  BY <1>4, StepTableEnd
<1>5. CASE UNCHANGED vars
  BY <1>5 DEF vars, TableInv, PhaseInv, ListInv, StartInv, SortInv, Sorted, SameSignals,
              LoopInv, DoneInv, Partition, Run
<1> QED  BY <1>1, <1>2, <1>3, <1>4, <1>5 DEF Next, Done

(* The inductive invariant holds.                                          *)
THEOREM TableInvariant == Spec => []TableInv
BY TableInit, TableStep, PTL DEF Spec
-----------------------------------------------------------------------------
(***************************************************************************)
(* What the invariant shows.                                               *)
(***************************************************************************)
(* _sort_by_marshal_group groups the signals by marshal key: for every     *)
(* list of signals it loses none, duplicates none, puts those of one key   *)
(* side by side and keeps the order of the files among them.               *)
THEOREM SortSafe == Spec => []SortCorrect
<1>1. TableInv => SortCorrect
  <2> SUFFICES ASSUME TableInv, phase # "parse"
               PROVE  /\ {signals[i] : i \in DOMAIN signals} = {list[i] : i \in DOMAIN list}
                      /\ Len(signals) = Len(list)
                      /\ \A i, j \in DOMAIN signals :
                           i < j /\ signals[i].key = signals[j].key =>
                             /\ signals[i].vref < signals[j].vref
                             /\ \A m \in i .. j : signals[m].key = signals[i].key
    BY DEF SortCorrect
  <2>1. ListInv /\ signals \in Seq(Sig) /\ Sorted(signals) /\ SameSignals(signals)
    BY DEF TableInv, SortInv
  <2>2. DOMAIN signals = 1 .. Len(signals) /\ DOMAIN list = 1 .. Len(list)
    BY <2>1, LenProperties DEF ListInv
  <2>3. {signals[i] : i \in DOMAIN signals} = {list[i] : i \in DOMAIN list}
    <3>1. ASSUME NEW x, x \in {signals[i] : i \in DOMAIN signals}
          PROVE  x \in {list[i] : i \in DOMAIN list}
      <4>1. PICK i \in 1 .. Len(signals) : x = signals[i]  BY <2>2, <3>1
      <4>2. PICK n \in 1 .. Len(list) : signals[i] = list[n]  BY <2>1 DEF SameSignals
      <4> QED  BY <2>2, <4>1, <4>2
    <3>2. ASSUME NEW x, x \in {list[i] : i \in DOMAIN list}
          PROVE  x \in {signals[i] : i \in DOMAIN signals}
      <4>1. PICK n \in 1 .. Len(list) : x = list[n]  BY <2>2, <3>2
      <4>2. PICK i \in 1 .. Len(signals) : signals[i] = list[n]  BY <2>1 DEF SameSignals
      <4> QED  BY <2>2, <4>1, <4>2
    <3> QED  BY <3>1, <3>2
  <2>4. Len(signals) = Len(list)
    BY <2>1, SortedLength
  <2>5. ASSUME NEW i \in 1 .. Len(signals), NEW j \in 1 .. Len(signals), i < j
        PROVE  \/ Rank(signals[i].key) < Rank(signals[j].key)
               \/ signals[i].key = signals[j].key /\ signals[i].vref < signals[j].vref
    BY <2>1, <2>5 DEF Sorted
  <2>6. \A i \in 1 .. Len(signals) : Rank(signals[i].key) \in Nat
    <3> TAKE i \in 1 .. Len(signals)
    <3>1. signals[i].key \in Key  BY <2>1, <2>2, SigFields
    <3> QED  BY <3>1, RankOfKey
  <2>7. ASSUME NEW i \in 1 .. Len(signals), NEW j \in 1 .. Len(signals), i < j,
               signals[i].key = signals[j].key
        PROVE  /\ signals[i].vref < signals[j].vref
               /\ \A m \in i .. j : signals[m].key = signals[i].key
    <3>1. ~(Rank(signals[i].key) < Rank(signals[j].key))
      BY <2>6, <2>7
    <3>2. ASSUME NEW m \in i .. j, m # i, m # j  PROVE signals[m].key = signals[i].key
      <4>1. m \in 1 .. Len(signals) /\ i < m /\ m < j
        BY <3>2
      <4>2. Rank(signals[i].key) < Rank(signals[m].key) \/ signals[i].key = signals[m].key
        BY <2>5, <4>1
      <4>3. Rank(signals[m].key) < Rank(signals[j].key) \/ signals[m].key = signals[j].key
        BY <2>5, <4>1
      <4> QED  BY <2>6, <2>7, <4>1, <4>2, <4>3
    <3> QED  BY <2>5, <2>7, <3>1, <3>2
  <2> QED  BY <2>2, <2>3, <2>4, <2>7
<1> QED  BY <1>1, TableInvariant, PTL

(* The marshal table partitions the source vector: groups without gap or   *)
(* overlap, each of one key, no key twice.                                 *)
THEOREM TableSafe == Spec => []TablePartitions
<1>1. TableInv => TablePartitions
  <2> SUFFICES ASSUME TableInv, phase = "done"  PROVE TablePartitions
    BY DEF TablePartitions
  <2> DEFINE n == Len(mg_table)
             T == mg_table
  <2>1. Partition(mg_table, Len(signals)) /\ signals \in Seq(Sig)
    BY DEF TableInv, DoneInv, SortInv
  <2>2. mg_table \in Seq(Group) /\ n \in Nat
    BY <2>1, LenProperties DEF Partition
  <2>3. n = 0 => signals = << >>
    BY <2>1, EmptySeq DEF Partition
  <2>4. \A i \in 1 .. n : Rank(T[i].key) \in Nat
    <3> TAKE i \in 1 .. n
    <3>1. T[i] \in Group  BY <2>2, ElementOfSeq
    <3> QED  BY <3>1, RankOfKey DEF Group
  <2>5. ASSUME NEW i \in 1 .. n, NEW j \in 1 .. n, T[i].key = T[j].key  PROVE i = j
    <3>1. ~(i < j) /\ ~(j < i)
      BY <2>1, <2>4, <2>5 DEF Partition
    <3> QED  BY <2>2, <3>1
  <2> QED  BY <2>1, <2>2, <2>3, <2>5 DEF TablePartitions, Partition, Run
<1> QED  BY <1>1, TableInvariant, PTL

(* The marshal table as the groups of variables MclModel works on: a       *)
(* variable is a place in the source vector.                               *)
TableGroups ==
  [m \in 1 .. Len(mg_table) |->
     [dir  |-> mg_table[m].key[3],
      type |-> mg_table[m].key[2],
      vars |-> {mg_table[m].offset + i : i \in 1 .. mg_table[m].count}]]

TableFitsModel == phase = "done" => IsMarshalTable(TableGroups)

(* What MclModel assumes of its groups holds for every table the engine    *)
(* generates: each group has a direction and a type of the enums, and no   *)
(* signal is in two groups, so that no FMI call moves another group's      *)
(* variable.                                                               *)
THEOREM TableFits == Spec => []TableFitsModel
<1>1. TableInv => TableFitsModel
  <2> SUFFICES ASSUME TableInv, phase = "done"  PROVE IsMarshalTable(TableGroups)
    BY DEF TableFitsModel
  <2> DEFINE N == Len(mg_table)
  <2>1. Partition(mg_table, Len(signals))
    BY DEF TableInv, DoneInv
  <2>2. N \in Nat /\ \A m \in 1 .. N : mg_table[m] \in Group
    BY <2>1, LenProperties, ElementOfSeq DEF Partition
  <2> HIDE DEF N
  <2>3. DOMAIN TableGroups = 1 .. N /\ Len(TableGroups) = N
    BY <2>2 DEF TableGroups, N
  <2>4. ASSUME NEW m \in 1 .. N
        PROVE  /\ TableGroups[m].dir \in {"NONE", "LOCAL", "RXONLY", "TXRX", "TXONLY", "PARAMETER"}
               /\ TableGroups[m].type \in {"NONE", "INT32", "DOUBLE", "BOOL", "STRING"}
    <3>1. PICK a \in 1 .. 3, b \in 1 .. 5, c \in 1 .. 6 :
            mg_table[m].key = <<KindOrder[a], TypeOrder[b], mDirOrder[c]>>
      <4>1. mg_table[m].key \in Key  BY <2>2 DEF Group
      <4> QED  BY <4>1 DEF Key
    <3>2. TableGroups[m].dir = mDirOrder[c] /\ TableGroups[m].type = TypeOrder[b]
      BY <3>1 DEF TableGroups, N
    <3>3. mDirOrder[c] \in {"NONE", "LOCAL", "RXONLY", "TXRX", "TXONLY", "PARAMETER"}
      BY DEF mDirOrder
    <3>4. TypeOrder[b] \in {"NONE", "INT32", "DOUBLE", "BOOL", "STRING"}
      BY DEF TypeOrder
    <3> QED  BY <3>2, <3>3, <3>4
  <2>5. ASSUME NEW m \in 1 .. N, NEW n \in 1 .. N, NEW x,
               x \in TableGroups[m].vars, x \in TableGroups[n].vars
        PROVE  m = n
    <3>1. PICK i \in 1 .. mg_table[m].count : x = mg_table[m].offset + i
      BY <2>5 DEF TableGroups, N
    <3>2. PICK j \in 1 .. mg_table[n].count : x = mg_table[n].offset + j
      BY <2>5 DEF TableGroups, N
    <3>3. signals[x].key = mg_table[m].key /\ signals[x].key = mg_table[n].key
      BY <2>1, <3>1, <3>2 DEF Partition, Run, N
    <3>4. Rank(mg_table[m].key) \in Nat /\ Rank(mg_table[n].key) = Rank(mg_table[m].key)
      BY <2>2, <3>3, RankOfKey DEF Group
    <3>5. ~(m < n) /\ ~(n < m)
      BY <2>1, <3>4 DEF Partition, N
    <3> QED  BY <2>2, <3>5
  <2>6. ASSUME NEW m \in 1 .. N, NEW n \in 1 .. N, m # n
        PROVE  TableGroups[m].vars \cap TableGroups[n].vars = {}
    BY <2>5, <2>6
  <2> QED  BY <2>2, <2>3, <2>4, <2>6 DEF IsMarshalTable
<1> QED  BY <1>1, TableInvariant, PTL

(* Where every signal has a known type, the measured range holds exactly   *)
(* the primitive signals.                                                  *)
THEOREM MeasuredRange == Spec => []MeasuredExact
<1>1. TableInv => MeasuredExact
  <2> SUFFICES ASSUME TableInv, phase # "parse",
                      \A i \in DOMAIN signals : signals[i].key[1] # "NONE",
                      NEW i \in DOMAIN signals
               PROVE  i <= MeasuredCount <=> signals[i].key[1] = "PRIMITIVE"
    BY DEF MeasuredExact
  <2> DEFINE other == {j \in DOMAIN signals : signals[j].key[1] # "PRIMITIVE"}
  <2>1. signals \in Seq(Sig) /\ Sorted(signals)
    BY DEF TableInv, SortInv
  <2>2. DOMAIN signals = 1 .. Len(signals) /\ Len(signals) \in Nat
    BY <2>1, LenProperties
  <2>3. CASE other = {}
    <3>1. MeasuredCount = Len(signals)  BY <2>3 DEF MeasuredCount
    <3> QED  BY <2>2, <2>3, <3>1
  <2>4. CASE other # {}
    <3>1. other \subseteq Nat  BY <2>2
    <3> DEFINE first == CHOOSE j \in other : \A m \in other : j <= m
    <3>2. MeasuredCount = first - 1  BY <2>4 DEF MeasuredCount
    <3>3. first \in other /\ \A m \in other : first <= m
      <4>1. \E j \in other : \A m \in other : j <= m
        <5> HIDE DEF other
        <5> QED  BY <2>4, <3>1, NatMin
      <4> QED  BY <4>1
    <3> HIDE DEF first
    <3>4. first \in 1 .. Len(signals) /\ signals[first].key[1] # "PRIMITIVE"
      BY <2>2, <3>3
    <3>5. CASE i < first
      <4>1. i \notin other  BY <2>2, <3>3, <3>4, <3>5
      <4>2. i <= first - 1  BY <2>2, <3>4, <3>5
      <4> QED  BY <3>2, <4>1, <4>2
    <3>6. CASE i = first
      BY <2>2, <3>2, <3>4, <3>6
    <3>7. CASE first < i
      <4>1. ~(i <= first - 1)  BY <2>2, <3>4, <3>7
      <4>2. signals[i].key \in Key /\ signals[first].key \in Key
        BY <2>1, <2>2, <3>4, SigFields
      <4>3. signals[first].key[1] = "BINARY"
        BY <2>2, <3>4, <4>2, RankOfKey
      <4>4. Rank(signals[first].key) > 96 /\ Rank(signals[first].key) \in Nat
        BY <4>2, <4>3, RankOfKey
      <4>5. Rank(signals[first].key) < Rank(signals[i].key) \/ signals[first].key = signals[i].key
        BY <2>1, <2>2, <3>4, <3>7 DEF Sorted
      <4>6. signals[i].key[1] = "PRIMITIVE" => Rank(signals[i].key) <= 96 /\ Rank(signals[i].key) \in Nat
        BY <4>2, RankOfKey
      <4>7. signals[i].key[1] # "PRIMITIVE"
        BY <4>4, <4>5, <4>6
      <4> QED  BY <3>2, <4>1, <4>7
    <3> QED  BY <2>2, <3>4, <3>5, <3>6, <3>7
  <2> QED  BY <2>3, <2>4
<1> QED  BY <1>1, TableInvariant, PTL
-----------------------------------------------------------------------------
(***************************************************************************)
(* The model: the inductive invariant.                                     *)
(***************************************************************************)
Values == [Var -> Value]

TypeInv ==
  /\ pc \in {"none", "init", "in0", "idle", "out", "step", "in", "failed", "fatal", "gone"}
  /\ g \in Nat /\ g >= 1
  /\ sv \in Values /\ source \in Values /\ target \in Values /\ fmu \in Values
  /\ model_time \in 0 .. MaxTime /\ fmu_time \in Nat
  /\ mdf = NoRecord \/ (mdf \in [time : Nat, values : Values] /\ mdf.time <= model_time)
  /\ outputs \in [0 .. MaxTime -> Values]
  /\ initial \in BOOLEAN

(* The clocks, for every place in the code; a step runs only when there is *)
(* time left for it, and nothing was marshalled or measured before the     *)
(* loop of model_create ends.                                              *)
ClockInv ==
  /\ pc \in {"none", "init", "in0", "idle", "out", "step"} => fmu_time = model_time
  /\ pc = "in" => fmu_time = model_time + 1
  /\ fmu_time \in {model_time, model_time + 1}
  /\ pc \in {"out", "step"} => model_time < MaxTime
  /\ pc = "in" => fmu_time <= MaxTime
  /\ pc \in {"none", "init", "in0"} => ~initial /\ model_time = 0 /\ mdf = NoRecord

(* While marshal_out runs: the target has the bus values, and the groups   *)
(* already passed have reached the FMU.                                    *)
OutInv ==
  /\ pc = "out" =>
       /\ \A v \in VarsOf(OutDirs) : target[v] = sv[v]
       /\ \A j \in DOMAIN Groups : j < g /\ Handled(j, OutDirs) =>
            \A v \in Groups[j].vars : fmu[v] = target[v]
  /\ InputsApplied

(* While marshal_in runs: the FMU stands at the outputs of its time, and   *)
(* the groups already passed are in the target.                            *)
InInv ==
  pc \in {"in0", "in"} =>
    /\ \A v \in Outputs : fmu[v] = outputs[fmu_time][v]
    /\ \A j \in DOMAIN Groups : j < g /\ Handled(j, InDirs) =>
         \A v \in Groups[j].vars : target[v] = fmu[v]

(* Both vectors on the model's side of the marshalling hold the outputs of *)
(* the model time.                                                         *)
BusInv ==
  (initial \/ model_time > 0) =>
    \A v \in Outputs : sv[v] = outputs[model_time][v] /\ source[v] = outputs[model_time][v]

MclInv == TypeInv /\ ClockInv /\ OutInv /\ InInv /\ BusInv /\ MeasuredAtTime
-----------------------------------------------------------------------------
(***************************************************************************)
(* Lemmas about the table and its vectors.                                 *)
(***************************************************************************)

(* Merging keeps a vector a vector.                                        *)
LEMMA MergeType ==
  ASSUME NEW old \in Values, NEW new \in Values, NEW V
  PROVE  /\ Merge(old, new, V) \in Values
         /\ \A v \in Var : v \in V => Merge(old, new, V)[v] = new[v]
         /\ \A v \in Var : v \notin V => Merge(old, new, V)[v] = old[v]
BY DEF Merge, Values

(* The assumptions, with the table expanded.                               *)
LEMMA GroupFacts ==
  /\ Len(Groups) \in Nat /\ DOMAIN Groups = 1 .. Len(Groups)
  /\ \A i \in DOMAIN Groups :
       /\ Groups[i].dir \in {"NONE", "LOCAL", "RXONLY", "TXRX", "TXONLY", "PARAMETER"}
       /\ Groups[i].type \in {"NONE", "INT32", "DOUBLE", "BOOL", "STRING"}
  /\ \A i, j \in DOMAIN Groups : i # j => Groups[i].vars \cap Groups[j].vars = {}
  /\ 0 \in Value
  /\ MaxTime \in Nat
BY MclAssumption DEF IsMarshalTable

LEMMA ZeroType == Zero \in Values
BY GroupFacts DEF Zero, Values

(* A variable belongs to one group, so its group is handled in the         *)
(* directions D exactly when it is one of VarsOf(D).                       *)
LEMMA VarsOfGroup ==
  ASSUME NEW D, NEW j \in DOMAIN Groups, NEW v \in Groups[j].vars
  PROVE  /\ v \in Var
         /\ v \in VarsOf(D) <=> Handled(j, D)
         /\ v \in Directed(D) <=> Groups[j].dir \in D
<1>1. v \in Var
  BY DEF Var
<1>2. \A i \in DOMAIN Groups : v \in Groups[i].vars => i = j
  BY GroupFacts
<1>3. v \in VarsOf(D) <=> Handled(j, D)
  BY <1>2 DEF VarsOf
<1>4. v \in Directed(D) <=> Groups[j].dir \in D
  BY <1>2 DEF Directed
<1> QED  BY <1>1, <1>3, <1>4

LEMMA VarsOfVar ==
  ASSUME NEW D, NEW v \in VarsOf(D)
  PROVE  v \in Var /\ \E j \in DOMAIN Groups : Handled(j, D) /\ v \in Groups[j].vars
BY DEF VarsOf, Var

(* What the FMU alone produces is marshalled in and never out.             *)
LEMMA OutputsIn ==
  ASSUME NEW v \in Outputs
  PROVE  v \in Var /\ v \in VarsOf(InDirs) /\ v \notin Directed(OutDirs)
<1>1. PICK j \in DOMAIN Groups : Handled(j, {"RXONLY", "LOCAL"}) /\ v \in Groups[j].vars
  BY VarsOfVar DEF Outputs
<1>2. Handled(j, InDirs) /\ Groups[j].dir \notin OutDirs
  BY <1>1 DEF Handled, InDirs, OutDirs
<1> QED  BY <1>1, <1>2, VarsOfGroup

(* The history at a time it records.                                       *)
LEMMA RecordedAt ==
  ASSUME outputs \in [0 .. MaxTime -> Values], NEW t \in 0 .. MaxTime, NEW x \in Values
  PROVE  /\ Recorded(t, x) \in [0 .. MaxTime -> Values]
         /\ \A v \in Outputs : Recorded(t, x)[t][v] = x[v]
         /\ \A n \in 0 .. MaxTime : n # t => Recorded(t, x)[n] = outputs[n]
<1>1. /\ Merge(Zero, x, Outputs) \in Values
      /\ \A v \in Outputs : Merge(Zero, x, Outputs)[v] = x[v]
  BY ZeroType, MergeType, OutputsIn
<1> QED  BY <1>1 DEF Recorded
-----------------------------------------------------------------------------
(***************************************************************************)
(* The invariant holds in the initial state and every action keeps it.     *)
(***************************************************************************)
LEMMA MclInit == ModelInit => MclInv
<1> SUFFICES ASSUME ModelInit  PROVE MclInv
  OBVIOUS
<1> USE GroupFacts, ZeroType DEF ModelInit
<1>1. TypeInv  BY DEF TypeInv
<1>2. ClockInv  BY DEF ClockInv
<1>3. OutInv /\ InInv  BY DEF OutInv, InInv, InputsApplied
<1>4. BusInv /\ MeasuredAtTime  BY DEF BusInv, MeasuredAtTime
<1> QED  BY <1>1, <1>2, <1>3, <1>4 DEF MclInv

LEMMA MclStep == MclInv /\ [ModelNext]_modelVars => MclInv'
<1> SUFFICES ASSUME MclInv, [ModelNext]_modelVars  PROVE MclInv'
  OBVIOUS
<1> USE GroupFacts
<1>a. TypeInv /\ ClockInv /\ OutInv /\ InInv /\ BusInv /\ MeasuredAtTime
  BY DEF MclInv
<1>1. ASSUME NEW ok \in BOOLEAN, Load(ok)  PROVE MclInv'
  <2>1. TypeInv'  BY <1>a, <1>1 DEF TypeInv, Load
  <2>2. ClockInv'  BY <1>a, <1>1 DEF ClockInv, Load
  <2>3. OutInv' /\ InInv'  BY <1>1 DEF OutInv, InInv, InputsApplied, Load
  <2>4. BusInv' /\ MeasuredAtTime'  BY <1>a, <1>1 DEF BusInv, MeasuredAtTime, Load
  <2> QED  BY <2>1, <2>2, <2>3, <2>4 DEF MclInv
<1>2. ASSUME NEW ok \in BOOLEAN, NEW start \in [Var -> Value], fmi2mcl_init(ok, start)
      PROVE  MclInv'
  <2>0. ~initial /\ model_time = 0 /\ fmu_time = 0 /\ mdf = NoRecord /\ 0 \in 0 .. MaxTime
    BY <1>a, <1>2 DEF ClockInv, fmi2mcl_init
  <2>a. start \in Values  BY DEF Values
  <2>b. /\ Recorded(0, start) \in [0 .. MaxTime -> Values]
        /\ \A v \in Outputs : Recorded(0, start)[0][v] = start[v]
    BY <1>a, <2>0, <2>a, RecordedAt DEF TypeInv
  <2>1. TypeInv'  BY <1>a, <1>2, <2>0, <2>a, <2>b DEF TypeInv, fmi2mcl_init
  <2>2. ClockInv'  BY <1>a, <1>2 DEF ClockInv, fmi2mcl_init
  <2>3. OutInv'  BY <1>2 DEF OutInv, InputsApplied, fmi2mcl_init
  <2>4. InInv'  BY <1>a, <1>2, <2>0, <2>b DEF InInv, TypeInv, fmi2mcl_init
  <2>5. BusInv' /\ MeasuredAtTime'  BY <1>2, <2>0 DEF BusInv, MeasuredAtTime, fmi2mcl_init
  <2> QED  BY <2>1, <2>2, <2>3, <2>4, <2>5 DEF MclInv
<1>3. ASSUME NEW rc \in {0, 1}, GetGroup(rc)  PROVE MclInv'
  <2>1. TypeInv'
    <3>1. Merge(target, fmu, Groups[g].vars) \in Values
      BY <1>a, MergeType DEF TypeInv
    <3> QED  BY <1>a, <1>3, <3>1 DEF TypeInv, GetGroup
  <2>2. ClockInv'  BY <1>a, <1>3 DEF ClockInv, GetGroup
  <2>3. OutInv'  BY <1>3 DEF OutInv, InputsApplied, GetGroup
  <2>4. InInv'
    <3> SUFFICES ASSUME pc' \in {"in0", "in"}, NEW j \in DOMAIN Groups, j < g',
                        Handled(j, InDirs), NEW v \in Groups[j].vars
                 PROVE  target'[v] = fmu[v]
      BY <1>a, <1>3 DEF InInv, GetGroup
    <3>1. rc = 0 /\ g' = g + 1 /\ pc \in {"in0", "in"} /\ g \in DOMAIN Groups
      BY <1>a, <1>3 DEF GetGroup, TypeInv
    <3>2. v \in Var  BY VarsOfGroup
    <3>3. CASE j = g
      BY <1>a, <1>3, <3>1, <3>2, <3>3, MergeType DEF GetGroup, TypeInv, InInv
    <3>4. CASE j < g
      BY <1>a, <1>3, <3>1, <3>2, <3>4, MergeType DEF GetGroup, TypeInv, InInv
    <3> QED  BY <1>a, <3>1, <3>3, <3>4 DEF TypeInv
  <2>5. BusInv' /\ MeasuredAtTime'  BY <1>a, <1>3 DEF BusInv, MeasuredAtTime, GetGroup
  <2> QED  BY <2>1, <2>2, <2>3, <2>4, <2>5 DEF MclInv
<1>4. ASSUME MarshalInDone  PROVE MclInv'
  <2> DEFINE new == Merge(source, target, VarsOf(InDirs))
  <2>0. new \in Values /\ source' = new /\ sv' = new
    BY <1>a, <1>4, MergeType DEF TypeInv, MarshalInDone
  <2>1. TypeInv'  BY <1>a, <1>4, <2>0 DEF TypeInv, ClockInv, MarshalInDone
  <2>2. ClockInv'  BY <1>a, <1>4 DEF ClockInv, TypeInv, MarshalInDone
  <2>3. OutInv' /\ InInv'  BY <1>4 DEF OutInv, InInv, InputsApplied, MarshalInDone
  <2>4. ASSUME NEW v \in Outputs  PROVE new[v] = outputs[model_time'][v]
    <3>1. PICK j \in DOMAIN Groups : Handled(j, InDirs) /\ v \in Groups[j].vars
      BY OutputsIn, VarsOfVar
    <3>2. target[v] = fmu[v] /\ fmu[v] = outputs[fmu_time][v]
      BY <1>a, <1>4, <3>1 DEF InInv, MarshalInDone, TypeInv
    <3>3. new[v] = target[v]
      BY <1>a, OutputsIn, MergeType DEF TypeInv
    <3>4. model_time' = fmu_time
      BY <1>a, <1>4 DEF ClockInv, MarshalInDone
    <3> QED  BY <3>2, <3>3, <3>4
  <2>5. BusInv'  BY <1>4, <2>0, <2>4 DEF BusInv, MarshalInDone
  <2>6. MeasuredAtTime'
    BY <1>a, <1>4 DEF MeasuredAtTime, ClockInv, MarshalInDone
  <2> QED  BY <2>1, <2>2, <2>3, <2>5, <2>6 DEF MclInv
<1>5. ASSUME NEW x \in [Var -> Value], BusChanges(x)  PROVE MclInv'
  <2>0. x \in Values  BY DEF Values
  <2>1. TypeInv'  BY <1>a, <1>5, <2>0, MergeType DEF TypeInv, BusChanges
  <2>2. ClockInv'  BY <1>a, <1>5 DEF ClockInv, BusChanges
  <2>3. OutInv' /\ InInv'  BY <1>5 DEF OutInv, InInv, InputsApplied, BusChanges
  <2>4. \A v \in Outputs : sv'[v] = sv[v]
    BY <1>a, <1>5, <2>0, OutputsIn, MergeType DEF TypeInv, BusChanges
  <2>5. BusInv' /\ MeasuredAtTime'
    BY <1>a, <1>5, <2>4 DEF BusInv, MeasuredAtTime, BusChanges
  <2> QED  BY <2>1, <2>2, <2>3, <2>5 DEF MclInv
<1>6. ASSUME StepBegin  PROVE MclInv'
  <2>0. target' \in Values /\ \A v \in VarsOf(OutDirs) : target'[v] = sv[v]
    BY <1>a, <1>6, MergeType, VarsOfVar DEF TypeInv, StepBegin
  <2>1. TypeInv'  BY <1>a, <1>6, <2>0 DEF TypeInv, StepBegin
  <2>2. ClockInv'  BY <1>a, <1>6 DEF ClockInv, StepBegin
  <2>3. OutInv'  BY <1>6, <2>0 DEF OutInv, InputsApplied, StepBegin
  <2>4. InInv'  BY <1>6 DEF InInv, StepBegin
  <2>5. BusInv' /\ MeasuredAtTime'
    BY <1>a, <1>6 DEF BusInv, MeasuredAtTime, StepBegin
  <2> QED  BY <2>1, <2>2, <2>3, <2>4, <2>5 DEF MclInv
<1>7. ASSUME NEW rc \in {0, 1}, SetGroup(rc)  PROVE MclInv'
  <2>1. TypeInv'
    <3>1. Merge(fmu, target, Groups[g].vars) \in Values
      BY <1>a, MergeType DEF TypeInv
    <3> QED  BY <1>a, <1>7, <3>1 DEF TypeInv, SetGroup
  <2>2. ClockInv'  BY <1>a, <1>7 DEF ClockInv, SetGroup
  <2>3. OutInv'
    <3> SUFFICES ASSUME pc' = "out", NEW j \in DOMAIN Groups, j < g',
                        Handled(j, OutDirs), NEW v \in Groups[j].vars
                 PROVE  fmu'[v] = target[v]
      BY <1>a, <1>7 DEF OutInv, InputsApplied, SetGroup
    <3>1. rc = 0 /\ g' = g + 1 /\ pc = "out" /\ g \in DOMAIN Groups
      BY <1>a, <1>7 DEF SetGroup, TypeInv
    <3>2. v \in Var  BY VarsOfGroup
    <3>3. CASE j = g
      BY <1>a, <1>7, <3>1, <3>2, <3>3, MergeType DEF SetGroup, TypeInv
    <3>4. CASE j < g
      BY <1>a, <1>7, <3>1, <3>2, <3>4, MergeType DEF SetGroup, TypeInv, OutInv
    <3> QED  BY <1>a, <3>1, <3>3, <3>4 DEF TypeInv
  <2>4. InInv'  BY <1>7 DEF InInv, SetGroup
  <2>5. BusInv' /\ MeasuredAtTime'  BY <1>a, <1>7 DEF BusInv, MeasuredAtTime, SetGroup
  <2> QED  BY <2>1, <2>2, <2>3, <2>4, <2>5 DEF MclInv
<1>8. ASSUME MarshalOutDone  PROVE MclInv'
  <2>1. TypeInv'  BY <1>a, <1>8 DEF TypeInv, MarshalOutDone
  <2>2. ClockInv'  BY <1>a, <1>8 DEF ClockInv, MarshalOutDone
  <2>3. OutInv'
    <3> SUFFICES ASSUME NEW v \in VarsOf(OutDirs)  PROVE fmu[v] = sv[v]
      BY <1>8 DEF OutInv, InputsApplied, MarshalOutDone
    <3>1. PICK j \in DOMAIN Groups : Handled(j, OutDirs) /\ v \in Groups[j].vars
      BY VarsOfVar
    <3> QED  BY <1>a, <1>8, <3>1 DEF OutInv, MarshalOutDone, TypeInv
  <2>4. InInv'  BY <1>8 DEF InInv, MarshalOutDone
  <2>5. BusInv' /\ MeasuredAtTime'  BY <1>a, <1>8 DEF BusInv, MeasuredAtTime, MarshalOutDone
  <2> QED  BY <2>1, <2>2, <2>3, <2>4, <2>5 DEF MclInv
<1>9. ASSUME NEW rc \in {"OK", "Warning", "Error"}, NEW x \in [Var -> Value], fmi2mcl_step(rc, x)
      PROVE  MclInv'
  <2>0. /\ fmu' \in Values
        /\ rc # "Error" => fmu_time' = fmu_time + 1 /\ outputs' = Recorded(fmu_time + 1, fmu')
        /\ rc = "Error" => fmu_time' = fmu_time /\ outputs' = outputs
    <3>1. x \in Values  BY DEF Values
    <3> QED  BY <1>a, <1>9, <3>1, MergeType DEF TypeInv, fmi2mcl_step
  <2>1. fmu_time = model_time /\ model_time < MaxTime /\ model_time \in Nat
    BY <1>a, <1>9 DEF ClockInv, TypeInv, fmi2mcl_step
  <2>a. /\ Recorded(fmu_time + 1, fmu') \in [0 .. MaxTime -> Values]
        /\ \A v \in Outputs : Recorded(fmu_time + 1, fmu')[fmu_time + 1][v] = fmu'[v]
        /\ \A n \in 0 .. MaxTime : n # fmu_time + 1 =>
             Recorded(fmu_time + 1, fmu')[n] = outputs[n]
    <3>1. fmu_time + 1 \in 0 .. MaxTime  BY <2>1
    <3>2. outputs \in [0 .. MaxTime -> Values]  BY <1>a DEF TypeInv
    <3> QED  BY <2>0, <3>1, <3>2, RecordedAt
  <2>2. TypeInv'  BY <1>a, <1>9, <2>0, <2>1, <2>a DEF TypeInv, fmi2mcl_step
  <2>3. ClockInv'  BY <1>a, <1>9, <2>0, <2>1 DEF ClockInv, fmi2mcl_step
  <2>4. OutInv'  BY <1>9 DEF OutInv, InputsApplied, fmi2mcl_step
  <2>5. InInv'
    <3> SUFFICES ASSUME rc = "OK", NEW v \in Outputs  PROVE fmu'[v] = outputs'[fmu_time'][v]
      BY <1>9 DEF InInv, fmi2mcl_step
    <3> QED  BY <2>0, <2>a
  <2>6. \A t \in 0 .. model_time : outputs'[t] = outputs[t]
    BY <1>a, <2>0, <2>1, <2>a DEF TypeInv
  <2>7. BusInv'  BY <1>a, <1>9, <2>1, <2>6 DEF BusInv, fmi2mcl_step
  <2>8. MeasuredAtTime'
    BY <1>a, <1>9, <2>1, <2>6 DEF MeasuredAtTime, TypeInv, fmi2mcl_step
  <2> QED  BY <2>2, <2>3, <2>4, <2>5, <2>7, <2>8 DEF MclInv
<1>10. ASSUME model_destroy  PROVE MclInv'
  <2>1. TypeInv'  BY <1>a, <1>10 DEF TypeInv, model_destroy
  <2>2. ClockInv'  BY <1>a, <1>10 DEF ClockInv, model_destroy
  <2>3. OutInv' /\ InInv'  BY <1>10 DEF OutInv, InInv, InputsApplied, model_destroy
  <2>4. BusInv' /\ MeasuredAtTime'  BY <1>a, <1>10 DEF BusInv, MeasuredAtTime, model_destroy
  <2> QED  BY <2>1, <2>2, <2>3, <2>4 DEF MclInv
<1>11. ASSUME UNCHANGED modelVars  PROVE MclInv'
  BY <1>a, <1>11 DEF modelVars, MclInv, TypeInv, ClockInv, OutInv, InputsApplied, InInv, BusInv,
                     MeasuredAtTime
<1> QED
  BY <1>1, <1>2, <1>3, <1>4, <1>5, <1>6, <1>7, <1>8, <1>9, <1>10, <1>11 DEF ModelNext, ModelDone

LEMMA MclInvariant == ModelSpec => []MclInv
BY MclInit, MclStep, PTL DEF ModelSpec
-----------------------------------------------------------------------------
(***************************************************************************)
(* Theorems.                                                               *)
(***************************************************************************)

(* When model_step calls doStep, every input, inout and parameter of a     *)
(* known type has the value that is on the bus: no group but the untyped   *)
(* was passed over, and the bus did not change meanwhile (model.c,         *)
(* fmi2mcl_marshal_out).                                                   *)
THEOREM InputsSafe == ModelSpec => []InputsApplied
<1>1. MclInv => InputsApplied  BY DEF MclInv, OutInv
<1> QED  BY <1>1, MclInvariant, PTL

(* The outputs of a known type on the bus are those of one instant, the    *)
(* model time, whichever FMI call of whichever step failed                 *)
(* (fmi2mcl_marshal_in).                                                   *)
THEOREM BusSafe == ModelSpec => []BusAtModelTime
<1>1. MclInv => BusAtModelTime  BY DEF MclInv, BusInv, BusAtModelTime
<1> QED  BY <1>1, MclInvariant, PTL

(* The FMU's clock and the model time agree between steps, and differ by   *)
(* at most the one step that failed (model_step).                          *)
THEOREM ClocksSafe == ModelSpec => []ClocksAgree
<1>1. MclInv => ClocksAgree  BY DEF MclInv, ClockInv, ClocksAgree
<1> QED  BY <1>1, MclInvariant, PTL

(* A measurement record has the FMU's outputs at the record's time         *)
(* (model_step, where mdf is written before the vectors are refilled).     *)
THEOREM MeasuredSafe == ModelSpec => []MeasuredAtTime
<1>1. MclInv => MeasuredAtTime  BY DEF MclInv
<1> QED  BY <1>1, MclInvariant, PTL
=============================================================================
