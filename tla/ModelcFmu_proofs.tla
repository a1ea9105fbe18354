-------------------------- MODULE ModelcFmu_proofs --------------------------
(***************************************************************************)
(* Proofs about DirectIndex, and about ModelcFmu, which extends it.  Of    *)
(* the index: whatever channels and signals are collected, the scalars of  *)
(* the map are disjoint and inside it.  Of the FMU: whatever the folder,   *)
(* a value reference leads to the signal it was annotated for.             *)
(***************************************************************************)
EXTENDS ModelcFmu, FlattenLemmas, TLAPS

(* The groups have their type, and the loop position is one of them.       *)
IndexTypeOK ==
  /\ groups \in Seq(Group)
  /\ group \in 0..Len(groups)
  /\ groupOffset \in Nat

(* The groups before the loop position have their length and end at or     *)
(* before the start of the next one; all end at or before groupOffset.     *)
OffsetsOrdered ==
  /\ \A g \in 1..group :
       /\ groups[g].length = Len(groups[g].signals)
       /\ groups[g].offset + groups[g].length <= groupOffset
  /\ \A g, h \in 1..group :
       g < h => groups[g].offset + groups[g].length <= groups[h].offset

IndexInv == IndexTypeOK /\ OffsetsOrdered

(* Appending a group and changing the signals of groups keep the type.     *)
LEMMA GetSignalGroupType ==
  ASSUME IndexTypeOK, NEW c \in Channel
  PROVE  /\ getSignalGroup(c) \in Seq(Group)
         /\ Len(groups) <= Len(getSignalGroup(c))
  <1>1. [name |-> c, signals |-> << >>, offset |-> 0, length |-> 0] \in Group
    BY DEF Group
  <1> QED
    BY <1>1 DEF IndexTypeOK, getSignalGroup

LEMMA AddSignalType ==
  ASSUME IndexTypeOK, NEW c \in Channel, NEW s \in Signal, AddSignal(c, s)
  PROVE  groups' \in Seq(Group) /\ Len(groups') = Len(groups)
  <1> DEFINE F(g) == IF groups[g].name = c /\ ~Elem(s, groups[g].signals)
                       THEN [groups[g] EXCEPT !.signals = Append(groups[g].signals, s)]
                       ELSE groups[g]
  <1>1. DOMAIN groups = 1..Len(groups) /\ Len(groups) \in Nat
    BY DEF IndexTypeOK
  <1>2. ASSUME NEW g \in 1..Len(groups) PROVE F(g) \in Group
    <2>1. groups[g] \in Group
      BY <1>1, <1>2 DEF IndexTypeOK
    <2>2. groups[g].signals \in Seq(Signal)
      BY <2>1 DEF Group
    <2>3. Append(groups[g].signals, s) \in Seq(Signal)
      BY <2>2
    <2>4. [groups[g] EXCEPT !.signals = Append(groups[g].signals, s)] \in Group
      BY <2>1, <2>3 DEF Group
    <2> QED
      BY <2>1, <2>4
  <1>3. groups' = [g \in 1..Len(groups) |-> F(g)]
    BY <1>1 DEF AddSignal
  <1> HIDE DEF F
  <1> QED
    BY <1>1, <1>2, <1>3

(* Initially no group is there.                                            *)
LEMMA IndexInit == NewDirectIndex => IndexInv
  BY DEF NewDirectIndex, IndexInv, IndexTypeOK, OffsetsOrdered

(* Collecting keeps the invariant: no offset is calculated yet.            *)
LEMMA CollectStep ==
  ASSUME IndexInv,
         \/ \E c \in Channel : GetSignalGroup(c)
         \/ \E c \in Channel, s \in Signal : AddSignal(c, s)
  PROVE  IndexInv'
  <1>1. group = 0 /\ group' = 0 /\ groupOffset' = groupOffset
    BY DEF GetSignalGroup, AddSignal
  <1>2. groups' \in Seq(Group)
    <2>1. CASE \E c \in Channel : GetSignalGroup(c)
      BY <2>1, GetSignalGroupType DEF IndexInv, GetSignalGroup
    <2>2. CASE \E c \in Channel, s \in Signal : AddSignal(c, s)
      BY <2>2, AddSignalType DEF IndexInv
    <2> QED
      BY <2>1, <2>2
  <1> QED
    BY <1>1, <1>2 DEF IndexInv, IndexTypeOK, OffsetsOrdered

(* A turn of the loop starts the next group at groupOffset, behind the end *)
(* of all groups before it.                                                *)
LEMMA OffsetStep ==
  ASSUME IndexInv, CalculateMapOffsets
  PROVE  IndexInv'
  <1> DEFINE n == group + 1
             new == [name    |-> groups[n].name,
                     signals |-> groups[n].signals,
                     offset  |-> groupOffset,
                     length  |-> Len(groups[n].signals)]
  <1>1. n \in 1..Len(groups) /\ Len(groups) \in Nat /\ n \in Nat /\ group' = n
    BY DEF IndexInv, IndexTypeOK, CalculateMapOffsets
  <1>2. groups[n] \in Group /\ Len(groups[n].signals) \in Nat
    <2>1. groups[n] \in Group
      BY <1>1 DEF IndexInv, IndexTypeOK
    <2>2. groups[n].signals \in Seq(Signal)
      BY <2>1 DEF Group
    <2> QED
      BY <2>1, <2>2
  <1>3. new \in Group
    BY <1>2 DEF Group, IndexInv, IndexTypeOK
  <1>4. groups' = [groups EXCEPT ![n] = new]
    BY DEF CalculateMapOffsets
  <1>5. groupOffset' = groupOffset + Len(groups[n].signals) /\ groupOffset' \in Nat
    BY <1>2 DEF CalculateMapOffsets, NextGroupOffset, IndexInv, IndexTypeOK
  <1>6. groups' \in Seq(Group) /\ Len(groups') = Len(groups)
    BY <1>1, <1>3, <1>4 DEF IndexInv, IndexTypeOK
  <1>7. groups'[n] = new /\ \A g \in 1..group : groups'[g] = groups[g]
    BY <1>1, <1>4 DEF IndexInv, IndexTypeOK
  <1>8. \A g \in 1..group : groups[g] \in Group
    BY DEF IndexInv, IndexTypeOK
  <1>9. IndexTypeOK'
    BY <1>1, <1>5, <1>6 DEF IndexTypeOK
  <1>10. \A g \in 1..n :
           /\ groups'[g].length = Len(groups'[g].signals)
           /\ groups'[g].offset + groups'[g].length <= groupOffset'
    <2> SUFFICES ASSUME NEW g \in 1..n
                 PROVE  /\ groups'[g].length = Len(groups'[g].signals)
                        /\ groups'[g].offset + groups'[g].length <= groupOffset'
      OBVIOUS
    <2>1. CASE g = n
      <3>1. /\ groups'[g].length = Len(groups[n].signals)
            /\ groups'[g].signals = groups[n].signals
            /\ groups'[g].offset = groupOffset
        BY <2>1, <1>7
      <3> QED
        BY <3>1, <1>5
    <2>2. CASE g # n
      <3>1. g \in 1..group
        BY <2>2, <1>1 DEF IndexInv, IndexTypeOK
      <3>2. groups[g].offset \in Nat /\ groups[g].length \in Nat
        BY <3>1, <1>8 DEF Group
      <3>3. /\ groups[g].length = Len(groups[g].signals)
            /\ groups[g].offset + groups[g].length <= groupOffset
        BY <3>1 DEF IndexInv, OffsetsOrdered
      <3>4. groupOffset <= groupOffset' /\ groupOffset \in Nat
        BY <1>2, <1>5 DEF IndexInv, IndexTypeOK
      <3>5. groups'[g] = groups[g]
        BY <3>1, <1>7
      <3>6. groups[g].offset + groups[g].length <= groupOffset'
        BY <3>2, <3>3, <3>4, <1>5
      <3> QED
        BY <3>3, <3>5, <3>6
    <2> QED
      BY <2>1, <2>2
  <1>11. \A g, h \in 1..n :
           g < h => groups'[g].offset + groups'[g].length <= groups'[h].offset
    <2> SUFFICES ASSUME NEW g \in 1..n, NEW h \in 1..n, g < h
                 PROVE  groups'[g].offset + groups'[g].length <= groups'[h].offset
      OBVIOUS
    <2>1. g \in 1..group
      BY <1>1 DEF IndexInv, IndexTypeOK
    <2>2. CASE h = n
      BY <2>1, <2>2, <1>7 DEF IndexInv, OffsetsOrdered
    <2>3. CASE h # n
      <3>1. h \in 1..group
        BY <2>3, <1>1 DEF IndexInv, IndexTypeOK
      <3> QED
        BY <2>1, <3>1, <1>7 DEF IndexInv, OffsetsOrdered
    <2> QED
      BY <2>2, <2>3
  <1>12. OffsetsOrdered'
    BY <1>1, <1>10, <1>11 DEF OffsetsOrdered
  <1> HIDE DEF n, new
  <1> QED
    BY <1>9, <1>12 DEF IndexInv

(* Every step of the index keeps the invariant.                            *)
LEMMA IndexStep == IndexInv /\ [DirectIndexNext]_diVars => IndexInv'
  <1> SUFFICES ASSUME IndexInv, [DirectIndexNext]_diVars PROVE IndexInv'
    OBVIOUS
  <1>1. CASE CalculateMapOffsets
    BY <1>1, OffsetStep
  <1>2. CASE \/ \E c \in Channel : GetSignalGroup(c)
             \/ \E c \in Channel, s \in Signal : AddSignal(c, s)
    BY <1>2, CollectStep
  <1>3. CASE UNCHANGED diVars
    BY <1>3 DEF diVars, IndexInv, IndexTypeOK, OffsetsOrdered
  <1> QED
    BY <1>1, <1>2, <1>3 DEF DirectIndexNext

(* The numbers behind a block of the map: a scalar lies in the first third *)
(* of its block.                                                           *)
LEMMA SlotArithmetic ==
  ASSUME NEW a \in Nat, NEW n \in Nat, NEW i \in 1..n
  PROVE  /\ a * 24 + (i - 1) * 8 \in Nat
         /\ a * 24 <= a * 24 + (i - 1) * 8
         /\ a * 24 + (i - 1) * 8 + 8 <= a * 24 + n * 8
         /\ a * 24 + n * 8 <= (a + n) * 24
  OBVIOUS

LEMMA BlockArithmetic ==
  ASSUME NEW a \in Nat, NEW b \in Nat, a <= b
  PROVE  a * 24 \in Nat /\ b * 24 \in Nat /\ a * 24 <= b * 24
  OBVIOUS

(* A group that is done: its fields, and where its scalars lie.            *)
LEMMA DoneGroup ==
  ASSUME IndexInv, NEW k \in 1..group
  PROVE  /\ groups[k].offset \in Nat
         /\ groups[k].length \in Nat
         /\ groups[k].offset + groups[k].length <= groupOffset
         /\ groups[k].offset * 24 <= FieldsOf(k)
         /\ FieldsOf(k) <= BlockEnd(k)
         /\ FieldsOf(k) \in Nat /\ BlockEnd(k) \in Nat
         /\ BlockEnd(k) <= MapSize
         /\ \A i \in DOMAIN groups[k].signals :
              /\ i \in 1..groups[k].length
              /\ Offset(k, i) \in Nat
              /\ groups[k].offset * 24 <= Offset(k, i)
              /\ Offset(k, i) + 8 <= FieldsOf(k)
  <1>1. groups[k] \in Group
    BY DEF IndexInv, IndexTypeOK
  <1>2. groups[k].offset \in Nat /\ groups[k].length \in Nat /\ groupOffset \in Nat
    BY <1>1 DEF Group, IndexInv, IndexTypeOK
  <1>3. groups[k].signals \in Seq(Signal)
    BY <1>1 DEF Group
  <1>4. DOMAIN groups[k].signals = 1..groups[k].length
    BY <1>3 DEF IndexInv, OffsetsOrdered
  <1>5. groups[k].offset + groups[k].length <= groupOffset
    BY DEF IndexInv, OffsetsOrdered
  <1>6. /\ groups[k].offset * 24 <= FieldsOf(k)
        /\ FieldsOf(k) <= BlockEnd(k)
        /\ FieldsOf(k) \in Nat /\ BlockEnd(k) \in Nat
    BY <1>2 DEF FieldsOf, BlockEnd
  <1>7. BlockEnd(k) <= MapSize
    BY <1>2, <1>5, BlockArithmetic DEF BlockEnd, MapSize
  <1>8. ASSUME NEW i \in DOMAIN groups[k].signals
        PROVE  /\ i \in 1..groups[k].length
               /\ Offset(k, i) \in Nat
               /\ groups[k].offset * 24 <= Offset(k, i)
               /\ Offset(k, i) + 8 <= FieldsOf(k)
    BY <1>2, <1>4, <1>8, SlotArithmetic DEF Offset, FieldsOf
  <1> QED
    BY <1>2, <1>5, <1>6, <1>7, <1>8

(* A group before another one ends where that one starts, or before.       *)
LEMMA GroupBefore ==
  ASSUME IndexInv, NEW g \in 1..group, NEW h \in 1..group, g < h
  PROVE  BlockEnd(g) <= groups[h].offset * 24
  <1>1. groups[g].offset + groups[g].length <= groups[h].offset
    BY DEF IndexInv, OffsetsOrdered
  <1>2. groups[g].offset + groups[g].length \in Nat /\ groups[h].offset \in Nat
    BY DoneGroup
  <1> QED
    BY <1>1, <1>2, BlockArithmetic DEF BlockEnd

(* The ordered offsets keep the scalars apart and inside the map.          *)
LEMMA OrderedSlots == IndexInv => DirectSlots
  <1> SUFFICES ASSUME IndexInv,
                      NEW g \in 1..group, NEW i \in DOMAIN groups[g].signals
               PROVE  /\ Offset(g, i) + 8 <= MapSize
                      /\ \A h \in 1..group :
                           /\ Clear(Offset(g, i), FieldsOf(h), BlockEnd(h))
                           /\ \A j \in DOMAIN groups[h].signals :
                                <<g, i>> # <<h, j>> =>
                                  Clear(Offset(g, i), Offset(h, j), Offset(h, j) + 8)
    BY DEF DirectSlots
  <1>1. groupOffset \in Nat /\ group \in Nat /\ MapSize \in Nat
    BY DEF IndexInv, IndexTypeOK, MapSize
  <1>2. /\ Offset(g, i) \in Nat
        /\ groups[g].offset * 24 <= Offset(g, i)
        /\ Offset(g, i) + 8 <= FieldsOf(g)
        /\ FieldsOf(g) <= BlockEnd(g) /\ BlockEnd(g) <= MapSize
        /\ FieldsOf(g) \in Nat /\ BlockEnd(g) \in Nat
        /\ groups[g].offset * 24 \in Nat
    BY DoneGroup, BlockArithmetic
  <1>3. Offset(g, i) + 8 <= MapSize
    BY <1>1, <1>2
  <1>4. ASSUME NEW h \in 1..group
        PROVE  /\ groups[h].offset * 24 \in Nat
               /\ groups[h].offset * 24 <= FieldsOf(h)
               /\ FieldsOf(h) <= BlockEnd(h)
               /\ FieldsOf(h) \in Nat /\ BlockEnd(h) \in Nat
               /\ g < h => BlockEnd(g) <= groups[h].offset * 24
               /\ h < g => BlockEnd(h) <= groups[g].offset * 24
    BY <1>4, DoneGroup, GroupBefore
  <1>5. ASSUME NEW h \in 1..group
        PROVE  Clear(Offset(g, i), FieldsOf(h), BlockEnd(h))
    <2>1. CASE g < h
      BY <2>1, <1>2, <1>4 DEF Clear
    <2>2. CASE h < g
      BY <2>2, <1>2, <1>4 DEF Clear
    <2>3. CASE g = h
      BY <2>3, <1>2 DEF Clear
    <2> QED
      BY <2>1, <2>2, <2>3, <1>1
  <1>6. ASSUME NEW h \in 1..group, NEW j \in DOMAIN groups[h].signals,
               <<g, i>> # <<h, j>>
        PROVE  Clear(Offset(g, i), Offset(h, j), Offset(h, j) + 8)
    <2>1. /\ Offset(h, j) \in Nat
          /\ groups[h].offset * 24 <= Offset(h, j)
          /\ Offset(h, j) + 8 <= FieldsOf(h)
      BY DoneGroup
    <2>2. CASE g < h
      BY <2>1, <2>2, <1>2, <1>4 DEF Clear
    <2>3. CASE h < g
      BY <2>1, <2>3, <1>2, <1>4 DEF Clear
    <2>4. CASE g = h
      <3>1. i # j /\ i \in Nat /\ j \in Nat /\ i >= 1 /\ j >= 1
        BY <2>4, <1>6, DoneGroup
      <3>2. groups[g].offset \in Nat
        BY DoneGroup
      <3> QED
        BY <2>4, <3>1, <3>2 DEF Offset, Clear
    <2> QED
      BY <2>2, <2>3, <2>4, <1>1
  <1> QED
    BY <1>3, <1>5, <1>6

(* The scalars of the map are disjoint, inside it and off the other        *)
(* arrays, for all channels and signals collected in any order             *)
(* (calculateMapOffsets of directindex.go).                                *)
THEOREM DirectSlotsHold == DirectIndexSpec => []DirectSlots
  <1>1. DirectIndexSpec => []IndexInv
    BY IndexInit, IndexStep, PTL DEF DirectIndexSpec
  <1> QED
    BY <1>1, OrderedSlots, PTL
-----------------------------------------------------------------------------
(***************************************************************************)
(* The simulation folder.                                                  *)
(***************************************************************************)
FolderInv == docs \in Documents

LEMMA FolderFacts ==
  ASSUME FolderInv
  PROVE  /\ Len(docs) \in Nat /\ DOMAIN docs = 1 .. Len(docs)
         /\ \A d \in DOMAIN docs : IsDocument(docs[d])
<1>1. Len(docs) \in Nat
  BY DocumentAssumption DEF FolderInv
<1>2. docs = [d \in 1 .. Len(docs) |-> docs[d]]
  BY DocumentAssumption DEF FolderInv
<1>3. DOMAIN docs = 1 .. Len(docs)
  BY <1>2
<1>4. \A d \in 1 .. Len(docs) : IsDocument(docs[d])
  BY DocumentAssumption DEF FolderInv
<1> QED
  BY <1>1, <1>3, <1>4

LEMMA SignalFacts ==
  ASSUME FolderInv, NEW d \in DOMAIN docs
  PROVE  /\ Len(docs[d].signals) \in Nat /\ DOMAIN docs[d].signals = 1 .. Len(docs[d].signals)
         /\ \A i \in DOMAIN docs[d].signals :
              /\ Sig(d, i).signal \in Signal
              /\ ~docs[d].binary => Sig(d, i).vref = NULL
<1> DEFINE R == [signal : Signal, causality : {"input", "output", "local", NULL},
                 vref : Nat \cup {NULL}, rx : SUBSET Nat, tx : SUBSET Nat,
                 text : SUBSET Nat, encoding : {"ascii85", "none"}]
<1>1. /\ docs[d].signals \in Seq(R)
      /\ ~docs[d].binary => \A i \in DOMAIN docs[d].signals : docs[d].signals[i].vref = NULL
  BY FolderFacts DEF IsDocument
<1>2. \A r \in R : r.signal \in Signal
  OBVIOUS
<1> HIDE DEF R
<1>3. \A i \in DOMAIN docs[d].signals : docs[d].signals[i] \in R
  BY <1>1
<1> QED
  BY <1>1, <1>2, <1>3 DEF Sig

LEMMA ChannelFacts ==
  /\ Len(StackChannel) \in Nat /\ DOMAIN StackChannel = 1 .. Len(StackChannel)
  /\ \A k \in DOMAIN StackChannel : StackChannel[k].name \in Channel
<1>1. StackChannel = [k \in 1 .. Len(StackChannel) |-> StackChannel[k]]
  BY ChannelAssumption
<1>2. DOMAIN StackChannel = 1 .. Len(StackChannel)
  BY <1>1
<1> QED
  BY <1>2, ChannelAssumption

(* A bounded set of numbers has a highest.                                 *)
LEMMA HighestIn ==
  ASSUME NEW n \in Nat, NEW T, T \subseteq 1 .. n, T # {}
  PROVE  Highest(T) \in T
<1>1. T \subseteq 0 .. n
  OBVIOUS
<1>2. PICK u \in T : \A m \in T : m <= u
  BY <1>1, NatMax
<1> QED  BY <1>2 DEF Highest

(* The SimBus channel of a document: that of any channel that selects it.  *)
LEMMA ChannelOf ==
  ASSUME FolderInv, NEW d \in DOMAIN docs
  PROVE  /\ lookupSimBusChannelName(d) # NULL =>
              /\ lookupSimBusChannelName(d) \in Channel
              /\ \E k \in DOMAIN StackChannel :
                   Selects(k, d) /\ lookupSimBusChannelName(d) = StackChannel[k].name
         /\ \A k \in DOMAIN StackChannel :
              Selects(k, d) => StackChannel[k].name = lookupSimBusChannelName(d)
<1> DEFINE K == {k \in DOMAIN StackChannel : Selects(k, d)}
           c == CHOOSE k \in K : \A j \in K : k <= j
<1>1. CASE K = {}
  BY <1>1 DEF lookupSimBusChannelName
<1>2. CASE K # {}
  <2>1. K \subseteq Nat
    BY ChannelFacts
  <2>2. \E k \in K : \A j \in K : k <= j
    BY <1>2, <2>1, NatMin
  <2>3. c \in K
    BY <2>2
  <2>4. lookupSimBusChannelName(d) = StackChannel[c].name
    BY <1>2 DEF lookupSimBusChannelName
  <2> HIDE DEF c
  <2>5. ASSUME NEW k \in DOMAIN StackChannel, Selects(k, d)
        PROVE  StackChannel[k].name = StackChannel[c].name
    <3>1. d \in 1 .. Len(docs) /\ k \in 1 .. Len(StackChannel) /\ c \in 1 .. Len(StackChannel)
      BY <2>3, FolderFacts, ChannelFacts
    <3>2. Selects(c, d)
      BY <2>3
    <3> QED
      BY <2>5, <3>1, <3>2, OneChannelAssumption DEF Selects, FolderInv
  <2> QED
    BY <2>3, <2>4, <2>5, ChannelFacts
<1> QED
  BY <1>1, <1>2

(***************************************************************************)
(* The loops over channels, documents and signals.                         *)
(***************************************************************************)
LEMMA EntryFacts ==
  ASSUME NEW b, NEW e \in Entries(b)
  PROVE  /\ e = <<e[1], e[2], e[3]>>
         /\ e[1] \in DOMAIN StackChannel /\ e[2] \in DOMAIN docs
         /\ e[3] \in DOMAIN docs[e[2]].signals
         /\ Selects(e[1], e[2]) /\ docs[e[2]].binary = b
<1>1. PICK x \in {y \in (DOMAIN StackChannel) \X (DOMAIN docs) :
                    Selects(y[1], y[2]) /\ docs[y[2]].binary = b} :
        e \in {<<x[1], x[2], i>> : i \in DOMAIN docs[x[2]].signals}
  BY DEF Entries
<1>2. PICK i \in DOMAIN docs[x[2]].signals : e = <<x[1], x[2], i>>
  BY <1>1
<1> QED
  BY <1>1, <1>2

LEMMA EntryIn ==
  ASSUME NEW b, NEW k \in DOMAIN StackChannel, NEW d \in DOMAIN docs,
         NEW i \in DOMAIN docs[d].signals, Selects(k, d), docs[d].binary = b
  PROVE  <<k, d, i>> \in Entries(b)
<1> DEFINE Y == {y \in (DOMAIN StackChannel) \X (DOMAIN docs) :
                   Selects(y[1], y[2]) /\ docs[y[2]].binary = b}
           x == <<k, d>>
<1>1. x \in Y
  OBVIOUS
<1>2. <<k, d, i>> \in {<<x[1], x[2], j>> : j \in DOMAIN docs[x[2]].signals}
  OBVIOUS
<1> QED
  BY <1>1, <1>2 DEF Entries

(* The last of some entries is one of them.                                *)
LEMMA LastEntryIn ==
  ASSUME FolderInv, NEW b, NEW S, S \subseteq Entries(b), S # {}
  PROVE  LastEntry(S) \in S
<1> DEFINE T1 == {e[1] : e \in S}
           k == Highest(T1)
           S2 == {f \in S : f[1] = k}
           T2 == {e[2] : e \in S2}
           d == Highest(T2)
           S3 == {f \in S : f[1] = k /\ f[2] = d}
           T3 == {e[3] : e \in S3}
           i == Highest(T3)
<1>1. k \in T1
  <2>1. T1 \subseteq 1 .. Len(StackChannel)
    BY EntryFacts, ChannelFacts
  <2>2. T1 # {}
    OBVIOUS
  <2> QED
    BY <2>1, <2>2, ChannelFacts, HighestIn
<1>2. d \in T2
  <2> HIDE DEF k
  <2>1. T2 \subseteq 1 .. Len(docs)
    BY EntryFacts, FolderFacts
  <2>2. T2 # {}
    BY <1>1
  <2> QED
    BY <2>1, <2>2, FolderFacts, HighestIn
<1>3. i \in T3
  <2> HIDE DEF k, d
  <2>0. d \in DOMAIN docs
    BY <1>2, EntryFacts
  <2>1. T3 \subseteq 1 .. Len(docs[d].signals)
    <3>1. \A e \in S3 : e[3] \in DOMAIN docs[d].signals
      BY EntryFacts
    <3> QED
      BY <2>0, <3>1, SignalFacts
  <2>2. T3 # {}
    BY <1>2
  <2>3. Len(docs[d].signals) \in Nat
    BY <2>0, SignalFacts
  <2> QED
    BY <2>1, <2>2, <2>3, HighestIn
<1>4. LastEntry(S) = <<k, d, i>>
  BY DEF LastEntry
<1> HIDE DEF k, d, i
<1>5. PICK e \in S : e[1] = k /\ e[2] = d /\ e[3] = i
  BY <1>3
<1>6. e = <<e[1], e[2], e[3]>>
  BY EntryFacts
<1> QED
  BY <1>4, <1>5, <1>6

SetInLoop(P) == \E b \in BOOLEAN : \A p \in P : p[1] \in Entries(b)

(* What hashmap_set in the order of the loops leaves: an entry that was    *)
(* set for the value reference.                                            *)
LEMMA HashMapHit ==
  ASSUME FolderInv, NEW P, SetInLoop(P), NEW v
  PROVE  /\ v \in DOMAIN HashMap(P) <=> \E p \in P : p[2] = v
         /\ v \in DOMAIN HashMap(P) =>
              \E p \in P : p[2] = v /\ HashMap(P)[v] = SimBusSignal(p[1])
<1>1. v \in DOMAIN HashMap(P) <=> \E p \in P : p[2] = v
  BY DEF HashMap
<1>2. ASSUME v \in DOMAIN HashMap(P)
      PROVE  \E p \in P : p[2] = v /\ HashMap(P)[v] = SimBusSignal(p[1])
  <2> DEFINE S == {p[1] : p \in {q \in P : q[2] = v}}
  <2>0. PICK b \in BOOLEAN : \A p \in P : p[1] \in Entries(b)
    BY DEF SetInLoop
  <2>1. S # {} /\ S \subseteq Entries(b)
    BY <1>1, <1>2, <2>0
  <2>2. LastEntry(S) \in S
    BY <2>1, LastEntryIn
  <2>3. HashMap(P)[v] = SimBusSignal(LastEntry(S))
    BY <1>1, <1>2 DEF HashMap
  <2> QED
    BY <2>2, <2>3
<1> QED
  BY <1>1, <1>2
-----------------------------------------------------------------------------
(***************************************************************************)
(* The invariant of the FMU.                                               *)
(***************************************************************************)
Phase == {"index", "offsets", "annotate", "failed", "generated", "created", "ready", "freed"}

(* The places of the scalar signals.                                       *)
Places == UNION {{d} \X DOMAIN docs[d].signals : d \in DOMAIN docs}
ScalarAt == {x \in Places : ~docs[x[1]].binary}

(* The offsets are calculated before a signal is annotated, and documents  *)
(* are collected with their channel.                                       *)
PhaseInv ==
  /\ pc \in Phase /\ direct \in BOOLEAN
  /\ pc \in {"index", "offsets"} => direct
  /\ direct /\ pc \notin {"index", "offsets"} => group = Len(groups)
  /\ pc = "index" /\ at[2] # 0 => lookupSimBusChannelName(at[1]) # NULL

(* A channel has one group, and a group lists a signal once.               *)
GroupInv ==
  /\ \A g, h \in DOMAIN groups : groups[g].name = groups[h].name => g = h
  /\ \A g \in DOMAIN groups : \A i, j \in DOMAIN groups[g].signals :
       groups[g].signals[i] = groups[g].signals[j] => i = j

ShapeInv ==
  /\ DOMAIN vrefs = DOMAIN docs
  /\ \A d \in DOMAIN docs : DOMAIN vrefs[d] = DOMAIN docs[d].signals

(* A scalar that has a value reference is an input or an output.  With the *)
(* index the reference is the signal's own offset, without it no other     *)
(* scalar has the same.                                                    *)
NumberInv ==
  /\ vref \in Nat
  /\ \A x \in ScalarAt : VRef(x) # NULL =>
       /\ Sig(x[1], x[2]).causality \in {"input", "output"}
       /\ direct => /\ pc \notin {"index", "offsets"}
                    /\ VRef(x) \in Slot(SignalOf(x))
       /\ ~direct => VRef(x) \in 1 .. vref
  /\ ~direct => \A x, y \in ScalarAt : VRef(x) # NULL /\ VRef(x) = VRef(y) => x = y

(* The index of the FMU is what fmu_init builds.                           *)
FmuInv ==
  /\ pc \notin {"ready", "freed"} =>
       /\ direct_map = FALSE /\ DOMAIN scalar_input = {} /\ DOMAIN scalar_output = {}
       /\ DOMAIN binary_rx = {}
  /\ pc = "ready" =>
       /\ direct_map = (direct /\ MapSize > 0 /\ Entries(FALSE) # {})
       /\ ~direct_map => /\ scalar_input = fmimodelc_index_scalar_signals("input")
                         /\ scalar_output = fmimodelc_index_scalar_signals("output")
       /\ binary_rx = fmimodelc_index_binary_signals("rx")
       /\ binary_tx = fmimodelc_index_binary_signals("tx")
       /\ encoded = fmimodelc_index_text_encoding

(* The SimBus holds what the importer and the models gave it.              *)
BusInv ==
  /\ ~damaged
  /\ pc \in {"created", "ready"} =>
       bus = expect /\ expect = [y \in BusSignals(FALSE) |-> expect[y]]

(* A network holds what was set since the last step, once it was reset.    *)
NetInv ==
  pc \in {"created", "ready"} =>
    /\ net = [n \in BusSignals(TRUE) |-> net[n]]
    /\ sent = [n \in BusSignals(TRUE) |-> sent[n]]
    /\ signals_reset => net = sent
    /\ ~signals_reset => sent = [n \in BusSignals(TRUE) |-> << >>]

(* The environment of the process, before fmu_create and after it.         *)
EnvInv ==
  env = IF pc \in {"created", "ready", "freed"}
          THEN Override(Envars[Len(Instance)], Plain(UserEnv)) ELSE Plain(UserEnv)

FmuInvariant ==
  /\ FolderInv /\ IndexInv /\ PhaseInv /\ GroupInv /\ ShapeInv /\ NumberInv
  /\ FmuInv /\ BusInv /\ NetInv /\ EnvInv
-----------------------------------------------------------------------------
(* What the folder and the value references determine stays with them.     *)
LEMMA FolderFrame ==
  ASSUME UNCHANGED docs, NEW b
  PROVE  /\ Entries(b)' = Entries(b) /\ BusSignals(b)' = BusSignals(b)
         /\ Places' = Places /\ ScalarAt' = ScalarAt
         /\ \A d : lookupSimBusChannelName(d)' = lookupSimBusChannelName(d)
         /\ \A x : SignalOf(x)' = SignalOf(x)
<1>1. Entries(b)' = Entries(b)
  BY DEF Entries, Selects
<1>2. BusSignals(b)' = BusSignals(b)
  BY <1>1 DEF BusSignals, SimBusSignal, Sig
<1>3. Places' = Places /\ ScalarAt' = ScalarAt
  BY DEF Places, ScalarAt
<1>4. \A d : lookupSimBusChannelName(d)' = lookupSimBusChannelName(d)
  BY DEF lookupSimBusChannelName, Selects
<1>5. \A x : SignalOf(x)' = SignalOf(x)
  BY <1>4 DEF SignalOf, Sig
<1> QED
  BY <1>1, <1>2, <1>3, <1>4, <1>5

LEMMA MapFrame ==
  ASSUME UNCHANGED <<docs, vrefs>>
  PROVE  /\ \A c : fmimodelc_index_scalar_signals(c)' = fmimodelc_index_scalar_signals(c)
         /\ \A l : fmimodelc_index_binary_signals(l)' = fmimodelc_index_binary_signals(l)
         /\ fmimodelc_index_text_encoding' = fmimodelc_index_text_encoding
<1>1. \A P : HashMap(P)' = HashMap(P)
  BY DEF HashMap, SimBusSignal, Sig
<1>0. Entries(TRUE)' = Entries(TRUE) /\ Entries(FALSE)' = Entries(FALSE)
  BY FolderFrame
<1>2. \A e : SignalMatch(e)' = SignalMatch(e)
  BY <1>0 DEF SignalMatch, Sig
<1>3. Annotated(TRUE)' = Annotated(TRUE) /\ Annotated(FALSE)' = Annotated(FALSE)
  BY <1>0 DEF Annotated
<1>4. \A c : fmimodelc_index_scalar_signals(c)' = fmimodelc_index_scalar_signals(c)
  BY <1>1, <1>3 DEF fmimodelc_index_scalar_signals, Sig
<1>5. \A l : fmimodelc_index_binary_signals(l)' = fmimodelc_index_binary_signals(l)
  <2> DEFINE Q(e, l) == {<<e, v>> : v \in SignalMatch(e)[l]}
             P(l) == UNION {Q(e, l) : e \in Annotated(TRUE)}
  <2>1. \A l : P(l)' = P(l)
    <3>1. \A e, l : Q(e, l)' = Q(e, l)
      BY <1>2
    <3> HIDE DEF Q
    <3>2. ASSUME NEW l, NEW p  PROVE p \in P(l)' <=> p \in P(l)
      BY <1>3, <3>1
    <3> QED
      BY <3>2
  <2>2. \A l : fmimodelc_index_binary_signals(l) = HashMap(P(l))
    BY DEF fmimodelc_index_binary_signals
  <2>3. \A l : fmimodelc_index_binary_signals(l)' = HashMap(P(l))'
    BY DEF fmimodelc_index_binary_signals
  <2> HIDE DEF P
  <2>4. \A l : HashMap(P(l))' = HashMap(P(l))
    BY <2>1 DEF HashMap, SimBusSignal, Sig
  <2> QED
    BY <2>2, <2>3, <2>4
<1>6. fmimodelc_index_text_encoding' = fmimodelc_index_text_encoding
  BY <1>2, <1>3 DEF fmimodelc_index_text_encoding, Sig
<1> QED
  BY <1>4, <1>5, <1>6
-----------------------------------------------------------------------------
(***************************************************************************)
(* The map.                                                                *)
(***************************************************************************)
LEMMA SlotHit ==
  ASSUME NEW y, NEW o
  PROVE  o \in Slot(y) <=>
           \E g \in DOMAIN groups : \E i \in DOMAIN groups[g].signals :
             groups[g].name = y[1] /\ groups[g].signals[i] = y[2] /\ o = Offset(g, i)
<1> DEFINE G == UNION {{g} \X DOMAIN groups[g].signals : g \in DOMAIN groups}
           H == {x \in G : groups[x[1]].name = y[1] /\ groups[x[1]].signals[x[2]] = y[2]}
<1>1. Slot(y) = {Offset(x[1], x[2]) : x \in H}
  BY DEF Slot, getSignalOffset
<1>2. ASSUME o \in Slot(y)
      PROVE  \E g \in DOMAIN groups : \E i \in DOMAIN groups[g].signals :
               groups[g].name = y[1] /\ groups[g].signals[i] = y[2] /\ o = Offset(g, i)
  <2>1. PICK x \in H : o = Offset(x[1], x[2])
    BY <1>1, <1>2
  <2>2. x[1] \in DOMAIN groups /\ x[2] \in DOMAIN groups[x[1]].signals
    OBVIOUS
  <2> QED
    BY <2>1, <2>2
<1>3. ASSUME NEW g \in DOMAIN groups, NEW i \in DOMAIN groups[g].signals,
             groups[g].name = y[1], groups[g].signals[i] = y[2], o = Offset(g, i)
      PROVE  o \in Slot(y)
  <2> DEFINE x == <<g, i>>
  <2>1. x \in G /\ x[1] = g /\ x[2] = i
    OBVIOUS
  <2>2. x \in H
    BY <1>3, <2>1
  <2>3. o = Offset(x[1], x[2])
    BY <1>3, <2>1
  <2> HIDE DEF x
  <2> QED
    BY <1>1, <2>2, <2>3
<1> QED
  BY <1>2, <1>3

(* Of a calculated index: a scalar's bytes are in the map, meet no array   *)
(* of a group, and meet another scalar's only where both are one.          *)
LEMMA SlotAlone ==
  ASSUME IndexInv, GroupInv, group = Len(groups), NEW x, NEW vr \in Slot(x),
         x = <<x[1], x[2]>>
  PROVE  /\ vr \in Nat /\ vr + 8 <= MapSize /\ MapSize > 0 /\ MapSize \in Nat
         /\ \A g \in DOMAIN groups : Clear(vr, FieldsOf(g), BlockEnd(g))
         /\ \A y : \A o \in Slot(y) : o # vr => Clear(vr, o, o + 8)
         /\ \A y : y = <<y[1], y[2]>> /\ vr \in Slot(y) => y = x
<1>1. PICK g \in DOMAIN groups : \E i \in DOMAIN groups[g].signals :
        groups[g].name = x[1] /\ groups[g].signals[i] = x[2] /\ vr = Offset(g, i)
  BY SlotHit
<1>2. PICK i \in DOMAIN groups[g].signals :
        groups[g].name = x[1] /\ groups[g].signals[i] = x[2] /\ vr = Offset(g, i)
  BY <1>1
<1>3. DOMAIN groups = 1 .. group /\ groupOffset \in Nat
  BY DEF IndexInv, IndexTypeOK
<1>4. DirectSlots
  BY OrderedSlots
<1>5. vr \in Nat
  BY <1>2, <1>3, DoneGroup
<1>6. vr + 8 <= MapSize /\ \A h \in DOMAIN groups : Clear(vr, FieldsOf(h), BlockEnd(h))
  BY <1>2, <1>3, <1>4 DEF DirectSlots
<1>7. MapSize > 0 /\ MapSize \in Nat
  BY <1>3, <1>5, <1>6 DEF MapSize
<1>8. ASSUME NEW h \in DOMAIN groups, NEW j \in DOMAIN groups[h].signals
      PROVE  \/ h = g /\ j = i
             \/ Clear(vr, Offset(h, j), Offset(h, j) + 8)
  <2>1. <<g, i>> # <<h, j>> => Clear(Offset(g, i), Offset(h, j), Offset(h, j) + 8)
    BY <1>3, <1>4 DEF DirectSlots
  <2> QED
    BY <1>2, <2>1
<1>9. ASSUME NEW y, NEW o \in Slot(y), o # vr  PROVE Clear(vr, o, o + 8)
  <2>1. PICK h \in DOMAIN groups : \E j \in DOMAIN groups[h].signals : o = Offset(h, j)
    BY SlotHit
  <2>2. PICK j \in DOMAIN groups[h].signals : o = Offset(h, j)
    BY <2>1
  <2> QED
    BY <1>2, <1>8, <1>9, <2>2
<1>10. ASSUME NEW y, y = <<y[1], y[2]>>, vr \in Slot(y)  PROVE y = x
  <2>1. PICK h \in DOMAIN groups : \E j \in DOMAIN groups[h].signals :
          groups[h].name = y[1] /\ groups[h].signals[j] = y[2] /\ vr = Offset(h, j)
    BY <1>10, SlotHit
  <2>2. PICK j \in DOMAIN groups[h].signals :
          groups[h].name = y[1] /\ groups[h].signals[j] = y[2] /\ vr = Offset(h, j)
    BY <2>1
  <2>3. ~Clear(vr, vr, vr + 8)
    BY <1>5 DEF Clear
  <2>4. h = g /\ j = i
    BY <1>8, <2>2, <2>3
  <2>5. y[1] = x[1] /\ y[2] = x[2]
    BY <1>2, <2>2, <2>4
  <2> QED
    BY <1>10, <2>5
<1> QED
  BY <1>5, <1>6, <1>7, <1>9, <1>10

(* Collecting keeps a channel in one group and a signal once in a group;   *)
(* the offsets change neither.                                             *)
LEMMA GroupStep == IndexInv /\ GroupInv /\ [DirectIndexNext]_diVars => GroupInv'
<1> SUFFICES ASSUME IndexInv, GroupInv, [DirectIndexNext]_diVars PROVE GroupInv'
  OBVIOUS
<1>0. /\ DOMAIN groups = 1 .. Len(groups) /\ Len(groups) \in Nat
      /\ \A g \in DOMAIN groups : groups[g] \in Group
  BY DEF IndexInv, IndexTypeOK
<1>1. ASSUME NEW c \in Channel, GetSignalGroup(c)  PROVE GroupInv'
  <2>1. CASE \E g \in DOMAIN groups : groups[g].name = c
    <3>1. groups' = groups
      BY <1>1, <2>1 DEF GetSignalGroup, getSignalGroup
    <3> QED
      BY <3>1 DEF GroupInv
  <2>2. CASE ~\E g \in DOMAIN groups : groups[g].name = c
    <3> DEFINE new == [name |-> c, signals |-> << >>, offset |-> 0, length |-> 0]
    <3>1. groups' = Append(groups, new)
      BY <1>1, <2>2 DEF GetSignalGroup, getSignalGroup
    <3>2. /\ new.name = c /\ DOMAIN new.signals = {}
          /\ DOMAIN groups' = 1 .. Len(groups) + 1
          /\ \A g \in 1 .. Len(groups) : groups'[g] = groups[g]
          /\ groups'[Len(groups) + 1] = new
      <4>1. groups \in Seq(Group)
        BY DEF IndexInv, IndexTypeOK
      <4>2. DOMAIN new.signals = {}
        OBVIOUS
      <4> HIDE DEF new
      <4>3. /\ DOMAIN groups' = 1 .. Len(groups) + 1
            /\ \A g \in 1 .. Len(groups) : groups'[g] = groups[g]
            /\ groups'[Len(groups) + 1] = new
        BY <1>0, <3>1, <4>1
      <4> QED
        BY <4>2, <4>3 DEF new
    <3> HIDE DEF new
    <3>3. \A g \in DOMAIN groups' : g \in DOMAIN groups \/ g = Len(groups) + 1
      BY <1>0, <3>2
    <3>4. \A g, h \in DOMAIN groups' : groups'[g].name = groups'[h].name => g = h
      <4> SUFFICES ASSUME NEW g \in DOMAIN groups', NEW h \in DOMAIN groups',
                          groups'[g].name = groups'[h].name
                   PROVE  g = h
        OBVIOUS
      <4>1. CASE g \in DOMAIN groups /\ h \in DOMAIN groups
        BY <1>0, <3>2, <4>1 DEF GroupInv
      <4>2. CASE g \in DOMAIN groups /\ h = Len(groups) + 1
        BY <1>0, <2>2, <3>2, <4>2
      <4>3. CASE g = Len(groups) + 1 /\ h \in DOMAIN groups
        BY <1>0, <2>2, <3>2, <4>3
      <4> QED
        BY <3>3, <4>1, <4>2, <4>3
    <3>5. \A g \in DOMAIN groups' : \A i, j \in DOMAIN groups'[g].signals :
            groups'[g].signals[i] = groups'[g].signals[j] => i = j
      <4> TAKE g \in DOMAIN groups'
      <4>1. CASE g \in DOMAIN groups
        BY <1>0, <3>2, <4>1 DEF GroupInv
      <4>2. CASE g = Len(groups) + 1
        BY <3>2, <4>2
      <4> QED
        BY <3>3, <4>1, <4>2
    <3> QED
      BY <3>4, <3>5 DEF GroupInv
  <2> QED
    BY <2>1, <2>2
<1>2. ASSUME NEW c \in Channel, NEW s \in Signal, AddSignal(c, s)  PROVE GroupInv'
  <2>1. DOMAIN groups' = DOMAIN groups
    BY <1>2 DEF AddSignal
  <2>2. ASSUME NEW g \in DOMAIN groups
        PROVE  /\ groups'[g].name = groups[g].name
               /\ \/ groups'[g].signals = groups[g].signals
                  \/ /\ groups'[g].signals = Append(groups[g].signals, s)
                     /\ ~Elem(s, groups[g].signals)
    <3>1. groups[g] \in Group
      BY <1>0
    <3>2. CASE groups[g].name = c /\ ~Elem(s, groups[g].signals)
      <4>1. groups'[g] = [groups[g] EXCEPT !.signals = Append(groups[g].signals, s)]
        BY <1>2, <3>2 DEF AddSignal
      <4> QED
        BY <3>1, <3>2, <4>1 DEF Group
    <3>3. CASE ~(groups[g].name = c /\ ~Elem(s, groups[g].signals))
      <4>1. groups'[g] = groups[g]
        BY <1>2, <3>3 DEF AddSignal
      <4> QED
        BY <4>1
    <3> QED
      BY <3>2, <3>3
  <2>3. \A g, h \in DOMAIN groups' : groups'[g].name = groups'[h].name => g = h
    BY <2>1, <2>2 DEF GroupInv
  <2>4. ASSUME NEW g \in DOMAIN groups, NEW i \in DOMAIN groups'[g].signals,
               NEW j \in DOMAIN groups'[g].signals,
               groups'[g].signals[i] = groups'[g].signals[j]
        PROVE  i = j
    <3>1. CASE groups'[g].signals = groups[g].signals
      BY <2>4, <3>1 DEF GroupInv
    <3>2. CASE /\ groups'[g].signals = Append(groups[g].signals, s)
               /\ ~Elem(s, groups[g].signals)
      <4> DEFINE t == groups[g].signals
                 n == Len(t)
      <4>1. t \in Seq(Signal)
        BY <1>0 DEF Group
      <4>2. \A k, l \in DOMAIN t : t[k] = t[l] => k = l
        BY DEF GroupInv
      <4>3. \A k \in DOMAIN t : t[k] # s
        BY <3>2 DEF Elem
      <4>4. groups'[g].signals = Append(t, s)
        BY <3>2
      <4> HIDE DEF t
      <4>5. /\ n \in Nat /\ DOMAIN t = 1 .. n /\ DOMAIN Append(t, s) = 1 .. n + 1
            /\ \A k \in 1 .. n : Append(t, s)[k] = t[k]
            /\ Append(t, s)[n + 1] = s
        BY <4>1
      <4> HIDE DEF n
      <4>6. (i \in DOMAIN t \/ i = n + 1) /\ (j \in DOMAIN t \/ j = n + 1)
        BY <2>4, <4>4, <4>5
      <4> QED
        BY <2>4, <4>2, <4>3, <4>4, <4>5, <4>6
    <3> QED
      BY <2>2, <3>1, <3>2
  <2> QED
    BY <2>1, <2>3, <2>4 DEF GroupInv
<1>3. ASSUME CalculateMapOffsets  PROVE GroupInv'
  <2>1. group + 1 \in DOMAIN groups
    BY <1>0, <1>3 DEF CalculateMapOffsets, IndexInv, IndexTypeOK
  <2>2. /\ DOMAIN groups' = DOMAIN groups
        /\ \A g \in DOMAIN groups : groups'[g].name = groups[g].name
                                 /\ groups'[g].signals = groups[g].signals
    BY <1>3, <2>1 DEF CalculateMapOffsets
  <2> QED
    BY <2>2 DEF GroupInv
<1>4. CASE UNCHANGED diVars
  BY <1>4 DEF diVars, GroupInv
<1> QED
  BY <1>1, <1>2, <1>3, <1>4 DEF DirectIndexNext
-----------------------------------------------------------------------------
(***************************************************************************)
(* The hash maps.                                                          *)
(***************************************************************************)
LEMMA PlaceFacts ==
  /\ \A x \in ScalarAt :
       /\ x = <<x[1], x[2]>> /\ x[1] \in DOMAIN docs
       /\ x[2] \in DOMAIN docs[x[1]].signals /\ ~docs[x[1]].binary
  /\ \A d \in DOMAIN docs : \A i \in DOMAIN docs[d].signals :
       ~docs[d].binary => <<d, i>> \in ScalarAt
  /\ Variables = {x \in ScalarAt : VRef(x) # NULL}
<1>1. \A x \in Places :
        /\ x = <<x[1], x[2]>> /\ x[1] \in DOMAIN docs
        /\ x[2] \in DOMAIN docs[x[1]].signals
  BY DEF Places
<1>2. ASSUME NEW d \in DOMAIN docs, NEW i \in DOMAIN docs[d].signals, ~docs[d].binary
      PROVE  <<d, i>> \in ScalarAt
  <2>1. <<d, i>> \in Places
    BY DEF Places
  <2> QED
    BY <1>2, <2>1 DEF ScalarAt
<1>3. Variables = {x \in ScalarAt : VRef(x) # NULL}
  <2>1. Variables = {x \in Places : vrefs[x[1]][x[2]] # NULL /\ ~docs[x[1]].binary}
    BY DEF Variables, Places
  <2> QED
    BY <2>1 DEF ScalarAt, VRef
<1> QED
  BY <1>1, <1>2, <1>3 DEF ScalarAt

(* The scalar the loops find at an entry is that of the place's document.  *)
LEMMA OwnSignal ==
  ASSUME FolderInv, NEW b, NEW e \in Entries(b)
  PROVE  SimBusSignal(e) = <<lookupSimBusChannelName(e[2]), Sig(e[2], e[3]).signal>>
<1>1. e[1] \in DOMAIN StackChannel /\ e[2] \in DOMAIN docs /\ Selects(e[1], e[2])
  BY EntryFacts
<1>2. StackChannel[e[1]].name = lookupSimBusChannelName(e[2])
  BY <1>1, ChannelOf
<1> QED
  BY <1>2 DEF SimBusSignal

(* A place whose signal is on the SimBus is visited by the loops.          *)
LEMMA Visited ==
  ASSUME FolderInv, NEW x \in ScalarAt, SignalOf(x) \in BusSignals(FALSE)
  PROVE  \E e \in Entries(FALSE) : e[2] = x[1] /\ e[3] = x[2]
<1>1. x[1] \in DOMAIN docs /\ x[2] \in DOMAIN docs[x[1]].signals /\ ~docs[x[1]].binary
  BY PlaceFacts
<1>2. PICK e \in Entries(FALSE) : SignalOf(x) = SimBusSignal(e)
  BY DEF BusSignals
<1>3. lookupSimBusChannelName(x[1]) = StackChannel[e[1]].name
  BY <1>2 DEF SignalOf, SimBusSignal
<1>4. lookupSimBusChannelName(x[1]) # NULL
  <2>1. e[1] \in DOMAIN StackChannel
    BY EntryFacts
  <2> QED
    BY <1>3, <2>1, ChannelFacts, ChannelAssumption
<1>5. PICK k \in DOMAIN StackChannel : Selects(k, x[1])
  BY <1>1, <1>4, ChannelOf
<1>6. docs[x[1]].binary = FALSE
  BY <1>1, FolderFacts DEF IsDocument
<1>7. <<k, x[1], x[2]>> \in Entries(FALSE)
  BY <1>1, <1>5, <1>6, EntryIn
<1> QED
  BY <1>7

(* The annotated scalars of a causality.                                   *)
Causal(c) == {e \in Annotated(FALSE) : Sig(e[2], e[3]).causality = c}

LEMMA ScalarMapHit ==
  ASSUME FolderInv, NEW c, NEW v
  PROVE  /\ v \in DOMAIN fmimodelc_index_scalar_signals(c) <=>
              \E e \in Causal(c) : vrefs[e[2]][e[3]] = v
         /\ v \in DOMAIN fmimodelc_index_scalar_signals(c) =>
              \E e \in Causal(c) : /\ vrefs[e[2]][e[3]] = v
                                   /\ fmimodelc_index_scalar_signals(c)[v] = SimBusSignal(e)
<1> DEFINE A == Causal(c)
           pairs == {<<e, vrefs[e[2]][e[3]]>> : e \in A}
           m == fmimodelc_index_scalar_signals(c)
<1>1. m = HashMap(pairs)
  BY DEF fmimodelc_index_scalar_signals, Causal
<1>2. A \subseteq Entries(FALSE)
  BY DEF Annotated, Causal
<1> HIDE DEF A, m
<1>3. /\ \A p \in pairs : p[1] \in A /\ p[2] = vrefs[p[1][2]][p[1][3]]
      /\ \A e \in A : \E p \in pairs : p[1] = e /\ p[2] = vrefs[e[2]][e[3]]
  <2>1. ASSUME NEW p \in pairs  PROVE p[1] \in A /\ p[2] = vrefs[p[1][2]][p[1][3]]
    <3>1. PICK e \in A : p = <<e, vrefs[e[2]][e[3]]>>
      OBVIOUS
    <3>2. p[1] = e /\ p[2] = vrefs[e[2]][e[3]]
      BY <3>1
    <3> QED
      BY <3>2
  <2>2. ASSUME NEW e \in A
        PROVE  \E p \in pairs : p[1] = e /\ p[2] = vrefs[e[2]][e[3]]
    <3>1. <<e, vrefs[e[2]][e[3]]>> \in pairs
      OBVIOUS
    <3> QED
      BY <3>1
  <2> QED
    BY <2>1, <2>2
<1> HIDE DEF pairs
<1>4. SetInLoop(pairs)
  BY <1>2, <1>3 DEF SetInLoop
<1>5. /\ v \in DOMAIN HashMap(pairs) <=> \E p \in pairs : p[2] = v
      /\ v \in DOMAIN HashMap(pairs) =>
           \E p \in pairs : p[2] = v /\ HashMap(pairs)[v] = SimBusSignal(p[1])
  BY <1>4, HashMapHit
<1>6. v \in DOMAIN m <=> \E e \in A : vrefs[e[2]][e[3]] = v
  BY <1>1, <1>3, <1>5
<1>7. v \in DOMAIN m => \E e \in A : vrefs[e[2]][e[3]] = v /\ m[v] = SimBusSignal(e)
  BY <1>1, <1>3, <1>5
<1> QED
  BY <1>6, <1>7 DEF A, m

(* Without the map: a hash map has the value reference of a variable when  *)
(* the variable has the causality and its signal is on the SimBus, and     *)
(* leads to that signal.                                                   *)
LEMMA HashExact ==
  ASSUME FolderInv, IndexInv, GroupInv, PhaseInv, NumberInv,
         pc \notin {"index", "offsets"},
         ~(direct /\ MapSize > 0 /\ Entries(FALSE) # {}),
         NEW x \in Variables, NEW c
  PROVE  /\ VRef(x) \in DOMAIN fmimodelc_index_scalar_signals(c) <=>
              Sig(x[1], x[2]).causality = c /\ SignalOf(x) \in BusSignals(FALSE)
         /\ VRef(x) \in DOMAIN fmimodelc_index_scalar_signals(c) =>
              fmimodelc_index_scalar_signals(c)[VRef(x)] = SignalOf(x)
<1> DEFINE A == Causal(c)
           m == fmimodelc_index_scalar_signals(c)
<1>4. x \in ScalarAt /\ VRef(x) # NULL
  BY PlaceFacts
<1>5. ASSUME NEW e \in A, vrefs[e[2]][e[3]] = VRef(x)
      PROVE  /\ SimBusSignal(e) = SignalOf(x) /\ SignalOf(x) \in BusSignals(FALSE)
             /\ Sig(x[1], x[2]).causality = c
  <2>1. e \in Entries(FALSE) /\ Sig(e[2], e[3]).causality = c
    BY DEF Annotated, Causal
  <2>2. <<e[2], e[3]>> \in ScalarAt
    BY <2>1, EntryFacts, PlaceFacts
  <2>3. ~direct
    <3> SUFFICES ASSUME direct  PROVE FALSE
      BY DEF PhaseInv
    <3>1. VRef(x) \in Slot(SignalOf(x)) /\ group = Len(groups)
      BY <1>4 DEF NumberInv, PhaseInv
    <3>2. SignalOf(x) = <<SignalOf(x)[1], SignalOf(x)[2]>>
      BY DEF SignalOf
    <3>3. MapSize > 0
      BY <3>1, <3>2, SlotAlone
    <3> QED
      BY <2>1, <3>3
  <2>4. VRef(<<e[2], e[3]>>) = VRef(x)
    BY <1>5 DEF VRef
  <2>5. <<e[2], e[3]>> = x
    BY <1>4, <2>2, <2>3, <2>4 DEF NumberInv
  <2>6. e[2] = x[1] /\ e[3] = x[2]
    BY <2>5
  <2>7. SimBusSignal(e) = SignalOf(x)
    BY <2>1, <2>6, OwnSignal DEF SignalOf
  <2>8. SignalOf(x) \in BusSignals(FALSE)
    BY <2>1, <2>7 DEF BusSignals
  <2> QED
    BY <2>1, <2>6, <2>7, <2>8
<1>6. ASSUME Sig(x[1], x[2]).causality = c, SignalOf(x) \in BusSignals(FALSE)
      PROVE  \E e \in A : vrefs[e[2]][e[3]] = VRef(x)
  <2>1. PICK e \in Entries(FALSE) : e[2] = x[1] /\ e[3] = x[2]
    BY <1>4, <1>6, Visited
  <2>2. e \in A /\ vrefs[e[2]][e[3]] = VRef(x)
    BY <1>4, <1>6, <2>1 DEF Annotated, Causal, VRef
  <2> QED
    BY <2>2
<1>7. /\ VRef(x) \in DOMAIN m <=> \E e \in A : vrefs[e[2]][e[3]] = VRef(x)
      /\ VRef(x) \in DOMAIN m =>
           \E e \in A : vrefs[e[2]][e[3]] = VRef(x) /\ m[VRef(x)] = SimBusSignal(e)
  BY ScalarMapHit
<1> HIDE DEF A, m
<1>9. VRef(x) \in DOMAIN m <=> Sig(x[1], x[2]).causality = c /\ SignalOf(x) \in BusSignals(FALSE)
  BY <1>5, <1>6, <1>7
<1>10. VRef(x) \in DOMAIN m => m[VRef(x)] = SignalOf(x)
  BY <1>5, <1>7
<1> QED
  BY <1>9, <1>10 DEF m
-----------------------------------------------------------------------------
(***************************************************************************)
(* The steps.                                                              *)
(***************************************************************************)
SetRealStep == \E x \in Variables, val \in Value : SetReal(x, val)
SetStringStep == \E v \in NetVRefs, f \in Frame : SetString(v, f)
DoStepStep ==
  \E y \in DOMAIN bus, val \in Value, n \in DOMAIN net, f \in {<< >>} \cup {<<g>> : g \in Frame} :
    DoStep(y, val, n, f)
CallStep == SetRealStep \/ SetStringStep \/ DoStepStep

(* The steps by the part of the state they change.                         *)
CollectingStep == IndexDocument \/ IndexSignal \/ CalculateOffsets
IdleStep == AnnotateDocument \/ AnnotateFails \/ SaveIndex \/ fmu_destroy \/ Done

LEMMA NextCases ==
  ASSUME [Next]_vars
  PROVE  \/ CollectingStep \/ WriteIndex \/ AnnotateSignal \/ IdleStep
         \/ fmu_create \/ fmu_init \/ CallStep \/ UNCHANGED vars
BY DEF Next, CollectingStep, IdleStep, CallStep, SetRealStep, SetStringStep, DoStepStep

LEMMA CollectingFrame ==
  ASSUME CollectingStep
  PROVE  /\ pc \in {"index", "offsets"} /\ pc' \in {pc, "offsets"}
         /\ UNCHANGED <<docs, direct, vrefs, vref>>
         /\ UNCHANGED idxVars /\ UNCHANGED busVars
<1>1. CASE IndexDocument
  BY <1>1 DEF IndexDocument, cmdVars
<1>2. CASE IndexSignal
  BY <1>2 DEF IndexSignal, cmdVars
<1>3. CASE CalculateOffsets
  BY <1>3 DEF CalculateOffsets, cmdVars
<1> QED
  BY <1>1, <1>2, <1>3 DEF CollectingStep

(* After the index the groups stay.                                        *)
LEMMA LaterFrame ==
  ASSUME \/ WriteIndex \/ AnnotateSignal \/ IdleStep \/ fmu_create \/ fmu_init \/ CallStep
         \/ UNCHANGED vars
  PROVE  UNCHANGED diVars /\ UNCHANGED <<docs, direct>>
<1>1. CASE WriteIndex
  BY <1>1 DEF WriteIndex, cmdVars
<1>2. CASE AnnotateSignal
  BY <1>2 DEF AnnotateSignal
<1>3. CASE IdleStep
  BY <1>3 DEF IdleStep, AnnotateDocument, AnnotateFails, SaveIndex, fmu_destroy, Done, vars, cmdVars
<1>4. CASE fmu_create
  BY <1>4 DEF fmu_create, cmdVars
<1>5. CASE fmu_init
  BY <1>5 DEF fmu_init, cmdVars
<1>6. CASE CallStep
  BY <1>6 DEF CallStep, SetRealStep, SetStringStep, DoStepStep, SetReal, SetString, DoStep, cmdVars
<1>7. CASE UNCHANGED vars
  BY <1>7 DEF vars, cmdVars
<1> QED
  BY <1>1, <1>2, <1>3, <1>4, <1>5, <1>6, <1>7

LEMMA QuietFrame ==
  ASSUME WriteIndex \/ IdleStep \/ fmu_create \/ fmu_init \/ CallStep \/ UNCHANGED vars
  PROVE  UNCHANGED <<vrefs, vref>>
<1>1. CASE WriteIndex
  BY <1>1 DEF WriteIndex, cmdVars
<1>3. CASE IdleStep
  BY <1>3 DEF IdleStep, AnnotateDocument, AnnotateFails, SaveIndex, fmu_destroy, Done, vars, cmdVars
<1>4. CASE fmu_create
  BY <1>4 DEF fmu_create, cmdVars
<1>5. CASE fmu_init
  BY <1>5 DEF fmu_init, cmdVars
<1>6. CASE CallStep
  BY <1>6 DEF CallStep, SetRealStep, SetStringStep, DoStepStep, SetReal, SetString, DoStep, cmdVars
<1>7. CASE UNCHANGED vars
  BY <1>7 DEF vars, cmdVars
<1> QED
  BY <1>1, <1>3, <1>4, <1>5, <1>6, <1>7

LEMMA FolderStep == FolderInv /\ [Next]_vars => FolderInv' /\ UNCHANGED <<docs, direct>>
  BY NextCases, CollectingFrame, LaterFrame DEF FolderInv

(* Every step is one of the index or leaves the index alone.               *)
LEMMA IndexRefined == FmuInvariant /\ [Next]_vars => [DirectIndexNext]_diVars
<1> SUFFICES ASSUME FmuInvariant, [Next]_vars PROVE [DirectIndexNext]_diVars
  OBVIOUS
<1>1. CASE IndexDocument
  <2>1. CASE Chosen(at[1]) /\ lookupSimBusChannelName(at[1]) # NULL
    <3>1. lookupSimBusChannelName(at[1]) \in Channel
      BY <1>1, <2>1, ChannelOf DEF IndexDocument, FmuInvariant
    <3>2. GetSignalGroup(lookupSimBusChannelName(at[1]))
      BY <1>1, <2>1 DEF IndexDocument
    <3> QED
      BY <3>1, <3>2 DEF DirectIndexNext
  <2>2. CASE ~(Chosen(at[1]) /\ lookupSimBusChannelName(at[1]) # NULL)
    BY <1>1, <2>2 DEF IndexDocument
  <2> QED
    BY <2>1, <2>2
<1>2. CASE IndexSignal
  <2>1. at[1] \in DOMAIN docs /\ at[2] \in DOMAIN docs[at[1]].signals /\ pc = "index"
    BY <1>2 DEF IndexSignal
  <2>2. Sig(at[1], at[2]).signal \in Signal /\ at[2] # 0
    BY <2>1, SignalFacts DEF FmuInvariant
  <2>3. lookupSimBusChannelName(at[1]) \in Channel
    BY <2>1, <2>2, ChannelOf DEF FmuInvariant, PhaseInv
  <2>4. AddSignal(lookupSimBusChannelName(at[1]), Sig(at[1], at[2]).signal)
    BY <1>2 DEF IndexSignal
  <2> QED
    BY <2>2, <2>3, <2>4 DEF DirectIndexNext
<1>3. CASE CalculateOffsets
  BY <1>3 DEF CalculateOffsets, DirectIndexNext
<1> QED
  BY <1>1, <1>2, <1>3, NextCases, LaterFrame DEF CollectingStep

LEMMA PhaseStep == FmuInvariant /\ [Next]_vars => PhaseInv'
<1> SUFFICES ASSUME FmuInvariant, [Next]_vars PROVE PhaseInv'
  OBVIOUS
<1>0. /\ UNCHANGED <<docs, direct>> /\ FolderInv /\ PhaseInv
      /\ \A d : lookupSimBusChannelName(d)' = lookupSimBusChannelName(d)
  BY FolderStep, FolderFrame DEF FmuInvariant
<1>1. CASE IndexDocument
  <2>1. pc = "index" /\ pc' = "index" /\ at[2] = 0 /\ at[1] \in DOMAIN docs
    BY <1>1 DEF IndexDocument
  <2>2. CASE Chosen(at[1]) /\ lookupSimBusChannelName(at[1]) # NULL
    <3>1. at' = Advance
      BY <1>1, <2>2 DEF IndexDocument
    <3>2. at'[2] # 0 => at'[1] = at[1]
      BY <3>1 DEF Advance
    <3> QED
      BY <1>0, <2>1, <2>2, <3>2 DEF PhaseInv
  <2>3. CASE ~(Chosen(at[1]) /\ lookupSimBusChannelName(at[1]) # NULL)
    <3>1. at'[2] = 0
      BY <1>1, <2>3 DEF IndexDocument
    <3> QED
      BY <1>0, <2>1, <3>1 DEF PhaseInv
  <2> QED
    BY <2>2, <2>3
<1>2. CASE IndexSignal
  <2>1. /\ pc = "index" /\ pc' = "index" /\ at[1] \in DOMAIN docs
        /\ at[2] \in DOMAIN docs[at[1]].signals /\ at' = Advance
    BY <1>2 DEF IndexSignal
  <2>2. at[2] # 0
    BY <1>0, <2>1, SignalFacts
  <2>3. at'[2] # 0 => at'[1] = at[1]
    BY <2>1 DEF Advance
  <2> QED
    BY <1>0, <2>1, <2>2, <2>3 DEF PhaseInv
<1>3. CASE CalculateOffsets
  <2>1. pc \in {"index", "offsets"} /\ pc' = "offsets"
    BY <1>3 DEF CalculateOffsets
  <2> QED
    BY <1>0, <2>1 DEF PhaseInv, Phase
<1>4. CASE WriteIndex
  <2>1. group = Len(groups) /\ pc' = "annotate" /\ UNCHANGED <<groups, group>>
    BY <1>4 DEF WriteIndex, diVars
  <2> QED
    BY <1>0, <2>1 DEF PhaseInv, Phase
<1>5. ASSUME UNCHANGED diVars, pc \notin {"index", "offsets"},
             pc' \in Phase \ {"index", "offsets"}
      PROVE  PhaseInv'
  BY <1>0, <1>5 DEF PhaseInv, Phase, diVars
<1>6. CASE AnnotateSignal
  BY <1>5, <1>6 DEF AnnotateSignal, Phase
<1>7. CASE IdleStep
  BY <1>5, <1>7 DEF IdleStep, AnnotateDocument, AnnotateFails, SaveIndex, fmu_destroy, Done, Phase, vars
<1>8. CASE fmu_create
  BY <1>5, <1>8 DEF fmu_create, Phase
<1>9. CASE fmu_init
  BY <1>5, <1>9 DEF fmu_init, Phase
<1>10. CASE CallStep
  <2>1. pc \in {"created", "ready"} /\ pc' = pc
    BY <1>10 DEF CallStep, SetRealStep, SetStringStep, DoStepStep, SetReal, SetString, DoStep
  <2> QED
    BY <1>5, <1>10, <2>1, LaterFrame DEF Phase
<1>11. CASE UNCHANGED vars
  <2>1. UNCHANGED <<pc, at, groups, group>>
    BY <1>11 DEF vars, diVars
  <2> QED
    BY <1>0, <2>1 DEF PhaseInv
<1> QED
  BY <1>1, <1>2, <1>3, <1>4, <1>6, <1>7, <1>8, <1>9, <1>10, <1>11, NextCases DEF CollectingStep

(***************************************************************************)
(* The value references.                                                   *)
(***************************************************************************)
LEMMA VrefUpdate ==
  ASSUME ShapeInv, NEW d \in DOMAIN docs, NEW i \in DOMAIN docs[d].signals, NEW v,
         UNCHANGED docs, vrefs' = [vrefs EXCEPT ![d][i] = v]
  PROVE  /\ ShapeInv'
         /\ \A x \in ScalarAt : VRef(x)' = IF x = <<d, i>> THEN v ELSE VRef(x)
<1>1. /\ d \in DOMAIN vrefs /\ i \in DOMAIN vrefs[d] /\ DOMAIN vrefs' = DOMAIN vrefs
      /\ vrefs'[d] = [vrefs[d] EXCEPT ![i] = v]
      /\ \A e \in DOMAIN vrefs : e # d => vrefs'[e] = vrefs[e]
  BY DEF ShapeInv
<1>2. ShapeInv'
  <2>1. \A e \in DOMAIN docs : DOMAIN vrefs'[e] = DOMAIN vrefs[e]
    BY <1>1 DEF ShapeInv
  <2> QED
    BY <1>1, <2>1 DEF ShapeInv
<1>3. ASSUME NEW x \in ScalarAt  PROVE VRef(x)' = IF x = <<d, i>> THEN v ELSE VRef(x)
  <2>1. x = <<x[1], x[2]>> /\ x[1] \in DOMAIN vrefs /\ x[2] \in DOMAIN vrefs[x[1]]
    BY PlaceFacts DEF ShapeInv
  <2>2. VRef(x)' = vrefs'[x[1]][x[2]]
    BY DEF VRef
  <2>3. CASE x[1] = d /\ x[2] = i
    <3>1. x = <<d, i>> /\ vrefs'[x[1]][x[2]] = v
      BY <1>1, <2>1, <2>3
    <3> QED
      BY <2>2, <3>1
  <2>4. CASE ~(x[1] = d /\ x[2] = i)
    <3>1. x # <<d, i>> /\ vrefs'[x[1]][x[2]] = vrefs[x[1]][x[2]]
      BY <1>1, <2>1, <2>4
    <3> QED
      BY <2>2, <3>1 DEF VRef
  <2> QED
    BY <2>3, <2>4
<1> QED
  BY <1>2, <1>3

(* An offset of the index, or the next number of the counter.              *)
LEMMA AnnotateStep ==
  ASSUME FmuInvariant, AnnotateSignal
  PROVE  ShapeInv' /\ NumberInv'
<1> DEFINE d == at[1]
           i == at[2]
           a == <<at[1], at[2]>>
<1>1. /\ pc = "annotate" /\ pc' = "annotate" /\ UNCHANGED <<docs, direct>> /\ UNCHANGED diVars
      /\ d \in DOMAIN docs /\ i \in DOMAIN docs[d].signals
      /\ FolderInv /\ ShapeInv /\ NumberInv /\ direct \in BOOLEAN
  BY DEF AnnotateSignal, FmuInvariant, PhaseInv
<1>2. /\ ScalarAt' = ScalarAt /\ \A x : SignalOf(x)' = SignalOf(x)
      /\ \A x : Slot(x)' = Slot(x) /\ \A e, j : Sig(e, j)' = Sig(e, j)
  <2>1. ScalarAt' = ScalarAt /\ \A x : SignalOf(x)' = SignalOf(x)
    BY <1>1, FolderFrame
  <2>2. \A x : Slot(x)' = Slot(x)
    BY <1>1 DEF Slot, getSignalOffset, Offset, diVars
  <2> QED
    BY <1>1, <2>1, <2>2 DEF Sig
<1>3. CASE ~(Sig(d, i).causality \in {"input", "output"})
  <2>1. UNCHANGED <<vrefs, vref>>
    BY <1>3 DEF AnnotateSignal
  <2>2. \A x : VRef(x)' = VRef(x)
    BY <2>1 DEF VRef
  <2> QED
    BY <1>1, <1>2, <2>1, <2>2 DEF ShapeInv, NumberInv
<1>4. CASE Sig(d, i).causality \in {"input", "output"} /\ direct
  <2> DEFINE O == getSignalOffset(lookupSimBusChannelName(d), Sig(d, i).signal)
             v == IF O = {} THEN vrefs[d][i] ELSE CHOOSE o \in O : TRUE
  <2>1. vrefs' = [vrefs EXCEPT ![d][i] = v] /\ vref' = vref
    BY <1>4 DEF AnnotateSignal, OffsetSignal
  <2>2. v = VRef(a) \/ v \in Slot(SignalOf(a))
    <3>1. O = Slot(SignalOf(a))
      BY DEF Slot, SignalOf
    <3>2. VRef(a) = vrefs[d][i]
      BY DEF VRef
    <3> QED
      BY <3>1, <3>2
  <2> HIDE DEF v
  <2>3. ShapeInv' /\ \A x \in ScalarAt : VRef(x)' = IF x = a THEN v ELSE VRef(x)
    BY <1>1, <2>1, VrefUpdate
  <2>4. ASSUME NEW x \in ScalarAt, VRef(x)' # NULL
        PROVE  /\ Sig(x[1], x[2]).causality \in {"input", "output"}
               /\ VRef(x)' \in Slot(SignalOf(x))
    <3>1. CASE x = a
      <4>1. Sig(x[1], x[2]).causality \in {"input", "output"}
        BY <1>4, <3>1
      <4>2. CASE v = VRef(a)
        BY <1>1, <1>4, <2>3, <2>4, <3>1, <4>1, <4>2 DEF NumberInv
      <4>3. CASE v \in Slot(SignalOf(a))
        BY <2>3, <3>1, <4>1, <4>3
      <4> QED
        BY <2>2, <4>2, <4>3
    <3>2. CASE x # a
      BY <1>1, <1>4, <2>3, <2>4, <3>2 DEF NumberInv
    <3> QED
      BY <3>1, <3>2
  <2>5. direct' /\ vref' \in Nat
    BY <1>1, <1>4, <2>1 DEF NumberInv
  <2> QED
    BY <1>1, <1>2, <2>3, <2>4, <2>5 DEF NumberInv
<1>5. CASE Sig(d, i).causality \in {"input", "output"} /\ ~direct
  <2> DEFINE v == vref + 1
  <2>1. vrefs' = [vrefs EXCEPT ![d][i] = v] /\ vref' = v
    BY <1>5 DEF AnnotateSignal, NumberSignal
  <2>2. vref \in Nat /\ v \in Nat /\ ~direct' /\ v # NULL
    BY <1>1, <1>5, ChannelAssumption DEF NumberInv
  <2>3. ShapeInv' /\ \A x \in ScalarAt : VRef(x)' = IF x = a THEN v ELSE VRef(x)
    BY <1>1, <2>1, VrefUpdate
  <2>4. ASSUME NEW x \in ScalarAt, VRef(x) # NULL
        PROVE  /\ Sig(x[1], x[2]).causality \in {"input", "output"}
               /\ VRef(x) \in 1 .. vref
    BY <1>1, <1>5, <2>4 DEF NumberInv
  <2>5. ASSUME NEW x \in ScalarAt, VRef(x)' # NULL
        PROVE  /\ Sig(x[1], x[2]).causality \in {"input", "output"}
               /\ VRef(x)' \in 1 .. vref'
    <3>1. CASE x = a
      BY <1>5, <2>1, <2>2, <2>3, <3>1
    <3>2. CASE x # a
      BY <2>1, <2>2, <2>3, <2>4, <2>5, <3>2
    <3> QED
      BY <3>1, <3>2
  <2>6. ASSUME NEW x \in ScalarAt, NEW y \in ScalarAt, VRef(x)' # NULL, VRef(x)' = VRef(y)'
        PROVE  x = y
    <3>1. CASE x = a /\ y # a
      BY <2>2, <2>3, <2>4, <2>6, <3>1
    <3>2. CASE x # a /\ y = a
      BY <2>2, <2>3, <2>4, <2>6, <3>2
    <3>3. CASE x # a /\ y # a
      BY <1>1, <1>5, <2>3, <2>6, <3>3 DEF NumberInv
    <3> QED
      BY <3>1, <3>2, <3>3
  <2>7. vref' \in Nat
    BY <2>1, <2>2
  <2> HIDE DEF v
  <2> QED
    BY <1>1, <1>2, <2>2, <2>3, <2>5, <2>6, <2>7 DEF NumberInv
<1> QED
  BY <1>3, <1>4, <1>5, <1>1

LEMMA NumberStep == FmuInvariant /\ [Next]_vars => ShapeInv' /\ NumberInv'
<1> SUFFICES ASSUME FmuInvariant, [Next]_vars PROVE ShapeInv' /\ NumberInv'
  OBVIOUS
<1>0. /\ UNCHANGED <<docs, direct>> /\ FolderInv /\ PhaseInv /\ ShapeInv /\ NumberInv /\ PhaseInv'
      /\ ScalarAt' = ScalarAt /\ \A x : SignalOf(x)' = SignalOf(x)
      /\ \A e, j : Sig(e, j)' = Sig(e, j)
  <2>1. UNCHANGED <<docs, direct>> /\ PhaseInv'
    BY FolderStep, PhaseStep DEF FmuInvariant
  <2>2. ScalarAt' = ScalarAt /\ \A x : SignalOf(x)' = SignalOf(x)
    BY <2>1, FolderFrame
  <2> QED
    BY <2>1, <2>2 DEF FmuInvariant, Sig
<1>1. CASE CollectingStep
  <2>1. pc \in {"index", "offsets"} /\ UNCHANGED <<vrefs, vref>> /\ direct
    BY <1>0, <1>1, CollectingFrame DEF PhaseInv
  <2>2. \A x \in ScalarAt : VRef(x) = NULL /\ VRef(x)' = NULL
    BY <1>0, <2>1 DEF NumberInv, VRef
  <2> QED
    BY <1>0, <2>1, <2>2 DEF ShapeInv, NumberInv
<1>2. CASE AnnotateSignal
  BY <1>2, AnnotateStep
<1>3. CASE WriteIndex \/ IdleStep \/ fmu_create \/ fmu_init \/ CallStep \/ UNCHANGED vars
  <2>1. UNCHANGED diVars /\ UNCHANGED <<vrefs, vref>>
    BY <1>3, LaterFrame, QuietFrame
  <2>2. \A x : VRef(x)' = VRef(x)
    BY <2>1 DEF VRef
  <2>3. \A x : Slot(x)' = Slot(x)
    BY <2>1 DEF Slot, getSignalOffset, Offset, diVars
  <2>4. pc \notin {"index", "offsets"} => pc' \notin {"index", "offsets"}
    <3>1. CASE WriteIndex
      BY <3>1 DEF WriteIndex
    <3>2. CASE IdleStep
      BY <3>2 DEF IdleStep, AnnotateDocument, AnnotateFails, SaveIndex, fmu_destroy, Done, vars
    <3>3. CASE fmu_create
      BY <3>3 DEF fmu_create
    <3>4. CASE fmu_init
      BY <3>4 DEF fmu_init
    <3>5. CASE CallStep
      BY <3>5 DEF CallStep, SetRealStep, SetStringStep, DoStepStep, SetReal, SetString, DoStep
    <3>6. CASE UNCHANGED vars
      BY <3>6 DEF vars
    <3> QED
      BY <1>3, <3>1, <3>2, <3>3, <3>4, <3>5, <3>6
  <2>5. vref' = vref /\ vrefs' = vrefs
    BY <2>1
  <2> QED
    BY <1>0, <2>2, <2>3, <2>4, <2>5 DEF ShapeInv, NumberInv
<1> QED
  BY <1>1, <1>2, <1>3, NextCases

(***************************************************************************)
(* The index of the FMU, the scalars and the networks.                     *)
(***************************************************************************)

(* Without fmu_init the index stays.                                       *)
LEMMA IdxFrame ==
  ASSUME PhaseInv, [Next]_vars, ~fmu_init
  PROVE  /\ UNCHANGED idxVars
         /\ pc' \notin {"ready", "freed"} => pc \notin {"ready", "freed"}
         /\ pc' = "ready" => pc = "ready" /\ UNCHANGED <<vrefs, groups, groupOffset>>
<1>1. CASE CollectingStep
  BY <1>1, CollectingFrame
<1>2. CASE WriteIndex
  BY <1>2 DEF WriteIndex
<1>3. CASE AnnotateSignal
  BY <1>3 DEF AnnotateSignal
<1>4. CASE AnnotateDocument \/ AnnotateFails \/ SaveIndex \/ fmu_destroy
  BY <1>4 DEF AnnotateDocument, AnnotateFails, SaveIndex, fmu_destroy
<1>5. CASE fmu_create
  BY <1>5 DEF fmu_create
<1>6. CASE CallStep
  <2>1. UNCHANGED idxVars /\ pc' = pc
    BY <1>6 DEF CallStep, SetRealStep, SetStringStep, DoStepStep, SetReal, SetString, DoStep
  <2> QED
    BY <1>6, <2>1, LaterFrame, QuietFrame DEF diVars
<1>7. CASE UNCHANGED vars
  BY <1>7 DEF vars, diVars, cmdVars
<1> QED
  BY <1>1, <1>2, <1>3, <1>4, <1>5, <1>6, <1>7, NextCases DEF IdleStep, Done

LEMMA FmuStep == FmuInvariant /\ [Next]_vars => FmuInv'
<1> SUFFICES ASSUME FmuInvariant, [Next]_vars PROVE FmuInv'
  OBVIOUS
<1>0. /\ UNCHANGED <<docs, direct>> /\ PhaseInv /\ FmuInv
      /\ Entries(FALSE)' = Entries(FALSE)
  BY FolderStep, FolderFrame DEF FmuInvariant
<1>1. CASE ~fmu_init
  <2>1. /\ UNCHANGED idxVars
        /\ pc' \notin {"ready", "freed"} => pc \notin {"ready", "freed"}
        /\ pc' = "ready" => pc = "ready" /\ UNCHANGED <<vrefs, groups, groupOffset>>
    BY <1>0, <1>1, IdxFrame
  <2>2. CASE pc' \notin {"ready", "freed"}
    BY <1>0, <2>1, <2>2 DEF FmuInv, idxVars
  <2>3. CASE pc' = "ready"
    <3>1. MapSize' = MapSize
      BY <2>1, <2>3 DEF MapSize
    <3>2. UNCHANGED <<docs, vrefs>>
      BY <1>0, <2>1, <2>3
    <3>3. UNCHANGED <<direct_map, scalar_input, scalar_output, binary_rx, binary_tx, encoded, direct>>
      BY <1>0, <2>1 DEF idxVars
    <3>4. /\ fmimodelc_index_scalar_signals("input")' = fmimodelc_index_scalar_signals("input")
          /\ fmimodelc_index_scalar_signals("output")' = fmimodelc_index_scalar_signals("output")
          /\ fmimodelc_index_binary_signals("rx")' = fmimodelc_index_binary_signals("rx")
          /\ fmimodelc_index_binary_signals("tx")' = fmimodelc_index_binary_signals("tx")
          /\ fmimodelc_index_text_encoding' = fmimodelc_index_text_encoding
      BY <3>2, MapFrame
    <3>5. direct_map = (direct /\ MapSize > 0 /\ Entries(FALSE) # {})
      BY <1>0, <2>1, <2>3 DEF FmuInv
    <3>6. direct_map' = (direct' /\ MapSize' > 0 /\ Entries(FALSE)' # {})
      <4>1. direct_map' = direct_map /\ direct' = direct
        BY <3>3
      <4>2. Entries(FALSE)' = Entries(FALSE)
        BY <1>0
      <4> QED
        BY <4>1, <4>2, <3>1, <3>5
    <3>7. /\ ~direct_map => /\ scalar_input = fmimodelc_index_scalar_signals("input")
                            /\ scalar_output = fmimodelc_index_scalar_signals("output")
          /\ binary_rx = fmimodelc_index_binary_signals("rx")
          /\ binary_tx = fmimodelc_index_binary_signals("tx")
          /\ encoded = fmimodelc_index_text_encoding
      BY <1>0, <2>1, <2>3 DEF FmuInv
    <3>8. /\ ~direct_map' => /\ scalar_input' = fmimodelc_index_scalar_signals("input")'
                             /\ scalar_output' = fmimodelc_index_scalar_signals("output")'
          /\ binary_rx' = fmimodelc_index_binary_signals("rx")'
          /\ binary_tx' = fmimodelc_index_binary_signals("tx")'
          /\ encoded' = fmimodelc_index_text_encoding'
      BY <3>3, <3>4, <3>7
    <3> QED
      BY <2>3, <3>6, <3>8, Zenon DEF FmuInv
  <2>4. CASE pc' = "freed"
    BY <2>4 DEF FmuInv
  <2> QED
    BY <2>2, <2>3, <2>4
<1>2. CASE fmu_init
  <2>1. /\ pc = "created" /\ pc' = "ready" /\ UNCHANGED diVars /\ UNCHANGED <<docs, vrefs>>
        /\ direct_map' = (direct /\ MapSize > 0 /\ Entries(FALSE) # {})
        /\ ~direct_map' => /\ scalar_input' = fmimodelc_index_scalar_signals("input")
                           /\ scalar_output' = fmimodelc_index_scalar_signals("output")
        /\ binary_rx' = fmimodelc_index_binary_signals("rx")
        /\ binary_tx' = fmimodelc_index_binary_signals("tx")
        /\ encoded' = fmimodelc_index_text_encoding
    BY <1>2 DEF fmu_init, cmdVars
  <2>2. MapSize' = MapSize
    BY <2>1 DEF MapSize, diVars
  <2>3. /\ fmimodelc_index_scalar_signals("input")' = fmimodelc_index_scalar_signals("input")
        /\ fmimodelc_index_scalar_signals("output")' = fmimodelc_index_scalar_signals("output")
        /\ fmimodelc_index_binary_signals("rx")' = fmimodelc_index_binary_signals("rx")
        /\ fmimodelc_index_binary_signals("tx")' = fmimodelc_index_binary_signals("tx")
        /\ fmimodelc_index_text_encoding' = fmimodelc_index_text_encoding
    BY <2>1, MapFrame
  <2> QED
    BY <1>0, <2>1, <2>2, <2>3 DEF FmuInv
<1> QED
  BY <1>1, <1>2

(* What a write through the map changes: the variable's signal.            *)
LEMMA MapWrite ==
  ASSUME FmuInvariant, pc = "ready", direct_map, NEW x \in Variables, NEW val,
         WriteMap(VRef(x), val)
  PROVE  /\ ~damaged'
         /\ bus' = [y \in DOMAIN bus |-> IF y = SignalOf(x) THEN val ELSE bus[y]]
<1> DEFINE vr == VRef(x)
<1>1. direct /\ ~damaged /\ bus = expect /\ expect = [y \in BusSignals(FALSE) |-> expect[y]]
  BY DEF FmuInvariant, FmuInv, BusInv
<1>2. vr \in Slot(SignalOf(x)) /\ group = Len(groups)
  BY <1>1, PlaceFacts DEF FmuInvariant, NumberInv, PhaseInv
<1>3. SignalOf(x) = <<SignalOf(x)[1], SignalOf(x)[2]>>
  BY DEF SignalOf
<1>4. /\ vr \in Nat /\ vr + 8 <= MapSize /\ MapSize \in Nat
      /\ \A g \in DOMAIN groups : Clear(vr, FieldsOf(g), BlockEnd(g))
      /\ \A y : \A o \in Slot(y) : o # vr => Clear(vr, o, o + 8)
      /\ \A y : y = <<y[1], y[2]>> /\ vr \in Slot(y) => y = SignalOf(x)
  BY <1>2, <1>3, SlotAlone DEF FmuInvariant
<1>5. \A y \in DOMAIN bus : y = <<y[1], y[2]>>
  <2>1. DOMAIN bus = BusSignals(FALSE)
    BY <1>1
  <2>2. \A e : SimBusSignal(e) = <<SimBusSignal(e)[1], SimBusSignal(e)[2]>>
    BY DEF SimBusSignal
  <2> QED
    BY <2>1, <2>2 DEF BusSignals
<1>6. ~(vr > MapSize) /\ ~(vr + 8 > MapSize)
  BY <1>4
<1>7. /\ bus' = [y \in DOMAIN bus |->
                   IF vr \in Slot(y) THEN val
                   ELSE IF \E o \in Slot(y) : ~Clear(vr, o, o + 8) THEN NULL
                   ELSE bus[y]]
      /\ damaged' = (\/ damaged \/ vr + 8 > MapSize
                     \/ \E g \in DOMAIN groups : ~Clear(vr, FieldsOf(g), BlockEnd(g)))
  BY <1>6 DEF WriteMap
<1> HIDE DEF vr
<1>8. ~damaged'
  BY <1>1, <1>4, <1>6, <1>7
<1>9. ASSUME NEW y \in DOMAIN bus
      PROVE  /\ vr \in Slot(y) <=> y = SignalOf(x)
             /\ vr \notin Slot(y) => ~\E o \in Slot(y) : ~Clear(vr, o, o + 8)
  BY <1>2, <1>4, <1>5, <1>9
<1> QED
  BY <1>7, <1>8, <1>9

LEMMA HashWrite ==
  ASSUME FmuInvariant, pc = "ready", ~direct_map, NEW x \in Variables, NEW val,
         Sig(x[1], x[2]).causality = "input", WriteHash(VRef(x), val)
  PROVE  /\ ~damaged'
         /\ bus' = IF SignalOf(x) \in BusSignals(FALSE)
                     THEN [bus EXCEPT ![SignalOf(x)] = val] ELSE bus
<1>1. ~damaged /\ ~damaged'
  BY DEF FmuInvariant, BusInv, WriteHash
<1>2. /\ ~(direct /\ MapSize > 0 /\ Entries(FALSE) # {})
      /\ scalar_input = fmimodelc_index_scalar_signals("input")
  BY DEF FmuInvariant, FmuInv
<1>3. /\ VRef(x) \in DOMAIN scalar_input <=> SignalOf(x) \in BusSignals(FALSE)
      /\ VRef(x) \in DOMAIN scalar_input => scalar_input[VRef(x)] = SignalOf(x)
  BY <1>2, HashExact DEF FmuInvariant
<1> QED
  BY <1>1, <1>3 DEF WriteHash

LEMMA BusStep == FmuInvariant /\ [Next]_vars => BusInv'
<1> SUFFICES ASSUME FmuInvariant, [Next]_vars PROVE BusInv'
  OBVIOUS
<1>0. /\ BusInv /\ BusSignals(FALSE)' = BusSignals(FALSE)
  BY FolderStep, FolderFrame DEF FmuInvariant
<1>1. ASSUME UNCHANGED busVars, pc' \in {"created", "ready"} => pc \in {"created", "ready"}
      PROVE  BusInv'
  BY <1>0, <1>1 DEF BusInv, busVars
<1>2. CASE CollectingStep
  BY <1>1, <1>2, CollectingFrame
<1>3. CASE WriteIndex \/ AnnotateSignal
  BY <1>1, <1>3 DEF WriteIndex, AnnotateSignal
<1>4. CASE IdleStep
  BY <1>1, <1>4 DEF IdleStep, AnnotateDocument, AnnotateFails, SaveIndex, fmu_destroy, Done, vars
<1>5. CASE fmu_create
  <2>1. ~damaged' /\ bus' = [x \in BusSignals(FALSE) |-> 0] /\ expect' = bus'
    BY <1>0, <1>5 DEF fmu_create, BusInv
  <2> QED
    BY <1>0, <2>1 DEF BusInv
<1>6. CASE fmu_init
  BY <1>1, <1>6 DEF fmu_init
<1>7. CASE UNCHANGED vars
  BY <1>1, <1>7 DEF vars
<1>8. ASSUME NEW x \in Variables, NEW val \in Value, SetReal(x, val)  PROVE BusInv'
  <2>1. /\ pc \in {"created", "ready"} /\ pc' = pc
        /\ Sig(x[1], x[2]).causality = "input"
        /\ bus = expect /\ expect = [y \in BusSignals(FALSE) |-> expect[y]]
        /\ DOMAIN expect = BusSignals(FALSE)
    BY <1>0, <1>8 DEF SetReal, BusInv
  <2>2. expect' = IF pc = "ready" /\ SignalOf(x) \in DOMAIN expect
                    THEN [expect EXCEPT ![SignalOf(x)] = val] ELSE expect
    BY <1>8 DEF SetReal
  <2>3. CASE pc = "created"
    <3>1. direct_map = FALSE /\ DOMAIN scalar_input = {}
      BY <2>3 DEF FmuInvariant, FmuInv
    <3>2. bus' = bus /\ damaged' = damaged
      BY <1>8, <3>1 DEF SetReal, WriteHash
    <3> QED
      BY <1>0, <2>1, <2>2, <2>3, <3>2 DEF BusInv
  <2>4. CASE pc = "ready" /\ direct_map
    <3>1. /\ ~damaged'
          /\ bus' = [y \in DOMAIN bus |-> IF y = SignalOf(x) THEN val ELSE bus[y]]
      BY <1>8, <2>4, MapWrite DEF SetReal
    <3>2. bus' = expect' /\ expect' = [y \in BusSignals(FALSE) |-> expect'[y]]
      BY <2>1, <2>2, <2>4, <3>1
    <3> QED
      BY <1>0, <3>1, <3>2 DEF BusInv
  <2>5. CASE pc = "ready" /\ ~direct_map
    <3>1. /\ ~damaged'
          /\ bus' = IF SignalOf(x) \in BusSignals(FALSE)
                      THEN [bus EXCEPT ![SignalOf(x)] = val] ELSE bus
      BY <1>8, <2>1, <2>5, HashWrite DEF SetReal
    <3>2. bus' = expect' /\ expect' = [y \in BusSignals(FALSE) |-> expect'[y]]
      BY <2>1, <2>2, <2>5, <3>1
    <3> QED
      BY <1>0, <3>1, <3>2 DEF BusInv
  <2> QED
    BY <2>1, <2>3, <2>4, <2>5
<1>9. CASE SetStringStep
  <2>1. pc' = pc /\ UNCHANGED <<bus, damaged, expect>>
    BY <1>9 DEF SetStringStep, SetString
  <2> QED
    BY <1>0, <2>1 DEF BusInv
<1>10. ASSUME NEW y \in DOMAIN bus, NEW val, NEW n, NEW f, DoStep(y, val, n, f)
       PROVE  BusInv'
  <2>1. /\ pc = "ready" /\ pc' = pc /\ damaged' = damaged
        /\ bus' = [bus EXCEPT ![y] = val] /\ expect' = [expect EXCEPT ![y] = val]
    BY <1>10 DEF DoStep
  <2>2. bus = expect /\ expect = [z \in BusSignals(FALSE) |-> expect[z]] /\ ~damaged
    BY <1>0, <2>1 DEF BusInv
  <2>3. bus' = expect' /\ expect' = [z \in BusSignals(FALSE) |-> expect'[z]]
    BY <2>1, <2>2
  <2> QED
    BY <1>0, <2>1, <2>2, <2>3 DEF BusInv
<1> QED
  BY <1>2, <1>3, <1>4, <1>5, <1>6, <1>7, <1>8, <1>9, <1>10, NextCases
     DEF CallStep, SetRealStep, DoStepStep
-----------------------------------------------------------------------------
(***************************************************************************)
(* The networks.                                                           *)
(***************************************************************************)

(* The value references that list l of a network names.                    *)
Listed(e, l) == SignalMatch(e)[l]

LEMMA BinaryMapHit ==
  ASSUME FolderInv, NEW l, NEW v
  PROVE  /\ v \in DOMAIN fmimodelc_index_binary_signals(l) <=>
              \E e \in Annotated(TRUE) : v \in Listed(e, l)
         /\ v \in DOMAIN fmimodelc_index_binary_signals(l) =>
              \E e \in Annotated(TRUE) :
                v \in Listed(e, l) /\ fmimodelc_index_binary_signals(l)[v] = SimBusSignal(e)
<1> DEFINE A == Annotated(TRUE)
           pairs == UNION {{<<e, w>> : w \in Listed(e, l)} : e \in A}
           m == fmimodelc_index_binary_signals(l)
<1>1. m = HashMap(pairs)
  BY DEF fmimodelc_index_binary_signals, Listed
<1>2. A \subseteq Entries(TRUE)
  BY DEF Annotated
<1> HIDE DEF A, m
<1>3. /\ \A p \in pairs : p[1] \in A /\ p[2] \in Listed(p[1], l)
      /\ \A e \in A : \A w \in Listed(e, l) : \E p \in pairs : p[1] = e /\ p[2] = w
  <2>1. ASSUME NEW p \in pairs  PROVE p[1] \in A /\ p[2] \in Listed(p[1], l)
    <3>1. PICK e \in A : p \in {<<e, w>> : w \in Listed(e, l)}
      OBVIOUS
    <3>2. PICK w \in Listed(e, l) : p = <<e, w>>
      BY <3>1
    <3>3. p[1] = e /\ p[2] = w
      BY <3>2
    <3> QED
      BY <3>2, <3>3
  <2>2. ASSUME NEW e \in A, NEW w \in Listed(e, l)
        PROVE  \E p \in pairs : p[1] = e /\ p[2] = w
    <3>1. <<e, w>> \in {<<e, u>> : u \in Listed(e, l)}
      OBVIOUS
    <3>2. <<e, w>> \in pairs
      BY <3>1
    <3> QED
      BY <3>2
  <2> QED
    BY <2>1, <2>2
<1> HIDE DEF pairs
<1>4. SetInLoop(pairs)
  BY <1>2, <1>3 DEF SetInLoop
<1>5. /\ v \in DOMAIN HashMap(pairs) <=> \E p \in pairs : p[2] = v
      /\ v \in DOMAIN HashMap(pairs) =>
           \E p \in pairs : p[2] = v /\ HashMap(pairs)[v] = SimBusSignal(p[1])
  BY <1>4, HashMapHit
<1>6. v \in DOMAIN m <=> \E e \in A : v \in Listed(e, l)
  BY <1>1, <1>3, <1>5
<1>7. v \in DOMAIN m => \E e \in A : v \in Listed(e, l) /\ m[v] = SimBusSignal(e)
  BY <1>1, <1>3, <1>5
<1> QED
  BY <1>6, <1>7 DEF A, m

(* The signal whose lists are read is one of the same network.             *)
LEMMA MatchFacts ==
  ASSUME FolderInv, NEW e \in Entries(TRUE)
  PROVE  \E f \in Entries(TRUE) :
           /\ f[1] = e[1] /\ Sig(f[2], f[3]).signal = Sig(e[2], e[3]).signal
           /\ SignalMatch(e) = Sig(f[2], f[3])
<1> DEFINE S == {f \in Entries(TRUE) : f[1] = e[1]
                   /\ Sig(f[2], f[3]).signal = Sig(e[2], e[3]).signal}
<1>1. e \in S /\ S \subseteq Entries(TRUE)
  OBVIOUS
<1>2. SignalMatch(e) = Sig(LastEntry(S)[2], LastEntry(S)[3])
  BY DEF SignalMatch
<1>3. LastEntry(S) \in S
  <2> HIDE DEF S
  <2> QED
    BY <1>1, LastEntryIn, Zenon
<1> QED
  BY <1>2, <1>3

(* Two entries of the networks, and what is assumed of their signals.      *)
LEMMA TwoNetworks ==
  ASSUME FolderInv, NEW e \in Entries(TRUE), NEW h \in Entries(TRUE)
  PROVE  /\ \/ Sig(e[2], e[3]).rx \cap Sig(h[2], h[3]).rx # {}
            \/ Sig(e[2], e[3]).tx \cap Sig(h[2], h[3]).tx # {}
            => SimBusSignal(e) = SimBusSignal(h)
         /\ e[1] = h[1] /\ Sig(e[2], e[3]).signal = Sig(h[2], h[3]).signal
            => Sig(e[2], e[3]).encoding = Sig(h[2], h[3]).encoding
<1>1. /\ e[1] \in 1 .. Len(StackChannel) /\ e[2] \in 1 .. Len(docs)
      /\ e[3] \in DOMAIN docs[e[2]].signals
      /\ Selects(e[1], e[2]) /\ docs[e[2]].binary
      /\ h[1] \in 1 .. Len(StackChannel) /\ h[2] \in 1 .. Len(docs)
      /\ h[3] \in DOMAIN docs[h[2]].signals
      /\ Selects(h[1], h[2]) /\ docs[h[2]].binary
  <2>1. /\ e[1] \in DOMAIN StackChannel /\ e[2] \in DOMAIN docs
        /\ e[3] \in DOMAIN docs[e[2]].signals
        /\ Selects(e[1], e[2]) /\ docs[e[2]].binary = TRUE
    BY EntryFacts
  <2>2. /\ h[1] \in DOMAIN StackChannel /\ h[2] \in DOMAIN docs
        /\ h[3] \in DOMAIN docs[h[2]].signals
        /\ Selects(h[1], h[2]) /\ docs[h[2]].binary = TRUE
    BY EntryFacts
  <2> QED
    BY <2>1, <2>2, FolderFacts, ChannelFacts
<1>2. /\ Selectors(e[1]) # NULL /\ Selectors(e[1]) \subseteq docs[e[2]].labels
      /\ Selectors(h[1]) # NULL /\ Selectors(h[1]) \subseteq docs[h[2]].labels
  BY <1>1 DEF Selects
<1> DEFINE a == docs[e[2]].signals[e[3]]
           b == docs[h[2]].signals[h[3]]
<1>3. /\ a.rx \cap b.rx # {} \/ a.tx \cap b.tx # {} =>
           a.signal = b.signal /\ StackChannel[e[1]].name = StackChannel[h[1]].name
      /\ e[1] = h[1] /\ a.signal = b.signal => a.encoding = b.encoding
  <2> DEFINE d == e[2]
             c == h[2]
  <2>1. docs \in Documents /\ d \in 1 .. Len(docs) /\ c \in 1 .. Len(docs)
    BY <1>1 DEF FolderInv
  <2> HIDE DEF d, c
  <2>2. \A i \in DOMAIN docs[d].signals, j \in DOMAIN docs[c].signals :
        \A k, l \in 1 .. Len(StackChannel) :
          /\ docs[d].binary /\ docs[c].binary
          /\ Selectors(k) # NULL /\ Selectors(k) \subseteq docs[d].labels
          /\ Selectors(l) # NULL /\ Selectors(l) \subseteq docs[c].labels
          => /\ \/ docs[d].signals[i].rx \cap docs[c].signals[j].rx # {}
                \/ docs[d].signals[i].tx \cap docs[c].signals[j].tx # {}
                => /\ docs[d].signals[i].signal = docs[c].signals[j].signal
                   /\ StackChannel[k].name = StackChannel[l].name
             /\ k = l /\ docs[d].signals[i].signal = docs[c].signals[j].signal
                => docs[d].signals[i].encoding = docs[c].signals[j].encoding
    BY <2>1, NetworkAssumption, Zenon
  <2> DEFINE i == e[3]
             j == h[3]
             k == e[1]
             l == h[1]
  <2>3. /\ i \in DOMAIN docs[d].signals /\ j \in DOMAIN docs[c].signals
        /\ k \in 1 .. Len(StackChannel) /\ l \in 1 .. Len(StackChannel)
        /\ docs[d].binary /\ docs[c].binary
        /\ Selectors(k) # NULL /\ Selectors(k) \subseteq docs[d].labels
        /\ Selectors(l) # NULL /\ Selectors(l) \subseteq docs[c].labels
    BY <1>1, <1>2 DEF d, c
  <2> HIDE DEF i, j, k, l
  <2>4. /\ \/ docs[d].signals[i].rx \cap docs[c].signals[j].rx # {}
           \/ docs[d].signals[i].tx \cap docs[c].signals[j].tx # {}
           => /\ docs[d].signals[i].signal = docs[c].signals[j].signal
              /\ StackChannel[k].name = StackChannel[l].name
        /\ k = l /\ docs[d].signals[i].signal = docs[c].signals[j].signal
           => docs[d].signals[i].encoding = docs[c].signals[j].encoding
    BY <2>2, <2>3
  <2> QED
    BY <2>4 DEF d, c, i, j, k, l
<1>4. a = Sig(e[2], e[3]) /\ b = Sig(h[2], h[3])
  BY DEF Sig
<1> HIDE DEF a, b
<1> QED
  BY <1>3, <1>4 DEF SimBusSignal

(* A value reference leads to one network, and the texts of a network are  *)
(* encoded where the FMU decodes them.                                     *)
LEMMA OneNetwork ==
  ASSUME FolderInv, NEW e \in Annotated(TRUE), NEW h \in Annotated(TRUE), NEW v,
         \/ v \in SignalMatch(e).rx /\ v \in SignalMatch(h).rx
         \/ v \in SignalMatch(e).tx /\ v \in SignalMatch(h).tx
  PROVE  SimBusSignal(e) = SimBusSignal(h)
<1>1. e \in Entries(TRUE) /\ h \in Entries(TRUE)
  BY DEF Annotated
<1>2. PICK f \in Entries(TRUE) :
        /\ f[1] = e[1] /\ Sig(f[2], f[3]).signal = Sig(e[2], e[3]).signal
        /\ SignalMatch(e) = Sig(f[2], f[3])
  BY <1>1, MatchFacts
<1>3. PICK g \in Entries(TRUE) :
        /\ g[1] = h[1] /\ Sig(g[2], g[3]).signal = Sig(h[2], h[3]).signal
        /\ SignalMatch(h) = Sig(g[2], g[3])
  BY <1>1, MatchFacts
<1>4. SimBusSignal(f) = SimBusSignal(e) /\ SimBusSignal(g) = SimBusSignal(h)
  BY <1>2, <1>3 DEF SimBusSignal
<1>5. \/ Sig(f[2], f[3]).rx \cap Sig(g[2], g[3]).rx # {}
      \/ Sig(f[2], f[3]).tx \cap Sig(g[2], g[3]).tx # {}
  BY <1>2, <1>3
<1>6. SimBusSignal(f) = SimBusSignal(g)
  BY <1>5, TwoNetworks
<1> QED
  BY <1>4, <1>6

LEMMA EncodingAgrees ==
  ASSUME FolderInv, NEW v, NEW f
  PROVE  /\ TextOf(v, f).frame = f
         /\ v \in fmimodelc_index_text_encoding => TextOf(v, f).ascii85 = TRUE
         /\ v \notin fmimodelc_index_text_encoding => TextOf(v, f).ascii85 = FALSE
<1>1. ASSUME NEW e \in Annotated(TRUE)
      PROVE  SignalMatch(e).encoding = Sig(e[2], e[3]).encoding
  <2>1. e \in Entries(TRUE)
    BY DEF Annotated
  <2>2. PICK h \in Entries(TRUE) :
          /\ h[1] = e[1] /\ Sig(h[2], h[3]).signal = Sig(e[2], e[3]).signal
          /\ SignalMatch(e) = Sig(h[2], h[3])
    BY <2>1, MatchFacts
  <2> QED
    BY <2>1, <2>2, TwoNetworks
<1>2. v \in fmimodelc_index_text_encoding <=>
        \E e \in Annotated(TRUE) :
          v \in SignalMatch(e).text /\ SignalMatch(e).encoding = "ascii85"
  BY <1>1 DEF fmimodelc_index_text_encoding
<1>3. TextOf(v, f).frame = f
  BY DEF TextOf
<1>4. TextOf(v, f).ascii85 = (\E e \in Annotated(TRUE) :
        v \in SignalMatch(e).text /\ SignalMatch(e).encoding = "ascii85")
  BY DEF TextOf
<1> QED
  BY <1>2, <1>3, <1>4

(* A call that sets a text appends the frame to the networks that declare  *)
(* the value reference, which are none or one.                             *)
LEMMA SetStringExact ==
  ASSUME FmuInvariant, pc = "ready", NEW v, NEW f, SetString(v, f)
  PROVE  net' = sent'
<1> DEFINE B == BusSignals(TRUE)
<1>1. /\ FolderInv /\ net = [n \in B |-> net[n]] /\ sent = [n \in B |-> sent[n]]
      /\ signals_reset => net = sent
      /\ ~signals_reset => sent = [n \in B |-> << >>]
  BY DEF FmuInvariant, NetInv
<1>2. DOMAIN net = B /\ DOMAIN sent = B
  BY <1>1
<1>3. fmu_signals_reset = sent
  BY <1>1, <1>2 DEF fmu_signals_reset, Empty
<1>4. /\ binary_rx = fmimodelc_index_binary_signals("rx")
      /\ encoded = fmimodelc_index_text_encoding
  BY DEF FmuInvariant, FmuInv
<1>5. /\ v \in DOMAIN binary_rx <=> \E e \in Annotated(TRUE) : v \in SignalMatch(e).rx
      /\ v \in DOMAIN binary_rx =>
           \E e \in Annotated(TRUE) : v \in SignalMatch(e).rx /\ binary_rx[v] = SimBusSignal(e)
  BY <1>1, <1>4, BinaryMapHit DEF Listed
<1>6. sent' = [n \in DOMAIN sent |-> IF n \in Networks(v) THEN Append(sent[n], f) ELSE sent[n]]
  BY DEF SetString
<1>7. CASE v \notin DOMAIN binary_rx
  <2>1. Networks(v) = {}
    BY <1>5, <1>7 DEF Networks
  <2>2. net' = sent
    BY <1>3, <1>7 DEF SetString
  <2> QED
    BY <1>1, <1>2, <1>6, <2>1, <2>2
<1>8. CASE v \in DOMAIN binary_rx
  <2>1. PICK e \in Annotated(TRUE) : v \in SignalMatch(e).rx /\ binary_rx[v] = SimBusSignal(e)
    BY <1>5, <1>8
  <2>2. Networks(v) = {binary_rx[v]}
    <3>1. \A h \in Annotated(TRUE) : v \in SignalMatch(h).rx => SimBusSignal(h) = SimBusSignal(e)
      BY <1>1, <2>1, OneNetwork
    <3> QED
      BY <2>1, <3>1 DEF Networks
  <2>3. binary_rx[v] \in B
    BY <2>1 DEF Annotated, BusSignals
  <2>4. Decode(v, TextOf(v, f)) = f
    <3>1. /\ TextOf(v, f).frame = f
          /\ v \in encoded => TextOf(v, f).ascii85 = TRUE
          /\ v \notin encoded => TextOf(v, f).ascii85 = FALSE
      BY <1>1, <1>4, EncodingAgrees
    <3>2. CASE v \in encoded
      <4>1. (v \in encoded) = TextOf(v, f).ascii85
        BY <3>1, <3>2
      <4> QED
        BY <3>1, <4>1, Zenon DEF Decode
    <3>3. CASE v \notin encoded
      <4>1. (v \in encoded) = TextOf(v, f).ascii85
        <5>1. (v \in encoded) = FALSE
          BY <3>3
        <5>2. TextOf(v, f).ascii85 = FALSE
          BY <3>1, <3>3
        <5> QED
          BY <5>1, <5>2, Zenon
      <4> QED
        BY <3>1, <4>1, Zenon DEF Decode
    <3> QED
      BY <3>2, <3>3
  <2>5. net' = [sent EXCEPT ![binary_rx[v]] = Append(@, f)]
    BY <1>3, <1>8, <2>4 DEF SetString
  <2> QED
    BY <1>1, <1>2, <1>6, <2>2, <2>3, <2>5
<1> QED
  BY <1>7, <1>8

LEMMA NetStep == FmuInvariant /\ [Next]_vars => NetInv'
<1> SUFFICES ASSUME FmuInvariant, [Next]_vars PROVE NetInv'
  OBVIOUS
<1>0. /\ NetInv /\ BusSignals(TRUE)' = BusSignals(TRUE)
  BY FolderStep, FolderFrame DEF FmuInvariant
<1>1. ASSUME UNCHANGED <<net, sent, signals_reset>>,
             pc' \in {"created", "ready"} => pc \in {"created", "ready"}
      PROVE  NetInv'
  BY <1>0, <1>1 DEF NetInv
<1>2. CASE CollectingStep
  BY <1>1, <1>2, CollectingFrame DEF busVars
<1>3. CASE WriteIndex \/ AnnotateSignal
  BY <1>1, <1>3 DEF WriteIndex, AnnotateSignal, busVars
<1>4. CASE IdleStep
  BY <1>1, <1>4 DEF IdleStep, AnnotateDocument, AnnotateFails, SaveIndex, fmu_destroy, Done, vars, busVars
<1>5. CASE fmu_create
  <2>1. net' = [x \in BusSignals(TRUE) |-> << >>] /\ sent' = net'
    BY <1>5 DEF fmu_create
  <2> QED
    BY <1>0, <2>1 DEF NetInv
<1>6. CASE fmu_init
  BY <1>1, <1>6 DEF fmu_init, busVars
<1>7. CASE UNCHANGED vars
  BY <1>1, <1>7 DEF vars, busVars
<1>8. CASE SetRealStep
  BY <1>1, <1>8 DEF SetRealStep, SetReal
<1>9. ASSUME NEW v \in NetVRefs, NEW f \in Frame, SetString(v, f)  PROVE NetInv'
  <2>1. pc \in {"created", "ready"} /\ pc' = pc /\ signals_reset' = TRUE
    BY <1>9 DEF SetString
  <2>2. /\ net = [n \in BusSignals(TRUE) |-> net[n]] /\ sent = [n \in BusSignals(TRUE) |-> sent[n]]
        /\ signals_reset => net = sent
        /\ ~signals_reset => sent = [n \in BusSignals(TRUE) |-> << >>]
    BY <1>0, <2>1 DEF NetInv
  <2>3. sent' = [n \in BusSignals(TRUE) |-> sent'[n]]
    BY <1>9, <2>2 DEF SetString
  <2>4. net' = sent'
    <3>1. CASE pc = "created"
      <4>1. v \notin DOMAIN binary_rx
        BY <3>1 DEF FmuInvariant, FmuInv
      <4>2. net' = fmu_signals_reset
        BY <1>9, <4>1 DEF SetString
      <4>3. fmu_signals_reset = sent
        BY <2>2 DEF fmu_signals_reset, Empty
      <4>4. sent' = sent
        BY <1>9, <2>2, <3>1 DEF SetString
      <4> QED
        BY <4>2, <4>3, <4>4
    <3>2. CASE pc = "ready"
      BY <1>9, <3>2, SetStringExact
    <3> QED
      BY <2>1, <3>1, <3>2
  <2> QED
    BY <1>0, <2>1, <2>3, <2>4 DEF NetInv
<1>10. ASSUME NEW y, NEW val, NEW n, NEW f, DoStep(y, val, n, f)  PROVE NetInv'
  <2>1. /\ pc = "ready" /\ pc' = pc /\ signals_reset' = FALSE /\ sent' = Empty
        /\ net' = [fmu_signals_reset EXCEPT ![n] = f]
    BY <1>10 DEF DoStep
  <2>2. net = [k \in BusSignals(TRUE) |-> net[k]] /\ DOMAIN net = BusSignals(TRUE)
    BY <1>0, <2>1 DEF NetInv
  <2>3. sent' = [k \in BusSignals(TRUE) |-> << >>]
    BY <2>1, <2>2 DEF Empty
  <2>4. fmu_signals_reset = [k \in BusSignals(TRUE) |-> fmu_signals_reset[k]]
    BY <2>2 DEF fmu_signals_reset, Empty
  <2>5. net' = [k \in BusSignals(TRUE) |-> net'[k]]
    BY <2>1, <2>4
  <2> QED
    BY <1>0, <2>1, <2>3, <2>5 DEF NetInv
<1> QED
  BY <1>2, <1>3, <1>4, <1>5, <1>6, <1>7, <1>8, <1>9, <1>10, NextCases
     DEF CallStep, SetStringStep, DoStepStep
-----------------------------------------------------------------------------
(***************************************************************************)
(* The environment.                                                        *)
(***************************************************************************)

(* The hash map after k instances, from that after one less.               *)
Collects(f, n) ==
  f = [k \in 0 .. n |-> IF k = 0 THEN Plain(Scalars(StackEnv))
                        ELSE SetEnvars(PrefixedEnv(Instance[k]), f[k - 1])]

LEMMA CollectsExists == \E f : Collects(f, Len(Instance))
<1> DEFINE S == {n \in Nat : \E f : Collects(f, n)}
<1>1. 0 \in S
  <2> DEFINE f == [k \in 0 .. 0 |-> Plain(Scalars(StackEnv))]
  <2>1. f = [k \in 0 .. 0 |-> IF k = 0 THEN Plain(Scalars(StackEnv))
                              ELSE SetEnvars(PrefixedEnv(Instance[k]), f[k - 1])]
    OBVIOUS
  <2>2. Collects(f, 0)
    BY <2>1 DEF Collects
  <2> QED
    BY <2>2
<1>2. ASSUME NEW n \in Nat, n \in S  PROVE n + 1 \in S
  <2>1. PICK f : Collects(f, n)
    BY <1>2
  <2>2. \A k \in 0 .. n : f[k] = IF k = 0 THEN Plain(Scalars(StackEnv))
                                 ELSE SetEnvars(PrefixedEnv(Instance[k]), f[k - 1])
    BY <2>1 DEF Collects
  <2> DEFINE h == [k \in 0 .. n + 1 |->
                     IF k <= n THEN f[k] ELSE SetEnvars(PrefixedEnv(Instance[k]), f[n])]
  <2>3. \A k \in 0 .. n + 1 : h[k] = IF k = 0 THEN Plain(Scalars(StackEnv))
                                     ELSE SetEnvars(PrefixedEnv(Instance[k]), h[k - 1])
    <3> TAKE k \in 0 .. n + 1
    <3>1. CASE k = n + 1
      <4>1. h[k] = SetEnvars(PrefixedEnv(Instance[k]), f[n]) /\ h[k - 1] = f[n] /\ k # 0
        BY <3>1
      <4> QED
        BY <4>1
    <3>2. CASE k \in 0 .. n
      <4>1. h[k] = f[k] /\ (k # 0 => h[k - 1] = f[k - 1])
        BY <3>2
      <4> HIDE DEF h
      <4> QED
        BY <2>2, <3>2, <4>1
    <3> QED
      BY <3>1, <3>2
  <2>4. DOMAIN h = 0 .. n + 1 /\ h = [k \in 0 .. n + 1 |-> h[k]]
    OBVIOUS
  <2> HIDE DEF h
  <2>5. Collects(h, n + 1)
    BY <2>3, <2>4 DEF Collects
  <2> QED
    BY <2>5
<1>3. Len(Instance) \in S
  <2> HIDE DEF S
  <2> QED
    BY <1>1, <1>2, NatSetInduction, InstanceAssumption
<1> QED
  BY <1>3

LEMMA EnvarsRec ==
  /\ Envars[0] = Plain(Scalars(StackEnv))
  /\ \A k \in 1 .. Len(Instance) :
       Envars[k] = SetEnvars(PrefixedEnv(Instance[k]), Envars[k - 1])
<1> DEFINE N == Len(Instance)
           F == CHOOSE f : f = [k \in 0 .. N |->
                  IF k = 0 THEN Plain(Scalars(StackEnv))
                  ELSE SetEnvars(PrefixedEnv(Instance[k]), f[k - 1])]
<1>1. N \in Nat
  BY InstanceAssumption
<1>2. Envars = F
  BY DEF Envars
<1>3. Collects(F, N)
  BY CollectsExists DEF Collects
<1> HIDE DEF F, N
<1>4. \A k \in 0 .. N : F[k] = IF k = 0 THEN Plain(Scalars(StackEnv))
                               ELSE SetEnvars(PrefixedEnv(Instance[k]), F[k - 1])
  BY <1>3 DEF Collects
<1>5. 0 \in 0 .. N /\ \A k \in 1 .. N : k \in 0 .. N /\ k # 0
  BY <1>1
<1> QED
  BY <1>2, <1>4, <1>5 DEF N

(* The variables instance k sets, and their names in the environment.      *)
VarsOf(k) == DOMAIN Scalars(Instance[k].env)
IsSimbus(k) == Instance[k].name = "simbus"
EnvName(k, n) == IF IsSimbus(k) THEN <<"", n>> ELSE <<Upper[Instance[k].name], Upper[n]>>

LEMMA ScalarsFacts ==
  ASSUME NEW e, NEW n \in DOMAIN Scalars(e)
  PROVE  n \in DOMAIN e /\ Scalars(e)[n] = e[n]
BY DEF Scalars

LEMMA PlainFacts ==
  ASSUME NEW e
  PROVE  /\ \A x \in DOMAIN Plain(e) : \E n \in DOMAIN e : x = <<"", n>>
         /\ \A n \in DOMAIN e : <<"", n>> \in DOMAIN Plain(e) /\ Plain(e)[<<"", n>>] = e[n]
         /\ \A n : <<"", n>> \in DOMAIN Plain(e) => n \in DOMAIN e
<1> DEFINE D == {<<"", n>> : n \in DOMAIN e}
<1>1. Plain(e) = [x \in D |-> e[x[2]]]
  BY DEF Plain
<1>2. \A n \in DOMAIN e : <<"", n>> \in D /\ <<"", n>>[2] = n
  OBVIOUS
<1>3. \A n : <<"", n>> \in D => n \in DOMAIN e
  OBVIOUS
<1>4. \A x \in D : \E n \in DOMAIN e : x = <<"", n>>
  OBVIOUS
<1> HIDE DEF D
<1> QED
  BY <1>1, <1>2, <1>3, <1>4

LEMMA PrefixedFacts ==
  ASSUME NEW k \in 1 .. Len(Instance)
  PROVE  /\ \A x \in DOMAIN PrefixedEnv(Instance[k]) : \E n \in VarsOf(k) : x = EnvName(k, n)
         /\ \A n \in VarsOf(k) :
              /\ EnvName(k, n) \in DOMAIN PrefixedEnv(Instance[k])
              /\ PrefixedEnv(Instance[k])[EnvName(k, n)] = Instance[k].env[n]
<1> DEFINE e == Scalars(Instance[k].env)
<1>0. \A n \in DOMAIN e : n \in DOMAIN Instance[k].env /\ e[n] = Instance[k].env[n]
  BY ScalarsFacts
<1>1. CASE IsSimbus(k)
  <2>1. PrefixedEnv(Instance[k]) = Plain(e)
    BY <1>1 DEF PrefixedEnv, IsSimbus
  <2>2. \A n : EnvName(k, n) = <<"", n>>
    BY <1>1 DEF EnvName
  <2>3. VarsOf(k) = DOMAIN e
    BY DEF VarsOf
  <2> HIDE DEF e
  <2>4. /\ \A x \in DOMAIN Plain(e) : \E n \in DOMAIN e : x = <<"", n>>
        /\ \A n \in DOMAIN e : <<"", n>> \in DOMAIN Plain(e) /\ Plain(e)[<<"", n>>] = e[n]
    BY PlainFacts
  <2>5. \A x \in DOMAIN PrefixedEnv(Instance[k]) : \E n \in VarsOf(k) : x = EnvName(k, n)
    BY <2>1, <2>2, <2>3, <2>4
  <2>6. ASSUME NEW n \in VarsOf(k)
        PROVE  /\ EnvName(k, n) \in DOMAIN PrefixedEnv(Instance[k])
               /\ PrefixedEnv(Instance[k])[EnvName(k, n)] = Instance[k].env[n]
    <3>1. n \in DOMAIN e /\ e[n] = Instance[k].env[n]
      BY <1>0, <2>3
    <3>2. <<"", n>> \in DOMAIN Plain(e) /\ Plain(e)[<<"", n>>] = e[n]
      BY <2>4, <3>1
    <3> QED
      BY <2>1, <2>2, <3>1, <3>2
  <2> QED
    BY <2>5, <2>6
<1>2. CASE ~IsSimbus(k)
  <2> DEFINE u == Upper[Instance[k].name]
             D == {<<u, Upper[n]>> : n \in DOMAIN e}
             V(x) == e[CHOOSE n \in DOMAIN e : x[2] = Upper[n]]
  <2>1. PrefixedEnv(Instance[k]) = [x \in D |-> V(x)]
    BY <1>2 DEF PrefixedEnv, IsSimbus
  <2>2. \A n : EnvName(k, n) = <<u, Upper[n]>>
    BY <1>2 DEF EnvName
  <2>3. VarsOf(k) = DOMAIN e
    BY DEF VarsOf
  <2>4. \A m, n \in DOMAIN e : Upper[m] = Upper[n] => m = n
    BY <1>0, <1>2, InstanceAssumption DEF IsSimbus
  <2> HIDE DEF e, u
  <2>5. ASSUME NEW n \in DOMAIN e
        PROVE  <<u, Upper[n]>> \in D /\ V(<<u, Upper[n]>>) = e[n]
    <3>1. <<u, Upper[n]>>[2] = Upper[n]
      OBVIOUS
    <3>2. (CHOOSE m \in DOMAIN e : <<u, Upper[n]>>[2] = Upper[m]) = n
      BY <2>4, <3>1
    <3> QED
      BY <3>2
  <2>6. \A x \in D : \E n \in DOMAIN e : x = <<u, Upper[n]>>
    OBVIOUS
  <2> HIDE DEF D, V
  <2>7. \A x \in DOMAIN PrefixedEnv(Instance[k]) : \E n \in VarsOf(k) : x = EnvName(k, n)
    BY <2>1, <2>2, <2>3, <2>6
  <2>8. ASSUME NEW n \in VarsOf(k)
        PROVE  /\ EnvName(k, n) \in DOMAIN PrefixedEnv(Instance[k])
               /\ PrefixedEnv(Instance[k])[EnvName(k, n)] = Instance[k].env[n]
    <3>1. n \in DOMAIN e /\ e[n] = Instance[k].env[n]
      BY <1>0, <2>3
    <3>2. EnvName(k, n) \in D /\ V(EnvName(k, n)) = e[n]
      BY <2>2, <2>5, <3>1
    <3> QED
      BY <2>1, <3>1, <3>2
  <2> QED
    BY <2>7, <2>8
<1> QED
  BY <1>1, <1>2

(* No two instances set the same name; a plain name is the simbus'.        *)
LEMMA NamesApart ==
  ASSUME NEW j \in 1 .. Len(Instance), NEW k \in 1 .. Len(Instance)
  PROVE  /\ \A m, n : EnvName(j, m) = EnvName(k, n) => j = k
         /\ \A m, n : EnvName(k, n) = <<"", m>> => IsSimbus(k) /\ m = n
<1>1. \A i \in 1 .. Len(Instance) : ~IsSimbus(i) => Upper[Instance[i].name] # ""
  BY InstanceAssumption DEF IsSimbus
<1>2. ~IsSimbus(j) /\ ~IsSimbus(k) /\ Upper[Instance[j].name] = Upper[Instance[k].name] => j = k
  BY InstanceAssumption DEF IsSimbus
<1>3. IsSimbus(j) /\ IsSimbus(k) => j = k
  BY InstanceAssumption DEF IsSimbus
<1> QED
  BY <1>1, <1>2, <1>3 DEF EnvName

(* What the hash map holds after k instances: the variables of each under  *)
(* their names, and of the plain names that no simbus sets those of the    *)
(* stack.                                                                  *)
SetUpTo(k) ==
  \A j \in 1 .. k : \A n \in VarsOf(j) :
    EnvName(j, n) \in DOMAIN Envars[k] /\ Envars[k][EnvName(j, n)] = Instance[j].env[n]

Unset(k, n) == \A j \in 1 .. k : IsSimbus(j) => n \notin VarsOf(j)

PlainUpTo(k) ==
  \A n : Unset(k, n) =>
    /\ <<"", n>> \in DOMAIN Envars[k] <=> n \in DOMAIN Scalars(StackEnv)
    /\ n \in DOMAIN Scalars(StackEnv) => Envars[k][<<"", n>>] = StackEnv[n]

LEMMA OverrideFacts ==
  ASSUME NEW f, NEW g
  PROVE  /\ \A x : x \in DOMAIN Override(f, g) <=> x \in DOMAIN f \/ x \in DOMAIN g
         /\ \A x \in DOMAIN f : Override(f, g)[x] = f[x]
         /\ \A x \in DOMAIN g : x \notin DOMAIN f => Override(f, g)[x] = g[x]
BY DEF Override

LEMMA EnvarsFacts == SetUpTo(Len(Instance)) /\ PlainUpTo(Len(Instance))
<1> DEFINE N == Len(Instance)
           S == {k \in Nat : k <= N => SetUpTo(k) /\ PlainUpTo(k)}
<1>0. N \in Nat
  BY InstanceAssumption
<1>1. 0 \in S
  <2>1. SetUpTo(0)
    BY DEF SetUpTo
  <2>2. PlainUpTo(0)
    <3> SUFFICES ASSUME NEW n
                 PROVE  /\ <<"", n>> \in DOMAIN Envars[0] <=> n \in DOMAIN Scalars(StackEnv)
                        /\ n \in DOMAIN Scalars(StackEnv) => Envars[0][<<"", n>>] = StackEnv[n]
      BY DEF PlainUpTo
    <3> DEFINE e == Scalars(StackEnv)
    <3>1. Envars[0] = Plain(e)
      BY EnvarsRec
    <3>2. n \in DOMAIN e => e[n] = StackEnv[n]
      BY ScalarsFacts
    <3> HIDE DEF e
    <3>3. /\ <<"", n>> \in DOMAIN Plain(e) <=> n \in DOMAIN e
          /\ n \in DOMAIN e => Plain(e)[<<"", n>>] = e[n]
      BY PlainFacts
    <3>4. /\ <<"", n>> \in DOMAIN Envars[0] <=> n \in DOMAIN e
          /\ n \in DOMAIN e => Envars[0][<<"", n>>] = StackEnv[n]
      BY <3>1, <3>2, <3>3
    <3> QED
      BY <3>4 DEF e
  <2> QED
    BY <2>1, <2>2
<1>2. ASSUME NEW p \in Nat, p \in S  PROVE p + 1 \in S
  <2> SUFFICES ASSUME p + 1 <= N  PROVE SetUpTo(p + 1) /\ PlainUpTo(p + 1)
    OBVIOUS
  <2> DEFINE k == p + 1
             P == PrefixedEnv(Instance[k])
             O == Envars[p]
             E == Envars[k]
  <2>1. k \in 1 .. N /\ k - 1 = p /\ SetUpTo(p) /\ PlainUpTo(p)
    BY <1>0, <1>2
  <2>2. E = Override(P, O)
    BY <2>1, EnvarsRec DEF SetEnvars
  <2>3. /\ \A x \in DOMAIN P : \E n \in VarsOf(k) : x = EnvName(k, n)
        /\ \A n \in VarsOf(k) : EnvName(k, n) \in DOMAIN P /\ P[EnvName(k, n)] = Instance[k].env[n]
    BY <2>1, PrefixedFacts
  <2> HIDE DEF P, O, E
  <2>4. /\ \A x : x \in DOMAIN E <=> x \in DOMAIN P \/ x \in DOMAIN O
        /\ \A x \in DOMAIN P : E[x] = P[x]
        /\ \A x \in DOMAIN O : x \notin DOMAIN P => E[x] = O[x]
    BY <2>2, OverrideFacts
  <2>5. SetUpTo(k)
    <3> SUFFICES ASSUME NEW j \in 1 .. k, NEW n \in VarsOf(j)
                 PROVE  EnvName(j, n) \in DOMAIN E /\ E[EnvName(j, n)] = Instance[j].env[n]
      BY DEF SetUpTo, E
    <3>1. CASE j = k
      BY <2>3, <2>4, <3>1
    <3>2. CASE j # k
      <4>1. j \in 1 .. p /\ j \in 1 .. N
        BY <2>1, <3>2
      <4>2. EnvName(j, n) \in DOMAIN O /\ O[EnvName(j, n)] = Instance[j].env[n]
        BY <2>1, <4>1 DEF SetUpTo, O
      <4>3. EnvName(j, n) \notin DOMAIN P
        <5> SUFFICES ASSUME EnvName(j, n) \in DOMAIN P  PROVE FALSE
          OBVIOUS
        <5>1. PICK m \in VarsOf(k) : EnvName(j, n) = EnvName(k, m)
          BY <2>3
        <5> HIDE DEF k
        <5>2. \A a, b : EnvName(j, a) = EnvName(k, b) => j = k
          BY <2>1, <4>1, NamesApart
        <5> QED
          BY <3>2, <5>1, <5>2
      <4> QED
        BY <2>4, <4>2, <4>3
    <3> QED
      BY <3>1, <3>2
  <2>6. PlainUpTo(k)
    <3> SUFFICES ASSUME NEW n, Unset(k, n)
                 PROVE  /\ <<"", n>> \in DOMAIN E <=> n \in DOMAIN Scalars(StackEnv)
                        /\ n \in DOMAIN Scalars(StackEnv) => E[<<"", n>>] = StackEnv[n]
      BY DEF PlainUpTo, E
    <3>1. Unset(p, n) /\ (IsSimbus(k) => n \notin VarsOf(k))
      BY <2>1 DEF Unset
    <3>2. /\ <<"", n>> \in DOMAIN O <=> n \in DOMAIN Scalars(StackEnv)
          /\ n \in DOMAIN Scalars(StackEnv) => O[<<"", n>>] = StackEnv[n]
      BY <2>1, <3>1 DEF PlainUpTo, O
    <3>3. <<"", n>> \notin DOMAIN P
      <4> SUFFICES ASSUME <<"", n>> \in DOMAIN P  PROVE FALSE
        OBVIOUS
      <4>1. PICK m \in VarsOf(k) : EnvName(k, m) = <<"", n>>
        BY <2>3
      <4>2. IsSimbus(k) /\ n = m
        BY <2>1, <4>1, NamesApart
      <4> QED
        BY <3>1, <4>1, <4>2
    <3> QED
      BY <2>4, <3>2, <3>3
  <2> QED
    BY <2>5, <2>6
<1>3. N \in S
  <2> HIDE DEF S, N
  <2> QED
    BY <1>0, <1>1, <1>2, NatSetInduction
<1> QED
  BY <1>0, <1>3

LEMMA EnvStep == FmuInvariant /\ [Next]_vars => EnvInv'
<1> SUFFICES ASSUME FmuInvariant, [Next]_vars PROVE EnvInv'
  OBVIOUS
<1> DEFINE Made == {"created", "ready", "freed"}
<1>0. EnvInv
  BY DEF FmuInvariant
<1>1. ASSUME env' = env, pc' \in Made <=> pc \in Made  PROVE EnvInv'
  BY <1>0, <1>1 DEF EnvInv
<1>2. CASE CollectingStep
  BY <1>1, <1>2 DEF CollectingStep, IndexDocument, IndexSignal, CalculateOffsets
<1>3. CASE WriteIndex \/ AnnotateSignal
  BY <1>1, <1>3 DEF WriteIndex, AnnotateSignal
<1>4. CASE IdleStep
  BY <1>1, <1>4 DEF IdleStep, AnnotateDocument, AnnotateFails, SaveIndex, fmu_destroy, Done, vars
<1>5. CASE fmu_create
  BY <1>0, <1>5 DEF fmu_create, EnvInv
<1>6. CASE fmu_init
  BY <1>1, <1>6 DEF fmu_init
<1>7. CASE CallStep
  BY <1>1, <1>7 DEF CallStep, SetRealStep, SetStringStep, DoStepStep, SetReal, SetString, DoStep
<1>8. CASE UNCHANGED vars
  BY <1>1, <1>8 DEF vars
<1> QED
  BY <1>2, <1>3, <1>4, <1>5, <1>6, <1>7, <1>8, NextCases
-----------------------------------------------------------------------------
(***************************************************************************)
(* The theorems.                                                           *)
(***************************************************************************)
LEMMA FmuInit == Init => FmuInvariant
<1> SUFFICES ASSUME Init PROVE FmuInvariant
  OBVIOUS
<1>1. FolderInv /\ IndexInv
  BY IndexInit DEF Init, FolderInv
<1>2. PhaseInv
  BY DEF Init, PhaseInv, Phase
<1>3. GroupInv
  BY DEF Init, NewDirectIndex, GroupInv
<1>4. ShapeInv
  BY DEF Init, ShapeInv
<1>5. NumberInv
  <2>1. \A x \in ScalarAt : VRef(x) = NULL
    <3> TAKE x \in ScalarAt
    <3>1. x[1] \in DOMAIN docs /\ x[2] \in DOMAIN docs[x[1]].signals /\ ~docs[x[1]].binary
      BY PlaceFacts
    <3>2. Sig(x[1], x[2]).vref = NULL
      BY <1>1, <3>1, SignalFacts
    <3> QED
      BY <3>1, <3>2 DEF Init, VRef
  <2> QED
    BY <2>1 DEF Init, NumberInv
<1>6. FmuInv
  BY DEF Init, FmuInv
<1>7. BusInv /\ NetInv /\ EnvInv
  BY DEF Init, BusInv, NetInv, EnvInv
<1> QED
  BY <1>1, <1>2, <1>3, <1>4, <1>5, <1>6, <1>7 DEF FmuInvariant

LEMMA FmuNext == FmuInvariant /\ [Next]_vars => FmuInvariant'
<1> SUFFICES ASSUME FmuInvariant, [Next]_vars PROVE FmuInvariant'
  OBVIOUS
<1>1. FolderInv'
  BY FolderStep DEF FmuInvariant
<1>2. IndexInv' /\ GroupInv'
  BY IndexRefined, IndexStep, GroupStep DEF FmuInvariant
<1>3. PhaseInv' /\ ShapeInv' /\ NumberInv' /\ FmuInv' /\ BusInv' /\ NetInv' /\ EnvInv'
  BY PhaseStep, NumberStep, FmuStep, BusStep, NetStep, EnvStep
<1> QED
  BY <1>1, <1>2, <1>3 DEF FmuInvariant

LEMMA FmuInvariantHolds == Spec => []FmuInvariant
  BY FmuInit, FmuNext, PTL DEF Spec

(* Reading a variable gives the value of its signal.                       *)
LEMMA ReadExact ==
  ASSUME FmuInvariant, pc = "ready", NEW x \in Variables, SignalOf(x) \in DOMAIN expect
  PROVE  GetReal(VRef(x)) = {expect[SignalOf(x)]}
<1>1. /\ bus = expect /\ DOMAIN bus = BusSignals(FALSE) /\ x \in ScalarAt /\ VRef(x) # NULL
      /\ SignalOf(x) \in DOMAIN bus
  <2>1. bus = expect /\ expect = [y \in BusSignals(FALSE) |-> expect[y]]
    BY DEF FmuInvariant, BusInv
  <2> QED
    BY <2>1, PlaceFacts
<1>2. CASE direct_map
  <2>1. direct
    BY <1>2 DEF FmuInvariant, FmuInv
  <2>2. VRef(x) \in Slot(SignalOf(x)) /\ group = Len(groups)
    BY <1>1, <2>1 DEF FmuInvariant, NumberInv, PhaseInv
  <2>3. SignalOf(x) = <<SignalOf(x)[1], SignalOf(x)[2]>>
    BY DEF SignalOf
  <2>4. \A y : y = <<y[1], y[2]>> /\ VRef(x) \in Slot(y) => y = SignalOf(x)
    BY <2>2, <2>3, SlotAlone DEF FmuInvariant
  <2>5. \A y \in DOMAIN bus : y = <<y[1], y[2]>>
    <3>1. \A e : SimBusSignal(e) = <<SimBusSignal(e)[1], SimBusSignal(e)[2]>>
      BY DEF SimBusSignal
    <3> QED
      BY <1>1, <3>1 DEF BusSignals
  <2>6. {z \in DOMAIN bus : VRef(x) \in Slot(z)} = {SignalOf(x)}
    BY <1>1, <2>2, <2>4, <2>5
  <2>7. GetReal(VRef(x)) = {bus[y] : y \in {z \in DOMAIN bus : VRef(x) \in Slot(z)}}
    BY <1>2 DEF GetReal
  <2> QED
    BY <1>1, <2>6, <2>7
<1>3. CASE ~direct_map
  <2>1. /\ ~(direct /\ MapSize > 0 /\ Entries(FALSE) # {})
        /\ scalar_input = fmimodelc_index_scalar_signals("input")
        /\ scalar_output = fmimodelc_index_scalar_signals("output")
    BY <1>3 DEF FmuInvariant, FmuInv
  <2>2. /\ VRef(x) \in DOMAIN scalar_input <=> Sig(x[1], x[2]).causality = "input"
        /\ VRef(x) \in DOMAIN scalar_input => scalar_input[VRef(x)] = SignalOf(x)
    BY <1>1, <2>1, HashExact DEF FmuInvariant
  <2>3. /\ VRef(x) \in DOMAIN scalar_output <=> Sig(x[1], x[2]).causality = "output"
        /\ VRef(x) \in DOMAIN scalar_output => scalar_output[VRef(x)] = SignalOf(x)
    BY <1>1, <2>1, HashExact DEF FmuInvariant
  <2>4. Sig(x[1], x[2]).causality \in {"input", "output"}
    BY <1>1 DEF FmuInvariant, NumberInv
  <2>5. CASE Sig(x[1], x[2]).causality = "output"
    BY <1>1, <1>3, <2>3, <2>5 DEF GetReal
  <2>6. CASE Sig(x[1], x[2]).causality = "input"
    <3>1. VRef(x) \notin DOMAIN scalar_output
      BY <2>3, <2>6
    <3>2. {VRef(x)} \cap DOMAIN scalar_input = {VRef(x)}
      BY <2>2, <2>6
    <3>3. GetReal(VRef(x)) = {bus[scalar_input[v]] : v \in {VRef(x)}}
      BY <1>3, <3>1, <3>2 DEF GetReal
    <3> QED
      BY <1>1, <2>2, <2>6, <3>3
  <2> QED
    BY <2>4, <2>5, <2>6
<1> QED
  BY <1>2, <1>3

(* Of the whole FMU, not of the index alone: the documents of the folder   *)
(* collect channels and signals into an index whose scalars are disjoint   *)
(* and inside the map (runGenerateDirectIndex of modelcfmu.go).            *)
THEOREM SlotsApart == Spec => []DirectSlots
<1>1. FmuInvariant => DirectSlots
  BY OrderedSlots DEF FmuInvariant
<1> QED
  BY <1>1, FmuInvariantHolds, PTL

(* A value set for a variable reaches the signal the variable was          *)
(* generated from and nothing else, and every variable reads its own       *)
(* signal, through the map and through the hash maps, for every folder,    *)
(* every filter and every stack (fmi2fmu.c, runtime.c, modelcfmu.go).      *)
THEOREM VariablesSafe == Spec => []VariableExact
<1>1. FmuInvariant => VariableExact
  <2> SUFFICES ASSUME FmuInvariant, pc = "ready"
               PROVE  /\ ~damaged /\ bus = expect
                      /\ \A x \in Variables : SignalOf(x) \in DOMAIN expect =>
                           GetReal(VRef(x)) = {expect[SignalOf(x)]}
    BY DEF VariableExact
  <2>1. ~damaged /\ bus = expect
    BY DEF FmuInvariant, BusInv
  <2> QED
    BY <2>1, ReadExact
<1> QED
  BY <1>1, FmuInvariantHolds, PTL

(* At the start of a step a network holds what the importer set on its     *)
(* input variables, in order, and each output variable reads its own       *)
(* network, for every folder and stack (runtime.c:199).                    *)
THEOREM NetworksSafe == Spec => []NetworkExact
<1>1. FmuInvariant => NetworkExact
  <2> SUFFICES ASSUME FmuInvariant, pc = "ready"
               PROVE  /\ signals_reset => net = sent
                      /\ \A e \in Annotated(TRUE) : \A v \in SignalMatch(e).tx :
                           v \in DOMAIN binary_tx /\ binary_tx[v] = SimBusSignal(e)
    BY DEF NetworkExact
  <2>1. signals_reset => net = sent
    BY DEF FmuInvariant, NetInv
  <2>2. ASSUME NEW e \in Annotated(TRUE), NEW v \in SignalMatch(e).tx
        PROVE  v \in DOMAIN binary_tx /\ binary_tx[v] = SimBusSignal(e)
    <3>1. FolderInv /\ binary_tx = fmimodelc_index_binary_signals("tx")
      BY DEF FmuInvariant, FmuInv
    <3>2. /\ v \in DOMAIN binary_tx <=> \E h \in Annotated(TRUE) : v \in SignalMatch(h).tx
          /\ v \in DOMAIN binary_tx =>
               \E h \in Annotated(TRUE) : v \in SignalMatch(h).tx /\ binary_tx[v] = SimBusSignal(h)
      BY <3>1, BinaryMapHit DEF Listed
    <3>3. v \in DOMAIN binary_tx
      BY <3>2
    <3>4. PICK h \in Annotated(TRUE) : v \in SignalMatch(h).tx /\ binary_tx[v] = SimBusSignal(h)
      BY <3>2, <3>3
    <3> QED
      BY <3>1, <3>3, <3>4, OneNetwork
  <2> QED
    BY <2>1, <2>2
<1> QED
  BY <1>1, FmuInvariantHolds, PTL

(* The variables of the simbus, then of the stack, then of the user have   *)
(* the plain names; those of another instance its prefix, whatever the     *)
(* instances and their order (fmu_create, runtime.c:330).                  *)
THEOREM EnvironmentSafe == Spec => []EnvironmentScoped
<1>1. FmuInvariant => EnvironmentScoped
  <2> SUFFICES ASSUME FmuInvariant, pc \in {"created", "ready", "freed"}
               PROVE  EnvironmentScoped
    BY DEF EnvironmentScoped
  <2> DEFINE N == Len(Instance)
             E == Envars[N]
             U == Plain(UserEnv)
             simbus == {k \in DOMAIN Instance : Instance[k].name = "simbus"}
  <2>1. env = Override(E, U)
    BY DEF FmuInvariant, EnvInv
  <2>2. DOMAIN Instance = 1 .. N
    <3>1. Instance = [k \in 1 .. N |-> Instance[k]]
      BY InstanceAssumption
    <3> HIDE DEF N
    <3> QED
      BY <3>1
  <2>3. SetUpTo(N) /\ PlainUpTo(N)
    BY EnvarsFacts
  <2>4. /\ \A x : x \in DOMAIN env <=> x \in DOMAIN E \/ x \in DOMAIN U
        /\ \A x \in DOMAIN E : env[x] = E[x]
        /\ \A x \in DOMAIN U : x \notin DOMAIN E => env[x] = U[x]
    <3> HIDE DEF E, U
    <3> QED
      BY <2>1, OverrideFacts
  <2>5. ASSUME NEW n \in DOMAIN UserEnv \cup DOMAIN Scalars(StackEnv),
               \A k \in simbus : n \notin DOMAIN Scalars(Instance[k].env)
        PROVE  env[<<"", n>>] = IF n \in DOMAIN Scalars(StackEnv) THEN StackEnv[n] ELSE UserEnv[n]
    <3>1. Unset(N, n)
      BY <2>2, <2>5 DEF Unset, IsSimbus, VarsOf
    <3>2. /\ <<"", n>> \in DOMAIN E <=> n \in DOMAIN Scalars(StackEnv)
          /\ n \in DOMAIN Scalars(StackEnv) => E[<<"", n>>] = StackEnv[n]
      BY <2>3, <3>1 DEF PlainUpTo
    <3>3. n \in DOMAIN UserEnv => <<"", n>> \in DOMAIN U /\ U[<<"", n>>] = UserEnv[n]
      BY PlainFacts
    <3> HIDE DEF E, U
    <3> QED
      BY <2>4, <3>2, <3>3
  <2>6. ASSUME NEW k \in DOMAIN Instance, NEW n \in DOMAIN Scalars(Instance[k].env)
        PROVE  env[IF k \in simbus THEN <<"", n>> ELSE <<Upper[Instance[k].name], Upper[n]>>] =
                 Instance[k].env[n]
    <3>1. EnvName(k, n) = IF k \in simbus THEN <<"", n>> ELSE <<Upper[Instance[k].name], Upper[n]>>
      BY DEF EnvName, IsSimbus
    <3>2. EnvName(k, n) \in DOMAIN E /\ E[EnvName(k, n)] = Instance[k].env[n]
      BY <2>2, <2>3 DEF SetUpTo, VarsOf
    <3> HIDE DEF E, simbus
    <3> QED
      BY <2>4, <3>1, <3>2
  <2> QED
    BY <2>5, <2>6 DEF EnvironmentScoped
<1> QED
  BY <1>1, FmuInvariantHolds, PTL
=============================================================================
