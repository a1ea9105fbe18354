---------------------------- MODULE DirectIndex ----------------------------
(***************************************************************************)
(* The direct index of the FMI toolset (directindex.go): the SimBus        *)
(* channels of a simulation, the signals of each, and the offset of every  *)
(* scalar from the base of the map the SimBus allocates.  The index        *)
(* collects channels and signals in any order and number, then             *)
(* calculateMapOffsets runs once over the groups.                          *)
(*                                                                         *)
(* The SimBus (ModelC, outside this repository) takes the offset and the   *)
(* length written for a group and gives the group one block of the map,    *)
(* four arrays with one item per signal: scalar (8 bytes), binary (8),     *)
(* size (4) and length (4).                                                *)
(***************************************************************************)
EXTENDS Naturals, Sequences

CONSTANTS
  Channel,     \* names of SimBus channels
  Signal       \* names of signals

VARIABLES
  groups,      \* di.groups: name, signals, offset and length of each
  group,       \* loop position in calculateMapOffsets, 0 while collecting
  groupOffset  \* groupOffset of calculateMapOffsets

diVars == <<groups, group, groupOffset>>

Group == [name : Channel, signals : Seq(Signal), offset : Nat, length : Nat]

Elem(x, s) == \E i \in DOMAIN s : s[i] = x

NewDirectIndex ==
  /\ groups = << >>
  /\ group = 0
  /\ groupOffset = 0

(***************************************************************************)
(* Collecting: getSignalGroup finds or appends a group, addSignal ignores  *)
(* a signal the group has already.                                         *)
(***************************************************************************)
getSignalGroup(c) ==
  IF \E g \in DOMAIN groups : groups[g].name = c
    THEN groups
    ELSE Append(groups, [name |-> c, signals |-> << >>, offset |-> 0, length |-> 0])

GetSignalGroup(c) ==
  /\ group = 0
  /\ groups' = getSignalGroup(c)
  /\ UNCHANGED <<group, groupOffset>>

AddSignal(c, s) ==
  /\ group = 0
  /\ groups' = [g \in DOMAIN groups |->
                  IF groups[g].name = c /\ ~Elem(s, groups[g].signals)
                    THEN [groups[g] EXCEPT !.signals = Append(groups[g].signals, s)]
                    ELSE groups[g]]
  /\ UNCHANGED <<group, groupOffset>>

(* Fault: the next group starts behind the scalars of this one, not behind *)
(* its whole block.                                                        *)
ShortBlock(g) == groupOffset + Len(groups[g].signals) \div 3

(* The start of the group behind group g.                                  *)
NextGroupOffset(g) == groupOffset + Len(groups[g].signals)

(* One turn of the loop over the groups.                                   *)
CalculateMapOffsets ==
  /\ group < Len(groups)
  /\ groups' = [groups EXCEPT ![group + 1] =
                  [name    |-> groups[group + 1].name,
                   signals |-> groups[group + 1].signals,
                   offset  |-> groupOffset,
                   length  |-> Len(groups[group + 1].signals)]]
  /\ groupOffset' = NextGroupOffset(group + 1)
  /\ group' = group + 1

(* Offset of signal i of group g: mapOffset + i * 8, with i from 0.        *)
Offset(g, i) == groups[g].offset * 24 + (i - 1) * 8

(* The offsets getSignalOffset finds for a signal: none or one.            *)
getSignalOffset(c, s) ==
  {Offset(gi[1], gi[2]) : gi \in
     {x \in UNION {{g} \X DOMAIN groups[g].signals : g \in DOMAIN groups} :
        groups[x[1]].name = c /\ groups[x[1]].signals[x[2]] = s}}

DirectIndexNext ==
  \/ \E c \in Channel : GetSignalGroup(c)
  \/ \E c \in Channel, s \in Signal : AddSignal(c, s)
  \/ CalculateMapOffsets

DirectIndexSpec == NewDirectIndex /\ [][DirectIndexNext]_diVars

-----------------------------------------------------------------------------
(* The map as the SimBus allocates it.                                     *)

(* direct_index.size: 24 bytes per signal.                                 *)
MapSize == groupOffset * 24

(* The first byte of group g's binary, size and length arrays, and the     *)
(* first byte behind its block.                                            *)
FieldsOf(g) == groups[g].offset * 24 + groups[g].length * 8
BlockEnd(g) == (groups[g].offset + groups[g].length) * 24

(* The eight bytes of a scalar at offset o and the range [from, to) do not *)
(* overlap.                                                                *)
Clear(o, from, to) == o + 8 <= from \/ to <= o

(* Once the offsets are calculated, the eight bytes of a scalar lie inside *)
(* the map, overlap no other scalar's, and touch no binary, size or length *)
(* array of any group (directindex.go:61, the offsets that become value    *)
(* references).                                                            *)
DirectSlots ==
  \A g \in 1..group : \A i \in DOMAIN groups[g].signals :
    /\ Offset(g, i) + 8 <= MapSize
    /\ \A h \in 1..group :
         /\ Clear(Offset(g, i), FieldsOf(h), BlockEnd(h))
         /\ \A j \in DOMAIN groups[h].signals :
              <<g, i>> # <<h, j>> => Clear(Offset(g, i), Offset(h, j), Offset(h, j) + 8)
=============================================================================
