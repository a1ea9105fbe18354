------------------------------ MODULE MclTable ------------------------------
(***************************************************************************)
(* The marshal table of an FMI MCL model: dse/fmimcl/parser.c (signals     *)
(* read from the SignalGroups and sorted) and dse/fmimcl/engine.c (the     *)
(* table, one MarshalGroup per run of signals of one kind, direction and   *)
(* type).                                                                  *)
(*                                                                         *)
(* A signal is its marshal key <<kind, type, dir>> and its vref, which     *)
(* also is its place in the files.                                         *)
(***************************************************************************)
EXTENDS Naturals, SequencesExt

CONSTANTS
  VarTypes,      \* the fmi_variable_type annotations that occur
  Causalities,   \* the fmi_variable_causality annotations that occur
  MaxSignals     \* bound: signals in the SignalGroups

ASSUME TableAssumption ==
  /\ VarTypes \subseteq {"Real", "Integer", "Boolean", "String", "absent"}
  /\ Causalities \subseteq {"input", "output", "inout", "parameter", "local",
                            "absent", "other"}
  /\ MaxSignals \in Nat

VARIABLES
  phase,     \* "parse", "table", "done"
  list,      \* s_list while parsing
  signals,   \* m->signals, sorted
  next,      \* index of the signal the table loop looks at
  key,       \* kind, type and dir of the group being accumulated
  offset, count, ref_list,
  mg_table   \* the emitted groups

vars == <<phase, list, signals, next, key, offset, count, ref_list, mg_table>>

(* The enums in ascending order (dse.clib), and mDirOrder.                 *)
KindOrder == <<"NONE", "PRIMITIVE", "BINARY">>
TypeOrder == <<"NONE", "INT32", "DOUBLE", "BOOL", "STRING">>
mDirOrder == <<"NONE", "LOCAL", "RXONLY", "TXRX", "TXONLY", "PARAMETER">>

decode_var_kind(t) ==
  CASE t \in {"Real", "Integer", "Boolean"} -> "PRIMITIVE"
    [] t = "String" -> "BINARY"
    [] OTHER -> "NONE"

decode_var_type(t) ==
  CASE t = "Real" -> "DOUBLE"
    [] t = "Integer" -> "INT32"
    [] t = "Boolean" -> "BOOL"
    [] t = "String" -> "STRING"
    [] OTHER -> "NONE"

decode_var_dir(c) ==
  CASE c \in {"absent", "inout"} -> "TXRX"
    [] c = "input" -> "TXONLY"
    [] c = "output" -> "RXONLY"
    [] c = "parameter" -> "PARAMETER"
    [] c = "local" -> "LOCAL"
    [] OTHER -> "NONE"

NoKey == <<"NONE", "NONE", "NONE">>

-----------------------------------------------------------------------------
Init ==
  /\ phase = "parse" /\ list = << >> /\ signals = << >>
  /\ next = 1 /\ key = NoKey /\ offset = 0 /\ count = 0 /\ ref_list = << >>
  /\ mg_table = << >>

(* _variable_match_handler, _fmu_signal_generator: one signal of the       *)
(* SignalGroups is decoded and appended.                                   *)
ParseSignal(t, c) ==
  /\ phase = "parse" /\ Len(list) < MaxSignals
  /\ list' = Append(list, [key  |-> <<decode_var_kind(t), decode_var_type(t), decode_var_dir(c)>>,
                           vref |-> Len(list) + 1])
  /\ UNCHANGED <<phase, signals, next, key, offset, count, ref_list, mg_table>>

(* The signals of one key, in the order of the list: the innermost loop of *)
(* the sort.                                                               *)
WithKey(k) ==
  FlattenSeq([n \in 1 .. Len(list) |-> IF list[n].key = k THEN <<list[n]>> ELSE << >>])

(* The loops of the sort: kind, then type, then direction.                 *)
NKeys == Len(KindOrder) * Len(TypeOrder) * Len(mDirOrder)

SortKeys ==
  [n \in 0 .. NKeys - 1 |->
     LET D == Len(mDirOrder)
         T == Len(TypeOrder)
     IN <<KindOrder[1 + (n \div (D * T))], TypeOrder[1 + ((n \div D) % T)],
          mDirOrder[1 + (n % D)]>>]

(* Fault: the direction is left out of the sort.                           *)
SortedListByType ==
  LET run(k, t) == SelectSeq(list, LAMBDA s : s.key[1] = k /\ s.key[2] = t)
  IN run("NONE", "NONE") \o run("PRIMITIVE", "INT32") \o run("PRIMITIVE", "DOUBLE")
       \o run("PRIMITIVE", "BOOL") \o run("BINARY", "STRING")

(* _sort_by_marshal_group: the signals of each key in turn.                *)
SortedList == FlattenSeq([n \in 1 .. NKeys |-> WithKey(SortKeys[n - 1])])

(* fmimcl_parse after the search: sort, and convert to the signals array.  *)
fmimcl_parse ==
  /\ phase = "parse"
  /\ phase' = "table"
  /\ signals' = SortedList
  /\ UNCHANGED <<list, next, key, offset, count, ref_list, mg_table>>

(* _create_mg: the group accumulated so far.                               *)
create_mg ==
  [key |-> key, offset |-> offset, count |-> count, ref |-> ref_list]

(* Fault: the offset advances by one group, not by its signals.            *)
TableSignalOffset ==
  /\ phase = "table" /\ next <= Len(signals)
  /\ LET s == signals[next]
     IN IF s.key # key
        THEN /\ mg_table' = IF count > 0 THEN Append(mg_table, create_mg) ELSE mg_table
             /\ offset' = IF count > 0 THEN offset + 1 ELSE offset
             /\ key' = s.key /\ count' = 1 /\ ref_list' = <<s.vref>>
        ELSE /\ count' = count + 1
             /\ ref_list' = Append(ref_list, s.vref)
             /\ UNCHANGED <<mg_table, offset, key>>
  /\ next' = next + 1
  /\ UNCHANGED <<phase, list, signals>>

(* fmimcl_generate_marshal_table: one turn of the loop.  A signal of a new *)
(* key emits the group before it, unless that is empty.                    *)
TableSignal ==
  /\ phase = "table" /\ next <= Len(signals)
  /\ LET s == signals[next]
     IN IF s.key # key
        THEN /\ mg_table' = IF count > 0 THEN Append(mg_table, create_mg) ELSE mg_table
             /\ offset' = offset + count
             /\ key' = s.key /\ count' = 1 /\ ref_list' = <<s.vref>>
        ELSE /\ count' = count + 1
             /\ ref_list' = Append(ref_list, s.vref)
             /\ UNCHANGED <<mg_table, offset, key>>
  /\ next' = next + 1
  /\ UNCHANGED <<phase, list, signals>>

(* fmimcl_generate_marshal_table: the last group.                          *)
TableEnd ==
  /\ phase = "table" /\ next > Len(signals)
  /\ phase' = "done"
  /\ mg_table' = IF count > 0 THEN Append(mg_table, create_mg) ELSE mg_table
  /\ UNCHANGED <<list, signals, next, key, offset, count, ref_list>>

(* Fault: the first other signal is counted, too.                          *)
MeasuredCountThrough ==
  LET other == {i \in DOMAIN signals : signals[i].key[1] # "PRIMITIVE"}
  IN IF other = {} THEN Len(signals) ELSE CHOOSE i \in other : \A j \in other : i <= j

(* model_create: the measurement takes the leading primitive signals.      *)
MeasuredCount ==
  LET other == {i \in DOMAIN signals : signals[i].key[1] # "PRIMITIVE"}
  IN IF other = {} THEN Len(signals)
     ELSE (CHOOSE i \in other : \A j \in other : i <= j) - 1

Done == phase = "done" /\ UNCHANGED vars

Next ==
  \/ \E t \in VarTypes, c \in Causalities : ParseSignal(t, c)
  \/ fmimcl_parse
  \/ TableSignal
  \/ TableEnd
  \/ Done

Spec == Init /\ [][Next]_vars
-----------------------------------------------------------------------------
(***************************************************************************)
(* Properties.                                                             *)
(***************************************************************************)

(* The sort loses and duplicates no signal, whatever its annotations;      *)
(* signals of one key end up side by side, so that a key needs one group,  *)
(* and keep the order of the files.                                        *)
SortCorrect ==
  phase # "parse" =>
    /\ {signals[i] : i \in DOMAIN signals} = {list[i] : i \in DOMAIN list}
    /\ Len(signals) = Len(list)
    /\ \A i, j \in DOMAIN signals : i < j /\ signals[i].key = signals[j].key =>
         /\ signals[i].vref < signals[j].vref
         /\ \A m \in i .. j : signals[m].key = signals[i].key

(* The table covers the source vector without gap or overlap: each group   *)
(* starts where the one before it ends, holds signals of its own key only, *)
(* and its references are those of the signals at its offset.  No key has  *)
(* two groups.  This is what lets marshalling, with one FMI call per       *)
(* group, move the value of the right variable.                            *)
TablePartitions ==
  phase = "done" =>
    LET n == Len(mg_table)
        EndOf(g) == mg_table[g].offset + mg_table[g].count
    IN /\ n = 0 => signals = << >>
       /\ n > 0 => mg_table[1].offset = 0 /\ EndOf(n) = Len(signals)
       /\ \A g \in 1 .. n - 1 : mg_table[g + 1].offset = EndOf(g)
       /\ \A g \in 1 .. n : \A i \in 1 .. mg_table[g].count :
            /\ signals[mg_table[g].offset + i].key = mg_table[g].key
            /\ signals[mg_table[g].offset + i].vref = mg_table[g].ref[i]
       /\ \A g, h \in 1 .. n : mg_table[g].key = mg_table[h].key => g = h

(* What the measurement records is what it should: where every signal has  *)
(* a known type, all primitive signals lie in the measured range and no    *)
(* binary signal does.                                                     *)
MeasuredExact ==
  phase # "parse" /\ (\A i \in DOMAIN signals : signals[i].key[1] # "NONE") =>
    \A i \in DOMAIN signals : i <= MeasuredCount <=> signals[i].key[1] = "PRIMITIVE"
=============================================================================
