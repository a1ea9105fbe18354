---------------------------- MODULE MCModelcFmu ----------------------------
(* Instances of ModelcFmu for TLC.                                         *)
EXTENDS ModelcFmu

Scalar(s, c) ==
  [signal |-> s, causality |-> c, vref |-> NULL, rx |-> {}, tx |-> {}, text |-> {},
   encoding |-> "none"]

Network(s, v, rx, tx, text, e) ==
  [signal |-> s, causality |-> NULL, vref |-> v, rx |-> rx, tx |-> tx, text |-> text,
   encoding |-> e]

(* A SignalGroup document and its label.                                   *)
SignalGroup(n, c, binary, signals) ==
  [name |-> n, labels |-> {<<"channel", c>>, <<"model", n>>}, index |-> FALSE,
   binary |-> binary, signals |-> signals]

GroupA == SignalGroup("a", "c1", FALSE, <<Scalar("x", "input"), Scalar("y", "output")>>)
GroupB == SignalGroup("b", "c2", FALSE, <<Scalar("y", "input"), Scalar("x", "local")>>)
GroupC == SignalGroup("c", "c1", FALSE, <<Scalar("z", "local"), Scalar("x", "input")>>)
GroupD == SignalGroup("d", "other", FALSE, <<Scalar("x", "input")>>)
GroupN == SignalGroup("n", "bus", TRUE,
            <<Network("can", 4, {21, 22}, {23, 24}, {21, 22, 23, 24}, "ascii85"),
              Network("pdu", 5, {31}, {32}, {31, 32}, "none")>>)
GroupE == SignalGroup("e", "c2", FALSE, << >>)
GroupI == [name |-> "i", labels |-> {<<"index", "direct">>}, index |-> TRUE,
           binary |-> FALSE, signals |-> <<Scalar("x", "input")>>]

Folders ==
  {<<GroupA, GroupB, GroupN>>, <<GroupB, GroupC, GroupA, GroupN>>, <<GroupA, GroupD, GroupC>>,
   <<GroupI, GroupD, GroupE, GroupA, GroupN>>}

(* The networks are annotated by hand: a filter that names them, or none   *)
(* at all, makes the command fail where the folder has one.                *)
NameFilters == {{}, {"a", "n"}, {"c", "b"}, {"a", "b", "c", "d", "e"}}

(* Two models share channel c1; the second takes its selectors from its    *)
(* Model; the last channel has no selectors at all.                        *)
FourChannels ==
  << [name |-> "ch1", selectors |-> {<<"channel", "c1">>}, model |-> NULL],
     [name |-> "ch2", selectors |-> NULL, model |-> {<<"channel", "c2">>}],
     [name |-> "ch1", selectors |-> {<<"channel", "c1">>, <<"model", "c">>}, model |-> NULL],
     [name |-> "net", selectors |-> {<<"channel", "bus">>}, model |-> NULL],
     [name |-> "ch3", selectors |-> NULL, model |-> NULL] >>

EnvOfUser == [n \in {"A", "B", "D"} |-> "user"]
EnvOfStack == [n \in {"A", "C"} |-> "stack"]
ThreeInstances ==
  << [name |-> "inst", env |-> [n \in {"A", "d"} |-> "inst"]],
     [name |-> "simbus", env |-> [n \in {"C", "D"} |-> IF n = "C" THEN "simbus" ELSE NULL]],
     [name |-> "last", env |-> [n \in {"C"} |-> "last"]] >>
UpperNames ==
  [n \in {"inst", "last", "A", "C", "d"} |->
     CASE n = "inst" -> "INST" [] n = "last" -> "LAST" [] n = "d" -> "D" [] OTHER -> n]
=============================================================================
