-------------------------- MODULE MCVariableIndex --------------------------
(* Instances of VariableIndex for TLC.                                     *)
EXTENDS VariableIndex

V(n, vr, c, t, e, m, s) ==
  [name |-> n, vr |-> vr, causality |-> c, types |-> t, encoding |-> e, mime |-> m, start |-> s]

(* FMI 2 variables: of every type and causality, with the annotations in   *)
(* front, with the value reference of another type, and without one.       *)
Palette2 ==
  {V("ri", 1, "input", <<"Real">>, NULL, NULL, 1),
   V("ro", 1, "output", <<"Real">>, NULL, NULL, NULL),
   V("rj", 2, "input", <<"Real", "Annotations">>, NULL, NULL, NULL),
   V("rl", NULL, NULL, <<"Real">>, NULL, NULL, NULL),
   V("ra", 3, "output", <<"Annotations", "Real">>, NULL, NULL, NULL),
   V("bo", 4, "output", <<"Boolean">>, NULL, NULL, NULL),
   V("si", 1, "input", <<"String", "Annotations">>, "ascii85", "can", NULL),
   V("so", 2, "output", <<"String", "Annotations">>, "ascii85", "can", NULL),
   V("sp", 3, "output", <<"String", "Annotations">>, NULL, "other", NULL),
   V("sl", 4, "local", <<"String", "Annotations">>, "ascii85", "pdu", NULL),
   V("sn", 5, "input", <<"String">>, NULL, NULL, NULL)}

Palette3 ==
  {V("fi", 1, "input", <<"Float64">>, NULL, NULL, 1),
   V("fo", 2, "output", <<"Float64">>, NULL, NULL, NULL),
   V("bi", 3, "input", <<"Binary">>, NULL, "can", "00")}

(* Documents of up to three different variables.                           *)
Lists(S) == {<<a>> : a \in S} \cup {x \in S \X S : x[1] # x[2]}
              \cup {x \in S \X S \X S : x[1] # x[2] /\ x[1] # x[3] /\ x[2] # x[3]}

MCDocuments ==
  {[version |-> 2, variables |-> l] : l \in Lists(Palette2)}
    \cup {[version |-> 3, variables |-> l] : l \in Lists(Palette3)}
    \cup {[version |-> 1, variables |-> << >>], [version |-> 2, variables |-> << >>]}
=============================================================================
