--------------------------- MODULE MCGatewaySetup ---------------------------
(* Instances of GatewaySetup for TLC.                                      *)
EXTENDS GatewaySetup

Param(n, t, u, v, s) == [name |-> n, type |-> t, use |-> u, vref |-> v, start |-> s]

Scripts == <<Param("P_STR", "String", "script", 2, "s0"), Param("P_REAL", "Real", "script", 3, 5)>>

(* The model descriptions of the unit tests: a SIMER gateway with two      *)
(* commands, a LEGACY gateway with script parameters, one without          *)
(* annotations, and none at all.                                           *)
Simer ==
  [runtime |-> "simer", loglevel |-> 4, stepSize |-> 1, loglocation |-> NULL,
   cmds |-> <<"cmd0", "cmd1">>,
   params |-> <<Param("Simer_Command", "String", "simer", 0, NULL),
                Param("Simer_Command_Selector", "Real", "simer", 1, NULL)>>]
Legacy ==
  [runtime |-> NULL, loglevel |-> NULL, stepSize |-> 1, loglocation |-> "logs",
   cmds |-> << >>, params |-> Scripts]

Entry(n, v) == [name |-> n, value |-> v]
Model(n, t, f, e) == [name |-> n, timeout |-> t, exe |-> NULL, files |-> f, env |-> e]
Doc(k, s, t, m) == [kind |-> k, stacked |-> s, timeout |-> t, exe |-> NULL, models |-> m]

(* A stack with everything: a stacked document, a document of another      *)
(* kind, models with and without a timeout and a name, a file that does    *)
(* not load, and a list that is empty or missing.                          *)
Full ==
  [annotations |-> [start_redis |-> NULL],
   env |-> [x \in {"REDIS_EXE_PATH", "MODELC_EXE_PATH"} |-> <<"text", x>>],
   port |-> 6379,
   gateway |-> [step_size |-> NULL, log_level |-> 2, log_location |-> NULL,
                env |-> [x \in {"GATEWAY_INIT_CMD", "GATEWAY_SHUTDOWN_CMD"} |-> <<"text", x>>]],
   simbus |-> Model("simbus", NULL, << >>, << >>),
   model_stack |-> <<"a", "missing", "b">>,
   files |-> [x \in {"a", "b", "missing"} |->
     IF x = "a" THEN
       <<Doc("Model", FALSE, NULL, NULL),
         Doc("Stack", FALSE, 20, <<Model("m1", NULL, <<"m1.yaml">>,
                                          <<Entry("A", 1), Entry("B", NULL), Entry("C", 2)>>),
                                   Model(NULL, NULL, << >>, << >>),
                                   Model("m2", 10, <<"m2.yaml">>, << >>)>>)>>
     ELSE IF x = "b" THEN
       <<Doc("Stack", TRUE, NULL, <<Model("m3", 10, <<"m3.yaml">>, << >>),
                                    Model("m4", NULL, <<"m4.yaml">>, << >>)>>),
         Doc("Stack", FALSE, NULL, << >>),
         Doc("Stack", FALSE, NULL, NULL)>>
     ELSE NULL]]

(* A stack that only names the gateway, one without it, and none.          *)
Small ==
  [annotations |-> NULL, env |-> NULL, port |-> 6379, simbus |-> NULL, model_stack |-> NULL,
   gateway |-> [step_size |-> 2, log_level |-> NULL, log_location |-> "yaml", env |-> << >>],
   files |-> << >>]

Sig(s, b, v, c, rx, tx) ==
  [signal |-> s, binary |-> b, vref |-> v, causality |-> c, rx |-> rx, tx |-> tx,
   text |-> rx \cup tx, encoding |-> IF b THEN "ascii85" ELSE NULL]

One == <<Sig("in", FALSE, 4, "input", {}, {})>>
Signals == One \o <<Sig("out", FALSE, 5, "output", {}, {}), Sig("own", FALSE, NULL, NULL, {}, {}),
                   Sig("can", TRUE, 6, "input", {6, 8}, {7})>>

Fmu(x, st, f, sg) == [xml |-> x, stack |-> st, files |-> f, signals |-> sg]

(* Scripts with parameters, SIMER, the stacks, and the signals.            *)
MCFmus ==
  {Fmu(Legacy, Full, f, << >>) : f \in {{}, {"startup"}, {"shutdown"}}}
    \cup {Fmu(Legacy, Small, {"shutdown"}, << >>), Fmu(Simer, NULL, {}, << >>),
          Fmu([Legacy EXCEPT !.params = <<Scripts[2]>>], [Small EXCEPT !.gateway = NULL], {}, Signals),
          Fmu(NULL, Small, {"startup", "shutdown"}, One), Fmu(Legacy, NULL, {"shutdown"}, One)}

ASSUME SimerReferences(MCFmus) /\ NamedStacks(MCFmus)

(* The gateway the toolset generates.                                      *)
MCGenerated == {Fmu(createRuntime("cmd0"), NULL, {}, << >>)}

MCText == {"", "x"}
MCReal == {3, -2}

MCEnvironments == {<< >>, [x \in {"P_REAL"} |-> <<"text", "u">>],
                   [x \in {"GATEWAY_INIT_CMD"} |-> <<"text", "user">>]}
=============================================================================
