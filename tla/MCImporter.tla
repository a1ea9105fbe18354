----------------------------- MODULE MCImporter -----------------------------
(* Instances of Importer for TLC.                                          *)
EXTENDS Importer

CONSTANTS t1, t2, r1, r2, can, pdu, u, v, w

TwoTx == <<t1, t2>>
TwoRx == <<r1, r2>>
(* CAN and PDU outputs, a CAN input and an input without annotation.       *)
NetMime == [x \in {t1, t2, r1, r2} |-> CASE x = t2 -> pdu [] x = r2 -> NULL [] OTHER -> can]

(* The columns: both inputs, one of them twice, an unknown one, none.      *)
CsvHeaders == {<<u, v>>, <<v, v, u>>, <<u, w>>, <<v>>}

(* Lines without a valid time, and with one; a time or a cell that is no   *)
(* number counts as 0.                                                     *)
CsvLines ==
  [ts : {OutOfRange, 0 - 1}, cells : {<<1, 2>>}]
    \cup [ts : {NoNumber, 1, 2}, cells : {<<1, 2>>, <<OutOfRange, 1>>, <<2>>, <<1, NoNumber>>}]

(* Values no line of the file sets.                                        *)
StartValue == [x \in {u, v} |-> 3]

(* The loopback and the stimulus share the loop and no data: with a CSV    *)
(* file the FMU is silent and the signal bus off, which keeps the product  *)
(* of files and frames out of the state space.                             *)
OneAtATime ==
  csv # NULL => version = 2 /\ ~signal_bus_enabled /\ \A t \in TxBox : emitted[t] = << >>
=============================================================================
