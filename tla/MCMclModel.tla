----------------------------- MODULE MCMclModel -----------------------------
(* An instance of MclModel for TLC.                                        *)
EXTENDS MclModel

CONSTANTS w, x, y, p, u

(* In the order of the table: a signal without a type, two output groups   *)
(* of different type, a parameter and an inout.                            *)
FiveGroups ==
  << [dir |-> "TXRX", type |-> "NONE", vars |-> {w}],
     [dir |-> "LOCAL", type |-> "INT32", vars |-> {y}],
     [dir |-> "RXONLY", type |-> "DOUBLE", vars |-> {x}],
     [dir |-> "PARAMETER", type |-> "DOUBLE", vars |-> {p}],
     [dir |-> "TXRX", type |-> "BOOL", vars |-> {u}] >>
=============================================================================
