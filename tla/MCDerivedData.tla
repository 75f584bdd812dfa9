--------------------------- MODULE MCDerivedData ---------------------------
(* Posts: two messages, one of them edited, two deliveries at a time. An   *)
(* embedding: two workers, one retry, three revisions. A membership: two   *)
(* readers against the changes of one administrator. A tab and its         *)
(* reconnection, for which the pool has one connection to give.            *)
EXTENDS DerivedData

TwoMessages == 1..2
OneEdit == <<2, 1>>

=============================================================================
