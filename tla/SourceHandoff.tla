--------------------------- MODULE SourceHandoff ----------------------------
(***************************************************************************)
(* What the ingestion stage promises its source: a record is handed over   *)
(* to the pipeline (the stream or the dead letter queue), never taken      *)
(* back, and an offset is acknowledged to the source only when every       *)
(* record below it has been handed over.  Acknowledged offsets never move  *)
(* backwards.                                                              *)
(***************************************************************************)
EXTENDS Integers

CONSTANTS Partitions,   \* partitions of the source
          LogEnd        \* records per partition

VARIABLES committed,    \* next offset to consume, per partition
          handed        \* records handed over

Record == Partitions \X (0 .. LogEnd - 1)
vars == <<committed, handed>>

Init == committed = [p \in Partitions |-> 0] /\ handed = {}

HandOver ==
    /\ handed' \in SUBSET Record
    /\ handed \subseteq handed'
    /\ UNCHANGED committed

Acknowledge ==
    /\ committed' \in [Partitions -> 0 .. LogEnd]
    /\ \A p \in Partitions :
          /\ committed[p] <= committed'[p]
          /\ \A o \in 0 .. LogEnd - 1 : o < committed'[p] => <<p, o>> \in handed
    /\ UNCHANGED handed

Next == HandOver \/ Acknowledge

Spec == Init /\ [][Next]_vars

=============================================================================
