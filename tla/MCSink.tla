------------------------------- MODULE MCSink -------------------------------
(* Instances of Sink for TLC: kinds and schema versions of the messages.   *)
EXTENDS Sink, TLC

AllGood == [m \in Msgs |-> "good"]
LastUnmappable == [m \in Msgs |-> IF m = N THEN "unmappable" ELSE "good"]

\* Between a message the mapping refuses and one ClickHouse refuses.
OuterRefused ==
    [m \in Msgs |-> IF m = N THEN "unappendable" ELSE IF m = 1 THEN "unmappable" ELSE "good"]

OneSchema == [m \in Msgs |-> "v1"]
TwoSchemas == [m \in Msgs |-> IF m = 1 THEN "v1" ELSE "v2"]

\* A stop or a crash comes when only two messages are left to settle.
LateStop == stops' # stops => 1 \in acked

\* Workers are interchangeable.
WorkerSymmetry == Permutations(Workers)

=============================================================================
