----------------------------- MODULE MCIngestor -----------------------------
(* Instances of Ingestor for TLC: which record is of which kind.           *)
EXTENDS Ingestor

\* The last record of partition p1 cannot be validated, all others can.
OneInvalid ==
    [r \in Record |-> IF r = <<"p1", LogEnd - 1>> THEN "invalid" ELSE "valid"]

\* Each partition holds valid records and then one that cannot be sent on: the
\* one of p1 cannot be validated, the schema of the one of p2 is incompatible.
MixedKinds ==
    [r \in Record |-> IF r[2] < LogEnd - 1 THEN "valid"
                      ELSE IF r[1] = "p1" THEN "invalid" ELSE "incompatible"]

=============================================================================
