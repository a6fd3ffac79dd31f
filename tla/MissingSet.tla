----------------------------- MODULE MissingSet -----------------------------
(***************************************************************************)
(* What the "unsubmitted blocks" metrics promise, without any range:       *)
(* for each blob type, the set of block heights currently reported as      *)
(* missing from the DA layer.  MissingRanges implements it.                *)
(***************************************************************************)
EXTENDS Integers

CONSTANTS BlobTypes,   \* "header" and "data" in the code
          Heights      \* the block heights that can be reported

VARIABLE missing       \* missing[b]: heights of blob type b reported as missing

TypeOK == missing \in [BlobTypes -> SUBSET Heights]

Init == missing = [b \in BlobTypes |-> {}]

\* Metrics.RecordMissingBlock: idempotent insertion.
RecordMissingBlock(b, h) ==
    missing' = [missing EXCEPT ![b] = @ \cup {h}]

\* Metrics.RemoveVerifiedBlock: idempotent removal.
RemoveVerifiedBlock(b, h) ==
    missing' = [missing EXCEPT ![b] = @ \ {h}]

Next == \E b \in BlobTypes, h \in Heights :
            RecordMissingBlock(b, h) \/ RemoveVerifiedBlock(b, h)

Spec == Init /\ [][Next]_missing
=============================================================================
