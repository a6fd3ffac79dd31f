----------------------------- MODULE MCVerifier ------------------------------
(* Instances of Verifier; a cfg picks the deliveries by name. *)
EXTENDS Verifier, TLC

\* The same transaction block delivered by a late header and by a backfill.
DuplicateDeliveries == {<<1, 1>>, <<1, 2>>}

\* More blocks than the queue of one worker holds.
ThreeBlocks == {<<1, 1>>, <<2, 1>>, <<3, 1>>}

\* One block.
OneBlock == {<<1, 1>>}

Symmetry == Permutations(Workers)
=============================================================================
