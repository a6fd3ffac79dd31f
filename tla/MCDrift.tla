------------------------------- MODULE MCDrift -------------------------------
(* Instances of Drift. *)
EXTENDS Drift

\* A reference node and two full nodes whose endpoints differ only in what is redacted.
ThreeNodes == <<"host", "host", "host">>
=============================================================================
