----------------------------- MODULE MCLifecycle -----------------------------
(* Instances of Lifecycle, with the readiness check of Health. *)
EXTENDS Health
=============================================================================
