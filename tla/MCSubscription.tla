--------------------------- MODULE MCSubscription ----------------------------
(* Instance of Subscription; the cfg gives the bounds. *)
EXTENDS Subscription
=============================================================================
