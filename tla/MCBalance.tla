------------------------------ MODULE MCBalance ------------------------------
(* Instances of Balance. *)
EXTENDS Balance

TwoEndpoints == <<"first", "second">>
=============================================================================
