------------------------------ MODULE MCClient ------------------------------
(* Instances of Client for TLC. *)
EXTENDS Client

\* Stored texts with and without a word that ends the client.
MCData == {<<"text">>, <<"Invalid">>}
=============================================================================
