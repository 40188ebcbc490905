----------------------------- MODULE MCUpgrade ------------------------------
(* Two starts of the server on an empty database, for TLC. *)
EXTENDS SchemaUpgrade

\* Every request that changes a contact is at one server.
MCOneServer == [e \in Editors |-> CHOOSE s \in Servers : TRUE]
=============================================================================
