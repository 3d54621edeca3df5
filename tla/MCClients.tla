----------------------------- MODULE MCClients ------------------------------
(* Instance of Clients. *)
EXTENDS Clients

=============================================================================
