--------------------------- MODULE MCThriftConn ---------------------------
(***************************************************************************)
(* ThriftConn for TLC.                                                     *)
(***************************************************************************)
EXTENDS ThriftConn

=============================================================================
