--------------------------- MODULE MCGrpcConn ---------------------------
(***************************************************************************)
(* GrpcConn for TLC.                                                     *)
(***************************************************************************)
EXTENDS GrpcConn

=============================================================================
