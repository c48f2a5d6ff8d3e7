---------------------------- MODULE MCRspServer ----------------------------
(* Small instances of RspServer.                                           *)
EXTENDS RspServer
=============================================================================
