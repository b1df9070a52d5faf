---------------------------- MODULE MCProxyLoop ----------------------------
(***************************************************************************)
(* ProxyLoop on the small instances its .cfg files choose.  Descriptors    *)
(* and connections are numbers because the code compares them.             *)
(***************************************************************************)
EXTENDS ProxyLoop
=============================================================================
