---------------------------- MODULE MCWotsChains ----------------------------
(* Free terms for the chain hash: two values are equal only if the steps are. *)
EXTENDS WotsChains

MCStart(c)   == <<"prf", c>>
MCF(c, p, x) == <<"F", c, p, x>>
=============================================================================
