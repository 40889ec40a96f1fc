--------------------------- MODULE MCLibvirtNodes ----------------------------
(***************************************************************************)
(* LibvirtNodes for TLC: the values of its constants are in the cfg.       *)
(***************************************************************************)
EXTENDS LibvirtNodes
=============================================================================
