---------------------------- MODULE MCAddressing -----------------------------
(***************************************************************************)
(* Addressing for TLC: one or two masters, up to one worker and one        *)
(* arbiter, both stacks, bonds of two, VLANs.                              *)
(***************************************************************************)
EXTENDS Addressing

MCLayouts ==
    {c \in [master : {1, 2}, worker : {0, 1}, arbiter : {0, 1}, v4 : BOOLEAN, v6 : BOOLEAN,
            primary : {"ipv4", "ipv6"}, static : BOOLEAN, slaves : {1, 2}, vlan : BOOLEAN] :
       /\ c.v4 \/ c.v6
       /\ c.primary = "ipv6" => c.v6        \* the primary stack matters with two
       /\ c.vlan => c.static}               \* static_ips_vlan_enables_static
=============================================================================
