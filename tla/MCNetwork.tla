----------------------------- MODULE MCNetwork -----------------------------
(***************************************************************************)
(* Two interfaces; netconfig may have noted no profile, one of an          *)
(* interface, or one of both.                                              *)
(***************************************************************************)
EXTENDS Network

MCIface == {"eth0", "eth1"}
MCFound == {<<>>,
            <<[name |-> "eth0", type |-> "dhcp"]>>,
            <<[name |-> "eth1", type |-> "static"], [name |-> "eth0", type |-> "dhcp"]>>}
=============================================================================
