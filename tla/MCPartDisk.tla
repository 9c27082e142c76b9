----------------------------- MODULE MCPartDisk -----------------------------
(***************************************************************************)
(* Two disks: sda with sda1 and sda10, sdb with sdb1.                      *)
(***************************************************************************)
EXTENDS PartDisk

MCPart    == {"sda1", "sda10", "sdb1"}
MCDevice  == <<"sda", "sdb">>
MCPartsOn == [d \in {"sda", "sdb"} |->
                IF d = "sda" THEN <<"sda1", "sda10">> ELSE <<"sdb1">>]
MCDir     == {"/usr", "/usr/local"}
MCLength  == [d \in MCDir |-> IF d = "/usr" THEN 4 ELSE 10]
MCAbove   == {<<"/usr", "/usr/local">>}
MCType0   == {[p \in MCPart |-> "other"],
              [p \in MCPart |-> IF p = "sda10" THEN "linux-swap" ELSE "other"]}
MCPrefix  == {<<"sda1", "sda10">>}
=============================================================================
