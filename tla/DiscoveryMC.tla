---------------------------- MODULE DiscoveryMC -----------------------------
(***************************************************************************)
(* Instances of Discovery for the model checker: two JieLi devices, of     *)
(* which --vendor wants one, and another disk.                             *)
(***************************************************************************)
EXTENDS Discovery

CONSTANTS left, right, other, sda

MCDevices == {left, right, other}
MCMatching == {left, right}
MCOfVendor == {right, other}
MCSdNodes == {sda}

MCCommand(selector) ==
    [op |-> "command", selector |-> selector, probe |-> FALSE, json |-> FALSE,
     vendor |-> FALSE]
MCFind(probe, json, vendor) ==
    [op |-> "find", selector |-> AutoDetect, probe |-> probe, json |-> json,
     vendor |-> vendor]

MCLines ==
    { MCCommand(s) : s \in {AutoDetect, 0, sda, left} }
        \union { MCFind(p, j, p # j) : p, j \in BOOLEAN }

MCAuto == { MCCommand(AutoDetect) }
=============================================================================
