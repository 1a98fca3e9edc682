------------------------------ MODULE VolumesMC ------------------------------
(***************************************************************************)
(* Two JieLi disks, a disk of that vendor with another firmware, a disk of *)
(* another vendor, a CD-ROM drive with the number of a disk, two letters.  *)
(***************************************************************************)
EXTENDS Volumes

CONSTANTS left, right, plain, other, rom

MCDisks == {left, right, plain, other}
MCRoms == {rom}
MCInstance == [d \in MCDisks |-> IF d = other THEN "usb_vid_other"
                                              ELSE "usb_vid_jieli"]
MCMatching == MCDisks \ {plain}
MCRomNumber == [r \in MCRoms |-> 0]

MCFind == [op |-> "find", selector |-> AutoDetect]
MCCommand(s) == [op |-> "command", selector |-> s]
MCLines == {MCFind} \union { MCCommand(s) : s \in {AutoDetect, 1, 2, right} }
=============================================================================
