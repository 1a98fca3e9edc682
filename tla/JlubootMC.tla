----------------------------- MODULE JlubootMC ------------------------------
(***************************************************************************)
(* Instances of Jluboot for the model checker: the command lines each run  *)
(* considers.  app is three bytes long and empty has none; a u16 holds at  *)
(* most 2, so a chunk of 3 bytes is one the protocol rejects.              *)
(***************************************************************************)
EXTENDS Jluboot

CONSTANTS app, empty

MCFiles == {app, empty}
MCSize == [f \in MCFiles |-> IF f = app THEN 3 ELSE 0]

\* A command line with the given parts and unremarkable other ones.
Line(op, proto, yes) ==
    [op |-> op, proto |-> proto, yes |-> yes, address |-> 1, file |-> app,
     len |-> 3, chunk |-> 2, arg |-> 1, sink |-> "file"]

\* Transfers with every kind of chunk size (0, 1, a divisor or not, too long)
\* and a window that wraps.
MCBulk ==
    { [Line(op, "loaderv2", "global") EXCEPT !.chunk = c, !.address = a] :
        op \in {"flash_write", "mem_write"}, c \in {0, 2, 3}, a \in {1, 6} }
    \union
    { [Line(op, "loaderv2", "absent") EXCEPT !.chunk = c, !.address = a,
                                             !.sink = s] :
        op \in ReadOps, c \in {0, 2, 3}, a \in {1, 6}, s \in {"file", "stdout"} }
    \union { Line("flash_erase_block", "loaderv2", "global"),
             Line("mem_write_rxgp", "uboot1", "absent"),
             [Line("flash_write", "loaderv2", "global") EXCEPT !.file = empty] }

\* Every operation under every protocol, with and without --yes, and with an
\* argument that fits a u16 and one that does not.
MCAllOps ==
    { [Line(op, proto, yes) EXCEPT !.arg = n] :
        op \in Ops \union {"probe"}, proto \in Protocols,
        yes \in {"absent", "global"}, n \in {1, 3} }
    \union { Line("flash_write", "loaderv2", "trailing") }

\* Erase, write (in chunks of 1 or 2 bytes), read back.
MCRoundTrip ==
    { Line("flash_erase_block", "loaderv2", "global"),
      Line("flash_write", "loaderv2", "global"),
      [Line("flash_write", "loaderv2", "global") EXCEPT !.chunk = 0],
      Line("flash_read", "loaderv2", "absent") }

MCReads == { Line(op, "loaderv2", "absent") : op \in ReadOps }
MCFlashCmds == { Line("set_flash_cmds", "loaderv2", "global") }
=============================================================================
