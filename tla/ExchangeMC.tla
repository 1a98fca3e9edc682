----------------------------- MODULE ExchangeMC ------------------------------
(***************************************************************************)
(* Four bytes of memory at an address whose bytes all differ, so that no   *)
(* two byte orders agree on it.                                            *)
(***************************************************************************)
EXTENDS Exchange

MCBase == \h01020304
MCCells == MCBase .. MCBase + 3

MCFacts ==
    [ kind |-> [loaderv2 |-> \h16, loaderv1 |-> 1, uboot1 |-> 0],
      id |-> \h11223344, flash |-> \hEF4018, buffer |-> \h00020400,
      version |-> <<49, 46, 50>>, maskrom |-> \h00005A17, key |-> \h9C3E ]

R(op, a, b, data) == [op |-> op, a |-> a, b |-> b, data |-> data]

MCRequests ==
    { R(op, 0, 0, << >>) : op \in {"online", "read_id", "usb_buffer_size",
                                   "loader_version", "maskrom_id"} }
    \union { R("chip_key", \hAC6900, 0, << >>) }
    \union { R("run_app", \h0A0B0C0D, 0, << >>),
             R("write_chipkey", \h0A0B0C0D, \h01020304, << >>),
             R("flash_erase_sector", \h00001000, 0, << >>),
             R("flash_select", 1, 0, << >>),
             R("set_flash_cmds", 0, 12, << >>) }
    \union { R("mem_jump", MCBase, n, << >>) : n \in {\h0405, 65536} }
    \union { R("flash_crc16", MCBase, n, << >>) : n \in {2, 4, 65536} }
    \union { R(op, MCBase + 1, 3, << >>) : op \in {"flash_read", "mem_read"} }
    \union { R(op, MCBase + 1, 0, <<\hFC, \h0E, 7>>) :
                op \in {"flash_write", "mem_write", "mem_write_rxgp"} }
=============================================================================
