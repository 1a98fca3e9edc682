------------------------------- MODULE Loader -------------------------------
(***************************************************************************)
(* The command set of crates/jl-uboot: which operation exists under which  *)
(* protocol, with which opcode, and how its reply is judged.               *)
(*                                                                         *)
(* A row <<protocol, operation, opcode>> stands for one arm of the `match  *)
(* self.protocol' of one method; an operation without a row answers        *)
(* UnsupportedProtocol.  The device is taken to speak one of the same      *)
(* three protocols: it runs the operation its own protocol gives the       *)
(* opcode, whatever the host meant by it.                                  *)
(***************************************************************************)
EXTENDS ExitCodes

Protocols == {"loaderv2", "loaderv1", "uboot1"}

\* mutant: the opcode of online_device mistyped in the LoaderV1 arm
InfoCommandsMistyped ==
    { <<"loaderv2", "online", "FC0A">>, <<"loaderv1", "online", "FC0C">>,
      <<"loaderv2", "read_id", "FC0B">>, <<"loaderv1", "read_id", "FC00">>,
      <<"loaderv2", "usb_buffer_size", "FC14">>,
      <<"loaderv2", "loader_version", "FC15">>,
      <<"loaderv2", "maskrom_id", "FC16">> }

\* online_device, read_id, usb_buffer_size, loader_version, maskrom_id
InfoCommands ==
    { <<"loaderv2", "online", "FC0A">>, <<"loaderv1", "online", "FC0B">>,
      <<"loaderv2", "read_id", "FC0B">>, <<"loaderv1", "read_id", "FC00">>,
      <<"loaderv2", "usb_buffer_size", "FC14">>,
      <<"loaderv2", "loader_version", "FC15">>,
      <<"loaderv2", "maskrom_id", "FC16">> }

\* run_app ... flash_select.  chip_key and read_key_raw send the same command,
\* which the device runs under both names.
DeviceCommands ==
    { <<"loaderv2", "run_app", "FC0C">>,
      <<"loaderv2", "read_status", "FC03">>,
      <<"loaderv2", "set_flash_cmds", "FC0D">>,
      <<"loaderv2", "flash_crc16", "FC0E">>,
      <<"loaderv2", "flash_crc16_raw", "FC13">>,
      <<"loaderv2", "chip_key", "FC09">>,
      <<"loaderv2", "read_key_raw", "FC09">>,
      <<"loaderv2", "write_chipkey", "FC12">>,
      <<"loaderv1", "flash_select", "FC0C">> }

\* impl FlashAccess for JlDevice
FlashCommands ==
    { <<"loaderv2", "flash_read", "FD05">>,
      <<"loaderv1", "flash_read", "FD01">>,
      <<"loaderv2", "flash_write", "FB04">>,
      <<"loaderv1", "flash_write", "FB01">>,
      <<"loaderv2", "flash_erase_sector", "FB01">>,
      <<"loaderv1", "flash_erase_sector", "FB03">>,
      <<"loaderv2", "flash_erase_block", "FB00">>,
      <<"loaderv1", "flash_erase_block", "FB00">>,
      <<"loaderv2", "flash_erase_chip", "FB02">>,
      <<"loaderv1", "flash_erase_chip", "FB02">> }

\* mem_write_rxgp and impl MemAccess for JlDevice
MemCommands ==
    { <<"uboot1", "mem_write_rxgp", "FB31">>,
      <<"loaderv2", "mem_read", "FD07">>, <<"uboot1", "mem_read", "FD07">>,
      <<"loaderv2", "mem_write", "FB06">>, <<"loaderv1", "mem_write", "FB04">>,
      <<"uboot1", "mem_write", "FB06">>,
      <<"loaderv2", "mem_jump", "FB08">>, <<"loaderv1", "mem_jump", "FB09">>,
      <<"uboot1", "mem_jump", "FB08">> }

Rows == InfoCommands \union DeviceCommands \union FlashCommands
                     \union MemCommands

Ops == { r[2] : r \in Rows }
Supported(protocol, op) == \E r \in Rows : r[1] = protocol /\ r[2] = op

\* The operations a device of protocol dp runs when a host that assumes
\* protocol hp asks for op: none when it does not know the opcode, op when hp = dp.
Runs(dp, hp, op) ==
    { d[2] : d \in { r \in Rows :
                       /\ r[1] = dp
                       /\ \E h \in Rows : h[1] = hp /\ h[2] = op
                                                    /\ h[3] = r[3] } }

-----------------------------------------------------------------------------
(* What becomes of the 16-byte reply.  A reply is                          *)
(*   good    repeats the opcode and carries the payload the command needs  *)
(*   odd     repeats the opcode, but the payload has a value the host does *)
(*           not know (online device type, version text)                   *)
(*   brief   repeats the opcode, but is cut off before the payload ends    *)
(*   other   is the reply of another command                               *)
(*   empty   has fewer than the two bytes of an opcode                     *)

Replies == {"good", "odd", "brief", "other", "empty"}

\* The commands whose method looks into the payload (ensure_payload_len).
HasPayload(op) ==
    op \in {"online", "read_id", "usb_buffer_size", "maskrom_id",
            "read_status", "flash_crc16", "flash_crc16_raw", "chip_key",
            "write_chipkey"}

\* mutant: validate_response_command compares nothing
ReplyErrorUnchecked(op, reply) ==
    CASE op = "loader_version" -> {NoError}
      [] op # "loader_version" /\ reply = "empty" -> {"BadReply"}
      [] op # "loader_version" /\ reply = "brief" /\ HasPayload(op)
            -> {"PayloadTooShort"}
      [] OTHER -> {NoError}

\* The errors the methods may give for a reply.  loader_version takes any
\* reply: a short one is an unknown version, and the opcode is not compared.
\* set_flash_cmds asks for data-in and looks at nothing.
ReplyError(op, reply) ==
    CASE op = "loader_version" /\ reply \in {"odd", "other"}
            -> {NoError, "BadReply"}
      [] op = "loader_version" /\ reply \notin {"odd", "other"} -> {NoError}
      [] op = "set_flash_cmds" -> {NoError}
      [] op \notin {"loader_version", "set_flash_cmds"}
            /\ reply \in {"other", "empty"} -> {"BadReply"}
      [] op # "loader_version" /\ reply = "brief" /\ HasPayload(op)
            -> {"PayloadTooShort"}
      [] op = "online" /\ reply = "odd" -> {"BadReply"}
      [] OTHER -> {NoError}
=============================================================================
