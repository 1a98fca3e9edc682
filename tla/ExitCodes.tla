----------------------------- MODULE ExitCodes ------------------------------
(***************************************************************************)
(* How an error becomes a process exit code.  An error is abstracted to    *)
(* the variant the mapping tells apart:                                    *)
(*                                                                         *)
(*   StdIo           std::io::Error (reading --file, writing stdout)       *)
(*   NotFound        TransportError::DeviceNotFound                        *)
(*   TransportIo     TransportError::Io (open, directory scan, SG_IO ioctl)*)
(*   TransportOther  every other TransportError (SgIo, InvalidInquiry, ..) *)
(*   LengthTooLarge, BadReply, Unsupported, PayloadTooShort                *)
(*                   jl_uboot::Error variants that are not Transport       *)
(*   Refused         CliError of jluboot: --yes is missing                 *)
(*   Usage           clap rejects the command line (exit 2, external)      *)
(*   Killed          the process dies from a signal                        *)
(***************************************************************************)
EXTENDS Integers

NoError == "none"
TransportErrors == {"NotFound", "TransportIo", "TransportOther"}
ProtocolErrors ==
    {"LengthTooLarge", "BadReply", "Unsupported", "PayloadTooShort"}
ErrorKinds ==
    {NoError, "StdIo", "Refused", "Usage", "Killed"}
        \union TransportErrors \union ProtocolErrors

OK == 0
USAGE == 2
IO == 10
DEVICE_NOT_FOUND == 11
TRANSPORT == 12
PROTOCOL == 13
CLI == 14
KILLED == -1

\* mutant: a variant of its own for timeouts, unknown to the exit codes
ExecErrorsWithTimeout == {"TransportIo", "TransportOther", "Timeout"}
\* What LinuxSgDevice::exec may fail with: the ioctl itself fails, or it
\* succeeds and SG_INFO says the command did not.
ExecErrors == {"TransportIo", "TransportOther"}
\* mutant: a variant of TransportError that the exit codes do not know
OpenErrorsWithBusy == {"NotFound", "TransportIo", "Busy"}
\* What open_with_timeout may fail with.
OpenErrors == {"NotFound", "TransportIo"}
\* What resolving --device or auto-detection may fail with.
ResolveErrors == TransportErrors

\* mutant: the two arms of the TransportError match exchanged
ExitCodeForSwapped(e) ==
    CASE e = NoError           -> OK
      [] e = "Usage"           -> USAGE
      [] e = "Killed"          -> KILLED
      [] e = "StdIo"           -> IO
      [] e = "TransportIo"     -> DEVICE_NOT_FOUND
      [] e = "NotFound"        -> IO
      [] e = "TransportOther"  -> TRANSPORT
      [] e = "Refused"         -> CLI
      [] e \in ProtocolErrors  -> PROTOCOL

\* mutant: transport failures inside jl_uboot::Error fall to the default arm
ExitCodeForNoTransport(e) ==
    CASE e = NoError           -> OK
      [] e = "Usage"           -> USAGE
      [] e = "Killed"          -> KILLED
      [] e = "StdIo"           -> IO
      [] e = "NotFound"        -> DEVICE_NOT_FOUND
      [] e = "Refused"         -> CLI
      [] OTHER                 -> PROTOCOL

\* mutant: std::io::Error not looked for, so it falls to the default arm
ExitCodeForNoIo(e) ==
    CASE e = NoError           -> OK
      [] e = "Usage"           -> USAGE
      [] e = "Killed"          -> KILLED
      [] e = "TransportIo"     -> IO
      [] e = "NotFound"        -> DEVICE_NOT_FOUND
      [] e = "TransportOther"  -> TRANSPORT
      [] e = "Refused"         -> CLI
      [] OTHER                 -> PROTOCOL

ExitCodeFor(e) ==
    CASE e = NoError                     -> OK
      [] e = "Usage"                     -> USAGE
      [] e = "Killed"                    -> KILLED
      [] e \in {"StdIo", "TransportIo"}  -> IO
      [] e = "NotFound"                  -> DEVICE_NOT_FOUND
      [] e = "TransportOther"            -> TRANSPORT
      [] e = "Refused"                   -> CLI
      [] e \in ProtocolErrors            -> PROTOCOL
=============================================================================
