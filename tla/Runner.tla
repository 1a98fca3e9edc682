------------------------------- MODULE Runner -------------------------------
(***************************************************************************)
(* jlrunner: load a file into device RAM and jump to it.                   *)
(*                                                                         *)
(* A process of Procs is one invocation of the program on a device that is *)
(* shared by all of them: later invocations retry what earlier ones left   *)
(* half done, and two invocations may run at the same time, since nothing  *)
(* in the code locks the sg node.  The environment may reset the device,   *)
(* which empties its RAM and leaves every open file referring to a device  *)
(* that is gone, and may kill a process between two of its calls.          *)
(***************************************************************************)
EXTENDS Images, ExitCodes

CONSTANTS
    Procs,           \* invocations of jlrunner
    Options,         \* the command lines they may be given
    MaxResets,       \* bound: device resets considered
    ShortTransfers   \* may a successful SG_IO move fewer bytes than asked?

ASSUME RunnerAssumption ==
    /\ Options \subseteq [file : Files, address : Addrs, chunk : Nat,
                          arg : Nat, jump : {"absent", "flag", "value"}]
    /\ MaxResets \in Nat
    /\ ShortTransfers \in BOOLEAN

VARIABLES
    opts,     \* opts[p]: the command line of p
    pc,       \* pc[p]: what p does next
    idx,      \* idx[p]: chunks of the image the device has acknowledged
    fd,       \* fd[p]: the device generation p's open file belongs to
    err,      \* err[p]: the error p ended with and where it happened
    said,     \* said[p]: the lines p printed on stdout
    issued,   \* issued[p]: the kinds of vendor command p handed to SG_IO
    mem,      \* device RAM
    gen,      \* device generation: changes with every reset
    boot,     \* the code the device last jumped to: by whom, and RAM then
    started   \* the processes whose jump the device executed

vars == <<opts, pc, idx, fd, err, said, issued, mem, gen, boot, started>>

NotOpen == 0
NoBoot == [by |-> "nobody"]
Stages == {"idle", "read", "resolve", "open", "load", "jump", "finish", "exited"}
NoFailure == [kind |-> NoError, at |-> "finish"]

TypeOK ==
    /\ opts \in [Procs -> Options]
    /\ pc \in [Procs -> Stages]
    /\ idx \in [Procs -> Nat]
    /\ fd \in [Procs -> 0 .. MaxResets + 1]
    /\ err \in [Procs -> [kind : ErrorKinds, at : Stages]]
    /\ said \in [Procs -> SUBSET {"loaded", "jumped"}]
    /\ issued \in [Procs -> SUBSET {"write", "jump"}]
    /\ mem \in [Addrs -> Cells]
    /\ gen \in 1 .. MaxResets + 1
    /\ boot \in {NoBoot} \union [by : Procs, ram : [Addrs -> Cells]]
    /\ started \in SUBSET Procs

Init ==
    /\ opts \in [Procs -> Options]
    /\ pc = [p \in Procs |-> "idle"]
    /\ idx = [p \in Procs |-> 0]
    /\ fd = [p \in Procs |-> NotOpen]
    /\ err = [p \in Procs |-> NoFailure]
    /\ said = [p \in Procs |-> {}]
    /\ issued = [p \in Procs |-> {}]
    /\ mem = [a \in Addrs |-> Old]
    /\ gen = 1
    /\ boot = NoBoot
    /\ started = {}

-----------------------------------------------------------------------------
(* The parts of an invocation. *)

Running(p) == pc[p] \notin {"idle", "exited"}

LiveWhenOpen(p) == fd[p] # NotOpen   \* mutant: the path is opened again

\* The file p opened still belongs to the device on the bus.
Live(p) == fd[p] = gen

Fail(p, kind) ==
    /\ pc' = [pc EXCEPT ![p] = "exited"]
    /\ err' = [err EXCEPT ![p] = [kind |-> kind, at |-> pc[p]]]

Advance(p, stage) ==
    /\ pc' = [pc EXCEPT ![p] = stage]
    /\ UNCHANGED err

ExitCode(p) == ExitCodeFor(err[p].kind)

device == <<mem, gen, boot, started>>
session == <<idx, fd, said, issued>>

Chunk(p) == EffectiveChunk(opts[p].chunk)
MoreChunks(p) == HasChunk(Size[opts[p].file], Chunk(p), idx[p])
NextLen(p) == ChunkLen(Size[opts[p].file], Chunk(p), idx[p])
Acked(p) == BytesDone(Size[opts[p].file], Chunk(p), idx[p])

\* RAM after the first n bytes of p's next chunk arrive at its address.
After(p, n) ==
    Stored(mem, ChunkAddr(opts[p].address, Chunk(p), idx[p]),
           opts[p].file, ChunkStart(Chunk(p), idx[p]), n)

\* How many of n bytes a successful data-out command moves.  The code asks
\* SG_IO for n and ignores the residue it reports.
Moved(n) == IF ShortTransfers THEN 0 .. n ELSE {n}

FailuresWhenAlive(p) == IF Live(p) THEN ExecErrors ELSE {}  \* mutant: no timeout

\* An SG_IO may always fail, and does so by its timeout at the latest, also
\* when the device behind the open file is gone.
Failures(p) == ExecErrors

ReplyAcceptedAnyCommand(reply) == reply # "short"   \* mutant: no comparison

\* validate_response_command: two bytes that repeat the opcode.
ReplyAccepted(reply) == reply = "echo"

\* The clap derive makes `jump: bool' a flag: a value after it is an error.
CommandLineParses(o) == o.jump # "value"
\* ... and its default is true, so the flag cannot turn it off.
WantsJump(o) == o.jump \in {"absent", "flag"}

NextChunk(i) == i + 1

-----------------------------------------------------------------------------
(* Invocation.  Two invocations run at the same time only when the user    *)
(* gave them compatible placements; nothing in the code checks this.       *)

MayStart(p) ==
    \A q \in Procs : Running(q) => Compatible(opts[p], opts[q])

Start(p) ==
    /\ pc[p] = "idle"
    /\ MayStart(p)
    /\ IF CommandLineParses(opts[p]) THEN Advance(p, "read")
                                     ELSE Fail(p, "Usage")
    /\ UNCHANGED <<opts, session, device>>

\* std::fs::read reads the whole file before any device is touched.
ReadFile(p) ==
    /\ pc[p] = "read"
    /\ Advance(p, "resolve") \/ Fail(p, "StdIo")
    /\ UNCHANGED <<opts, session, device>>

Resolve(p) ==
    /\ pc[p] = "resolve"
    /\ Advance(p, "open") \/ \E e \in ResolveErrors : Fail(p, e)
    /\ UNCHANGED <<opts, session, device>>

Open(p) ==
    /\ pc[p] = "open"
    /\ \/ /\ Advance(p, "load")
          /\ fd' = [fd EXCEPT ![p] = gen]
       \/ /\ \E e \in OpenErrors : Fail(p, e)
          /\ UNCHANGED fd
    /\ UNCHANGED <<opts, idx, said, issued, device>>

-----------------------------------------------------------------------------
(* The load loop of write_memory_chunked. *)

\* mem_write rejects a chunk whose length does not fit the u16 field before
\* it builds a command.
RejectChunk(p) ==
    /\ pc[p] = "load"
    /\ MoreChunks(p)
    /\ ~FitsU16(NextLen(p))
    /\ Fail(p, "LengthTooLarge")
    /\ UNCHANGED <<opts, session, device>>

Sending(p) ==
    /\ pc[p] = "load"
    /\ MoreChunks(p)
    /\ FitsU16(NextLen(p))
    /\ issued' = [issued EXCEPT ![p] = @ \union {"write"}]

SendChunk(p) ==
    /\ Sending(p)
    /\ Live(p)
    /\ \E n \in Moved(NextLen(p)) : mem' = After(p, n)
    /\ idx' = [idx EXCEPT ![p] = NextChunk(@)]
    /\ UNCHANGED <<opts, pc, err, fd, said, gen, boot, started>>

\* A failed or timed-out command may have moved any part of the chunk; on a
\* file whose device is gone it moves nothing.
SendChunkFails(p) ==
    /\ Sending(p)
    /\ \E e \in Failures(p) : Fail(p, e)
    /\ \E n \in 0 .. NextLen(p) :
          /\ n > 0 => Live(p)
          /\ mem' = After(p, n)
    /\ UNCHANGED <<opts, idx, fd, said, gen, boot, started>>

\* The loop is over: `loaded N bytes ...' goes to stdout, which may fail.
ReportLoaded(p) ==
    /\ pc[p] = "load"
    /\ ~MoreChunks(p)
    /\ \/ /\ Advance(p, IF WantsJump(opts[p]) THEN "jump" ELSE "exited")
          /\ said' = [said EXCEPT ![p] = @ \union {"loaded"}]
       \/ /\ Fail(p, "StdIo")
          /\ UNCHANGED said
    /\ UNCHANGED <<opts, idx, fd, issued, device>>

-----------------------------------------------------------------------------
(* mem_jump: a command with a 16-byte reply that must repeat the opcode. *)

RejectJump(p) ==
    /\ pc[p] = "jump"
    /\ ~FitsU16(opts[p].arg)
    /\ Fail(p, "LengthTooLarge")
    /\ UNCHANGED <<opts, session, device>>

Jumping(p) ==
    /\ pc[p] = "jump"
    /\ FitsU16(opts[p].arg)
    /\ issued' = [issued EXCEPT ![p] = @ \union {"jump"}]
    /\ UNCHANGED <<opts, idx, fd, said, mem, gen>>

\* The device executes p's jump: boot remembers what RAM held at that time.
Enter(p) ==
    /\ Live(p)
    /\ boot' = [by |-> p, ram |-> mem]
    /\ started' = started \union {p}

\* The reply arrives.  A device that repeats the opcode executes the jump;
\* after another reply it may or may not have done so.
JumpReplied(p) ==
    /\ Jumping(p)
    /\ Live(p)
    /\ \E reply \in {"echo", "other", "short"} :
          /\ IF ReplyAccepted(reply) THEN Advance(p, "finish")
                                     ELSE Fail(p, "BadReply")
          /\ \/ Enter(p)
             \/ reply # "echo" /\ UNCHANGED <<boot, started>>

\* The command fails in transport, before or after the device executed it.
JumpFails(p) ==
    /\ Jumping(p)
    /\ \E e \in Failures(p) : Fail(p, e)
    /\ Enter(p) \/ UNCHANGED <<boot, started>>

\* `jumped to ...' goes to stdout, which may fail although the code runs.
ReportJumped(p) ==
    /\ pc[p] = "finish"
    /\ \/ /\ Advance(p, "exited")
          /\ said' = [said EXCEPT ![p] = @ \union {"jumped"}]
       \/ /\ Fail(p, "StdIo")
          /\ UNCHANGED said
    /\ UNCHANGED <<opts, idx, fd, issued, device>>

-----------------------------------------------------------------------------
(* The environment. *)

Kill(p) ==
    /\ Running(p)
    /\ Fail(p, "Killed")
    /\ UNCHANGED <<opts, session, device>>

\* Power cycle, watchdog or replugging: RAM is lost, and so is every open file.
Reset ==
    /\ gen <= MaxResets
    /\ gen' = gen + 1
    /\ mem' = [a \in Addrs |-> Old]
    /\ boot' = NoBoot
    /\ UNCHANGED <<opts, pc, err, session, started>>

\* What the program itself does next; each SG_IO ends by its timeout.
Step(p) ==
    \/ ReadFile(p) \/ Resolve(p) \/ Open(p)
    \/ RejectChunk(p) \/ SendChunk(p) \/ SendChunkFails(p) \/ ReportLoaded(p)
    \/ RejectJump(p) \/ JumpReplied(p) \/ JumpFails(p) \/ ReportJumped(p)

Next ==
    \/ \E p \in Procs : Start(p) \/ Step(p) \/ Kill(p)
    \/ Reset

Spec == Init /\ [][Next]_vars
FairSpec == Spec /\ \A p \in Procs : WF_vars(Step(p))

-----------------------------------------------------------------------------
(* Correctness. *)

\* The device is only ever made to run a complete image: when it executes a
\* jump, every address of the window holds the byte of the file that belongs
\* there, whatever earlier or concurrent invocations wrote, however often the
\* device was reset and wherever a command failed.
JumpOnlyIntoLoadedImage ==
    boot # NoBoot => HoldsImage(boot.ram, opts[boot.by])

\* `loaded N bytes ... into RAM' (jlrunner lib.rs:139-146) is true when it is
\* printed and stays true until the process ends, unless the device was reset.
LoadedReportIsTrue ==
    \A p \in Procs :
        "loaded" \in said[p] /\ Running(p) /\ Live(p)
            => HoldsImage(mem, opts[p])

\* Exit 0 means that the device executed this invocation's jump.
ExitZeroMeansStarted ==
    \A p \in Procs : pc[p] = "exited" /\ ExitCode(p) = OK => p \in started

\* Exit 11 means no vendor command was sent, so the device is as it was.
DeviceNotFoundTouchesNothing ==
    \A p \in Procs :
        pc[p] = "exited" /\ ExitCode(p) = DEVICE_NOT_FOUND => issued[p] = {}

\* A protocol error never leaves a partly loaded image: at exit 13 this
\* invocation has either sent nothing or had the whole image acknowledged.
ProtocolErrorIsAllOrNothing ==
    \A p \in Procs :
        pc[p] = "exited" /\ ExitCode(p) = PROTOCOL
            => issued[p] = {} \/ Acked(p) = Size[opts[p].file]

\* RAM outside the windows of the running invocations never changes, and
\* inside it only ever receives the byte that belongs at that address.
WritesStayInWindow ==
    [][ \A a \in Addrs :
          mem'[a] # mem[a] =>
            \/ gen' # gen
            \/ \E p \in Procs :
                  Running(p) /\ InWindow(opts[p], a)
                             /\ mem'[a] = Target(opts[p], a) ]_vars

\* Every invocation comes to an end, whatever the device does.
Terminates ==
    \A p \in Procs : Running(p) ~> pc[p] = "exited"

-----------------------------------------------------------------------------
(* A claim of the documentation the code does not meet.                     *)

\* USAGE.md: exit 10 is `local I/O failure', 12 `transport-layer failure'.
\* A command that fails in transport should not exit with 10.
TransportFailureIsNotLocal ==
    \A p \in Procs :
        (/\ pc[p] = "exited"
         /\ err[p].at \in {"load", "jump"}
         /\ err[p].kind \in ExecErrors)
            => ExitCode(p) = TRANSPORT
=============================================================================
