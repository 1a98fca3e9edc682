# Verification of jl-uboot-rs

TLA+ models, model-checking runs and machine-checked proofs for the host tools
`jluboot` and `jlrunner` and the crates below them. Sources are named relative
to the repository.

## 1. Inventory

The tools talk to a JieLi chip in download mode: a USB mass-storage device that
takes vendor SCSI commands. Every program is sequential; what is hard comes from
outside: commands that fail half way or time out after they took effect, a device
that is reset or unplugged while a file is open on it, other processes on the same
unlocked sg node, a user who repeats an interrupted command, and a device that
does not speak the protocol the user named.

| Part | Source | State | Operations | Talks to |
|---|---|---|---|---|
| jlrunner | `apps/jlrunner` | image, chunk index, open device | load in chunks, report, jump, report | jl-uboot |
| jluboot, device commands | `apps/jluboot` | per invocation: options, open device, data so far | 3 chunked writes, 2 chunked reads, 17 single commands, probe | jl-uboot, files, stdout |
| jluboot, `find`; auto-detection | `apps/jluboot`, `apps/jlrunner` | candidate list | enumerate, open, INQUIRY, filter, exactly one | jl-sg |
| command set | `crates/jl-uboot` | protocol of the session | 23 operations x 3 protocols | jl-msc, jl-sg |
| CRC, chip-key cipher | `crates/jl-uboot` | none | pure functions | |
| CDB framing | `crates/jl-msc` | none | build CDB, compare the opcode of a reply | |
| Linux transport | `crates/jl-sg/src/linux.rs` | an open file, a timeout | resolve a selector, open, exec, INQUIRY | kernel |
| Windows transport | `crates/jl-sg/src/windows.rs` | handles | enumerate, map volumes, exec | kernel |
| device tables | `crates/jl-device-db` | constants | none | |

Calls go down this list and results come back up; nothing calls back. The shared
state is the device itself: RAM, NOR flash, and whatever it is executing.

What makes each part correct:

- jlrunner: only a complete image is ever started; what it prints and its exit
  code are true; it terminates.
- jluboot: flash changes only as asked and only with `--yes`; data read is what the
  device holds; erase, write, read-back gives the file, whatever was interrupted
  and repeated; a failing read leaves no output; exit 13 never hides a partial
  transfer.
- command set: an operation reported done was done; a command sent under the wrong
  protocol is harmless if it was meant as a query.
- exit codes: one error, one code, the same in both programs.
- find and auto-detection: what is listed is what is there; vendor commands go only
  to a device that identified itself, or that the user named, whatever is plugged in
  or out meanwhile.
- wire: the device finds every field where it looks for it, and what a method returns
  is what the device said - of *this* request.

`PROJECT.json` lists the hazards behind these at their source lines.

## 2. Modules

    Chunks        chunk arithmetic
      Images      files, windows, memories      ImagesProofs (both)
        Runner    jlrunner on a shared device
          RunnerRefines   Runner implements LoadAndJump (abstract)   RunnerProofs (both)
            RunnerMC      instances
        Jluboot   jluboot sessions (with Loader)   JlubootProofs, JlubootDataProofs
          JlubootMC       instances
    ExitCodes     errors and exit codes
      Loader      opcodes, protocols, replies
        Wire      bytes: command blocks, payloads, CRC, cipher
          Exchange        requests and replies, with late ones   CrcProofs, ExchangeProofs
            ExchangeMC    instances
      Discovery   finding a device on Linux   DiscoveryProofs
        DiscoveryMC       instances
      Volumes     finding a device on Windows, with hotplug   VolumesProofs
        VolumesMC         instances

**Chunks** has the arithmetic of the six chunk loops with the two widths they
depend on as constants: `AddrSpace` (2^32 in the code) and `U16Max` (65535).

**Images** gives contents: byte k of file f is the value `<<f, k>>`, so a byte at a
wrong address is always visible. An image may wrap around the end of the address
space, as `wrapping_add` lets it. `ImagesAssumption` says that a file is not longer
than the address space; a longer one would overlay itself.

**ExitCodes** abstracts every error to the variant `exit_code_for` tells apart.

**Runner** is `run_with_factory` of jlrunner for several invocations `Procs` that
share a device. `pc` is the statement reached: `read` (the file), `resolve`, `open`,
`load` (the chunk loop, position in `idx`), `jump`, `finish`. `fd` remembers the
generation of the device the open file belongs to; `gen` grows with each reset, so
`Live(p)` says whether commands still arrive. `boot` holds who jumped and what RAM
was at that moment. `SendChunkFails` leaves any prefix of the chunk in RAM.
`JumpReplied` and `JumpFails` let the device execute the jump although the host
does not learn of it. `Kill` and `Reset` may happen between any two steps.
`MayStart` is an assumption on users: two invocations *at the same time* have
placements that agree on the addresses they share. The code does not check it, and
without it one process would jump into what the other wrote.

**LoadAndJump** is what a user is promised: a request is one file at one address,
started whole and at most once, and reported done only after that. **RunnerRefines**
maps Runner to it: chunks, errors and file descriptors are invisible.

**Loader** is the table of `JlDevice`: one row per arm of each
`match self.protocol`. `Runs(dp, hp, op)` is what a device of protocol `dp` executes
when a host assuming `hp` asks for `op`; a device is taken to implement one of the
three tables. `ReplyError` is how each method judges a reply, including the two that
do not compare the opcode (`loader_version`, `set_flash_cmds`).

**Jluboot** is a sequence of invocations against one device with flash and RAM. Its
handlers are four skeletons, chosen by `Body`: a chunked write (device opened before
`--input` is read, as in the code), a chunked read followed by `Emit`, a single
command, and the probe, whose questions may fail without ending it. Programming
flash is `Burn`: right on an erased cell or on one that already has the value,
`Garbled` elsewhere. `before` is flash when the invocation began, `history` the
finished invocations; both exist only for the properties. What the cells of a
device of *another* protocol become is not tracked; `executed` records which
operations it ran.

Abstracted in Runner and Jluboot: contents of CDBs and payloads and CRCs (they are in
Wire), how the device is found (in Discovery: here `Resolve` is one step), wording and
JSON, progress lines on stderr (their failure is ignored by the code too), and hexdump,
which is treated as stdout.

**Discovery** is one invocation that looks for its device on Linux; jluboot and jlrunner
hold the same code. `cmd` is the command line, `pc` the statement reached. Three paths:
`scan`-`visit`-`inquiry` (`candidate_sg_paths`, then each candidate in the order of the
paths), which `find` continues with `question` and `line` and auto-detection ends with
`Select`; `exists`-`canonical`-`sysblock`-`generic`-`readdir`, the five separate looks of
`resolve_selector_to_sg_path_with_roots`; and `open`-`command`, where the path that was
decided on is opened by name. `node` is what the kernel has behind each name of `/dev`.
`Attach` and `Detach` may happen between any two looks; names are reused, the sg and the
disk node of a device come and go separately, and an open file goes dead with its device
(`Silent`). `seen`, `named` and `steady` exist only for the properties.

**Volumes** is the same question on Windows: enumeration of the disk interfaces with the
allowlist, drive letters matched with disks by device number (`NumberBehind` returns the
number and not the type, as `query_storage_device_number` does), `find`, auto-detection
and an explicit letter, two invocations in a row. Where the system's list is in no
particular order a candidate is taken with `\E`. The crate opens Windows devices for
`find` and auto-detection; the binaries' `DeviceFactory` is still the Linux one and
`linux.rs` uses `std::os::fd`, so for the last step the model takes what
`WindowsScsiDevice` offers.

**Wire** is the byte level: `Args` and `Cdb` of every method, `Judged` for what it makes
of the bytes it gets, `Crc16Seed` and `Cipher` bit for bit, with a u16 register as the set
of its one bits. **Exchange** puts a device on
the other end. The device is external and written independently: it takes its fields
from the command block, computes CRCs as remainders of polynomials over GF(2) and masks
its key itself, so an error in byte order, shift or offset on the host's side shows up as
a difference. A request may be lost, or answered after the SG_IO timeout; then the reply
waits in `replies` and the next request gets it, so that answers are one behind until the
device is reset. How a particular chip treats a reply nobody fetched is not known; the
model takes the case that is worst for the host. `RequestAssumption` says of a request
what the types of the parameters say (u32, u8, usize) and no more: lengths and arguments that
do not fit the command block are among them. `DeviceAssumption` says that the numbers of the
device fit the fields of its replies and that its version is at most four characters of
ASCII; its kind may be one the host does not know.

## 3. Runs

All runs use small instances chosen so that every boundary occurs: addresses
0..5 or 0..7 with an image that wraps, a u16 that holds at most 2 so that a chunk of
3 is too long, chunk sizes 0 (floored to 1), 1, a divisor and a non-divisor of the
length, an empty file, an argument that does not fit.

| Run | Question |
|---|---|
| RunnerShared | two invocations, sequential or overlapping, every form of the command line, two resets: are started images complete, reports and exit codes true, writes inside the window? does it implement LoadAndJump? does every invocation end? |
| JlubootBulk | two transfers in a row over flash and RAM: contents, damage, output files, exit 13 |
| JlubootProtocols | all operations x host protocol x device protocol x reply: confirmation, harmlessness, truth of exit 0, termination |
| JlubootRoundTrip | four invocations of erase, write (two chunk sizes) and read-back, failing anywhere |
| Discovery | find (with --probe, --vendor, --json), auto-detection, --device as sg node, disk node and by-id link; three devices, three sg names, one disk name, two hotplug events: lists, probe questions, the device reached, termination |
| Exchange | 19 requests under each protocol, one lost or late at a time: do commands and data arrive, which answers are true? |
| Volumes | two invocations (find, auto, two letters, a path) with four disks, a CD-ROM drive and one move of a disk or letter |
| RunnerShort, RunnerIoctl, JlubootShortRead, JlubootFlashCmds, DiscoveryBusy | violation runs, one per finding |

Bounds: `Procs` = 2 (a property of one invocation can be disturbed by one other, and
a retry needs two), `MaxResets` = 1 or 2 (reset before and after opening),
`MaxRuns` = 2 (a transfer over what another left), 1 (questions about one
invocation) or 4 (erase, failed write, write, read). The programs may stop for good,
so these runs do not check deadlock; `Terminates` says that they stop only by exiting.
Discovery: with two events a name can be freed and given to another device, which is what
every race here needs; three devices are a target, a second target and a bystander, and
every initial placement of them is considered. Volumes: one move between two queries
suffices to make a number or letter stale; numbers are two so that they are reused, and
the CD-ROM drive has one of them. Exchange: addresses, arguments and facts are numbers
whose bytes all differ, so that no two byte orders agree; one late reply is enough to put
every later answer out of step, and `MaxLate` = 1 keeps the device from hoarding.

**Short transfers.** `ShortTransfers` says whether a successful SG_IO may move fewer
bytes than asked. The passing runs set it to FALSE: the code ignores the residue, so
with TRUE the contents are not guaranteed, which RunnerShort and JlubootShortRead show.

**Fairness.** `FairSpec` is weak fairness of the program's own steps. A sequential
process that can go on does so, and the only thing it waits for is SG_IO, which ends by
the timeout in its header (`linux.rs`, `timeout: self.timeout_ms`), also when the device
is gone (`Failures`). Nothing is assumed of the device, the user, resets or hotplug.
Exchange states no liveness: each of its steps is one SG_IO.

## 4. Findings

Five claims of the documents that the code does not meet, each with a violation run and
quoted in `PROJECT.json`: short writes are reported as complete; short reads exit 0 with
a short file; a failing ioctl exits 10 instead of 12; `set-flash-cmds` sends no command
byte; auto-detection counts only the targets it can open, so it is not refused when a
second one is busy.

Noted while modelling, without a run because the models restate them:

- `--jump false` (README.md:91) is a usage error, the flag takes no value (`jlrunner`,
  line 32); `--yes` after the subcommand (USAGE.md:194) is one too, the option is not
  `global` (`jluboot`, line 25). Runner and Jluboot have both forms of command line.
- WINDOWS_PORT_PLAN.md:92 correlates a letter with "that same underlying target"; the
  code compares device numbers without the device type, so the letter of a CD-ROM drive
  can lead to a disk of the same number. `LetterIsTheDrive` speaks of disks only.
- An instance id of the form `USBSTOR\...` passes `looks_like_usb_msc_instance` but has
  no `VID_`, so the allowlist never lets it through (`Instances`, "usbstor").

Some properties hold with an exception that is part of their statement.
`DestructionNeedsYes`: with the wrong `--protocol`, `mem-write` (LoaderV1) is the opcode
of a LoaderV2 flash write, and `flash-select` that of `run-app`; neither asks for `--yes`.
`JumpOnlyIntoLoadedImage` concerns the window of the file: an empty file has none, so
jlrunner then jumps into whatever RAM holds. `LateAnswersAreTrue`: behind a late reply
data reads and `loader_version` have no opcode to check, and `flash_crc16` may return the
CRC of the range asked about before; the property says of what remains that it is true.
`CommandReachesTheChosen`: if the chosen device itself is replugged between its INQUIRY
and the second open, another one can be reached, for the path is opened by name.

## 5. Proofs

All are for every value of the constants: any number of invocations, files, addresses,
widths, chunk sizes and resets, of devices, names and replugs.

`ImagesProofs`: the effective chunk is positive, chunk addresses stay in range, every
chunk lies inside the file, and no chunk is longer than the first; what a chunk stores
extends a correct prefix and leaves a compatible image intact.

`RunnerProofs` proves `TypeOK`, then the memory invariant. `JumpOnlyIntoLoadedImage` is
not inductive: it needs that a live process has put the acknowledged prefix of its
image into RAM (`HoldsPrefix` up to `Acked(p)`), that past the loop everything is
acknowledged (`ControlOK`), and that processes running together are compatible, so that
one's chunk does not damage the other's prefix. A reset falsifies no part because it
makes every process not live. `RunnerJumpsIntoLoadedImage` and `RunnerReportsTruthfully`
assume `ShortTransfers = FALSE` - the assumption RunnerShort shows to be necessary.
`RunnerWritesStayInWindow` needs no such assumption.

Its second part proves the three exit-code properties from `ExitOK`, which ties the
error to what was issued. Its key step is that a chunk rejected for its length is the
first: `FirstChunkIsLongest` says a later one would have made the first one too long.

The last part proves that Runner implements LoadAndJump, by the mapping of
RunnerRefines and for any number of invocations. `Outcome` sorts the steps of an
invocation into the ways they can look from outside - nothing, giving up, starting the
image, ending without error after a start - and each is a step or a stutter of
LoadAndJump. The invariant is the memory and exit invariants above, for the image that
is started must be whole and exit 0 must come after the start, and `StartedIsPast`: an
image is started once, because after the jump the loop is never entered again. It
assumes `ShortTransfers = FALSE`, for the same reason.

`DiscoveryProofs` proves `TypeOK` of Discovery together with `StageOK` (what is open, and
where it came from, at each statement), and five properties on top. `FindOK` keeps that
the open file of a probe belongs to a wanted device. `SelectorOK` says that at each look
the path the program holds still leads to the device named at the start: a name is given
to another device only after its own has gone (`BehindSteady`). `ChosenOK` says how long
an answer stays true: `matches` is the set of candidates that answered as a target, a
candidate's device stays behind its node for as long as it does not move (`SteadyStays`),
and the path opened last is the only match. `Current` is the other direction: a steady
device is still to be asked, or its answer is its own. With it `ListOK` gives the list of
find (in order because the candidates left are all greater than what is listed, complete
because whatever answered as wanted is in it, printed as far as the output got), and
`DecideOK` the decision: at the end there is a match for each attached target, as many
because a device has at most one sg node (`OneNode`). No assumption beyond
`DiscoveryAssumption`.

`VolumesProofs` proves all four invariants of Volumes. Letters and numbers are looked up
at different times, so `LetterIsTheDrive` needs that what was found out earlier still
holds while nothing has moved: `LetteredOK` for the letters that correlation collects and
find shows, `FollowedOK` for the number a letter was turned into, and `Drives`, the fact
of Windows that no two plugged disks have one number, which makes an equal number the same
disk. `WaitsOK` says that an allowlisted disk stays among the candidates until it is
compared. `ListOK` needs none of this: what is not spelled out as a path comes from the
enumeration, whatever moves. The proof showed that `FirstStage` was not determined for
`find` with a selector, which the model now excludes (`cmd_find` looks at no `--device`).

`JlubootProofs` proves `TypeOK` of Jluboot with `StageOK` (which statement belongs to
which class of commands, and that a running invocation was not refused), then five
properties from `ControlInv`, one part for each question:

- `SentFits`: once a chunk is sent, no later one is rejected by a check of arguments.
  That is what `BulkProtocolErrorIsClean` needs, and again rests on the first chunk being
  the longest, of a read as of a write (`LaterChunksFit`).
- `Delivered`: a read has no output until its loop is over (`OutputMatchesExit`).
- `RanWhatWasAsked`: what the device ran while a command was in progress
  (`DestructionNeedsYes`, `QueriesAreHarmless`). Two lemmas go through the opcode tables
  of the three protocols, `RunsHarmless` and `RunsDestructive`: under every pair of host
  and device protocol a query means a query, and what destroys comes from a command that
  destroys or from one of the two colliding opcodes.
- `Acknowledged`: a single command past its reply was run (`ExitZeroMeansExecuted`).

`JlubootDataProofs` proves the four properties about contents. `FlashInv` gives for each
cell the three values it may have, in terms of what it held when the invocation began;
it is what makes `FlashChangesOnlyAsAsked` hold at every step and not only at the end, and
it needs no assumption on transfers. `WriteInv` (the prefix sent so far is in place),
`ReadInv` (the buffer is the prefix of the answer; the chunks join although their
addresses wrap, `ContentsJoin`) and `EraseInv` add what the loops achieve. `RoundTrip`
speaks of a whole sequence of invocations and is not inductive over its own statement:
`HistoryInv` says of *every* placement and *every* successful erase e in `history` that,
if all commands since e were harmless or writes of that placement, each cell of its
window is erased or right, and right once one of the writes succeeded. So an interrupted
write repeated with another chunk size does no damage. `WroteWhatItSaid`,
`ReadIsFaithful` and `RoundTrip` assume `ShortTransfers = FALSE`; JlubootShortRead and
RunnerShort show that they fail without it. All strengthenings were checked by TLC
on the instances of JlubootBulk, JlubootProtocols and JlubootRoundTrip before they were
proved.

`CrcProofs` proves that `jl_crc16_seed` computes what a device computes by definition: the
remainder of the message times x^16, plus the seed at its head, by x^16 + x^12 + x^5 + 1 - for
data of every length and every seed (`CrcIsTheRemainder`). The host works byte by byte with
a register of 16 bits, the device divides the whole polynomial; the invariant between them is
that after n bytes the register, moved up to where the division has got, plus the bytes not
yet taken in, is what the division has left. The induction is over the bits of a byte and the
bytes of the data. The library's induction theorems take an operator as a parameter, so the
induction is stated of sets of numbers, and the recursive functions are unfolded by their
defining equations.

`ExchangeProofs` goes on from there to all four invariants of Exchange. Host and device are
two sets of definitions that meet in lemmas of arithmetic: `HostCarries` says where in the
sixteen bytes a device finds the opcode, the address, the length and the CRC that the host put
there; `UnderstoodIs` that no opcode means two operations under one protocol, but for the
alias `read_key_raw`; `WriteAccepted` that the CRC a device computes of the data is the one in
the block (by `CrcIsTheRemainder`); `KeyDeciphered` that the mask of the second key byte is
the CRC of the first carried on by one byte of the magic. `CommandsArriveIntact` and
`InStepAnswersAreTrue` follow from one step each: they compare an answer with the state it was
given in. `LateAnswersAreTrue` is about a reply that may have been produced any number of
steps earlier, and needs the inductive invariant `QueueOK`: unless data of a read were left
over, *each* kept reply is the sixteen bytes of a query this protocol has, with its opcode and,
where the answer does not change, the truth in it; and if it is a CRC, a flash_crc16 has failed.
So a reply that is accepted, because its opcode is the one compared, is a reply to the same
question. TLC checked `QueueOK` with two late replies before it was proved. The theorems
assume `RequestAssumption` and `DeviceAssumption` and nothing else.

Only model-checked: liveness (`Terminates` of Runner, Jluboot, Discovery and Volumes), for
fairness is out of the prover's reach. Every invariant and action property of a passing
run, and the refinement, is a theorem.

## 6. Not modelled

Two jluboot processes on one device, and jluboot beside jlrunner: only jlrunner is modelled
with several processes at once.

Left out for good: the device tables (no behaviour), CI, the layout of JSON and text, the
header of the SG_IO and pass-through ioctls, UTF-16 strings and instance id parsing beyond
what the allowlist tells apart, allocation limits. A short transfer on Windows cannot be
told from zeros, because exec reports residue 0 whatever happened.
