----------------------------- MODULE Discovery ------------------------------
(***************************************************************************)
(* How one invocation of jluboot or jlrunner finds its device on Linux,    *)
(* while devices come and go: `find', auto-detection, and a --device       *)
(* selector.  Both programs hold the same code.                            *)
(*                                                                         *)
(* The kernel gives an attached device an sg node and a disk node, each    *)
(* for itself; a freed name goes to whichever device comes next.  Sg nodes *)
(* are numbered in the order in which their paths sort.  A device stands   *)
(* for its by-id link when it is used as a path.                           *)
(***************************************************************************)
EXTENDS ExitCodes, FiniteSets, Sequences

CONSTANTS
    Devices,    \* USB devices
    Matching,   \* those whose INQUIRY product is a JieLi one
    OfVendor,   \* those whose INQUIRY vendor is the one of `find --vendor'
    SgNodes,    \* the names /dev/sgN
    SdNodes,    \* the names /dev/sdX
    Lines,      \* the command lines considered
    MaxMoves,   \* bound: attachments and detachments
    AutoDetect, \* the selector of a command line without --device
    Nothing,    \* no device
    Silent      \* a candidate that did not answer, a device that has gone

Nodes == SgNodes \union SdNodes
Selectors == Nodes \union Devices

ASSUME DiscoveryAssumption ==
    /\ SgNodes \subseteq Nat /\ IsFiniteSet(SgNodes)
    /\ SgNodes \intersect SdNodes = {} /\ Nodes \intersect Devices = {}
    /\ Matching \subseteq Devices /\ OfVendor \subseteq Devices
    /\ AutoDetect \notin Selectors
    /\ Nothing \notin Devices /\ Silent \notin Devices /\ Nothing # Silent
    /\ Lines \subseteq [op : {"find", "command"},
                        selector : Selectors \union {AutoDetect},
                        probe : BOOLEAN, json : BOOLEAN, vendor : BOOLEAN]
    /\ \A l \in Lines : l.op = "find" => l.selector = AutoDetect
    /\ MaxMoves \in Nat

VARIABLES
    cmd,      \* the command line
    pc,       \* what the invocation does next
    unread,   \* sg names that read_dir has not come to
    todo,     \* candidates still to be asked
    at,       \* the path it is busy with
    fd,       \* the device behind its open file
    matches,  \* auto-detection: the candidates that matched
    asked,    \* find --probe: questions asked of the device
    entries,  \* find: the candidates to be listed
    printed,  \* find: the candidates listed on stdout
    err,      \* the error it ended with
    served,   \* the devices that were handed a vendor command
    node,     \* the device behind each node
    moves,
    seen,     \* history: what each candidate turned out to be
    named,    \* history: the device the selector named at the start
    steady    \* history: the devices that did not move since the start

search == <<unread, todo, matches, seen>>
listing == <<asked, entries, printed>>
world == <<node, moves, steady>>
vars == <<cmd, pc, at, fd, err, served, named, search, listing, world>>

\* On a file whose device has gone every ioctl fails.
Held == Devices \union {Nothing, Silent}

Stages == {"scan", "visit", "inquiry", "question", "line", "exists",
           "canonical", "sysblock", "generic", "readdir", "open", "command",
           "exited"}

TypeOK ==
    /\ cmd \in Lines
    /\ pc \in Stages
    /\ unread \subseteq SgNodes /\ todo \subseteq SgNodes
    /\ at \in Selectors \union {AutoDetect}
    /\ fd \in Held
    /\ matches \subseteq SgNodes
    /\ asked \in 0 .. 3
    /\ entries \in Seq(SgNodes) /\ printed \in Seq(SgNodes)
    /\ err \in ErrorKinds
    /\ served \subseteq Devices
    /\ node \in [Nodes -> Devices \union {Nothing}]
    /\ moves \in 0 .. MaxMoves
    /\ seen \in [SgNodes -> Held]
    /\ named \in Devices \union {Nothing}
    /\ steady \subseteq Devices

-----------------------------------------------------------------------------
(* The nodes of /dev and /sys. *)

NodesOf(d, names) == { n \in names : node[n] = d }
HasDisk(d) == NodesOf(d, SdNodes) # {}

\* The device reached through a path: a by-id link leads to the disk node.
Behind(p) ==
    CASE p \in Nodes                    -> node[p]
      [] p \in Devices /\ HasDisk(p)    -> p
      [] OTHER                          -> Nothing

\* A device comes up under a free name, or a name of it goes away.  Sg and
\* disk node come and go one after the other, in either order.
Attach ==
    \E d \in Devices, n \in Nodes :
        /\ node[n] = Nothing
        /\ \A m \in Nodes : node[m] = d => (m \in SgNodes <=> n \in SdNodes)
        /\ node' = [node EXCEPT ![n] = d]
        /\ steady' = steady \ {d}
        /\ UNCHANGED fd

Detach ==
    \E n \in Nodes :
        /\ node[n] # Nothing
        /\ node' = [node EXCEPT ![n] = Nothing]
        /\ steady' = steady \ {node[n]}
        /\ fd' = IF fd = node[n] THEN Silent ELSE fd

Move ==
    /\ pc # "exited" /\ moves < MaxMoves
    /\ moves' = moves + 1
    /\ Attach \/ Detach
    /\ UNCHANGED <<cmd, pc, at, err, served, named, search, listing>>

-----------------------------------------------------------------------------

Init ==
    /\ cmd \in Lines
    /\ pc = IF cmd.selector = AutoDetect THEN "scan" ELSE "exists"
    /\ at = cmd.selector
    /\ unread = SgNodes /\ todo = {} /\ fd = Nothing /\ matches = {}
    /\ asked = 0 /\ entries = << >> /\ printed = << >>
    /\ err = NoError /\ served = {}
    /\ node \in [Nodes -> Devices \union {Nothing}]
    /\ \A d \in Devices : /\ Cardinality(NodesOf(d, SgNodes)) <= 1
                          /\ Cardinality(NodesOf(d, SdNodes)) <= 1
    /\ moves = 0
    /\ seen = [n \in SgNodes |-> Nothing]
    /\ named = Behind(cmd.selector)
    /\ steady = Devices

Advance(stage) == pc' = stage /\ UNCHANGED err
End(kind) == pc' = "exited" /\ err' = kind

-----------------------------------------------------------------------------
(* candidate_sg_paths: a directory that changes while it is read. *)

ScanFails ==
    /\ pc = "scan"
    /\ End("TransportIo")
    /\ UNCHANGED <<cmd, at, fd, served, named, search, listing, world>>

ScanNode ==
    /\ pc = "scan"
    /\ \E n \in unread :
          /\ unread' = unread \ {n}
          /\ todo' = IF node[n] = Nothing THEN todo ELSE todo \union {n}
    /\ UNCHANGED <<cmd, pc, at, fd, err, served, named, matches, seen, listing,
                   world>>

ScanDone ==
    /\ pc = "scan" /\ unread = {}
    /\ Advance("visit")
    /\ UNCHANGED <<cmd, at, fd, served, named, search, listing, world>>

-----------------------------------------------------------------------------
(* Each candidate in turn: open it, ask it, close it. *)

\* mutant: sorted the other way round
IsFirstUnsorted(n) == \A m \in todo : m <= n

\* `paths.sort()'
IsFirst(n) == \A m \in todo : n <= m

\* --vendor, then matches_jieli_candidate
IsWanted(d) == d \in Matching /\ (cmd.vendor => d \in OfVendor)

\* open_platform_scsi fails for any reason: no such node, permissions, busy.
\* The candidate is passed over in silence.
SkipCandidateAgain ==   \* mutant: `continue' before the iterator moves on
    /\ pc = "visit"
    /\ at' \in todo /\ IsFirst(at')
    /\ seen' = [seen EXCEPT ![at'] = Silent]
    /\ UNCHANGED <<cmd, pc, unread, todo, fd, err, served, named, matches,
                   listing, world>>

SkipCandidate ==
    /\ pc = "visit"
    /\ at' \in todo /\ IsFirst(at')
    /\ todo' = todo \ {at'}
    /\ seen' = [seen EXCEPT ![at'] = Silent]
    /\ UNCHANGED <<cmd, pc, unread, fd, err, served, named, matches, listing,
                   world>>

OpenCandidate ==
    /\ pc = "visit"
    /\ at' \in todo /\ IsFirst(at')
    /\ todo' = todo \ {at'}
    /\ node[at'] # Nothing
    /\ fd' = node[at']
    /\ Advance("inquiry")
    /\ UNCHANGED <<cmd, unread, served, named, matches, seen, listing, world>>

\* The INQUIRY fails, or answers what is not UTF-8.
InquiryFails ==
    /\ pc = "inquiry"
    /\ fd' = Nothing
    /\ seen' = [seen EXCEPT ![at] = Silent]
    /\ Advance("visit")
    /\ UNCHANGED <<cmd, at, unread, todo, served, named, matches, listing,
                   world>>

InquiryAutoLast ==   \* mutant: only the last match is remembered
    /\ pc = "inquiry" /\ fd # Silent
    /\ cmd.op = "command"
    /\ seen' = [seen EXCEPT ![at] = fd]
    /\ matches' = IF fd \in Matching THEN {at} ELSE matches
    /\ fd' = Nothing
    /\ Advance("visit")
    /\ UNCHANGED <<cmd, at, unread, todo, served, named, listing, world>>

\* auto_detect_device keeps the matching paths ...
InquiryAuto ==
    /\ pc = "inquiry" /\ fd # Silent
    /\ cmd.op = "command"
    /\ seen' = [seen EXCEPT ![at] = fd]
    /\ matches' = IF fd \in Matching THEN matches \union {at} ELSE matches
    /\ fd' = Nothing
    /\ Advance("visit")
    /\ UNCHANGED <<cmd, at, unread, todo, served, named, listing, world>>

\* ... and find goes on to list the ones it wants, with the file still open.
InquiryFind ==
    /\ pc = "inquiry" /\ fd # Silent
    /\ cmd.op = "find"
    /\ seen' = [seen EXCEPT ![at] = fd]
    /\ \/ /\ IsWanted(fd)
          /\ entries' = Append(entries, at)
          /\ asked' = 0
          /\ Advance(IF cmd.probe THEN "question" ELSE "line")
          /\ UNCHANGED fd
       \/ /\ ~IsWanted(fd)
          /\ fd' = Nothing
          /\ Advance("visit")
          /\ UNCHANGED <<entries, asked>>
    /\ UNCHANGED <<cmd, at, unread, todo, served, named, matches, printed,
                   world>>

-----------------------------------------------------------------------------
(* cmd_find_with_candidates: the line of one candidate, and the end. *)

QuestionReopens ==   \* mutant: the path is opened again for the questions
    /\ pc = "question" /\ asked < 3
    /\ asked' = asked + 1
    /\ \/ node[at] # Nothing /\ served' = served \union {node[at]}
       \/ UNCHANGED served
    /\ UNCHANGED <<cmd, pc, at, fd, err, named, search, entries, printed,
                   world>>

QuestionOnceMore ==   \* mutant: no end to the questions
    /\ pc = "question"
    /\ asked' = asked + 1
    /\ \/ fd # Silent /\ served' = served \union {fd}
       \/ UNCHANGED served
    /\ UNCHANGED <<cmd, pc, at, fd, err, named, search, entries, printed,
                   world>>

\* online_device, read_id, loader_version: no failure is reported, and under
\* some protocols a question is not sent.
Question ==
    /\ pc = "question" /\ asked < 3
    /\ asked' = asked + 1
    /\ \/ fd # Silent /\ served' = served \union {fd}
       \/ UNCHANGED served
    /\ UNCHANGED <<cmd, pc, at, fd, err, named, search, entries, printed,
                   world>>

QuestionsDone ==
    /\ pc = "question" /\ asked = 3
    /\ Advance("line")
    /\ UNCHANGED <<cmd, at, fd, served, named, search, listing, world>>

\* Text is written line by line, and a line that fails ends the search.
\* JSON is only collected.
Line ==
    /\ pc = "line"
    /\ fd' = Nothing
    /\ \/ /\ cmd.json
          /\ Advance("visit")
          /\ UNCHANGED printed
       \/ /\ ~cmd.json
          /\ Advance("visit")
          /\ printed' = Append(printed, at)
       \/ /\ ~cmd.json
          /\ End("StdIo")
          /\ UNCHANGED printed
    /\ UNCHANGED <<cmd, at, served, named, search, asked, entries, world>>

FindDone ==
    /\ pc = "visit" /\ todo = {}
    /\ cmd.op = "find"
    /\ \/ End(NoError) /\ printed' = entries
       \/ /\ cmd.json \/ entries = << >>
          /\ End("StdIo")
          /\ UNCHANGED printed
    /\ UNCHANGED <<cmd, at, fd, served, named, search, asked, entries, world>>

-----------------------------------------------------------------------------
(* resolve_auto_detect_matches *)

SelectFirst ==   \* mutant: the first match is taken, however many there are
    /\ pc = "visit" /\ todo = {}
    /\ cmd.op = "command"
    /\ \/ /\ at' \in matches
          /\ \A m \in matches : at' <= m
          /\ Advance("open")
       \/ matches = {} /\ End("NotFound") /\ UNCHANGED at
    /\ UNCHANGED <<cmd, fd, served, named, search, listing, world>>

Select ==
    /\ pc = "visit" /\ todo = {}
    /\ cmd.op = "command"
    /\ \/ \E n \in matches : matches = {n} /\ at' = n /\ Advance("open")
       \/ Cardinality(matches) # 1 /\ End("NotFound") /\ UNCHANGED at
    /\ UNCHANGED <<cmd, fd, served, named, search, listing, world>>

-----------------------------------------------------------------------------
(* resolve_selector_to_sg_path_with_roots: each look at /dev and /sys is   *)
(* made by name, and finds what is there at that moment.                   *)

Resolving(stage) ==
    /\ pc = stage
    /\ UNCHANGED <<cmd, fd, served, named, search, listing, world>>

CheckExists ==
    /\ Resolving("exists")
    /\ IF Behind(at) = Nothing THEN End("NotFound") ELSE Advance("canonical")
    /\ UNCHANGED at

\* A link that leads nowhere by now stays what it is.
Canonicalize ==
    /\ Resolving("canonical")
    /\ \/ at \in Nodes /\ UNCHANGED at
       \/ at \in Devices /\ at' \in NodesOf(at, SdNodes)
       \/ at \in Devices /\ ~HasDisk(at) /\ UNCHANGED at
    /\ Advance(IF at' \in SgNodes THEN "open" ELSE "sysblock")

\* Without an entry under /sys/class/block the path is used as it is.
CheckSysBlock ==
    /\ Resolving("sysblock")
    /\ Advance(IF at \in SdNodes /\ node[at] # Nothing THEN "generic"
                                                       ELSE "open")
    /\ UNCHANGED at

\* mutant: all of /sys/class/scsi_generic
GenericNodesAll(x) == { n \in SgNodes : node[n] # Nothing }

\* The sg names in /sys/class/block/<x>/device/scsi_generic.
GenericNodes(x) ==
    IF node[x] = Nothing THEN {} ELSE NodesOf(node[x], SgNodes)

CheckGenericDir ==
    /\ Resolving("generic")
    /\ IF GenericNodes(at) = {} THEN End("TransportOther")
                                ELSE Advance("readdir")
    /\ UNCHANGED at

ReadGenericDir ==
    /\ Resolving("readdir")
    /\ \/ \E n \in GenericNodes(at) :
             GenericNodes(at) = {n} /\ at' = n /\ Advance("open")
       \/ /\ Cardinality(GenericNodes(at)) # 1
          /\ End("TransportOther")
          /\ UNCHANGED at
       \/ End("TransportIo") /\ UNCHANGED at

-----------------------------------------------------------------------------
(* open_device, and one vendor command on behalf of the rest of the        *)
(* handler.                                                                *)

OpenPath ==
    /\ pc = "open"
    /\ \/ /\ Behind(at) # Nothing
          /\ fd' = Behind(at)
          /\ Advance("command")
       \/ /\ Behind(at) = Nothing
          /\ End("NotFound")
          /\ UNCHANGED fd
       \/ End("TransportIo") /\ UNCHANGED fd
    /\ UNCHANGED <<cmd, at, served, named, search, listing, world>>

Command ==
    /\ pc = "command"
    /\ \/ /\ fd # Silent
          /\ served' = served \union {fd}
          /\ \E e \in ExecErrors \union {NoError} : End(e)
       \/ /\ \E e \in ExecErrors : End(e)
          /\ UNCHANGED served
    /\ UNCHANGED <<cmd, at, fd, named, search, listing, world>>

Step ==
    \/ ScanFails \/ ScanNode \/ ScanDone
    \/ SkipCandidate \/ OpenCandidate
    \/ InquiryFails \/ InquiryAuto \/ InquiryFind
    \/ Question \/ QuestionsDone \/ Line \/ FindDone
    \/ Select
    \/ CheckExists \/ Canonicalize \/ CheckSysBlock \/ CheckGenericDir
    \/ ReadGenericDir
    \/ OpenPath \/ Command

Next == Step \/ Move

\* Every step of the program ends, an SG_IO by its timeout at the latest.
Spec == Init /\ [][Next]_vars
FairSpec == Spec /\ WF_vars(Step)

-----------------------------------------------------------------------------
(* Correctness. *)

ExitCode == ExitCodeFor(err)
Automatic == cmd.op = "command" /\ cmd.selector = AutoDetect
Explicit == cmd.selector # AutoDetect
Undisturbed == steady = Devices
Attached(d) == NodesOf(d, SgNodes) # {}

\* find lists in the order of the paths, only what answered as wanted, and
\* when it ends well nothing is missing: a device that stayed where it was and
\* answered is listed if and only if it is wanted, whatever happened to others.
ListIsAccurate ==
    cmd.op = "find" =>
        /\ \A i, j \in DOMAIN printed : i < j => printed[i] < printed[j]
        /\ \A i \in DOMAIN printed : IsWanted(seen[printed[i]])
        /\ pc = "exited" /\ ExitCode = OK =>
              \A d \in steady : \A n \in NodesOf(d, SgNodes) :
                  seen[n] # Silent =>
                      (IsWanted(d) <=> \E i \in DOMAIN printed : printed[i] = n)

\* find sends vendor commands only with --probe, and only to devices that
\* have just identified themselves as wanted: the questions go through the
\* file that was asked, so replugging cannot send them to another device.
ProbesOnlyWanted ==
    cmd.op = "find" => /\ \A d \in served : IsWanted(d)
                       /\ served # {} => cmd.probe

\* The path that auto-detection decided on is opened again by name.  What a
\* command then reaches is the one device that answered as a JieLi target,
\* provided that this device did not move in between.
CommandReachesTheChosen ==
    Automatic /\ served # {} =>
        /\ at \in SgNodes /\ seen[at] \in Matching
        /\ seen[at] \in steady => served = {seen[at]}
        /\ \A n \in SgNodes \ {at} : seen[n] \notin Matching

\* When every candidate answers and nothing is replugged, auto-detection is
\* right: with one target it never says that there is none or that there are
\* many, and with none or many no device is sent anything.
AutoDetectionDecides ==
    (/\ pc = "exited" /\ Automatic /\ Undisturbed
     /\ \A n \in SgNodes : seen[n] # Silent) =>
        IF Cardinality({ d \in Matching : Attached(d) }) = 1
        THEN ExitCode # DEVICE_NOT_FOUND
        ELSE ExitCode \in {DEVICE_NOT_FOUND, IO} /\ served = {}

\* An explicit selector - sg node, disk node or by-id link - leads to the
\* device it named at the start or to an error, as long as that device stays
\* attached, however the other devices' names change on the way.
SelectorIsFollowed ==
    Explicit /\ named \in steady => /\ served \subseteq {named}
                                   /\ ExitCode # DEVICE_NOT_FOUND

\* Whatever comes and goes, the search ends.
Terminates == <>(pc = "exited")

-----------------------------------------------------------------------------
(* A claim of the documentation the code does not meet. *)

\* USAGE.md: `Automatic detection requires a single unambiguous JieLi
\* download-mode target.'
TargetIsUnambiguous ==
    Automatic /\ Undisturbed /\ served # {} =>
        Cardinality({ d \in Matching : Attached(d) }) = 1
=============================================================================
