-------------------------- MODULE DiscoveryProofs ---------------------------
(***************************************************************************)
(* Safety properties of Discovery for any devices, nodes and command lines *)
(* and for any number of attachments and detachments.                      *)
(***************************************************************************)
EXTENDS Discovery, FiniteSetTheorems, SequenceTheorems, TLAPS

LEMMA CmdType ==
    ASSUME cmd \in Lines
    PROVE  /\ cmd.op \in {"find", "command"}
           /\ cmd.selector \in Selectors \union {AutoDetect}
           /\ cmd.op = "find" => cmd.selector = AutoDetect
<1>1. cmd \in [op : {"find", "command"},
               selector : Selectors \union {AutoDetect},
               probe : BOOLEAN, json : BOOLEAN, vendor : BOOLEAN]
    BY DiscoveryAssumption
<1>2. cmd.op = "find" => cmd.selector = AutoDetect
    BY DiscoveryAssumption
<1> QED
    BY <1>1, <1>2

\* Nodes, devices and the marks for neither are told apart.
LEMMA Distinct ==
    /\ Nodes \intersect Devices = {} /\ SgNodes \intersect SdNodes = {}
    /\ AutoDetect \notin Nodes /\ AutoDetect \notin Devices
    /\ Nothing \notin Devices /\ Silent \notin Devices /\ Nothing # Silent
    /\ Matching \subseteq Devices
BY DiscoveryAssumption DEF Selectors

\* No error of a vendor command is a missing device.
LEMMA ErrorTypes ==
    /\ {"TransportIo", "NotFound", "StdIo", "TransportOther", NoError}
          \subseteq ErrorKinds
    /\ ExecErrors \subseteq ErrorKinds
    /\ "NotFound" \notin ExecErrors \union {NoError}
BY DEF ErrorKinds, TransportErrors, ExecErrors, NoError

LEMMA BehindType ==
    ASSUME TypeOK, NEW p \in Selectors \union {AutoDetect}
    PROVE  Behind(p) \in Devices \union {Nothing}
BY DEF TypeOK, Behind, Selectors

-----------------------------------------------------------------------------
(* Types. *)

\* What is open, and where it came from, at each stage.
StageOK ==
    /\ pc \in {"scan", "visit", "inquiry", "question", "line"} =>
          cmd.selector = AutoDetect
    /\ pc \in {"inquiry", "question", "line"} =>
          at \in SgNodes /\ fd \in Devices \union {Silent}
    /\ pc \in {"generic", "readdir"} => at \in SdNodes
    /\ pc \in {"exists", "canonical", "sysblock"} =>
          Explicit /\ at \in Selectors
    /\ pc = "open" => at \in Selectors
    /\ pc = "command" => fd \in Devices \union {Silent}

TypeInv == TypeOK /\ StageOK

LEMMA TypeInit == Init => TypeInv
<1> SUFFICES ASSUME Init
             PROVE  TypeInv
    OBVIOUS
<1>1. cmd \in Lines /\ at \in Selectors \union {AutoDetect} /\ pc \in Stages
    BY CmdType DEF Init, Stages
<1>2. named \in Devices \union {Nothing}
    BY <1>1, CmdType DEF Init, Behind, Selectors
<1>3. err \in ErrorKinds /\ moves \in 0 .. MaxMoves
    BY DiscoveryAssumption, ErrorTypes DEF Init
<1>4. /\ entries \in Seq(SgNodes) /\ printed \in Seq(SgNodes)
      /\ seen \in [SgNodes -> Held] /\ fd \in Held
    BY DEF Init, Held
<1>5. TypeOK
    BY <1>1, <1>2, <1>3, <1>4 DEF Init, TypeOK
<1>6. StageOK
    BY <1>1 DEF Init, StageOK, Explicit
<1> QED
    BY <1>5, <1>6 DEF TypeInv

\* A device comes or goes.
LEMMA MoveType == ASSUME TypeInv, Move PROVE TypeInv'
<1> USE DEF TypeInv
<1>1. moves' \in 0 .. MaxMoves
    BY DiscoveryAssumption DEF TypeOK, Move
<1>2. CASE Attach
    BY <1>1, <1>2 DEF TypeOK, StageOK, Move, Attach, Explicit, search, listing
<1>3. CASE Detach
    <2>1. PICK n \in Nodes :
              /\ node[n] # Nothing
              /\ node' = [node EXCEPT ![n] = Nothing]
              /\ steady' = steady \ {node[n]}
              /\ fd' = IF fd = node[n] THEN Silent ELSE fd
        BY <1>3 DEF Detach
    <2>2. /\ node' \in [Nodes -> Devices \union {Nothing}]
          /\ steady' \subseteq Devices
        BY <2>1 DEF TypeOK
    <2>3. fd' \in Held /\ fd' \in {fd, Silent}
        BY <2>1 DEF TypeOK, Held
    <2> QED
        BY <1>1, <2>2, <2>3
           DEF TypeOK, StageOK, Move, Explicit, search, listing
<1> QED
    BY <1>2, <1>3 DEF Move

\* Scanning, asking and listing the candidates.
LEMMA SearchType ==
    ASSUME TypeInv,
           \/ ScanFails \/ ScanNode \/ ScanDone \/ SkipCandidate
           \/ OpenCandidate \/ InquiryFails \/ InquiryAuto
    PROVE  TypeInv'
<1> USE ErrorTypes
        DEF TypeInv, TypeOK, StageOK, Explicit, Stages, Advance, End, Held,
            search, listing, world
<1>1. CASE ScanFails
    BY <1>1 DEF ScanFails
<1>2. CASE ScanNode
    BY <1>2 DEF ScanNode
<1>3. CASE ScanDone
    BY <1>3 DEF ScanDone
<1>4. CASE SkipCandidate
    BY <1>4 DEF SkipCandidate, Selectors, Nodes
<1>5. CASE OpenCandidate
    <2>1. at' \in SgNodes /\ node[at'] \in Devices
        BY <1>5 DEF OpenCandidate, Nodes
    <2> QED
        BY <1>5, <2>1 DEF OpenCandidate, Selectors, Nodes
<1>6. CASE InquiryFails
    BY <1>6 DEF InquiryFails
<1>7. CASE InquiryAuto
    BY <1>7 DEF InquiryAuto
<1> QED
    BY <1>1, <1>2, <1>3, <1>4, <1>5, <1>6, <1>7

\* What find makes of an answer.
LEMMA FindType == ASSUME TypeInv, InquiryFind PROVE TypeInv'
<1>1. at \in SgNodes /\ fd \in Devices \union {Silent}
    BY DEF InquiryFind, TypeInv, StageOK
<1>2. /\ entries' \in Seq(SgNodes) /\ asked' \in 0 .. 3
      /\ \/ pc' \in {"question", "line"} /\ fd' = fd
         \/ pc' = "visit" /\ fd' = Nothing
      /\ err' = err
    <2>1. entries \in Seq(SgNodes) /\ asked \in 0 .. 3
        BY DEF TypeInv, TypeOK
    <2>2. CASE IsWanted(fd)
        BY <1>1, <2>1, <2>2 DEF InquiryFind, Advance
    <2>3. CASE ~IsWanted(fd)
        BY <2>1, <2>3 DEF InquiryFind, Advance
    <2> QED
        BY <2>2, <2>3
<1>3. seen' \in [SgNodes -> Held]
    BY <1>1 DEF InquiryFind, TypeInv, TypeOK, Held
<1>4. /\ UNCHANGED <<cmd, at, unread, todo, served, named, matches, printed,
                     node, moves, steady>>
      /\ cmd.selector = AutoDetect
    BY DEF InquiryFind, TypeInv, StageOK, world
<1>5. TypeOK'
    BY <1>1, <1>2, <1>3, <1>4 DEF TypeInv, TypeOK, Stages, Held
<1>6. StageOK'
    BY <1>1, <1>2, <1>4 DEF StageOK
<1> QED
    BY <1>5, <1>6 DEF TypeInv

\* The questions of find and its output, and the decision on one match.
LEMMA ListingType ==
    ASSUME TypeInv,
           Question \/ QuestionsDone \/ Line \/ FindDone \/ Select
    PROVE  TypeInv'
<1> USE ErrorTypes
        DEF TypeInv, TypeOK, StageOK, Explicit, Stages, Advance, End, Held,
            search, listing, world
<1>1. CASE Question
    <2>1. asked' \in 0 .. 3 /\ served' \subseteq Devices
        BY <1>1 DEF Question
    <2> QED
        BY <1>1, <2>1 DEF Question
<1>2. CASE QuestionsDone
    BY <1>2 DEF QuestionsDone
<1>3. CASE Line
    <2>1. printed' \in Seq(SgNodes)
        BY <1>3 DEF Line
    <2> QED
        BY <1>3, <2>1 DEF Line
<1>4. CASE FindDone
    BY <1>4 DEF FindDone
<1>5. CASE Select
    BY <1>5 DEF Select, Selectors, Nodes
<1> QED
    BY <1>1, <1>2, <1>3, <1>4, <1>5

\* Following an explicit selector, and the command itself.
LEMMA ResolveType ==
    ASSUME TypeInv,
           \/ CheckExists \/ Canonicalize \/ CheckSysBlock \/ CheckGenericDir
           \/ ReadGenericDir \/ OpenPath \/ Command
    PROVE  TypeInv'
<1> USE ErrorTypes
        DEF TypeInv, TypeOK, StageOK, Explicit, Stages, Advance, End, Held,
            Resolving, search, listing, world
<1>1. CASE CheckExists
    BY <1>1 DEF CheckExists
<1>2. CASE Canonicalize
    BY <1>2 DEF Canonicalize, NodesOf, Selectors, Nodes
<1>3. CASE CheckSysBlock
    BY <1>3 DEF CheckSysBlock
<1>4. CASE CheckGenericDir
    BY <1>4 DEF CheckGenericDir
<1>5. CASE ReadGenericDir
    BY <1>5 DEF ReadGenericDir, GenericNodes, NodesOf, Selectors, Nodes
<1>6. CASE OpenPath
    <2>1. Behind(at) \in Devices \union {Nothing}
        BY BehindType
    <2> QED
        BY <1>6, <2>1 DEF OpenPath
<1>7. CASE Command
    BY <1>7 DEF Command
<1> QED
    BY <1>1, <1>2, <1>3, <1>4, <1>5, <1>6, <1>7

LEMMA TypeStep == TypeInv /\ [Next]_vars => TypeInv'
<1> SUFFICES ASSUME TypeInv, [Next]_vars
             PROVE  TypeInv'
    OBVIOUS
<1>1. CASE Step
    BY <1>1, SearchType, FindType, ListingType, ResolveType DEF Step
<1>2. CASE Move
    BY <1>2, MoveType
<1>3. CASE UNCHANGED vars
    BY <1>3 DEF vars, TypeInv, TypeOK, StageOK, Explicit, search, listing, world
<1> QED
    BY <1>1, <1>2, <1>3 DEF Next

\* Every variable keeps its type.
THEOREM DiscoveryTypeCorrect == Spec => []TypeOK
<1>1. TypeInv => TypeOK
    BY DEF TypeInv
<1> QED
    BY <1>1, TypeInit, TypeStep, PTL DEF Spec

-----------------------------------------------------------------------------
(* Vendor commands of find. *)

FindOK ==
    cmd.op = "find" =>
        /\ pc \in {"scan", "visit", "inquiry", "question", "line", "exited"}
        /\ pc = "question" => cmd.probe /\ (fd = Silent \/ IsWanted(fd))
        /\ \A d \in served : IsWanted(d)
        /\ served # {} => cmd.probe

LEMMA FindInit == Init => FindOK
BY CmdType DEF Init, FindOK

LEMMA WantedFixed ==
    ASSUME cmd' = cmd, NEW d
    PROVE  IsWanted(d)' <=> IsWanted(d)
BY DEF IsWanted

LEMMA FindStep == FindOK /\ [Next]_vars => FindOK'
<1> SUFFICES ASSUME FindOK, [Next]_vars, cmd'.op = "find"
             PROVE  FindOK'
    BY DEF FindOK
<1> USE DEF FindOK, Advance, End, Resolving, search, listing, world
<1>1. CASE UNCHANGED vars
    <2>1. cmd' = cmd
        BY <1>1 DEF vars
    <2> QED
        BY <1>1, <2>1, WantedFixed DEF vars
<1>2. CASE Move
    <2>1. cmd' = cmd
        BY <1>2 DEF Move
    <2>2. fd' \in {fd, Silent} /\ UNCHANGED <<pc, served>>
        BY <1>2 DEF Move, Attach, Detach
    <2> QED
        BY <2>1, <2>2, WantedFixed
<1>3. CASE Question
    <2>1. cmd' = cmd
        BY <1>3 DEF Question
    <2> QED
        BY <1>3, <2>1, WantedFixed DEF Question
<1>4. CASE InquiryFind
    <2>1. cmd' = cmd
        BY <1>4 DEF InquiryFind
    <2> QED
        BY <1>4, <2>1, WantedFixed DEF InquiryFind
<1>5. CASE \/ ScanFails \/ ScanNode \/ ScanDone \/ SkipCandidate
           \/ OpenCandidate \/ InquiryFails \/ InquiryAuto
           \/ QuestionsDone \/ Line \/ FindDone
    <2>1. UNCHANGED <<cmd, served>> /\ pc' # "question"
             /\ pc' \in {"scan", "visit", "inquiry", "line", "exited"}
        BY <1>5 DEF ScanFails, ScanNode, ScanDone, SkipCandidate,
                    OpenCandidate, InquiryFails, InquiryAuto, QuestionsDone,
                    Line, FindDone
    <2> QED
        BY <2>1, WantedFixed
<1>6. CASE \/ Select \/ CheckExists \/ Canonicalize \/ CheckSysBlock
           \/ CheckGenericDir \/ ReadGenericDir \/ OpenPath \/ Command
    <2>1. cmd' = cmd
        BY <1>6 DEF Select, CheckExists, Canonicalize, CheckSysBlock,
                    CheckGenericDir, ReadGenericDir, OpenPath, Command
    <2>2. cmd.op = "command"
             \/ pc \in {"exists", "canonical", "sysblock", "generic",
                        "readdir", "open", "command"}
        BY <1>6 DEF Select, CheckExists, Canonicalize, CheckSysBlock,
                    CheckGenericDir, ReadGenericDir, OpenPath, Command
    <2> QED
        BY <2>1, <2>2
<1> QED
    BY <1>1, <1>2, <1>3, <1>4, <1>5, <1>6 DEF Next, Step

\* find hands a vendor command only to a device that identified itself as
\* wanted, and only with --probe.
THEOREM DiscoveryProbesOnlyWanted == Spec => []ProbesOnlyWanted
<1>1. FindOK => ProbesOnlyWanted
    BY DEF FindOK, ProbesOnlyWanted
<1> QED
    BY <1>1, FindInit, FindStep, PTL DEF Spec

-----------------------------------------------------------------------------
(* An explicit selector. *)

\* Whatever the invocation knows its device by leads to the one that was
\* named, for as long as that one stays.
SelectorOK ==
    Explicit =>
        /\ pc \in {"exists", "canonical", "sysblock", "generic", "readdir",
                   "open", "command", "exited"}
        /\ named \in steady =>
              /\ pc \notin {"command", "exited"} => Behind(at) = named
              /\ pc = "command" => fd = named
              /\ err # "NotFound"
              /\ served \subseteq {named}

SelectorInv == TypeInv /\ SelectorOK

LEMMA SelectorInit == Init => SelectorInv
<1> SUFFICES ASSUME Init
             PROVE  SelectorOK
    BY TypeInit DEF SelectorInv
<1> QED
    BY DEF Init, SelectorOK, Explicit, NoError

\* A path goes on leading to a device that does not move.
LEMMA BehindSteady ==
    ASSUME TypeInv, Move, named \in steady', Behind(at) = named,
           at \in Selectors
    PROVE  Behind(at)' = named
<1>1. named \in Devices /\ named # Nothing
    BY Distinct DEF TypeInv, TypeOK, Move, Attach, Detach
<1>2. \A m \in Nodes : node[m] = named => node'[m] = named
    <2>1. CASE Attach
        BY <1>1, <2>1 DEF Attach, TypeInv, TypeOK
    <2>2. CASE Detach
        BY <1>1, <2>2 DEF Detach, TypeInv, TypeOK
    <2> QED
        BY <2>1, <2>2 DEF Move
<1>3. at' = at
    BY DEF Move
<1>4. CASE at \in Nodes
    BY <1>2, <1>3, <1>4, Distinct DEF Behind
<1>5. CASE at \notin Nodes
    <2>1. at \in Devices /\ HasDisk(at) /\ named = at
        BY <1>1, <1>5 DEF Behind
    <2>2. HasDisk(at)'
        BY <1>2, <1>3, <2>1 DEF HasDisk, NodesOf, Nodes
    <2> QED
        BY <1>3, <1>5, <2>1, <2>2 DEF Behind
<1> QED
    BY <1>4, <1>5

LEMMA SelectorMove ==
    ASSUME SelectorInv, Move
    PROVE  SelectorOK'
<1> SUFFICES ASSUME Explicit', (named \in steady)'
             PROVE  SelectorOK'
    BY DEF SelectorInv, SelectorOK, Explicit, Move
<1>1. UNCHANGED <<cmd, pc, at, err, served, named>>
    BY DEF Move
<1>2. Explicit /\ named \in steady /\ named \in Devices
    BY <1>1 DEF Explicit, Move, Attach, Detach, SelectorInv, TypeInv, TypeOK
<1>3. pc \in {"exists", "canonical", "sysblock", "generic", "readdir", "open"}
         => at \in Selectors
    BY DEF SelectorInv, TypeInv, StageOK, Selectors, Nodes
<1>4. pc \notin {"command", "exited"} => Behind(at)' = named
    BY <1>1, <1>2, <1>3, BehindSteady DEF SelectorInv, SelectorOK
<1>5. pc = "command" => fd' = named
    BY <1>1, <1>2, Distinct
       DEF Move, Attach, Detach, SelectorInv, SelectorOK, TypeInv, TypeOK
<1> QED
    BY <1>1, <1>2, <1>4, <1>5 DEF SelectorInv, SelectorOK

\* The looks at /dev and /sys, the open and the command.
LEMMA SelectorResolve ==
    ASSUME SelectorInv,
           \/ CheckExists \/ Canonicalize \/ CheckSysBlock \/ CheckGenericDir
           \/ ReadGenericDir \/ OpenPath \/ Command
    PROVE  SelectorOK'
<1> SUFFICES ASSUME Explicit', (named \in steady)'
             PROVE  SelectorOK'
    <2>1. pc' \in {"exists", "canonical", "sysblock", "generic", "readdir",
                   "open", "command", "exited"}
        BY DEF CheckExists, Canonicalize, CheckSysBlock, CheckGenericDir,
               ReadGenericDir, OpenPath, Command, Advance, End
    <2> QED
        BY <2>1 DEF SelectorOK
<1>1. UNCHANGED <<cmd, named, node, steady>>
    BY DEF CheckExists, Canonicalize, CheckSysBlock, CheckGenericDir,
           ReadGenericDir, OpenPath, Command, Resolving, world
<1>2. /\ Explicit /\ named \in steady
      /\ named \in Devices /\ named # Nothing /\ named # Silent
      /\ pc \notin {"command", "exited"} => Behind(at) = named
      /\ err # "NotFound" /\ served \subseteq {named}
    BY <1>1, Distinct
       DEF Explicit, SelectorInv, SelectorOK, TypeInv, TypeOK
<1>3. ASSUME at' = at
      PROVE  Behind(at)' = Behind(at)
    BY <1>1, <1>3 DEF Behind, HasDisk, NodesOf
<1> USE DEF Advance, End, Resolving
<1>4. CASE CheckExists
    BY <1>1, <1>2, <1>3, <1>4 DEF CheckExists, SelectorOK
<1>5. CASE Canonicalize
    <2>1. CASE at' = at
        BY <1>1, <1>2, <1>3, <1>5, <2>1 DEF Canonicalize, SelectorOK
    <2>2. CASE at \in Devices /\ at' \in NodesOf(at, SdNodes)
        <3>1. at \notin Nodes
            BY <2>2, Distinct
        <3>2. named = at
            BY <1>2, <1>5, <2>2, <3>1 DEF Behind, Canonicalize
        <3>3. at' \in Nodes /\ node'[at'] = named
            BY <1>1, <2>2, <3>2 DEF NodesOf, Nodes
        <3>4. Behind(at)' = named
            BY <3>3, Distinct DEF Behind
        <3> QED
            BY <1>1, <1>2, <1>5, <3>4 DEF Canonicalize, SelectorOK
    <2> QED
        BY <1>5, <2>1, <2>2 DEF Canonicalize
<1>6. CASE CheckSysBlock
    BY <1>1, <1>2, <1>3, <1>6 DEF CheckSysBlock, SelectorOK
<1>7. CASE CheckGenericDir
    BY <1>1, <1>2, <1>3, <1>7 DEF CheckGenericDir, SelectorOK
<1>8. CASE ReadGenericDir
    <2>1. CASE at' = at
        BY <1>1, <1>2, <1>3, <1>8, <2>1 DEF ReadGenericDir, SelectorOK
    <2>2. CASE at' \in GenericNodes(at) /\ pc' = "open" /\ UNCHANGED err
        <3>1. at \in SdNodes /\ at \in Nodes
            BY <1>8 DEF ReadGenericDir, SelectorInv, TypeInv, StageOK, Nodes
        <3>2. node[at] = named
            BY <1>2, <1>8, <3>1, Distinct DEF Behind, ReadGenericDir
        <3>3. at' \in Nodes /\ node'[at'] = named
            BY <1>1, <1>2, <2>2, <3>2 DEF GenericNodes, NodesOf, Nodes
        <3>4. Behind(at)' = named
            BY <3>3, Distinct DEF Behind
        <3> QED
            BY <1>1, <1>2, <1>8, <2>2, <3>4 DEF ReadGenericDir, SelectorOK
    <2> QED
        BY <1>8, <2>1, <2>2 DEF ReadGenericDir
<1>9. CASE OpenPath
    BY <1>1, <1>2, <1>9 DEF OpenPath, SelectorOK
<1>10. CASE Command
    <2>1. fd = named
        BY <1>2, <1>10 DEF Command, SelectorInv, SelectorOK
    <2> QED
        BY <1>1, <1>2, <1>10, <2>1, ErrorTypes DEF Command, SelectorOK
<1> QED
    BY <1>4, <1>5, <1>6, <1>7, <1>8, <1>9, <1>10

LEMMA SelectorStep == SelectorInv /\ [Next]_vars => SelectorInv'
<1> SUFFICES ASSUME SelectorInv, [Next]_vars
             PROVE  SelectorOK'
    BY TypeStep DEF SelectorInv
<1>1. CASE UNCHANGED vars
    <2>1. UNCHANGED <<cmd, pc, at, fd, err, served, named, node, steady>>
        BY <1>1 DEF vars, world
    <2>2. Behind(at)' = Behind(at)
        BY <2>1 DEF Behind, HasDisk, NodesOf
    <2> QED
        BY <2>1, <2>2 DEF SelectorInv, SelectorOK, Explicit
<1>2. CASE Move
    BY <1>2, SelectorMove
<1>3. CASE \/ CheckExists \/ Canonicalize \/ CheckSysBlock \/ CheckGenericDir
           \/ ReadGenericDir \/ OpenPath \/ Command
    BY <1>3, SelectorResolve
<1>4. CASE \/ ScanFails \/ ScanNode \/ ScanDone \/ SkipCandidate
           \/ OpenCandidate \/ InquiryFails \/ InquiryAuto \/ InquiryFind
           \/ Question \/ QuestionsDone \/ Line \/ FindDone \/ Select
    <2>1. pc \in {"scan", "visit", "inquiry", "question", "line"}
             /\ cmd' = cmd
        BY <1>4 DEF ScanFails, ScanNode, ScanDone, SkipCandidate,
                    OpenCandidate, InquiryFails, InquiryAuto, InquiryFind,
                    Question, QuestionsDone, Line, FindDone, Select
    <2> QED
        BY <2>1 DEF SelectorInv, SelectorOK, TypeInv, StageOK, Explicit
<1> QED
    BY <1>1, <1>2, <1>3, <1>4 DEF Next, Step

LEMMA NotFoundCode ==
    ASSUME err \in ErrorKinds, err # "NotFound"
    PROVE  ExitCode # DEVICE_NOT_FOUND
BY DEF ExitCode, ExitCodeFor, ErrorKinds, TransportErrors, ProtocolErrors,
       NoError, OK, USAGE, KILLED, IO, DEVICE_NOT_FOUND, TRANSPORT, CLI,
       PROTOCOL

\* An explicit selector leads to the device it named at the start or to an
\* error, as long as that device stays attached.
THEOREM DiscoveryFollowsTheSelector == Spec => []SelectorIsFollowed
<1>1. SelectorInv => SelectorIsFollowed
    <2> SUFFICES ASSUME SelectorInv, Explicit, named \in steady
                 PROVE  served \subseteq {named} /\ ExitCode # DEVICE_NOT_FOUND
        BY DEF SelectorIsFollowed
    <2> QED
        BY NotFoundCode DEF SelectorInv, SelectorOK, TypeInv, TypeOK
<1> QED
    BY <1>1, SelectorInit, SelectorStep, PTL DEF Spec

-----------------------------------------------------------------------------
(* Auto-detection. *)

\* What each answer says of the candidates, and how long it stays true.
ChosenOK ==
    Automatic =>
        /\ pc \in {"scan", "visit", "inquiry", "open", "command", "exited"}
        /\ matches = { n \in SgNodes : seen[n] \in Matching }
        /\ pc = "scan" => \A n \in SgNodes : seen[n] = Nothing
        /\ \A n \in todo : seen[n] = Nothing
        /\ \A n \in SgNodes : seen[n] \in steady => node[n] = seen[n]
        /\ pc = "inquiry" => /\ at \notin todo /\ seen[at] = Nothing
                             /\ fd \in steady => node[at] = fd
        /\ pc \in {"open", "command"} => matches = {at}
        /\ pc = "command" => (seen[at] \in steady => fd = seen[at])
        /\ served # {} => /\ pc = "exited" /\ matches = {at}
                          /\ seen[at] \in steady => served = {seen[at]}

ChosenInv == TypeInv /\ ChosenOK

LEMMA ChosenInit == Init => ChosenInv
<1> SUFFICES ASSUME Init
             PROVE  ChosenOK
    BY TypeInit DEF ChosenInv
<1> QED
    BY Distinct DEF Init, ChosenOK, Automatic

\* The device behind a node moves, or stays steady with it.
LEMMA SteadyStays ==
    ASSUME TypeInv, Move
    PROVE  /\ steady' \subseteq steady
           /\ \A m \in Nodes : node[m] \in steady' => node'[m] = node[m]
           /\ fd' \in {fd, Silent} /\ (fd \in steady' => fd' = fd)
<1>1. CASE Attach
    BY <1>1, Distinct DEF Attach, TypeInv, TypeOK
<1>2. CASE Detach
    BY <1>2, Distinct DEF Detach, TypeInv, TypeOK
<1> QED
    BY <1>1, <1>2 DEF Move

LEMMA ChosenMove == ASSUME ChosenInv, Move PROVE ChosenOK'
<1> SUFFICES ASSUME Automatic'
             PROVE  ChosenOK'
    BY DEF ChosenOK
<1>1. UNCHANGED <<cmd, pc, at, served, matches, todo, seen>> /\ pc # "exited"
    BY DEF Move, search
<1>2. Automatic /\ served = {} /\ Silent \notin steady
    BY <1>1, Distinct DEF Automatic, ChosenInv, ChosenOK, TypeInv, TypeOK
<1>3. \A n \in SgNodes : seen[n] \in steady' => node'[n] = seen[n]
    BY <1>2, SteadyStays DEF ChosenInv, ChosenOK, Nodes
<1>4. pc = "inquiry" => /\ at \notin todo /\ seen[at] = Nothing
                        /\ fd' \in steady' => node'[at] = fd'
    <2> SUFFICES ASSUME pc = "inquiry"
                 PROVE  /\ at \notin todo /\ seen[at] = Nothing
                        /\ fd' \in steady' => node'[at] = fd'
        OBVIOUS
    <2>1. at \in Nodes /\ fd' \in {fd, Silent}
        BY SteadyStays DEF ChosenInv, TypeInv, StageOK, Nodes
    <2> QED
        BY <1>2, <2>1, SteadyStays DEF ChosenInv, ChosenOK
<1>5. pc = "command" => (seen[at] \in steady' => fd' = seen[at])
    BY <1>2, SteadyStays DEF ChosenInv, ChosenOK
<1> QED
    BY <1>1, <1>2, <1>3, <1>4, <1>5 DEF ChosenInv, ChosenOK

LEMMA ChosenSearch ==
    ASSUME ChosenInv, Automatic,
           \/ ScanFails \/ ScanNode \/ ScanDone \/ SkipCandidate
           \/ OpenCandidate \/ InquiryFails \/ InquiryAuto
    PROVE  ChosenOK'
<1> USE Distinct DEF ChosenInv, ChosenOK, Automatic, Advance, End, search,
                     listing, world
<1>1. CASE ScanFails
    BY <1>1 DEF ScanFails
<1>2. CASE ScanNode
    BY <1>2 DEF ScanNode, TypeInv, TypeOK
<1>3. CASE ScanDone
    BY <1>3 DEF ScanDone
<1>4. CASE SkipCandidate
    BY <1>4 DEF SkipCandidate, TypeInv, TypeOK
<1>5. CASE OpenCandidate
    BY <1>5 DEF OpenCandidate, TypeInv, TypeOK
<1>6. CASE InquiryFails
    BY <1>6 DEF InquiryFails, TypeInv, TypeOK, StageOK
<1>7. CASE InquiryAuto
    BY <1>7 DEF InquiryAuto, TypeInv, TypeOK, StageOK
<1> QED
    BY <1>1, <1>2, <1>3, <1>4, <1>5, <1>6, <1>7

\* From the decision to the command.
LEMMA ChosenCommand ==
    ASSUME ChosenInv, Automatic, Select \/ OpenPath \/ Command
    PROVE  ChosenOK'
<1> USE Distinct DEF ChosenInv, ChosenOK, Automatic, Advance, End, search,
                     listing, world
<1>1. CASE Select
    BY <1>1 DEF Select
<1>2. CASE OpenPath
    <2>1. pc = "open" /\ at \in SgNodes
        BY <1>2 DEF OpenPath
    <2>2. Behind(at) = node[at]
        BY <2>1 DEF Behind, Nodes
    <2> QED
        BY <1>2, <2>1, <2>2 DEF OpenPath
<1>3. CASE Command
    BY <1>3 DEF Command
<1> QED
    BY <1>1, <1>2, <1>3

LEMMA ChosenStep == ChosenInv /\ [Next]_vars => ChosenInv'
<1> SUFFICES ASSUME ChosenInv, [Next]_vars, Automatic'
             PROVE  ChosenOK'
    BY TypeStep DEF ChosenInv, ChosenOK
<1>1. CASE UNCHANGED vars
    BY <1>1 DEF vars, search, world, ChosenInv, ChosenOK, Automatic
<1>2. CASE Move
    BY <1>2, ChosenMove
<1>3. CASE \/ ScanFails \/ ScanNode \/ ScanDone \/ SkipCandidate
           \/ OpenCandidate \/ InquiryFails \/ InquiryAuto
    <2>1. Automatic
        BY <1>3 DEF ScanFails, ScanNode, ScanDone, SkipCandidate,
                    OpenCandidate, InquiryFails, InquiryAuto, Automatic
    <2> QED
        BY <1>3, <2>1, ChosenSearch
<1>4. CASE Select \/ OpenPath \/ Command
    <2>1. Automatic
        BY <1>4 DEF Select, OpenPath, Command, Automatic
    <2> QED
        BY <1>4, <2>1, ChosenCommand
<1>5. CASE \/ InquiryFind \/ Question \/ QuestionsDone \/ Line \/ FindDone
    <2>1. cmd' = cmd
             /\ (cmd.op = "find" \/ pc \in {"question", "line"})
        BY <1>5 DEF InquiryFind, Question, QuestionsDone, Line, FindDone
    <2> QED
        BY <2>1 DEF ChosenInv, ChosenOK, Automatic
<1>6. CASE \/ CheckExists \/ Canonicalize \/ CheckSysBlock \/ CheckGenericDir
           \/ ReadGenericDir
    <2>1. cmd' = cmd
             /\ pc \in {"exists", "canonical", "sysblock", "generic", "readdir"}
        BY <1>6 DEF CheckExists, Canonicalize, CheckSysBlock, CheckGenericDir,
                    ReadGenericDir, Resolving
    <2> QED
        BY <2>1 DEF ChosenInv, ChosenOK, Automatic
<1> QED
    BY <1>1, <1>2, <1>3, <1>4, <1>5, <1>6 DEF Next, Step

\* After auto-detection a command reaches the one device that answered as a
\* JieLi target, provided that this device did not move in between.
THEOREM DiscoveryReachesTheChosen == Spec => []CommandReachesTheChosen
<1>1. ChosenInv => CommandReachesTheChosen
    BY DEF ChosenInv, ChosenOK, CommandReachesTheChosen
<1> QED
    BY <1>1, ChosenInit, ChosenStep, PTL DEF Spec

-----------------------------------------------------------------------------
(* What a search knows of the devices that stay where they are. *)

\* An answer stands for as long as the device behind the node is steady, and
\* a steady device without an answer is still to be asked.
Current ==
    /\ \A n \in SgNodes :
          node[n] \in steady => seen[n] \in {Nothing, Silent, node[n]}
    /\ \A n \in SgNodes :
          node[n] \in steady /\ seen[n] = Nothing =>
              n \in unread \union todo \/ (pc = "inquiry" /\ n = at)
    /\ pc = "inquiry" /\ node[at] \in steady => fd \in {node[at], Silent}
    /\ pc \in {"visit", "inquiry", "question", "line"} => unread = {}

CurrentInv == TypeInv /\ Current

LEMMA CurrentInit == Init => CurrentInv
<1> SUFFICES ASSUME Init
             PROVE  Current
    BY TypeInit DEF CurrentInv
<1> QED
    BY DEF Init, Current

\* Where a steady device is found after a move, it was before.
LEMMA SteadyBefore ==
    ASSUME TypeInv, Move, NEW n \in SgNodes, node'[n] \in steady'
    PROVE  node[n] = node'[n] /\ node[n] \in steady
<1>1. n \in Nodes
    BY DEF Nodes
<1>2. CASE Attach
    BY <1>1, <1>2, Distinct DEF Attach, TypeInv, TypeOK
<1>3. CASE Detach
    BY <1>1, <1>3, Distinct DEF Detach, TypeInv, TypeOK
<1> QED
    BY <1>2, <1>3 DEF Move

LEMMA CurrentMove == ASSUME CurrentInv, Move PROVE Current'
<1>1. UNCHANGED <<pc, at, unread, todo, seen>> /\ fd' \in {fd, Silent}
    BY SteadyStays DEF CurrentInv, Move, search
<1>2. pc = "inquiry" => at \in SgNodes
    BY DEF CurrentInv, TypeInv, StageOK
<1> QED
    BY <1>1, <1>2, SteadyBefore DEF CurrentInv, Current

\* The steps that give a candidate its answer, or find one.
LEMMA CurrentSearch ==
    ASSUME CurrentInv,
           \/ ScanNode \/ ScanDone \/ SkipCandidate
           \/ OpenCandidate \/ InquiryFails \/ InquiryAuto \/ InquiryFind
    PROVE  Current'
<1> USE Distinct DEF CurrentInv, Current, Advance, End, search, listing,
                     world, TypeInv, TypeOK, StageOK
<1>1. CASE ScanNode
    BY <1>1 DEF ScanNode
<1>2. CASE ScanDone
    BY <1>2 DEF ScanDone
<1>3. CASE SkipCandidate
    BY <1>3 DEF SkipCandidate
<1>4. CASE OpenCandidate
    BY <1>4 DEF OpenCandidate
<1>5. CASE InquiryFails
    BY <1>5 DEF InquiryFails
<1>6. CASE InquiryAuto
    BY <1>6 DEF InquiryAuto
<1>7. CASE InquiryFind
    <2>1. /\ UNCHANGED <<cmd, at, unread, todo, node, steady>>
          /\ pc = "inquiry" /\ pc' # "inquiry" /\ fd # Silent
          /\ seen' = [seen EXCEPT ![at] = fd]
        BY <1>7 DEF InquiryFind
    <2> QED
        BY <2>1
<1> QED
    BY <1>1, <1>2, <1>3, <1>4, <1>5, <1>6, <1>7

LEMMA CurrentStep == CurrentInv /\ [Next]_vars => CurrentInv'
<1> SUFFICES ASSUME CurrentInv, [Next]_vars
             PROVE  Current'
    BY TypeStep DEF CurrentInv
<1>1. CASE UNCHANGED vars
    BY <1>1 DEF vars, search, world, CurrentInv, Current
<1>2. CASE Move
    BY <1>2, CurrentMove
<1>3. CASE \/ ScanNode \/ ScanDone \/ SkipCandidate
           \/ OpenCandidate \/ InquiryFails \/ InquiryAuto \/ InquiryFind
    BY <1>3, CurrentSearch
<1>4. CASE \/ ScanFails \/ Question \/ QuestionsDone \/ Line \/ FindDone
           \/ Select \/ CheckExists \/ Canonicalize \/ CheckSysBlock
           \/ CheckGenericDir \/ ReadGenericDir \/ OpenPath \/ Command
    <2>1. /\ UNCHANGED <<unread, todo, seen, node, steady>>
          /\ pc # "inquiry" /\ pc' # "inquiry"
          /\ pc' \in {"visit", "question", "line"}
                => pc \in {"visit", "question", "line"}
        BY <1>4 DEF ScanFails, Question, QuestionsDone, Line, FindDone, Select,
                    CheckExists, Canonicalize, CheckSysBlock, CheckGenericDir,
                    ReadGenericDir, OpenPath, Command, Resolving, Advance, End,
                    search, world
    <2> QED
        BY <2>1 DEF CurrentInv, Current
<1> QED
    BY <1>1, <1>2, <1>3, <1>4 DEF Next, Step

-----------------------------------------------------------------------------
(* The list of find. *)

Increasing(s) == \A i, j \in DOMAIN s : i < j => s[i] < s[j]
Listed(n) == \E i \in DOMAIN entries : entries[i] = n

\* The list grows in the order of the paths ...
InOrder ==
    /\ pc = "scan" => entries = << >>
    /\ Increasing(entries)
    /\ \A i \in DOMAIN entries : \A n \in todo : entries[i] < n
    /\ pc = "inquiry" => /\ \A i \in DOMAIN entries : entries[i] < at
                         /\ \A n \in todo : at < n

\* ... it is what answered as wanted ...
AllWanted == \A n \in SgNodes : IsWanted(seen[n]) <=> Listed(n)

\* ... and what is printed of it is a beginning of it, at the end all of it.
Printed ==
    /\ cmd.json /\ pc # "exited" => printed = << >>
    /\ ~cmd.json /\ pc \in {"scan", "visit", "inquiry"} => printed = entries
    /\ ~cmd.json /\ pc \in {"question", "line"}
          => entries = Append(printed, at)
    /\ pc = "exited" =>
          /\ printed \in {<< >>, entries} \/ entries = Append(printed, at)
          /\ err = NoError => printed = entries /\ unread = {} /\ todo = {}

ListOK ==
    cmd.op = "find" =>
        /\ pc \in {"scan", "visit", "inquiry", "question", "line", "exited"}
        /\ InOrder /\ AllWanted /\ Printed

ListInv == TypeInv /\ Current /\ ListOK

LEMMA AppendCells ==
    ASSUME NEW s \in Seq(SgNodes), NEW n \in SgNodes
    PROVE  /\ DOMAIN s \subseteq DOMAIN Append(s, n) /\ DOMAIN s \subseteq Nat
           /\ DOMAIN Append(s, n) = DOMAIN s \union {Len(s) + 1}
           /\ Len(s) + 1 \notin DOMAIN s
           /\ \A i \in DOMAIN s : /\ s[i] \in SgNodes /\ i < Len(s) + 1
                                  /\ Append(s, n)[i] = s[i]
           /\ Append(s, n)[Len(s) + 1] = n
<1>1. Len(s) \in Nat /\ DOMAIN s = 1 .. Len(s)
    BY LenProperties
<1>2. /\ Append(s, n) \in Seq(SgNodes)
      /\ Len(Append(s, n)) = Len(s) + 1
      /\ \A i \in 1 .. Len(s) : Append(s, n)[i] = s[i]
      /\ Append(s, n)[Len(s) + 1] = n
    BY <1>1
<1>3. DOMAIN Append(s, n) = 1 .. Len(s) + 1
    BY <1>2, LenProperties
<1>4. \A i \in 1 .. Len(s) : s[i] \in SgNodes
    BY ElementOfSeq
<1> QED
    BY <1>1, <1>2, <1>3, <1>4

LEMMA AppendIncreasing ==
    ASSUME NEW s \in Seq(SgNodes), NEW n \in SgNodes, Increasing(s),
           \A i \in DOMAIN s : s[i] < n
    PROVE  Increasing(Append(s, n))
<1>1. SgNodes \subseteq Nat
    BY DiscoveryAssumption
<1>2. Len(s) \in Nat
    OBVIOUS
<1> QED
    BY <1>1, <1>2, AppendCells DEF Increasing

LEMMA BeginningIncreases ==
    ASSUME NEW s \in Seq(SgNodes), NEW n \in SgNodes,
           Increasing(Append(s, n))
    PROVE  Increasing(s)
BY AppendCells DEF Increasing

LEMMA NoPathListed == ASSUME entries = << >>, NEW n PROVE ~Listed(n)
BY DEF Listed

LEMMA ListInit == Init => ListInv
<1> SUFFICES ASSUME Init
             PROVE  ListOK
    BY CurrentInit DEF ListInv, CurrentInv
<1>1. pc = "scan" \/ cmd.op # "find"
    BY CmdType DEF Init
<1>2. InOrder
    BY <1>1 DEF Init, InOrder, Increasing
<1>3. AllWanted
    BY Distinct DEF Init, AllWanted, Listed, IsWanted
<1>4. Printed
    BY DEF Init, Printed
<1> QED
    BY <1>1, <1>2, <1>3, <1>4 DEF ListOK

LEMMA SameListed ==
    ASSUME entries' = entries, NEW n
    PROVE  Listed(n)' <=> Listed(n)
BY DEF Listed

\* Nothing is known of a candidate and nothing listed: the answers stay.
LEMMA SameAnswers ==
    ASSUME AllWanted, UNCHANGED <<cmd, seen, entries>>
    PROVE  AllWanted'
BY SameListed DEF AllWanted, IsWanted

\* No answer, no entry.
LEMMA SilentAnswer ==
    ASSUME TypeInv, AllWanted, NEW n \in SgNodes,
           \A i \in DOMAIN entries : entries[i] < n,
           UNCHANGED <<cmd, entries>>, seen' = [seen EXCEPT ![n] = Silent]
    PROVE  AllWanted'
<1>1. ~Listed(n)
    BY DiscoveryAssumption DEF Listed
<1>2. seen \in [SgNodes -> Held] /\ ~IsWanted(Silent)'
    BY Distinct DEF TypeInv, TypeOK, IsWanted
<1> QED
    BY <1>1, <1>2, SameListed DEF AllWanted, IsWanted

LEMMA ListMove == ASSUME ListInv, Move, cmd.op = "find" PROVE ListOK'
<1>1. UNCHANGED <<cmd, pc, at, err, unread, todo, seen, entries, printed>>
    BY DEF Move, search, listing
<1>2. InOrder' /\ Printed'
    BY <1>1 DEF ListInv, ListOK, InOrder, Printed, Increasing
<1>3. AllWanted'
    BY <1>1, SameAnswers DEF ListInv, ListOK
<1> QED
    BY <1>1, <1>2, <1>3 DEF ListInv, ListOK

LEMMA ListScan ==
    ASSUME ListInv, cmd.op = "find", ScanFails \/ ScanNode \/ ScanDone
    PROVE  ListOK'
<1>1. /\ UNCHANGED <<cmd, at, seen, entries, printed>> /\ pc = "scan"
      /\ entries = << >>
      /\ \/ pc' = "exited" /\ err' # NoError
         \/ pc' \in {"scan", "visit"}
    BY DEF ScanFails, ScanNode, ScanDone, Advance, End, search, listing,
           ListInv, ListOK, InOrder, NoError
<1>2. printed = << >>
    BY <1>1 DEF ListInv, ListOK, Printed
<1>3. InOrder' /\ Printed'
    BY <1>1, <1>2 DEF InOrder, Printed, Increasing
<1>4. AllWanted'
    BY <1>1, SameAnswers DEF ListInv, ListOK
<1> QED
    BY <1>1, <1>3, <1>4 DEF ListOK

\* A candidate that is opened or passed over.
LEMMA ListVisit ==
    ASSUME ListInv, cmd.op = "find", SkipCandidate \/ OpenCandidate
    PROVE  ListOK'
<1>1. /\ UNCHANGED <<cmd, err, entries, printed>> /\ pc = "visit"
      /\ pc' \in {"visit", "inquiry"}
      /\ at' \in todo /\ todo' = todo \ {at'}
      /\ \A m \in todo : at' <= m
    BY DEF SkipCandidate, OpenCandidate, Advance, IsFirst, listing
<1>2. todo \subseteq SgNodes /\ SgNodes \subseteq Nat
    BY DiscoveryAssumption DEF ListInv, TypeInv, TypeOK
<1>3. /\ Increasing(entries)
      /\ \A i \in DOMAIN entries : \A n \in todo : entries[i] < n
    BY DEF ListInv, ListOK, InOrder
<1>4. \A n \in todo' : at' < n
    BY <1>1, <1>2
<1>5. InOrder'
    BY <1>1, <1>3, <1>4 DEF InOrder, Increasing
<1>6. Printed'
    BY <1>1 DEF ListInv, ListOK, Printed
<1>7. AllWanted'
    <2>1. CASE SkipCandidate
        <3>1. PICK n \in SgNodes : n = at'
            BY <1>1, <1>2
        <3>2. seen' = [seen EXCEPT ![n] = Silent]
            BY <2>1, <3>1 DEF SkipCandidate
        <3>3. \A i \in DOMAIN entries : entries[i] < n
            BY <1>1, <1>3, <3>1
        <3> QED
            BY <1>1, <3>2, <3>3, SilentAnswer DEF ListInv, ListOK
    <2>2. CASE OpenCandidate
        BY <1>1, <2>2, SameAnswers DEF ListInv, ListOK, OpenCandidate
    <2> QED
        BY <2>1, <2>2
<1> QED
    BY <1>1, <1>5, <1>6, <1>7 DEF ListOK

LEMMA ListNoAnswer ==
    ASSUME ListInv, cmd.op = "find", InquiryFails
    PROVE  ListOK'
<1>1. /\ UNCHANGED <<cmd, at, err, todo, entries, printed>>
      /\ pc = "inquiry" /\ pc' = "visit"
      /\ seen' = [seen EXCEPT ![at] = Silent]
    BY DEF InquiryFails, Advance, listing
<1>2. at \in SgNodes /\ \A i \in DOMAIN entries : entries[i] < at
    BY <1>1 DEF ListInv, ListOK, InOrder, TypeInv, StageOK
<1>3. InOrder' /\ Printed'
    BY <1>1 DEF ListInv, ListOK, InOrder, Printed, Increasing
<1>4. AllWanted'
    BY <1>1, <1>2, SilentAnswer DEF ListInv, ListOK
<1> QED
    BY <1>1, <1>3, <1>4 DEF ListOK

\* A candidate that answers is listed if and only if it is wanted.
LEMMA ListAnswer ==
    ASSUME ListInv, cmd.op = "find", InquiryFind
    PROVE  ListOK'
<1>1. /\ UNCHANGED <<cmd, at, err, todo, printed>> /\ pc = "inquiry"
      /\ seen' = [seen EXCEPT ![at] = fd]
    BY DEF InquiryFind, Advance
<1>2. /\ at \in SgNodes /\ \A i \in DOMAIN entries : entries[i] < at
      /\ \A n \in todo : at < n
      /\ \A i \in DOMAIN entries : \A n \in todo : entries[i] < n
      /\ Increasing(entries)
      /\ entries \in Seq(SgNodes) /\ seen \in [SgNodes -> Held]
    BY <1>1 DEF ListInv, ListOK, InOrder, TypeInv, TypeOK, StageOK
<1>3. ~cmd.json => printed = entries
    BY <1>1 DEF ListInv, ListOK, Printed
<1>4. cmd.json => printed = << >>
    BY <1>1 DEF ListInv, ListOK, Printed
<1>5. ~Listed(at)
    BY <1>2, DiscoveryAssumption DEF Listed
<1>6. CASE IsWanted(fd)
    <2>1. entries' = Append(entries, at) /\ pc' \in {"question", "line"}
        BY <1>6 DEF InquiryFind, Advance
    <2>2. \A n : Listed(n)' <=> Listed(n) \/ n = at
        BY <1>2, <2>1, AppendCells DEF Listed
    <2>3. AllWanted'
        BY <1>1, <1>2, <1>6, <2>2 DEF AllWanted, IsWanted, ListInv, ListOK
    <2>4. \A i \in DOMAIN entries' : \A n \in todo : entries'[i] < n
        BY <1>2, <2>1, AppendCells
    <2>5. Increasing(entries')
        BY <1>2, <2>1, AppendIncreasing
    <2>6. InOrder'
        BY <1>1, <2>1, <2>4, <2>5 DEF InOrder, Increasing
    <2>7. Printed'
        BY <1>1, <1>3, <1>4, <2>1 DEF Printed
    <2> QED
        BY <1>1, <2>1, <2>3, <2>6, <2>7 DEF ListOK
<1>7. CASE ~IsWanted(fd)
    <2>1. entries' = entries /\ pc' = "visit"
        BY <1>7 DEF InquiryFind, Advance
    <2>2. AllWanted'
        BY <1>1, <1>2, <1>5, <1>7, <2>1, SameListed
           DEF AllWanted, IsWanted, ListInv, ListOK
    <2>3. InOrder'
        BY <1>1, <1>2, <2>1 DEF InOrder, Increasing
    <2>4. Printed'
        BY <1>1, <1>3, <1>4, <2>1 DEF Printed
    <2> QED
        BY <1>1, <2>1, <2>2, <2>3, <2>4 DEF ListOK
<1> QED
    BY <1>6, <1>7

\* The line of a candidate, and the end.
LEMMA ListOutput ==
    ASSUME ListInv, cmd.op = "find",
           Question \/ QuestionsDone \/ Line \/ FindDone
    PROVE  ListOK'
<1>1. /\ UNCHANGED <<cmd, at, seen, unread, todo, entries>>
      /\ pc' \notin {"scan", "inquiry"}
      /\ pc' \in {"visit", "question", "line", "exited"}
    BY DEF Question, QuestionsDone, Line, FindDone, Advance, End, search,
           listing
<1>2. InOrder'
    BY <1>1 DEF ListInv, ListOK, InOrder, Increasing
<1>3. AllWanted'
    BY <1>1, SameAnswers DEF ListInv, ListOK
<1>4. Printed'
    <2> USE DEF ListInv, ListOK, Printed, Advance, End
    <2>1. CASE Question
        BY <2>1 DEF Question
    <2>2. CASE QuestionsDone
        BY <2>2 DEF QuestionsDone, listing
    <2>3. CASE Line
        BY <2>3, <1>1 DEF Line, NoError
    <2>4. CASE FindDone
        <3>1. unread = {} /\ todo = {}
            BY <2>4 DEF FindDone, Current
        <3>2. ~cmd.json => printed = entries
            BY <2>4 DEF FindDone
        <3>3. cmd.json => printed = << >>
            BY <2>4 DEF FindDone
        <3> QED
            BY <1>1, <2>4, <3>1, <3>2, <3>3 DEF FindDone, NoError
    <2> QED
        BY <2>1, <2>2, <2>3, <2>4
<1> QED
    BY <1>1, <1>2, <1>3, <1>4 DEF ListOK

LEMMA ListStep == ListInv /\ [Next]_vars => ListInv'
<1> SUFFICES ASSUME ListInv, [Next]_vars, cmd'.op = "find"
             PROVE  ListOK'
    BY TypeStep, CurrentStep DEF ListInv, CurrentInv, ListOK
<1>1. cmd' = cmd /\ cmd.op = "find"
    BY DEF Next, Step, vars, Move, ScanFails, ScanNode, ScanDone,
           SkipCandidate, OpenCandidate, InquiryFails, InquiryAuto,
           InquiryFind, Question, QuestionsDone, Line, FindDone, Select,
           CheckExists, Canonicalize, CheckSysBlock, CheckGenericDir,
           ReadGenericDir, OpenPath, Command, Resolving
<1>2. CASE UNCHANGED vars
    <2>1. UNCHANGED <<cmd, pc, at, err, unread, todo, seen, entries, printed>>
        BY <1>2 DEF vars, search, listing
    <2>2. AllWanted'
        BY <1>1, <2>1, SameAnswers DEF ListInv, ListOK
    <2> QED
        BY <1>1, <2>1, <2>2
           DEF ListInv, ListOK, InOrder, Printed, Increasing
<1>3. CASE Move
    BY <1>1, <1>3, ListMove
<1>4. CASE ScanFails \/ ScanNode \/ ScanDone
    BY <1>1, <1>4, ListScan
<1>5. CASE SkipCandidate \/ OpenCandidate
    BY <1>1, <1>5, ListVisit
<1>6. CASE InquiryFails
    BY <1>1, <1>6, ListNoAnswer
<1>7. CASE InquiryFind
    BY <1>1, <1>7, ListAnswer
<1>8. CASE Question \/ QuestionsDone \/ Line \/ FindDone
    BY <1>1, <1>8, ListOutput
<1>9. CASE \/ InquiryAuto \/ Select \/ CheckExists \/ Canonicalize
           \/ CheckSysBlock \/ CheckGenericDir \/ ReadGenericDir \/ OpenPath
           \/ Command
    <2>1. cmd.op = "command"
             \/ pc \notin {"scan", "visit", "inquiry", "question", "line",
                           "exited"}
        BY <1>9 DEF InquiryAuto, Select, CheckExists, Canonicalize,
                    CheckSysBlock, CheckGenericDir, ReadGenericDir, OpenPath,
                    Command, Resolving
    <2> QED
        BY <1>1, <2>1 DEF ListInv, ListOK
<1> QED
    BY <1>2, <1>3, <1>4, <1>5, <1>6, <1>7, <1>8, <1>9 DEF Next, Step

LEMMA GoodEnds ==
    ASSUME err \in ErrorKinds, ExitCode = OK
    PROVE  err = NoError
BY DEF ExitCode, ExitCodeFor, ErrorKinds, TransportErrors, ProtocolErrors,
       NoError, OK, USAGE, KILLED, IO, DEVICE_NOT_FOUND, TRANSPORT, CLI,
       PROTOCOL

LEMMA ListIsRight == ASSUME ListInv PROVE ListIsAccurate
<1> SUFFICES ASSUME cmd.op = "find"
             PROVE  ListIsAccurate
    BY DEF ListIsAccurate
<1>1. /\ InOrder /\ AllWanted /\ Printed
      /\ printed \in Seq(SgNodes) /\ entries \in Seq(SgNodes)
      /\ \/ printed \in {<< >>, entries}
         \/ \E n \in SgNodes : entries = Append(printed, n)
    <2>1. InOrder /\ AllWanted /\ Printed
        BY DEF ListInv, ListOK
    <2>2. printed \in Seq(SgNodes) /\ entries \in Seq(SgNodes)
        BY DEF ListInv, TypeInv, TypeOK
    <2>3. pc \in {"scan", "visit", "inquiry"} => printed \in {<< >>, entries}
        BY <2>1 DEF Printed
    <2>4. ASSUME entries = Append(printed, at)
          PROVE  \E n \in SgNodes : entries = Append(printed, n)
        <3>1. Len(printed) \in Nat /\ Len(entries) = Len(printed) + 1
                 /\ entries[Len(printed) + 1] = at
            BY <2>2, <2>4
        <3> QED
            BY <2>2, <2>4, <3>1, ElementOfSeq
    <2> QED
        BY <2>1, <2>2, <2>3, <2>4 DEF Printed, ListInv, ListOK
<1>2. Increasing(printed)
    <2>1. Increasing(entries)
        BY <1>1 DEF InOrder
    <2>2. CASE printed = << >>
        BY <2>2 DEF Increasing
    <2> QED
        BY <1>1, <2>1, <2>2, BeginningIncreases
<1>3. \A i \in DOMAIN printed : Listed(printed[i]) /\ printed[i] \in SgNodes
    BY <1>1, AppendCells DEF Listed
<1>4. \A i \in DOMAIN printed : IsWanted(seen[printed[i]])
    BY <1>1, <1>3 DEF AllWanted
<1>5. ASSUME pc = "exited", ExitCode = OK,
             NEW d \in steady, NEW n \in NodesOf(d, SgNodes),
             seen[n] # Silent
      PROVE  IsWanted(d) <=> \E i \in DOMAIN printed : printed[i] = n
    <2>1. err = NoError
        BY <1>5, GoodEnds DEF ListInv, TypeInv, TypeOK
    <2>2. printed = entries /\ unread = {} /\ todo = {}
        BY <1>1, <1>5, <2>1 DEF Printed
    <2>3. n \in SgNodes /\ node[n] = d /\ seen[n] = d
        BY <1>5, <2>2 DEF ListInv, Current, NodesOf
    <2> QED
        BY <1>1, <2>2, <2>3 DEF AllWanted, Listed
<1> QED
    BY <1>2, <1>4, <1>5 DEF ListIsAccurate, Increasing

\* What find lists is there, in the order of the paths, and nothing wanted
\* that stayed where it was is missing.
THEOREM DiscoveryListIsAccurate == Spec => []ListIsAccurate
BY ListInit, ListStep, ListIsRight, PTL DEF Spec

-----------------------------------------------------------------------------
(* The decision of auto-detection. *)

\* A device has at most one sg node.
OneNode ==
    \A m, n \in SgNodes : node[m] = node[n] /\ node[m] # Nothing => m = n

Sole == \E n \in matches : matches = {n}

\* What each end of an auto-detection says of the matches.
DecideOK ==
    Automatic =>
        /\ pc \in {"open", "command"} => unread = {} /\ todo = {}
        /\ pc = "exited" =>
              \/ err = "TransportIo" /\ served = {}
              \/ /\ unread = {} /\ todo = {}
                 /\ err = "NotFound" =>
                       served = {} /\ (Undisturbed => ~Sole)
                 /\ err # "NotFound" => Sole

DecideInv == ChosenInv /\ Current /\ OneNode /\ DecideOK

LEMMA AtMostOne ==
    ASSUME NEW S, IsFiniteSet(S), Cardinality(S) <= 1,
           NEW x \in S, NEW y \in S
    PROVE  x = y
<1>1. Cardinality(S) \in Nat /\ Cardinality(S) # 0
    BY FS_CardinalityType, FS_EmptySet
<1>2. Cardinality(S) = 1
    BY <1>1
<1> QED
    BY <1>2, FS_Singleton

LEMMA DecideInit == Init => DecideInv
<1> SUFFICES ASSUME Init
             PROVE  OneNode /\ DecideOK
    BY ChosenInit, CurrentInit DEF DecideInv, CurrentInv
<1>1. OneNode
    <2> SUFFICES ASSUME NEW m \in SgNodes, NEW n \in SgNodes,
                        node[m] = node[n], node[m] # Nothing
                 PROVE  m = n
        BY DEF OneNode
    <2>1. node[m] \in Devices
        BY DEF Init, Nodes
    <2>2. Cardinality(NodesOf(node[m], SgNodes)) <= 1
        BY <2>1 DEF Init
    <2>3. IsFiniteSet(NodesOf(node[m], SgNodes))
        BY FS_Subset, DiscoveryAssumption DEF NodesOf
    <2>4. /\ m \in NodesOf(node[m], SgNodes)
          /\ n \in NodesOf(node[m], SgNodes)
        BY DEF NodesOf
    <2> QED
        BY <2>2, <2>3, <2>4, AtMostOne
<1>2. DecideOK
    BY DEF Init, DecideOK
<1> QED
    BY <1>1, <1>2

LEMMA OneNodeStep == ASSUME TypeInv, OneNode, [Next]_vars PROVE OneNode'
<1>1. CASE Attach
    <2>1. PICK d \in Devices, k \in Nodes :
              /\ node[k] = Nothing
              /\ \A m \in Nodes :
                    node[m] = d => (m \in SgNodes <=> k \in SdNodes)
              /\ node' = [node EXCEPT ![k] = d]
        BY <1>1 DEF Attach
    <2>2. \A m \in SgNodes : m \in Nodes /\ m \notin SdNodes
        BY Distinct DEF Nodes
    <2> QED
        BY <2>1, <2>2 DEF OneNode, TypeInv, TypeOK
<1>2. CASE Detach
    BY <1>2 DEF Detach, OneNode, TypeInv, TypeOK, Nodes
<1>3. CASE UNCHANGED node
    BY <1>3 DEF OneNode
<1>4. Step => UNCHANGED node
    BY DEF Step, ScanFails, ScanNode, ScanDone,
           SkipCandidate, OpenCandidate, InquiryFails, InquiryAuto,
           InquiryFind, Question, QuestionsDone, Line, FindDone, Select,
           CheckExists, Canonicalize, CheckSysBlock, CheckGenericDir,
           ReadGenericDir, OpenPath, Command, Resolving, world
<1> QED
    BY <1>1, <1>2, <1>3, <1>4 DEF Next, Move, vars, world

\* How an auto-detection ends.
LEMMA DecideEnds ==
    ASSUME DecideInv, Automatic, ScanFails \/ Select \/ OpenPath \/ Command
    PROVE  DecideOK'
<1>1. UNCHANGED <<cmd, unread, todo, matches, seen, node, steady>>
    BY DEF ScanFails, Select, OpenPath, Command, search, world
<1>2. Undisturbed' = Undisturbed /\ Sole' = Sole
    BY <1>1 DEF Undisturbed, Sole
<1>3. pc \in {"scan", "visit", "open", "command"} => served = {}
    BY DEF DecideInv, ChosenInv, ChosenOK
<1>4. CASE ScanFails
    BY <1>3, <1>4 DEF ScanFails, End, DecideOK
<1>5. CASE Select
    <2>1. unread = {} /\ todo = {} /\ pc = "visit"
        BY <1>5 DEF Select, DecideInv, Current
    <2>2. Sole => Cardinality(matches) = 1
        BY FS_Singleton DEF Sole
    <2>3. \/ pc' = "open"
          \/ pc' = "exited" /\ err' = "NotFound" /\ ~Sole
        BY <1>5, <2>2 DEF Select, Advance, End
    <2>4. served' = {}
        BY <1>3, <1>5, <2>1 DEF Select
    <2> QED
        BY <1>1, <1>2, <2>1, <2>3, <2>4 DEF DecideOK
<1>6. CASE OpenPath
    <2>1. /\ unread = {} /\ todo = {} /\ matches = {at} /\ pc = "open"
          /\ served = {} /\ served' = {}
        BY <1>3, <1>6 DEF OpenPath, DecideInv, DecideOK, ChosenInv, ChosenOK
    <2>2. ASSUME Undisturbed
          PROVE  Behind(at) # Nothing
        <3>1. at \in SgNodes /\ seen[at] \in Matching
            BY <2>1 DEF DecideInv, ChosenInv, ChosenOK
        <3>2. node[at] = seen[at] /\ node[at] \in Devices
            BY <2>2, <3>1, Distinct
               DEF DecideInv, ChosenInv, ChosenOK, Undisturbed
        <3> QED
            BY <3>1, <3>2, Distinct DEF Behind, Nodes
    <2>3. \/ pc' = "command"
          \/ pc' = "exited" /\ err' = "NotFound" /\ Behind(at) = Nothing
          \/ pc' = "exited" /\ err' = "TransportIo"
        BY <1>6 DEF OpenPath, Advance, End
    <2> QED
        BY <1>1, <1>2, <2>1, <2>2, <2>3 DEF DecideOK
<1>7. CASE Command
    <2>1. unread = {} /\ todo = {} /\ matches = {at} /\ Sole
        BY <1>7 DEF Command, DecideInv, DecideOK, ChosenInv, ChosenOK, Sole
    <2>2. pc' = "exited" /\ err' # "NotFound"
        BY <1>7, ErrorTypes DEF Command, End
    <2> QED
        BY <1>1, <1>2, <2>1, <2>2 DEF DecideOK
<1> QED
    BY <1>4, <1>5, <1>6, <1>7

LEMMA DecideStep == DecideInv /\ [Next]_vars => DecideInv'
<1> SUFFICES ASSUME DecideInv, [Next]_vars, Automatic'
             PROVE  DecideOK'
    BY ChosenStep, CurrentStep, OneNodeStep
       DEF DecideInv, ChosenInv, CurrentInv, DecideOK
<1>1. cmd' = cmd /\ Automatic
    BY DEF Next, Step, vars, Move, ScanFails, ScanNode, ScanDone,
           SkipCandidate, OpenCandidate, InquiryFails, InquiryAuto,
           InquiryFind, Question, QuestionsDone, Line, FindDone, Select,
           CheckExists, Canonicalize, CheckSysBlock, CheckGenericDir,
           ReadGenericDir, OpenPath, Command, Resolving, Automatic
<1>2. CASE UNCHANGED vars
    BY <1>1, <1>2
       DEF vars, search, world, DecideInv, DecideOK, Undisturbed, Sole
<1>3. CASE Move
    BY <1>1, <1>3 DEF Move, search, DecideInv, DecideOK
<1>4. CASE ScanFails \/ Select \/ OpenPath \/ Command
    BY <1>1, <1>4, DecideEnds
<1>5. CASE \/ ScanNode \/ ScanDone \/ SkipCandidate \/ OpenCandidate
           \/ InquiryFails \/ InquiryAuto
    <2>1. pc' \notin {"open", "command", "exited"}
        BY <1>5 DEF ScanNode, ScanDone, SkipCandidate, OpenCandidate,
                    InquiryFails, InquiryAuto, Advance
    <2> QED
        BY <2>1 DEF DecideOK
<1>6. CASE \/ InquiryFind \/ Question \/ QuestionsDone \/ Line \/ FindDone
           \/ CheckExists \/ Canonicalize \/ CheckSysBlock \/ CheckGenericDir
           \/ ReadGenericDir
    <2>1. \/ cmd.op = "find"
          \/ pc \notin {"scan", "visit", "inquiry", "open", "command",
                        "exited"}
        BY <1>6 DEF InquiryFind, Question, QuestionsDone, Line, FindDone,
                    CheckExists, Canonicalize, CheckSysBlock, CheckGenericDir,
                    ReadGenericDir, Resolving
    <2> QED
        BY <1>1, <2>1 DEF DecideInv, ChosenInv, ChosenOK, Automatic
<1> QED
    BY <1>2, <1>3, <1>4, <1>5, <1>6 DEF Next, Step

\* When everything was asked, answered and stayed where it was, there is one
\* match if and only if one target is attached.
LEMMA MatchesAreTargets ==
    ASSUME DecideInv, Automatic, Undisturbed, pc = "exited",
           unread = {}, todo = {}, \A n \in SgNodes : seen[n] # Silent
    PROVE  Sole <=> Cardinality({ d \in Matching : Attached(d) }) = 1
<1> DEFINE Targets == { d \in Matching : Attached(d) }
<1>1. matches = { n \in SgNodes : node[n] \in Matching }
    <2>1. /\ matches = { n \in SgNodes : seen[n] \in Matching }
          /\ \A n \in SgNodes : seen[n] \in Devices => node[n] = seen[n]
        BY DEF DecideInv, ChosenInv, ChosenOK, Undisturbed
    <2>2. \A n \in SgNodes : node[n] \in Devices => seen[n] = node[n]
        BY DEF DecideInv, Current, Undisturbed
    <2> QED
        BY <2>1, <2>2, Distinct
<1>2. Targets = { d \in Matching : \E n \in matches : node[n] = d }
    BY <1>1 DEF Attached, NodesOf
<1>3. IsFiniteSet(Targets)
    <2>1. IsFiniteSet(matches)
        BY <1>1, FS_Subset, DiscoveryAssumption
    <2>2. [n \in matches |-> node[n]] \in Surjection(matches, Targets)
        BY <1>1, <1>2 DEF Surjection
    <2> HIDE DEF Targets
    <2> QED
        BY <2>1, <2>2, FS_Surjection
<1>4. Sole <=> \E d : Targets = {d}
    <2>1. \A m, n \in matches : node[m] = node[n] => m = n
        BY <1>1, Distinct DEF DecideInv, OneNode
    <2>2. ASSUME NEW n \in matches, matches = {n}
          PROVE  Targets = {node[n]}
        BY <1>1, <1>2, <2>2
    <2>3. ASSUME NEW d, Targets = {d}
          PROVE  Sole
        <3>1. PICK n \in matches : node[n] = d
            BY <1>2, <2>3
        <3>2. \A m \in matches : node[m] \in Targets
            BY <1>1, <1>2
        <3> QED
            BY <2>1, <2>3, <3>1, <3>2 DEF Sole
    <2> QED
        BY <2>2, <2>3 DEF Sole
<1> QED
    BY <1>3, <1>4, FS_Singleton

LEMMA FileErrorCode ==
    /\ ExitCodeFor("TransportIo") = IO
    /\ ExitCodeFor("NotFound") = DEVICE_NOT_FOUND
    /\ IO # DEVICE_NOT_FOUND
BY DEF ExitCodeFor, NoError, OK, USAGE, KILLED, IO, DEVICE_NOT_FOUND,
       ProtocolErrors

\* With one target that answers, auto-detection never says that there is none
\* or that there are many; with none or many no device is sent anything.
THEOREM DiscoveryDecides == Spec => []AutoDetectionDecides
<1>1. ASSUME DecideInv
      PROVE  AutoDetectionDecides
    <2> SUFFICES ASSUME pc = "exited", Automatic, Undisturbed,
                        \A n \in SgNodes : seen[n] # Silent
                 PROVE  IF Cardinality({ d \in Matching : Attached(d) }) = 1
                        THEN ExitCode # DEVICE_NOT_FOUND
                        ELSE /\ ExitCode \in {DEVICE_NOT_FOUND, IO}
                             /\ served = {}
        BY DEF AutoDetectionDecides
    <2>1. CASE err = "TransportIo" /\ served = {}
        BY <2>1, FileErrorCode DEF ExitCode
    <2>2. CASE ~(err = "TransportIo" /\ served = {})
        <3>1. /\ unread = {} /\ todo = {}
              /\ err = "NotFound" => served = {} /\ ~Sole
              /\ err # "NotFound" => Sole
            BY <1>1, <2>2 DEF DecideInv, DecideOK
        <3>2. Sole <=> Cardinality({ d \in Matching : Attached(d) }) = 1
            BY <1>1, <3>1, MatchesAreTargets
        <3>3. err # "NotFound" => ExitCode # DEVICE_NOT_FOUND
            BY <1>1, NotFoundCode DEF DecideInv, ChosenInv, TypeInv, TypeOK
        <3> QED
            BY <3>1, <3>2, <3>3, FileErrorCode DEF ExitCode
    <2> QED
        BY <2>1, <2>2
<1> QED
    BY <1>1, DecideInit, DecideStep, PTL DEF Spec
=============================================================================
