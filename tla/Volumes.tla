------------------------------ MODULE Volumes --------------------------------
(***************************************************************************)
(* How the Windows code finds a device: enumeration of the disk interfaces *)
(* with an allowlist of USB vendors, drive letters matched with disks by   *)
(* their storage device numbers, `find', auto-detection, and a --device    *)
(* that is a drive letter or a path.                                       *)
(*                                                                         *)
(* Windows is external: an interface path belongs to one disk for ever, a  *)
(* device number to whatever disk is plugged in with it, and CD-ROM drives *)
(* count their numbers apart from the disks.  A disk stands for its path.  *)
(* `command' stands for what is done with the resolved path; it is opened  *)
(* as WindowsScsiDevice, the device of jl-sg for Windows and the one that  *)
(* find and auto-detection open.  (The factory of both binaries is still   *)
(* the Linux one.)                                                         *)
(***************************************************************************)
EXTENDS ExitCodes, FiniteSets

CONSTANTS
    Disks,     \* disk drives
    Roms,      \* CD-ROM drives
    Instance,  \* what each disk's instance id says of it
    Matching,  \* the disks whose INQUIRY product is a JieLi one
    Letters,   \* drive letters, numbered in their order
    Numbers,   \* storage device numbers
    RomNumber, \* the number of each CD-ROM drive
    Lines,     \* the command lines considered
    MaxMoves,  \* bound: disks plugged and unplugged, letters changed
    MaxRuns,   \* bound: invocations in a row
    AutoDetect, Nothing

Instances == {"usb_vid_jieli", "usb_vid_other", "usbstor", "not_usb"}

ASSUME VolumesAssumption ==
    /\ Instance \in [Disks -> Instances] /\ Matching \subseteq Disks
    /\ Letters \subseteq Nat /\ IsFiniteSet(Letters) /\ Numbers \subseteq Nat
    /\ RomNumber \in [Roms -> Numbers]
    /\ Disks \intersect Roms = {} /\ Nothing \notin Disks \union Roms
    /\ Lines \subseteq [op : {"find", "command"},
                        selector : Letters \union Disks \union {AutoDetect}]
    /\ \A l \in Lines : l.op = "find" => l.selector = AutoDetect
    /\ Letters \intersect Disks = {} /\ AutoDetect \notin Letters \union Disks
    /\ MaxMoves \in Nat /\ MaxRuns \in Nat \ {0}

VARIABLES
    cmd,         \* the command line
    pc,          \* what the invocation does next
    wanted,      \* the device number of the letter it was given
    candidates,  \* what the enumeration returned
    letters,     \* letters that have not been asked for their number
    firstLetter, \* the lowest letter seen for each number
    selectors,   \* the letter attached to each candidate
    todo,        \* candidates still to be compared, opened or asked
    matches,     \* auto-detection: the candidates that matched
    target,      \* the path to be opened
    err,
    served,      \* the disks that were handed a vendor command
    number,      \* the device number of each plugged disk
    letter,      \* the drive behind each letter
    moves,
    runs,
    missed,      \* history: has a query failed?
    shown,       \* history: the selectors find has shown, until a move
    steady       \* history: nothing moved since the invocation began

correlation == <<letters, firstLetter, selectors>>
choice == <<wanted, candidates, todo, matches, target>>
world == <<number, letter, moves>>
vars == <<cmd, pc, correlation, choice, err, served, world, runs, missed, shown,
          steady>>

None == -1
Stages == {"volume", "enum", "letters", "attach", "compare", "ask",
           "open", "exited"}

TypeOK ==
    /\ cmd \in Lines
    /\ pc \in Stages
    /\ wanted \in Numbers \union {None}
    /\ letters \subseteq Letters
    /\ candidates \subseteq Disks /\ todo \subseteq candidates
    /\ firstLetter \in [Numbers -> Letters \union {None}]
    /\ selectors \in [Disks -> Letters \union {None}]
    /\ matches \subseteq candidates
    /\ target \in Disks \union {Nothing}
    /\ err \in ErrorKinds
    /\ served \subseteq Disks
    /\ number \in [Disks -> Numbers \union {None}]
    /\ letter \in [Letters -> Disks \union Roms \union {Nothing}]
    /\ moves \in 0 .. MaxMoves /\ runs \in 0 .. MaxRuns
    /\ missed \in BOOLEAN /\ steady \in BOOLEAN
    /\ shown \subseteq Letters \X Disks

-----------------------------------------------------------------------------
(* Drives and letters. *)

Plugged(d) == number[d] # None

Plug ==
    \E d \in Disks, n \in Numbers :
        /\ ~Plugged(d) /\ \A e \in Disks : number[e] # n
        /\ number' = [number EXCEPT ![d] = n]
        /\ UNCHANGED letter

Unplug ==
    \E d \in Disks :
        /\ Plugged(d)
        /\ number' = [number EXCEPT ![d] = None]
        /\ letter' = [l \in Letters |-> IF letter[l] = d THEN Nothing
                                                         ELSE letter[l]]

Assign ==
    \E l \in Letters, v \in { d \in Disks : Plugged(d) } \union Roms :
        /\ letter[l] # v
        /\ letter' = [letter EXCEPT ![l] = v]
        /\ UNCHANGED number

\* What moves between two invocations is covered by the initial states.
Move ==
    /\ pc # "exited" /\ moves < MaxMoves
    /\ moves' = moves + 1
    /\ Plug \/ Unplug \/ Assign
    /\ shown' = {} /\ steady' = FALSE
    /\ UNCHANGED <<cmd, pc, correlation, choice, err, served, runs, missed>>

\* query_storage_device_number: the number alone, not the type of the device.
NumberBehind(v) ==
    CASE v \in Roms  -> RomNumber[v]
      [] v \in Disks -> number[v]
      [] OTHER       -> None

-----------------------------------------------------------------------------

\* resolve_explicit_selector: two characters are a letter, all else a path.
FirstStage(c) ==
    CASE c.op = "find" \/ c.selector = AutoDetect -> "enum"
      [] c.selector \in Letters             -> "volume"
      [] OTHER                              -> "open"

Named(c) == IF c.selector \in Disks THEN c.selector ELSE Nothing

Init ==
    /\ cmd \in Lines /\ pc = FirstStage(cmd) /\ target = Named(cmd)
    /\ wanted = None /\ candidates = {} /\ todo = {} /\ matches = {}
    /\ letters = Letters /\ firstLetter = [n \in Numbers |-> None]
    /\ selectors = [d \in Disks |-> None]
    /\ err = NoError /\ served = {}
    /\ number \in [Disks -> Numbers \union {None}]
    /\ \A d, e \in Disks : number[d] = number[e] => d = e \/ ~Plugged(d)
    /\ letter \in [Letters -> { d \in Disks : Plugged(d) }
                                  \union Roms \union {Nothing}]
    /\ moves = 0 /\ runs = 1
    /\ missed = FALSE /\ shown = {} /\ steady = TRUE

Advance(stage) == pc' = stage /\ UNCHANGED err
End(kind) == pc' = "exited" /\ err' = kind

\* The next invocation: nothing outlives one but the drives.
Invoke ==
    /\ pc = "exited" /\ runs < MaxRuns
    /\ runs' = runs + 1
    /\ cmd' \in Lines /\ pc' = FirstStage(cmd') /\ target' = Named(cmd')
    /\ wanted' = None /\ candidates' = {} /\ todo' = {} /\ matches' = {}
    /\ letters' = Letters /\ firstLetter' = [n \in Numbers |-> None]
    /\ selectors' = [d \in Disks |-> None]
    /\ err' = NoError /\ served' = {}
    /\ missed' = FALSE /\ steady' = TRUE
    /\ UNCHANGED <<world, shown>>

\* resolve_visible_selector_to_candidate asks the volume first.
QueryVolume ==
    /\ pc = "volume"
    /\ \/ /\ NumberBehind(letter[cmd.selector]) # None
          /\ wanted' = NumberBehind(letter[cmd.selector])
          /\ Advance("enum")
       \/ /\ \E e \in {"NotFound", "TransportIo"} : End(e)
          /\ UNCHANGED wanted
    /\ UNCHANGED <<cmd, correlation, candidates, todo, matches, target, served,
                   world, runs, missed, shown, steady>>

-----------------------------------------------------------------------------
(* enumerate_usb_msc_candidates *)

IsListedAnyVendor(d) ==   \* mutant: every USB disk is let through
    Instance[d] \in {"usb_vid_jieli", "usb_vid_other", "usbstor"}

\* looks_like_usb_msc_instance, parse_vid_pid and matches_allowlist: an
\* instance id without VID_ is not let through.
IsListed(d) == Instance[d] = "usb_vid_jieli"

\* The system takes the list when the enumeration begins; the code leaves out
\* in silence an interface whose path or instance id it cannot have.  Then
\* attach_visible_selectors; only find makes use of the letters it attaches,
\* in the two other paths they are overwritten or only displayed.
Enumerate ==
    /\ pc = "enum"
    /\ \E lost \in SUBSET { d \in Disks : Plugged(d) } :
          /\ candidates' = { d \in Disks : Plugged(d) /\ IsListed(d) } \ lost
          /\ missed' = (lost # {})
    /\ todo' = candidates'
    /\ Advance(CASE cmd.op = "find"          -> "letters"
                 [] cmd.selector \in Letters -> "compare"
                 [] OTHER                    -> "ask")
    /\ UNCHANGED <<cmd, correlation, wanted, matches, target, served, world,
                   runs, shown, steady>>

EnumerationFails ==
    /\ pc = "enum"
    /\ End("TransportIo")
    /\ UNCHANGED <<cmd, correlation, choice, served, world, runs, missed, shown,
                   steady>>

-----------------------------------------------------------------------------
(* attach_visible_selectors *)

\* A: to Z:, `or_insert' keeps the first.
QueryLetter ==
    /\ pc = "letters" /\ letters # {}
    /\ LET l == CHOOSE m \in letters : \A k \in letters : m <= k
           n == NumberBehind(letter[l])
       IN /\ letters' = letters \ {l}
          /\ \/ /\ n # None
                /\ firstLetter' = [firstLetter EXCEPT ![n] =
                                      IF @ = None THEN l ELSE @]
             \/ UNCHANGED firstLetter
    /\ UNCHANGED <<cmd, pc, selectors, choice, err, served, world, runs, missed,
                   shown, steady>>

LettersDone ==
    /\ pc = "letters" /\ letters = {}
    /\ Advance("attach")
    /\ UNCHANGED <<cmd, correlation, choice, served, world, runs, missed, shown,
                   steady>>

AttachLetter ==
    /\ pc = "attach"
    /\ \E d \in todo :
          /\ todo' = todo \ {d}
          /\ \/ /\ number[d] # None
                /\ selectors' = [selectors EXCEPT ![d] = firstLetter[number[d]]]
             \/ UNCHANGED selectors
    /\ UNCHANGED <<cmd, pc, letters, firstLetter, wanted, candidates, matches,
                   target, err, served, world, runs, missed, shown, steady>>

Attached ==
    /\ pc = "attach" /\ todo = {}
    /\ todo' = candidates
    /\ Advance("ask")
    /\ UNCHANGED <<cmd, correlation, wanted, candidates, matches, target, served,
                   world, runs, missed, shown, steady>>

-----------------------------------------------------------------------------
(* What becomes of the candidates, in the order the system listed them. *)

CompareAny ==   \* mutant: the first candidate, whatever its number
    /\ pc = "compare"
    /\ \E d \in todo : target' = d
    /\ Advance("open")
    /\ UNCHANGED <<cmd, correlation, wanted, candidates, todo, matches, served,
                   world, runs, missed, shown, steady>>

\* The first candidate with the number of the volume; one that does not tell
\* its number is passed over.
Compare ==
    /\ pc = "compare"
    /\ \E d \in todo :
          /\ todo' = todo \ {d}
          /\ \/ number[d] = wanted /\ target' = d /\ Advance("open")
                   /\ UNCHANGED missed
             \/ number[d] # wanted /\ UNCHANGED <<pc, err, target, missed>>
             \/ missed' = TRUE /\ UNCHANGED <<pc, err, target>>
    /\ UNCHANGED <<cmd, correlation, wanted, candidates, matches, served, world,
                   runs, shown, steady>>

NoneCompares ==
    /\ pc = "compare" /\ todo = {}
    /\ End("NotFound")
    /\ UNCHANGED <<cmd, correlation, choice, served, world, runs, missed, shown,
                   steady>>

\* find lists, and auto-detection counts, what answers the INQUIRY as wanted;
\* find --probe goes on to ask it vendor commands.
Ask ==
    /\ pc = "ask"
    /\ \E d \in todo :
          /\ todo' = todo \ {d}
          /\ \/ /\ Plugged(d) /\ d \in Matching
                /\ matches' = matches \union {d}
                /\ shown' = IF cmd.op = "find" /\ steady /\ selectors[d] # None
                            THEN shown \union {<<selectors[d], d>>} ELSE shown
                /\ \/ cmd.op = "find" /\ served' = served \union {d}
                   \/ UNCHANGED served
                /\ UNCHANGED missed
             \/ /\ Plugged(d) /\ d \notin Matching
                /\ UNCHANGED <<matches, shown, missed, served>>
             \/ missed' = TRUE /\ UNCHANGED <<matches, shown, served>>
    /\ UNCHANGED <<cmd, pc, correlation, wanted, candidates, target, err, world,
                   runs, steady>>

AnsweredWaits ==   \* mutant: no match, and auto-detection looks again
    /\ pc = "ask" /\ todo = {}
    /\ \/ cmd.op = "find" /\ End(NoError) /\ UNCHANGED target
       \/ cmd.op # "find" /\ matches = {} /\ Advance("enum") /\ UNCHANGED target
       \/ cmd.op # "find" /\ Cardinality(matches) = 1
             /\ target' \in matches /\ Advance("open")
       \/ cmd.op # "find" /\ Cardinality(matches) > 1 /\ End("NotFound")
             /\ UNCHANGED target
    /\ UNCHANGED <<cmd, correlation, wanted, candidates, todo, matches, served,
                   world, runs, missed, shown, steady>>

Answered ==
    /\ pc = "ask" /\ todo = {}
    /\ \/ cmd.op = "find" /\ End(NoError) /\ UNCHANGED target
       \/ cmd.op # "find" /\ Cardinality(matches) = 1
             /\ target' \in matches /\ Advance("open")
       \/ cmd.op # "find" /\ Cardinality(matches) # 1 /\ End("NotFound")
             /\ UNCHANGED target
    /\ UNCHANGED <<cmd, correlation, wanted, candidates, todo, matches, served,
                   world, runs, missed, shown, steady>>

\* open_with_timeout, and one vendor command.
OpenAndCommand ==
    /\ pc = "open"
    /\ \/ /\ Plugged(target)
          /\ served' = {target}
          /\ \E e \in ExecErrors \union {NoError} : End(e)
       \/ \E e \in {"NotFound", "TransportIo"} : End(e) /\ UNCHANGED served
    /\ UNCHANGED <<cmd, correlation, choice, world, runs, missed, shown, steady>>

Step ==
    \/ QueryVolume \/ Enumerate \/ EnumerationFails
    \/ QueryLetter \/ LettersDone \/ AttachLetter \/ Attached
    \/ Compare \/ NoneCompares \/ Ask \/ Answered \/ OpenAndCommand

Next == Invoke \/ Step \/ Move
Spec == Init /\ [][Next]_vars
FairSpec == Spec /\ WF_vars(Step)

-----------------------------------------------------------------------------
(* Correctness. *)

ByLetter == cmd.op = "command" /\ cmd.selector \in Letters
ByPath == cmd.op = "command" /\ cmd.selector \in Disks

\* Unless the user spells out an interface path, only USB devices of the
\* allowlisted vendor are ever sent a command: neither the letter of another
\* disk nor a race of letters and numbers leads past the allowlist.
OnlyAllowlistedAreServed ==
    ~ByPath => \A d \in served : Instance[d] = "usb_vid_jieli"

\* The letter of a disk leads to this disk, and it does so whenever the disk
\* is allowlisted and no query fails.  The letter of a CD-ROM drive is exempt:
\* device numbers are compared without the type of the device.
LetterIsTheDrive ==
    ByLetter /\ steady /\ letter[cmd.selector] \in Disks =>
        /\ served \subseteq {letter[cmd.selector]}
        /\ pc = "exited" /\ err = "NotFound" /\ wanted # None /\ target = Nothing
              => missed \/ Instance[letter[cmd.selector]] # "usb_vid_jieli"

\* A selector shown by find, used while nothing has moved since, leads to the
\* very device it was shown for, whatever else has the same number or letter.
ShownSelectorWorks ==
    ByLetter =>
        \A s \in shown : s[1] = cmd.selector => served \subseteq {s[2]}

\* Every invocation ends.
Terminates == pc # "exited" ~> pc = "exited"
=============================================================================
