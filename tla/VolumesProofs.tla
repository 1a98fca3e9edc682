--------------------------- MODULE VolumesProofs -----------------------------
(***************************************************************************)
(* Safety properties of Volumes for any disks, drives, letters, numbers    *)
(* and command lines, and for any number of invocations and moves.         *)
(***************************************************************************)
EXTENDS Volumes, WellFoundedInduction, TLAPS

LEMMA CmdType ==
    ASSUME NEW c \in Lines
    PROVE  /\ c.op \in {"find", "command"}
           /\ c.selector \in Letters \union Disks \union {AutoDetect}
           /\ c.op = "find" => c.selector = AutoDetect
           /\ FirstStage(c) \in {"volume", "enum", "open"}
           /\ FirstStage(c) = "volume" =>
                 /\ c.op = "command" /\ c.selector \in Letters
                 /\ Named(c) = Nothing
           /\ FirstStage(c) = "open" =>
                 /\ c.op = "command" /\ c.selector \in Disks
                 /\ Named(c) \in Disks
           /\ FirstStage(c) = "enum" =>
                 c.selector = AutoDetect /\ Named(c) = Nothing
           /\ Named(c) \in Disks \union {Nothing}
<1>1. c \in [op : {"find", "command"},
             selector : Letters \union Disks \union {AutoDetect}]
    BY VolumesAssumption
<1>2. AutoDetect \notin Letters \union Disks /\ Letters \intersect Disks = {}
    BY VolumesAssumption
<1>3. /\ c.op \in {"find", "command"}
      /\ c.selector \in Letters \union Disks \union {AutoDetect}
      /\ c.op = "find" => c.selector = AutoDetect
    BY <1>1, VolumesAssumption
<1>4. CASE c.selector = AutoDetect
    BY <1>2, <1>3, <1>4 DEF FirstStage, Named
<1>5. CASE c.op = "command" /\ c.selector \in Letters
    BY <1>2, <1>3, <1>5 DEF FirstStage, Named
<1>6. CASE c.op = "command" /\ c.selector \in Disks
    BY <1>2, <1>3, <1>6 DEF FirstStage, Named
<1> QED
    BY <1>3, <1>4, <1>5, <1>6

\* Letters, disks and drives are told apart, and -1 is none of the numbers.
LEMMA Distinct ==
    /\ Disks \intersect Roms = {} /\ Nothing \notin Disks \union Roms
    /\ Letters \intersect Disks = {} /\ AutoDetect \notin Letters \union Disks
    /\ None \notin Numbers /\ None \notin Letters
    /\ RomNumber \in [Roms -> Numbers]
BY VolumesAssumption DEF None

LEMMA ErrorTypes ==
    /\ {"TransportIo", "NotFound", NoError} \subseteq ErrorKinds
    /\ ExecErrors \subseteq ErrorKinds
    /\ "NotFound" \notin ExecErrors \union {NoError}
    /\ "NotFound" # "TransportIo"
BY DEF ErrorKinds, TransportErrors, ExecErrors, NoError

LEMMA NumberType ==
    ASSUME TypeOK, NEW l \in Letters
    PROVE  NumberBehind(letter[l]) \in Numbers \union {None}
BY Distinct DEF TypeOK, NumberBehind

\* The letters are asked in order, so there is always a first one.
LEMMA FirstOf ==
    ASSUME NEW S \in SUBSET Letters, S # {}
    PROVE  (CHOOSE m \in S : \A k \in S : m <= k) \in S
<1>1. S \subseteq Nat
    BY VolumesAssumption
<1>2. PICK m \in S : \A k \in S : ~(<<k, m>> \in OpToRel(<, Nat))
    BY <1>1, NatLessThanWellFounded, WFMin
<1>3. \A k \in S : m <= k
    <2> SUFFICES ASSUME NEW k \in S, k < m
                 PROVE  FALSE
        BY <1>1
    <2>1. <<k, m>> \in { ss \in Nat \X Nat : ss[1] < ss[2] }
        BY <1>1
    <2>2. <<k, m>> \in OpToRel(<, Nat)
        BY <2>1 DEF OpToRel
    <2> QED
        BY <1>2, <2>2
<1> QED
    BY <1>3

-----------------------------------------------------------------------------
(* Types. *)

\* What is known at each stage.
StageOK ==
    /\ pc \in {"volume", "enum"} => matches = {} /\ todo = {}
    /\ pc = "volume" => cmd.selector \in Letters
    /\ pc = "open" => target \in Disks

TypeInv == TypeOK /\ StageOK

LEMMA TypeInit == Init => TypeInv
<1> SUFFICES ASSUME Init
             PROVE  TypeInv
    OBVIOUS
<1>1. cmd \in Lines
    BY DEF Init
<1>2. pc \in Stages /\ target \in Disks \union {Nothing}
    BY <1>1, CmdType DEF Init, Stages
<1>3. StageOK
    BY <1>1, CmdType DEF Init, StageOK
<1>4. letter \in [Letters -> Disks \union Roms \union {Nothing}]
    BY DEF Init
<1>5. /\ firstLetter \in [Numbers -> Letters \union {None}]
      /\ selectors \in [Disks -> Letters \union {None}]
      /\ moves \in 0 .. MaxMoves /\ runs \in 0 .. MaxRuns
    BY VolumesAssumption DEF Init
<1>6. missed \in BOOLEAN /\ steady \in BOOLEAN
    BY Zenon DEF Init
<1>7. TypeOK
    BY <1>1, <1>2, <1>4, <1>5, <1>6, ErrorTypes DEF Init, TypeOK
<1> QED
    BY <1>3, <1>7 DEF TypeInv

LEMMA MoveType == ASSUME TypeInv, Move PROVE TypeInv'
<1> USE DEF TypeInv
<1>1. moves' \in 0 .. MaxMoves
    BY VolumesAssumption DEF TypeOK, Move
<1>2. number' \in [Disks -> Numbers \union {None}]
    BY DEF TypeOK, Move, Plug, Unplug, Assign
<1>3. letter' \in [Letters -> Disks \union Roms \union {Nothing}]
    <2>1. CASE Unplug
        BY <2>1 DEF TypeOK, Unplug
    <2>2. CASE Plug \/ Assign
        BY <2>2 DEF TypeOK, Plug, Assign
    <2> QED
        BY <2>1, <2>2 DEF Move
<1>4. /\ UNCHANGED <<cmd, pc, wanted, letters, candidates, todo, firstLetter,
                     selectors, matches, target, err, served, runs, missed>>
      /\ shown' = {}
    BY DEF Move, correlation, choice
<1>5. steady' \in BOOLEAN
    BY Zenon DEF Move
<1>6. TypeOK'
    BY <1>1, <1>2, <1>3, <1>4, <1>5 DEF TypeOK
<1>7. StageOK'
    BY <1>4 DEF StageOK
<1> QED
    BY <1>6, <1>7

LEMMA InvokeType == ASSUME TypeInv, Invoke PROVE TypeInv'
<1> USE DEF TypeInv
<1>1. cmd' \in Lines /\ pc' = FirstStage(cmd') /\ target' = Named(cmd')
    BY DEF Invoke
<1>2. pc' \in Stages /\ target' \in Disks \union {Nothing}
    BY <1>1, CmdType DEF Stages
<1>3. runs' \in 0 .. MaxRuns
    BY VolumesAssumption DEF TypeOK, Invoke
<1>4. missed' \in BOOLEAN /\ steady' \in BOOLEAN
    BY Zenon DEF Invoke
<1>5. /\ firstLetter' \in [Numbers -> Letters \union {None}]
      /\ selectors' \in [Disks -> Letters \union {None}]
    BY DEF Invoke
<1>6. /\ wanted' = None /\ candidates' = {} /\ todo' = {} /\ matches' = {}
      /\ letters' = Letters /\ err' = NoError /\ served' = {}
      /\ UNCHANGED <<number, letter, moves, shown>>
    BY DEF Invoke, world
<1>7. TypeOK'
    BY <1>1, <1>2, <1>3, <1>4, <1>5, <1>6, ErrorTypes DEF TypeOK
<1>8. StageOK'
    BY <1>1, <1>6, CmdType DEF StageOK
<1> QED
    BY <1>7, <1>8

\* The volume, the enumeration, and the letters of the candidates.
LEMMA EnumerationType ==
    ASSUME TypeInv,
           \/ QueryVolume \/ Enumerate \/ EnumerationFails
           \/ QueryLetter \/ LettersDone \/ AttachLetter \/ Attached
    PROVE  TypeInv'
<1> USE ErrorTypes
        DEF TypeInv, TypeOK, StageOK, Stages, Advance, End, correlation,
            choice, world
<1>1. CASE QueryVolume
    <2>1. NumberBehind(letter[cmd.selector]) \in Numbers \union {None}
        BY <1>1, NumberType DEF QueryVolume
    <2> QED
        BY <1>1, <2>1 DEF QueryVolume
<1>2. CASE Enumerate
    <2>1. candidates' \subseteq Disks /\ todo' = candidates'
        BY <1>2 DEF Enumerate
    <2>2. missed' \in BOOLEAN
        BY <1>2 DEF Enumerate
    <2>3. pc' \in {"letters", "compare", "ask"} /\ err' = err
             /\ matches = {}
        BY <1>2 DEF Enumerate
    <2>4. UNCHANGED <<cmd, wanted, letters, firstLetter, selectors, matches,
                      target, served, number, letter, moves, runs, shown,
                      steady>>
        BY <1>2 DEF Enumerate
    <2> QED
        BY <2>1, <2>2, <2>3, <2>4
<1>3. CASE EnumerationFails
    BY <1>3 DEF EnumerationFails
<1>4. CASE QueryLetter
    <2>1. PICK l \in letters, n \in Numbers \union {None} :
              /\ letters' = letters \ {l}
              /\ \/ /\ n # None
                    /\ firstLetter' = [firstLetter EXCEPT ![n] =
                                          IF @ = None THEN l ELSE @]
                 \/ UNCHANGED firstLetter
        <3> DEFINE l == CHOOSE m \in letters : \A k \in letters : m <= k
        <3>1. l \in letters
            BY <1>4, FirstOf DEF QueryLetter
        <3>2. NumberBehind(letter[l]) \in Numbers \union {None}
            BY <3>1, NumberType
        <3> QED
            BY <1>4, <3>1, <3>2 DEF QueryLetter
    <2>2. firstLetter' \in [Numbers -> Letters \union {None}]
        BY <2>1
    <2> QED
        BY <1>4, <2>1, <2>2 DEF QueryLetter
<1>5. CASE LettersDone
    BY <1>5 DEF LettersDone
<1>6. CASE AttachLetter
    <2>1. selectors' \in [Disks -> Letters \union {None}]
        BY <1>6 DEF AttachLetter
    <2> QED
        BY <1>6, <2>1 DEF AttachLetter
<1>7. CASE Attached
    BY <1>7 DEF Attached
<1> QED
    BY <1>1, <1>2, <1>3, <1>4, <1>5, <1>6, <1>7

\* What becomes of the candidates.
LEMMA ChoiceType ==
    ASSUME TypeInv,
           Compare \/ NoneCompares \/ Ask \/ Answered \/ OpenAndCommand
    PROVE  TypeInv'
<1> USE ErrorTypes
        DEF TypeInv, TypeOK, StageOK, Stages, Advance, End, correlation,
            choice, world
<1>1. CASE Compare
    <2>1. missed' \in BOOLEAN
        BY <1>1 DEF Compare
    <2> QED
        BY <1>1, <2>1 DEF Compare
<1>2. CASE NoneCompares
    BY <1>2 DEF NoneCompares
<1>3. CASE Ask
    <2>1. PICK d \in todo :
              /\ todo' = todo \ {d}
              /\ matches' \in {matches, matches \union {d}}
              /\ shown' \in {shown, shown \union {<<selectors[d], d>>}}
              /\ shown' = shown \/ selectors[d] # None
              /\ served' \in {served, served \union {d}}
        BY <1>3 DEF Ask
    <2>2. missed' \in BOOLEAN
        BY <1>3 DEF Ask
    <2>3. /\ shown' \subseteq Letters \X Disks
          /\ matches' \subseteq candidates /\ served' \subseteq Disks
        BY <2>1
    <2> QED
        BY <1>3, <2>1, <2>2, <2>3 DEF Ask
<1>4. CASE Answered
    BY <1>4 DEF Answered
<1>5. CASE OpenAndCommand
    BY <1>5 DEF OpenAndCommand
<1> QED
    BY <1>1, <1>2, <1>3, <1>4, <1>5

LEMMA TypeStep == TypeInv /\ [Next]_vars => TypeInv'
<1> SUFFICES ASSUME TypeInv, [Next]_vars
             PROVE  TypeInv'
    OBVIOUS
<1>1. CASE UNCHANGED vars
    BY <1>1
       DEF vars, correlation, choice, world, TypeInv, TypeOK, StageOK
<1> QED
    BY <1>1, MoveType, InvokeType, EnumerationType, ChoiceType DEF Next, Step

\* Every variable keeps its type.
THEOREM VolumesTypeCorrect == Spec => []TypeOK
<1>1. TypeInv => TypeOK
    BY DEF TypeInv
<1> QED
    BY <1>1, TypeInit, TypeStep, PTL DEF Spec

-----------------------------------------------------------------------------
(* The allowlist. *)

\* Whatever was not spelled out as a path comes from the enumeration.
ListOK ==
    /\ \A d \in candidates : IsListed(d)
    /\ pc \in {"volume", "enum", "letters", "attach", "compare"}
          => served = {}
    /\ ~ByPath => /\ pc = "open" => target \in candidates
                  /\ served \subseteq candidates

ListInv == TypeInv /\ ListOK

LEMMA ListInit == Init => ListInv
<1> SUFFICES ASSUME Init
             PROVE  ListOK
    BY TypeInit DEF ListInv
<1>1. cmd \in Lines /\ pc = FirstStage(cmd)
         /\ candidates = {} /\ served = {}
    BY DEF Init
<1> QED
    BY <1>1, CmdType DEF ListOK, ByPath

LEMMA ListInvoke == ASSUME Invoke PROVE ListOK'
<1>1. /\ cmd' \in Lines /\ pc' = FirstStage(cmd')
      /\ candidates' = {} /\ served' = {}
    BY DEF Invoke
<1>2. pc' = "open" => ByPath'
    BY <1>1, CmdType DEF ByPath
<1> QED
    BY <1>1, <1>2 DEF ListOK

LEMMA ListStep == ListInv /\ [Next]_vars => ListInv'
<1> SUFFICES ASSUME ListInv, [Next]_vars
             PROVE  ListOK'
    BY TypeStep DEF ListInv
<1> USE DEF ListInv, ListOK, ByPath, IsListed, Advance, End, correlation,
            choice, world
<1>1. CASE UNCHANGED vars
    BY <1>1 DEF vars
<1>2. CASE Invoke
    BY <1>2, ListInvoke
<1>3. CASE Move
    BY <1>3 DEF Move
<1>4. CASE Enumerate
    <2>1. \A d \in candidates' : IsListed(d)
        BY <1>4 DEF Enumerate
    <2>2. served' = {} /\ pc' # "open" /\ cmd' = cmd
        BY <1>4 DEF Enumerate
    <2> QED
        BY <2>1, <2>2
<1>5. CASE \/ QueryVolume \/ EnumerationFails \/ QueryLetter \/ LettersDone
           \/ AttachLetter \/ Attached \/ NoneCompares
    <2>1. /\ UNCHANGED <<cmd, candidates, served>> /\ served = {}
          /\ pc' # "open"
        BY <1>5 DEF QueryVolume, EnumerationFails, QueryLetter, LettersDone,
                    AttachLetter, Attached, NoneCompares
    <2> QED
        BY <2>1
<1>6. CASE Compare
    <2>1. /\ UNCHANGED <<cmd, candidates, served>> /\ served = {}
          /\ pc' = "open" => target' \in todo
        BY <1>6 DEF Compare
    <2> QED
        BY <2>1 DEF TypeInv, TypeOK
<1>7. CASE Ask
    <2>1. /\ UNCHANGED <<cmd, pc, candidates, target>> /\ pc = "ask"
          /\ served' \subseteq served \union todo
        BY <1>7 DEF Ask
    <2> QED
        BY <2>1 DEF TypeInv, TypeOK
<1>8. CASE Answered
    <2>1. /\ UNCHANGED <<cmd, candidates, served>>
          /\ pc' \in {"open", "exited"}
          /\ pc' = "open" => target' \in matches
        BY <1>8 DEF Answered
    <2> QED
        BY <2>1 DEF TypeInv, TypeOK
<1>9. CASE OpenAndCommand
    <2>1. /\ UNCHANGED <<cmd, candidates>> /\ pc = "open" /\ pc' = "exited"
          /\ served' = {target} \/ served' = served
        BY <1>9 DEF OpenAndCommand
    <2> QED
        BY <2>1
<1> QED
    BY <1>1, <1>2, <1>3, <1>4, <1>5, <1>6, <1>7, <1>8, <1>9 DEF Next, Step

\* Unless the user spells out an interface path, only USB devices of the
\* allowlisted vendor are sent a command.
THEOREM VolumesOnlyAllowlisted == Spec => []OnlyAllowlistedAreServed
<1>1. ListInv => OnlyAllowlistedAreServed
    BY DEF ListInv, ListOK, OnlyAllowlistedAreServed, IsListed
<1> QED
    BY <1>1, ListInit, ListStep, PTL DEF Spec

-----------------------------------------------------------------------------
(* Letters, numbers and disks, while nothing moves. *)

\* No two disks have one number, and a letter is not of an unplugged disk.
Drives ==
    /\ \A d, e \in Disks : number[d] = number[e] => d = e \/ ~Plugged(d)
    /\ \A l \in Letters : letter[l] \in Disks => Plugged(letter[l])

\* As the code compares them, the letter and the disk have one number.
Leads(l, d) == NumberBehind(letter[l]) = number[d] /\ Plugged(d)

\* What correlation has found, and what find has shown, is so until a move.
LetteredOK ==
    /\ ~steady => shown = {}
    /\ \A s \in shown : Leads(s[1], s[2])
    /\ steady =>
          /\ \A n \in Numbers : firstLetter[n] # None =>
                                   NumberBehind(letter[firstLetter[n]]) = n
          /\ \A d \in Disks : selectors[d] # None => Leads(selectors[d], d)

\* The letter of a command line is followed by its number to one disk ...
FollowedOK ==
    ByLetter =>
        /\ pc \in {"volume", "enum", "compare", "open", "exited"}
        /\ pc = "volume" => wanted = None
        /\ pc \in {"volume", "enum", "compare"} =>
              served = {} /\ target = Nothing
        /\ pc \in {"enum", "compare", "open"} => wanted # None
        /\ served \subseteq {target} \intersect Disks
        /\ steady => /\ wanted # None =>
                           wanted = NumberBehind(letter[cmd.selector])
                     /\ target # Nothing => Leads(cmd.selector, target)

\* ... and the disk it stands for waits among the candidates until then.
WaitsOK ==
    ByLetter /\ steady /\ letter[cmd.selector] \in Disks =>
        \/ ~IsListed(letter[cmd.selector]) \/ missed
        \/ /\ pc = "compare" => letter[cmd.selector] \in todo
           /\ pc = "exited" /\ err = "NotFound" =>
                 wanted = None \/ target # Nothing

LetterInv ==
    TypeInv /\ ListOK /\ Drives /\ LetteredOK /\ FollowedOK /\ WaitsOK

LEMMA LetterInit == Init => LetterInv
<1> SUFFICES ASSUME Init
             PROVE  Drives /\ LetteredOK /\ FollowedOK /\ WaitsOK
    BY ListInit DEF LetterInv, ListInv
<1>1. Drives
    BY VolumesAssumption DEF Init, Drives
<1>2. LetteredOK
    BY DEF Init, LetteredOK
<1>3. cmd \in Lines /\ pc = FirstStage(cmd) /\ target = Named(cmd)
    BY DEF Init
<1>4. ByLetter => pc = "volume" /\ target = Nothing
    BY <1>3, CmdType, Distinct DEF ByLetter
<1>5. FollowedOK /\ WaitsOK
    BY <1>4 DEF Init, FollowedOK, WaitsOK
<1> QED
    BY <1>1, <1>2, <1>5

LEMMA LetterInvoke ==
    ASSUME LetterInv, Invoke
    PROVE  Drives' /\ LetteredOK' /\ FollowedOK' /\ WaitsOK'
<1>1. UNCHANGED <<number, letter, shown>>
    BY DEF Invoke, world
<1>2. Drives'
    BY <1>1 DEF LetterInv, Drives, Plugged
<1>3. LetteredOK'
    BY <1>1 DEF Invoke, LetterInv, LetteredOK, Leads, NumberBehind, Plugged
<1>4. cmd' \in Lines /\ pc' = FirstStage(cmd') /\ target' = Named(cmd')
    BY DEF Invoke
<1>5. ByLetter' => pc' = "volume" /\ target' = Nothing
    BY <1>4, CmdType, Distinct DEF ByLetter
<1>6. FollowedOK' /\ WaitsOK'
    BY <1>5 DEF Invoke, FollowedOK, WaitsOK
<1> QED
    BY <1>2, <1>3, <1>6

LEMMA LetterMove ==
    ASSUME LetterInv, Move
    PROVE  Drives' /\ LetteredOK' /\ FollowedOK' /\ WaitsOK'
<1>1. steady' = FALSE /\ shown' = {}
    BY DEF Move
<1>2. LetteredOK' /\ WaitsOK'
    BY <1>1 DEF LetteredOK, WaitsOK
<1>3. FollowedOK'
    BY <1>1 DEF Move, choice, LetterInv, FollowedOK, ByLetter
<1>4. Drives'
    <2> USE DEF LetterInv, TypeInv, TypeOK, Drives, Plugged
    <2>1. CASE Plug
        BY <2>1, Distinct DEF Plug
    <2>2. CASE Unplug
        BY <2>2, Distinct DEF Unplug
    <2>3. CASE Assign
        BY <2>3, Distinct DEF Assign
    <2> QED
        BY <2>1, <2>2, <2>3 DEF Move
<1> QED
    BY <1>2, <1>3, <1>4

\* No step of the program moves anything.
LEMMA Still ==
    ASSUME Step
    PROVE  /\ UNCHANGED <<cmd, number, letter, steady>>
           /\ NumberBehind(letter[cmd.selector])'
                = NumberBehind(letter[cmd.selector])
           /\ \A l, d : Leads(l, d)' <=> Leads(l, d)
           /\ ByLetter' <=> ByLetter
           /\ Drives' <=> Drives
<1>1. UNCHANGED <<cmd, number, letter, steady>>
    BY DEF Step, QueryVolume, Enumerate, EnumerationFails, QueryLetter,
           LettersDone, AttachLetter, Attached, Compare, NoneCompares, Ask,
           Answered, OpenAndCommand, world
<1> QED
    BY <1>1 DEF NumberBehind, Leads, Plugged, ByLetter, Drives

\* The letters found so far, and the one attached to a candidate.
LEMMA LetteredStep ==
    ASSUME LetterInv, Step
    PROVE  LetteredOK'
<1> USE Still DEF LetterInv, LetteredOK
<1>1. CASE QueryLetter
    <2>1. UNCHANGED <<selectors, shown>>
        BY <1>1 DEF QueryLetter
    <2>2. PICK l : \/ /\ NumberBehind(letter[l]) # None
                      /\ firstLetter' =
                           [firstLetter EXCEPT ![NumberBehind(letter[l])] =
                              IF @ = None THEN l ELSE @]
                   \/ UNCHANGED firstLetter
        BY <1>1 DEF QueryLetter
    <2>3. ASSUME steady, NEW n \in Numbers, firstLetter'[n] # None
          PROVE  NumberBehind(letter[firstLetter'[n]]) = n
        BY <2>2, <2>3 DEF TypeInv, TypeOK
    <2>4. \A n \in Numbers :
             NumberBehind(letter[firstLetter[n]])'
                = NumberBehind(letter[firstLetter'[n]])
        BY DEF NumberBehind
    <2> QED
        BY <2>1, <2>3, <2>4
<1>2. CASE AttachLetter
    <2>1. UNCHANGED <<firstLetter, shown>>
        BY <1>2 DEF AttachLetter
    <2>2. PICK d \in todo :
              \/ /\ number[d] # None
                 /\ selectors' = [selectors EXCEPT ![d] =
                                     firstLetter[number[d]]]
              \/ UNCHANGED selectors
        BY <1>2 DEF AttachLetter
    <2>3. ASSUME steady, NEW e \in Disks, selectors'[e] # None
          PROVE  Leads(selectors'[e], e)
        BY <2>2, <2>3 DEF TypeInv, TypeOK, Leads, Plugged
    <2>4. \A n \in Numbers :
             NumberBehind(letter[firstLetter[n]])'
                = NumberBehind(letter[firstLetter[n]])
        BY <2>1 DEF NumberBehind
    <2>5. \A e \in Disks : Leads(selectors[e], e)' <=> Leads(selectors'[e], e)
        BY DEF Leads, NumberBehind, Plugged
    <2> QED
        BY <2>1, <2>3, <2>4, <2>5
<1>3. ASSUME UNCHANGED <<firstLetter, selectors>>,
             \A s \in shown' : s \in shown \/ (steady /\ Leads(s[1], s[2]))
      PROVE  LetteredOK'
    <2>1. \A n \in Numbers :
             NumberBehind(letter[firstLetter[n]])'
                = NumberBehind(letter[firstLetter[n]])
        BY <1>3 DEF NumberBehind
    <2>2. \A e \in Disks : Leads(selectors[e], e)' <=> Leads(selectors[e], e)
        BY <1>3 DEF Leads, NumberBehind, Plugged
    <2>3. \A s \in shown' : Leads(s[1], s[2])' /\ steady'
        BY <1>3
    <2> QED
        BY <1>3, <2>1, <2>2, <2>3
<1>4. CASE Ask
    <2>1. UNCHANGED <<firstLetter, selectors>>
        BY <1>4 DEF Ask, correlation
    <2>2. PICK d \in todo :
              \/ shown' = shown
              \/ /\ steady /\ selectors[d] # None
                 /\ shown' = shown \union {<<selectors[d], d>>}
        BY <1>4 DEF Ask
    <2>3. d \in Disks
        BY DEF TypeInv, TypeOK
    <2> QED
        BY <1>3, <2>1, <2>2, <2>3
<1>5. CASE \/ QueryVolume \/ Enumerate \/ EnumerationFails \/ LettersDone
           \/ Attached \/ Compare \/ NoneCompares \/ Answered
           \/ OpenAndCommand
    <2>1. UNCHANGED <<firstLetter, selectors, shown>>
        BY <1>5 DEF QueryVolume, Enumerate, EnumerationFails, LettersDone,
                    Attached, Compare, NoneCompares, Answered,
                    OpenAndCommand, correlation
    <2> QED
        BY <1>3, <2>1
<1> QED
    BY <1>1, <1>2, <1>4, <1>5 DEF Step

\* Two disks of one number are one.
LEMMA OneDisk ==
    ASSUME LetterInv, NEW d \in Disks, NEW e \in Disks,
           number[d] = number[e], Plugged(d)
    PROVE  d = e
BY DEF LetterInv, Drives

\* The number behind the letter of a disk is that of the disk.
LEMMA LetterOfDisk ==
    ASSUME LetterInv, NEW l \in Letters, letter[l] \in Disks
    PROVE  /\ NumberBehind(letter[l]) = number[letter[l]]
           /\ number[letter[l]] # None /\ Plugged(letter[l])
BY Distinct DEF LetterInv, Drives, NumberBehind, Plugged

LEMMA FollowedStep ==
    ASSUME LetterInv, Step, ByLetter
    PROVE  FollowedOK'
<1>1. /\ cmd.op = "command" /\ cmd.selector \in Letters
      /\ pc \in {"volume", "enum", "compare", "open", "exited"}
    BY DEF ByLetter, LetterInv, FollowedOK
<1> USE Still, Distinct
        DEF LetterInv, FollowedOK, ByLetter, Advance, End, correlation, choice
<1>2. CASE QueryVolume
    BY <1>2 DEF QueryVolume
<1>3. CASE Enumerate
    <2>1. pc' = "compare"
        BY <1>1, <1>3 DEF Enumerate
    <2> QED
        BY <1>3, <2>1 DEF Enumerate
<1>4. CASE EnumerationFails
    BY <1>4 DEF EnumerationFails
<1>5. CASE Compare
    <2>1. /\ UNCHANGED <<wanted, served>> /\ pc = "compare"
          /\ wanted # None /\ served = {} /\ target = Nothing
        BY <1>5 DEF Compare
    <2>2. \/ \E d \in todo : number[d] = wanted /\ target' = d /\ pc' = "open"
          \/ UNCHANGED <<pc, target>>
        BY <1>5 DEF Compare
    <2>3. CASE UNCHANGED <<pc, target>>
        BY <2>1, <2>3
    <2>4. CASE \E d \in todo :
                  number[d] = wanted /\ target' = d /\ pc' = "open"
        <3>1. PICK d \in todo :
                  number[d] = wanted /\ target' = d /\ pc' = "open"
            BY <2>4
        <3>2. steady => Leads(cmd.selector, d)
            BY <2>1, <3>1 DEF Leads, Plugged
        <3> QED
            BY <2>1, <3>1, <3>2
    <2> QED
        BY <2>2, <2>3, <2>4
<1>6. CASE NoneCompares
    BY <1>6 DEF NoneCompares
<1>7. CASE OpenAndCommand
    BY <1>7 DEF OpenAndCommand, TypeInv, StageOK
<1>8. CASE \/ QueryLetter \/ LettersDone \/ AttachLetter \/ Attached
           \/ Ask \/ Answered
    <2>1. pc \in {"letters", "attach", "ask"}
        BY <1>8 DEF QueryLetter, LettersDone, AttachLetter, Attached, Ask,
                    Answered
    <2> QED
        BY <1>1, <2>1
<1> QED
    BY <1>2, <1>3, <1>4, <1>5, <1>6, <1>7, <1>8 DEF Step

LEMMA WaitsStep ==
    ASSUME LetterInv, Step, ByLetter
    PROVE  WaitsOK'
<1> SUFFICES ASSUME steady, letter[cmd.selector] \in Disks,
                    IsListed(letter[cmd.selector]), ~missed'
             PROVE  /\ pc' = "compare" => letter[cmd.selector] \in todo'
                    /\ pc' = "exited" /\ err' = "NotFound" =>
                          wanted' = None \/ target' # Nothing
    BY Still DEF WaitsOK, IsListed
<1> DEFINE D == letter[cmd.selector]
<1>1. /\ cmd.op = "command" /\ cmd.selector \in Letters
      /\ pc \in {"volume", "enum", "compare", "open", "exited"}
      /\ pc = "volume" => wanted = None
    BY DEF ByLetter, LetterInv, FollowedOK
<1>2. number[D] # None /\ NumberBehind(D) = number[D] /\ Plugged(D)
    BY <1>1, LetterOfDisk
<1>3. ~missed /\ pc = "compare" => D \in todo
    BY DEF LetterInv, WaitsOK
<1> USE DEF Advance, End
<1>4. CASE QueryVolume
    BY <1>1, <1>4 DEF QueryVolume
<1>5. CASE Enumerate
    <2>1. PICK lost \in SUBSET { d \in Disks : Plugged(d) } :
              /\ candidates' =
                    { d \in Disks : Plugged(d) /\ IsListed(d) } \ lost
              /\ missed' = (lost # {})
        BY <1>5 DEF Enumerate
    <2>2. D \in todo'
        BY <1>2, <1>5, <2>1 DEF Enumerate
    <2>3. pc' = "compare"
        BY <1>1, <1>5, Distinct DEF Enumerate
    <2> QED
        BY <2>2, <2>3
<1>6. CASE EnumerationFails
    BY <1>6, ErrorTypes DEF EnumerationFails
<1>7. CASE Compare
    <2>1. PICK d \in todo :
              /\ todo' = todo \ {d}
              /\ \/ number[d] = wanted /\ pc' = "open" /\ missed' = missed
                 \/ number[d] # wanted /\ pc' = pc /\ missed' = missed
                 \/ missed' = TRUE
        BY <1>7 DEF Compare
    <2>2. pc = "compare" /\ wanted # None
        BY <1>7 DEF Compare, LetterInv, FollowedOK, ByLetter
    <2>3. wanted = number[D]
        BY <1>2, <2>2 DEF LetterInv, FollowedOK, ByLetter
    <2> QED
        BY <1>3, <2>1, <2>2, <2>3
<1>8. CASE NoneCompares
    <2>1. ~missed /\ todo = {} /\ pc = "compare"
        BY <1>8 DEF NoneCompares
    <2> QED
        BY <1>3, <2>1
<1>9. CASE OpenAndCommand
    BY <1>9, Distinct
       DEF OpenAndCommand, choice, LetterInv, TypeInv, StageOK
<1>10. CASE \/ QueryLetter \/ LettersDone \/ AttachLetter \/ Attached
            \/ Ask \/ Answered
    <2>1. pc \in {"letters", "attach", "ask"}
        BY <1>10 DEF QueryLetter, LettersDone, AttachLetter, Attached, Ask,
                     Answered
    <2> QED
        BY <1>1, <2>1
<1> QED
    BY <1>4, <1>5, <1>6, <1>7, <1>8, <1>9, <1>10 DEF Step

LEMMA LetterStep == LetterInv /\ [Next]_vars => LetterInv'
<1> SUFFICES ASSUME LetterInv, [Next]_vars
             PROVE  Drives' /\ LetteredOK' /\ FollowedOK' /\ WaitsOK'
    BY TypeStep, ListStep DEF LetterInv, ListInv
<1>1. CASE UNCHANGED vars
    <2>1. /\ UNCHANGED <<cmd, pc, wanted, firstLetter, selectors, todo, target,
                         err, served, number, letter, missed, shown, steady>>
        BY <1>1 DEF vars, correlation, choice, world
    <2> QED
        BY <2>1 DEF LetterInv, Drives, LetteredOK, FollowedOK, WaitsOK, Leads,
                    NumberBehind, Plugged, ByLetter, IsListed
<1>2. CASE Invoke
    BY <1>2, LetterInvoke
<1>3. CASE Move
    BY <1>3, LetterMove
<1>4. CASE Step
    <2>1. Drives' /\ LetteredOK'
        BY <1>4, Still, LetteredStep DEF LetterInv
    <2>2. ~ByLetter => FollowedOK' /\ WaitsOK'
        BY <1>4, Still DEF FollowedOK, WaitsOK
    <2> QED
        BY <1>4, <2>1, <2>2, FollowedStep, WaitsStep
<1> QED
    BY <1>2, <1>3, <1>4, <1>1 DEF Next

\* The letter of a disk leads to this disk, and does so whenever the disk is
\* allowlisted and no query fails.
THEOREM VolumesLetterIsTheDrive == Spec => []LetterIsTheDrive
<1>1. ASSUME LetterInv
      PROVE  LetterIsTheDrive
    <2> SUFFICES ASSUME ByLetter, steady, letter[cmd.selector] \in Disks
                 PROVE  /\ served \subseteq {letter[cmd.selector]}
                        /\ (/\ pc = "exited" /\ err = "NotFound"
                            /\ wanted # None /\ target = Nothing) =>
                              \/ missed
                              \/ Instance[letter[cmd.selector]]
                                    # "usb_vid_jieli"
        BY DEF LetterIsTheDrive
    <2>1. /\ served \subseteq {target} \intersect Disks
          /\ target # Nothing => Leads(cmd.selector, target)
        BY <1>1 DEF LetterInv, FollowedOK
    <2>2. /\ NumberBehind(letter[cmd.selector]) = number[letter[cmd.selector]]
          /\ Plugged(letter[cmd.selector])
        BY <1>1, LetterOfDisk DEF ByLetter
    <2>3. target \in Disks => target = letter[cmd.selector]
        BY <1>1, <2>1, <2>2, OneDisk, Distinct DEF Leads
    <2> QED
        BY <1>1, <2>1, <2>3 DEF LetterInv, WaitsOK, IsListed
<1> QED
    BY <1>1, LetterInit, LetterStep, PTL DEF Spec

\* A selector that find has shown, used while nothing has moved since, leads
\* to the very device it was shown for.
THEOREM VolumesShownSelectorWorks == Spec => []ShownSelectorWorks
<1>1. ASSUME LetterInv
      PROVE  ShownSelectorWorks
    <2> SUFFICES ASSUME ByLetter, NEW s \in shown, s[1] = cmd.selector,
                        NEW t \in served
                 PROVE  t = s[2]
        BY DEF ShownSelectorWorks
    <2>1. s[2] \in Disks /\ Leads(cmd.selector, s[2]) /\ steady
        BY <1>1 DEF LetterInv, LetteredOK, TypeInv, TypeOK
    <2>2. t \in Disks /\ t = target /\ t # Nothing
        BY <1>1, Distinct DEF LetterInv, FollowedOK
    <2>3. Leads(cmd.selector, t)
        BY <1>1, <2>1, <2>2 DEF LetterInv, FollowedOK
    <2> QED
        BY <1>1, <2>1, <2>2, <2>3, OneDisk DEF Leads
<1> QED
    BY <1>1, LetterInit, LetterStep, PTL DEF Spec
=============================================================================
