---------------------------- MODULE RunnerProofs ----------------------------
(***************************************************************************)
(* The safety properties of Runner for any number of invocations, any      *)
(* files, chunk sizes and addresses, any number of device resets, and both *)
(* values of ShortTransfers unless a theorem says otherwise: what memory   *)
(* holds, then what the exit codes say, then that LoadAndJump is           *)
(* implemented.                                                            *)
(***************************************************************************)
EXTENDS RunnerRefines, ImagesProofs

BeforeLoad == {"idle", "read", "resolve", "open"}
AfterLoad == {"jump", "finish"}

-----------------------------------------------------------------------------
(* The inductive invariants, in the order the theorems need them. *)

\* Invocations that overlap in time have compatible placements.
OverlapIsCompatible ==
    \A p, q \in Procs :
        p # q /\ Running(p) /\ Running(q) => Compatible(opts[p], opts[q])

\* What the program counter says about the counters of the same invocation.
ControlOK ==
    \A p \in Procs :
        /\ pc[p] \in BeforeLoad => idx[p] = 0 /\ issued[p] = {}
                                              /\ said[p] = {}
        /\ pc[p] = "load" => said[p] = {}
        /\ pc[p] \in AfterLoad => ~MoreChunks(p)
        /\ pc[p] # "exited" => err[p] = NoFailure

\* The device holds what it acknowledged to an invocation whose open file is
\* still good.
AckedIsLoaded ==
    \A p \in Procs :
        pc[p] \in {"load"} \union AfterLoad /\ Live(p)
            => HoldsPrefix(mem, opts[p], Acked(p))

\* A file is opened on the device generation of its time.
OpenedInThePast == \A p \in Procs : fd[p] <= gen

MemInv ==
    /\ TypeOK
    /\ OpenedInThePast
    /\ OverlapIsCompatible
    /\ ControlOK
    /\ AckedIsLoaded
    /\ JumpOnlyIntoLoadedImage

-----------------------------------------------------------------------------
LEMMA ChunkType ==
    ASSUME TypeOK, NEW p \in Procs
    PROVE  /\ opts[p].file \in Files
           /\ opts[p].address \in Addrs
           /\ Chunk(p) \in Nat \ {0}
           /\ idx[p] \in Nat
           /\ Size[opts[p].file] \in Nat
           /\ AddrSpace \in Nat \ {0}
<1>1. opts[p] \in Options
    BY DEF TypeOK
<1>2. opts[p].file \in Files /\ opts[p].address \in Addrs
         /\ opts[p].chunk \in Nat
    BY <1>1, RunnerAssumption
<1> QED
    BY <1>2, EffectiveChunkPositive, ImagesAssumption, ChunksAssumption
    DEF Chunk, TypeOK

\* Once the loop has ended, everything is acknowledged.
LEMMA AllAcked ==
    ASSUME TypeOK, NEW p \in Procs, ~MoreChunks(p)
    PROVE  Acked(p) = Size[opts[p].file]
BY ChunkType DEF MoreChunks, HasChunk, ChunkStart, Acked, BytesDone

\* RAM stays well typed whatever part of a chunk arrives.
LEMMA AfterType ==
    ASSUME TypeOK, NEW p \in Procs, MoreChunks(p), NEW n \in 0 .. NextLen(p)
    PROVE  After(p, n) \in [Addrs -> Cells]
<1>1. mem \in [Addrs -> Cells]
    BY DEF TypeOK
<1> QED
    BY <1>1, ChunkType, StoredType DEF After, MoreChunks, NextLen

LEMMA MovedInRange ==
    ASSUME TypeOK, NEW p \in Procs, MoreChunks(p), NEW n \in Moved(NextLen(p))
    PROVE  n \in 0 .. NextLen(p)
<1>1. NextLen(p) \in Nat
    BY ChunkType, ChunkInside DEF MoreChunks, NextLen
<1> QED
    BY <1>1 DEF Moved

-----------------------------------------------------------------------------
LEMMA InitType == Init => TypeOK
<1> SUFFICES ASSUME Init PROVE TypeOK
    OBVIOUS
<1>1. MaxResets \in Nat
    BY RunnerAssumption
<1> QED
    BY <1>1 DEF Init, TypeOK, Stages, NotOpen, NoFailure, NoBoot, ErrorKinds,
       NoError, Cells

LEMMA FailType ==
    ASSUME TypeOK, NEW p \in Procs, NEW kind \in ErrorKinds, Fail(p, kind)
    PROVE  /\ pc' \in [Procs -> Stages]
           /\ err' \in [Procs -> [kind : ErrorKinds, at : Stages]]
BY DEF TypeOK, Fail, Stages

LEMMA AdvanceType ==
    ASSUME TypeOK, NEW p \in Procs, NEW s \in Stages, Advance(p, s)
    PROVE  /\ pc' \in [Procs -> Stages]
           /\ err' \in [Procs -> [kind : ErrorKinds, at : Stages]]
BY DEF TypeOK, Advance

\* Every step keeps the types.
LEMMA NextType == TypeOK /\ [Next]_vars => TypeOK'
<1> SUFFICES ASSUME TypeOK, [Next]_vars PROVE TypeOK'
    OBVIOUS
<1> USE DEF Stages, ErrorKinds, TransportErrors, ProtocolErrors, ExecErrors,
            Failures, OpenErrors, ResolveErrors
<1>1. ASSUME NEW p \in Procs, Start(p) PROVE TypeOK'
    <2>1. /\ pc' \in [Procs -> Stages]
          /\ err' \in [Procs -> [kind : ErrorKinds, at : Stages]]
        BY <1>1, FailType, AdvanceType DEF Start
    <2> QED
        BY <1>1, <2>1 DEF Start, TypeOK, session, device
<1>2. ASSUME NEW p \in Procs, ReadFile(p) PROVE TypeOK'
    <2>1. /\ pc' \in [Procs -> Stages]
          /\ err' \in [Procs -> [kind : ErrorKinds, at : Stages]]
        BY <1>2, FailType, AdvanceType DEF ReadFile
    <2> QED
        BY <1>2, <2>1 DEF ReadFile, TypeOK, session, device
<1>3. ASSUME NEW p \in Procs, Resolve(p) PROVE TypeOK'
    <2>1. /\ pc' \in [Procs -> Stages]
          /\ err' \in [Procs -> [kind : ErrorKinds, at : Stages]]
        BY <1>3, FailType, AdvanceType DEF Resolve
    <2> QED
        BY <1>3, <2>1 DEF Resolve, TypeOK, session, device
<1>4. ASSUME NEW p \in Procs, Open(p) PROVE TypeOK'
    <2>1. /\ pc' \in [Procs -> Stages]
          /\ err' \in [Procs -> [kind : ErrorKinds, at : Stages]]
        BY <1>4, FailType, AdvanceType DEF Open
    <2>2. gen \in 0 .. MaxResets + 1
        BY RunnerAssumption DEF TypeOK
    <2> QED
        BY <1>4, <2>1, <2>2 DEF Open, TypeOK, device
<1>5. ASSUME NEW p \in Procs, RejectChunk(p) PROVE TypeOK'
    <2>1. /\ pc' \in [Procs -> Stages]
          /\ err' \in [Procs -> [kind : ErrorKinds, at : Stages]]
        BY <1>5, FailType DEF RejectChunk
    <2> QED
        BY <1>5, <2>1 DEF RejectChunk, TypeOK, session, device
<1>6. ASSUME NEW p \in Procs, SendChunk(p) PROVE TypeOK'
    <2>1. mem' \in [Addrs -> Cells]
        BY <1>6, AfterType, MovedInRange DEF SendChunk, Sending
    <2>2. idx' \in [Procs -> Nat]
        BY <1>6 DEF SendChunk, NextChunk, TypeOK
    <2> QED
        BY <1>6, <2>1, <2>2 DEF SendChunk, Sending, TypeOK
<1>7. ASSUME NEW p \in Procs, SendChunkFails(p) PROVE TypeOK'
    <2>1. mem' \in [Addrs -> Cells]
        BY <1>7, AfterType DEF SendChunkFails, Sending
    <2>2. /\ pc' \in [Procs -> Stages]
          /\ err' \in [Procs -> [kind : ErrorKinds, at : Stages]]
        BY <1>7, FailType DEF SendChunkFails
    <2> QED
        BY <1>7, <2>1, <2>2 DEF SendChunkFails, Sending, TypeOK
<1>8. ASSUME NEW p \in Procs, ReportLoaded(p) PROVE TypeOK'
    <2>1. /\ pc' \in [Procs -> Stages]
          /\ err' \in [Procs -> [kind : ErrorKinds, at : Stages]]
        BY <1>8, FailType, AdvanceType DEF ReportLoaded
    <2>2. said' \in [Procs -> SUBSET {"loaded", "jumped"}]
        BY <1>8 DEF ReportLoaded, TypeOK
    <2> QED
        BY <1>8, <2>1, <2>2 DEF ReportLoaded, TypeOK, device
<1>9. ASSUME NEW p \in Procs, RejectJump(p) PROVE TypeOK'
    <2>1. /\ pc' \in [Procs -> Stages]
          /\ err' \in [Procs -> [kind : ErrorKinds, at : Stages]]
        BY <1>9, FailType DEF RejectJump
    <2> QED
        BY <1>9, <2>1 DEF RejectJump, TypeOK, session, device
<1>10. ASSUME NEW p \in Procs, JumpReplied(p) PROVE TypeOK'
    <2>1. /\ pc' \in [Procs -> Stages]
          /\ err' \in [Procs -> [kind : ErrorKinds, at : Stages]]
        BY <1>10, FailType, AdvanceType DEF JumpReplied
    <2>2. /\ boot' \in {NoBoot} \union [by : Procs, ram : [Addrs -> Cells]]
          /\ started' \in SUBSET Procs
        BY <1>10 DEF JumpReplied, Enter, TypeOK
    <2> QED
        BY <1>10, <2>1, <2>2 DEF JumpReplied, Jumping, TypeOK
<1>11. ASSUME NEW p \in Procs, JumpFails(p) PROVE TypeOK'
    <2>1. /\ pc' \in [Procs -> Stages]
          /\ err' \in [Procs -> [kind : ErrorKinds, at : Stages]]
        BY <1>11, FailType DEF JumpFails
    <2>2. /\ boot' \in {NoBoot} \union [by : Procs, ram : [Addrs -> Cells]]
          /\ started' \in SUBSET Procs
        BY <1>11 DEF JumpFails, Enter, TypeOK
    <2> QED
        BY <1>11, <2>1, <2>2 DEF JumpFails, Jumping, TypeOK
<1>12. ASSUME NEW p \in Procs, ReportJumped(p) PROVE TypeOK'
    <2>1. /\ pc' \in [Procs -> Stages]
          /\ err' \in [Procs -> [kind : ErrorKinds, at : Stages]]
        BY <1>12, FailType, AdvanceType DEF ReportJumped
    <2> QED
        BY <1>12, <2>1 DEF ReportJumped, TypeOK, device
<1>13. ASSUME NEW p \in Procs, Kill(p) PROVE TypeOK'
    <2>1. /\ pc' \in [Procs -> Stages]
          /\ err' \in [Procs -> [kind : ErrorKinds, at : Stages]]
        BY <1>13, FailType DEF Kill
    <2> QED
        BY <1>13, <2>1 DEF Kill, TypeOK, session, device
<1>14. CASE Reset
    <2>1. mem' \in [Addrs -> Cells]
        BY <1>14 DEF Reset, Cells
    <2>2. gen' \in 1 .. MaxResets + 1
        BY <1>14, RunnerAssumption DEF Reset, TypeOK
    <2> QED
        BY <1>14, <2>1, <2>2 DEF Reset, TypeOK, session
<1>15. CASE UNCHANGED vars
    BY <1>15 DEF vars, TypeOK
<1> QED
    BY <1>1, <1>2, <1>3, <1>4, <1>5, <1>6, <1>7, <1>8, <1>9, <1>10, <1>11,
       <1>12, <1>13, <1>14, <1>15 DEF Next, Step

\* Every reachable state is well typed.
THEOREM RunnerTypeOK == Spec => []TypeOK
BY InitType, NextType, PTL DEF Spec

-----------------------------------------------------------------------------
(* What one step of an invocation does to the control state. *)

SessionStep(p) == Start(p) \/ Step(p) \/ Kill(p)

\* A step of p leaves the local state of every other invocation alone.
LEMMA OtherSessions ==
    ASSUME TypeOK, NEW p \in Procs, SessionStep(p), NEW q \in Procs, q # p
    PROVE  /\ pc'[q] = pc[q] /\ err'[q] = err[q] /\ idx'[q] = idx[q]
           /\ fd'[q] = fd[q] /\ said'[q] = said[q]
           /\ issued'[q] = issued[q]
<1> USE DEF TypeOK, Fail, Advance, session
<1>1. CASE Start(p)         BY <1>1 DEF Start
<1>2. CASE ReadFile(p)      BY <1>2 DEF ReadFile
<1>3. CASE Resolve(p)       BY <1>3 DEF Resolve
<1>4. CASE Open(p)          BY <1>4 DEF Open
<1>5. CASE RejectChunk(p)   BY <1>5 DEF RejectChunk
<1>6. CASE SendChunk(p)     BY <1>6 DEF SendChunk, Sending
<1>7. CASE SendChunkFails(p) BY <1>7 DEF SendChunkFails, Sending
<1>8. CASE ReportLoaded(p)  BY <1>8 DEF ReportLoaded
<1>9. CASE RejectJump(p)    BY <1>9 DEF RejectJump
<1>10. CASE JumpReplied(p)  BY <1>10 DEF JumpReplied, Jumping
<1>11. CASE JumpFails(p)    BY <1>11 DEF JumpFails, Jumping
<1>12. CASE ReportJumped(p) BY <1>12 DEF ReportJumped
<1>13. CASE Kill(p)         BY <1>13 DEF Kill
<1> QED
    BY <1>1, <1>2, <1>3, <1>4, <1>5, <1>6, <1>7, <1>8, <1>9, <1>10, <1>11,
       <1>12, <1>13 DEF SessionStep, Step

\* The command line never changes.
LEMMA OptsFixed == ASSUME [Next]_vars PROVE opts' = opts
BY DEF Next, Step, vars, Start, ReadFile, Resolve, Open, RejectChunk, SendChunk,
   SendChunkFails, ReportLoaded, RejectJump, JumpReplied, JumpFails, Jumping,
   ReportJumped, Kill, Reset

LEMMA StepIsNext == ASSUME NEW p \in Procs, SessionStep(p) PROVE Next
BY DEF SessionStep, Next

-----------------------------------------------------------------------------
(* The control invariants are inductive together with the types. *)

LEMMA ControlStep ==
    ASSUME TypeOK, ControlOK, NEW p \in Procs, SessionStep(p)
    PROVE  ControlOK'
<1>1. opts' = opts
    BY StepIsNext, OptsFixed
<1>2. ASSUME NEW q \in Procs, q # p
      PROVE  /\ pc'[q] \in BeforeLoad => idx'[q] = 0 /\ issued'[q] = {}
                                                     /\ said'[q] = {}
             /\ pc'[q] = "load" => said'[q] = {}
             /\ pc'[q] \in AfterLoad => ~MoreChunks(q)'
             /\ pc'[q] # "exited" => err'[q] = NoFailure
    BY <1>1, <1>2, OtherSessions DEF ControlOK, MoreChunks, Chunk
<1>3. /\ pc'[p] \in BeforeLoad => idx'[p] = 0 /\ issued'[p] = {}
                                              /\ said'[p] = {}
      /\ pc'[p] = "load" => said'[p] = {}
      /\ pc'[p] \in AfterLoad => ~MoreChunks(p)'
      /\ pc'[p] # "exited" => err'[p] = NoFailure
    <2> USE <1>1 DEF TypeOK, ControlOK, Fail, Advance, session, BeforeLoad,
                     AfterLoad, MoreChunks, Chunk
    <2>1. CASE Start(p)         BY <2>1 DEF Start
    <2>2. CASE ReadFile(p)      BY <2>2 DEF ReadFile
    <2>3. CASE Resolve(p)       BY <2>3 DEF Resolve
    <2>4. CASE Open(p)          BY <2>4 DEF Open
    <2>5. CASE RejectChunk(p)   BY <2>5 DEF RejectChunk
    <2>6. CASE SendChunk(p)     BY <2>6 DEF SendChunk, Sending
    <2>7. CASE SendChunkFails(p) BY <2>7 DEF SendChunkFails, Sending
    <2>8. CASE ReportLoaded(p)  BY <2>8 DEF ReportLoaded
    <2>9. CASE RejectJump(p)    BY <2>9 DEF RejectJump
    <2>10. CASE JumpReplied(p)  BY <2>10 DEF JumpReplied, Jumping
    <2>11. CASE JumpFails(p)    BY <2>11 DEF JumpFails, Jumping
    <2>12. CASE ReportJumped(p) BY <2>12 DEF ReportJumped
    <2>13. CASE Kill(p)         BY <2>13 DEF Kill
    <2> QED
        BY <2>1, <2>2, <2>3, <2>4, <2>5, <2>6, <2>7, <2>8, <2>9, <2>10,
           <2>11, <2>12, <2>13 DEF SessionStep, Step
<1> QED
    BY <1>2, <1>3 DEF ControlOK

\* Only Start makes an invocation running, and it checks compatibility.
LEMMA OverlapStep ==
    ASSUME TypeOK, OverlapIsCompatible, NEW p \in Procs, SessionStep(p)
    PROVE  OverlapIsCompatible'
<1>1. opts' = opts
    BY StepIsNext, OptsFixed
<1>2. ASSUME NEW q \in Procs, q # p PROVE pc'[q] = pc[q]
    BY <1>2, OtherSessions
<1>3. CASE Start(p)
    <2>1. \A q \in Procs : Running(q) => /\ Compatible(opts[p], opts[q])
                                         /\ Compatible(opts[q], opts[p])
        BY <1>3 DEF Start, MayStart, Compatible
    <2> QED
        BY <1>1, <1>2, <2>1 DEF OverlapIsCompatible, Running, Compatible
<1>4. CASE Step(p) \/ Kill(p)
    <2>1. Running(p)
        BY <1>4 DEF Running, Step, Kill, ReadFile, Resolve, Open, RejectChunk,
           SendChunk, SendChunkFails, Sending, ReportLoaded, RejectJump,
           JumpReplied, JumpFails, Jumping, ReportJumped
    <2> QED
        BY <1>1, <1>2, <2>1 DEF OverlapIsCompatible, Running, Compatible
<1> QED
    BY <1>3, <1>4 DEF SessionStep

LEMMA OpenedStep ==
    ASSUME TypeOK, OpenedInThePast, NEW p \in Procs, SessionStep(p)
    PROVE  OpenedInThePast' /\ gen' = gen
<1>1. gen' = gen /\ (fd' = fd \/ fd' = [fd EXCEPT ![p] = gen])
    BY DEF SessionStep, Step, Start, ReadFile, Resolve, Open, RejectChunk,
       SendChunk, SendChunkFails, Sending, ReportLoaded, RejectJump,
       JumpReplied, JumpFails, Jumping, ReportJumped, Kill, session, device
<1>2. gen \in Nat
    BY RunnerAssumption DEF TypeOK
<1> QED
    BY <1>1, <1>2 DEF OpenedInThePast, TypeOK

-----------------------------------------------------------------------------
(* The memory invariant. *)

\* A chunk of p, whole or partial, keeps what memory holds for a running q.
LEMMA ChunkKeepsOthers ==
    ASSUME TypeOK, OverlapIsCompatible, NEW p \in Procs, NEW q \in Procs,
           p # q, Running(p), Running(q), MoreChunks(p),
           NEW n \in 0 .. NextLen(p), NEW k, HoldsPrefix(mem, opts[q], k)
    PROVE  HoldsPrefix(After(p, n), opts[q], k)
<1>1. Compatible(opts[q], opts[p])
    BY DEF OverlapIsCompatible
<1> QED
    BY <1>1, ChunkType, StoredKeepsCompatible
    DEF After, MoreChunks, NextLen

\* A chunk that arrives whole makes p's loaded prefix one chunk longer.
LEMMA ChunkExtendsOwn ==
    ASSUME TypeOK, NEW p \in Procs, MoreChunks(p),
           HoldsPrefix(mem, opts[p], Acked(p))
    PROVE  HoldsPrefix(After(p, NextLen(p)), opts[p],
                       BytesDone(Size[opts[p].file], Chunk(p), idx[p] + 1))
BY ChunkType, StoredExtendsPrefix DEF After, MoreChunks, NextLen, Acked

\* Nothing is claimed of an invocation that has just opened the device.
LEMMA NothingAcked ==
    ASSUME TypeOK, NEW p \in Procs, idx[p] = 0, NEW m
    PROVE  HoldsPrefix(m, opts[p], Acked(p))
<1>1. Acked(p) = 0
    BY ChunkType DEF Acked, BytesDone
<1>2. ASSUME NEW a \in Addrs PROVE Offset(opts[p], a) >= 0
    BY ChunkType DEF Offset, Addrs
<1>3. ASSUME NEW a \in Addrs PROVE ~(Offset(opts[p], a) < 0)
    <2>1. Offset(opts[p], a) \in Int
        BY ChunkType DEF Offset, Addrs
    <2> QED
        BY <1>2, <2>1
<1> QED
    BY <1>1, <1>3 DEF HoldsPrefix

LEMMA AckedStep ==
    ASSUME MemInv, ShortTransfers = FALSE, NEW p \in Procs, SessionStep(p)
    PROVE  AckedIsLoaded'
<1> USE DEF MemInv
<1>1. opts' = opts /\ gen' = gen
    BY StepIsNext, OptsFixed, OpenedStep
<1>2. ASSUME NEW q \in Procs, q # p
      PROVE  pc'[q] = pc[q] /\ idx'[q] = idx[q] /\ fd'[q] = fd[q]
    BY <1>2, OtherSessions
<1>3. ASSUME NEW q \in Procs, q # p, mem' = mem,
             pc'[q] \in {"load"} \union AfterLoad, Live(q)'
      PROVE  HoldsPrefix(mem', opts'[q], Acked(q)')
    BY <1>1, <1>2, <1>3 DEF AckedIsLoaded, Live, Acked, Chunk
<1>4. ASSUME NEW q \in Procs, q # p, Running(p), MoreChunks(p),
             NEW n \in 0 .. NextLen(p), mem' = After(p, n),
             pc'[q] \in {"load"} \union AfterLoad, Live(q)'
      PROVE  HoldsPrefix(mem', opts'[q], Acked(q)')
    <2>1. HoldsPrefix(mem, opts[q], Acked(q)) /\ Running(q)
        BY <1>1, <1>2, <1>4 DEF AckedIsLoaded, Live, Running, AfterLoad
    <2>2. HoldsPrefix(After(p, n), opts[q], Acked(q))
        BY <1>4, <2>1, ChunkKeepsOthers
    <2>3. Acked(q)' = Acked(q)
        BY <1>1, <1>2, <1>4 DEF Acked, Chunk
    <2> QED
        BY <1>1, <1>4, <2>2, <2>3
<1>5. CASE Open(p)
    <2>1. mem' = mem /\ idx' = idx /\ idx[p] = 0
        BY <1>5 DEF Open, device, ControlOK, BeforeLoad
    <2>2. HoldsPrefix(mem', opts'[p], Acked(p)')
        <3>1. Acked(p)' = Acked(p)
            BY <1>1, <2>1 DEF Acked, Chunk
        <3> QED
            BY <1>1, <2>1, <3>1, NothingAcked
    <2> QED
        BY <1>3, <2>1, <2>2 DEF AckedIsLoaded
<1>6. CASE SendChunk(p)
    <2>1. /\ pc[p] = "load" /\ Live(p) /\ MoreChunks(p) /\ Running(p)
          /\ mem' = After(p, NextLen(p))
          /\ idx' = [idx EXCEPT ![p] = idx[p] + 1]
        BY <1>6 DEF SendChunk, Sending, Moved, NextChunk, Running
    <2>2. NextLen(p) \in 0 .. NextLen(p)
        BY <2>1, ChunkType, ChunkInside DEF MoreChunks, NextLen
    <2>3. HoldsPrefix(mem', opts'[p], Acked(p)')
        <3>1. HoldsPrefix(mem, opts[p], Acked(p))
            BY <2>1 DEF AckedIsLoaded
        <3>2. idx'[p] = idx[p] + 1
            BY <2>1 DEF TypeOK
        <3>3. Acked(p)' = BytesDone(Size[opts[p].file], Chunk(p), idx[p] + 1)
            BY <1>1, <3>2 DEF Acked, Chunk
        <3> QED
            BY <1>1, <2>1, <3>1, <3>3, ChunkExtendsOwn
    <2> QED
        BY <1>4, <2>1, <2>2, <2>3 DEF AckedIsLoaded
<1>7. CASE SendChunkFails(p)
    <2>1. PICK n \in 0 .. NextLen(p) : mem' = After(p, n)
        BY <1>7 DEF SendChunkFails
    <2>2. MoreChunks(p) /\ Running(p) /\ pc'[p] = "exited"
        BY <1>7 DEF SendChunkFails, Sending, Running, Fail, TypeOK
    <2> QED
        BY <1>4, <2>1, <2>2 DEF AckedIsLoaded, AfterLoad
<1>8. CASE /\ mem' = mem /\ idx' = idx /\ fd' = fd
           /\ pc'[p] \in {"load"} \union AfterLoad
                => pc[p] \in {"load"} \union AfterLoad
    <2>1. Live(p)' => Live(p)
        BY <1>1, <1>8 DEF Live
    <2>2. Acked(p)' = Acked(p)
        BY <1>1, <1>8 DEF Acked, Chunk
    <2> QED
        BY <1>1, <1>3, <1>8, <2>1, <2>2 DEF AckedIsLoaded
<1>9. CASE /\ ~Open(p) /\ ~SendChunk(p) /\ ~SendChunkFails(p)
    <2>1. mem' = mem /\ idx' = idx /\ fd' = fd
        BY <1>9 DEF SessionStep, Step, Start, ReadFile, Resolve, RejectChunk,
           ReportLoaded, RejectJump, JumpReplied, JumpFails, Jumping,
           ReportJumped, Kill, session, device
    <2>2. pc'[p] \in {"load"} \union AfterLoad
                => pc[p] \in {"load"} \union AfterLoad
        BY <1>9 DEF SessionStep, Step, Start, ReadFile, Resolve, RejectChunk,
           ReportLoaded, RejectJump, JumpReplied, JumpFails, Jumping,
           ReportJumped, Kill, TypeOK, Fail, Advance, AfterLoad
    <2> QED
        BY <1>8, <2>1, <2>2
<1> QED
    BY <1>5, <1>6, <1>7, <1>9

\* The device executes a jump of p only when p has the whole image loaded.
LEMMA JumpStep ==
    ASSUME MemInv, NEW p \in Procs, SessionStep(p)
    PROVE  JumpOnlyIntoLoadedImage'
<1> USE DEF MemInv
<1>1. opts' = opts
    BY StepIsNext, OptsFixed
<1>2. CASE boot' = boot
    BY <1>1, <1>2 DEF JumpOnlyIntoLoadedImage
<1>3. CASE JumpReplied(p) \/ JumpFails(p)
    <2>1. pc[p] = "jump" /\ (Enter(p) \/ boot' = boot)
        BY <1>3 DEF JumpReplied, JumpFails, Jumping
    <2>2. CASE Enter(p)
        <3>1. HoldsPrefix(mem, opts[p], Acked(p))
            BY <2>1, <2>2 DEF Enter, AckedIsLoaded, AfterLoad
        <3>2. Acked(p) = Size[opts[p].file]
            BY <2>1, AllAcked DEF ControlOK, AfterLoad
        <3> QED
            BY <1>1, <2>2, <3>1, <3>2
            DEF Enter, JumpOnlyIntoLoadedImage, HoldsImage
    <2> QED
        BY <1>2, <2>1, <2>2
<1>4. CASE ~JumpReplied(p) /\ ~JumpFails(p)
    <2>1. boot' = boot
        BY <1>4 DEF SessionStep, Step, Start, ReadFile, Resolve, Open,
           RejectChunk, SendChunk, SendChunkFails, ReportLoaded, RejectJump,
           ReportJumped, Kill, device
    <2> QED
        BY <1>2, <2>1
<1> QED
    BY <1>3, <1>4

LEMMA MemInvInit == Init => MemInv
<1> SUFFICES ASSUME Init PROVE MemInv
    OBVIOUS
<1>1. TypeOK
    BY InitType
<1>2. OpenedInThePast
    BY DEF Init, OpenedInThePast, NotOpen
<1>3. OverlapIsCompatible /\ ControlOK /\ AckedIsLoaded
    BY DEF Init, OverlapIsCompatible, ControlOK, AckedIsLoaded, Running,
       BeforeLoad, AfterLoad
<1>4. JumpOnlyIntoLoadedImage
    BY DEF Init, JumpOnlyIntoLoadedImage
<1> QED
    BY <1>1, <1>2, <1>3, <1>4 DEF MemInv

LEMMA MemInvReset == ASSUME MemInv, Reset PROVE MemInv'
<1> USE DEF MemInv
<1>1. TypeOK'
    BY NextType DEF Next
<1>2. gen' = gen + 1 /\ gen \in Nat /\ fd' = fd
    BY RunnerAssumption DEF Reset, TypeOK, session
<1>3. OpenedInThePast'
    BY <1>2 DEF OpenedInThePast, TypeOK
<1>4. OverlapIsCompatible'
    BY DEF Reset, OverlapIsCompatible, Running
<1>5. ControlOK'
    BY DEF Reset, session, ControlOK, MoreChunks, Chunk
<1>6. AckedIsLoaded'
    <2>1. \A p \in Procs : ~(fd'[p] = gen')
        BY <1>2 DEF OpenedInThePast, TypeOK
    <2> QED
        BY <2>1 DEF AckedIsLoaded, Live
<1>7. JumpOnlyIntoLoadedImage'
    BY DEF Reset, JumpOnlyIntoLoadedImage
<1> QED
    BY <1>1, <1>3, <1>4, <1>5, <1>6, <1>7

\* MemInv is inductive when a successful transfer is a whole transfer.
LEMMA MemInvStep ==
    ASSUME ShortTransfers = FALSE PROVE MemInv /\ [Next]_vars => MemInv'
<1> SUFFICES ASSUME MemInv, [Next]_vars PROVE MemInv'
    OBVIOUS
<1>1. ASSUME NEW p \in Procs, SessionStep(p) PROVE MemInv'
    <2>1. TypeOK'
        BY <1>1, NextType, StepIsNext DEF MemInv
    <2> QED
        BY <1>1, <2>1, OpenedStep, OverlapStep, ControlStep, AckedStep,
           JumpStep DEF MemInv
<1>2. CASE Reset
    BY <1>2, MemInvReset
<1>3. CASE UNCHANGED vars
    <2>1. TypeOK'
        BY NextType DEF MemInv
    <2> QED
        BY <1>3, <2>1 DEF vars, MemInv, OpenedInThePast, OverlapIsCompatible,
           ControlOK, AckedIsLoaded, JumpOnlyIntoLoadedImage, Running, Live,
           MoreChunks, Acked, Chunk
<1> QED
    BY <1>1, <1>2, <1>3 DEF Next, SessionStep

\* The device only ever runs complete images: whatever was interleaved, killed,
\* reset or half written before, RAM at an executed jump holds the whole file.
THEOREM RunnerJumpsIntoLoadedImage ==
    ASSUME ShortTransfers = FALSE
    PROVE  Spec => []JumpOnlyIntoLoadedImage
<1>1. Init => MemInv
    BY MemInvInit
<1>2. MemInv /\ [Next]_vars => MemInv'
    BY MemInvStep
<1>3. MemInv => JumpOnlyIntoLoadedImage
    BY DEF MemInv
<1> QED
    BY <1>1, <1>2, <1>3, PTL DEF Spec

\* The `loaded N bytes' line is true when it is printed and for as long as the
\* device is not reset and the process runs.
THEOREM RunnerReportsTruthfully ==
    ASSUME ShortTransfers = FALSE
    PROVE  Spec => []LoadedReportIsTrue
<1>1. Init => MemInv
    BY MemInvInit
<1>2. MemInv /\ [Next]_vars => MemInv'
    BY MemInvStep
<1>3. MemInv => LoadedReportIsTrue
    <2> SUFFICES ASSUME MemInv, NEW p \in Procs, "loaded" \in said[p],
                        Running(p), Live(p)
                 PROVE  HoldsImage(mem, opts[p])
        BY DEF LoadedReportIsTrue
    <2> USE DEF MemInv
    <2>1. pc[p] \in AfterLoad
        BY DEF ControlOK, Running, TypeOK, Stages, BeforeLoad, AfterLoad
    <2>2. Acked(p) = Size[opts[p].file]
        BY <2>1, AllAcked DEF ControlOK
    <2> QED
        BY <2>1, <2>2 DEF AckedIsLoaded, HoldsImage
<1> QED
    BY <1>1, <1>2, <1>3, PTL DEF Spec

\* RAM changes only inside the window of a running invocation, and there only
\* to the byte that belongs at the address, or by a reset.
THEOREM RunnerWritesStayInWindow == Spec => WritesStayInWindow
<1> DEFINE Contained ==
        \A a \in Addrs :
          mem'[a] # mem[a] =>
            \/ gen' # gen
            \/ \E p \in Procs : Running(p) /\ InWindow(opts[p], a)
                                           /\ mem'[a] = Target(opts[p], a)
<1>1. TypeOK /\ [Next]_vars => [Contained]_vars
    <2> SUFFICES ASSUME TypeOK, Next PROVE Contained
        OBVIOUS
    <2>1. ASSUME NEW p \in Procs, Running(p), MoreChunks(p),
                 NEW n \in 0 .. NextLen(p), mem' = After(p, n)
          PROVE  Contained
        <3> SUFFICES ASSUME NEW a \in Addrs, mem'[a] # mem[a]
                     PROVE  InWindow(opts[p], a)
                              /\ mem'[a] = Target(opts[p], a)
            BY <2>1
        <3> QED
            BY <2>1, ChunkType, StoredChunk DEF After, MoreChunks, NextLen
    <2>2. ASSUME NEW p \in Procs, SendChunk(p) PROVE Contained
        <3>1. Running(p) /\ MoreChunks(p)
            BY <2>2 DEF SendChunk, Sending, Running
        <3>2. PICK n \in Moved(NextLen(p)) : mem' = After(p, n)
            BY <2>2 DEF SendChunk
        <3> QED
            BY <2>1, <3>1, <3>2, MovedInRange
    <2>3. ASSUME NEW p \in Procs, SendChunkFails(p) PROVE Contained
        <3>1. Running(p) /\ MoreChunks(p)
            BY <2>3 DEF SendChunkFails, Sending, Running
        <3>2. PICK n \in 0 .. NextLen(p) : mem' = After(p, n)
            BY <2>3 DEF SendChunkFails
        <3> QED
            BY <2>1, <3>1, <3>2
    <2>4. ASSUME NEW p \in Procs, SessionStep(p), ~SendChunk(p),
                 ~SendChunkFails(p)
          PROVE  Contained
        <3>1. mem' = mem
            BY <2>4 DEF SessionStep, Step, Start, ReadFile, Resolve, Open,
               RejectChunk, ReportLoaded, RejectJump, JumpReplied, JumpFails,
               Jumping, ReportJumped, Kill, device
        <3> QED
            BY <3>1
    <2>5. CASE Reset
        <3>1. gen' # gen
            BY <2>5, RunnerAssumption DEF Reset, TypeOK
        <3> QED
            BY <3>1
    <2> QED
        BY <2>2, <2>3, <2>4, <2>5 DEF Next, SessionStep
<1>2. Spec => []TypeOK
    BY RunnerTypeOK
<1> QED
    BY <1>1, <1>2, PTL DEF Spec, WritesStayInWindow

-----------------------------------------------------------------------------
(* What an exit code of jlrunner says about the device, for every command  *)
(* line, every interleaving and every failure.                             *)

\* What an invocation has done, from its program counter or from the error it
\* ended with.
ExitOKOf(p) ==
    /\ Running(p) => CommandLineParses(opts[p])
    /\ pc[p] = "finish" => p \in started
    /\ pc[p] = "load" =>
          /\ issued[p] # {} => idx[p] > 0
          /\ idx[p] > 0 => FitsU16(ChunkLen(Size[opts[p].file], Chunk(p), 0))
    /\ pc[p] = "exited" =>
          /\ err[p].kind = NoError => p \in started
          /\ err[p].kind = "NotFound" => issued[p] = {}
          /\ err[p].kind \in ProtocolErrors =>
                issued[p] = {} \/ Acked(p) = Size[opts[p].file]

ExitOK == \A p \in Procs : ExitOKOf(p)

ExitInv == TypeOK /\ ControlOK /\ ExitOK

LEMMA ExitInvInit == Init => ExitInv
<1> SUFFICES ASSUME Init PROVE ExitInv
    OBVIOUS
<1>1. TypeOK /\ ControlOK
    BY InitType, MemInvInit DEF MemInv
<1>2. ExitOK
    BY DEF Init, ExitOK, ExitOKOf, Running
<1> QED
    BY <1>1, <1>2 DEF ExitInv

\* A chunk that is too long is the first one, so nothing was sent before it.
LEMMA OnlyFirstChunkIsRejected ==
    ASSUME TypeOK, ExitOK, NEW p \in Procs, RejectChunk(p)
    PROVE  issued[p] = {}
<1>1. pc[p] = "load" /\ MoreChunks(p) /\ ~FitsU16(NextLen(p))
    BY DEF RejectChunk
<1>2. CASE idx[p] > 0
    <2>1. FitsU16(ChunkLen(Size[opts[p].file], Chunk(p), 0))
        BY <1>1, <1>2 DEF ExitOK, ExitOKOf
    <2>2. FitsU16(NextLen(p))
        BY <1>1, <2>1, ChunkType, FirstChunkIsLongest DEF MoreChunks, NextLen
    <2> QED
        BY <1>1, <2>2
<1>3. CASE ~(idx[p] > 0)
    BY <1>1, <1>3 DEF ExitOK, ExitOKOf
<1> QED
    BY <1>2, <1>3

\* The step of an invocation keeps its own part of the exit invariant.
LEMMA ExitStep ==
    ASSUME ExitInv, NEW p \in Procs, SessionStep(p)
    PROVE  ExitOKOf(p)'
<1> USE DEF ExitInv
<1>1. opts' = opts
    BY StepIsNext, OptsFixed
<1>2. Acked(p)' = BytesDone(Size[opts[p].file], Chunk(p), idx'[p])
    BY <1>1 DEF Acked, Chunk
<1>3. Chunk(p)' = Chunk(p)
    BY <1>1 DEF Chunk
<1>4. opts[p].jump \in {"absent", "flag", "value"}
    BY RunnerAssumption DEF TypeOK
<1> USE <1>1, <1>2, <1>3
        DEF ExitOKOf, ExitOK, TypeOK, Running, Fail, Advance, session, device,
            Acked, NoFailure, NoError, ProtocolErrors
<1>5. CASE Start(p)
    BY <1>5 DEF Start, ControlOK, BeforeLoad
<1>6. CASE ReadFile(p)
    BY <1>6 DEF ReadFile, ControlOK, BeforeLoad
<1>7. CASE Resolve(p)
    BY <1>7 DEF Resolve, ResolveErrors, TransportErrors, ControlOK, BeforeLoad
<1>8. CASE Open(p)
    BY <1>8 DEF Open, OpenErrors, ControlOK, BeforeLoad
<1>9. CASE RejectChunk(p)
    BY <1>9, OnlyFirstChunkIsRejected DEF RejectChunk
<1>10. CASE SendChunk(p)
    <2>1. FitsU16(ChunkLen(Size[opts[p].file], Chunk(p), 0))
        <3>1. CASE idx[p] > 0
            BY <1>10, <3>1 DEF SendChunk, Sending
        <3>2. CASE idx[p] = 0
            BY <1>10, <3>2 DEF SendChunk, Sending, NextLen
        <3> QED
            BY <3>1, <3>2
    <2> QED
        BY <1>10, <2>1 DEF SendChunk, Sending, NextChunk
<1>11. CASE SendChunkFails(p)
    BY <1>11 DEF SendChunkFails, Sending, Failures, ExecErrors
<1>12. CASE ReportLoaded(p)
    BY <1>4, <1>12 DEF ReportLoaded, WantsJump, CommandLineParses
<1>13. CASE RejectJump(p)
    <2>1. Acked(p) = Size[opts[p].file]
        BY <1>13, AllAcked DEF RejectJump, ControlOK, AfterLoad
    <2> QED
        BY <1>13, <2>1 DEF RejectJump
<1>14. CASE JumpReplied(p)
    <2>1. Acked(p) = Size[opts[p].file]
        BY <1>14, AllAcked DEF JumpReplied, Jumping, ControlOK, AfterLoad
    <2>2. Acked(p)' = Size[opts[p].file]
        BY <1>14, <2>1 DEF JumpReplied, Jumping
    <2> QED
        BY <1>14, <2>2 DEF JumpReplied, Jumping, ReplyAccepted, Enter
<1>15. CASE JumpFails(p)
    BY <1>15 DEF JumpFails, Jumping, Failures, ExecErrors
<1>16. CASE ReportJumped(p)
    BY <1>16 DEF ReportJumped, ControlOK
<1>17. CASE Kill(p)
    BY <1>17 DEF Kill
<1> QED
    BY <1>5, <1>6, <1>7, <1>8, <1>9, <1>10, <1>11, <1>12, <1>13, <1>14, <1>15,
       <1>16, <1>17 DEF SessionStep, Step

\* No step takes an invocation out of the set of started ones.
LEMMA StartedGrows ==
    ASSUME NEW p \in Procs, SessionStep(p) PROVE started \subseteq started'
BY DEF SessionStep, Step, Start, ReadFile, Resolve, Open, RejectChunk,
   SendChunk, SendChunkFails, Sending, ReportLoaded, RejectJump, JumpReplied,
   JumpFails, Enter, ReportJumped, Kill, session, device

LEMMA ExitInvStep == ExitInv /\ [Next]_vars => ExitInv'
<1> SUFFICES ASSUME ExitInv, [Next]_vars PROVE ExitInv'
    OBVIOUS
<1>1. TypeOK'
    BY NextType DEF ExitInv
<1>2. ASSUME NEW p \in Procs, SessionStep(p) PROVE ExitInv'
    <2>1. ControlOK'
        BY <1>2, ControlStep DEF ExitInv
    <2>2. opts' = opts
        BY OptsFixed
    <2>3. ASSUME NEW q \in Procs, q # p PROVE ExitOKOf(q)'
        <3>1. /\ pc'[q] = pc[q] /\ err'[q] = err[q] /\ idx'[q] = idx[q]
              /\ issued'[q] = issued[q]
            BY <1>2, <2>3, OtherSessions DEF ExitInv
        <3>2. started \subseteq started'
            BY <1>2, StartedGrows
        <3> QED
            BY <2>2, <3>1, <3>2
            DEF ExitInv, ExitOK, ExitOKOf, Running, Acked, Chunk
    <2>4. ExitOKOf(p)'
        BY <1>2, ExitStep
    <2>5. \A q \in Procs : ExitOKOf(q)'
        BY <2>3, <2>4
    <2> QED
        BY <1>1, <2>1, <2>5 DEF ExitInv, ExitOK
<1>3. CASE Reset
    BY <1>1, <1>3 DEF Reset, session, ExitInv, ExitOK, ExitOKOf, ControlOK, Running,
       MoreChunks, Acked, Chunk
<1>4. CASE UNCHANGED vars
    BY <1>1, <1>4 DEF vars, ExitInv, ExitOK, ExitOKOf, ControlOK, Running, MoreChunks,
       Acked, Chunk
<1> QED
    BY <1>2, <1>3, <1>4 DEF Next, SessionStep

\* Each exit code comes from the errors the documentation gives it.
LEMMA ExitCodeMeaning ==
    ASSUME NEW e \in ErrorKinds
    PROVE  /\ ExitCodeFor(e) = OK => e = NoError
           /\ ExitCodeFor(e) = DEVICE_NOT_FOUND => e = "NotFound"
           /\ ExitCodeFor(e) = PROTOCOL => e \in ProtocolErrors
BY DEF ErrorKinds, TransportErrors, ProtocolErrors, NoError, ExitCodeFor, OK,
   USAGE, IO, DEVICE_NOT_FOUND, TRANSPORT, PROTOCOL, CLI, KILLED

LEMMA ExitInvImplies ==
    ExitInv => /\ ExitZeroMeansStarted
               /\ DeviceNotFoundTouchesNothing
               /\ ProtocolErrorIsAllOrNothing
<1> SUFFICES ASSUME ExitInv, NEW p \in Procs, pc[p] = "exited"
             PROVE  /\ ExitCode(p) = OK => p \in started
                    /\ ExitCode(p) = DEVICE_NOT_FOUND => issued[p] = {}
                    /\ ExitCode(p) = PROTOCOL =>
                          issued[p] = {} \/ Acked(p) = Size[opts[p].file]
    BY DEF ExitZeroMeansStarted, DeviceNotFoundTouchesNothing,
       ProtocolErrorIsAllOrNothing
<1>1. err[p].kind \in ErrorKinds
    BY DEF ExitInv, TypeOK
<1> QED
    BY <1>1, ExitCodeMeaning DEF ExitInv, ExitOK, ExitOKOf, ExitCode

\* Exit 0 is given only after the device executed this invocation's jump.
THEOREM RunnerExitZeroMeansStarted == Spec => []ExitZeroMeansStarted
BY ExitInvInit, ExitInvStep, ExitInvImplies, PTL DEF Spec

\* Exit 11 leaves the device as it was: no vendor command was sent.
THEOREM RunnerDeviceNotFoundTouchesNothing ==
    Spec => []DeviceNotFoundTouchesNothing
BY ExitInvInit, ExitInvStep, ExitInvImplies, PTL DEF Spec

\* Exit 13 never means a partly loaded image, for any file and chunk size.
THEOREM RunnerProtocolErrorIsAllOrNothing ==
    Spec => []ProtocolErrorIsAllOrNothing
BY ExitInvInit, ExitInvStep, ExitInvImplies, PTL DEF Spec

-----------------------------------------------------------------------------
(* jlrunner implements LoadAndJump, for every instance in which a          *)
(* successful transfer is complete.                                        *)

\* An invocation whose jump was executed is past its jump.
StartedIsPast ==
    \A p \in Procs : p \in started => pc[p] \in {"finish", "exited"}

RefineInv == MemInv /\ ExitInv /\ StartedIsPast

-----------------------------------------------------------------------------
(* What a step of an invocation can look like from outside. *)

Ends(p, kinds) == pc'[p] = "exited" /\ err'[p].kind \in kinds

Quiet(p) ==
    /\ p \notin started /\ pc'[p] # "exited"
    /\ UNCHANGED <<boot, started>>
GivesUp(p) == Ends(p, ErrorKinds \ {NoError}) /\ UNCHANGED <<boot, started>>
Finishes(p) ==
    p \in started /\ Ends(p, {NoError}) /\ UNCHANGED <<boot, started>>
Starts(p) ==
    /\ p \notin started
    /\ Enter(p)
    /\ pc'[p] = "finish" \/ Ends(p, ErrorKinds \ {NoError})

LEMMA FailEnds ==
    ASSUME TypeOK, NEW p \in Procs, NEW kind \in ErrorKinds \ {NoError},
           Fail(p, kind)
    PROVE  Ends(p, ErrorKinds \ {NoError})
BY DEF TypeOK, Fail, Ends

LEMMA FailureKinds ==
    {"Usage", "StdIo", "LengthTooLarge", "BadReply", "Killed"}
        \union ResolveErrors \union OpenErrors \union ExecErrors
            \subseteq ErrorKinds \ {NoError}
BY DEF ErrorKinds, NoError, TransportErrors, ProtocolErrors, ExecErrors,
       OpenErrors, ResolveErrors

LEMMA Outcome ==
    ASSUME RefineInv, NEW p \in Procs, SessionStep(p)
    PROVE  pc[p] # "exited"
             /\ (Quiet(p) \/ GivesUp(p) \/ Finishes(p) \/ Starts(p))
<1> USE FailureKinds, FailEnds
        DEF RefineInv, ExitInv, TypeOK, Advance, session, device, Quiet,
            GivesUp, Running, StartedIsPast
<1>1. CASE Start(p)
    BY <1>1 DEF Start
<1>2. CASE ReadFile(p)
    BY <1>2 DEF ReadFile
<1>3. CASE Resolve(p)
    BY <1>3 DEF Resolve
<1>4. CASE Open(p)
    BY <1>4 DEF Open
<1>5. CASE RejectChunk(p)
    BY <1>5 DEF RejectChunk
<1>6. CASE SendChunk(p)
    BY <1>6 DEF SendChunk, Sending
<1>7. CASE SendChunkFails(p)
    <2>1. PICK e \in ExecErrors : Fail(p, e)
        BY <1>7 DEF SendChunkFails, Failures
    <2>2. pc[p] = "load" /\ UNCHANGED <<boot, started>>
        BY <1>7 DEF SendChunkFails, Sending
    <2>3. e \in ErrorKinds \ {NoError}
        OBVIOUS
    <2> QED
        BY <2>1, <2>2, <2>3
<1>8. CASE ReportLoaded(p)
    <2>1. opts[p].jump \in {"absent", "flag", "value"}
        BY RunnerAssumption
    <2>2. WantsJump(opts[p])
        BY <1>8, <2>1
           DEF ReportLoaded, WantsJump, ExitOK, ExitOKOf, CommandLineParses
    <2> QED
        BY <1>8, <2>2 DEF ReportLoaded
<1>9. CASE RejectJump(p)
    BY <1>9 DEF RejectJump
<1>10. CASE JumpReplied(p)
    <2>1. p \notin started
        BY <1>10 DEF JumpReplied, Jumping
    <2>2. pc[p] = "jump"
        BY <1>10 DEF JumpReplied, Jumping
    <2>3. PICK reply \in {"echo", "other", "short"} :
              /\ IF ReplyAccepted(reply) THEN Advance(p, "finish")
                                         ELSE Fail(p, "BadReply")
              /\ \/ Enter(p)
                 \/ reply # "echo" /\ UNCHANGED <<boot, started>>
        BY <1>10 DEF JumpReplied
    <2>4. CASE reply = "echo"
        BY <2>1, <2>2, <2>3, <2>4 DEF ReplyAccepted, Starts
    <2>5. CASE reply # "echo"
        BY <2>1, <2>2, <2>3, <2>5 DEF ReplyAccepted, Starts
    <2> QED
        BY <2>4, <2>5
<1>11. CASE JumpFails(p)
    <2>1. p \notin started /\ pc[p] = "jump"
        BY <1>11 DEF JumpFails, Jumping
    <2>2. Ends(p, ErrorKinds \ {NoError})
        BY <1>11 DEF JumpFails, Failures
    <2> QED
        BY <1>11, <2>1, <2>2 DEF JumpFails, Starts
<1>12. CASE ReportJumped(p)
    <2>1. p \in started /\ pc[p] = "finish"
        BY <1>12 DEF ReportJumped, ExitOK, ExitOKOf
    <2>2. err[p].kind = NoError
        BY <2>1 DEF ControlOK, NoFailure
    <2>3. CASE Advance(p, "exited")
        BY <1>12, <2>1, <2>2, <2>3 DEF ReportJumped, Finishes, Ends
    <2>4. CASE Fail(p, "StdIo")
        BY <1>12, <2>1, <2>4 DEF ReportJumped
    <2> QED
        BY <1>12, <2>3, <2>4 DEF ReportJumped
<1>13. CASE Kill(p)
    BY <1>13 DEF Kill
<1> QED
    BY <1>1, <1>2, <1>3, <1>4, <1>5, <1>6, <1>7, <1>8, <1>9, <1>10, <1>11,
       <1>12, <1>13 DEF SessionStep, Step

-----------------------------------------------------------------------------
(* The invariant behind the refinement. *)

LEMMA StartedInit == Init => StartedIsPast
BY DEF Init, StartedIsPast

LEMMA StartedStep ==
    ASSUME RefineInv, [Next]_vars
    PROVE  StartedIsPast'
<1>1. ASSUME NEW p \in Procs, SessionStep(p) PROVE StartedIsPast'
    <2>1. ASSUME NEW q \in Procs, q # p
          PROVE  pc'[q] = pc[q]
        BY <1>1, <2>1, OtherSessions DEF RefineInv, MemInv
    <2>2. CASE Quiet(p) \/ GivesUp(p) \/ Finishes(p)
        BY <2>1, <2>2
           DEF RefineInv, StartedIsPast, Quiet, GivesUp, Finishes, Ends
    <2>3. CASE Starts(p)
        BY <2>1, <2>3 DEF RefineInv, StartedIsPast, Starts, Enter, Ends
    <2> QED
        BY <1>1, <2>2, <2>3, Outcome
<1>2. CASE Reset
    BY <1>2 DEF Reset, RefineInv, StartedIsPast
<1>3. CASE UNCHANGED vars
    BY <1>3 DEF vars, RefineInv, StartedIsPast
<1> QED
    BY <1>1, <1>2, <1>3 DEF Next, SessionStep

LEMMA RefineInvInit == Init => RefineInv
BY MemInvInit, ExitInvInit, StartedInit DEF RefineInv

LEMMA RefineInvStep ==
    ASSUME ShortTransfers = FALSE, RefineInv, [Next]_vars
    PROVE  RefineInv'
BY MemInvStep, ExitInvStep, StartedStep DEF RefineInv

-----------------------------------------------------------------------------
(* The steps of the abstract specification. *)

LEMMA PlacedFixed == ASSUME [Next]_vars PROVE absPlaced' = absPlaced
BY OptsFixed DEF absPlaced

\* Without a jump or a reset the device runs what it ran.
LEMMA RunningFixed ==
    ASSUME [Next]_vars, UNCHANGED boot
    PROVE  absRunning' = absRunning
BY OptsFixed DEF absRunning, Window, InWindow, Offset

\* Only the invocation that makes the step can have its verdict changed.
LEMMA VerdictOfOthers ==
    ASSUME TypeOK, NEW p \in Procs, SessionStep(p), NEW v,
           v = absVerdict'[p]
    PROVE  absVerdict' = [absVerdict EXCEPT ![p] = v]
<1>1. ASSUME NEW q \in Procs, q # p
      PROVE  absVerdict'[q] = absVerdict[q]
    BY <1>1, OtherSessions DEF absVerdict, ExitCode
<1>2. /\ absVerdict = [q \in Procs |-> absVerdict[q]]
      /\ absVerdict' = [q \in Procs |-> absVerdict'[q]]
    BY DEF absVerdict
<1> QED
    BY <1>1, <1>2

LEMMA VerdictOf ==
    ASSUME NEW p \in Procs
    PROVE  /\ pc'[p] # "exited" => absVerdict'[p] = "none"
           /\ Ends(p, {NoError}) => absVerdict'[p] = "done"
           /\ Ends(p, ErrorKinds \ {NoError}) => absVerdict'[p] = "failed"
           /\ pc[p] # "exited" => absVerdict[p] = "none"
<1>1. ExitCodeFor(NoError) = OK
    BY DEF ExitCodeFor, NoError, ProtocolErrors, OK, USAGE, IO, KILLED,
           DEVICE_NOT_FOUND, TRANSPORT, PROTOCOL, CLI
<1>2. \A e \in ErrorKinds \ {NoError} : ExitCodeFor(e) # OK
    BY ExitCodeMeaning
<1> QED
    BY <1>1, <1>2 DEF absVerdict, Ends, ExitCode

\* What the device is made to run is the whole file.
LEMMA StartedImage ==
    ASSUME RefineInv, RefineInv', NEW p \in Procs, Enter(p), opts' = opts
    PROVE  absRunning' = [by |-> p, image |-> Abstract!Image(absPlaced[p])]
<1>1. boot' # NoBoot /\ boot'.by = p /\ opts'[p] = opts[p]
    BY DEF Enter, NoBoot
<1>2. HoldsImage(boot'.ram, opts[p])
    BY <1>1 DEF RefineInv, MemInv, JumpOnlyIntoLoadedImage
<1>3. /\ Abstract!Window(absPlaced[p]) = Window(opts[p])
      /\ \A a \in Addrs :
            Abstract!Target(absPlaced[p], a) = Target(opts[p], a)
    BY DEF absPlaced, Abstract!Window, Window, Abstract!InWindow, InWindow,
           Abstract!Offset, Offset, Abstract!Target, Target, Abstract!Addrs,
           Addrs
<1>4. \A a \in Window(opts[p]) :
          a \in Addrs /\ boot'.ram[a] = Target(opts[p], a)
    BY <1>2 DEF HoldsImage, HoldsPrefix, Window, InWindow
<1>5. Abstract!Image(absPlaced[p])
          = [a \in Window(opts[p]) |-> boot'.ram[a]]
    BY <1>3, <1>4 DEF Abstract!Image
<1> QED
    BY <1>1, <1>5 DEF absRunning, Window, InWindow, Offset

LEMMA AbstractInit == Init => Abstract!AbsInit
<1> SUFFICES ASSUME Init PROVE Abstract!AbsInit
    OBVIOUS
<1>1. absPlaced \in [Procs -> [file : Files, address : Abstract!Addrs]]
    BY RunnerAssumption DEF Init, absPlaced, Abstract!Addrs, Addrs
<1>2. absVerdict = [p \in Procs |-> "none"]
    BY DEF Init, absVerdict
<1>3. absRunning = Abstract!Nothing /\ started = {}
    BY DEF Init, absRunning, Abstract!Nothing
<1> QED
    BY <1>1, <1>2, <1>3 DEF Abstract!AbsInit

LEMMA AbstractSession ==
    ASSUME RefineInv, RefineInv', NEW p \in Procs, SessionStep(p)
    PROVE  [Abstract!AbsNext]_(Abstract!absVars)
<1>1. opts' = opts /\ absPlaced' = absPlaced
    BY StepIsNext, OptsFixed, PlacedFixed
<1>2. absVerdict[p] = "none" /\ TypeOK
    BY Outcome, VerdictOf DEF RefineInv, MemInv
<1>3. CASE Quiet(p)
    <2>1. absVerdict' = absVerdict
        <3>1. absVerdict' = [absVerdict EXCEPT ![p] = "none"]
            BY <1>2, <1>3, VerdictOf, VerdictOfOthers DEF Quiet
        <3> QED
            BY <1>2, <3>1 DEF absVerdict
    <2> QED
        BY <1>1, <1>3, <2>1, StepIsNext, RunningFixed
           DEF Quiet, Abstract!absVars
<1>4. CASE GivesUp(p)
    <2>1. absVerdict' = [absVerdict EXCEPT ![p] = "failed"]
        BY <1>2, <1>4, VerdictOf, VerdictOfOthers DEF GivesUp
    <2>2. absRunning' = absRunning
        BY <1>4, StepIsNext, RunningFixed DEF GivesUp
    <2> QED
        BY <1>1, <1>2, <1>4, <2>1, <2>2
           DEF GivesUp, Abstract!AbsNext, Abstract!GiveUp
<1>5. CASE Finishes(p)
    <2>1. absVerdict' = [absVerdict EXCEPT ![p] = "done"]
        BY <1>2, <1>5, VerdictOf, VerdictOfOthers DEF Finishes
    <2>2. absRunning' = absRunning
        BY <1>5, StepIsNext, RunningFixed DEF Finishes
    <2> QED
        BY <1>1, <1>2, <1>5, <2>1, <2>2
           DEF Finishes, Abstract!AbsNext, Abstract!Confirm
<1>6. CASE Starts(p)
    <2>1. absRunning' = [by |-> p, image |-> Abstract!Image(absPlaced[p])]
        BY <1>1, <1>6, StartedImage DEF Starts
    <2>2. \/ absVerdict' = absVerdict
          \/ absVerdict' = [absVerdict EXCEPT ![p] = "failed"]
        <3>1. CASE pc'[p] = "finish"
            <4>1. absVerdict' = [absVerdict EXCEPT ![p] = "none"]
                BY <1>2, <3>1, VerdictOf, VerdictOfOthers
            <4> QED
                BY <1>2, <4>1 DEF absVerdict
        <3>2. CASE Ends(p, ErrorKinds \ {NoError})
            BY <1>2, <3>2, VerdictOf, VerdictOfOthers
        <3> QED
            BY <1>6, <3>1, <3>2 DEF Starts
    <2>3. p \notin started /\ started' = started \union {p}
        BY <1>6 DEF Starts, Enter
    <2> QED
        BY <1>1, <1>2, <2>1, <2>2, <2>3
           DEF Abstract!AbsNext, Abstract!StartImage
<1> QED
    BY <1>3, <1>4, <1>5, <1>6, Outcome

LEMMA AbstractStep ==
    ASSUME RefineInv, RefineInv', [Next]_vars
    PROVE  [Abstract!AbsNext]_(Abstract!absVars)
<1>1. ASSUME NEW p \in Procs, SessionStep(p)
      PROVE  [Abstract!AbsNext]_(Abstract!absVars)
    BY <1>1, AbstractSession
<1>2. CASE Reset
    <2>1. absPlaced' = absPlaced
        BY PlacedFixed
    <2>2. absVerdict' = absVerdict /\ started' = started
        BY <1>2 DEF Reset, absVerdict, ExitCode
    <2>3. absRunning' = Abstract!Nothing
        BY <1>2 DEF Reset, absRunning, Abstract!Nothing
    <2> QED
        BY <2>1, <2>2, <2>3 DEF Abstract!AbsNext, Abstract!PowerCycle
<1>3. CASE UNCHANGED vars
    BY <1>3, PlacedFixed, RunningFixed
       DEF vars, Abstract!absVars, absVerdict, ExitCode
<1> QED
    BY <1>1, <1>2, <1>3 DEF Next, SessionStep

\* jlrunner never shows its user anything an atomic load-and-start would not.
THEOREM RunnerImplementsLoadAndJump ==
    ASSUME ShortTransfers = FALSE
    PROVE  Spec => ImplementsLoadAndJump
<1>1. Init => RefineInv
    BY RefineInvInit
<1>2. RefineInv /\ [Next]_vars => RefineInv'
    BY RefineInvStep
<1>3. Init => Abstract!AbsInit
    BY AbstractInit
<1>4. RefineInv /\ RefineInv' /\ [Next]_vars
         => [Abstract!AbsNext]_(Abstract!absVars)
    BY AbstractStep
<1> QED
    BY <1>1, <1>2, <1>3, <1>4, PTL
       DEF Spec, ImplementsLoadAndJump, Abstract!AbsSpec
=============================================================================
