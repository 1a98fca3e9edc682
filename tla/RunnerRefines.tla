--------------------------- MODULE RunnerRefines ----------------------------
(***************************************************************************)
(* jlrunner implements LoadAndJump: loading chunk by chunk is invisible,   *)
(* the executed jump is the step that starts the image, and the exit code  *)
(* is the verdict.                                                         *)
(***************************************************************************)
EXTENDS Runner

absPlaced ==
    [p \in Procs |-> [file |-> opts[p].file, address |-> opts[p].address]]

absRunning ==
    IF boot = NoBoot
    THEN [by |-> "nobody"]
    ELSE [by |-> boot.by,
          image |-> [a \in Window(opts[boot.by]) |-> boot.ram[a]]]

absVerdict ==
    [p \in Procs |-> IF pc[p] # "exited" THEN "none"
                     ELSE IF ExitCode(p) = OK THEN "done"
                     ELSE "failed"]

Abstract == INSTANCE LoadAndJump WITH
    Requests <- Procs, placed <- absPlaced, running <- absRunning,
    verdict <- absVerdict

\* jlrunner never shows its user anything an atomic load-and-start would not.
ImplementsLoadAndJump == Abstract!AbsSpec
=============================================================================
