---------------------------- MODULE LoadAndJump -----------------------------
(***************************************************************************)
(* What jlrunner promises its user, without chunks, files descriptors or   *)
(* transport: a request is one file to be started at one address; the      *)
(* device runs either nothing or one complete requested image; a request   *)
(* starts its image at most once, and is reported done only after that.    *)
(***************************************************************************)
EXTENDS Images

CONSTANT Requests   \* one per invocation

VARIABLES
    placed,    \* placed[r]: the file and address of request r
    running,   \* what the device was last told to run
    verdict,   \* verdict[r]: what the user was told
    started    \* the requests the device has executed

absVars == <<placed, running, verdict, started>>

Nothing == [by |-> "nobody"]

Image(pl) == [a \in Window(pl) |-> Target(pl, a)]

AbsInit ==
    /\ placed \in [Requests -> [file : Files, address : Addrs]]
    /\ running = Nothing
    /\ verdict = [r \in Requests |-> "none"]
    /\ started = {}

\* The whole image is started in one step.  The user may learn in the same
\* step that the request failed: the confirmation was lost.
StartImage(r) ==
    /\ verdict[r] = "none"
    /\ r \notin started
    /\ running' = [by |-> r, image |-> Image(placed[r])]
    /\ started' = started \union {r}
    /\ \/ UNCHANGED verdict
       \/ verdict' = [verdict EXCEPT ![r] = "failed"]
    /\ UNCHANGED placed

Confirm(r) ==
    /\ verdict[r] = "none"
    /\ r \in started
    /\ verdict' = [verdict EXCEPT ![r] = "done"]
    /\ UNCHANGED <<placed, running, started>>

GiveUp(r) ==
    /\ verdict[r] = "none"
    /\ verdict' = [verdict EXCEPT ![r] = "failed"]
    /\ UNCHANGED <<placed, running, started>>

PowerCycle ==
    /\ running' = Nothing
    /\ UNCHANGED <<placed, verdict, started>>

AbsNext ==
    \/ \E r \in Requests : StartImage(r) \/ Confirm(r) \/ GiveUp(r)
    \/ PowerCycle

AbsSpec == AbsInit /\ [][AbsNext]_absVars
=============================================================================
