------------------------------ MODULE RunnerMC ------------------------------
(***************************************************************************)
(* Instances of Runner for the model checker: 6 addresses, a u16 whose     *)
(* largest value is 2, a file of three bytes, one of two and an empty one. *)
(***************************************************************************)
EXTENDS RunnerRefines

CONSTANTS p1, p2

MCFiles == {"app", "cfg", "empty"}
MCSize == [f \in MCFiles |-> CASE f = "app" -> 3 [] f = "cfg" -> 2
                               [] f = "empty" -> 0]

Opt(f, a, c, x, j) ==
    [file |-> f, address |-> a, chunk |-> c, arg |-> x, jump |-> j]

\* `app' at 4 wraps around the end of the address space; `cfg' at 2 is next
\* to it and `cfg' at 3 overlaps it.  Chunk size 3 is too long for app.
\* Chunk size 0 is floored to 1 and argument 3 does not fit.  clap rejects
\* a `--jump' with a value.
MCOptions ==
    { Opt("app", 4, 2, 0, "absent"), Opt("app", 4, 0, 0, "flag"),
      Opt("app", 4, 3, 0, "absent"), Opt("cfg", 2, 2, 3, "absent"),
      Opt("cfg", 2, 1, 0, "absent"), Opt("cfg", 3, 1, 0, "flag"),
      Opt("empty", 4, 2, 0, "absent"), Opt("cfg", 2, 1, 0, "value") }

\* One invocation, every form of the command line.
MCOneOptions ==
    { Opt(f, 4, c, x, j) : f \in MCFiles, c \in 0 .. 3, x \in {0, 3},
                           j \in {"absent", "flag", "value"} }
=============================================================================
