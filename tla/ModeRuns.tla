------------------------------ MODULE ModeRuns ------------------------------
(***************************************************************************)
(* What the driver promises of a run, without its scripts and objects: the *)
(* modes that were asked for complete one by one, in the order of main's   *)
(* blocks; the run may stop at any point, nothing completes after that,    *)
(* and it stops with code 0 only when nothing asked for is left.           *)
(***************************************************************************)
EXTENDS Naturals, Sequences

CONSTANT Blocks   \* the modes, each once, in the order of main's blocks

VARIABLES
  wanted,   \* the modes this run was asked for
  done,     \* those that have completed
  code      \* "running", or what the run ended with

runVars == <<wanted, done, code>>

Wanted(i) == Blocks[i] \in wanted
Done(i) == Blocks[i] \in done

Init == /\ wanted \subseteq {Blocks[i] : i \in DOMAIN Blocks}
        /\ done = {}
        /\ code = "running"

Complete(i) ==
  /\ code = "running" /\ Wanted(i) /\ ~Done(i)
  /\ \A j \in 1 .. i - 1 : Wanted(j) => Done(j)
  /\ done' = done \cup {Blocks[i]}
  /\ UNCHANGED <<wanted, code>>

Stop(c) ==
  /\ code = "running"
  /\ c = "0" => done = wanted
  /\ code' = c
  /\ UNCHANGED <<wanted, done>>

Next == \/ \E i \in DOMAIN Blocks : Complete(i)
        \/ \E c \in {"0", "1", "abort", "undefined"} : Stop(c)

Spec == Init /\ [][Next]_runVars
=============================================================================
