-------------------------------- MODULE Tour --------------------------------
(***************************************************************************)
(* What fwife promises of its pages, whatever GTK, dialogs and skips do:   *)
(* a tour of the plugins, one at a time in order, that may step back, and  *)
(* that is completed only at the last plugin.  The engine of fwife.c       *)
(* (Wizard) implements it.                                                 *)
(***************************************************************************)
EXTENDS Integers

CONSTANT N  \* number of stops

Stop == 0 .. N-1

VARIABLES
  at,      \* the stop the tour is at
  passed,  \* stops passed at least once
  later,   \* <<i, j>> when i was last passed later than j
  ended    \* "no", "completed" or "aborted"

tour == <<at, passed, later, ended>>

Init == at = 0 /\ passed = {} /\ later = {} /\ ended = "no"

\* Pass the current stop: from now on it is the one passed last.
Pass ==
  /\ ended = "no"
  /\ at < N-1
  /\ at' = at + 1
  /\ passed' = passed \cup {at}
  /\ later' = {q \in later : at \notin {q[1], q[2]}}
              \cup {<<at, j>> : j \in passed \ {at}}
  /\ UNCHANGED ended

StepBack ==
  /\ ended = "no"
  /\ at > 0
  /\ at' = at - 1
  /\ UNCHANGED <<passed, later, ended>>

Complete ==
  /\ ended = "no"
  /\ at = N-1
  /\ ended' = "completed"
  /\ UNCHANGED <<at, passed, later>>

Abort ==
  /\ ended = "no"
  /\ ended' = "aborted"
  /\ UNCHANGED <<at, passed, later>>

Next == Pass \/ StepBack \/ Complete \/ Abort

Spec == Init /\ [][Next]_tour

-----------------------------------------------------------------------------
\* Every stop before the current one has been passed, and was last passed after
\* all the stops before it.
PassedInOrder ==
  \A j \in Stop : j < at => /\ j \in passed
                           /\ \A i \in Stop : i < j => <<j, i>> \in later
=============================================================================
