------------------------------ MODULE Connect ------------------------------
(***************************************************************************)
(* One attempt to connect to a host, is_connected of                       *)
(* src/src/plugins/configsource-network.c, step by step: a connect that is *)
(* ended by an alarm, whose handler jumps out of it.  The kernel answers,  *)
(* and the alarm rings, whenever they like; the process has one alarm, one *)
(* jump buffer and one signal mask for all its attempts.                   *)
(*                                                                         *)
(* The C library is modelled from its use: signal blocks SIGALRM while the *)
(* handler runs, and setjmp, compiled without _BSD_SOURCE, does not save   *)
(* the mask, so that longjmp leaves the signal blocked.                    *)
(***************************************************************************)
EXTENDS Integers

VARIABLES
  pc,       \* where is_connected is
  alarm,    \* "on", or "rung": it has rung and the handler did not run
  jump,     \* timeout_jump has been filled
  blocked,  \* SIGALRM is blocked
  answered, \* connect has succeeded, and the alarm not come after it
  result    \* what is_connected returned last

connect == <<pc, alarm, jump, blocked, answered, result>>

ConnectInit ==
  /\ pc = "idle"
  /\ alarm = "off"
  /\ jump = FALSE
  /\ blocked = FALSE
  /\ answered = FALSE
  /\ result = -1

Go(from, to) == pc = from /\ pc' = to

\* is_connected returns r.
Return(from, r) ==
  /\ Go(from, "idle")
  /\ alarm' = "off"
  /\ result' = r
  /\ UNCHANGED <<jump, blocked, answered>>

\* It is called.
Call ==
  /\ Go("idle", "called")
  /\ answered' = FALSE
  /\ UNCHANGED <<alarm, jump, blocked, result>>

\* gethostbyname or socket fails, before the alarm is set.
NoAddress == Return("called", -1)

\* signal; alarm.
SetAlarm ==
  /\ Go("called", "alarmed")
  /\ alarm' = "on"
  /\ UNCHANGED <<jump, blocked, answered, result>>

\* setjmp returns 0, and connect begins.
SetJump ==
  /\ Go("alarmed", "connecting")
  /\ jump' = TRUE
  /\ UNCHANGED <<alarm, blocked, answered, result>>

\* connect returns.
ConnectReturns ==
  /\ \/ Go("connecting", "answered") /\ answered' = TRUE
     \/ Go("connecting", "refused") /\ UNCHANGED answered
  /\ UNCHANGED <<alarm, jump, blocked, result>>

Answered == Return("answered", 1)

\* The error path forgets alarm(0).
RefusedSlip ==
  /\ Go("refused", "idle")
  /\ result' = -1
  /\ UNCHANGED <<alarm, jump, blocked, answered>>

Refused == Return("refused", -1)

\* setjmp returns 1: "timed out".
TimedOut == Return("timedout", 0)

\* The handler runs.  Before setjmp the buffer is empty, or of a call that has
\* returned: the program crashes, or goes on as this call's timeout.
Ring ==
  /\ alarm = "on" /\ ~blocked
  /\ alarm' = "off"
  /\ blocked' = TRUE
  /\ answered' = FALSE
  /\ IF pc = "alarmed" THEN pc' \in {"crashed"} \cup (IF jump THEN {"timedout"} ELSE {})
                       ELSE pc' = "timedout"
  /\ UNCHANGED <<jump, result>>

\* The signal is blocked: connect goes on.
RingUnheard ==
  /\ alarm = "on" /\ blocked
  /\ alarm' = "rung"
  /\ UNCHANGED <<pc, jump, blocked, answered, result>>

\* The steps of is_connected itself, and those of others.
Proceed  == NoAddress \/ SetAlarm \/ SetJump \/ Answered \/ Refused \/ TimedOut
Surround == ConnectReturns \/ Ring \/ RingUnheard

-----------------------------------------------------------------------------
\* The types of the variables.
ConnectTypeOK ==
  /\ pc \in {"idle", "called", "alarmed", "connecting", "answered", "refused",
             "timedout", "crashed"}
  /\ alarm \in {"off", "on", "rung"}
  /\ jump \in BOOLEAN /\ blocked \in BOOLEAN /\ answered \in BOOLEAN
  /\ result \in {-1, 0, 1}

\* Whatever way it ends, is_connected leaves no alarm behind, which would jump
\* into a call that has returned while the user is on another page.
NoLateAlarm == alarm = "on" => pc \in {"alarmed", "connecting", "answered", "refused"}

\* "Used to timeout a connect" (configsource-network.c:55): a connect that goes
\* on has an alarm to come.  The code keeps this for the first timeout only.
ConnectTimesOut == pc = "connecting" => alarm # "rung"
=============================================================================
