--------------------------- MODULE CarlaConnection ---------------------------
(***************************************************************************)
(* connect_to_carla of scripts/carla_bridge.py: asks the simulator for its *)
(* world until it answers or the time is over.  It is the first step of    *)
(* each command of the bridge.                                             *)
(*                                                                         *)
(* Time is counted in whole units from the start of the loop.  A call that *)
(* fails may do so at once (nobody listens) or when the client's timeout   *)
(* ends it.  The simulator is ready from readyFrom on and before           *)
(* readyUntil: it answers a call when it is ready all the time of the call, *)
(* and may answer one when it is ready for a part of it.                   *)
(***************************************************************************)
EXTENDS Integers

CONSTANTS Timeout,        \* timeout, of one call
          ReadyTimeout,   \* ready_timeout
          RetryInterval,  \* retry_interval
          Horizon         \* bound on the times the simulator comes and goes

ASSUME ConnectionAssumption ==
  /\ Timeout \in Nat
  /\ ReadyTimeout \in Nat
  /\ RetryInterval \in Nat \ {0}
  /\ Horizon \in Nat

VARIABLES loop, now, readyFrom, readyUntil

connection == <<loop, now, readyFrom, readyUntil>>

Ended == {"connected", "timed_out"}

ReadyThroughout(from, to) == readyFrom <= from /\ to < readyUntil
ReadySometime(from, to) == readyFrom <= to /\ from < readyUntil

-----------------------------------------------------------------------------
ConnectionInit ==
  /\ loop = "check"
  /\ now = 0
  /\ readyFrom \in 0 .. Horizon
  /\ readyUntil \in readyFrom .. Horizon

\* Mutant: one more attempt when the time is just over.
StartAttemptLate ==
  /\ loop = "check"
  /\ now <= ReadyTimeout
  /\ loop' = "get_world"
  /\ UNCHANGED <<now, readyFrom, readyUntil>>

StartAttempt ==
  /\ loop = "check"
  /\ now < ReadyTimeout
  /\ loop' = "get_world"
  /\ UNCHANGED <<now, readyFrom, readyUntil>>

GiveUp ==
  /\ loop = "check"
  /\ now >= ReadyTimeout
  /\ loop' = "timed_out"
  /\ UNCHANGED <<now, readyFrom, readyUntil>>

Answered(call, next) ==
  /\ loop = call
  /\ \E d \in 0 .. Timeout :
        /\ ReadySometime(now, now + d)
        /\ now' = now + d
  /\ loop' = next
  /\ UNCHANGED <<readyFrom, readyUntil>>

\* The RuntimeError of a call.
Failed(call) ==
  /\ loop = call
  /\ \E d \in 0 .. Timeout :
        /\ ~ ReadyThroughout(now, now + d)
        /\ now' = now + d
  /\ loop' = "sleep"
  /\ UNCHANGED <<readyFrom, readyUntil>>

\* Mutant: the interval is doubled.
WaitTwice ==
  /\ loop = "sleep"
  /\ now' = now + 2 * RetryInterval
  /\ loop' = "check"
  /\ UNCHANGED <<readyFrom, readyUntil>>

Wait ==
  /\ loop = "sleep"
  /\ now' = now + RetryInterval
  /\ loop' = "check"
  /\ UNCHANGED <<readyFrom, readyUntil>>

ConnectionNext ==
  \/ StartAttempt
  \/ GiveUp
  \/ Answered("get_world", "get_actors")
  \/ Answered("get_actors", "connected")
  \/ Failed("get_world")
  \/ Failed("get_actors")
  \/ Wait

ConnectionSpec == ConnectionInit /\ [][ConnectionNext]_connection

-----------------------------------------------------------------------------
\* The loop is at one of its calls, at a time.
ConnectionTypeOK ==
  /\ loop \in {"check", "get_world", "get_actors", "sleep"} \cup Ended
  /\ now \in Nat
  /\ readyFrom \in Nat
  /\ readyUntil \in Nat

\* The error "Timed out after ..." may come later than it says, as the time is
\* only looked at between attempts: but by less than one attempt, that is two
\* calls and an interval.
GivesUpInTime ==
  loop = "timed_out" =>
    /\ now >= ReadyTimeout
    /\ now < ReadyTimeout + 2 * Timeout + RetryInterval

\* Long enough for an attempt that starts late to be answered.
ReadyLongEnough ==
  /\ readyFrom + Timeout + RetryInterval <= ReadyTimeout
  /\ readyFrom + 3 * Timeout + RetryInterval <= readyUntil

\* No timeout is reported though the simulator has been ready for three calls
\* and an interval, and was so a call and an interval before the time was over.
ReadyServerIsFound == ReadyLongEnough => loop # "timed_out"

=============================================================================
