----------------------------- MODULE RateLimiter ----------------------------
(***************************************************************************)
(* Monitor.checkRateLimit (twitch/moderation/monitor.go): a counter that   *)
(* is reset by the first call made more than a minute after the last       *)
(* reset, and that refuses once it has reached actions_per_minute. Every   *)
(* monitor of ModerationMonitor holds one.                                 *)
(***************************************************************************)
EXTENDS Integers, Sequences

CONSTANTS Limit,    \* RateLimits.ActionsPerMinute
          Minute,   \* time.Minute, in ticks of the clock
          MaxTime   \* bound: how far the clock goes

VARIABLES
  now,            \* the clock
  actionCount,    \* m.actionCount
  lastResetTime,  \* m.lastResetTime
  grants          \* history: when each granted call was made, in which window

vars == <<now, actionCount, lastResetTime, grants>>

\* NewMonitor: nothing counted yet in a window that starts now.
New == actionCount = 0 /\ lastResetTime = now /\ grants = <<>>

Init == now = 0 /\ New

\* The counter and the window's start as the check sees them, after the reset.
WindowOver == now - lastResetTime > Minute
Count == IF WindowOver THEN 0 ELSE actionCount
Window == IF WindowOver THEN now ELSE lastResetTime

Grant == /\ Count < Limit
         /\ lastResetTime' = Window
         /\ actionCount' = Count + 1
         /\ grants' = Append(grants, [at |-> now, window |-> Window])
         /\ UNCHANGED now

Refuse == /\ Count >= Limit
          /\ lastResetTime' = Window
          /\ actionCount' = Count
          /\ UNCHANGED <<now, grants>>

Tick == /\ now < MaxTime
        /\ now' = now + 1
        /\ UNCHANGED <<actionCount, lastResetTime, grants>>

Next == Grant \/ Refuse \/ Tick

Spec == Init /\ [][Next]_vars

-----------------------------------------------------------------------------
(* What the code guarantees: a burst at the end of one window and one at   *)
(* the start of the next let twice the limit through, but of 2 * Limit + 1 *)
(* consecutive grants the last is more than a minute after the first. The  *)
(* documented "Maximum total actions per minute" does not hold.            *)
TwiceTheLimitPerMinute ==
  \A i \in 1..Len(grants) :
    i + 2 * Limit \in 1..Len(grants) =>
      grants[i + 2 * Limit].at - grants[i].at > Minute

=============================================================================
