----------------------------- MODULE Deadlines ------------------------------
(***************************************************************************)
(* What the soft timer promises: a timer that was started expires exactly  *)
(* once, at the first tick that is not earlier than the milliseconds asked *)
(* for, unless it is stopped first, up to the moment it is called.         *)
(*                                                                         *)
(* A timeout that is not positive is out of the promise: it expires later. *)
(***************************************************************************)
EXTENDS Integers

CONSTANTS Timers, TickRate, Timeouts, MaxTicks, NoTimer

VARIABLES
    left,       \* left[t]: ticks until t expires, 0 if it is not started
    expired,    \* timers that expired at this tick and are to be called
    called,     \* the timer whose handler runs, or NoTimer
    asked       \* the milliseconds asked for, when a timer was started just now

deadlineVars == <<left, expired, called, asked>>

DeadlinesInit == left = [t \in Timers |-> 0] /\ expired = {} /\ called = NoTimer /\ asked = NoTimer

(* The first tick at or after ms milliseconds. *)
OnTime(ms, n) == n * TickRate >= ms /\ (n - 1) * TickRate < ms

Start(t, ms) ==
    /\ asked' = ms
    /\ left[t] = 0 /\ t \notin expired
    /\ \E n \in 1..MaxTicks :
        /\ ms > 0 => OnTime(ms, n)
        /\ left' = [left EXCEPT ![t] = n]
    /\ UNCHANGED <<expired, called>>

Stop(t) ==
    /\ left' = [left EXCEPT ![t] = 0]
    /\ expired' = expired \ {t}
    /\ UNCHANGED called

TickOn ==
    /\ expired = {} /\ called = NoTimer
    /\ left' = [t \in Timers |-> IF left[t] = 0 THEN 0 ELSE left[t] - 1]
    /\ expired' = {t \in Timers : left[t] = 1}
    /\ UNCHANGED called

Call(t) ==
    /\ called = NoTimer /\ t \in expired
    /\ called' = t
    /\ expired' = expired \ {t}
    /\ UNCHANGED left

Done == called # NoTimer /\ called' = NoTimer /\ UNCHANGED <<left, expired>>

DeadlinesNext ==
    \/ \E t \in Timers, ms \in Timeouts : Start(t, ms)
    \/ asked' = NoTimer /\ (TickOn \/ Done \/ \E t \in Timers : Stop(t) \/ Call(t))

DeadlinesSpec == DeadlinesInit /\ [][DeadlinesNext]_deadlineVars
=============================================================================
