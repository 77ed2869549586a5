----------------------------- MODULE SoftTimer ------------------------------
(***************************************************************************)
(* The timer manager (utils/soft_timer.c, soft_timer.h): a wheel of lists. *)
(*                                                                         *)
(* A timer waits in the bucket of the tick it expires at, modulo the       *)
(* number of buckets.  A tick moves the timers that expire to a list of    *)
(* its own and then takes them from that list one by one; handlers start   *)
(* and stop any timers meanwhile, their own and expired ones included.     *)
(***************************************************************************)
EXTENDS Integers, Sequences, Sublists
Seqs == INSTANCE SequencesExt

CONSTANTS
    Timers,     \* SoftTimerElem objects
    NumBuckets, \* SOFT_TIMER_NUM_BUCKETS
    TickWrap,   \* 2^32: ticks are unsigned
    TickRate,   \* timer->tick_rate, in milliseconds
    Timeouts,   \* the milliseconds callers ask for
    NoTimer

ASSUME WheelAssumption ==
    /\ NumBuckets \in Nat \ {0} /\ TickRate \in Nat \ {0}
    /\ TickWrap \in Nat \ {0} /\ TickWrap % NumBuckets = 0
    /\ \A ms \in Timeouts : ms \in Int /\ ms < TickRate * TickWrap - TickRate
    /\ NoTimer \notin Timers

VARIABLES
    tick,           \* timer->tick
    elemTick,       \* elemTick[t]: elem->tick
    buckets,        \* timer->buckets
    timeoutList,    \* timeout_list of timer_tick
    firing,         \* the timer whose handler runs, or NoTimer
    asked           \* history: the timeout of the soft_timer_add just made

wheelVars == <<tick, elemTick, buckets, timeoutList, firing>>
timerVars == <<wheelVars, asked>>

TimerInit ==
    /\ tick = 0
    /\ elemTick = [t \in Timers |-> 0]
    /\ buckets = [b \in 0..NumBuckets - 1 |-> <<>>]
    /\ timeoutList = <<>>
    /\ firing = NoTimer
    /\ asked = NoTimer

(* is_soft_timer_running: linked in whichever list. *)
IsSoftTimerRunning(t) ==
    t \in Seqs!ToSet(timeoutList) \/ \E b \in DOMAIN buckets : t \in Seqs!ToSet(buckets[b])

(* get_soft_tick_from_milsec: C division truncates, the result is unsigned. *)
TicksDown(ms) == (IF ms >= 0 THEN ms \div TickRate ELSE -((-ms) \div TickRate)) % TickWrap

TicksOf(ms) ==
    LET whole == IF ms >= 0 THEN ms \div TickRate ELSE -((-ms) \div TickRate)
    IN  (IF whole * TickRate = ms THEN whole ELSE whole + 1) % TickWrap

SoftTimerAdd(t, ms) ==
    /\ ~IsSoftTimerRunning(t)
    /\ LET at == (tick + TicksOf(ms)) % TickWrap IN
        /\ elemTick' = [elemTick EXCEPT ![t] = at]
        /\ buckets' = [buckets EXCEPT ![at % NumBuckets] = Append(@, t)]
    /\ UNCHANGED <<tick, timeoutList, firing>>

SoftTimerDel(t) ==
    /\ IsSoftTimerRunning(t)
    /\ buckets' = [b \in DOMAIN buckets |-> Sublist(buckets[b], Timers \ {t})]
    /\ timeoutList' = Sublist(timeoutList, Timers \ {t})
    /\ UNCHANGED <<tick, elemTick, firing>>

(* timer_tick up to the drain of timeout_list. *)
TimerTick ==
    /\ timeoutList = <<>> /\ firing = NoTimer
    /\ tick' = (tick + 1) % TickWrap
    /\ LET current == tick' % NumBuckets
           due == {t \in Timers : elemTick[t] = tick'}
       IN /\ timeoutList' = Sublist(buckets[current], due)
          /\ buckets' = [buckets EXCEPT ![current] = Sublist(@, Timers \ due)]
    /\ UNCHANGED <<elemTick, firing>>

ExpireTimerLinked == \* mutant: the timer is unlinked after its handler ran
    /\ firing = NoTimer /\ timeoutList # <<>>
    /\ firing' = Head(timeoutList)
    /\ UNCHANGED <<tick, elemTick, timeoutList, buckets>>

(* One turn of the drain: the timer is unlinked, then called. *)
ExpireTimer ==
    /\ firing = NoTimer /\ timeoutList # <<>>
    /\ firing' = Head(timeoutList)
    /\ timeoutList' = Tail(timeoutList)
    /\ UNCHANGED <<tick, elemTick, buckets>>

HandlerReturns == firing # NoTimer /\ firing' = NoTimer /\ UNCHANGED <<tick, elemTick, buckets, timeoutList>>

TimerDrive == (TimerTick \/ ExpireTimer \/ HandlerReturns) /\ asked' = NoTimer

TimerNext ==
    \/ \E t \in Timers, ms \in Timeouts : SoftTimerAdd(t, ms) /\ asked' = ms
    \/ (\E t \in Timers : SoftTimerDel(t)) /\ asked' = NoTimer
    \/ TimerDrive

(* soft_timer_drive is called for ever, and handlers return. *)
TimerFairness == WF_timerVars(TimerDrive)

TimerSpec == TimerInit /\ [][TimerNext]_timerVars /\ TimerFairness

-----------------------------------------------------------------------------
(* Properties. *)

(* The ticks t still waits in its bucket: those of a whole wrap if it was  *)
(* started with a timeout of no ticks.                                     *)
TicksLeft(t) ==
    IF \A b \in DOMAIN buckets : t \notin Seqs!ToSet(buckets[b]) THEN 0
    ELSE LET n == (elemTick[t] - tick) % TickWrap IN IF n = 0 THEN TickWrap ELSE n
Left == [t \in Timers |-> TicksLeft(t)]

Promise == INSTANCE Deadlines WITH
    MaxTicks <- TickWrap,
    left <- Left,
    expired <- Seqs!ToSet(timeoutList),
    called <- firing

(* The wheel keeps the promise of Deadlines: every timer expires at its    *)
(* tick and once, whatever handlers start and stop, and a stopped timer is *)
(* not called even if it had expired in the same tick.                     *)
ImplementsDeadlines == Promise!DeadlinesSpec

(* Every variable has its type. *)
TimerTypeOK ==
    /\ tick \in 0..TickWrap - 1
    /\ elemTick \in [Timers -> 0..TickWrap - 1]
    /\ buckets \in [0..NumBuckets - 1 -> Seq(Timers)]
    /\ timeoutList \in Seq(Timers)
    /\ firing \in Timers \union {NoTimer}

(* A timer is linked once at most, and in the bucket its tick is looked    *)
(* for in; what is left in timeout_list expires at the present tick.       *)
WheelConsistent ==
    /\ \A b \in DOMAIN buckets :
        /\ Seqs!IsInjective(buckets[b])
        /\ \A t \in Seqs!ToSet(buckets[b]) :
            elemTick[t] % NumBuckets = b /\ t \notin Seqs!ToSet(timeoutList)
    /\ Seqs!IsInjective(timeoutList)
    /\ \A t \in Seqs!ToSet(timeoutList) : elemTick[t] = tick

(* A started timer expires or is stopped: also one whose timeout is more   *)
(* than a turn of the wheel, or is none.                                   *)
EveryTimerEnds == \A t \in Timers : IsSoftTimerRunning(t) ~> ~IsSoftTimerRunning(t)
=============================================================================
