------------------------------ MODULE IoDriver ------------------------------
(***************************************************************************)
(* The select loop of the main thread (utils/io_driver.c).                 *)
(*                                                                         *)
(* A watcher sits in driver->watchers while it listens to some event.      *)
(* After select, io_driver_postselect moves the whole list to a local      *)
(* run_list and takes the watchers from it one by one, putting each back   *)
(* in driver->watchers BEFORE calling it: a callback may watch, un-watch,  *)
(* close or create any watcher, itself included, while the round is on.    *)
(*                                                                         *)
(* Callbacks are arbitrary: any sequence of such calls, then a return.     *)
(***************************************************************************)
EXTENDS Integers, Sequences, FiniteSets
LOCAL INSTANCE SequencesExt

CONSTANTS
    Watchers,   \* watcher memory: struct io_driver_watcher_t objects
    Fds,        \* file descriptors, reused by the kernel once closed
    NoFd,       \* fd of a watcher that has none
    Listenable  \* Listenable[w]: the events callbacks ask of w (a stream: two)

ASSUME NoFdAssumption == NoFd \notin Fds
ASSUME ListenableAssumption == Listenable \in [Watchers -> SUBSET {"RX", "TX", "EX"}]

Event == {"RX", "TX", "EX"}

VARIABLES
    fd,         \* fd[w]: the descriptor w stands for
    mask,       \* mask[w]: event_listening
    watchers,   \* driver->watchers
    runList,    \* run_list of io_driver_postselect
    ready,      \* ready[e]: the descriptors select reported for e
    phase,      \* "idle", "round" (between watchers), "test", "callback"
    cur,        \* the watcher taken from run_list
    stage,      \* the event being tested or called
    owed,       \* history: listed when select returned, neither taken nor
                \* un-linked since
    opened      \* history: the watchers (re)created in this round

ioVars == <<fd, mask, watchers, runList, ready, phase, cur, stage, owed, opened>>
listVars == <<fd, mask, watchers, runList, owed, opened>>
roundVars == <<ready, phase, cur, stage>>

Linked(list) == {list[i] : i \in DOMAIN list}

(* list_del_init of a node, in whichever list it is linked. *)
Unlink(list, w) ==
    IF \E i \in DOMAIN list : list[i] = w
    THEN RemoveAt(list, CHOOSE i \in DOMAIN list : list[i] = w)
    ELSE list

IoInit ==
    /\ fd = [w \in Watchers |-> NoFd]
    /\ mask = [w \in Watchers |-> {}]
    /\ watchers = <<>>
    /\ runList = <<>>
    /\ ready = [e \in Event |-> {}]
    /\ phase = "idle"
    /\ cur \in Watchers
    /\ stage = "RX"
    /\ owed = {}
    /\ opened = {}

-----------------------------------------------------------------------------
(* io_driver_run *)

(* preselect's fd_set for event e. *)
Listening(e) == {fd[w] : w \in {v \in Linked(watchers) : e \in mask[v]}}

(* select reports some of the descriptors asked for; when it times out or  *)
(* fails io_driver_run returns and nothing changes.                        *)
SelectReturns ==
    /\ phase = "idle"
    /\ \E r \in [Event -> SUBSET Fds] :
        /\ \A e \in Event : r[e] \subseteq Listening(e)
        /\ \E e \in Event : r[e] # {}
        /\ ready' = r
    /\ phase' = "round"
    /\ runList' = watchers
    /\ watchers' = <<>>
    /\ owed' = Linked(watchers)
    /\ UNCHANGED <<fd, mask, cur, stage, opened>>

TakeRequeue ==      \* mutant: the watcher goes back to the end of run_list
    /\ phase = "round"
    /\ runList # <<>>
    /\ cur' = Head(runList)
    /\ runList' = Append(Tail(runList), Head(runList))
    /\ owed' = owed \ {Head(runList)}
    /\ stage' = "RX"
    /\ phase' = "test"
    /\ UNCHANGED <<fd, mask, watchers, ready, opened>>

(* One turn of the while loop: the first watcher is moved back. *)
Take ==
    /\ phase = "round"
    /\ runList # <<>>
    /\ cur' = Head(runList)
    /\ runList' = Tail(runList)
    /\ watchers' = Append(watchers, Head(runList))
    /\ owed' = owed \ {Head(runList)}
    /\ stage' = "RX"
    /\ phase' = "test"
    /\ UNCHANGED <<fd, mask, ready, opened>>

(* The fd_sets and run_list are local to the round. *)
Forget ==
    /\ phase' = "idle"
    /\ ready' = [e \in Event |-> {}]
    /\ owed' = {}
    /\ opened' = {}

(* History: what a callback does to a watcher, while the round is on. *)
InRound(w) == IF phase = "idle" THEN {} ELSE {w}

RoundOver ==
    /\ phase = "round"
    /\ runList = <<>>
    /\ Forget
    /\ UNCHANGED <<fd, mask, watchers, runList, cur, stage>>

(* RX, then TX, then EX, then the next watcher. *)
NextStage ==
    /\ stage' = CASE stage = "RX" -> "TX" [] stage = "TX" -> "EX" [] stage = "EX" -> "RX"
    /\ phase' = IF stage = "EX" THEN "round" ELSE "test"

(* event_listening is read again for every event: the callback for an      *)
(* earlier one may have changed it.                                        *)
Due == stage \in mask[cur] /\ fd[cur] \in ready[stage]

Call ==
    /\ phase = "test"
    /\ Due
    /\ phase' = "callback"
    /\ UNCHANGED <<ready, cur, stage>>
    /\ UNCHANGED listVars

Skip ==
    /\ phase = "test"
    /\ ~Due
    /\ NextStage
    /\ UNCHANGED <<ready, cur>>
    /\ UNCHANGED listVars

CallbackReturns ==
    /\ phase = "callback"
    /\ NextStage
    /\ UNCHANGED <<ready, cur>>
    /\ UNCHANGED listVars

-----------------------------------------------------------------------------
(* What callbacks do, and start-up code between two rounds. *)

MayCall == phase \in {"idle", "callback"}

WatchRunList(w, e) ==   \* mutant: a new watcher joins the running round
    /\ MayCall
    /\ fd[w] # NoFd
    /\ mask' = [mask EXCEPT ![w] = @ \union {e}]
    /\ IF mask[w] # {} THEN UNCHANGED <<watchers, runList>>
       ELSE IF phase = "idle"
       THEN watchers' = Append(watchers, w) /\ UNCHANGED runList
       ELSE runList' = Append(runList, w) /\ UNCHANGED watchers
    /\ UNCHANGED <<fd, owed, opened>>
    /\ UNCHANGED roundVars

WatchAlways(w, e) ==    \* mutant: the node is linked on every call
    /\ MayCall
    /\ fd[w] # NoFd
    /\ mask' = [mask EXCEPT ![w] = @ \union {e}]
    /\ watchers' = Append(watchers, w)
    /\ UNCHANGED <<fd, runList, owed, opened>>
    /\ UNCHANGED roundVars

(* io_driver_watch *)
Watch(w, e) ==
    /\ MayCall
    /\ fd[w] # NoFd
    /\ mask' = [mask EXCEPT ![w] = @ \union {e}]
    /\ watchers' = IF mask[w] = {} THEN Append(watchers, w) ELSE watchers
    /\ UNCHANGED <<fd, runList, owed, opened>>
    /\ UNCHANGED roundVars

NoWatchClears(w, e) ==  \* mutant: run_list is re-initialised, not the node
    /\ MayCall
    /\ e \in mask[w]
    /\ mask' = [mask EXCEPT ![w] = @ \ {e}]
    /\ IF mask[w] = {e}
       THEN /\ watchers' = Unlink(watchers, w)
            /\ runList' = IF w \in Linked(runList) THEN <<>> ELSE runList
            /\ owed' = owed \ {w}
       ELSE UNCHANGED <<watchers, runList, owed>>
    /\ UNCHANGED <<fd, opened>>
    /\ UNCHANGED roundVars

NoWatchKeeps(w, e) ==   \* mutant: only driver->watchers is searched
    /\ MayCall
    /\ e \in mask[w]
    /\ mask' = [mask EXCEPT ![w] = @ \ {e}]
    /\ watchers' = IF mask[w] = {e} THEN Unlink(watchers, w) ELSE watchers
    /\ owed' = IF mask[w] = {e} THEN owed \ {w} ELSE owed
    /\ UNCHANGED <<fd, runList, opened>>
    /\ UNCHANGED roundVars

(* io_driver_no_watch: the node is un-linked from the list it is in.       *)
(* Without the event in the mask the call changes nothing.                 *)
NoWatch(w, e) ==
    /\ MayCall
    /\ e \in mask[w]
    /\ mask' = [mask EXCEPT ![w] = @ \ {e}]
    /\ IF mask[w] = {e}
       THEN /\ watchers' = Unlink(watchers, w)
            /\ runList' = Unlink(runList, w)
            /\ owed' = owed \ {w}
       ELSE UNCHANGED <<watchers, runList, owed>>
    /\ UNCHANGED <<fd, opened>>
    /\ UNCHANGED roundVars

(* A descriptor is created (accept, open) and given to a watcher by        *)
(* io_driver_watcher_init.  The watcher being called is not re-created by  *)
(* its own callback: no callback of the program does both.                 *)
Open(w, f) ==
    /\ MayCall
    /\ fd[w] = NoFd
    /\ \A v \in Watchers : fd[v] # f
    /\ phase = "callback" => w # cur
    /\ fd' = [fd EXCEPT ![w] = f]
    /\ opened' = opened \union InRound(w)
    /\ UNCHANGED <<mask, watchers, runList, owed>>
    /\ UNCHANGED roundVars

(* close, after the last no_watch (stream_deinit). *)
CloseFd(w) ==
    /\ MayCall
    /\ fd[w] # NoFd
    /\ mask[w] = {}
    /\ fd' = [fd EXCEPT ![w] = NoFd]
    /\ UNCHANGED <<mask, watchers, runList, owed, opened>>
    /\ UNCHANGED roundVars

Round == Take \/ RoundOver \/ Call \/ Skip \/ CallbackReturns
Run == SelectReturns \/ Round

IoNext ==
    \/ Run
    \/ \E w \in Watchers :
        \/ \E e \in Listenable[w] : Watch(w, e) \/ NoWatch(w, e)
        \/ \E f \in Fds : Open(w, f)
        \/ CloseFd(w)

(* The main thread keeps running and every callback returns; the kernel    *)
(* owes no event.                                                          *)
IoFairness == WF_ioVars(Round)

IoSpec == IoInit /\ [][IoNext]_ioVars /\ IoFairness

-----------------------------------------------------------------------------
(* Properties. *)

(* Every variable has its type. *)
IoTypeOK ==
    /\ fd \in [Watchers -> Fds \union {NoFd}]
    /\ mask \in [Watchers -> SUBSET Event]
    /\ watchers \in Seq(Watchers)
    /\ runList \in Seq(Watchers)
    /\ ready \in [Event -> SUBSET Fds]
    /\ phase \in {"idle", "round", "test", "callback"}
    /\ cur \in Watchers
    /\ stage \in Event
    /\ owed \subseteq Watchers
    /\ opened \subseteq Watchers

NoRepeat(list) == \A i, j \in DOMAIN list : list[i] = list[j] => i = j

(* The intrusive lists stay well formed whatever the callbacks do: a       *)
(* watcher is linked exactly while it listens to something, once, and in   *)
(* one of the two lists.                                                   *)
ListsConsistent ==
    /\ NoRepeat(watchers) /\ NoRepeat(runList)
    /\ Linked(watchers) \intersect Linked(runList) = {}
    /\ Linked(watchers) \union Linked(runList) = {w \in Watchers : mask[w] # {}}

(* run_list exists only during a round; a watcher that listens is seen by  *)
(* the next select.                                                        *)
AllSeenBySelect == phase = "idle" => runList = <<>>

(* "new watcher is ... scheduled at next loop", "other watchers are        *)
(* deleted from run_list and never gets scheduled": run_list only ever     *)
(* holds watchers that were listed when select returned, that nothing has  *)
(* un-linked since, and that have not had their turn.                      *)
RoundIsFixed ==
    Linked(runList) \subseteq owed

(* Nobody is skipped: a watcher listed at select that no callback un-links  *)
(* awaits its turn until it has it; when run_list is empty and the round    *)
(* ends, all have had it.                                                  *)
NobodySkipped == owed \subseteq Linked(runList)

(* What NoStaleEvent rests on: only a watcher with a descriptor is listed, *)
(* so none that awaits its turn can have been re-created in this round,    *)
(* and neither can the one that has it.                                    *)
NoneReopened ==
    /\ \A w \in Watchers : mask[w] # {} => fd[w] # NoFd
    /\ Linked(runList) \intersect opened = {}
    /\ phase \in {"test", "callback"} => cur \notin opened
    /\ phase = "idle" => opened = {}

DriverInv ==
    /\ IoTypeOK
    /\ ListsConsistent
    /\ AllSeenBySelect
    /\ RoundIsFixed
    /\ NobodySkipped
    /\ NoneReopened

(* A callback runs for an event its watcher listens to now, on readiness   *)
(* reported for the descriptor it has now: never on that of a closed       *)
(* connection whose descriptor number was reused within the round.         *)
NoStaleEvent ==
    [][Call => stage \in mask[cur] /\ cur \notin opened]_ioVars

(* Every round ends, however many watchers the callbacks add. *)
RoundEnds == phase # "idle" ~> phase = "idle"
=============================================================================
