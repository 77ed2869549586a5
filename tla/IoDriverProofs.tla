--------------------------- MODULE IoDriverProofs ---------------------------
(***************************************************************************)
(* Proofs about IoDriver for every number of watchers and descriptors.     *)
(***************************************************************************)
EXTENDS IoDriver, SequenceTheorems, TLAPS
LOCAL INSTANCE SequencesExt

(* A sequence without its i-th element. *)
LEMMA RemoveAtFacts ==
    ASSUME NEW S, NEW s \in Seq(S), NEW i \in 1..Len(s)
    PROVE  /\ RemoveAt(s, i) \in Seq(S)
           /\ DOMAIN RemoveAt(s, i) = 1..Len(s) - 1
           /\ \A j \in 1..Len(s) - 1 :
                RemoveAt(s, i)[j] = IF j < i THEN s[j] ELSE s[j + 1]
<1> DEFINE a == SubSeq(s, 1, i - 1)
           b == SubSeq(s, i + 1, Len(s))
<1>1. PICK n \in Nat : n = Len(s) /\ DOMAIN s = 1..n /\ \A j \in 1..n : s[j] \in S
  OBVIOUS
<1>2. i \in Nat /\ 1 <= i /\ i <= n
  BY <1>1
<1>3. a \in Seq(S) /\ Len(a) = i - 1 /\ \A j \in 1..i - 1 : a[j] = s[j]
  <2>1. i - 1 \in Int /\ 1 \in Int /\ \A j \in 1..i - 1 : s[j] \in S
    BY <1>1, <1>2
  <2>2. /\ a \in Seq(S) /\ Len(a) = IF 1 <= i - 1 THEN i - 1 - 1 + 1 ELSE 0
        /\ \A j \in 1..i - 1 - 1 + 1 : a[j] = s[1 + j - 1]
    BY <2>1, SubSeqProperties
  <2> HIDE DEF a
  <2> QED BY <1>2, <2>2
<1>4. b \in Seq(S) /\ Len(b) = n - i /\ \A j \in 1..n - i : b[j] = s[i + j]
  <2>1. i + 1 \in Int /\ n \in Int /\ \A j \in i + 1..n : s[j] \in S
    BY <1>1, <1>2
  <2>2. /\ b \in Seq(S) /\ Len(b) = IF i + 1 <= n THEN n - (i + 1) + 1 ELSE 0
        /\ \A j \in 1..n - (i + 1) + 1 : b[j] = s[i + 1 + j - 1]
    BY <1>1, <2>1, SubSeqProperties
  <2> HIDE DEF b
  <2> QED BY <1>2, <2>2
<1> HIDE DEF a, b
<1>5. /\ a \o b \in Seq(S) /\ Len(a \o b) = Len(a) + Len(b)
      /\ \A j \in 1..Len(a) + Len(b) :
            (a \o b)[j] = IF j <= Len(a) THEN a[j] ELSE b[j - Len(a)]
  BY <1>3, <1>4, ConcatProperties
<1>6. DOMAIN (a \o b) = 1..n - 1
  <2>1. Len(a \o b) = n - 1
    BY <1>2, <1>3, <1>4, <1>5
  <2> QED BY <1>5, <2>1
<1>7. ASSUME NEW j \in 1..n - 1
      PROVE  (a \o b)[j] = IF j < i THEN s[j] ELSE s[j + 1]
  <2>1. j \in 1..Len(a) + Len(b)
    BY <1>2, <1>3, <1>4
  <2>2. CASE j < i
    BY <1>2, <1>3, <1>5, <2>1, <2>2
  <2>3. CASE ~(j < i)
    <3>1. j - (i - 1) \in 1..n - i /\ i + (j - (i - 1)) = j + 1
      BY <1>2, <2>3
    <3>2. (a \o b)[j] = b[j - (i - 1)]
      BY <1>2, <1>3, <1>5, <2>1, <2>3
    <3>3. (a \o b)[j] = s[j + 1]
      BY <1>4, <3>1, <3>2
    <3> QED BY <2>3, <3>3
  <2> QED BY <2>2, <2>3
<1>8. RemoveAt(s, i) = a \o b
  BY DEF RemoveAt, a, b
<1> QED BY <1>1, <1>5, <1>6, <1>7, <1>8

(* What un-linking a node leaves of a list without repetitions. *)
LEMMA UnlinkFacts ==
    ASSUME NEW S, NEW s \in Seq(S), NEW w, NoRepeat(s)
    PROVE  /\ Unlink(s, w) \in Seq(S)
           /\ NoRepeat(Unlink(s, w))
           /\ Linked(Unlink(s, w)) = Linked(s) \ {w}
<1>1. CASE ~ \E i \in DOMAIN s : s[i] = w
  BY <1>1 DEF Unlink, Linked
<1>2. CASE \E i \in DOMAIN s : s[i] = w
  <2>1. PICK i \in DOMAIN s : s[i] = w /\ Unlink(s, w) = RemoveAt(s, i)
    BY <1>2 DEF Unlink
  <2> DEFINE t == RemoveAt(s, i)
  <2>2. PICK n \in Nat : n = Len(s) /\ DOMAIN s = 1..n
    OBVIOUS
  <2>3. /\ t \in Seq(S) /\ DOMAIN t = 1..n - 1
        /\ \A j \in 1..n - 1 : t[j] = IF j < i THEN s[j] ELSE s[j + 1]
    BY <2>2, RemoveAtFacts
  <2> HIDE DEF t
  <2>4. NoRepeat(t)
    <3>1. ASSUME NEW x \in 1..n - 1, NEW y \in 1..n - 1, t[x] = t[y]
          PROVE  x = y
      <4> DEFINE p(j) == IF j < i THEN j ELSE j + 1
      <4>1. p(x) \in DOMAIN s /\ p(y) \in DOMAIN s
        BY <2>2
      <4>2. s[p(x)] = t[x] /\ s[p(y)] = t[y]
        BY <2>3
      <4>3. p(x) = p(y)
        BY <3>1, <4>1, <4>2 DEF NoRepeat
      <4> QED BY <2>2, <4>3
    <3> QED BY <2>3, <3>1 DEF NoRepeat
  <2>5. Linked(t) \subseteq Linked(s) \ {w}
    <3>1. ASSUME NEW j \in 1..n - 1
          PROVE  t[j] \in Linked(s) /\ t[j] # w
      <4>1. CASE j < i
        BY <2>1, <2>2, <2>3, <4>1 DEF NoRepeat, Linked
      <4>2. CASE ~(j < i)
        <5>1. t[j] = s[j + 1] /\ j + 1 \in DOMAIN s /\ j + 1 # i
          BY <2>2, <2>3, <4>2
        <5> QED BY <2>1, <5>1 DEF NoRepeat, Linked
      <4> QED BY <4>1, <4>2
    <3> QED BY <2>3, <3>1 DEF Linked
  <2>6. ASSUME NEW j \in DOMAIN s, s[j] # w
        PROVE  s[j] \in Linked(t)
    <3>1. CASE j < i
      BY <2>2, <2>3, <3>1 DEF Linked
    <3>2. CASE j > i
      <4>1. j - 1 \in DOMAIN t /\ t[j - 1] = s[j]
        BY <2>2, <2>3, <3>2
      <4> QED BY <4>1 DEF Linked
    <3> QED BY <2>1, <2>2, <2>6, <3>1, <3>2
  <2>7. Linked(t) = Linked(s) \ {w}
    BY <2>5, <2>6 DEF Linked
  <2> QED BY <2>1, <2>3, <2>4, <2>7 DEF t
<1> QED BY <1>1, <1>2

(* Linking a node that is not in the list, at its end. *)
LEMMA LinkFacts ==
    ASSUME NEW S, NEW s \in Seq(S), NEW w \in S
    PROVE  /\ Append(s, w) \in Seq(S)
           /\ Linked(Append(s, w)) = Linked(s) \union {w}
           /\ NoRepeat(s) /\ w \notin Linked(s) => NoRepeat(Append(s, w))
<1>1. /\ Append(s, w) \in Seq(S) /\ Len(s) \in Nat /\ DOMAIN s = 1..Len(s)
      /\ DOMAIN Append(s, w) = 1..Len(s) + 1
      /\ \A j \in 1..Len(s) : Append(s, w)[j] = s[j]
      /\ Append(s, w)[Len(s) + 1] = w
  OBVIOUS
<1>2. Linked(Append(s, w)) = Linked(s) \union {w}
  BY <1>1 DEF Linked
<1>3. NoRepeat(s) /\ w \notin Linked(s) => NoRepeat(Append(s, w))
  BY <1>1 DEF NoRepeat, Linked
<1> QED BY <1>1, <1>2, <1>3

(* Taking the first node of a list. *)
LEMMA TakeFacts ==
    ASSUME NEW S, NEW s \in Seq(S), s # <<>>
    PROVE  /\ Head(s) \in S /\ Tail(s) \in Seq(S)
           /\ Head(s) \in Linked(s)
           /\ NoRepeat(s) => /\ NoRepeat(Tail(s))
                             /\ Linked(Tail(s)) = Linked(s) \ {Head(s)}
<1>1. /\ Len(s) \in Nat \ {0} /\ DOMAIN s = 1..Len(s) /\ Head(s) = s[1]
      /\ Tail(s) \in Seq(S) /\ DOMAIN Tail(s) = 1..Len(s) - 1
      /\ \A j \in 1..Len(s) - 1 : Tail(s)[j] = s[j + 1]
  OBVIOUS
<1>2. Head(s) \in Linked(s) /\ Head(s) \in S
  BY <1>1 DEF Linked
<1>3. ASSUME NoRepeat(s)
      PROVE  NoRepeat(Tail(s))
  BY <1>1, <1>3 DEF NoRepeat
<1>4. ASSUME NoRepeat(s)
      PROVE  Linked(Tail(s)) = Linked(s) \ {Head(s)}
  <2>1. Linked(Tail(s)) \subseteq Linked(s) \ {Head(s)}
    BY <1>1, <1>4 DEF NoRepeat, Linked
  <2>2. ASSUME NEW j \in DOMAIN s, s[j] # Head(s)
        PROVE  s[j] \in Linked(Tail(s))
    <3>1. j - 1 \in DOMAIN Tail(s) /\ Tail(s)[j - 1] = s[j]
      BY <1>1, <2>2
    <3> QED BY <3>1 DEF Linked
  <2> QED BY <2>1, <2>2 DEF Linked
<1> QED BY <1>1, <1>2, <1>3, <1>4

-----------------------------------------------------------------------------
(* The invariant, action by action. *)

LEMMA DriverInvInit == IoInit => DriverInv
<1> SUFFICES ASSUME IoInit
             PROVE  DriverInv
  OBVIOUS
<1>1. IoTypeOK
  BY DEF IoInit, IoTypeOK, Event
<1>2. Linked(<<>>) = {} /\ NoRepeat(<<>>)
  BY DEF Linked, NoRepeat
<1>3. ListsConsistent /\ AllSeenBySelect /\ RoundIsFixed /\ NobodySkipped /\ NoneReopened
  BY <1>2 DEF IoInit, ListsConsistent, AllSeenBySelect, RoundIsFixed, NobodySkipped,
             NoneReopened
<1> QED BY <1>1, <1>3 DEF DriverInv

LEMMA DriverInvSelect == DriverInv /\ SelectReturns => DriverInv'
<1> SUFFICES ASSUME DriverInv, SelectReturns
             PROVE  DriverInv'
  OBVIOUS
<1> USE DEF DriverInv
<1>1. IoTypeOK'
  <2>1. Linked(watchers) \subseteq Watchers
    BY DEF Linked, IoTypeOK
  <2> QED BY <2>1 DEF IoTypeOK, SelectReturns
<1>2. Linked(<<>>) = {} /\ NoRepeat(<<>>)
  BY DEF Linked, NoRepeat
<1>3. runList = <<>>
  BY DEF SelectReturns, AllSeenBySelect
<1>4. ListsConsistent'
  <2>1. /\ watchers' = <<>> /\ runList' = watchers /\ mask' = mask
    BY DEF SelectReturns
  <2> QED BY <1>2, <1>3, <2>1 DEF ListsConsistent
<1>5. AllSeenBySelect' /\ RoundIsFixed' /\ NobodySkipped' /\ NoneReopened'
  BY DEF SelectReturns, AllSeenBySelect, RoundIsFixed, NobodySkipped, NoneReopened
<1> QED BY <1>1, <1>4, <1>5

LEMMA DriverInvTake == DriverInv /\ Take => DriverInv'
<1> SUFFICES ASSUME DriverInv, Take
             PROVE  DriverInv'
  OBVIOUS
<1> USE DEF DriverInv
<1> DEFINE w == Head(runList)
<1>1. /\ w \in Watchers /\ w \in Linked(runList)
      /\ runList' \in Seq(Watchers) /\ NoRepeat(runList')
      /\ Linked(runList') = Linked(runList) \ {w}
  BY TakeFacts DEF Take, IoTypeOK, ListsConsistent
<1>2. w \notin Linked(watchers)
  BY <1>1 DEF ListsConsistent
<1>3. /\ watchers' \in Seq(Watchers) /\ NoRepeat(watchers')
      /\ Linked(watchers') = Linked(watchers) \union {w}
  BY <1>1, <1>2, LinkFacts DEF Take, IoTypeOK, ListsConsistent
<1>4. /\ cur' = w /\ owed' = owed \ {w} /\ stage' = "RX" /\ phase = "round"
      /\ phase' = "test" /\ UNCHANGED <<fd, mask, ready, opened>>
  BY DEF Take
<1> HIDE DEF w
<1>5. IoTypeOK'
  BY <1>1, <1>3, <1>4 DEF IoTypeOK, Event
<1>6. ListsConsistent'
  BY <1>1, <1>3, <1>4 DEF ListsConsistent
<1>7. AllSeenBySelect' /\ RoundIsFixed' /\ NobodySkipped' /\ NoneReopened'
  BY <1>1, <1>4 DEF AllSeenBySelect, RoundIsFixed, NobodySkipped, NoneReopened
<1> QED BY <1>5, <1>6, <1>7

LEMMA DriverInvEndRound == DriverInv /\ RoundOver => DriverInv'
<1> SUFFICES ASSUME DriverInv, RoundOver
             PROVE  DriverInv'
  OBVIOUS
<1> USE DEF DriverInv
<1>1. /\ UNCHANGED <<fd, mask, watchers, runList, cur, stage>>
      /\ runList = <<>> /\ phase' = "idle" /\ owed' = {} /\ opened' = {}
      /\ ready' = [e \in Event |-> {}]
  BY DEF RoundOver, Forget
<1>2. Linked(<<>>) = {}
  BY DEF Linked
<1>3. IoTypeOK'
  BY <1>1 DEF IoTypeOK
<1>4. ListsConsistent' /\ AllSeenBySelect'
  BY <1>1 DEF ListsConsistent, AllSeenBySelect
<1>5. RoundIsFixed' /\ NobodySkipped' /\ NoneReopened'
  BY <1>1, <1>2 DEF RoundIsFixed, NobodySkipped, NoneReopened
<1> QED BY <1>3, <1>4, <1>5

LEMMA DriverInvAdvance == DriverInv /\ (Call \/ Skip \/ CallbackReturns) => DriverInv'
<1> SUFFICES ASSUME DriverInv, Call \/ Skip \/ CallbackReturns
             PROVE  DriverInv'
  OBVIOUS
<1> USE DEF DriverInv
<1>1. /\ UNCHANGED listVars /\ UNCHANGED <<ready, cur>>
      /\ stage' \in Event
      /\ phase \in {"test", "callback"} /\ phase' \in {"round", "test", "callback"}
  BY DEF Call, Skip, CallbackReturns, NextStage, IoTypeOK, Event
<1>2. UNCHANGED <<fd, mask, watchers, runList, owed, opened>>
  BY <1>1 DEF listVars
<1>3. IoTypeOK'
  BY <1>1, <1>2 DEF IoTypeOK
<1>4. ListsConsistent' /\ AllSeenBySelect' /\ RoundIsFixed' /\ NobodySkipped'
  BY <1>1, <1>2 DEF ListsConsistent, AllSeenBySelect, RoundIsFixed, NobodySkipped
<1>5. NoneReopened'
  BY <1>1, <1>2 DEF NoneReopened
<1> QED BY <1>3, <1>4, <1>5

LEMMA DriverInvWatch ==
    ASSUME NEW w \in Watchers, NEW e \in Listenable[w], DriverInv, Watch(w, e)
    PROVE  DriverInv'
<1> USE DEF DriverInv
<1>0. e \in Event
  BY ListenableAssumption DEF Event
<1>1. /\ fd[w] # NoFd /\ mask' = [mask EXCEPT ![w] = @ \union {e}]
      /\ mask \in [Watchers -> SUBSET Event]
      /\ watchers' = IF mask[w] = {} THEN Append(watchers, w) ELSE watchers
      /\ UNCHANGED <<fd, runList, owed, opened>>
      /\ UNCHANGED <<ready, phase, cur, stage>>
  BY DEF Watch, roundVars, IoTypeOK
<1>2. /\ watchers \in Seq(Watchers) /\ runList \in Seq(Watchers)
      /\ Append(watchers, w) \in Seq(Watchers)
      /\ Linked(Append(watchers, w)) = Linked(watchers) \union {w}
      /\ NoRepeat(watchers) /\ w \notin Linked(watchers) => NoRepeat(Append(watchers, w))
  BY LinkFacts DEF IoTypeOK
<1>3. IoTypeOK'
  BY <1>0, <1>1, <1>2 DEF IoTypeOK
<1>4. {v \in Watchers : mask'[v] # {}} = {v \in Watchers : mask[v] # {}} \union {w}
  BY <1>1
<1>5. ListsConsistent'
  <2>1. CASE mask[w] = {}
    <3>1. w \notin Linked(watchers) /\ w \notin Linked(runList)
      BY <2>1 DEF ListsConsistent
    <3> QED BY <1>1, <1>2, <1>4, <2>1, <3>1 DEF ListsConsistent
  <2>2. CASE mask[w] # {}
    BY <1>1, <1>4, <2>2 DEF ListsConsistent
  <2> QED BY <2>1, <2>2
<1>6. AllSeenBySelect' /\ RoundIsFixed' /\ NobodySkipped'
  BY <1>1 DEF AllSeenBySelect, RoundIsFixed, NobodySkipped
<1>7. NoneReopened'
  BY <1>1 DEF NoneReopened
<1> QED BY <1>3, <1>5, <1>6, <1>7

LEMMA DriverInvNoWatch ==
    ASSUME NEW w \in Watchers, NEW e \in Listenable[w], DriverInv, NoWatch(w, e)
    PROVE  DriverInv'
<1> USE DEF DriverInv
<1>1. /\ e \in mask[w] /\ mask' = [mask EXCEPT ![w] = @ \ {e}]
      /\ mask \in [Watchers -> SUBSET Event]
      /\ UNCHANGED <<fd, opened, ready, phase, cur, stage>>
  BY DEF NoWatch, roundVars, IoTypeOK
<1>2. CASE mask[w] # {e}
  <2>1. UNCHANGED <<watchers, runList, owed>>
    BY <1>2 DEF NoWatch
  <2>2. {v \in Watchers : mask'[v] # {}} = {v \in Watchers : mask[v] # {}}
    BY <1>1, <1>2
  <2>3. IoTypeOK'
    BY <1>1, <2>1 DEF IoTypeOK
  <2>4. ListsConsistent'
    BY <2>1, <2>2 DEF ListsConsistent
  <2>5. AllSeenBySelect' /\ RoundIsFixed' /\ NobodySkipped' /\ NoneReopened'
    BY <1>1, <2>1 DEF AllSeenBySelect, RoundIsFixed, NobodySkipped, NoneReopened
  <2> QED BY <2>3, <2>4, <2>5
<1>3. CASE mask[w] = {e}
  <2>1. /\ watchers' = Unlink(watchers, w) /\ runList' = Unlink(runList, w)
        /\ owed' = owed \ {w}
    BY <1>3 DEF NoWatch
  <2>2. /\ watchers' \in Seq(Watchers) /\ NoRepeat(watchers')
        /\ Linked(watchers') = Linked(watchers) \ {w}
    BY <2>1, UnlinkFacts DEF IoTypeOK, ListsConsistent
  <2>3. /\ runList' \in Seq(Watchers) /\ NoRepeat(runList')
        /\ Linked(runList') = Linked(runList) \ {w}
    BY <2>1, UnlinkFacts DEF IoTypeOK, ListsConsistent
  <2>4. {v \in Watchers : mask'[v] # {}} = {v \in Watchers : mask[v] # {}} \ {w}
    BY <1>1, <1>3
  <2>5. IoTypeOK'
    BY <1>1, <2>1, <2>2, <2>3 DEF IoTypeOK
  <2>6. ListsConsistent'
    BY <2>2, <2>3, <2>4 DEF ListsConsistent
  <2>7. AllSeenBySelect'
    <3>1. runList = <<>> => runList' = <<>>
      BY <2>1 DEF Unlink
    <3> QED BY <1>1, <3>1 DEF AllSeenBySelect
  <2>8. RoundIsFixed' /\ NobodySkipped' /\ NoneReopened'
    BY <1>1, <2>1, <2>3 DEF RoundIsFixed, NobodySkipped, NoneReopened
  <2> QED BY <2>5, <2>6, <2>7, <2>8
<1> QED BY <1>2, <1>3

LEMMA DriverInvOpenClose ==
    ASSUME NEW w \in Watchers, NEW f \in Fds, DriverInv, Open(w, f) \/ CloseFd(w)
    PROVE  DriverInv'
<1> USE DEF DriverInv
<1>1. /\ UNCHANGED <<mask, watchers, runList, owed, ready, phase, cur, stage>>
      /\ mask[w] = {}
      /\ \/ fd' = [fd EXCEPT ![w] = NoFd] /\ opened' = opened
         \/ /\ fd' = [fd EXCEPT ![w] = f] /\ opened' \subseteq opened \union {w}
            /\ phase = "idle" => opened' = opened
            /\ phase \in {"idle", "callback"} /\ (phase = "callback" => w # cur)
  BY DEF Open, CloseFd, roundVars, NoneReopened, MayCall, InRound
<1>2. IoTypeOK'
  BY <1>1 DEF IoTypeOK
<1>3. ListsConsistent' /\ AllSeenBySelect' /\ RoundIsFixed' /\ NobodySkipped'
  BY <1>1 DEF ListsConsistent, AllSeenBySelect, RoundIsFixed, NobodySkipped
<1>4. w \notin Linked(runList)
  BY <1>1 DEF ListsConsistent
<1>5. NoneReopened'
  <2>1. \A v \in Watchers : mask'[v] # {} => fd'[v] # NoFd
    BY <1>1 DEF NoneReopened, IoTypeOK
  <2>2. Linked(runList') \intersect opened' = {}
    BY <1>1, <1>4 DEF NoneReopened
  <2>3. phase' \in {"test", "callback"} => cur' \notin opened'
    BY <1>1 DEF NoneReopened
  <2>4. phase' = "idle" => opened' = {}
    BY <1>1 DEF NoneReopened
  <2> QED BY <2>1, <2>2, <2>3, <2>4 DEF NoneReopened
<1> QED BY <1>2, <1>3, <1>5

LEMMA DriverInvStep == DriverInv /\ [IoNext]_ioVars => DriverInv'
<1> SUFFICES ASSUME DriverInv, [IoNext]_ioVars
             PROVE  DriverInv'
  OBVIOUS
<1>1. CASE Run
  BY <1>1, DriverInvSelect, DriverInvTake, DriverInvEndRound, DriverInvAdvance DEF Run, Round
<1>2. ASSUME NEW w \in Watchers, NEW e \in Listenable[w], Watch(w, e) \/ NoWatch(w, e)
      PROVE  DriverInv'
  BY <1>2, DriverInvWatch, DriverInvNoWatch
<1>3. ASSUME NEW w \in Watchers, NEW f \in Fds, Open(w, f)
      PROVE  DriverInv'
  BY <1>3, DriverInvOpenClose
<1>4. ASSUME NEW w \in Watchers, CloseFd(w)
      PROVE  DriverInv'
  <2>1. CASE \E f \in Fds : TRUE
    BY <1>4, <2>1, DriverInvOpenClose
  <2>2. CASE Fds = {}
    BY <1>4, <2>2 DEF CloseFd, DriverInv, IoTypeOK
  <2> QED BY <2>1, <2>2
<1>5. CASE UNCHANGED ioVars
  BY <1>5 DEF ioVars, DriverInv, IoTypeOK, ListsConsistent, AllSeenBySelect, RoundIsFixed,
             NobodySkipped, NoneReopened
<1> QED BY <1>1, <1>2, <1>3, <1>4, <1>5 DEF IoNext

(* The whole invariant holds in every reachable state. *)
THEOREM DriverInvariant == IoSpec => []DriverInv
  BY DriverInvInit, DriverInvStep, PTL DEF IoSpec

(* The intrusive lists are never corrupted by what callbacks do: each      *)
(* listening watcher is linked once, in exactly one list.                  *)
THEOREM ListsStayConsistent == IoSpec => []ListsConsistent
<1>1. DriverInv => ListsConsistent
  BY DEF DriverInv
<1> QED BY <1>1, DriverInvariant, PTL

(* A watcher un-linked in a round, or listed after its select, is not      *)
(* called in it.                                                           *)
THEOREM RoundStaysFixed == IoSpec => []RoundIsFixed
<1>1. DriverInv => RoundIsFixed
  BY DEF DriverInv
<1> QED BY <1>1, DriverInvariant, PTL

(* Every watcher that select may have reported has its turn. *)
THEOREM EveryoneHasATurn == IoSpec => []NobodySkipped
<1>1. DriverInv => NobodySkipped
  BY DEF DriverInv
<1> QED BY <1>1, DriverInvariant, PTL

(* No callback runs on readiness reported for an earlier owner of its      *)
(* descriptor number, or for an event it no longer listens to.             *)
THEOREM EventsAreNeverStale == IoSpec => NoStaleEvent
<1>1. DriverInv /\ [IoNext]_ioVars =>
        [Call => stage \in mask[cur] /\ cur \notin opened]_ioVars
  BY DEF DriverInv, NoneReopened, Call, Due
<1> QED BY <1>1, DriverInvariant, PTL DEF IoSpec, NoStaleEvent

(* Every variable keeps its type. *)
THEOREM DriverTypeOK == IoSpec => []IoTypeOK
<1>1. DriverInv => IoTypeOK
  BY DEF DriverInv
<1> QED BY <1>1, DriverInvariant, PTL

(* run_list is empty between rounds: select sees every listening watcher.  *)
THEOREM SelectSeesAll == IoSpec => []AllSeenBySelect
<1>1. DriverInv => AllSeenBySelect
  BY DEF DriverInv
<1> QED BY <1>1, DriverInvariant, PTL
=============================================================================
