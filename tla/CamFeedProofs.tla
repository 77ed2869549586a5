--------------------------- MODULE CamFeedProofs ---------------------------
(***************************************************************************)
(* Proofs about CamFeed for every set of connections, every division of a  *)
(* frame into parts, every ring size and every bound on the run.           *)
(***************************************************************************)
EXTENDS CamFeed, TLAPS

(* Advancing the ring index stays inside the ring. *)
LEMMA NextSlotType ==
    ASSUME NEW s \in Slots
    PROVE  NextSlot(s) \in Slots
<1> USE NBufAssumption, BuildAssumption
<1>1. CASE ~UseConverter
  BY <1>1 DEF NextSlot, Slots
<1>2. CASE UseConverter
  <2>1. s \in 0..NBuf - 1 /\ NextSlot(s) = (s + 1) % NBuf
    BY <1>2 DEF Slots, NextSlot
  <2>2. (s + 1) % NBuf \in 0..NBuf - 1
    BY <2>1
  <2> QED BY <1>2, <2>1, <2>2 DEF Slots
<1> QED BY <1>1, <1>2

(* In a ring of at least two buffers the next buffer is another one. *)
LEMMA NextSlotMoves ==
    ASSUME UseConverter, NEW s \in Slots
    PROVE  NextSlot(s) # s
<1> USE NBufAssumption
<1>1. s \in 0..NBuf - 1 /\ NextSlot(s) = (s + 1) % NBuf
  BY DEF Slots, NextSlot
<1>2. CASE s + 1 < NBuf
  <2>1. (s + 1) % NBuf = s + 1
    BY <1>1, <1>2
  <2> QED BY <1>1, <2>1
<1>3. CASE s + 1 = NBuf
  <2>1. NBuf % NBuf = 0
    OBVIOUS
  <2> QED BY <1>1, <1>3, <2>1
<1> QED BY <1>1, <1>2, <1>3

-----------------------------------------------------------------------------
LEMMA TypeCorrectInit == Init => TypeOK
  BY NBufAssumption DEF Init, TypeOK, Blank, Slots, Message

(* Every variable keeps its type; in particular the ring index never       *)
(* leaves _buffers.                                                        *)
THEOREM TypeCorrect == Spec => []TypeOK
<1> USE ConnsAssumption, BuildAssumption, NBufAssumption, MaxFramesAssumption
<1>1. Init => TypeOK
  BY TypeCorrectInit
<1>2. TypeOK /\ [Next]_vars => TypeOK'
  <2> SUFFICES ASSUME TypeOK, [Next]_vars
               PROVE  TypeOK'
    OBVIOUS
  <2> USE DEF TypeOK
  <2>1. CASE CaptureOk
    BY <2>1 DEF CaptureOk, webVars
  <2>2. CASE CaptureFail
    BY <2>2 DEF CaptureFail, webVars
  <2>3. ASSUME NEW p \in Parts, WritePart(p)
        PROVE  TypeOK'
    BY <2>3 DEF WritePart, webVars
  <2>4. CASE Send
    BY <2>4 DEF Send, webVars, Message
  <2>5. CASE RecvAck
    <3>1. ndx' \in Slots
      BY <2>5, NextSlotType DEF RecvAck
    <3>2. ackq' \in Nat
      BY <2>5 DEF RecvAck
    <3> QED BY <2>5, <3>1, <3>2 DEF RecvAck, webVars
  <2>6. CASE HandleCtl
    BY <2>6 DEF HandleCtl, mainVars
  <2>7. ASSUME NEW c \in Conns, BeginCopy(c)
        PROVE  TypeOK'
    BY <2>7 DEF BeginCopy, mainVars, Blank, PartsOf
  <2>8. ASSUME NEW p \in Parts, CopyPart(p)
        PROVE  TypeOK'
    BY <2>8 DEF CopyPart, mainVars, Message
  <2>9. CASE EndCopy
    <3>1. cur \in Conns
      BY <2>9 DEF EndCopy
    <3>2. [frame |-> msg.frame, data |-> got] \in Copy
      BY DEF Copy, Message
    <3>3. Append(sent[cur], [frame |-> msg.frame, data |-> got]) \in Seq(Copy)
      BY <3>1, <3>2
    <3> HIDE DEF Copy
    <3>4. sent' \in [Conns -> Seq(Copy)]
      BY <2>9, <3>3 DEF EndCopy
    <3> QED BY <2>9, <3>4 DEF EndCopy, mainVars
  <2>10. CASE EndBroadcast
    BY <2>10 DEF EndBroadcast, mainVars
  <2>11. ASSUME NEW c \in Conns, Subscribe(c) \/ Close(c)
         PROVE  TypeOK'
    <3>1. <<>> \in Seq(Copy)
      OBVIOUS
    <3>2. sent' \in [Conns -> Seq(Copy)]
      BY <2>11, <3>1 DEF Subscribe, Close
    <3> QED BY <2>11, <3>2 DEF Subscribe, Close, mainVars
  <2>12. CASE UNCHANGED vars
    BY <2>12 DEF vars
  <2> QED
    BY <2>1, <2>2, <2>3, <2>4, <2>5, <2>6, <2>7, <2>8, <2>9, <2>10, <2>11, <2>12
       DEF Next, Main, Serve
<1> QED BY <1>1, <1>2, PTL DEF Spec

-----------------------------------------------------------------------------
(* What the two threads exchange: one message or one answer while the main *)
(* thread waits, nothing otherwise.                                        *)
Exchange == TypeOK /\ OneBroadcast /\ InFlight

LEMMA ExchangeInit == Init => Exchange
  BY TypeCorrectInit DEF Init, Exchange, OneBroadcast, InFlight

LEMMA ExchangeStep == Exchange /\ TypeOK' /\ [Next]_vars => Exchange'
<1> SUFFICES ASSUME Exchange, TypeOK', [Next]_vars
             PROVE  OneBroadcast' /\ InFlight'
  BY DEF Exchange
<1> USE DEF Exchange, OneBroadcast, InFlight
<1>0. ackq \in Nat /\ ctlq \in Seq(Message)
  BY DEF TypeOK
<1>1. CASE CaptureOk
  BY <1>0, <1>1 DEF CaptureOk
<1>2. CASE CaptureFail
  BY <1>0, <1>2 DEF CaptureFail
<1>3. ASSUME NEW p \in Parts, WritePart(p)
      PROVE  OneBroadcast' /\ InFlight'
  BY <1>0, <1>3 DEF WritePart
<1>4. CASE Send
  <2>1. ctlq = <<>> /\ ackq = 0
    BY <1>0, <1>4 DEF Send
  <2> QED BY <2>1, <1>4 DEF Send
<1>5. CASE RecvAck
  <2>1. ctlq = <<>> /\ ackq = 1
    BY <1>0, <1>5 DEF RecvAck
  <2> QED BY <2>1, <1>5 DEF RecvAck
<1>6. CASE HandleCtl
  <2>1. mpc = "ack" /\ Len(ctlq) = 1 /\ ackq = 0
    BY <1>0, <1>6 DEF HandleCtl
  <2>2. ctlq' = <<>> /\ ackq' = 1 /\ mpc' = mpc
    BY <1>0, <1>6, <2>1 DEF HandleCtl, mainVars
  <2> QED BY <2>1, <2>2
<1>7. CASE UNCHANGED <<mpc, seq, ndx, ctlq, ackq>>
  BY <1>7
<1>8. ASSUME NEW c \in Conns, BeginCopy(c) \/ Subscribe(c) \/ Close(c)
      PROVE  OneBroadcast' /\ InFlight'
  BY <1>7, <1>8 DEF BeginCopy, Subscribe, Close, mainVars
<1>9. ASSUME NEW p \in Parts, CopyPart(p)
      PROVE  OneBroadcast' /\ InFlight'
  BY <1>7, <1>9 DEF CopyPart, mainVars
<1>10. CASE EndCopy \/ EndBroadcast \/ UNCHANGED vars
  BY <1>7, <1>10 DEF EndCopy, EndBroadcast, mainVars, vars
<1> QED
  BY <1>1, <1>2, <1>3, <1>4, <1>5, <1>6, <1>8, <1>9, <1>10 DEF Next, Main, Serve

(* An answer is never taken for that of another broadcast. *)
THEOREM OneBroadcastAtATime == Spec => []OneBroadcast
<1>1. Spec => []TypeOK
  BY TypeCorrect
<1>2. Exchange => OneBroadcast
  BY DEF Exchange
<1> QED BY <1>1, <1>2, ExchangeInit, ExchangeStep, PTL DEF Spec

-----------------------------------------------------------------------------
(* The frame order. *)

LEMMA OrderStep == Exchange /\ OrderInv /\ Exchange' /\ [Next]_vars => OrderInv'
<1> SUFFICES ASSUME Exchange, OrderInv, Exchange', [Next]_vars
             PROVE  /\ msg'.frame <= seq'
                    /\ \A c \in Conns : \A i \in DOMAIN sent'[c] :
                            sent'[c][i].frame <= msg'.frame
                    /\ InOrder'
  BY DEF Exchange, OrderInv
<1> USE DEF OrderInv
<1>0. /\ seq \in Nat /\ msg \in Message /\ ctlq \in Seq(Message)
      /\ sent \in [Conns -> Seq(Copy)]
      /\ msg.frame \in Nat
      /\ \A c \in Conns : \A i \in DOMAIN sent[c] : sent[c][i].frame \in Nat
  <2>1. \A c \in Conns : \A i \in DOMAIN sent[c] : sent[c][i] \in Copy
    BY DEF TypeOK
  <2> QED BY <2>1 DEF TypeOK, Message, Copy
<1>1. CASE UNCHANGED <<msg, sent>> /\ seq' \in {seq, seq + 1}
  <2>1. msg' = msg /\ sent' = sent /\ seq <= seq'
    BY <1>0, <1>1
  <2>2. msg'.frame <= seq'
    BY <1>0, <1>1, <2>1
  <2> QED BY <2>1, <2>2 DEF InOrder
<1>2. CASE Main
  <2>1. UNCHANGED <<msg, sent>> /\ seq' \in {seq, seq + 1}
    BY <1>2 DEF Main, CaptureOk, CaptureFail, WritePart, Send, RecvAck, webVars
  <2> QED BY <1>1, <2>1
<1>3. CASE HandleCtl
  <2>1. msg' = [slot |-> ndx, frame |-> seq]
    BY <1>3 DEF HandleCtl, InFlight
  <2>2. sent' = sent /\ seq' = seq
    BY <1>3 DEF HandleCtl, mainVars
  <2>3. msg'.frame = seq'
    BY <2>1, <2>2
  <2> QED BY <1>0, <2>2, <2>3 DEF InOrder
<1>4. CASE EndCopy
  <2> DEFINE new == [frame |-> msg.frame, data |-> got]
  <2>1. cur \in Conns /\ msg' = msg /\ seq' = seq
    BY <1>4 DEF EndCopy, TypeOK, mainVars
  <2>2. sent' = [sent EXCEPT ![cur] = Append(@, new)]
    BY <1>4 DEF EndCopy
  <2>3. \A c \in Conns : c # cur => sent'[c] = sent[c]
    BY <1>0, <2>2
  <2>4. sent'[cur] = Append(sent[cur], new)
    BY <1>0, <2>1, <2>2
  <2>5. sent[cur] \in Seq(Copy)
    BY <1>0, <2>1
  <2>6. /\ DOMAIN sent'[cur] = 1..Len(sent[cur]) + 1
        /\ \A i \in 1..Len(sent[cur]) : sent'[cur][i] = sent[cur][i]
        /\ sent'[cur][Len(sent[cur]) + 1] = new
    BY <2>4, <2>5
  <2>7. DOMAIN sent[cur] = 1..Len(sent[cur]) /\ Len(sent[cur]) \in Nat
    BY <2>5
  <2>8. \A i \in DOMAIN sent'[cur] :
            \/ i \in DOMAIN sent[cur] /\ sent'[cur][i] = sent[cur][i]
            \/ i = Len(sent[cur]) + 1 /\ sent'[cur][i].frame = msg.frame
    BY <2>6, <2>7
  <2>9. \A c \in Conns : \A i \in DOMAIN sent'[c] : sent'[c][i].frame <= msg'.frame
    <3> SUFFICES ASSUME NEW c \in Conns, NEW i \in DOMAIN sent'[c]
                 PROVE  sent'[c][i].frame <= msg.frame
      BY <2>1
    <3>1. CASE c # cur
      BY <2>3, <3>1
    <3>2. CASE c = cur /\ i \in DOMAIN sent[cur] /\ sent'[cur][i] = sent[cur][i]
      <4>1. sent[cur][i].frame <= msg.frame
        BY <2>1, <3>2
      <4> QED BY <3>2, <4>1
    <3>3. CASE c = cur /\ sent'[cur][i].frame = msg.frame
      <4>1. msg.frame \in Int
        BY <1>0, <2>1, <1>4 DEF TypeOK, EndCopy
      <4> QED BY <3>3, <4>1
    <3> QED BY <2>8, <3>1, <3>2, <3>3
  <2>10. InOrder'
    <3> SUFFICES ASSUME NEW c \in Conns,
                        NEW i \in DOMAIN sent'[c], NEW j \in DOMAIN sent'[c], i < j
                 PROVE  sent'[c][i].frame <= sent'[c][j].frame
      BY DEF InOrder
    <3>1. CASE c # cur
      BY <2>3, <3>1 DEF InOrder
    <3>2. CASE c = cur /\ j \in DOMAIN sent[cur]
      <4>1. i \in DOMAIN sent[cur]
        BY <2>6, <2>7, <3>2
      <4> QED BY <2>1, <2>6, <2>7, <3>2, <4>1 DEF InOrder
    <3>3. CASE c = cur /\ j = Len(sent[cur]) + 1
      <4>1. sent'[c][j].frame = msg.frame
        BY <2>6, <3>3
      <4> QED BY <2>1, <2>9, <4>1
    <3> QED BY <2>8, <3>1, <3>2, <3>3
  <2> QED BY <2>1, <2>9, <2>10
<1>5. ASSUME NEW c \in Conns, Subscribe(c) \/ Close(c)
      PROVE  OrderInv'
  <2>1. msg' = msg /\ seq' = seq
    BY <1>5 DEF Subscribe, Close, mainVars
  <2>2. sent' = [sent EXCEPT ![c] = <<>>]
    BY <1>5 DEF Subscribe, Close
  <2>3. \A d \in Conns : sent'[d] = sent[d] \/ sent'[d] = <<>>
    BY <1>0, <2>2
  <2>4. \A d \in Conns : \A i \in DOMAIN sent'[d] :
            i \in DOMAIN sent[d] /\ sent'[d] = sent[d]
    BY <2>3
  <2>5. \A d \in Conns : \A i \in DOMAIN sent'[d] : sent'[d][i].frame <= msg'.frame
    BY <2>1, <2>4
  <2>6. InOrder'
    BY <2>4 DEF InOrder
  <2> QED BY <1>0, <2>1, <2>5, <2>6 DEF Exchange
<1>6. CASE UNCHANGED <<msg, sent, seq>>
  BY <1>1, <1>6
<1>7. ASSUME NEW c \in Conns, BeginCopy(c)
      PROVE  UNCHANGED <<msg, sent, seq>>
  BY <1>7 DEF BeginCopy, mainVars
<1>8. ASSUME NEW p \in Parts, CopyPart(p)
      PROVE  UNCHANGED <<msg, sent, seq>>
  BY <1>8 DEF CopyPart, mainVars
<1>9. CASE EndBroadcast \/ UNCHANGED vars
  BY <1>6, <1>9 DEF EndBroadcast, mainVars, vars
<1> QED
  BY <1>2, <1>3, <1>4, <1>5, <1>6, <1>7, <1>8, <1>9 DEF Next, Serve

(* In either build, and however captures fail, no client is ever handed a  *)
(* frame older than one it already has.                                    *)
THEOREM FramesInOrder == Spec => []InOrder
<1>1. Init => OrderInv
  BY TypeCorrectInit DEF Init, OrderInv, InFlight, InOrder
<1>2. Spec => []TypeOK
  BY TypeCorrect
<1>3. OrderInv => InOrder
  BY DEF OrderInv
<1> QED BY <1>1, <1>2, <1>3, ExchangeInit, ExchangeStep, OrderStep, PTL DEF Spec

-----------------------------------------------------------------------------
(* The ring. *)

LEMMA FeedInvInit == Init => FeedInv
  BY TypeCorrectInit
     DEF Init, FeedInv, OneBroadcast, InFlight, OneAhead, Written, CopiedSoFar, NoTornFrame

(* The main thread's steps: only WritePart touches a buffer, and then not  *)
(* the one being copied.                                                   *)
LEMMA FeedInvMain ==
    ASSUME UseConverter, FeedInv, Exchange', Main
    PROVE  FeedInv'
<1> USE DEF FeedInv
<1>a. /\ ackq \in Nat /\ ctlq \in Seq(Message) /\ ndx \in Slots /\ seq \in Nat
      /\ msg.slot \in Slots /\ msg.frame \in Nat
      /\ buf \in [Slots -> [Parts -> Nat]]
  BY DEF TypeOK, Message
<1>b. UNCHANGED webVars
  BY DEF Main, CaptureOk, CaptureFail, WritePart, Send, RecvAck
<1>c. /\ TypeOK' /\ OneBroadcast' /\ InFlight' /\ NoTornFrame'
  BY <1>b DEF Exchange, NoTornFrame, webVars
<1>1. CASE CaptureOk \/ CaptureFail
  <2>1. /\ mpc = "select" /\ mpc' = "write" /\ wleft' = Parts
        /\ UNCHANGED <<ndx, buf, ctlq>>
    BY <1>1 DEF CaptureOk, CaptureFail
  <2>2. Written' /\ OneAhead' /\ CopiedSoFar'
    BY <1>b, <2>1 DEF Written, OneAhead, CopiedSoFar, webVars
  <2> QED BY <1>c, <2>2
<1>2. ASSUME NEW p \in Parts, WritePart(p)
      PROVE  FeedInv'
  <2>1. /\ mpc = "write" /\ p \in wleft /\ wleft' = wleft \ {p}
        /\ buf' = [buf EXCEPT ![ndx][p] = seq]
        /\ mpc' = IF wleft' = {} THEN "send" ELSE "write"
        /\ UNCHANGED <<ndx, ctlq, seq>>
    BY <1>2 DEF WritePart
  <2>2. /\ buf'[ndx][p] = seq
        /\ \A q \in Parts : q # p => buf'[ndx][q] = buf[ndx][q]
        /\ \A s \in Slots : s # ndx => buf'[s] = buf[s]
    BY <1>a, <2>1
  <2>3. Written'
    <3>1. \A q \in Parts \ wleft' : buf'[ndx'][q] = seq'
      BY <2>1, <2>2 DEF Written
    <3>2. mpc' = "send" => wleft' = {}
      BY <2>1
    <3>3. mpc' # "ack"
      BY <2>1
    <3> QED BY <3>1, <3>2, <3>3 DEF Written
  <2>4. OneAhead'
    BY <1>b, <2>1 DEF OneAhead, webVars
  <2>5. wpc = "copy" => msg.slot # ndx
    BY <1>a, <2>1, NextSlotMoves DEF OneAhead
  <2>6. wpc = "copy" => buf'[msg.slot] = buf[msg.slot]
    BY <1>a, <2>2, <2>5
  <2>7. CopiedSoFar'
    BY <1>b, <2>6 DEF CopiedSoFar, webVars
  <2> QED BY <1>c, <2>3, <2>4, <2>7
<1>3. CASE Send
  <2>0. ctlq = <<>>
    BY <1>a, <1>3 DEF Send, OneBroadcast
  <2>1. /\ mpc = "send" /\ mpc' = "ack" /\ ctlq' # <<>>
        /\ UNCHANGED <<ndx, buf, seq>>
    BY <2>0, <1>3 DEF Send
  <2>2. Written' /\ OneAhead' /\ CopiedSoFar'
    BY <1>b, <2>1 DEF Written, OneAhead, CopiedSoFar, webVars
  <2> QED BY <1>c, <2>2
<1>4. CASE RecvAck
  <2>1. /\ mpc = "ack" /\ mpc' = "select" /\ ctlq = <<>> /\ ndx' = NextSlot(ndx)
        /\ UNCHANGED <<buf, wleft, seq, ctlq>>
    BY <1>a, <1>4 DEF RecvAck, OneBroadcast
  <2>2. OneAhead'
    BY <1>b, <2>1 DEF OneAhead, webVars
  <2>3. Written' /\ CopiedSoFar'
    BY <1>b, <2>1 DEF Written, CopiedSoFar, webVars
  <2> QED BY <1>c, <2>2, <2>3
<1> QED BY <1>1, <1>2, <1>3, <1>4 DEF Main

(* The web thread's steps: what it copies is still what was published. *)
LEMMA FeedInvServe ==
    ASSUME UseConverter, FeedInv, Exchange', Serve
    PROVE  FeedInv'
<1> USE DEF FeedInv
<1>a. /\ ackq \in Nat /\ ctlq \in Seq(Message)
      /\ got \in [Parts -> Nat] /\ cur \in Conns \union {NoConn}
      /\ sent \in [Conns -> Seq(Copy)]
  BY DEF TypeOK
<1>b. UNCHANGED mainVars
  BY DEF Serve, HandleCtl, BeginCopy, CopyPart, EndCopy, EndBroadcast
<1>c. /\ TypeOK' /\ OneBroadcast' /\ InFlight' /\ Written'
  BY <1>b DEF Exchange, Written, mainVars
<1>1. CASE HandleCtl
  <2>1. /\ ctlq # <<>> /\ wpc = "poll" /\ wpc' = "copy" /\ UNCHANGED <<cur, sent>>
        /\ msg' = [slot |-> ndx, frame |-> seq] /\ mpc = "ack" /\ ctlq' = <<>>
    BY <1>a, <1>1 DEF HandleCtl, InFlight, OneBroadcast
  <2>2. OneAhead'
    BY <1>b, <2>1 DEF OneAhead, mainVars
  <2>3. cur = NoConn
    BY <2>1 DEF CopiedSoFar
  <2>4. CopiedSoFar'
    BY <1>b, <2>1, <2>3 DEF CopiedSoFar, Written, mainVars
  <2> QED BY <1>c, <2>1, <2>2, <2>4 DEF NoTornFrame
<1>2. ASSUME NEW c \in Conns, BeginCopy(c)
      PROVE  FeedInv'
  <2>1. /\ wpc = "copy" /\ gleft' = Parts /\ UNCHANGED <<wpc, msg, sent, ctlq>>
    BY <1>2 DEF BeginCopy, PartsOf
  <2>2. OneAhead' /\ CopiedSoFar' /\ NoTornFrame'
    BY <1>b, <2>1 DEF OneAhead, CopiedSoFar, NoTornFrame, mainVars
  <2> QED BY <1>c, <2>2
<1>3. ASSUME NEW p \in Parts, CopyPart(p)
      PROVE  FeedInv'
  <2>1. /\ cur # NoConn /\ wpc = "copy" /\ gleft' = gleft \ {p}
        /\ got' = [got EXCEPT ![p] = buf[msg.slot][p]]
        /\ UNCHANGED <<wpc, msg, cur, sent, ctlq>>
    BY <1>3 DEF CopyPart, CopiedSoFar
  <2>2. \A q \in Parts \ gleft' : got'[q] = msg.frame
    BY <1>a, <2>1 DEF CopiedSoFar
  <2>3. OneAhead' /\ NoTornFrame'
    BY <1>b, <2>1 DEF OneAhead, NoTornFrame, mainVars
  <2>4. CopiedSoFar'
    BY <1>b, <2>1, <2>2 DEF CopiedSoFar, mainVars
  <2> QED BY <1>c, <2>3, <2>4
<1>4. CASE EndCopy
  <2> DEFINE new == [frame |-> msg.frame, data |-> got]
  <2>1. /\ cur \in Conns /\ gleft = {} /\ wpc = "copy" /\ cur' = NoConn
        /\ sent' = [sent EXCEPT ![cur] = Append(@, new)]
        /\ UNCHANGED <<wpc, msg, ctlq>>
    BY <1>4, <1>a DEF EndCopy, CopiedSoFar
  <2>2. got = [p \in Parts |-> msg.frame]
    <3>1. \A p \in Parts : got[p] = msg.frame
      BY <2>1, <1>4 DEF EndCopy, CopiedSoFar
    <3> QED BY <1>a, <3>1
  <2>3. \A c \in Conns : \A i \in DOMAIN sent'[c] :
            (i \in DOMAIN sent[c] /\ sent'[c][i] = sent[c][i]) \/ sent'[c][i] = new
    <3>1. \A c \in Conns : c # cur => sent'[c] = sent[c]
      BY <1>a, <2>1
    <3>2. sent'[cur] = Append(sent[cur], new) /\ sent[cur] \in Seq(Copy)
      BY <1>a, <2>1
    <3>3. \A i \in DOMAIN sent'[cur] :
            (i \in DOMAIN sent[cur] /\ sent'[cur][i] = sent[cur][i]) \/ sent'[cur][i] = new
      BY <3>2
    <3> QED BY <3>1, <3>3
  <2>4. NoTornFrame'
    <3>1. new.data = [p \in Parts |-> new.frame]
      BY <2>2
    <3>2. ASSUME NEW c \in Conns, NEW i \in DOMAIN sent'[c]
          PROVE  sent'[c][i].data = [p \in Parts |-> sent'[c][i].frame]
      <4> HIDE DEF new
      <4>1. CASE sent'[c][i] = new
        BY <3>1, <4>1
      <4>2. CASE i \in DOMAIN sent[c] /\ sent'[c][i] = sent[c][i]
        BY ZenonT(60), <4>2 DEF NoTornFrame
      <4> QED BY <2>3, <4>1, <4>2
    <3> QED BY <3>2 DEF NoTornFrame
  <2>5. OneAhead' /\ CopiedSoFar'
    BY <1>b, <2>1 DEF OneAhead, CopiedSoFar, mainVars
  <2> QED BY <1>c, <2>4, <2>5
<1>5. CASE EndBroadcast
  <2>1. wpc' = "poll" /\ cur' = NoConn /\ UNCHANGED sent
    BY <1>5 DEF EndBroadcast
  <2>2. OneAhead' /\ CopiedSoFar' /\ NoTornFrame'
    BY <2>1 DEF OneAhead, CopiedSoFar, NoTornFrame
  <2> QED BY <1>c, <2>2
<1> QED BY <1>1, <1>2, <1>3, <1>4, <1>5 DEF Serve

LEMMA FeedInvStep ==
    ASSUME UseConverter, FeedInv, Exchange', [Next]_vars
    PROVE  FeedInv'
<1>1. CASE Main
  BY <1>1, FeedInvMain
<1>2. CASE Serve
  BY <1>2, FeedInvServe
<1>3. ASSUME NEW c \in Conns, Subscribe(c) \/ Close(c)
      PROVE  FeedInv'
  <2>1. /\ UNCHANGED mainVars /\ UNCHANGED <<wpc, msg, cur, got, gleft, ctlq, ackq>>
        /\ sent' = [sent EXCEPT ![c] = <<>>]
    BY <1>3 DEF Subscribe, Close
  <2>2. \A d \in Conns : sent'[d] = sent[d] \/ sent'[d] = <<>>
    BY <2>1 DEF FeedInv, TypeOK
  <2>3. NoTornFrame'
    <3>1. ASSUME NEW d \in Conns, NEW i \in DOMAIN sent'[d]
          PROVE  sent'[d][i].data = [p \in Parts |-> sent'[d][i].frame]
      <4>1. sent'[d] = sent[d]
        BY <2>2
      <4>2. i \in DOMAIN sent[d] /\ sent'[d][i] = sent[d][i]
        BY <4>1
      <4>3. sent[d][i].data = [p \in Parts |-> sent[d][i].frame]
        BY <4>2 DEF FeedInv, NoTornFrame
      <4> QED BY <4>2, <4>3
    <3> QED BY <3>1 DEF NoTornFrame
  <2>4. UNCHANGED <<mpc, seq, ndx, buf, wleft, wpc, msg, cur, got, gleft, ctlq>>
    BY <2>1 DEF mainVars
  <2>5. OneAhead' /\ CopiedSoFar' /\ Written'
    BY <2>4 DEF FeedInv, OneAhead, CopiedSoFar, Written
  <2> QED BY <2>3, <2>5 DEF FeedInv, Exchange
<1>4. CASE UNCHANGED vars
  BY <1>4 DEF vars, FeedInv, Exchange, OneAhead, CopiedSoFar, Written, NoTornFrame
<1> QED BY <1>1, <1>2, <1>3, <1>4 DEF Next

LEMMA FeedInvExclusion ==
    ASSUME UseConverter, FeedInv
    PROVE  WriteReadExclusion
  BY NextSlotMoves DEF FeedInv, TypeOK, Message, OneAhead, WriteReadExclusion

(* With a ring of two buffers or more, a client is only ever handed whole  *)
(* frames: what is behind a pointer that mg_broadcast passed does not      *)
(* change before the last connection has its copy.                         *)
THEOREM RingNeverTears == UseConverter /\ Spec => []NoTornFrame
<1> SUFFICES ASSUME UseConverter
             PROVE  Spec => []NoTornFrame
  OBVIOUS
<1>1. Spec => []TypeOK
  BY TypeCorrect
<1>2. FeedInv /\ Exchange' /\ [Next]_vars => FeedInv'
  BY FeedInvStep
<1>3. FeedInv => NoTornFrame
  BY DEF FeedInv
<1> QED BY <1>1, <1>2, <1>3, ExchangeInit, ExchangeStep, FeedInvInit, PTL DEF Spec

(* ... because the main thread never writes the buffer being copied. *)
THEOREM RingKeepsThreadsApart == UseConverter /\ Spec => []WriteReadExclusion
<1> SUFFICES ASSUME UseConverter
             PROVE  Spec => []WriteReadExclusion
  OBVIOUS
<1>1. Spec => []TypeOK
  BY TypeCorrect
<1>2. FeedInv /\ Exchange' /\ [Next]_vars => FeedInv'
  BY FeedInvStep
<1>3. FeedInv => WriteReadExclusion
  BY FeedInvExclusion
<1> QED BY <1>1, <1>2, <1>3, ExchangeInit, ExchangeStep, FeedInvInit, PTL DEF Spec

-----------------------------------------------------------------------------
(* Without the converter the one buffer is overwritten while it is copied. *)

(* How far the main thread can be from the frame being served: not past it *)
(* until its answer was taken, and then at most one capture further,       *)
(* because the next broadcast waits for the web thread to poll again.      *)
OneCaptureAhead ==
    /\ mpc = "select" => seq = msg.frame
    /\ mpc = "ack" /\ ctlq = <<>> => seq = msg.frame
    /\ wpc = "copy" => seq \in {msg.frame, msg.frame + 1}

(* The buffer holds the last capture, except for the parts of a new one    *)
(* still to be written.                                                    *)
HeadWritten ==
    \A p \in Parts : (mpc = "write" => p \notin wleft) => buf[0][p] = seq

(* Whatever a copy reads belongs to the frame announced or to the next.    *)
CopiesNear ==
    /\ wpc = "copy" => \A p \in Parts : buf[0][p] \in {msg.frame, msg.frame + 1}
    /\ cur # NoConn =>
        wpc = "copy" /\ \A p \in Parts \ gleft : got[p] \in {msg.frame, msg.frame + 1}

DirectInv ==
    /\ Exchange
    /\ OneCaptureAhead
    /\ HeadWritten
    /\ CopiesNear
    /\ AtMostNextCapture

LEMMA DirectInit == Init => OneCaptureAhead /\ HeadWritten /\ CopiesNear /\ AtMostNextCapture
<1> SUFFICES ASSUME Init
             PROVE  OneCaptureAhead /\ HeadWritten /\ CopiesNear /\ AtMostNextCapture
  OBVIOUS
<1>1. 0 \in Slots
  BY NBufAssumption DEF Slots
<1>2. \A p \in Parts : buf[0][p] = 0
  BY <1>1 DEF Init, Blank
<1>3. seq = 0 /\ msg.frame = 0 /\ wpc = "poll" /\ mpc = "select" /\ cur = NoConn
  BY DEF Init
<1>4. AtMostNextCapture
  BY DEF Init, AtMostNextCapture
<1> QED BY <1>2, <1>3, <1>4 DEF OneCaptureAhead, HeadWritten, CopiesNear

(* The types the steps below need. *)
LEMMA DirectTypes ==
    ASSUME ~UseConverter, TypeOK
    PROVE  /\ seq \in Nat /\ ndx = 0 /\ ackq \in Nat /\ ctlq \in Seq(Message)
           /\ msg.slot = 0 /\ msg.frame \in Nat
           /\ buf \in [{0} -> [Parts -> Nat]]
           /\ got \in [Parts -> Nat]
           /\ sent \in [Conns -> Seq(Copy)]
  BY DEF TypeOK, Slots, Message

(* The main thread: a new capture is taken only after the last one was     *)
(* received by the web thread.                                             *)
LEMMA DirectMain ==
    ASSUME ~UseConverter, DirectInv, Exchange', Main
    PROVE  DirectInv'
<1> USE DEF DirectInv
<1>a. /\ seq \in Nat /\ ndx = 0 /\ ackq \in Nat /\ ctlq \in Seq(Message)
      /\ msg.frame \in Nat /\ buf \in [{0} -> [Parts -> Nat]]
  BY DirectTypes DEF Exchange
<1>b. UNCHANGED webVars
  BY DEF Main, CaptureOk, CaptureFail, WritePart, Send, RecvAck
<1>c. UNCHANGED <<wpc, msg, cur, got, gleft>> /\ AtMostNextCapture'
  BY <1>b DEF AtMostNextCapture, webVars
<1>d. OneBroadcast
  BY DEF Exchange
<1>1. CASE CaptureOk
  <2>1. /\ mpc = "select" /\ mpc' = "write" /\ seq' = seq + 1 /\ wleft' = Parts
        /\ UNCHANGED <<buf, ctlq>>
    BY <1>1 DEF CaptureOk
  <2>2. seq = msg.frame
    BY <2>1 DEF OneCaptureAhead
  <2>3. OneCaptureAhead' /\ HeadWritten' /\ CopiesNear'
    BY <1>c, <2>1, <2>2 DEF OneCaptureAhead, HeadWritten, CopiesNear
  <2> QED BY <1>c, <2>3
<1>2. CASE CaptureFail
  <2>1. mpc = "select" /\ mpc' = "send" /\ UNCHANGED <<seq, buf, ctlq>>
    BY <1>2 DEF CaptureFail
  <2>2. OneCaptureAhead' /\ HeadWritten' /\ CopiesNear'
    BY <1>c, <2>1 DEF OneCaptureAhead, HeadWritten, CopiesNear
  <2> QED BY <1>c, <2>2
<1>3. ASSUME NEW p \in Parts, WritePart(p)
      PROVE  DirectInv'
  <2>1. /\ mpc = "write" /\ p \in wleft /\ wleft' = wleft \ {p}
        /\ buf' = [buf EXCEPT ![0][p] = seq]
        /\ mpc' = IF wleft' = {} THEN "send" ELSE "write"
        /\ UNCHANGED <<ctlq, seq>>
    BY <1>a, <1>3 DEF WritePart
  <2>2. /\ buf'[0][p] = seq
        /\ \A q \in Parts : q # p => buf'[0][q] = buf[0][q]
    BY <1>a, <2>1
  <2>3. OneCaptureAhead'
    BY <1>c, <2>1 DEF OneCaptureAhead
  <2>4. HeadWritten'
    <3> SUFFICES ASSUME NEW q \in Parts, mpc' = "write" => q \notin wleft'
                 PROVE  buf'[0][q] = seq
      BY <2>1 DEF HeadWritten
    <3>1. q = p \/ q \notin wleft
      BY <2>1
    <3> QED BY <2>2, <3>1 DEF HeadWritten
  <2>5. wpc = "copy" => \A q \in Parts : buf'[0][q] \in {msg.frame, msg.frame + 1}
    BY <2>2 DEF CopiesNear, OneCaptureAhead
  <2>6. CopiesNear'
    BY <1>c, <2>5 DEF CopiesNear
  <2> QED BY <1>c, <2>3, <2>4, <2>6
<1>4. CASE Send
  <2>1. ctlq = <<>>
    BY <1>a, <1>d, <1>4 DEF Send, OneBroadcast
  <2>2. /\ mpc = "send" /\ mpc' = "ack" /\ ctlq' # <<>> /\ UNCHANGED <<seq, buf>>
    BY <2>1, <1>4 DEF Send
  <2>3. OneCaptureAhead' /\ HeadWritten' /\ CopiesNear'
    BY <1>c, <2>2 DEF OneCaptureAhead, HeadWritten, CopiesNear
  <2> QED BY <1>c, <2>3
<1>5. CASE RecvAck
  <2>1. mpc = "ack" /\ ctlq = <<>>
    BY <1>a, <1>d, <1>5 DEF RecvAck, OneBroadcast
  <2>2. mpc' = "select" /\ UNCHANGED <<seq, buf, wleft, ctlq>>
    BY <1>5 DEF RecvAck
  <2>3. OneCaptureAhead' /\ HeadWritten' /\ CopiesNear'
    BY <1>c, <2>1, <2>2 DEF OneCaptureAhead, HeadWritten, CopiesNear
  <2> QED BY <1>c, <2>3
<1> QED BY <1>1, <1>2, <1>3, <1>4, <1>5 DEF Main

(* The web thread: what it copies is the announced capture or its          *)
(* successor.                                                              *)
LEMMA DirectServe ==
    ASSUME ~UseConverter, DirectInv, Exchange', Serve
    PROVE  DirectInv'
<1> USE DEF DirectInv
<1>a. /\ seq \in Nat /\ ndx = 0 /\ ackq \in Nat /\ ctlq \in Seq(Message)
      /\ msg.slot = 0 /\ msg.frame \in Nat
      /\ buf \in [{0} -> [Parts -> Nat]] /\ got \in [Parts -> Nat]
      /\ sent \in [Conns -> Seq(Copy)] /\ cur \in Conns \union {NoConn}
  BY DirectTypes DEF Exchange, TypeOK
<1>b. UNCHANGED mainVars
  BY DEF Serve, HandleCtl, BeginCopy, CopyPart, EndCopy, EndBroadcast
<1>c. UNCHANGED <<mpc, seq, buf, wleft>> /\ HeadWritten'
  BY <1>b DEF HeadWritten, mainVars
<1>1. CASE HandleCtl
  <2>1. /\ wpc = "poll" /\ wpc' = "copy" /\ UNCHANGED <<cur, sent>>
        /\ ctlq # <<>> /\ msg' = Head(ctlq)
    BY <1>1 DEF HandleCtl
  <2>2. mpc = "ack"
    BY <1>a, <2>1 DEF Exchange, OneBroadcast
  <2>3. msg'.frame = seq
    BY <2>1 DEF Exchange, InFlight
  <2>4. cur = NoConn
    BY <2>1 DEF CopiesNear
  <2>5. \A p \in Parts : buf[0][p] = seq
    BY <2>2 DEF HeadWritten
  <2>6. OneCaptureAhead' /\ CopiesNear' /\ AtMostNextCapture'
    BY <1>c, <2>1, <2>2, <2>3, <2>4, <2>5
       DEF OneCaptureAhead, CopiesNear, AtMostNextCapture
  <2> QED BY <1>c, <2>6
<1>2. ASSUME NEW c \in Conns, BeginCopy(c)
      PROVE  DirectInv'
  <2>1. /\ wpc = "copy" /\ got' = Blank /\ gleft' = PartsOf(msg.frame)
        /\ UNCHANGED <<wpc, msg, sent, ctlq>>
    BY <1>2 DEF BeginCopy
  <2>2. \A q \in Parts \ gleft' : got'[q] = msg.frame
    BY <2>1 DEF PartsOf, Blank
  <2>3. \A q \in Parts : buf'[0][q] \in {msg'.frame, msg'.frame + 1}
    BY <1>c, <2>1 DEF CopiesNear
  <2>4. OneCaptureAhead' /\ CopiesNear' /\ AtMostNextCapture'
    BY <1>c, <2>1, <2>2, <2>3 DEF OneCaptureAhead, CopiesNear, AtMostNextCapture
  <2> QED BY <1>c, <2>4
<1>3. ASSUME NEW p \in Parts, CopyPart(p)
      PROVE  DirectInv'
  <2>1. /\ cur # NoConn /\ wpc = "copy" /\ gleft' = gleft \ {p}
        /\ got' = [got EXCEPT ![p] = buf[0][p]]
        /\ UNCHANGED <<wpc, msg, cur, sent, ctlq>>
    BY <1>a, <1>3 DEF CopyPart, CopiesNear
  <2>2. \A q \in Parts \ gleft' : got'[q] \in {msg.frame, msg.frame + 1}
    BY <1>a, <2>1 DEF CopiesNear
  <2>3. OneCaptureAhead' /\ CopiesNear' /\ AtMostNextCapture'
    BY <1>c, <2>1, <2>2 DEF OneCaptureAhead, CopiesNear, AtMostNextCapture
  <2> QED BY <1>c, <2>3
<1>4. CASE EndCopy
  <2> DEFINE new == [frame |-> msg.frame, data |-> got]
  <2>1. /\ cur \in Conns /\ gleft = {} /\ wpc = "copy" /\ cur' = NoConn
        /\ sent' = [sent EXCEPT ![cur] = Append(@, new)]
        /\ UNCHANGED <<wpc, msg, ctlq>>
    BY <1>4, <1>a DEF EndCopy, CopiesNear
  <2>2. \A p \in Parts : new.data[p] - new.frame \in {0, 1}
    <3>1. \A p \in Parts : got[p] \in {msg.frame, msg.frame + 1}
      BY <2>1, <1>4 DEF EndCopy, CopiesNear
    <3>2. \A p \in Parts : got[p] - msg.frame \in {0, 1}
      <4>1. \A m, n \in Nat : n \in {m, m + 1} => n - m \in {0, 1}
        OBVIOUS
      <4>2. \A p \in Parts : got[p] \in Nat
        BY <1>a
      <4>3. msg.frame \in Nat
        BY <1>a
      <4> QED BY <3>1, <4>1, <4>2, <4>3
    <3>3. new.data = got /\ new.frame = msg.frame
      OBVIOUS
    <3> HIDE DEF new
    <3> QED BY <3>2, <3>3
  <2>3. \A c \in Conns : \A i \in DOMAIN sent'[c] :
            (i \in DOMAIN sent[c] /\ sent'[c][i] = sent[c][i]) \/ sent'[c][i] = new
    <3>1. \A c \in Conns : c # cur => sent'[c] = sent[c]
      BY <1>a, <2>1
    <3>2. sent'[cur] = Append(sent[cur], new) /\ sent[cur] \in Seq(Copy)
      BY <1>a, <2>1
    <3>3. \A i \in DOMAIN sent'[cur] :
            (i \in DOMAIN sent[cur] /\ sent'[cur][i] = sent[cur][i]) \/ sent'[cur][i] = new
      BY <3>2
    <3> QED BY <3>1, <3>3
  <2>4. AtMostNextCapture'
    <3> SUFFICES ASSUME NEW c \in Conns, NEW i \in DOMAIN sent'[c], NEW p \in Parts
                 PROVE  sent'[c][i].data[p] - sent'[c][i].frame \in {0, 1}
      BY DEF AtMostNextCapture
    <3> HIDE DEF new
    <3>1. CASE sent'[c][i] = new
      BY <2>2, <3>1
    <3>2. CASE i \in DOMAIN sent[c] /\ sent'[c][i] = sent[c][i]
      BY <3>2 DEF AtMostNextCapture
    <3> QED BY <2>3, <3>1, <3>2
  <2>5. OneCaptureAhead' /\ CopiesNear'
    BY <1>c, <2>1 DEF OneCaptureAhead, CopiesNear
  <2> QED BY <1>c, <2>4, <2>5
<1>5. CASE EndBroadcast
  <2>1. wpc' = "poll" /\ cur' = NoConn /\ UNCHANGED <<sent, msg, ctlq>>
    BY <1>5 DEF EndBroadcast
  <2>2. OneCaptureAhead' /\ CopiesNear' /\ AtMostNextCapture'
    BY <1>c, <2>1 DEF OneCaptureAhead, CopiesNear, AtMostNextCapture
  <2> QED BY <1>c, <2>2
<1> QED BY <1>1, <1>2, <1>3, <1>4, <1>5 DEF Serve

LEMMA DirectStep ==
    ASSUME ~UseConverter, DirectInv, Exchange', [Next]_vars
    PROVE  DirectInv'
<1>1. CASE Main
  BY <1>1, DirectMain
<1>2. CASE Serve
  BY <1>2, DirectServe
<1>3. ASSUME NEW c \in Conns, Subscribe(c) \/ Close(c)
      PROVE  DirectInv'
  <2>1. /\ UNCHANGED mainVars /\ UNCHANGED <<wpc, msg, cur, got, gleft, ctlq>>
        /\ sent' = [sent EXCEPT ![c] = <<>>]
    BY <1>3 DEF Subscribe, Close
  <2>2. \A d \in Conns : sent'[d] = sent[d] \/ sent'[d] = <<>>
    BY <2>1 DEF DirectInv, Exchange, TypeOK
  <2>3. \A d \in Conns : \A i \in DOMAIN sent'[d] :
            i \in DOMAIN sent[d] /\ sent'[d] = sent[d]
    BY <2>2
  <2>4. AtMostNextCapture'
    BY <2>3 DEF DirectInv, AtMostNextCapture
  <2>5. OneCaptureAhead' /\ HeadWritten' /\ CopiesNear'
    BY <2>1 DEF DirectInv, OneCaptureAhead, HeadWritten, CopiesNear, mainVars
  <2> QED BY <2>4, <2>5 DEF DirectInv
<1>4. CASE UNCHANGED vars
  BY <1>4 DEF vars, DirectInv, OneCaptureAhead, HeadWritten, CopiesNear, AtMostNextCapture
<1> QED BY <1>1, <1>2, <1>3, <1>4 DEF Next

(* However the two threads run, and in either build, no part of a frame a  *)
(* client is handed comes from before the capture announced or from later  *)
(* than the one after it.                                                  *)
THEOREM NeverPastNextCapture == Spec => []AtMostNextCapture
<1>1. Spec => []TypeOK
  BY TypeCorrect
<1>2. CASE UseConverter
  <2>1. ASSUME TypeOK, NoTornFrame
        PROVE  AtMostNextCapture
    <3>1. ASSUME NEW c \in Conns, NEW i \in DOMAIN sent[c], NEW p \in Parts
          PROVE  sent[c][i].data[p] - sent[c][i].frame \in {0, 1}
      <4>1. sent[c][i].data = [q \in Parts |-> sent[c][i].frame]
        BY <2>1 DEF NoTornFrame
      <4>2. sent[c][i] \in Copy
        BY <2>1 DEF TypeOK
      <4>3. sent[c][i].frame \in Nat /\ sent[c][i].data[p] = sent[c][i].frame
        BY <4>1, <4>2 DEF Copy
      <4> QED BY <4>3
    <3> QED BY <3>1 DEF AtMostNextCapture
  <2>2. TypeOK /\ NoTornFrame => AtMostNextCapture
    BY <2>1
  <2>3. Spec => []NoTornFrame
    BY <1>2, RingNeverTears
  <2> QED BY <1>1, <2>2, <2>3, PTL
<1>3. CASE ~UseConverter
  <2>1. Init => DirectInv
    BY ExchangeInit, DirectInit DEF DirectInv
  <2>2. DirectInv /\ Exchange' /\ [Next]_vars => DirectInv'
    BY <1>3, DirectStep
  <2>3. DirectInv => AtMostNextCapture
    BY DEF DirectInv
  <2> QED BY <1>1, <2>1, <2>2, <2>3, ExchangeInit, ExchangeStep, PTL DEF Spec
<1> QED BY <1>2, <1>3

-----------------------------------------------------------------------------
(* The refinement: with the ring, the two threads together implement the   *)
(* promise of FrameFeed, step by step.                                     *)

(* The callback loop visits clients of the feed, and only while a          *)
(* broadcast is being served.                                              *)
Visiting ==
    /\ todo \subseteq feed
    /\ todo # {} => wpc = "copy"
    /\ cur # NoConn => cur \in todo

(* What is published is what travels: a broadcast on its way is the last   *)
(* entry of the log, the one being served is the last that was handled.    *)
Published ==
    /\ ctlq # <<>> => log # <<>> /\ log[Len(log)] = seq
    /\ wpc = "copy" => Handled >= 1 /\ log[Handled] = msg.frame

(* Captures are numbered within the bound on the run.                      *)
Numbered ==
    /\ Len(log) <= MaxFrames
    /\ mpc \in {"write", "send"} => Len(log) < MaxFrames
    /\ seq <= Len(log) + (IF mpc \in {"write", "send"} THEN 1 ELSE 0)

PromiseInv == FeedInv /\ Visiting /\ Published /\ Numbered

LEMMA PromiseInit == Init => PromiseInv
<1> SUFFICES ASSUME Init PROVE PromiseInv
  OBVIOUS
<1>1. FeedInv
  BY FeedInvInit
<1>2. Visiting /\ Published
  BY DEF Init, Visiting, Published
<1>3. log = <<>> /\ Len(log) = 0 /\ mpc = "select" /\ seq = 0
  BY DEF Init
<1>4. Numbered
  BY <1>3, MaxFramesAssumption DEF Numbered
<1> QED BY <1>1, <1>2, <1>4 DEF PromiseInv

LEMMA VisitingStep ==
    ASSUME TypeOK, Visiting, [Next]_vars
    PROVE  Visiting'
<1> USE DEF Visiting
<1>1. CASE UNCHANGED <<todo, feed, wpc, cur>>
  BY <1>1
<1>2. CASE Main
  BY <1>1, <1>2
     DEF Main, CaptureOk, CaptureFail, WritePart, Send, RecvAck, webVars
<1>3. CASE HandleCtl
  <2>1. wpc = "poll" /\ wpc' = "copy" /\ todo' = feed /\ UNCHANGED <<cur, feed>>
    BY <1>3 DEF HandleCtl
  <2>2. cur = NoConn
    BY <2>1
  <2> QED BY <2>1, <2>2
<1>4. ASSUME NEW c \in Conns, BeginCopy(c)
      PROVE  Visiting'
  BY <1>4 DEF BeginCopy
<1>5. ASSUME NEW p \in Parts, CopyPart(p)
      PROVE  Visiting'
  BY <1>1, <1>5 DEF CopyPart
<1>6. CASE EndCopy
  BY <1>6 DEF EndCopy
<1>7. CASE EndBroadcast
  BY <1>7 DEF EndBroadcast
<1>8. ASSUME NEW c \in Conns, Subscribe(c) \/ Close(c)
      PROVE  Visiting'
  BY <1>8 DEF Subscribe, Close
<1>9. CASE UNCHANGED vars
  BY <1>1, <1>9 DEF vars
<1> QED
  BY <1>2, <1>3, <1>4, <1>5, <1>6, <1>7, <1>8, <1>9 DEF Next, Serve

LEMMA PublishedStep ==
    ASSUME Exchange, Published, [Next]_vars
    PROVE  Published'
<1>a. /\ ctlq \in Seq(Message) /\ log \in Seq(Nat) /\ ackq \in Nat /\ seq \in Nat
      /\ OneBroadcast /\ InFlight
  BY DEF Exchange, TypeOK
<1>1. CASE UNCHANGED <<seq, log, ctlq, msg>> /\ wpc' \in {wpc, "poll"}
  BY <1>1 DEF Published, Handled
<1>2. CASE CaptureOk
  <2>1. ctlq = <<>>
    BY <1>a, <1>2 DEF CaptureOk, OneBroadcast
  <2>2. UNCHANGED <<log, ctlq, msg, wpc>>
    BY <1>2 DEF CaptureOk, webVars
  <2> QED BY <2>1, <2>2 DEF Published, Handled
<1>3. CASE CaptureFail \/ RecvAck \/ \E p \in Parts : WritePart(p)
  <2>1. UNCHANGED <<seq, log, ctlq, msg, wpc>>
    BY <1>3 DEF CaptureFail, RecvAck, WritePart, webVars
  <2> QED BY <1>1, <2>1
<1>4. CASE Send
  <2>1. /\ log' = Append(log, seq)
        /\ ctlq' = Append(ctlq, [slot |-> ndx, frame |-> seq])
        /\ UNCHANGED <<seq, msg, wpc>>
    BY <1>4 DEF Send, webVars
  <2>2. ctlq = <<>>
    BY <1>a, <1>4 DEF Send, OneBroadcast
  <2>3. /\ Len(ctlq) = 0 /\ Len(ctlq') = 1 /\ Len(log) \in Nat
        /\ Len(log') = Len(log) + 1 /\ log'[Len(log) + 1] = seq
        /\ \A i \in 1..Len(log) : log'[i] = log[i]
    BY <1>a, <2>1, <2>2
  <2>4. Handled = Len(log) /\ Handled' = Len(log)
    BY <2>3 DEF Handled
  <2>5. log' # <<>> /\ log'[Len(log')] = seq'
    BY <2>1, <2>3
  <2>6. wpc = "copy" => Len(log) >= 1 /\ log[Len(log)] = msg.frame
    BY <2>4 DEF Published
  <2>7. wpc' = "copy" => Handled' >= 1 /\ log'[Handled'] = msg'.frame
    BY <2>1, <2>3, <2>4, <2>6
  <2> QED BY <2>5, <2>7 DEF Published
<1>5. CASE HandleCtl
  <2>1. ctlq # <<>> /\ msg' = Head(ctlq) /\ ctlq' = Tail(ctlq) /\ UNCHANGED <<log, seq>>
    BY <1>5 DEF HandleCtl, mainVars
  <2>2. msg'.frame = seq /\ ctlq' = <<>>
    BY <1>a, <2>1 DEF InFlight
  <2>3. Handled' = Len(log) /\ Len(log) \in Nat
    <3>1. Len(log) \in Nat /\ Len(log') = Len(log) /\ Len(ctlq') = 0
      <4>1. Len(log) \in Nat
        BY <1>a
      <4>2. log' = log
        BY <2>1
      <4>3. Len(ctlq') = 0
        BY <2>2
      <4> QED BY <4>1, <4>2, <4>3
    <3>2. Handled' = Len(log') - Len(ctlq')
      BY DEF Handled
    <3> QED BY <3>1, <3>2
  <2>4. log # <<>> /\ log[Len(log)] = seq
    BY <2>1 DEF Published
  <2>5. Len(log) >= 1
    BY <1>a, <2>4
  <2> QED BY <2>1, <2>2, <2>3, <2>4, <2>5 DEF Published
<1>6. ASSUME NEW c \in Conns, BeginCopy(c) \/ Subscribe(c) \/ Close(c)
      PROVE  Published'
  <2>1. UNCHANGED <<seq, log, ctlq, msg, wpc>>
    BY <1>6 DEF BeginCopy, Subscribe, Close, mainVars
  <2> QED BY <1>1, <2>1
<1>7. CASE EndCopy \/ EndBroadcast \/ \E p \in Parts : CopyPart(p)
  <2>1. UNCHANGED <<seq, log, ctlq, msg>> /\ wpc' \in {wpc, "poll"}
    BY <1>7 DEF EndCopy, EndBroadcast, CopyPart, mainVars
  <2> QED BY <1>1, <2>1
<1>8. CASE UNCHANGED vars
  BY <1>1, <1>8 DEF vars
<1> QED
  BY <1>2, <1>3, <1>4, <1>5, <1>6, <1>7, <1>8 DEF Next, Main, Serve

LEMMA NumberedStep ==
    ASSUME TypeOK, Numbered, [Next]_vars
    PROVE  Numbered'
<1>a. log \in Seq(Nat) /\ Len(log) \in Nat /\ seq \in Nat /\ MaxFrames \in Nat
  BY MaxFramesAssumption DEF TypeOK
<1>1. CASE UNCHANGED <<mpc, seq, log>>
  BY <1>1 DEF Numbered
<1>2. CASE CaptureOk
  <2>1. /\ mpc = "select" /\ mpc' = "write" /\ seq' = seq + 1 /\ log' = log
        /\ Len(log) < MaxFrames
    BY <1>2 DEF CaptureOk
  <2> QED BY <1>a, <2>1 DEF Numbered
<1>3. CASE CaptureFail
  <2>1. /\ mpc = "select" /\ mpc' \in {"write", "send"} /\ seq' = seq /\ log' = log
        /\ Len(log) < MaxFrames
    BY <1>3 DEF CaptureFail
  <2> QED BY <1>a, <2>1 DEF Numbered
<1>4. ASSUME NEW p \in Parts, WritePart(p)
      PROVE  Numbered'
  <2>1. mpc = "write" /\ mpc' \in {"write", "send"} /\ UNCHANGED <<seq, log>>
    BY <1>4 DEF WritePart
  <2> QED BY <1>a, <2>1 DEF Numbered
<1>5. CASE Send
  <2>1. mpc = "send" /\ mpc' = "ack" /\ seq' = seq /\ log' = Append(log, seq)
    BY <1>5 DEF Send
  <2>2. Len(log') = Len(log) + 1
    BY <1>a, <2>1
  <2>3. Len(log) < MaxFrames /\ seq <= Len(log) + 1
    BY <2>1 DEF Numbered
  <2>4. Len(log') <= MaxFrames /\ seq' <= Len(log')
    BY <1>a, <2>1, <2>2, <2>3
  <2> QED BY <1>a, <2>1, <2>2, <2>4 DEF Numbered
<1>6. CASE RecvAck
  <2>1. mpc = "ack" /\ mpc' = "select" /\ UNCHANGED <<seq, log>>
    BY <1>6 DEF RecvAck
  <2> QED BY <1>a, <2>1 DEF Numbered
<1>7. CASE Serve \/ UNCHANGED vars
  <2>1. UNCHANGED <<mpc, seq, log>>
    BY <1>7 DEF Serve, HandleCtl, BeginCopy, CopyPart, EndCopy, EndBroadcast, mainVars, vars
  <2> QED BY <1>1, <2>1
<1>8. ASSUME NEW c \in Conns, Subscribe(c) \/ Close(c)
      PROVE  Numbered'
  <2>1. UNCHANGED <<mpc, seq, log>>
    BY <1>8 DEF Subscribe, Close, mainVars
  <2> QED BY <1>1, <2>1
<1> QED
  BY <1>2, <1>3, <1>4, <1>5, <1>6, <1>7, <1>8 DEF Next, Main

LEMMA PromiseStep ==
    ASSUME UseConverter, PromiseInv, Exchange', [Next]_vars
    PROVE  PromiseInv'
<1>1. FeedInv'
  BY FeedInvStep DEF PromiseInv
<1>2. Exchange
  BY DEF PromiseInv, FeedInv, Exchange
<1>3. Visiting' /\ Published' /\ Numbered'
  BY <1>2, VisitingStep, PublishedStep, NumberedStep DEF PromiseInv, Exchange
<1> QED BY <1>1, <1>3 DEF PromiseInv

(* A step that leaves the log, the clients, their frames and their places  *)
(* alone is no step of the promise.                                        *)
LEMMA NoFeedStep ==
    ASSUME UNCHANGED <<log, feed, sent>>, Cursor' = Cursor
    PROVE  [Feed!Next]_(Feed!feedVars)
  BY DEF Feed!feedVars

(* Each step of the two threads is one step of the promise or none: Send   *)
(* publishes, EndCopy delivers, the rest is invisible.                     *)
LEMMA StepKeepsPromise ==
    ASSUME UseConverter, PromiseInv, [Next]_vars
    PROVE  [Feed!Next]_(Feed!feedVars)
<1>a. /\ ctlq \in Seq(Message) /\ log \in Seq(Nat) /\ ackq \in Nat /\ seq \in Nat
      /\ todo \subseteq Conns /\ feed \subseteq Conns
      /\ sent \in [Conns -> Seq(Copy)] /\ got \in [Parts -> Nat]
      /\ Len(log) \in Nat /\ Len(ctlq) \in Nat
      /\ MaxFrames \in Nat
  BY MaxFramesAssumption DEF PromiseInv, FeedInv, TypeOK
<1>b. OneBroadcast /\ InFlight /\ CopiedSoFar /\ Visiting /\ Published /\ Numbered
  BY DEF PromiseInv, FeedInv
<1>c. Len(ctlq) \in {0, 1} /\ (Len(ctlq) = 1 => Len(log) >= 1)
  <2>1. Len(ctlq) \in {0, 1}
    <3>1. \A m, n \in Nat : (m + n = 0 \/ m + n = 1) => m \in {0, 1}
      OBVIOUS
    <3>2. Len(ctlq) + ackq = 0 \/ Len(ctlq) + ackq = 1
      BY <1>b DEF OneBroadcast
    <3> QED BY <1>a, <3>1, <3>2
  <2>2. ASSUME Len(ctlq) = 1
        PROVE  Len(log) >= 1
    <3>1. ctlq # <<>>
      BY <2>2
    <3>2. log # <<>>
      BY <1>b, <3>1 DEF Published
    <3> QED BY <1>a, <3>2
  <2> QED BY <2>1, <2>2
<1>1. CASE UNCHANGED <<log, ctlq, todo, feed, sent>>
  <2>1. Cursor' = Cursor
    BY <1>1 DEF Cursor, Handled
  <2> QED BY <1>1, <2>1, NoFeedStep
<1>2. CASE CaptureOk \/ CaptureFail \/ RecvAck \/ \E p \in Parts : WritePart(p)
  BY <1>1, <1>2 DEF CaptureOk, CaptureFail, RecvAck, WritePart, webVars
<1>3. CASE Send
  <2>1. /\ mpc = "send" /\ log' = Append(log, seq)
        /\ ctlq' = Append(ctlq, [slot |-> ndx, frame |-> seq])
        /\ UNCHANGED <<todo, feed, sent>>
    BY <1>3 DEF Send, webVars
  <2>2. Len(log') = Len(log) + 1 /\ Len(ctlq') = Len(ctlq) + 1
    BY <1>a, <2>1
  <2>3. Handled' = Handled
    BY <1>a, <2>2 DEF Handled
  <2>4. Cursor' = Cursor
    BY <2>1, <2>3 DEF Cursor
  <2>5. seq \in 0..MaxFrames
    BY <1>a, <1>b, <2>1 DEF Numbered
  <2> QED BY <2>1, <2>4, <2>5 DEF Feed!Next, Feed!Publish
<1>4. CASE HandleCtl
  <2>1. /\ wpc = "poll" /\ ctlq # <<>> /\ ctlq' = Tail(ctlq) /\ todo' = feed
        /\ UNCHANGED <<log, feed, sent>>
    BY <1>4 DEF HandleCtl, mainVars
  <2>2. todo = {}
    BY <1>b, <2>1 DEF Visiting
  <2>3. Len(ctlq') = Len(ctlq) - 1
    BY <1>a, <2>1
  <2>4. Handled' = Handled + 1 /\ Handled \in Int
    BY <1>a, <2>1, <2>3 DEF Handled
  <2>5. \A c \in Conns : Cursor'[c] = Cursor[c]
    BY <2>1, <2>2, <2>4 DEF Cursor
  <2>6. Cursor' = Cursor
    BY <2>5 DEF Cursor
  <2> QED BY <2>1, <2>6, NoFeedStep
<1>5. CASE EndCopy
  <2>1. /\ cur # NoConn /\ gleft = {} /\ todo' = todo \ {cur}
        /\ sent' = [sent EXCEPT ![cur] = Append(@, [frame |-> msg.frame, data |-> got])]
        /\ UNCHANGED <<log, ctlq, feed>>
    BY <1>5 DEF EndCopy, mainVars
  <2>2. cur \in todo /\ cur \in feed /\ cur \in Conns
    BY <1>a, <1>b, <2>1 DEF Visiting
  <2>3. wpc = "copy" /\ \A p \in Parts : got[p] = msg.frame
    BY <1>b, <2>1 DEF CopiedSoFar
  <2>4. Handled >= 1 /\ log[Handled] = msg.frame /\ Handled \in Int /\ Handled <= Len(log)
    BY <1>a, <1>b, <2>3 DEF Published, Handled
  <2>5. Handled' = Handled
    BY <2>1 DEF Handled
  <2>6. Cursor[cur] = Handled - 1 /\ Cursor'[cur] = Handled
    BY <2>1, <2>2, <2>5 DEF Cursor
  <2>7. Cursor[cur] < Len(log) /\ Cursor[cur] + 1 = Handled
    BY <1>a, <2>4, <2>6
  <2>8. Cursor' = [Cursor EXCEPT ![cur] = @ + 1]
    <3>1. \A c \in Conns : c # cur => Cursor'[c] = Cursor[c]
      BY <2>1, <2>5 DEF Cursor
    <3>2. Cursor'[cur] = Cursor[cur] + 1
      BY <2>6, <2>7
    <3>3. Cursor = [c \in Conns |-> Cursor[c]] /\ Cursor' = [c \in Conns |-> Cursor'[c]]
      BY DEF Cursor
    <3> QED BY <2>2, <3>1, <3>2, <3>3
  <2>9. Feed!Whole(log[Cursor[cur] + 1]) = [frame |-> msg.frame, data |-> got]
    <3>1. got = [p \in Parts |-> msg.frame]
      BY <1>a, <2>3
    <3> QED BY <2>4, <2>7, <3>1 DEF Feed!Whole
  <2>10. Feed!Deliver(cur)
    BY <2>1, <2>2, <2>7, <2>8, <2>9 DEF Feed!Deliver
  <2> QED BY <2>2, <2>10 DEF Feed!Next
<1>6. ASSUME NEW c \in Conns, Subscribe(c)
      PROVE  [Feed!Next]_(Feed!feedVars)
  <2>1. /\ wpc = "poll" /\ c \notin feed /\ feed' = feed \union {c}
        /\ sent' = [sent EXCEPT ![c] = <<>>]
        /\ UNCHANGED <<log, ctlq, todo>>
    BY <1>6 DEF Subscribe, mainVars
  <2>2. todo = {} /\ Handled' = Handled
    BY <1>b, <2>1 DEF Visiting, Handled
  <2>3. Handled \in {Len(log) - 1, Len(log)} /\ Handled \in Nat
    <3>1. \A m, n \in Nat :
              n \in {0, 1} /\ (n = 1 => m >= 1) => m - n \in {m - 1, m} /\ m - n \in Nat
      OBVIOUS
    <3> QED BY <1>a, <1>c, <3>1 DEF Handled
  <2>4. Cursor' = [Cursor EXCEPT ![c] = Handled]
    BY <2>1, <2>2 DEF Cursor
  <2>5. Feed!Subscribe(c)
    BY <2>1, <2>3, <2>4 DEF Feed!Subscribe
  <2> QED BY <2>5 DEF Feed!Next
<1>7. ASSUME NEW c \in Conns, Close(c)
      PROVE  [Feed!Next]_(Feed!feedVars)
  <2>1. /\ wpc = "poll" /\ c \in feed /\ feed' = feed \ {c}
        /\ sent' = [sent EXCEPT ![c] = <<>>]
        /\ UNCHANGED <<log, ctlq, todo>>
    BY <1>7 DEF Close, mainVars
  <2>2. todo = {} /\ Handled' = Handled
    BY <1>b, <2>1 DEF Visiting, Handled
  <2>3. Cursor' = [Cursor EXCEPT ![c] = 0]
    BY <2>1, <2>2 DEF Cursor
  <2>4. Feed!Leave(c)
    BY <2>1, <2>3 DEF Feed!Leave
  <2> QED BY <2>4 DEF Feed!Next
<1>8. ASSUME NEW c \in Conns, BeginCopy(c)
      PROVE  [Feed!Next]_(Feed!feedVars)
  BY <1>1, <1>8 DEF BeginCopy, mainVars
<1>9. CASE EndBroadcast \/ \E p \in Parts : CopyPart(p)
  BY <1>1, <1>9 DEF EndBroadcast, CopyPart, mainVars
<1>10. CASE UNCHANGED vars
  BY <1>1, <1>10 DEF vars
<1> QED
  BY <1>2, <1>3, <1>4, <1>5, <1>6, <1>7, <1>8, <1>9, <1>10 DEF Next, Main, Serve

(* The safety half of the refinement: with the ring, whatever the two      *)
(* threads do, every client of the feed is handed every frame published    *)
(* while it is there exactly once, in the order of the broadcasts and      *)
(* whole.  That it is served in the end is left to TLC.                    *)
THEOREM FeedKeepsPromise ==
    UseConverter /\ Spec => Feed!Init /\ [][Feed!Next]_(Feed!feedVars)
<1> SUFFICES ASSUME UseConverter
             PROVE  Spec => Feed!Init /\ [][Feed!Next]_(Feed!feedVars)
  OBVIOUS
<1>1. Init => Feed!Init
  <2> SUFFICES ASSUME Init PROVE Feed!Init
    OBVIOUS
  <2>1. log = <<>> /\ feed = {} /\ sent = [c \in Conns |-> <<>>]
    BY DEF Init
  <2>2. Cursor = [c \in Conns |-> 0]
    BY <2>1 DEF Cursor
  <2> QED BY <2>1, <2>2 DEF Feed!Init
<1>2. Spec => []TypeOK
  BY TypeCorrect
<1>3. PromiseInv /\ Exchange' /\ [Next]_vars => PromiseInv'
  BY PromiseStep
<1>4. PromiseInv /\ [Next]_vars => [Feed!Next]_(Feed!feedVars)
  BY StepKeepsPromise
<1> QED
  BY <1>1, <1>2, <1>3, <1>4, ExchangeInit, ExchangeStep, PromiseInit, PTL DEF Spec
=============================================================================
