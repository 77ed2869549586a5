-------------------------- MODULE WebServerProofs ---------------------------
(***************************************************************************)
(* Proofs about WebServer for every set of connections, every number of    *)
(* frames and of requests, and every length of a client's queue; and about *)
(* UriPath for every alphabet, every set of components, every number of    *)
(* them in a URI and every document root.                                  *)
(*                                                                         *)
(* ServerInv says what belongs to a connection that is not open, and which *)
(* phase has what due.  On top of it, Counted follows _cam_conns and the   *)
(* LED, and Fed the frames of each connection.  UriInv says what the       *)
(* normalization has made of the components it has read, and which names   *)
(* the walk has put together; the lemmas before it are about texts, where  *)
(* components stand in them, and looking for slashes from either end.      *)
(***************************************************************************)
EXTENDS WebServer, UriPath, RecursionProofs, FiniteSetTheorems
LOCAL INSTANCE SequencesExt
LOCAL INSTANCE FiniteSetsExt

(* Nothing is left over from an earlier connection, and what select found  *)
(* is worked off before the connections are swept.                         *)
Tidy ==
    /\ \A c \in Conns : c \in open <=> peer[c] \in {"up", "fin", "gone"}
    /\ \A c \in Conns \ open : flags[c] = {} /\ recvBuf[c] = <<>>
    /\ phase # "handle" => due = Nothing
    /\ due.ctl => pending

ServerInv == TypeOK /\ Tidy

Counted == IsFiniteSet(Feeding) /\ CountExplained

(* The newest frame the connections were given. *)
Newest == IF pending THEN frame - 1 ELSE frame

(* A connection with flags f, send buffer buf and g at its client, when m  *)
(* is the newest frame given out.                                          *)
WellFed(f, buf, g, m) ==
    /\ "USER_6" \in f => g.header \/ \E i \in DOMAIN buf : buf[i] = HeaderItem
    /\ g.last <= m
    /\ \A j \in DOMAIN buf : buf[j].kind = "frame" =>
        /\ g.last < buf[j].n /\ buf[j].n <= m
        /\ g.header \/ \E i \in 1 .. j - 1 : buf[i] = HeaderItem
        /\ \A i \in 1 .. j - 1 : buf[i].kind = "frame" => buf[i].n < buf[j].n

Fed == \A c \in Conns : WellFed(flags[c], sendBuf[c], got[c], Newest)

-----------------------------------------------------------------------------
(* What Max chooses of a bounded set of numbers. *)
LEMMA MaxFacts ==
    ASSUME NEW N \in Nat, NEW S \in SUBSET (0 .. N), S # {}
    PROVE  Max(S) \in S /\ \A y \in S : y <= Max(S)
<1> DEFINE T == {N - x : x \in S}
<1>1. T \in SUBSET Nat /\ T # {}
  <2>1. \A x \in S : N - x \in Nat
    OBVIOUS
  <2> QED BY <2>1
<1>2. PICK t \in T : \A y \in T : t <= y
  BY <1>1, LeastNumber
<1>3. PICK m \in S : t = N - m
  BY <1>2
<1>4. \A y \in S : m >= y
  <2> TAKE y \in S
  <2>1. N - y \in T
    OBVIOUS
  <2> QED BY SMTT(40), <1>2, <1>3, <2>1
<1>5. Max(S) \in S /\ \A y \in S : Max(S) >= y
  BY <1>4 DEF Max
<1> QED BY <1>5

(* What a client has once more items have arrived. *)
LEMMA AfterFacts ==
    ASSUME NEW g \in [header : BOOLEAN, last : 0 .. MaxFrames], NEW items \in Seq(Item)
    PROVE  /\ After(g, items) \in [header : BOOLEAN, last : 0 .. MaxFrames]
           /\ After(g, items).header <=> \/ g.header
                                         \/ \E i \in DOMAIN items : items[i] = HeaderItem
           /\ \/ /\ After(g, items).last = g.last
                 /\ \A i \in DOMAIN items : items[i].kind # "frame"
              \/ \E i \in DOMAIN items : items[i].kind = "frame" /\ After(g, items).last = items[i].n
<1> DEFINE frames == {items[i].n : i \in {j \in DOMAIN items : items[j].kind = "frame"}}
           last == IF frames = {} THEN g.last ELSE Max(frames)
           header == g.header \/ HeaderItem \in {items[i] : i \in DOMAIN items}
<1>1. After(g, items) = [header |-> header, last |-> last]
  BY DEF After
<1>2. frames \in SUBSET (0 .. MaxFrames)
  <2>1. \A i \in DOMAIN items : items[i] \in Item
    OBVIOUS
  <2> QED BY <2>1 DEF Item
<1>3. header \in BOOLEAN /\ (header <=> g.header \/ \E i \in DOMAIN items : items[i] = HeaderItem)
  <2>1. HeaderItem \in {items[i] : i \in DOMAIN items} <=> \E i \in DOMAIN items : items[i] = HeaderItem
    OBVIOUS
  <2> QED BY <2>1, Zenon
<1>4. CASE frames = {}
  <2>1. last = g.last
    BY <1>4
  <2>2. \A i \in DOMAIN items : items[i].kind # "frame"
    <3>1. ASSUME NEW i \in DOMAIN items, items[i].kind = "frame"
          PROVE  items[i].n \in frames
      BY <3>1
    <3> QED BY <1>4, <3>1
  <2> HIDE DEF header, last, frames
  <2>3. last \in 0 .. MaxFrames
    BY <2>1
  <2> QED BY <1>1, <1>3, <2>1, <2>2, <2>3
<1>5. CASE frames # {}
  <2>1. last \in frames
    BY <1>2, <1>5, MaxFacts, BoundsAssumption
  <2>2. \E i \in DOMAIN items : items[i].kind = "frame" /\ last = items[i].n
    BY <2>1
  <2>3. last \in 0 .. MaxFrames
    BY <1>2, <2>1
  <2> HIDE DEF header, last, frames
  <2> QED BY <1>1, <1>3, <2>2, <2>3
<1> QED BY <1>4, <1>5

-----------------------------------------------------------------------------
(* The types, one variable at a time. *)
DueTyped == due \in [ctl : BOOLEAN, accept : BOOLEAN, read : SUBSET open, write : SUBSET open]
CountTyped == camConns \in Nat /\ repeats \in Nat
GotTyped == got \in [Conns -> [header : BOOLEAN, last : 0 .. MaxFrames]]
BuffersTyped ==
    /\ flags \in [Conns -> SUBSET Flag]
    /\ recvBuf \in [Conns -> Seq(Request)]
    /\ inq \in [Conns -> Seq(Request)]
ConnsTyped ==
    /\ open \subseteq Conns
    /\ peer \in [Conns -> {"none", "wait", "up", "fin", "gone"}]
    /\ phase \in {"select", "handle", "sweep"}
SendTyped == sendBuf \in [Conns -> Seq(Item)]
FrameTyped == frame \in 0 .. MaxFrames /\ requests \in 0 .. MaxRequests

LEMMA TypeParts ==
    TypeOK <=> /\ DueTyped /\ CountTyped /\ GotTyped /\ BuffersTyped /\ ConnsTyped
               /\ SendTyped /\ FrameTyped /\ led \in BOOLEAN /\ pending \in BOOLEAN
BY DEF TypeOK, DueTyped, CountTyped, GotTyped, BuffersTyped, ConnsTyped, SendTyped, FrameTyped

LEMMA TypePartsAfter ==
    /\ DueTyped' /\ CountTyped' /\ GotTyped' /\ BuffersTyped' /\ ConnsTyped'
    /\ SendTyped' /\ FrameTyped' /\ led' \in BOOLEAN /\ pending' \in BOOLEAN
    => TypeOK'
BY DEF TypeOK, DueTyped, CountTyped, GotTyped, BuffersTyped, ConnsTyped, SendTyped, FrameTyped

LEMMA SameTypes ==
    /\ DueTyped /\ UNCHANGED <<due, open>> => DueTyped'
    /\ CountTyped /\ UNCHANGED <<camConns, repeats>> => CountTyped'
    /\ GotTyped /\ UNCHANGED got => GotTyped'
    /\ BuffersTyped /\ UNCHANGED <<flags, recvBuf, inq>> => BuffersTyped'
    /\ ConnsTyped /\ UNCHANGED <<open, peer, phase>> => ConnsTyped'
    /\ SendTyped /\ UNCHANGED sendBuf => SendTyped'
    /\ FrameTyped /\ UNCHANGED <<frame, requests>> => FrameTyped'
<1>1. DueTyped /\ UNCHANGED <<due, open>> => DueTyped'
  BY DEF DueTyped
<1>2. CountTyped /\ UNCHANGED <<camConns, repeats>> => CountTyped'
  BY DEF CountTyped
<1>3. GotTyped /\ UNCHANGED got => GotTyped'
  BY DEF GotTyped
<1>4. BuffersTyped /\ UNCHANGED <<flags, recvBuf, inq>> => BuffersTyped'
  BY DEF BuffersTyped
<1>5. ConnsTyped /\ UNCHANGED <<open, peer, phase>> => ConnsTyped'
  BY DEF ConnsTyped
<1>6. SendTyped /\ UNCHANGED sendBuf => SendTyped'
  BY DEF SendTyped
<1>7. FrameTyped /\ UNCHANGED <<frame, requests>> => FrameTyped'
  BY DEF FrameTyped
<1> QED BY <1>1, <1>2, <1>3, <1>4, <1>5, <1>6, <1>7

LEMMA ServerInvInit == Init => ServerInv
<1> SUFFICES ASSUME Init
             PROVE  ServerInv
  OBVIOUS
<1>1. DueTyped /\ ConnsTyped
  BY DEF Init, DueTyped, ConnsTyped, Nothing
<1>2. CountTyped /\ BuffersTyped /\ SendTyped /\ FrameTyped
  BY BoundsAssumption DEF Init, CountTyped, BuffersTyped, SendTyped, FrameTyped
<1>3. GotTyped
  BY BoundsAssumption DEF Init, GotTyped, None
<1>4. led \in BOOLEAN /\ pending \in BOOLEAN
  BY DEF Init
<1>5. Tidy
  BY DEF Init, Tidy, Nothing
<1> QED BY <1>1, <1>2, <1>3, <1>4, <1>5, TypeParts DEF ServerInv

(* The steps of the poll that leave every buffer alone. *)
LEMMA PhaseKeeps ==
    ASSUME ServerInv, Select \/ EndHandle \/ EndSweep
    PROVE  ServerInv'
<1>1. TypeOK /\ Tidy
  BY DEF ServerInv
<1>2. UNCHANGED <<open, frame, pending, flags, recvBuf, sendBuf, camConns, led, repeats,
                  peer, inq, got, requests>>
  BY DEF Select, EndHandle, EndSweep, connVars, ledVars, clientVars
<1>3. DueTyped'
  <2>1. CASE Select
    <3>1. PICK w \in SUBSET WantsWrite :
            due' = [ctl |-> pending, accept |-> Waiting # {}, read |-> Readable, write |-> w]
      BY <2>1 DEF Select
    <3>2. WantsWrite \subseteq open /\ Readable \subseteq open
      BY DEF WantsWrite, Readable
    <3> QED BY <1>1, <1>2, <3>1, <3>2 DEF DueTyped, TypeOK
  <2>2. CASE EndHandle \/ EndSweep
    <3>1. due' = due
      BY <2>2 DEF EndHandle, EndSweep
    <3> QED BY <1>1, <1>2, <3>1, TypeParts DEF DueTyped
  <2> QED BY <2>1, <2>2
<1>4. ConnsTyped'
  BY <1>1, <1>2, TypeParts DEF ConnsTyped, Select, EndHandle, EndSweep
<1>5. CountTyped' /\ GotTyped' /\ BuffersTyped' /\ SendTyped' /\ FrameTyped'
      /\ led' \in BOOLEAN /\ pending' \in BOOLEAN
  BY <1>1, <1>2, TypeParts, SameTypes
<1>6. Tidy'
  <2>1. due'.ctl => pending'
    BY <1>1, <1>2 DEF Tidy, Select, EndHandle, EndSweep
  <2>2. phase' # "handle" => due' = Nothing
    BY <1>1 DEF Tidy, Select, EndHandle, EndSweep
  <2> QED BY <1>1, <1>2, <2>1, <2>2 DEF Tidy
<1>7. TypeOK'
  BY <1>3, <1>4, <1>5, TypePartsAfter
<1> QED BY <1>6, <1>7 DEF ServerInv

(* A frame is handed to every connection that has the feed. *)
LEMMA CastKeeps ==
    ASSUME ServerInv, Cast
    PROVE  ServerInv'
<1>1. TypeOK /\ Tidy
  BY DEF ServerInv
<1>2. /\ due' = [due EXCEPT !.ctl = FALSE] /\ pending' = FALSE
      /\ sendBuf' = [c \in Conns |-> IF c \in open /\ "USER_6" \in flags[c]
                                     THEN Append(sendBuf[c], FrameItem(frame)) ELSE sendBuf[c]]
      /\ UNCHANGED <<open, phase, frame, flags, recvBuf, camConns, led, repeats,
                     peer, inq, got, requests>>
      /\ phase = "handle"
  BY DEF Cast, ledVars, clientVars
<1>3. DueTyped'
  BY <1>1, <1>2, TypeParts DEF DueTyped
<1>4. SendTyped'
  <2>1. FrameItem(frame) \in Item
    BY <1>1 DEF TypeOK, FrameItem, Item
  <2> QED BY <1>1, <1>2, <2>1, TypeParts DEF SendTyped
<1>5. CountTyped' /\ GotTyped' /\ BuffersTyped' /\ ConnsTyped' /\ FrameTyped'
      /\ led' \in BOOLEAN /\ pending' \in BOOLEAN
  BY <1>1, <1>2, TypeParts, SameTypes
<1>6. Tidy'
  <2>1. due'.ctl = FALSE
    BY <1>1, <1>2, TypeParts DEF DueTyped
  <2> QED BY <1>1, <1>2, <2>1 DEF Tidy
<1> QED BY <1>3, <1>4, <1>5, <1>6, TypePartsAfter DEF ServerInv

(* A client that waits becomes a connection. *)
LEMMA AcceptKeeps ==
    ASSUME ServerInv, NEW c \in Conns, Accept(c)
    PROVE  ServerInv'
<1>1. TypeOK /\ Tidy
  BY DEF ServerInv
<1>2. /\ due' = [due EXCEPT !.accept = FALSE] /\ open' = open \union {c}
      /\ peer' = [peer EXCEPT ![c] = "up"]
      /\ UNCHANGED <<phase, frame, pending, flags, recvBuf, sendBuf, camConns, led, repeats,
                     inq, got, requests>>
      /\ phase = "handle" /\ ~due.ctl /\ peer[c] = "wait"
  BY DEF Accept, connVars, ledVars, Waiting
<1>3. DueTyped'
  BY <1>1, <1>2, TypeParts DEF DueTyped
<1>4. ConnsTyped'
  BY <1>1, <1>2, TypeParts DEF ConnsTyped
<1>5. CountTyped' /\ GotTyped' /\ BuffersTyped' /\ SendTyped' /\ FrameTyped'
      /\ led' \in BOOLEAN /\ pending' \in BOOLEAN
  BY <1>1, <1>2, TypeParts, SameTypes
<1>6. Tidy'
  <2>1. due'.ctl = FALSE
    BY <1>1, <1>2, TypeParts DEF DueTyped
  <2>2. \A d \in Conns : d \in open' <=> peer'[d] \in {"up", "fin", "gone"}
    BY <1>1, <1>2, TypeParts DEF Tidy, ConnsTyped
  <2>3. \A d \in Conns \ open' : flags'[d] = {} /\ recvBuf'[d] = <<>>
    BY <1>1, <1>2 DEF Tidy
  <2> QED BY <1>2, <2>1, <2>2, <2>3 DEF Tidy
<1> QED BY <1>3, <1>4, <1>5, <1>6, TypePartsAfter DEF ServerInv

(* What a request does to the flags, the send buffer and the count. *)
LEMMA ServeFacts ==
    ASSUME TypeOK, NEW c \in Conns, NEW r \in Request, Serve(c, r)
    PROVE  /\ \E f \in SUBSET Flag :
                flags' = [flags EXCEPT ![c] = @ \union f] /\ ("USER_6" \in f <=> r = "feed")
           /\ \/ sendBuf' = sendBuf /\ r = "invalid"
              \/ sendBuf' = [sendBuf EXCEPT ![c] = Append(@, HeaderItem)] /\ r = "feed"
              \/ sendBuf' = [sendBuf EXCEPT ![c] = Append(@, PageItem)] /\ r = "page"
           /\ IF r = "feed" THEN Count(flags[c]) ELSE UNCHANGED ledVars
<1>1. CASE r = "feed"
  <2>1. {"USER_6"} \in SUBSET Flag
    BY DEF Flag
  <2> QED BY <1>1, <2>1 DEF Serve
<1>2. CASE r = "page"
  <2>1. PICK f \in {{}, {"SEND_AND_CLOSE"}} : flags' = [flags EXCEPT ![c] = @ \union f]
    BY <1>2 DEF Serve
  <2>2. f \in SUBSET Flag /\ "USER_6" \notin f
    BY DEF Flag
  <2> QED BY <1>2, <2>1, <2>2 DEF Serve
<1>3. CASE r = "invalid"
  <2>1. {"CLOSE_IMMEDIATELY"} \in SUBSET Flag /\ "USER_6" \notin {"CLOSE_IMMEDIATELY"}
    BY DEF Flag
  <2> QED BY <1>3, <2>1 DEF Serve
<1> QED BY <1>1, <1>2, <1>3 DEF Request

(* What reading from a connection changes. *)
LEMMA ReadFacts ==
    ASSUME TypeOK, NEW c \in Conns, Read(c)
    PROVE  /\ \E f \in SUBSET Flag, s \in Seq(Item) :
                /\ flags' = [flags EXCEPT ![c] = @ \union f]
                /\ \/ /\ "USER_6" \in f /\ s = Append(sendBuf[c], HeaderItem)
                      /\ Count(flags[c])
                   \/ /\ "USER_6" \notin f /\ s \in {sendBuf[c], Append(sendBuf[c], PageItem)}
                      /\ UNCHANGED ledVars
                /\ sendBuf' = [sendBuf EXCEPT ![c] = s]
           /\ \E s \in Seq(Request) : recvBuf' = [recvBuf EXCEPT ![c] = s]
           /\ \E s \in Seq(Request) : inq' = [inq EXCEPT ![c] = s]
           /\ due' = [due EXCEPT !.read = @ \ {c}]
           /\ UNCHANGED <<open, phase, frame, pending, peer, got, requests>>
           /\ phase = "handle" /\ ~due.ctl /\ c \in due.read
<1> DEFINE FlagsAndItems ==
      \E f \in SUBSET Flag, s \in Seq(Item) :
          /\ flags' = [flags EXCEPT ![c] = @ \union f]
          /\ \/ /\ "USER_6" \in f /\ s = Append(sendBuf[c], HeaderItem)
                /\ Count(flags[c])
             \/ /\ "USER_6" \notin f /\ s \in {sendBuf[c], Append(sendBuf[c], PageItem)}
                /\ UNCHANGED ledVars
          /\ sendBuf' = [sendBuf EXCEPT ![c] = s]
<1>1. /\ sendBuf \in [Conns -> Seq(Item)] /\ flags \in [Conns -> SUBSET Flag]
      /\ recvBuf[c] \in Seq(Request) /\ inq[c] \in Seq(Request)
      /\ recvBuf \in [Conns -> Seq(Request)] /\ inq \in [Conns -> Seq(Request)]
  BY DEF TypeOK
<1>2. /\ sendBuf[c] \in Seq(Item) /\ sendBuf = [sendBuf EXCEPT ![c] = sendBuf[c]]
      /\ Append(sendBuf[c], HeaderItem) \in Seq(Item)
      /\ Append(sendBuf[c], PageItem) \in Seq(Item)
  <2>1. HeaderItem \in Item /\ PageItem \in Item
    BY BoundsAssumption DEF HeaderItem, PageItem, Item
  <2> QED BY <1>1, <2>1
<1>3. /\ flags = [flags EXCEPT ![c] = @ \union {}] /\ {} \in SUBSET Flag
      /\ recvBuf = [recvBuf EXCEPT ![c] = recvBuf[c]] /\ inq = [inq EXCEPT ![c] = inq[c]]
  BY <1>1
<1>4. ASSUME NEW r \in Request, Serve(c, r)
      PROVE  FlagsAndItems
  <2>1. PICK f \in SUBSET Flag :
          flags' = [flags EXCEPT ![c] = @ \union f] /\ ("USER_6" \in f <=> r = "feed")
    BY <1>4, ServeFacts
  <2>2. CASE r = "feed"
    <3>1. sendBuf' = [sendBuf EXCEPT ![c] = Append(@, HeaderItem)] /\ Count(flags[c])
      BY <1>4, <2>2, ServeFacts
    <3>2. [sendBuf EXCEPT ![c] = Append(@, HeaderItem)]
            = [sendBuf EXCEPT ![c] = Append(sendBuf[c], HeaderItem)]
      BY <1>1
    <3> QED BY <1>2, <2>1, <2>2, <3>1, <3>2
  <2>3. CASE r # "feed"
    <3>1. UNCHANGED ledVars
      BY <1>4, <2>3, ServeFacts
    <3>2. \E s \in {sendBuf[c], Append(sendBuf[c], PageItem)} : sendBuf' = [sendBuf EXCEPT ![c] = s]
      <4>1. \/ sendBuf' = sendBuf
            \/ sendBuf' = [sendBuf EXCEPT ![c] = Append(@, PageItem)]
        BY <1>4, <2>3, ServeFacts
      <4>2. [sendBuf EXCEPT ![c] = Append(@, PageItem)]
              = [sendBuf EXCEPT ![c] = Append(sendBuf[c], PageItem)]
        BY <1>1
      <4> QED BY <1>2, <4>1, <4>2
    <3> QED BY <1>2, <2>1, <2>3, <3>1, <3>2
  <2> QED BY <2>2, <2>3
<1> DEFINE all == recvBuf[c] \o inq[c]
           r == Head(all)
<1>5. CASE /\ inq[c] # <<>> /\ inq' = [inq EXCEPT ![c] = <<>>]
           /\ \/ /\ Serve(c, r)
                 /\ recvBuf' = [recvBuf EXCEPT ![c] = IF r = "invalid" THEN all ELSE Tail(all)]
              \/ /\ recvBuf' = [recvBuf EXCEPT ![c] = all]
                 /\ UNCHANGED <<flags, sendBuf>> /\ UNCHANGED ledVars
  <2>1. all \in Seq(Request) /\ r \in Request /\ Tail(all) \in Seq(Request)
    BY <1>1, <1>5
  <2>2. <<>> \in Seq(Request)
    OBVIOUS
  <2> HIDE DEF all, r
  <2>3. CASE Serve(c, r) /\ recvBuf' = [recvBuf EXCEPT ![c] = IF r = "invalid" THEN all ELSE Tail(all)]
    <3>1. FlagsAndItems
      BY <1>4, <2>1, <2>3
    <3>2. \E s \in Seq(Request) : recvBuf' = [recvBuf EXCEPT ![c] = s]
      BY <2>1, <2>3
    <3> QED BY <1>5, <2>2, <3>1, <3>2 DEF Read
  <2>4. CASE recvBuf' = [recvBuf EXCEPT ![c] = all] /\ UNCHANGED <<flags, sendBuf>> /\ UNCHANGED ledVars
    <3>1. FlagsAndItems
      BY <1>2, <1>3, <2>4
    <3> QED BY <1>5, <2>1, <2>2, <2>4, <3>1 DEF Read
  <2> QED BY <1>5, <2>3, <2>4
<1>6. CASE Eof(c) /\ UNCHANGED <<recvBuf, sendBuf, inq>> /\ UNCHANGED ledVars
  <2>1. PICK f \in {"SEND_AND_CLOSE", "CLOSE_IMMEDIATELY"} : flags' = [flags EXCEPT ![c] = @ \union {f}]
    BY <1>6 DEF Eof
  <2>2. {f} \in SUBSET Flag /\ "USER_6" \notin {f}
    BY DEF Flag
  <2>3. FlagsAndItems
    BY <1>2, <1>6, <2>1, <2>2
  <2> QED BY <1>1, <1>3, <1>6, <2>3 DEF Read
<1> QED BY <1>5, <1>6 DEF Read

LEMMA ReadKeeps ==
    ASSUME ServerInv, NEW c \in Conns, Read(c)
    PROVE  ServerInv'
<1>1. TypeOK /\ Tidy
  BY DEF ServerInv
<1>2. /\ due' = [due EXCEPT !.read = @ \ {c}]
      /\ UNCHANGED <<open, phase, frame, pending, peer, got, requests>>
      /\ phase = "handle" /\ ~due.ctl /\ c \in open
  BY <1>1, ReadFacts DEF TypeOK
<1>3. PICK f \in SUBSET Flag, items \in Seq(Item) :
        /\ flags' = [flags EXCEPT ![c] = @ \union f]
        /\ \/ /\ "USER_6" \in f /\ items = Append(sendBuf[c], HeaderItem)
              /\ Count(flags[c])
           \/ /\ "USER_6" \notin f /\ items \in {sendBuf[c], Append(sendBuf[c], PageItem)}
              /\ UNCHANGED ledVars
        /\ sendBuf' = [sendBuf EXCEPT ![c] = items]
  BY <1>1, ReadFacts
<1>4. PICK s \in Seq(Request) : recvBuf' = [recvBuf EXCEPT ![c] = s]
  BY <1>1, ReadFacts
<1>5. PICK t \in Seq(Request) : inq' = [inq EXCEPT ![c] = t]
  BY <1>1, ReadFacts
<1>6. DueTyped'
  BY <1>1, <1>2, TypeParts DEF DueTyped
<1>7. BuffersTyped'
  BY <1>1, <1>3, <1>4, <1>5, TypeParts DEF BuffersTyped
<1>8. SendTyped'
  BY <1>1, <1>3, TypeParts DEF SendTyped
<1>9. CountTyped' /\ led' \in BOOLEAN
  <2>1. CASE Count(flags[c])
    <3>1. CountTyped'
      BY <1>1, <2>1, TypeParts DEF CountTyped, Count
    <3>2. led' = TRUE
      BY <2>1 DEF Count
    <3> QED BY <3>1, <3>2
  <2>2. CASE UNCHANGED ledVars
    BY <1>1, <2>2, TypeParts, SameTypes DEF ledVars
  <2> QED BY <1>3, <2>1, <2>2
<1>10. GotTyped' /\ ConnsTyped' /\ FrameTyped' /\ pending' \in BOOLEAN
  BY <1>1, <1>2, TypeParts, SameTypes
<1>11. Tidy'
  <2>1. due'.ctl = FALSE
    BY <1>1, <1>2, TypeParts DEF DueTyped
  <2>2. \A d \in Conns \ open : flags'[d] = {} /\ recvBuf'[d] = <<>>
    BY <1>1, <1>2, <1>3, <1>4, TypeParts DEF Tidy, BuffersTyped
  <2> QED BY <1>1, <1>2, <2>1, <2>2 DEF Tidy
<1> QED BY <1>6, <1>7, <1>8, <1>9, <1>10, <1>11, TypePartsAfter DEF ServerInv

(* What writing to a connection changes. *)
LEMMA WriteFacts ==
    ASSUME TypeOK, NEW c \in Conns, Write(c)
    PROVE  /\ \/ \E f \in SUBSET Flag :
                   /\ flags' = [flags EXCEPT ![c] = @ \union f] /\ "USER_6" \notin f
                   /\ UNCHANGED <<sendBuf, got>>
              \/ \E n \in 1 .. Len(sendBuf[c]) :
                   /\ got' = [got EXCEPT ![c] = After(got[c], SubSeq(sendBuf[c], 1, n))]
                   /\ sendBuf' = [sendBuf EXCEPT ![c] = SubSeq(sendBuf[c], n + 1, Len(sendBuf[c]))]
                   /\ UNCHANGED flags
           /\ due' = [due EXCEPT !.write = @ \ {c}]
           /\ UNCHANGED <<open, phase, recvBuf, frame, pending, peer, inq, requests>>
           /\ UNCHANGED ledVars
           /\ phase = "handle" /\ ~due.ctl /\ c \in due.write
<1> DEFINE Flagged == \E f \in SUBSET Flag :
              /\ flags' = [flags EXCEPT ![c] = @ \union f] /\ "USER_6" \notin f
              /\ UNCHANGED <<sendBuf, got>>
           Delivered == \E n \in 1 .. Len(sendBuf[c]) :
              /\ got' = [got EXCEPT ![c] = After(got[c], SubSeq(sendBuf[c], 1, n))]
              /\ sendBuf' = [sendBuf EXCEPT ![c] = SubSeq(sendBuf[c], n + 1, Len(sendBuf[c]))]
              /\ UNCHANGED flags
<1>1. /\ flags \in [Conns -> SUBSET Flag] /\ sendBuf \in [Conns -> Seq(Item)]
      /\ got \in [Conns -> [header : BOOLEAN, last : 0 .. MaxFrames]]
  BY DEF TypeOK
<1>2. CASE UNCHANGED <<flags, sendBuf, got>>
  <2>1. flags = [flags EXCEPT ![c] = @ \union {}] /\ {} \in SUBSET Flag
    BY <1>1
  <2>2. Flagged
    BY <1>2, <2>1
  <2> QED BY <2>2 DEF Write
<1>3. CASE /\ flags' = [flags EXCEPT ![c] = @ \union {"CLOSE_IMMEDIATELY"}]
           /\ UNCHANGED <<sendBuf, got>>
  <2>1. {"CLOSE_IMMEDIATELY"} \in SUBSET Flag /\ "USER_6" \notin {"CLOSE_IMMEDIATELY"}
    BY DEF Flag
  <2>2. Flagged
    BY <1>3, <2>1
  <2> QED BY <2>2 DEF Write
<1>4. CASE \E n \in 1 .. Len(sendBuf[c]) :
             /\ got' = [got EXCEPT ![c] = After(@, SubSeq(sendBuf[c], 1, n))]
             /\ sendBuf' = [sendBuf EXCEPT ![c] = SubSeq(@, n + 1, Len(@))]
             /\ UNCHANGED flags
  <2>1. Delivered
    BY <1>1, <1>4
  <2> QED BY <2>1 DEF Write
<1> QED BY <1>2, <1>3, <1>4 DEF Write

LEMMA WriteKeeps ==
    ASSUME ServerInv, NEW c \in Conns, Write(c)
    PROVE  ServerInv'
<1>1. TypeOK /\ Tidy
  BY DEF ServerInv
<1>2. /\ due' = [due EXCEPT !.write = @ \ {c}]
      /\ UNCHANGED <<open, phase, recvBuf, frame, pending, peer, inq, requests,
                     camConns, led, repeats>>
      /\ phase = "handle" /\ ~due.ctl /\ c \in open
  BY <1>1, WriteFacts DEF TypeOK, ledVars
<1>3. DueTyped'
  BY <1>1, <1>2, TypeParts DEF DueTyped
<1>4. BuffersTyped' /\ SendTyped' /\ GotTyped' /\ \A d \in Conns \ open : flags'[d] = flags[d]
  <2>1. CASE \E f \in SUBSET Flag : /\ flags' = [flags EXCEPT ![c] = @ \union f]
                                    /\ UNCHANGED <<sendBuf, got>>
    <3>1. BuffersTyped' /\ \A d \in Conns \ open : flags'[d] = flags[d]
      BY <1>1, <1>2, <2>1, TypeParts DEF BuffersTyped
    <3> QED BY <1>1, <2>1, <3>1, TypeParts, SameTypes
  <2>2. CASE \E n \in 1 .. Len(sendBuf[c]) :
               /\ got' = [got EXCEPT ![c] = After(got[c], SubSeq(sendBuf[c], 1, n))]
               /\ sendBuf' = [sendBuf EXCEPT ![c] = SubSeq(sendBuf[c], n + 1, Len(sendBuf[c]))]
               /\ UNCHANGED flags
    <3>1. PICK n \in 1 .. Len(sendBuf[c]) :
            /\ got' = [got EXCEPT ![c] = After(got[c], SubSeq(sendBuf[c], 1, n))]
            /\ sendBuf' = [sendBuf EXCEPT ![c] = SubSeq(sendBuf[c], n + 1, Len(sendBuf[c]))]
      BY <2>2
    <3>2. sendBuf[c] \in Seq(Item)
      BY <1>1 DEF TypeOK
    <3>3. /\ SubSeq(sendBuf[c], 1, n) \in Seq(Item)
          /\ SubSeq(sendBuf[c], n + 1, Len(sendBuf[c])) \in Seq(Item)
      BY <3>2
    <3>4. After(got[c], SubSeq(sendBuf[c], 1, n)) \in [header : BOOLEAN, last : 0 .. MaxFrames]
      BY <1>1, <3>3, AfterFacts, TypeParts DEF GotTyped
    <3>5. SendTyped'
      BY <1>1, <3>1, <3>3, TypeParts DEF SendTyped
    <3>6. GotTyped'
      BY <1>1, <3>1, <3>4, TypeParts DEF GotTyped
    <3> QED BY <1>1, <1>2, <2>2, <3>5, <3>6, TypeParts, SameTypes
  <2> QED BY <1>1, <2>1, <2>2, WriteFacts
<1>5. CountTyped' /\ ConnsTyped' /\ FrameTyped' /\ led' \in BOOLEAN /\ pending' \in BOOLEAN
  BY <1>1, <1>2, TypeParts, SameTypes
<1>6. Tidy'
  <2>1. due'.ctl = FALSE
    BY <1>1, <1>2, TypeParts DEF DueTyped
  <2> QED BY <1>1, <1>2, <1>4, <2>1 DEF Tidy
<1> QED BY <1>3, <1>4, <1>5, <1>6, TypePartsAfter DEF ServerInv

(* What the main thread and the clients do. *)
LEMMA OthersKeep ==
    ASSUME ServerInv,
           \/ Publish
           \/ \E c \in Conns : Connect(c) \/ Leave(c) \/ \E r \in Request : Ask(c, r)
           \/ UNCHANGED vars
    PROVE  ServerInv'
<1>1. TypeOK /\ Tidy
  BY DEF ServerInv
<1>2. UNCHANGED <<open, phase, due, flags, recvBuf, sendBuf, camConns, led, repeats, got>>
  BY DEF Publish, Connect, Leave, Ask, vars, connVars, ledVars, clientVars
<1>3. ConnsTyped' /\ \A d \in Conns : d \in open <=> peer'[d] \in {"up", "fin", "gone"}
  <2>1. CASE \E c \in Conns : Connect(c) \/ Leave(c)
    <3>1. PICK c \in Conns, p \in {"wait", "fin", "gone"} :
            /\ peer' = [peer EXCEPT ![c] = p]
            /\ peer[c] \in IF p = "wait" THEN {"none"} ELSE {"up", "fin"}
      BY <2>1 DEF Connect, Leave
    <3>2. ConnsTyped'
      BY <1>1, <1>2, <3>1, TypeParts DEF ConnsTyped
    <3>3. peer'[c] = p /\ \A d \in Conns \ {c} : peer'[d] = peer[d]
      BY <1>1, <3>1, TypeParts DEF ConnsTyped
    <3>4. \A d \in Conns : d \in open <=> peer'[d] \in {"up", "fin", "gone"}
      <4>1. CASE p = "wait"
        BY <1>1, <3>1, <3>3, <4>1 DEF Tidy
      <4>2. CASE p \in {"fin", "gone"}
        BY <1>1, <3>1, <3>3, <4>2 DEF Tidy
      <4> QED BY <4>1, <4>2
    <3> QED BY <3>2, <3>4
  <2>2. CASE UNCHANGED peer
    BY <1>1, <1>2, <2>2, TypeParts, SameTypes DEF Tidy
  <2> QED BY <2>1, <2>2 DEF Publish, Ask, vars, clientVars
<1>4. BuffersTyped'
  <2>1. CASE \E c \in Conns, r \in Request : Ask(c, r)
    BY <1>1, <1>2, <2>1, TypeParts DEF BuffersTyped, Ask
  <2>2. CASE UNCHANGED inq
    BY <1>1, <1>2, <2>2, TypeParts, SameTypes
  <2> QED BY <2>1, <2>2 DEF Publish, Connect, Leave, vars, clientVars
<1>5. FrameTyped'
  <2>1. CASE \E c \in Conns, r \in Request : Ask(c, r)
    BY <1>1, <2>1, TypeParts, BoundsAssumption DEF FrameTyped, Ask
  <2>2. CASE Publish
    BY <1>1, <2>2, TypeParts, BoundsAssumption DEF FrameTyped, Publish, clientVars
  <2>3. CASE UNCHANGED <<frame, requests>>
    BY <1>1, <2>3, TypeParts, SameTypes
  <2> QED BY <2>1, <2>2, <2>3 DEF Connect, Leave, vars
<1>6. pending' \in BOOLEAN /\ (due.ctl => pending')
  <2>1. CASE pending' = TRUE
    BY <2>1
  <2>2. CASE pending' = pending
    BY <1>1, <2>2, TypeParts DEF Tidy
  <2> QED BY <2>1, <2>2 DEF Publish, Connect, Leave, Ask, vars
<1>7. DueTyped' /\ CountTyped' /\ GotTyped' /\ SendTyped' /\ led' \in BOOLEAN
  BY <1>1, <1>2, TypeParts, SameTypes
<1>8. Tidy'
  BY <1>1, <1>2, <1>3, <1>6 DEF Tidy
<1> QED BY <1>3, <1>4, <1>5, <1>6, <1>7, <1>8, TypePartsAfter DEF ServerInv

-----------------------------------------------------------------------------
(* The count and the LED. *)

(* How the count follows the connections that have the feed. *)
LEMMA CountFacts ==
    ASSUME NEW F, IsFiniteSet(F), NEW c
    PROVE  /\ IsFiniteSet(F \union {c}) /\ IsFiniteSet(F \ {c})
           /\ Cardinality(F) \in Nat
           /\ c \in F => F \union {c} = F
           /\ c \notin F => Cardinality(F \union {c}) = Cardinality(F) + 1
           /\ c \in F => Cardinality(F \ {c}) = Cardinality(F) - 1
           /\ c \notin F => F \ {c} = F
           /\ F # {} => Cardinality(F) > 0
<1>1. IsFiniteSet(F \union {c}) /\ IsFiniteSet(F \ {c}) /\ Cardinality(F) \in Nat
  BY FS_AddElement, FS_RemoveElement, FS_CardinalityType
<1>2. c \notin F => Cardinality(F \union {c}) = Cardinality(F) + 1
  BY FS_AddElement
<1>3. c \in F => Cardinality(F \ {c}) = Cardinality(F) - 1
  BY FS_RemoveElement
<1>4. F # {} => Cardinality(F) > 0
  BY <1>1, FS_EmptySet
<1> QED BY <1>1, <1>2, <1>3, <1>4

(* A request for the feed is counted, also on a connection that has it. *)
LEMMA ReadCounts ==
    ASSUME ServerInv, Counted, NEW c \in Conns, Read(c)
    PROVE  Counted'
<1>1. TypeOK /\ Tidy /\ open' = open /\ c \in open
  BY ReadFacts DEF ServerInv, TypeOK
<1>2. PICK f \in SUBSET Flag, items \in Seq(Item) :
        /\ flags' = [flags EXCEPT ![c] = @ \union f]
        /\ \/ /\ "USER_6" \in f /\ items = Append(sendBuf[c], HeaderItem)
              /\ Count(flags[c])
           \/ /\ "USER_6" \notin f /\ items \in {sendBuf[c], Append(sendBuf[c], PageItem)}
              /\ UNCHANGED ledVars
        /\ sendBuf' = [sendBuf EXCEPT ![c] = items]
  BY <1>1, ReadFacts
<1>3. /\ flags'[c] = flags[c] \union f
      /\ \A d \in Conns \ {c} : flags'[d] = flags[d]
  BY <1>1, <1>2 DEF TypeOK
<1>4. open \subseteq Conns /\ camConns \in Nat /\ repeats \in Nat
  BY <1>1 DEF TypeOK
<1>5. CASE "USER_6" \in f /\ Count(flags[c])
  <2>1. Feeding' = Feeding \union {c}
    BY <1>1, <1>3, <1>4, <1>5 DEF Feeding
  <2>2. c \in Feeding <=> "USER_6" \in flags[c]
    BY <1>1 DEF Feeding
  <2>3. camConns' = camConns + 1 /\ led' = TRUE
        /\ repeats' = repeats + (IF "USER_6" \in flags[c] THEN 1 ELSE 0)
    BY <1>5 DEF Count
  <2>4. camConns' = Cardinality(Feeding') + repeats'
    <3>1. IsFiniteSet(Feeding) /\ camConns = Cardinality(Feeding) + repeats
      BY DEF Counted, CountExplained
    <3>2. camConns' = camConns + 1 /\ repeats' = repeats + (IF c \in Feeding THEN 1 ELSE 0)
      BY <2>2, <2>3
    <3>3. Cardinality(Feeding) \in Nat
          /\ (c \in Feeding => Cardinality(Feeding') = Cardinality(Feeding))
          /\ (c \notin Feeding => Cardinality(Feeding') = Cardinality(Feeding) + 1)
      BY <2>1, <3>1, CountFacts, Zenon
    <3> QED BY <1>4, <3>1, <3>2, <3>3
  <2>5. IsFiniteSet(Feeding')
    BY <2>1, CountFacts DEF Counted
  <2> QED BY <2>3, <2>4, <2>5 DEF Counted, CountExplained
<1>6. CASE "USER_6" \notin f /\ UNCHANGED ledVars
  <2>1. Feeding' = Feeding
    BY <1>1, <1>3, <1>4, <1>6 DEF Feeding
  <2> QED BY <1>6, <2>1 DEF Counted, CountExplained, ledVars
<1> QED BY <1>2, <1>5, <1>6

(* A connection that closes takes its own count along, and the request it  *)
(* still had in recv_mbuf is counted before.                               *)
LEMMA CloseCounts ==
    ASSUME ServerInv, Counted, NEW c \in Conns, Close(c)
    PROVE  Counted' /\ CountTyped' /\ led' \in BOOLEAN
<1> DEFINE late == recvBuf[c] # <<>> /\ Head(recvBuf[c]) = "feed"
           f == flags[c] \union (IF late THEN {"USER_6"} ELSE {})
           n == IF late THEN camConns + 1 ELSE camConns
<1>1. TypeOK /\ Tidy
  BY DEF ServerInv
<1>2. /\ open' = open \ {c} /\ c \in open
      /\ flags' = [flags EXCEPT ![c] = {}]
      /\ Uncount(f, n, led \/ late)
      /\ repeats' = repeats + (IF late /\ "USER_6" \in flags[c] THEN 1 ELSE 0)
  BY DEF Close, Doomed
<1>3. Feeding' = Feeding \ {c}
  BY <1>1, <1>2 DEF Feeding, TypeOK
<1>4. c \in Feeding <=> "USER_6" \in flags[c]
  BY <1>2 DEF Feeding
<1>5. "USER_6" \in f <=> (late \/ "USER_6" \in flags[c])
  OBVIOUS
<1>6. /\ IsFiniteSet(Feeding) /\ camConns = Cardinality(Feeding) + repeats
      /\ (Feeding # {} => led) /\ camConns \in Nat /\ repeats \in Nat
      /\ led \in BOOLEAN
  BY <1>1, TypeParts DEF Counted, CountExplained, CountTyped
<1>7. IsFiniteSet(Feeding') /\ Cardinality(Feeding') \in Nat
      /\ (Feeding' # {} => Cardinality(Feeding') > 0)
  BY <1>3, <1>6, CountFacts
<1>8. repeats' \in Nat
  BY <1>2, <1>6
<1> HIDE DEF late, f, n
<1>9. camConns' = Cardinality(Feeding') + repeats'
  <2>1. CASE late /\ "USER_6" \in flags[c]
    <3>1. camConns' = (camConns + 1) - 1 /\ repeats' = repeats + 1
      BY <1>2, <1>5, <2>1 DEF Uncount, n
    <3>2. Cardinality(Feeding') = Cardinality(Feeding) - 1 /\ Cardinality(Feeding) \in Nat
      BY <1>3, <1>4, <1>6, <2>1, CountFacts
    <3> QED BY <1>6, <3>1, <3>2
  <2>2. CASE late /\ "USER_6" \notin flags[c]
    <3>1. camConns' = (camConns + 1) - 1 /\ repeats' = repeats
      BY <1>2, <1>5, <1>6, <2>2 DEF Uncount, n
    <3>2. Cardinality(Feeding') = Cardinality(Feeding)
      BY <1>3, <1>4, <1>6, <2>2, CountFacts
    <3> QED BY <1>6, <3>1, <3>2
  <2>3. CASE ~late /\ "USER_6" \in flags[c]
    <3>1. camConns' = camConns - 1 /\ repeats' = repeats
      BY <1>2, <1>5, <1>6, <2>3 DEF Uncount, n
    <3>2. Cardinality(Feeding') = Cardinality(Feeding) - 1 /\ Cardinality(Feeding) \in Nat
      BY <1>3, <1>4, <1>6, <2>3, CountFacts
    <3> QED BY <1>6, <3>1, <3>2
  <2>4. CASE ~late /\ "USER_6" \notin flags[c]
    <3>1. camConns' = camConns /\ repeats' = repeats
      BY <1>2, <1>5, <1>6, <2>4 DEF Uncount, n
    <3>2. Cardinality(Feeding') = Cardinality(Feeding)
      BY <1>3, <1>4, <1>6, <2>4, CountFacts
    <3> QED BY <1>6, <3>1, <3>2
  <2> QED BY <2>1, <2>2, <2>3, <2>4
<1>10. Feeding' # {} => led'
  <2> SUFFICES ASSUME Feeding' # {}
               PROVE  led'
    OBVIOUS
  <2>1. Feeding # {} /\ led
    BY <1>3, <1>6
  <2>2. CASE "USER_6" \in f
    <3>1. camConns' = n - 1 /\ led' = ((led \/ late) /\ n - 1 # 0)
      BY <1>2, <2>2 DEF Uncount
    <3>2. n - 1 # 0
      <4>1. n - 1 = Cardinality(Feeding') + repeats'
        BY <1>9, <3>1
      <4>2. Cardinality(Feeding') > 0 /\ Cardinality(Feeding') \in Nat
        BY <1>7
      <4> QED BY <1>8, <4>1, <4>2
    <3> QED BY <2>1, <3>1, <3>2
  <2>3. CASE "USER_6" \notin f
    <3>1. led' = (led \/ late)
      BY <1>2, <2>3 DEF Uncount
    <3> QED BY <2>1, <3>1
  <2> QED BY <2>2, <2>3
<1>11. led' \in BOOLEAN
  <2>1. CASE "USER_6" \in f
    <3>1. led' = ((led \/ late) /\ n - 1 # 0)
      BY <1>2, <2>1 DEF Uncount
    <3> QED BY <3>1
  <2>2. CASE "USER_6" \notin f
    <3>1. led' = (led \/ late)
      BY <1>2, <2>2 DEF Uncount
    <3> QED BY <3>1
  <2> QED BY <2>1, <2>2
<1>12. CountTyped'
  BY <1>7, <1>8, <1>9 DEF CountTyped
<1> QED BY <1>7, <1>9, <1>10, <1>11, <1>12 DEF Counted, CountExplained

(* The other steps change neither the count nor who has the feed. *)
LEMMA OthersCount ==
    ASSUME ServerInv, Counted,
           \/ Select \/ Cast \/ EndHandle \/ EndSweep \/ Publish \/ UNCHANGED vars
           \/ \E c \in Conns : \/ Accept(c) \/ Write(c) \/ Connect(c) \/ Leave(c)
                               \/ \E r \in Request : Ask(c, r)
    PROVE  Counted'
<1>1. TypeOK /\ Tidy
  BY DEF ServerInv
<1>2. UNCHANGED ledVars
  BY DEF Select, Cast, EndHandle, EndSweep, Publish, Accept, Write, Connect, Leave, Ask, vars, ledVars
<1>3. Feeding' = Feeding
  <2>1. CASE \E c \in Conns : Accept(c)
    <3>1. PICK c \in Conns : open' = open \union {c} /\ flags' = flags /\ peer[c] = "wait"
      BY <2>1 DEF Accept, Waiting, connVars
    <3>2. c \notin open /\ flags[c] = {}
      BY <1>1, <3>1 DEF Tidy
    <3> QED BY <3>1, <3>2 DEF Feeding
  <2>2. CASE \E c \in Conns : Write(c)
    <3>1. PICK c \in Conns : Write(c)
      BY <2>2
    <3>2. open' = open /\ \E f \in SUBSET Flag :
              flags' = [flags EXCEPT ![c] = @ \union f] /\ "USER_6" \notin f
      <4>1. CASE UNCHANGED flags
        <5>1. flags = [flags EXCEPT ![c] = @ \union {}]
          BY <1>1 DEF TypeOK
        <5>2. open' = open
          BY <1>1, <3>1, WriteFacts
        <5>3. {} \in SUBSET Flag /\ "USER_6" \notin {}
          OBVIOUS
        <5>4. flags' = [flags EXCEPT ![c] = @ \union {}]
          BY <4>1, <5>1
        <5> QED BY <5>2, <5>3, <5>4
      <4> QED BY <1>1, <3>1, <4>1, WriteFacts
    <3>3. \A d \in Conns : "USER_6" \in flags'[d] <=> "USER_6" \in flags[d]
      BY <1>1, <3>2 DEF TypeOK
    <3>4. open \subseteq Conns
      BY <1>1 DEF TypeOK
    <3> QED BY <3>2, <3>3, <3>4 DEF Feeding
  <2>3. CASE UNCHANGED <<open, flags>>
    BY <2>3 DEF Feeding
  <2> QED BY <2>1, <2>2, <2>3
      DEF Select, Cast, EndHandle, EndSweep, Publish, Connect, Leave, Ask, vars, connVars
<1> QED BY <1>2, <1>3 DEF Counted, CountExplained, ledVars

LEMMA CloseKeeps ==
    ASSUME ServerInv, Counted, NEW c \in Conns, Close(c)
    PROVE  ServerInv' /\ Counted'
<1>1. TypeOK /\ Tidy
  BY DEF ServerInv
<1>2. /\ phase = "sweep" /\ open' = open \ {c}
      /\ flags' = [flags EXCEPT ![c] = {}]
      /\ recvBuf' = [recvBuf EXCEPT ![c] = <<>>]
      /\ sendBuf' = [sendBuf EXCEPT ![c] = <<>>]
      /\ peer' = [peer EXCEPT ![c] = "none"]
      /\ inq' = [inq EXCEPT ![c] = <<>>]
      /\ got' = [got EXCEPT ![c] = None]
      /\ UNCHANGED <<phase, due, frame, pending, requests>>
  BY DEF Close
<1>3. DueTyped'
  <2>1. due' = Nothing
    BY <1>1, <1>2 DEF Tidy
  <2>2. {} \in SUBSET open'
    OBVIOUS
  <2> QED BY <2>1, <2>2 DEF DueTyped, Nothing
<1>4. GotTyped'
  <2>1. None \in [header : BOOLEAN, last : 0 .. MaxFrames]
    BY BoundsAssumption DEF None
  <2> QED BY <1>1, <1>2, <2>1, TypeParts DEF GotTyped
<1>5. BuffersTyped'
  <2>1. <<>> \in Seq(Request) /\ {} \in SUBSET Flag
    OBVIOUS
  <2> QED BY <1>1, <1>2, <2>1, TypeParts DEF BuffersTyped
<1>6. SendTyped'
  <2>1. <<>> \in Seq(Item)
    OBVIOUS
  <2> QED BY <1>1, <1>2, <2>1, TypeParts DEF SendTyped
<1>7. ConnsTyped'
  BY <1>1, <1>2, TypeParts DEF ConnsTyped
<1>8. FrameTyped' /\ pending' \in BOOLEAN
  BY <1>1, <1>2, TypeParts, SameTypes
<1>9. Tidy'
  <2>1. \A d \in Conns : d \in open' <=> peer'[d] \in {"up", "fin", "gone"}
    BY <1>1, <1>2, TypeParts DEF Tidy, ConnsTyped
  <2>2. \A d \in Conns \ open' : flags'[d] = {} /\ recvBuf'[d] = <<>>
    BY <1>1, <1>2, TypeParts DEF Tidy, BuffersTyped
  <2>3. due'.ctl => pending'
    BY <1>1, <1>2 DEF Tidy
  <2>4. phase' # "handle" => due' = Nothing
    BY <1>1, <1>2 DEF Tidy
  <2> QED BY <2>1, <2>2, <2>3, <2>4 DEF Tidy
<1> QED BY <1>3, <1>4, <1>5, <1>6, <1>7, <1>8, <1>9, CloseCounts, TypePartsAfter DEF ServerInv

LEMMA CountedInit == Init => Counted
<1> SUFFICES ASSUME Init
             PROVE  Counted
  OBVIOUS
<1>1. Feeding = {} /\ camConns = 0 /\ repeats = 0
  BY DEF Init, Feeding
<1>2. IsFiniteSet(Feeding) /\ Cardinality(Feeding) = 0
  BY <1>1, FS_EmptySet
<1>3. camConns = Cardinality(Feeding) + repeats
  BY <1>1, <1>2
<1> QED BY <1>1, <1>2, <1>3 DEF Counted, CountExplained

LEMMA ServerInvStep == ServerInv /\ Counted /\ [Next]_vars => ServerInv' /\ Counted'
<1> SUFFICES ASSUME ServerInv, Counted, [Next]_vars
             PROVE  ServerInv' /\ Counted'
  OBVIOUS
<1>1. CASE Select \/ EndHandle \/ EndSweep
  BY <1>1, PhaseKeeps, OthersCount
<1>2. CASE Cast
  BY <1>2, CastKeeps, OthersCount
<1>3. CASE \E c \in Conns : Accept(c)
  BY <1>3, AcceptKeeps, OthersCount
<1>4. CASE \E c \in Conns : Read(c)
  BY <1>4, ReadKeeps, ReadCounts
<1>5. CASE \E c \in Conns : Write(c)
  BY <1>5, WriteKeeps, OthersCount
<1>6. CASE \E c \in Conns : Close(c)
  BY <1>6, CloseKeeps
<1>7. CASE \/ Publish
           \/ \E c \in Conns : Connect(c) \/ Leave(c) \/ \E r \in Request : Ask(c, r)
           \/ UNCHANGED vars
  BY <1>7, OthersKeep, OthersCount
<1> QED BY <1>1, <1>2, <1>3, <1>4, <1>5, <1>6, <1>7 DEF Next, Poll

-----------------------------------------------------------------------------
(* The frames of one connection. *)

(* Nothing to send and nothing sent. *)
LEMMA FedEmpty ==
    ASSUME NEW m \in Nat
    PROVE  WellFed({}, <<>>, None, m)
BY DEF WellFed, None

(* A newer frame that goes to others. *)
LEMMA FedLater ==
    ASSUME NEW f, NEW buf \in Seq(Item), NEW g \in [header : BOOLEAN, last : 0 .. MaxFrames],
           NEW m \in Int, NEW k \in Int, m <= k, WellFed(f, buf, g, m)
    PROVE  WellFed(f, buf, g, k)
<1>1. g.last <= k
  <2>1. g.last <= m /\ g.last \in Int
    BY DEF WellFed
  <2> QED BY <2>1
<1>2. ASSUME NEW j \in DOMAIN buf, buf[j].kind = "frame"
      PROVE  buf[j].n <= k
  <2>1. buf[j].n <= m
    BY <1>2 DEF WellFed
  <2>2. buf[j] \in Item
    OBVIOUS
  <2>3. buf[j].n \in Int
    BY <2>2 DEF Item
  <2> QED BY <2>1, <2>3
<1> QED BY <1>1, <1>2 DEF WellFed

(* An item at the end that is no frame. *)
LEMMA FedOther ==
    ASSUME NEW f, NEW h, NEW buf \in Seq(Item), NEW g, NEW m, NEW item \in Item,
           WellFed(f, buf, g, m), item.kind # "frame",
           "USER_6" \in h => "USER_6" \in f \/ item = HeaderItem
    PROVE  WellFed(h, Append(buf, item), g, m)
<1>1. /\ DOMAIN buf = 1 .. Len(buf) /\ Len(buf) \in Nat
      /\ DOMAIN Append(buf, item) = 1 .. Len(buf) + 1
      /\ \A i \in 1 .. Len(buf) : Append(buf, item)[i] = buf[i]
      /\ Append(buf, item)[Len(buf) + 1] = item
  OBVIOUS
<1>2. ASSUME "USER_6" \in h
      PROVE  g.header \/ \E i \in DOMAIN Append(buf, item) : Append(buf, item)[i] = HeaderItem
  <2>1. CASE item = HeaderItem
    <3>1. Len(buf) + 1 \in DOMAIN Append(buf, item)
      BY <1>1
    <3> QED BY <1>1, <2>1, <3>1
  <2>2. CASE item # HeaderItem
    <3>1. g.header \/ \E i \in DOMAIN buf : buf[i] = HeaderItem
      BY <1>2, <2>2 DEF WellFed
    <3>2. \A i \in DOMAIN buf : i \in DOMAIN Append(buf, item) /\ Append(buf, item)[i] = buf[i]
      BY <1>1
    <3> QED BY <3>1, <3>2
  <2> QED BY <2>1, <2>2
<1>3. ASSUME NEW j \in DOMAIN Append(buf, item), Append(buf, item)[j].kind = "frame"
      PROVE  /\ j \in DOMAIN buf /\ Append(buf, item)[j] = buf[j]
             /\ \A i \in 1 .. j - 1 : Append(buf, item)[i] = buf[i]
  BY <1>1, <1>3
<1>4. g.last <= m
  BY DEF WellFed
<1>5. ASSUME NEW j \in DOMAIN Append(buf, item), Append(buf, item)[j].kind = "frame"
      PROVE  /\ g.last < Append(buf, item)[j].n /\ Append(buf, item)[j].n <= m
             /\ g.header \/ \E i \in 1 .. j - 1 : Append(buf, item)[i] = HeaderItem
             /\ \A i \in 1 .. j - 1 : Append(buf, item)[i].kind = "frame" =>
                    Append(buf, item)[i].n < Append(buf, item)[j].n
  <2>1. /\ j \in DOMAIN buf /\ Append(buf, item)[j] = buf[j]
        /\ \A i \in 1 .. j - 1 : Append(buf, item)[i] = buf[i]
    BY <1>3, <1>5
  <2>2. buf[j].kind = "frame"
    BY <1>5, <2>1
  <2> QED BY <2>1, <2>2 DEF WellFed
<1> QED BY <1>2, <1>4, <1>5 DEF WellFed

(* A new frame at the end. *)
LEMMA FedFrame ==
    ASSUME NEW f, NEW buf \in Seq(Item), NEW g \in [header : BOOLEAN, last : 0 .. MaxFrames],
           NEW m \in Int, NEW k \in 0 .. MaxFrames, m < k,
           WellFed(f, buf, g, m), "USER_6" \in f
    PROVE  WellFed(f, Append(buf, FrameItem(k)), g, k)
<1> DEFINE item == FrameItem(k)
           new == Append(buf, item)
<1>1. item \in Item /\ item.n = k /\ item.kind = "frame"
  BY DEF FrameItem, Item
<1> HIDE DEF item
<1>2. /\ DOMAIN buf = 1 .. Len(buf) /\ Len(buf) \in Nat
      /\ DOMAIN new = 1 .. Len(buf) + 1
      /\ \A i \in 1 .. Len(buf) : new[i] = buf[i]
      /\ new[Len(buf) + 1] = item
  BY <1>1
<1> HIDE DEF new
<1>3. WellFed(f, buf, g, k)
  BY FedLater
<1>4. g.header \/ \E i \in DOMAIN buf : buf[i] = HeaderItem
  BY DEF WellFed
<1>5. g.header \/ \E i \in DOMAIN new : new[i] = HeaderItem
  BY <1>2, <1>4
<1>6. ASSUME NEW j \in DOMAIN new, new[j].kind = "frame"
      PROVE  /\ g.last < new[j].n /\ new[j].n <= k
             /\ g.header \/ \E i \in 1 .. j - 1 : new[i] = HeaderItem
             /\ \A i \in 1 .. j - 1 : new[i].kind = "frame" => new[i].n < new[j].n
  <2>1. CASE j \in 1 .. Len(buf)
    <3>1. new[j] = buf[j] /\ \A i \in 1 .. j - 1 : new[i] = buf[i]
      BY <1>2, <2>1
    <3>2. buf[j].kind = "frame" /\ j \in DOMAIN buf
      BY <1>2, <1>6, <2>1, <3>1
    <3> QED BY <1>3, <3>1, <3>2 DEF WellFed
  <2>2. CASE j = Len(buf) + 1
    <3>1. new[j] = item /\ 1 .. j - 1 = DOMAIN buf /\ \A i \in 1 .. j - 1 : new[i] = buf[i]
      BY <1>2, <2>2
    <3>2. g.last < k
      <4>1. g.last <= m /\ g.last \in Int
        BY DEF WellFed
      <4> QED BY <4>1
    <3>3. ASSUME NEW i \in DOMAIN buf, buf[i].kind = "frame"
          PROVE  buf[i].n < k
      <4>1. buf[i].n <= m
        BY <3>3 DEF WellFed
      <4>2. buf[i] \in Item
        BY <1>2, <3>3
      <4>3. buf[i].n \in Int
        BY <4>2 DEF Item
      <4> QED BY <4>1, <4>3
    <3>4. \A i \in 1 .. j - 1 : new[i].kind = "frame" => new[i].n < new[j].n
      BY <1>1, <3>1, <3>3
    <3>5. g.header \/ \E i \in 1 .. j - 1 : new[i] = HeaderItem
      BY <1>4, <3>1
    <3>6. g.last < new[j].n /\ new[j].n <= k
      BY <1>1, <3>1, <3>2
    <3> QED BY <3>4, <3>5, <3>6
  <2> QED BY <1>2, <2>1, <2>2
<1>7. g.last <= k
  BY <1>3 DEF WellFed
<1>8. WellFed(f, new, g, k)
  BY <1>5, <1>6, <1>7 DEF WellFed
<1> QED BY <1>8 DEF new, item

(* The first n items arrive. *)
LEMMA FedDelivered ==
    ASSUME NEW f, NEW buf \in Seq(Item), NEW g \in [header : BOOLEAN, last : 0 .. MaxFrames],
           NEW m \in Int, NEW n \in 1 .. Len(buf), WellFed(f, buf, g, m)
    PROVE  WellFed(f, SubSeq(buf, n + 1, Len(buf)), After(g, SubSeq(buf, 1, n)), m)
<1> DEFINE first == SubSeq(buf, 1, n)
           later == SubSeq(buf, n + 1, Len(buf))
           new == After(g, first)
<1>1. /\ first \in Seq(Item) /\ DOMAIN first = 1 .. n /\ \A i \in 1 .. n : first[i] = buf[i]
      /\ later \in Seq(Item) /\ DOMAIN later = 1 .. Len(buf) - n
      /\ \A i \in 1 .. Len(buf) - n : later[i] = buf[n + i]
      /\ DOMAIN buf = 1 .. Len(buf) /\ Len(buf) \in Nat /\ n \in Nat
  OBVIOUS
<1> HIDE DEF first, later
<1>2. /\ new \in [header : BOOLEAN, last : 0 .. MaxFrames]
      /\ new.header <=> g.header \/ \E i \in DOMAIN first : first[i] = HeaderItem
      /\ \/ new.last = g.last /\ \A i \in DOMAIN first : first[i].kind # "frame"
         \/ \E i \in DOMAIN first : first[i].kind = "frame" /\ new.last = first[i].n
  BY <1>1, AfterFacts
<1> HIDE DEF new
<1>3. \A i \in 1 .. n : i \in DOMAIN buf
  BY <1>1
<1>4. \A i \in 1 .. Len(buf) - n : n + i \in DOMAIN buf /\ n + i > n
  BY <1>1
<1>5. ASSUME NEW i \in DOMAIN buf, buf[i] = HeaderItem, ~new.header
      PROVE  i - n \in DOMAIN later /\ later[i - n] = HeaderItem
  <2>1. i \notin 1 .. n
    BY <1>1, <1>2, <1>5
  <2>2. i - n \in 1 .. Len(buf) - n /\ n + (i - n) = i
    BY <1>1, <2>1
  <2> QED BY <1>1, <1>5, <2>2
<1>6. "USER_6" \in f => new.header \/ \E i \in DOMAIN later : later[i] = HeaderItem
  <2> SUFFICES ASSUME "USER_6" \in f, ~new.header
               PROVE  \E i \in DOMAIN later : later[i] = HeaderItem
    OBVIOUS
  <2>1. PICK i \in DOMAIN buf : buf[i] = HeaderItem
    BY <1>2 DEF WellFed
  <2> QED BY <1>5, <2>1
<1>7. new.last <= m
  <2>1. CASE new.last = g.last
    BY <2>1 DEF WellFed
  <2>2. CASE \E i \in DOMAIN first : first[i].kind = "frame" /\ new.last = first[i].n
    <3>1. PICK i \in 1 .. n : buf[i].kind = "frame" /\ new.last = buf[i].n
      BY <1>1, <2>2
    <3> QED BY <1>3, <3>1 DEF WellFed
  <2> QED BY <1>2, <2>1, <2>2
<1>8. ASSUME NEW j \in DOMAIN later, later[j].kind = "frame"
      PROVE  /\ new.last < later[j].n /\ later[j].n <= m
             /\ new.header \/ \E i \in 1 .. j - 1 : later[i] = HeaderItem
             /\ \A i \in 1 .. j - 1 : later[i].kind = "frame" => later[i].n < later[j].n
  <2>1. later[j] = buf[n + j] /\ n + j \in DOMAIN buf /\ j \in 1 .. Len(buf) - n
    BY <1>1, <1>4
  <2>2. buf[n + j].kind = "frame"
    BY <1>8, <2>1
  <2>3. /\ g.last < buf[n + j].n /\ buf[n + j].n <= m
        /\ g.header \/ \E i \in 1 .. (n + j) - 1 : buf[i] = HeaderItem
        /\ \A i \in 1 .. (n + j) - 1 : buf[i].kind = "frame" => buf[i].n < buf[n + j].n
    BY <2>1, <2>2 DEF WellFed
  <2>4. new.last < buf[n + j].n
    <3>1. CASE new.last = g.last
      BY <2>3, <3>1
    <3>2. CASE \E i \in DOMAIN first : first[i].kind = "frame" /\ new.last = first[i].n
      <4>1. PICK i \in 1 .. n : buf[i].kind = "frame" /\ new.last = buf[i].n
        BY <1>1, <3>2
      <4>2. i \in 1 .. (n + j) - 1
        BY <1>1, <2>1
      <4> QED BY <2>3, <4>1, <4>2
    <3> QED BY <1>2, <3>1, <3>2
  <2>5. new.header \/ \E i \in 1 .. j - 1 : later[i] = HeaderItem
    <3> SUFFICES ASSUME ~new.header
                 PROVE  \E i \in 1 .. j - 1 : later[i] = HeaderItem
      OBVIOUS
    <3>1. PICK i \in 1 .. (n + j) - 1 : buf[i] = HeaderItem
      BY <1>2, <2>3
    <3>2. i \in DOMAIN buf
      BY <1>1, <2>1
    <3>3. i - n \in DOMAIN later /\ later[i - n] = HeaderItem
      BY <1>5, <3>1, <3>2
    <3>4. i - n \in 1 .. j - 1
      BY <1>1, <2>1, <3>3
    <3> QED BY <3>3, <3>4
  <2>6. ASSUME NEW i \in 1 .. j - 1, later[i].kind = "frame"
        PROVE  later[i].n < later[j].n
    <3>1. n \in Nat /\ j \in Nat /\ i \in 1 .. Len(buf) - n
      BY <1>1, <2>1
    <3>2. n + i \in 1 .. (n + j) - 1
      BY <3>1
    <3>3. later[i] = buf[n + i]
      BY <1>1, <3>1
    <3> QED BY <2>1, <2>3, <2>6, <3>2, <3>3
  <2> QED BY <2>1, <2>3, <2>4, <2>5, <2>6
<1>9. WellFed(f, later, new, m)
  BY <1>6, <1>7, <1>8 DEF WellFed
<1> QED BY <1>9 DEF later, new, first

LEMMA FedInit == Init => Fed
<1> SUFFICES ASSUME Init
             PROVE  Fed
  OBVIOUS
<1>1. Newest = 0
  BY DEF Init, Newest
<1>2. \A c \in Conns : flags[c] = {} /\ sendBuf[c] = <<>> /\ got[c] = None
  BY DEF Init
<1> QED BY <1>1, <1>2, FedEmpty DEF Fed

LEMMA FedStep == ServerInv /\ Fed /\ [Next]_vars => Fed'
<1> SUFFICES ASSUME ServerInv, Fed, [Next]_vars
             PROVE  Fed'
  OBVIOUS
<1>1. TypeOK /\ Tidy
  BY DEF ServerInv
<1>2. /\ \A c \in Conns : sendBuf[c] \in Seq(Item)
      /\ \A c \in Conns : got[c] \in [header : BOOLEAN, last : 0 .. MaxFrames]
      /\ frame \in 0 .. MaxFrames /\ Newest \in Int
  BY <1>1 DEF TypeOK, Newest
<1>3. \A c \in Conns : WellFed(flags[c], sendBuf[c], got[c], Newest)
  BY DEF Fed
<1>4. CASE UNCHANGED <<flags, sendBuf, got, frame, pending>>
  BY <1>4 DEF Fed, Newest
<1>5. CASE Cast
  <2>1. /\ pending' = FALSE /\ frame' = frame /\ flags' = flags /\ got' = got /\ pending
        /\ sendBuf' = [c \in Conns |-> IF c \in open /\ "USER_6" \in flags[c]
                                       THEN Append(sendBuf[c], FrameItem(frame)) ELSE sendBuf[c]]
    BY <1>1, <1>5 DEF Cast, Tidy, clientVars
  <2>2. Newest' = frame /\ Newest = frame - 1
    BY <2>1 DEF Newest
  <2>3. ASSUME NEW c \in Conns
        PROVE  WellFed(flags'[c], sendBuf'[c], got'[c], Newest')
    <3>1. CASE c \in open /\ "USER_6" \in flags[c]
      <4>1. sendBuf'[c] = Append(sendBuf[c], FrameItem(frame))
        BY <2>1, <3>1
      <4>2. WellFed(flags[c], Append(sendBuf[c], FrameItem(frame)), got[c], frame)
        BY <1>2, <1>3, <2>2, <3>1, FedFrame
      <4> QED BY <2>1, <2>2, <4>1, <4>2
    <3>2. CASE ~(c \in open /\ "USER_6" \in flags[c])
      <4>1. sendBuf'[c] = sendBuf[c]
        BY <2>1, <3>2
      <4>2. WellFed(flags[c], sendBuf[c], got[c], frame)
        BY <1>2, <1>3, <2>2, FedLater
      <4> QED BY <2>1, <2>2, <4>1, <4>2
    <3> QED BY <3>1, <3>2
  <2> QED BY <2>3 DEF Fed
<1>6. CASE Publish
  <2>1. frame' = frame + 1 /\ pending' = TRUE /\ pending = FALSE
        /\ UNCHANGED <<flags, sendBuf, got>>
    BY <1>1, <1>6, TypeParts DEF Publish, connVars, clientVars
  <2>2. Newest' = Newest
    BY <1>2, <2>1 DEF Newest
  <2> QED BY <2>1, <2>2 DEF Fed
<1>7. ASSUME NEW c \in Conns, Read(c)
      PROVE  Fed'
  <2>1. PICK f \in SUBSET Flag, items \in Seq(Item) :
          /\ flags' = [flags EXCEPT ![c] = @ \union f]
          /\ \/ /\ "USER_6" \in f /\ items = Append(sendBuf[c], HeaderItem)
                /\ Count(flags[c])
             \/ /\ "USER_6" \notin f /\ items \in {sendBuf[c], Append(sendBuf[c], PageItem)}
                /\ UNCHANGED ledVars
          /\ sendBuf' = [sendBuf EXCEPT ![c] = items]
    BY <1>1, <1>7, ReadFacts
  <2>2. got' = got /\ Newest' = Newest
    BY <1>1, <1>7, ReadFacts DEF Newest
  <2>3. /\ flags'[c] = flags[c] \union f /\ sendBuf'[c] = items
        /\ \A d \in Conns \ {c} : flags'[d] = flags[d] /\ sendBuf'[d] = sendBuf[d]
    BY <1>1, <2>1 DEF TypeOK
  <2>4. WellFed(flags[c] \union f, items, got[c], Newest)
    <3>1. HeaderItem \in Item /\ HeaderItem.kind # "frame" /\ PageItem \in Item /\ PageItem.kind # "frame"
      BY BoundsAssumption DEF HeaderItem, PageItem, Item
    <3>2. CASE "USER_6" \in f /\ items = Append(sendBuf[c], HeaderItem)
      BY <1>2, <1>3, <3>1, <3>2, FedOther
    <3>3. CASE "USER_6" \notin f /\ items = Append(sendBuf[c], PageItem)
      <4>1. "USER_6" \in flags[c] \union f => "USER_6" \in flags[c]
        BY <3>3
      <4> QED BY <1>2, <1>3, <3>1, <3>3, <4>1, FedOther
    <3>4. CASE "USER_6" \notin f /\ items = sendBuf[c]
      <4>1. "USER_6" \in flags[c] \union f => "USER_6" \in flags[c]
        BY <3>4
      <4> QED BY <1>3, <3>4, <4>1 DEF WellFed
    <3> QED BY <2>1, <3>2, <3>3, <3>4
  <2> QED BY <1>3, <2>2, <2>3, <2>4 DEF Fed
<1>8. ASSUME NEW c \in Conns, Write(c)
      PROVE  Fed'
  <2>1. Newest' = Newest
    BY <1>1, <1>8, WriteFacts DEF Newest
  <2>2. CASE \E f \in SUBSET Flag :
               /\ flags' = [flags EXCEPT ![c] = @ \union f] /\ "USER_6" \notin f
               /\ UNCHANGED <<sendBuf, got>>
    <3>1. \A d \in Conns : "USER_6" \in flags'[d] => "USER_6" \in flags[d]
      BY <1>1, <2>2 DEF TypeOK
    <3> QED BY <1>3, <2>1, <2>2, <3>1 DEF Fed, WellFed
  <2>3. CASE \E n \in 1 .. Len(sendBuf[c]) :
               /\ got' = [got EXCEPT ![c] = After(got[c], SubSeq(sendBuf[c], 1, n))]
               /\ sendBuf' = [sendBuf EXCEPT ![c] = SubSeq(sendBuf[c], n + 1, Len(sendBuf[c]))]
               /\ UNCHANGED flags
    <3>1. PICK n \in 1 .. Len(sendBuf[c]) :
            /\ got' = [got EXCEPT ![c] = After(got[c], SubSeq(sendBuf[c], 1, n))]
            /\ sendBuf' = [sendBuf EXCEPT ![c] = SubSeq(sendBuf[c], n + 1, Len(sendBuf[c]))]
      BY <2>3
    <3>2. /\ got'[c] = After(got[c], SubSeq(sendBuf[c], 1, n))
          /\ sendBuf'[c] = SubSeq(sendBuf[c], n + 1, Len(sendBuf[c]))
          /\ \A d \in Conns \ {c} : got'[d] = got[d] /\ sendBuf'[d] = sendBuf[d]
      BY <1>1, <3>1 DEF TypeOK
    <3>3. WellFed(flags[c], SubSeq(sendBuf[c], n + 1, Len(sendBuf[c])),
                  After(got[c], SubSeq(sendBuf[c], 1, n)), Newest)
      BY <1>2, <1>3, FedDelivered
    <3> QED BY <1>3, <2>1, <2>3, <3>2, <3>3 DEF Fed
  <2> QED BY <1>1, <1>8, <2>2, <2>3, WriteFacts
<1>9. ASSUME NEW c \in Conns, Close(c)
      PROVE  Fed'
  <2>1. /\ flags' = [flags EXCEPT ![c] = {}] /\ sendBuf' = [sendBuf EXCEPT ![c] = <<>>]
        /\ got' = [got EXCEPT ![c] = None] /\ UNCHANGED <<frame, pending>>
    BY <1>9 DEF Close
  <2>2. Newest' = Newest /\ Newest \in Nat
    <3>1. Newest' = Newest
      BY <2>1 DEF Newest
    <3>2. got[c].last <= Newest /\ got[c].last \in Nat
      BY <1>2, <1>3 DEF WellFed
    <3> QED BY <1>2, <3>1, <3>2
  <2>3. /\ flags'[c] = {} /\ sendBuf'[c] = <<>> /\ got'[c] = None
        /\ \A d \in Conns \ {c} : flags'[d] = flags[d] /\ sendBuf'[d] = sendBuf[d] /\ got'[d] = got[d]
    BY <1>1, <2>1 DEF TypeOK
  <2> QED BY <1>3, <2>2, <2>3, FedEmpty DEF Fed
<1>10. CASE \/ Select \/ EndHandle \/ EndSweep \/ UNCHANGED vars
            \/ \E c \in Conns : Accept(c) \/ Connect(c) \/ Leave(c) \/ \E r \in Request : Ask(c, r)
  <2>1. UNCHANGED <<flags, sendBuf, got, frame, pending>>
    BY <1>10 DEF Select, EndHandle, EndSweep, Accept, Connect, Leave, Ask, vars, connVars, clientVars
  <2> QED BY <1>4, <2>1
<1> QED BY <1>5, <1>6, <1>7, <1>8, <1>9, <1>10 DEF Next, Poll

-----------------------------------------------------------------------------
(* webserver.c: every variable keeps its type; in particular what select   *)
(* found readable or writable is still a connection when it is handled,    *)
(* since connections are closed only in the sweep.                         *)
THEOREM WebTypes == Spec => []TypeOK
<1>1. ServerInv => TypeOK
  BY DEF ServerInv
<1> QED BY <1>1, ServerInvInit, CountedInit, ServerInvStep, PTL DEF Spec

(* ev_handler: whatever the order of requests, repeated requests, requests *)
(* that run only when the connection closes, and closes, _cam_conns is the *)
(* number of clients with the feed plus the repeats, and the LED is on     *)
(* while any client has it.                                                *)
THEOREM WebCount == Spec => []CountExplained
<1>1. Counted => CountExplained
  BY DEF Counted
<1> QED BY <1>1, ServerInvInit, CountedInit, ServerInvStep, PTL DEF Spec

(* cam_feed_handler: a frame waits only behind the header of the multipart *)
(* response, and the frames of a client go up, for every number of clients *)
(* and of frames and however the socket takes them.                        *)
THEOREM WebFeed == Spec => []FeedWellFormed
<1>1. ServerInv /\ Fed => FeedWellFormed
  <2> SUFFICES ASSUME ServerInv, Fed, NEW c \in open, NEW j \in DOMAIN sendBuf[c],
                      sendBuf[c][j].kind = "frame"
               PROVE  /\ got[c].header \/ \E i \in 1 .. j - 1 : sendBuf[c][i] = HeaderItem
                      /\ got[c].last < sendBuf[c][j].n
                      /\ \A i \in 1 .. j - 1 : sendBuf[c][i].kind = "frame" =>
                            sendBuf[c][i].n < sendBuf[c][j].n
    BY DEF FeedWellFormed
  <2>1. WellFed(flags[c], sendBuf[c], got[c], Newest)
    BY DEF Fed, ServerInv, TypeOK
  <2> QED BY <2>1 DEF WellFed
<1> QED BY <1>1, ServerInvInit, CountedInit, FedInit, ServerInvStep, FedStep, PTL DEF Spec

-----------------------------------------------------------------------------
(* From the URI of a request to a file                                     *)

(* What stands between two slashes. *)
Component == Seq(Characters \ {"/"})

LEMMA SlashIsACharacter == "/" \in Characters /\ <<"/">> \in Seq(Characters)
BY DEF Characters

LEMMA ComponentFacts ==
    /\ Component \subseteq Seq(Characters)
    /\ Components \subseteq Component
    /\ <<>> \in Component
<1>1. Component \subseteq Seq(Characters)
  BY SeqMonotonic DEF Component
<1>2. <<>> \in Component
  BY DEF Component
<1> QED BY <1>1, <1>2, ComponentsAssumption DEF Component

LEMMA ComponentHasNoSlash ==
    ASSUME NEW c \in Component, NEW i \in 1..Len(c)
    PROVE  c[i] # "/"
BY DEF Component

-----------------------------------------------------------------------------
(* What the three recursions of UriPath compute, one component at a time.  *)

LEMMA SlashThen ==
    ASSUME NEW c \in Seq(Characters)
    PROVE  /\ <<"/">> \o c \in Seq(Characters) /\ Len(<<"/">> \o c) = 1 + Len(c)
           /\ (<<"/">> \o c)[1] = "/"
           /\ \A i \in 1..Len(c) : (<<"/">> \o c)[1 + i] = c[i]
<1> DEFINE p == <<"/">>
<1>1. p \in Seq(Characters) /\ Len(p) = 1 /\ p[1] = "/"
  BY SlashIsACharacter
<1> HIDE DEF p
<1>2. /\ p \o c \in Seq(Characters) /\ Len(p \o c) = Len(p) + Len(c)
      /\ \A i \in 1..Len(p) + Len(c) : (p \o c)[i] = IF i <= Len(p) THEN p[i] ELSE c[i - Len(p)]
  BY <1>1, ConcatProperties
<1>3. Len(c) \in Nat
  OBVIOUS
<1>4. (p \o c)[1] = "/"
  BY <1>1, <1>2, <1>3
<1>5. ASSUME NEW i \in 1..Len(c) PROVE (p \o c)[1 + i] = c[i]
  <2>1. 1 + i \in 1..1 + Len(c) /\ ~(1 + i <= 1) /\ (1 + i) - 1 = i
    BY <1>3
  <2> QED BY <1>1, <1>2, <2>1
<1> QED BY <1>1, <1>2, <1>4, <1>5 DEF p

LEMMA Regroup ==
    ASSUME NEW x \in Seq(Characters), NEW y \in Seq(Characters), NEW z \in Seq(Characters)
    PROVE  (x \o y) \o z = x \o (y \o z)
BY ConcatAssociative

LEMMA WithTextType ==
    ASSUME NEW q \in Seq(Characters), NEW c \in Seq(Characters)
    PROVE  WithText(q, c) \in Seq(Characters)
BY SlashThen DEF WithText

TextSteps(s) == [i \in 1..Len(s) |-> [q \in Seq(Characters) |-> WithText(q, s[i])]]

LEMMA TextRecurs ==
    ASSUME NEW s \in Seq(Seq(Characters))
    PROVE  \E f : Recurs(f, Seq(Characters), <<>>, Len(s), TextSteps(s)) /\ Text(s) = f[Len(s)]
<1> DEFINE n == Len(s)
           S == Seq(Characters)
           Fits(f) == f = [i \in 0..n |-> IF i = 0 THEN <<>> ELSE WithText(f[i - 1], s[i])]
           h == CHOOSE f : Fits(f)
           g == TextSteps(s)
<1>1. n \in Nat /\ \A i \in 1..n : s[i] \in Seq(Characters)
  OBVIOUS
<1>2. \A i \in 1..n : \A q \in S : WithText(q, s[i]) \in S
  BY <1>1, WithTextType
<1>3. g \in [1..n -> [S -> S]]
  BY <1>2 DEF TextSteps
<1>4. \A i \in 1..n : \A q \in S : g[i][q] = WithText(q, s[i])
  BY DEF TextSteps
<1>5. <<>> \in S
  OBVIOUS
<1> HIDE DEF g, n, S
<1>6. PICK f : Recurs(f, S, <<>>, n, g)
  BY <1>1, <1>3, <1>5, Recursion
<1>7. \A i \in 0..n : f[i] = IF i = 0 THEN <<>> ELSE WithText(f[i - 1], s[i])
  <2> SUFFICES ASSUME NEW i \in 0..n, i # 0
               PROVE  f[i] = WithText(f[i - 1], s[i])
    BY <1>6 DEF Recurs
  <2>1. i \in 1..n /\ i - 1 \in 0..n
    BY <1>1
  <2>2. f[i - 1] \in S /\ f[i] = g[i][f[i - 1]]
    BY <1>6, <2>1 DEF Recurs
  <2> QED BY <1>4, <2>1, <2>2
<1>8. Fits(f)
  <2>1. f = [i \in 0..n |-> f[i]]
    BY <1>6 DEF Recurs
  <2> QED BY <1>7, <2>1
<1>9. Fits(h)
  BY <1>8
<1>10. Text(s) = h[n]
  BY DEF Text, n
<1> HIDE DEF h
<1>11. \A i \in 0..n : h[i] = IF i = 0 THEN <<>> ELSE WithText(h[i - 1], s[i])
  BY <1>9
<1>12. Recurs(h, S, <<>>, n, g)
  <2>1. h = [i \in 0..n |-> h[i]]
    BY <1>9, <1>11
  <2>2. \A i \in 1..n : h[i - 1] \in S => h[i] = g[i][h[i - 1]]
    <3> SUFFICES ASSUME NEW i \in 1..n, h[i - 1] \in S PROVE h[i] = g[i][h[i - 1]]
      OBVIOUS
    <3>1. i \in 0..n /\ i # 0
      BY <1>1
    <3> QED BY <1>4, <1>11, <3>1
  <2>3. h[0] = <<>>
    BY <1>1, <1>11
  <2> QED BY <1>1, <1>3, <1>5, <2>1, <2>2, <2>3, FollowsRecursion
<1> QED BY <1>10, <1>12 DEF n, g, S

LEMMA TextType ==
    ASSUME NEW s \in Seq(Seq(Characters))
    PROVE  Text(s) \in Seq(Characters)
<1>1. PICK f : Recurs(f, Seq(Characters), <<>>, Len(s), TextSteps(s)) /\ Text(s) = f[Len(s)]
  BY TextRecurs
<1>2. Len(s) \in 0..Len(s)
  OBVIOUS
<1> QED BY <1>1, <1>2 DEF Recurs

LEMMA TextOfNothing == Text(<<>>) = <<>>
<1>1. <<>> \in Seq(Seq(Characters)) /\ Len(<<>>) = 0
  OBVIOUS
<1>2. PICK f : Recurs(f, Seq(Characters), <<>>, 0, TextSteps(<<>>)) /\ Text(<<>>) = f[0]
  BY <1>1, TextRecurs
<1> QED BY <1>2 DEF Recurs

LEMMA TextAppend ==
    ASSUME NEW s \in Seq(Seq(Characters)), NEW c \in Seq(Characters)
    PROVE  Text(Append(s, c)) = WithText(Text(s), c)
<1> DEFINE n == Len(s)
           m == n + 1
           t == Append(s, c)
           S == Seq(Characters)
           e == <<>>
           g == TextSteps(s)
           k == TextSteps(t)
<1>1. n \in Nat /\ t \in Seq(Seq(Characters)) /\ Len(t) = m /\ t[m] = c /\ \A i \in 1..n : t[i] = s[i]
  OBVIOUS
<1>2. PICK f : Recurs(f, S, e, n, g) /\ Text(s) = f[n]
  BY TextRecurs
<1>3. m \in 1..m /\ \A i \in 1..n : i \in 1..m
  BY <1>1
<1>4. e \in S /\ m = n + 1
  OBVIOUS
<1> HIDE DEF t, n, m
<1>5. PICK h : Recurs(h, S, e, m, k) /\ Text(t) = h[m]
  <2>1. \E h : Recurs(h, S, e, Len(t), k) /\ Text(t) = h[Len(t)]
    BY <1>1, TextRecurs
  <2> QED BY <1>1, <2>1
<1>6. Agree(g, k, n)
  BY <1>1, <1>3 DEF TextSteps, n, Agree
<1>7. k[m] = [q \in S |-> WithText(q, c)]
  BY <1>1, <1>3 DEF TextSteps
<1>8. Text(s) \in S
  BY TextType
<1>9. h[n] = f[n] /\ h[m] = k[m][f[n]]
  <2> HIDE DEF S, e, g, k
  <2> QED BY <1>1, <1>2, <1>4, <1>5, <1>6, OneStepMore
<1> QED BY <1>2, <1>5, <1>7, <1>8, <1>9 DEF t

LEMMA ButLastType ==
    ASSUME NEW S, NEW q \in Seq(S)
    PROVE  ButLast(q) \in Seq(S)
BY DEF ButLast

LEMMA WithComponentType ==
    ASSUME NEW q \in Seq(Component), NEW c \in Component
    PROVE  WithComponent(q, c) \in Seq(Component)
<1> HIDE DEF Component
<1>1. ButLast(q) \in Seq(Component) /\ Append(q, c) \in Seq(Component)
  BY ButLastType
<1> QED BY <1>1 DEF WithComponent

KeptSteps(s) == [i \in 1..Len(s) |-> [q \in Seq(Component) |-> WithComponent(q, s[i])]]

LEMMA KeptRecurs ==
    ASSUME NEW s \in Seq(Component)
    PROVE  \E f : Recurs(f, Seq(Component), <<>>, Len(s), KeptSteps(s)) /\ Kept(s) = f[Len(s)]
<1> DEFINE n == Len(s)
           S == Seq(Component)
           Fits(f) == f = [i \in 0..n |-> IF i = 0 THEN <<>> ELSE WithComponent(f[i - 1], s[i])]
           h == CHOOSE f : Fits(f)
           g == KeptSteps(s)
<1>1. n \in Nat /\ \A i \in 1..n : s[i] \in Component
  OBVIOUS
<1>2. \A i \in 1..n : \A q \in S : WithComponent(q, s[i]) \in S
  BY <1>1, WithComponentType
<1>3. g \in [1..n -> [S -> S]]
  BY <1>2 DEF KeptSteps
<1>4. \A i \in 1..n : \A q \in S : g[i][q] = WithComponent(q, s[i])
  BY DEF KeptSteps
<1>5. <<>> \in S
  OBVIOUS
<1> HIDE DEF g, n, S
<1>6. PICK f : Recurs(f, S, <<>>, n, g)
  BY <1>1, <1>3, <1>5, Recursion
<1>7. \A i \in 0..n : f[i] = IF i = 0 THEN <<>> ELSE WithComponent(f[i - 1], s[i])
  <2> SUFFICES ASSUME NEW i \in 0..n, i # 0
               PROVE  f[i] = WithComponent(f[i - 1], s[i])
    BY <1>6 DEF Recurs
  <2>1. i \in 1..n /\ i - 1 \in 0..n
    BY <1>1
  <2>2. f[i - 1] \in S /\ f[i] = g[i][f[i - 1]]
    BY <1>6, <2>1 DEF Recurs
  <2> QED BY <1>4, <2>1, <2>2
<1>8. Fits(f)
  <2>1. f = [i \in 0..n |-> f[i]]
    BY <1>6 DEF Recurs
  <2> QED BY <1>7, <2>1
<1>9. Fits(h)
  BY <1>8
<1>10. Kept(s) = h[n]
  BY DEF Kept, n
<1> HIDE DEF h
<1>11. \A i \in 0..n : h[i] = IF i = 0 THEN <<>> ELSE WithComponent(h[i - 1], s[i])
  BY <1>9
<1>12. Recurs(h, S, <<>>, n, g)
  <2>1. h = [i \in 0..n |-> h[i]]
    BY <1>9, <1>11
  <2>2. \A i \in 1..n : h[i - 1] \in S => h[i] = g[i][h[i - 1]]
    <3> SUFFICES ASSUME NEW i \in 1..n, h[i - 1] \in S PROVE h[i] = g[i][h[i - 1]]
      OBVIOUS
    <3>1. i \in 0..n /\ i # 0
      BY <1>1
    <3> QED BY <1>4, <1>11, <3>1
  <2>3. h[0] = <<>>
    BY <1>1, <1>11
  <2> QED BY <1>1, <1>3, <1>5, <2>1, <2>2, <2>3, FollowsRecursion
<1> QED BY <1>10, <1>12 DEF n, g, S

LEMMA KeptType ==
    ASSUME NEW s \in Seq(Component)
    PROVE  Kept(s) \in Seq(Component)
<1>1. PICK f : Recurs(f, Seq(Component), <<>>, Len(s), KeptSteps(s)) /\ Kept(s) = f[Len(s)]
  BY KeptRecurs
<1>2. Len(s) \in 0..Len(s)
  OBVIOUS
<1> QED BY <1>1, <1>2 DEF Recurs

LEMMA KeptOfNothing == Kept(<<>>) = <<>>
<1>1. <<>> \in Seq(Component) /\ Len(<<>>) = 0
  OBVIOUS
<1>2. PICK f : Recurs(f, Seq(Component), <<>>, 0, KeptSteps(<<>>)) /\ Kept(<<>>) = f[0]
  BY <1>1, KeptRecurs
<1> QED BY <1>2 DEF Recurs

LEMMA KeptAppend ==
    ASSUME NEW s \in Seq(Component), NEW c \in Component
    PROVE  Kept(Append(s, c)) = WithComponent(Kept(s), c)
<1> DEFINE n == Len(s)
           m == n + 1
           t == Append(s, c)
           S == Seq(Component)
           e == <<>>
           g == KeptSteps(s)
           k == KeptSteps(t)
<1>1. n \in Nat /\ t \in Seq(Component) /\ Len(t) = m /\ t[m] = c /\ \A i \in 1..n : t[i] = s[i]
  OBVIOUS
<1>2. PICK f : Recurs(f, S, e, n, g) /\ Kept(s) = f[n]
  BY KeptRecurs
<1>3. m \in 1..m /\ \A i \in 1..n : i \in 1..m
  BY <1>1
<1>4. e \in S /\ m = n + 1
  OBVIOUS
<1> HIDE DEF t, n, m
<1>5. PICK h : Recurs(h, S, e, m, k) /\ Kept(t) = h[m]
  <2>1. \E h : Recurs(h, S, e, Len(t), k) /\ Kept(t) = h[Len(t)]
    BY <1>1, KeptRecurs
  <2> QED BY <1>1, <2>1
<1>6. Agree(g, k, n)
  BY <1>1, <1>3 DEF KeptSteps, n, Agree
<1>7. k[m] = [q \in S |-> WithComponent(q, c)]
  BY <1>1, <1>3 DEF KeptSteps
<1>8. Kept(s) \in S
  BY KeptType
<1>9. h[n] = f[n] /\ h[m] = k[m][f[n]]
  <2> HIDE DEF S, e, g, k
  <2> QED BY <1>1, <1>2, <1>4, <1>5, <1>6, OneStepMore
<1> QED BY <1>2, <1>5, <1>7, <1>8, <1>9 DEF t

LEMMA DecodeType ==
    ASSUME NEW c \in Seq(Characters)
    PROVE  Decode(c) \in Seq(Characters)
<1>1. \A x \in DOMAIN Encoded : Encoded[x] \in Characters
  BY DEF Encoded, Characters
<1>2. \A i \in 1..Len(c) : c[i] \in Characters
  OBVIOUS
<1>3. DOMAIN c = 1..Len(c)
  OBVIOUS
<1> DEFINE d == [i \in 1..Len(c) |-> IF c[i] \in DOMAIN Encoded THEN Encoded[c[i]] ELSE c[i]]
<1>4. d \in [1..Len(c) -> Characters]
  BY <1>1, <1>2
<1>5. d \in Seq(Characters)
  BY <1>4, SeqDef
<1> QED BY <1>3, <1>5 DEF Decode

LEMMA WithNameType ==
    ASSUME NEW q \in Seq(Seq(Characters)), NEW c \in Seq(Characters)
    PROVE  WithName(q, c) \in Seq(Seq(Characters))
<1> DEFINE S == Seq(Characters)
<1>1. Decode(c) \in S
  BY DecodeType
<1> HIDE DEF S
<1>2. ButLast(q) \in Seq(S) /\ Append(q, Decode(c)) \in Seq(S)
  BY <1>1, ButLastType DEF S
<1> QED BY <1>2 DEF WithName, S

NamesSteps(s) == [i \in 1..Len(s) |-> [q \in Seq(Seq(Characters)) |-> WithName(q, s[i])]]

LEMMA NamesRecurs ==
    ASSUME NEW s \in Seq(Seq(Characters))
    PROVE  \E f : Recurs(f, Seq(Seq(Characters)), <<>>, Len(s), NamesSteps(s)) /\ Names(s) = f[Len(s)]
<1> DEFINE n == Len(s)
           S == Seq(Seq(Characters))
           Fits(f) == f = [i \in 0..n |-> IF i = 0 THEN <<>> ELSE WithName(f[i - 1], s[i])]
           h == CHOOSE f : Fits(f)
           g == NamesSteps(s)
<1>1. n \in Nat /\ \A i \in 1..n : s[i] \in Seq(Characters)
  OBVIOUS
<1>2. \A i \in 1..n : \A q \in S : WithName(q, s[i]) \in S
  BY <1>1, WithNameType
<1>3. g \in [1..n -> [S -> S]]
  BY <1>2 DEF NamesSteps
<1>4. \A i \in 1..n : \A q \in S : g[i][q] = WithName(q, s[i])
  BY DEF NamesSteps
<1>5. <<>> \in S
  OBVIOUS
<1> HIDE DEF g, n, S
<1>6. PICK f : Recurs(f, S, <<>>, n, g)
  BY <1>1, <1>3, <1>5, Recursion
<1>7. \A i \in 0..n : f[i] = IF i = 0 THEN <<>> ELSE WithName(f[i - 1], s[i])
  <2> SUFFICES ASSUME NEW i \in 0..n, i # 0
               PROVE  f[i] = WithName(f[i - 1], s[i])
    BY <1>6 DEF Recurs
  <2>1. i \in 1..n /\ i - 1 \in 0..n
    BY <1>1
  <2>2. f[i - 1] \in S /\ f[i] = g[i][f[i - 1]]
    BY <1>6, <2>1 DEF Recurs
  <2> QED BY <1>4, <2>1, <2>2
<1>8. Fits(f)
  <2>1. f = [i \in 0..n |-> f[i]]
    BY <1>6 DEF Recurs
  <2> QED BY <1>7, <2>1
<1>9. Fits(h)
  BY <1>8
<1>10. Names(s) = h[n]
  BY DEF Names, n
<1> HIDE DEF h
<1>11. \A i \in 0..n : h[i] = IF i = 0 THEN <<>> ELSE WithName(h[i - 1], s[i])
  BY <1>9
<1>12. Recurs(h, S, <<>>, n, g)
  <2>1. h = [i \in 0..n |-> h[i]]
    BY <1>9, <1>11
  <2>2. \A i \in 1..n : h[i - 1] \in S => h[i] = g[i][h[i - 1]]
    <3> SUFFICES ASSUME NEW i \in 1..n, h[i - 1] \in S PROVE h[i] = g[i][h[i - 1]]
      OBVIOUS
    <3>1. i \in 0..n /\ i # 0
      BY <1>1
    <3> QED BY <1>4, <1>11, <3>1
  <2>3. h[0] = <<>>
    BY <1>1, <1>11
  <2> QED BY <1>1, <1>3, <1>5, <2>1, <2>2, <2>3, FollowsRecursion
<1> QED BY <1>10, <1>12 DEF n, g, S

LEMMA NamesType ==
    ASSUME NEW s \in Seq(Seq(Characters))
    PROVE  Names(s) \in Seq(Seq(Characters))
<1>1. PICK f : Recurs(f, Seq(Seq(Characters)), <<>>, Len(s), NamesSteps(s)) /\ Names(s) = f[Len(s)]
  BY NamesRecurs
<1>2. Len(s) \in 0..Len(s)
  OBVIOUS
<1> QED BY <1>1, <1>2 DEF Recurs

LEMMA NamesOfNothing == Names(<<>>) = <<>>
<1>1. <<>> \in Seq(Seq(Characters)) /\ Len(<<>>) = 0
  OBVIOUS
<1>2. PICK f : Recurs(f, Seq(Seq(Characters)), <<>>, 0, NamesSteps(<<>>)) /\ Names(<<>>) = f[0]
  BY <1>1, NamesRecurs
<1> QED BY <1>2 DEF Recurs

LEMMA NamesAppend ==
    ASSUME NEW s \in Seq(Seq(Characters)), NEW c \in Seq(Characters)
    PROVE  Names(Append(s, c)) = WithName(Names(s), c)
<1> DEFINE n == Len(s)
           m == n + 1
           t == Append(s, c)
           S == Seq(Seq(Characters))
           e == <<>>
           g == NamesSteps(s)
           k == NamesSteps(t)
<1>1. n \in Nat /\ t \in Seq(Seq(Characters)) /\ Len(t) = m /\ t[m] = c /\ \A i \in 1..n : t[i] = s[i]
  OBVIOUS
<1>2. PICK f : Recurs(f, S, e, n, g) /\ Names(s) = f[n]
  BY NamesRecurs
<1>3. m \in 1..m /\ \A i \in 1..n : i \in 1..m
  BY <1>1
<1>4. e \in S /\ m = n + 1
  OBVIOUS
<1> HIDE DEF t, n, m
<1>5. PICK h : Recurs(h, S, e, m, k) /\ Names(t) = h[m]
  <2>1. \E h : Recurs(h, S, e, Len(t), k) /\ Names(t) = h[Len(t)]
    BY <1>1, NamesRecurs
  <2> QED BY <1>1, <2>1
<1>6. Agree(g, k, n)
  BY <1>1, <1>3 DEF NamesSteps, n, Agree
<1>7. k[m] = [q \in S |-> WithName(q, c)]
  BY <1>1, <1>3 DEF NamesSteps
<1>8. Names(s) \in S
  BY NamesType
<1>9. h[n] = f[n] /\ h[m] = k[m][f[n]]
  <2> HIDE DEF S, e, g, k
  <2> QED BY <1>1, <1>2, <1>4, <1>5, <1>6, OneStepMore
<1> QED BY <1>2, <1>5, <1>7, <1>8, <1>9 DEF t

-----------------------------------------------------------------------------
(* Where the components of a text stand. *)

Upto(s, j) == SubSeq(s, 1, j)
Behind(s, j) == SubSeq(s, j + 1, Len(s))

LEMMA OneMore ==
    ASSUME NEW S, NEW s \in Seq(S), NEW j \in 0..Len(s), NEW k \in 0..Len(s), j <= k
    PROVE  /\ SubSeq(s, j + 1, k) \in Seq(S) /\ Len(SubSeq(s, j + 1, k)) = k - j
           /\ \A i \in 1..k - j : SubSeq(s, j + 1, k)[i] = s[j + i]
           /\ j = k => SubSeq(s, j + 1, k) = <<>>
           /\ k < Len(s) => SubSeq(s, j + 1, k + 1) = Append(SubSeq(s, j + 1, k), s[k + 1])
<1> DEFINE a == SubSeq(s, j + 1, k)
           b == SubSeq(s, j + 1, k + 1)
<1>0. j \in Int /\ k \in Int /\ j + 1 \in Int /\ Len(s) \in Nat
  OBVIOUS
<1>1. \A i \in j + 1..k : s[i] \in S
  BY <1>0
<1>2. a \in Seq(S) /\ Len(a) = k - j /\ \A i \in 1..k - j : a[i] = s[j + i]
  <2>1. /\ a \in Seq(S)
        /\ Len(a) = IF j + 1 <= k THEN k - (j + 1) + 1 ELSE 0
        /\ \A i \in 1..k - (j + 1) + 1 : a[i] = s[(j + 1) + i - 1]
    BY <1>0, <1>1, SubSeqProperties
  <2> QED BY <1>0, <2>1
<1>3. ASSUME k < Len(s)
      PROVE  b = Append(a, s[k + 1])
  <2>1. k + 1 \in 1..Len(s) /\ k + 1 \in Int /\ \A i \in j + 1..k + 1 : s[i] \in S
    BY <1>0, <1>3
  <2>2. /\ b \in Seq(S)
        /\ Len(b) = IF j + 1 <= k + 1 THEN (k + 1) - (j + 1) + 1 ELSE 0
        /\ \A i \in 1..(k + 1) - (j + 1) + 1 : b[i] = s[(j + 1) + i - 1]
    BY <1>0, <2>1, SubSeqProperties
  <2>3. Len(b) = k - j + 1 /\ \A i \in 1..k - j + 1 : b[i] = s[j + i]
    BY <1>0, <2>2
  <2> DEFINE t == Append(a, s[k + 1])
  <2> HIDE DEF a, b
  <2>4. s[k + 1] \in S
    BY <2>1
  <2>5. /\ t \in Seq(S) /\ Len(t) = k - j + 1
        /\ \A i \in 1..k - j : t[i] = a[i]
        /\ t[k - j + 1] = s[k + 1]
    BY SMTT(40), <1>2, <2>4
  <2> HIDE DEF t
  <2>6. ASSUME NEW i \in 1..Len(b) PROVE b[i] = t[i]
    <3>1. i \in 1..k - j \/ i = k - j + 1
      BY <1>0, <2>3
    <3>2. CASE i \in 1..k - j
      BY <1>2, <2>3, <2>5, <3>2
    <3>3. CASE i = k - j + 1
      <4>1. j + i = k + 1
        BY <1>0, <3>3
      <4> QED BY <2>3, <2>5, <3>3, <4>1
    <3> QED BY <3>1, <3>2, <3>3
  <2>7. b = t
    BY <2>2, <2>3, <2>5, <2>6, SeqEqual
  <2> QED BY <2>7 DEF t
<1>4. j = k => a = <<>>
  <2> HIDE DEF a
  <2> QED BY <1>2, EmptySeq
<1> QED BY <1>2, <1>3, <1>4

LEMMA UptoFacts ==
    ASSUME NEW S, NEW s \in Seq(S), NEW j \in 0..Len(s)
    PROVE  /\ Upto(s, j) \in Seq(S) /\ Len(Upto(s, j)) = j
           /\ \A i \in 1..j : Upto(s, j)[i] = s[i]
           /\ j < Len(s) => Upto(s, j + 1) = Append(Upto(s, j), s[j + 1])
           /\ Upto(s, 0) = <<>> /\ Upto(s, Len(s)) = s
<1>1. 0 \in 0..Len(s) /\ 0 <= j /\ 0 + 1 = 1 /\ j - 0 = j /\ 0 <= 0
  OBVIOUS
<1>2. Upto(s, 0) = <<>>
  BY <1>1, OneMore DEF Upto
<1>3. Upto(s, Len(s)) = s
  BY SubSeqFull DEF Upto
<1>4. /\ SubSeq(s, 0 + 1, j) \in Seq(S) /\ Len(SubSeq(s, 0 + 1, j)) = j - 0
      /\ \A i \in 1..j - 0 : SubSeq(s, 0 + 1, j)[i] = s[0 + i]
      /\ j < Len(s) => SubSeq(s, 0 + 1, j + 1) = Append(SubSeq(s, 0 + 1, j), s[j + 1])
  BY <1>1, OneMore
<1>5. \A i \in 1..j : 0 + i = i
  OBVIOUS
<1>6. /\ SubSeq(s, 1, j) \in Seq(S) /\ Len(SubSeq(s, 1, j)) = j
      /\ \A i \in 1..j : SubSeq(s, 1, j)[i] = s[i]
      /\ j < Len(s) => SubSeq(s, 1, j + 1) = Append(SubSeq(s, 1, j), s[j + 1])
  BY <1>1, <1>4, <1>5
<1> QED BY <1>2, <1>3, <1>6 DEF Upto

LEMMA BehindFacts ==
    ASSUME NEW S, NEW s \in Seq(S), NEW j \in 0..Len(s)
    PROVE  /\ Behind(s, j) \in Seq(S) /\ Len(Behind(s, j)) = Len(s) - j
           /\ \A i \in 1..Len(s) - j : Behind(s, j)[i] = s[j + i]
           /\ Behind(s, Len(s)) = <<>>
<1>1. Len(s) \in 0..Len(s) /\ j <= Len(s)
  OBVIOUS
<1> QED BY <1>1, OneMore DEF Behind

LEMMA TextPartsStep ==
    ASSUME NEW s \in Seq(Seq(Characters)), NEW j \in 0..Len(s), NEW k \in 0..Len(s),
           j <= k, k < Len(s),
           Text(Upto(s, k)) = Text(Upto(s, j)) \o Text(SubSeq(s, j + 1, k))
    PROVE  Text(Upto(s, k + 1)) = Text(Upto(s, j)) \o Text(SubSeq(s, j + 1, k + 1))
<1> DEFINE S == Seq(Characters)
           c == s[k + 1]
           b == SubSeq(s, j + 1, k)
           p == Upto(s, k)
<1>1. c \in S
  <2>1. k + 1 \in 1..Len(s)
    OBVIOUS
  <2> QED BY <2>1
<1>2. b \in Seq(S) /\ p \in Seq(S) /\ Upto(s, j) \in Seq(S)
  <2> HIDE DEF S
  <2>1. s \in Seq(S)
    BY DEF S
  <2> QED BY <2>1, OneMore, UptoFacts
<1>3. SubSeq(s, j + 1, k + 1) = Append(b, c)
  BY OneMore
<1>4. Upto(s, k + 1) = Append(p, c)
  BY UptoFacts
<1> DEFINE x == Text(Upto(s, j))
           y == Text(b)
           z == <<"/">> \o c
<1>5. x \in S /\ y \in S /\ z \in S
  BY <1>1, <1>2, TextType, SlashThen
<1>6. Text(p) = x \o y
  OBVIOUS
<1> HIDE DEF c, b, p, x
<1>7. Text(Append(b, c)) = y \o z
  BY <1>1, <1>2, TextAppend DEF WithText
<1>8. Text(Append(p, c)) = Text(p) \o z
  BY <1>1, <1>2, TextAppend DEF WithText
<1> HIDE DEF y, z, S
<1>9. (x \o y) \o z = x \o (y \o z)
  <2>1. x \in Seq(Characters) /\ y \in Seq(Characters) /\ z \in Seq(Characters)
    BY <1>5 DEF S
  <2> QED BY <2>1, Regroup
<1>10. Text(Append(p, c)) = x \o Text(Append(b, c))
  BY <1>6, <1>7, <1>8, <1>9
<1> QED BY <1>3, <1>4, <1>10 DEF x

(* A text is that of its first components and that of the others.          *)
LEMMA TextParts ==
    ASSUME NEW s \in Seq(Seq(Characters)), NEW j \in 0..Len(s)
    PROVE  Text(s) = Text(Upto(s, j)) \o Text(Behind(s, j))
<1> DEFINE a == Text(Upto(s, j))
           n == Len(s) - j
           Split(k) == Text(Upto(s, k)) = a \o Text(SubSeq(s, j + 1, k))
           P == {d \in 0..n : Split(j + d)}
<1>1. n \in Nat /\ Len(s) \in Nat /\ j \in Nat /\ j + 0 = j /\ j + n = Len(s) /\ 0 \in 0..n /\ n \in 0..n
  OBVIOUS
<1>2. a \in Seq(Characters)
  BY UptoFacts, TextType
<1>3. Split(j)
  <2>1. SubSeq(s, j + 1, j) = <<>>
    BY <1>1, OneMore
  <2> HIDE DEF a
  <2>2. a \o <<>> = a
    BY <1>2
  <2> QED BY <2>1, <2>2, TextOfNothing DEF a
<1>4. ASSUME NEW d \in 0..n, d < n, d \in P
      PROVE  d + 1 \in P
  <2>1. j + d \in 0..Len(s) /\ j + d < Len(s) /\ j <= j + d /\ (j + d) + 1 = j + (d + 1) /\ d + 1 \in 0..n
    BY <1>4
  <2>2. ASSUME NEW k, k = j + d
        PROVE  Split(k + 1)
    <3>1. k \in 0..Len(s) /\ k < Len(s) /\ j <= k
      BY <2>1, <2>2
    <3>2. Split(k)
      BY <1>4, <2>2
    <3> QED BY <3>1, <3>2, TextPartsStep
  <2>3. Split((j + d) + 1)
    BY <2>2
  <2> HIDE DEF Split
  <2> QED BY <2>1, <2>3
<1> HIDE DEF Split
<1>5. 0..n \subseteq P
  <2>1. 0 \in P
    BY <1>1, <1>3
  <2> HIDE DEF P
  <2> QED BY <1>1, <2>1, <1>4, CountUp
<1>6. Split(Len(s))
  BY <1>1, <1>5
<1> QED BY <1>6, UptoFacts DEF Behind, Split

LEMMA ConcatFacts ==
    ASSUME NEW x \in Seq(Characters), NEW y \in Seq(Characters)
    PROVE  /\ x \o y \in Seq(Characters) /\ Len(x \o y) = Len(x) + Len(y)
           /\ \A i \in 1..Len(x) : (x \o y)[i] = x[i]
           /\ \A i \in 1..Len(y) : (x \o y)[Len(x) + i] = y[i]
<1>1. Len(x) \in Nat /\ Len(y) \in Nat
  OBVIOUS
<1>2. /\ x \o y \in Seq(Characters) /\ Len(x \o y) = Len(x) + Len(y)
      /\ \A i \in 1..Len(x) + Len(y) : (x \o y)[i] = IF i <= Len(x) THEN x[i] ELSE y[i - Len(x)]
  BY ConcatProperties
<1>3. ASSUME NEW i \in 1..Len(x) PROVE (x \o y)[i] = x[i]
  <2>1. i \in 1..Len(x) + Len(y) /\ i <= Len(x)
    BY <1>1
  <2> QED BY <1>2, <2>1
<1>4. ASSUME NEW i \in 1..Len(y) PROVE (x \o y)[Len(x) + i] = y[i]
  <2>1. Len(x) + i \in 1..Len(x) + Len(y) /\ ~(Len(x) + i <= Len(x)) /\ (Len(x) + i) - Len(x) = i
    BY <1>1
  <2> QED BY <1>2, <2>1
<1> QED BY <1>2, <1>3, <1>4

(* The text of one component and more begins with a slash and the first.   *)
LEMMA TextStarts ==
    ASSUME NEW s \in Seq(Seq(Characters)), s # <<>>
    PROVE  \E t \in Seq(Characters) :
              /\ Text(s) = (<<"/">> \o s[1]) \o t
              /\ Len(s) = 1 => t = <<>>
              /\ t = Text(Behind(s, 1))
<1>1. 1 \in 0..Len(s) /\ 0 \in 0..Len(s) /\ 0 < Len(s) /\ 0 + 1 = 1 /\ 1 \in 1..Len(s)
  BY EmptySeq
<1>2. s[1] \in Seq(Characters)
  BY <1>1
<1>3. Upto(s, 1) = Append(<<>>, s[1]) /\ Behind(s, 1) \in Seq(Seq(Characters))
  <2>1. Upto(s, 0) = <<>> /\ Upto(s, 0 + 1) = Append(Upto(s, 0), s[0 + 1])
    BY <1>1, UptoFacts
  <2>2. Behind(s, 1) \in Seq(Seq(Characters))
    BY <1>1, BehindFacts
  <2> QED BY <1>1, <2>1, <2>2
<1>4. Text(Append(<<>>, s[1])) = <<"/">> \o s[1]
  <2>1. <<>> \in Seq(Seq(Characters))
    OBVIOUS
  <2>2. <<"/">> \o s[1] \in Seq(Characters)
    BY <1>2, SlashThen
  <2>3. Text(Append(<<>>, s[1])) = <<>> \o (<<"/">> \o s[1])
    BY <1>2, <2>1, TextAppend, TextOfNothing DEF WithText
  <2> HIDE DEF Upto
  <2> QED BY <2>2, <2>3, ConcatEmptySeq
<1>5. Text(s) = (<<"/">> \o s[1]) \o Text(Behind(s, 1))
  BY <1>1, <1>3, <1>4, TextParts
<1>6. Text(Behind(s, 1)) \in Seq(Characters)
  BY <1>3, TextType
<1>7. ASSUME Len(s) = 1
      PROVE  Text(Behind(s, 1)) = <<>>
  <2>1. Behind(s, Len(s)) = <<>>
    BY <1>1, BehindFacts
  <2> QED BY <1>7, <2>1, TextOfNothing
<1> QED BY <1>5, <1>6, <1>7

LEMMA TextBegins ==
    ASSUME NEW s \in Seq(Seq(Characters)), s # <<>>
    PROVE  /\ Len(Text(s)) >= 1 /\ Text(s)[1] = "/"
           /\ Len(Text(s)) >= 1 + Len(s[1])
           /\ \A i \in 1..Len(s[1]) : Text(s)[1 + i] = s[1][i]
           /\ Len(s) = 1 => Len(Text(s)) = 1 + Len(s[1])
<1>1. 1 \in 1..Len(s) /\ s[1] \in Seq(Characters)
  <2>1. 1 \in 1..Len(s)
    BY EmptySeq
  <2> QED BY <2>1
<1> DEFINE c == s[1]
           h == <<"/">> \o c
<1>2. PICK t \in Seq(Characters) : Text(s) = h \o t /\ (Len(s) = 1 => t = <<>>)
  BY TextStarts
<1>3. /\ h \in Seq(Characters) /\ Len(h) = 1 + Len(c) /\ h[1] = "/"
      /\ \A i \in 1..Len(c) : h[1 + i] = c[i]
  BY <1>1, SlashThen
<1>4. c \in Seq(Characters)
  BY <1>1
<1> HIDE DEF h, c
<1>5. /\ Len(h \o t) = Len(h) + Len(t)
      /\ \A i \in 1..Len(h) : (h \o t)[i] = h[i]
  BY <1>2, <1>3, ConcatFacts
<1>6. Len(c) \in Nat /\ Len(t) \in Nat
  BY <1>2, <1>4
<1>7. 1 \in 1..Len(h) /\ \A i \in 1..Len(c) : 1 + i \in 1..Len(h)
  BY <1>3, <1>6
<1>8. t = <<>> => Len(t) = 0
  BY EmptySeq
<1> QED BY <1>2, <1>3, <1>5, <1>6, <1>7, <1>8 DEF c

(* Component j + 1, which is c, stands behind the text of the first j, of  *)
(* length a, and a slash, and another slash or the end is behind it.       *)
StandsAt(s, j, a, c) ==
    /\ a \in Nat /\ c \in Seq(Characters) /\ Text(s) \in Seq(Characters)
    /\ Text(s)[a + 1] = "/"
    /\ \A i \in 1..Len(c) : Text(s)[a + 1 + i] = c[i]
    /\ Len(Text(Upto(s, j + 1))) = a + 1 + Len(c)
    /\ j + 1 < Len(s) => /\ Text(s)[a + Len(c) + 2] = "/"
                         /\ Len(Text(s)) >= a + Len(c) + 2
    /\ j + 1 = Len(s) => Len(Text(s)) = a + 1 + Len(c)

LEMMA Layout ==
    ASSUME NEW s \in Seq(Seq(Characters)), NEW j \in 0..Len(s), j < Len(s),
           NEW a, a = Len(Text(Upto(s, j))), NEW c, c = s[j + 1]
    PROVE  StandsAt(s, j, a, c)
<1> DEFINE Prefix(k) == Text(Upto(s, k))
           Rest(k) == Text(Behind(s, k))
<1>1. /\ j + 1 \in 0..Len(s) /\ j + 1 \in 1..Len(s) /\ Len(s) \in Nat /\ j \in Nat
      /\ 1 \in 1..Len(s) - j
  OBVIOUS
<1>2. c \in Seq(Characters)
  BY <1>1
<1>3. ASSUME NEW k \in 0..Len(s)
      PROVE  /\ Prefix(k) \in Seq(Characters) /\ Rest(k) \in Seq(Characters)
             /\ Text(s) = Prefix(k) \o Rest(k)
             /\ k < Len(s) => /\ Rest(k)[1] = "/" /\ Len(Rest(k)) >= 1 + Len(s[k + 1])
                              /\ \A i \in 1..Len(s[k + 1]) : Rest(k)[1 + i] = s[k + 1][i]
             /\ k + 1 = Len(s) => Len(Rest(k)) = 1 + Len(s[k + 1])
  <2>1. Upto(s, k) \in Seq(Seq(Characters)) /\ Behind(s, k) \in Seq(Seq(Characters))
    BY UptoFacts, BehindFacts
  <2>2. Prefix(k) \in Seq(Characters) /\ Rest(k) \in Seq(Characters)
    BY <2>1, TextType
  <2>3. Text(s) = Prefix(k) \o Rest(k)
    BY TextParts
  <2>4. ASSUME k < Len(s)
        PROVE  Behind(s, k) # <<>> /\ Behind(s, k)[1] = s[k + 1] /\ Len(Behind(s, k)) = Len(s) - k
    <3>1. Len(Behind(s, k)) = Len(s) - k /\ \A i \in 1..Len(s) - k : Behind(s, k)[i] = s[k + i]
      BY BehindFacts
    <3>2. 1 \in 1..Len(s) - k /\ Len(s) - k > 0
      BY <2>4, <1>1
    <3>3. Len(<<>>) = 0
      BY EmptySeq
    <3> QED BY <3>1, <3>2, <3>3
  <2>5. ASSUME k < Len(s)
        PROVE  /\ Rest(k)[1] = "/" /\ Len(Rest(k)) >= 1 + Len(s[k + 1])
               /\ \A i \in 1..Len(s[k + 1]) : Rest(k)[1 + i] = s[k + 1][i]
               /\ Len(Behind(s, k)) = 1 => Len(Rest(k)) = 1 + Len(s[k + 1])
    BY <2>1, <2>4, <2>5, TextBegins
  <2>6. k + 1 = Len(s) => k < Len(s) /\ Len(s) - k = 1
    BY <1>1
  <2> QED BY <2>2, <2>3, <2>4, <2>5, <2>6
<1>4. Prefix(j + 1) = Prefix(j) \o (<<"/">> \o c)
  <2>1. Upto(s, j + 1) = Append(Upto(s, j), c) /\ Upto(s, j) \in Seq(Seq(Characters))
    BY UptoFacts
  <2> QED BY <1>2, <2>1, TextAppend DEF WithText
<1> DEFINE p == Prefix(j)
           r == Rest(j)
           q == Rest(j + 1)
           h == <<"/">> \o c
           u == Text(s)
<1>5. p \in Seq(Characters) /\ r \in Seq(Characters) /\ u = p \o r /\ Len(p) = a
  BY <1>3
<1>6. /\ r[1] = "/" /\ Len(r) >= 1 + Len(c) /\ \A i \in 1..Len(c) : r[1 + i] = c[i]
      /\ j + 1 = Len(s) => Len(r) = 1 + Len(c)
  BY <1>3
<1>7. /\ u = (p \o h) \o q /\ q \in Seq(Characters)
      /\ j + 1 < Len(s) => q[1] = "/" /\ Len(q) >= 1
  <2>1. /\ Prefix(j + 1) \in Seq(Characters) /\ Rest(j + 1) \in Seq(Characters)
        /\ Text(s) = Prefix(j + 1) \o Rest(j + 1)
        /\ j + 1 < Len(s) => Rest(j + 1)[1] = "/" /\ Len(Rest(j + 1)) >= 1 + Len(s[(j + 1) + 1])
    BY <1>1, <1>3
  <2>2. j + 1 < Len(s) => s[(j + 1) + 1] \in Seq(Characters)
    <3>1. j + 1 < Len(s) => (j + 1) + 1 \in 1..Len(s)
      BY <1>1
    <3> QED BY <3>1
  <2>3. j + 1 < Len(s) => Len(s[(j + 1) + 1]) \in Nat
    BY <2>2
  <2>4. j + 1 < Len(s) => Len(Rest(j + 1)) >= 1
    <3>1. Len(Rest(j + 1)) \in Nat
      BY <2>1
    <3> HIDE DEF Rest
    <3> QED BY <2>1, <2>3, <3>1
  <2> QED BY <1>4, <2>1, <2>4
<1>8. h \in Seq(Characters) /\ Len(h) = 1 + Len(c)
  BY <1>2, SlashThen
<1>9. Prefix(j + 1) = p \o h
  BY <1>4
<1> HIDE DEF p, r, q, h, u, Prefix, Rest
<1>10. Len(c) \in Nat /\ a \in Nat /\ Len(r) \in Nat /\ Len(q) \in Nat
  BY <1>2, <1>5, <1>7
<1>11. /\ u \in Seq(Characters) /\ Len(u) = a + Len(r)
       /\ \A i \in 1..Len(r) : u[a + i] = r[i]
  <2>1. p \in Seq(Characters) /\ r \in Seq(Characters)
    BY <1>5
  <2>2. /\ p \o r \in Seq(Characters) /\ Len(p \o r) = Len(p) + Len(r)
        /\ \A i \in 1..Len(r) : (p \o r)[Len(p) + i] = r[i]
    BY <2>1, ConcatFacts
  <2> QED BY <1>5, <2>2
<1>12. p \o h \in Seq(Characters) /\ Len(p \o h) = a + Len(h)
  <2>1. p \in Seq(Characters) /\ h \in Seq(Characters)
    BY <1>5, <1>8
  <2>2. p \o h \in Seq(Characters) /\ Len(p \o h) = Len(p) + Len(h)
    BY <2>1, ConcatFacts
  <2> QED BY <1>5, <2>2
<1>13. Len(u) = (a + Len(h)) + Len(q) /\ \A i \in 1..Len(q) : u[(a + Len(h)) + i] = q[i]
  <2>1. p \o h \in Seq(Characters) /\ q \in Seq(Characters)
    BY <1>7, <1>12
  <2>2. /\ Len((p \o h) \o q) = Len(p \o h) + Len(q)
        /\ \A i \in 1..Len(q) : ((p \o h) \o q)[Len(p \o h) + i] = q[i]
    BY <2>1, ConcatFacts
  <2> QED BY <1>7, <1>12, <2>2
<1>14. u[a + 1] = "/"
  <2>1. 1 \in 1..Len(r)
    BY <1>6, <1>10
  <2> QED BY <1>6, <1>11, <2>1
<1>15. ASSUME NEW i \in 1..Len(c) PROVE u[a + 1 + i] = c[i]
  <2>1. 1 + i \in 1..Len(r) /\ a + (1 + i) = a + 1 + i
    BY <1>6, <1>10
  <2> QED BY <1>6, <1>11, <2>1
<1>16. ASSUME j + 1 < Len(s)
       PROVE  u[a + Len(c) + 2] = "/" /\ Len(u) >= a + Len(c) + 2
  <2>1. 1 \in 1..Len(q) /\ (a + (1 + Len(c))) + 1 = a + Len(c) + 2
    BY <1>7, <1>10, <1>16
  <2>2. u[(a + Len(h)) + 1] = q[1]
    BY <1>13, <2>1
  <2>3. Len(u) >= a + Len(c) + 2
    BY <1>7, <1>8, <1>10, <1>13, <1>16
  <2> QED BY <1>7, <1>8, <1>16, <2>1, <2>2, <2>3
<1> DEFINE x == Len(c)
<1>0. a + (1 + x) = a + 1 + x
  <2>1. x \in Nat /\ a \in Nat
    BY <1>10
  <2> HIDE DEF x
  <2> QED BY <2>1
<1>17. ASSUME j + 1 = Len(s)
       PROVE  Len(u) = a + 1 + Len(c)
  <2>1. Len(u) = a + Len(r) /\ Len(r) = 1 + Len(c)
    BY <1>6, <1>11, <1>17
  <2> QED BY <1>0, <2>1
<1>18. Len(Prefix(j + 1)) = a + 1 + Len(c)
  <2>1. Len(Prefix(j + 1)) = a + Len(h) /\ Len(h) = 1 + Len(c)
    BY <1>8, <1>9, <1>12
  <2> QED BY <1>0, <2>1
<1> QED BY <1>2, <1>10, <1>11, <1>14, <1>15, <1>16, <1>17, <1>18 DEF u, Prefix, StandsAt

-----------------------------------------------------------------------------
(* Slashes looked for from the left and from the right.                    *)

LEMMA MinIs ==
    ASSUME NEW S \in SUBSET Int, NEW m \in S, \A x \in S : m <= x
    PROVE  Min(S) = m
<1> DEFINE Extreme(x) == \A y \in S : x <= y
           x == CHOOSE x \in S : Extreme(x)
<1>1. \A y \in S : y \in Int
  OBVIOUS
<1>2. Extreme(m)
  BY <1>1
<1>3. x \in S /\ Extreme(x)
  BY <1>2
<1>4. Min(S) = x
  BY DEF Min
<1>5. x \in Int /\ m \in Int /\ x <= m /\ m <= x
  BY <1>1, <1>2, <1>3
<1> HIDE DEF x
<1> QED BY <1>4, <1>5

LEMMA MaxIs ==
    ASSUME NEW S \in SUBSET Int, NEW m \in S, \A x \in S : x <= m
    PROVE  Max(S) = m
<1> DEFINE Extreme(x) == \A y \in S : x >= y
           x == CHOOSE x \in S : Extreme(x)
<1>1. \A y \in S : y \in Int
  OBVIOUS
<1>2. Extreme(m)
  BY <1>1
<1>3. x \in S /\ Extreme(x)
  BY <1>2
<1>4. Max(S) = x
  BY DEF Max
<1>5. x \in Int /\ m \in Int /\ x <= m /\ m <= x
  BY <1>1, <1>2, <1>3
<1> HIDE DEF x
<1> QED BY <1>4, <1>5

LEMMA MinOfTwo ==
    ASSUME NEW a \in Int, NEW b \in Int
    PROVE  Min({a, b}) = IF a <= b THEN a ELSE b
<1> DEFINE S == {a, b}
           m == IF a <= b THEN a ELSE b
<1>1. S \in SUBSET Int /\ m \in S /\ \A x \in S : m <= x
  OBVIOUS
<1> HIDE DEF S, m
<1>2. Min(S) = m
  BY <1>1, MinIs
<1> QED BY <1>2 DEF S, m

(* A component that stands at s, with a slash or the end behind it, is     *)
(* what parse_uri_component finds there.                                   *)
LEMMA ComponentFound ==
    ASSUME uri \in Seq(Characters), NEW c \in Component, NEW s \in Nat, s >= 1,
           s + Len(c) <= Len(uri) + 1,
           \A i \in 1..Len(c) : uri[s - 1 + i] = c[i],
           s + Len(c) <= Len(uri) => uri[s + Len(c)] = "/"
    PROVE  /\ ComponentFrom(s) = c
           /\ AfterSlash(s) = IF s + Len(c) <= Len(uri) THEN s + Len(c) + 1 ELSE Len(uri) + 1
<1> DEFINE n == Len(c)
           N == Len(uri)
           S == {i \in s..N : uri[i] = "/"} \cup {N + 1}
<1>1. n \in Nat /\ N \in Nat
  <2>1. c \in Seq(Characters)
    BY ComponentFacts
  <2> QED BY <2>1
<1>2. ASSUME NEW i \in s..N, i < s + n PROVE uri[i] # "/"
  <2>1. i - s + 1 \in 1..Len(c) /\ s - 1 + (i - s + 1) = i
    BY <1>1, <1>2
  <2>2. uri[i] = c[i - s + 1]
    BY <2>1
  <2> QED BY <2>1, <2>2, ComponentHasNoSlash
<1>3. s + n <= N => uri[s + n] = "/"
  OBVIOUS
<1>4. s + n <= N + 1
  OBVIOUS
<1> HIDE DEF n, N
<1>5. s + n \in S
  BY <1>1, <1>3, <1>4
<1>6. S \in SUBSET Int /\ \A x \in S : s + n <= x
  BY <1>1, <1>2, <1>4
<1>7. SlashFrom(s) = s + n
  <2> HIDE DEF S
  <2>1. Min(S) = s + n
    BY <1>5, <1>6, MinIs
  <2> QED BY <2>1 DEF SlashFrom, S, N
<1>8. AfterSlash(s) = IF s + n <= N THEN s + n + 1 ELSE N + 1
  <2>1. AfterSlash(s) = Min({s + n + 1, N + 1})
    BY <1>7 DEF AfterSlash, N
  <2>2. s + n + 1 \in Int /\ N + 1 \in Int
    BY <1>1
  <2>3. Min({s + n + 1, N + 1}) = IF s + n + 1 <= N + 1 THEN s + n + 1 ELSE N + 1
    BY <2>2, MinOfTwo
  <2>4. s + n + 1 <= N + 1 <=> s + n <= N
    BY <1>1
  <2> QED BY <2>1, <2>3, <2>4
<1>9. ComponentFrom(s) = c
  <2> DEFINE b == SubSeq(uri, s, s + n - 1)
  <2>1. \A i \in s..s + n - 1 : uri[i] \in Characters
    <3>1. \A i \in s..s + n - 1 : i \in 1..N
      BY <1>1, <1>4
    <3> QED BY <3>1 DEF N
  <2>2. /\ b \in Seq(Characters)
        /\ Len(b) = IF s <= s + n - 1 THEN (s + n - 1) - s + 1 ELSE 0
        /\ \A i \in 1..(s + n - 1) - s + 1 : b[i] = uri[s + i - 1]
    BY <1>1, <2>1, SubSeqProperties
  <2>3. Len(b) = n /\ (s + n - 1) - s + 1 = n
    BY <1>1, <2>2
  <2>4. \A i \in 1..n : b[i] = c[i]
    <3>1. \A i \in 1..n : s + i - 1 = s - 1 + i
      BY <1>1
    <3> QED BY <2>2, <2>3, <3>1 DEF n
  <2>5. c \in Seq(Characters)
    BY ComponentFacts
  <2> HIDE DEF b
  <2>6. b = c
    BY <2>2, <2>3, <2>4, <2>5, SeqEqual DEF n
  <2>7. ComponentFrom(s) = SubSeq(uri, s, s + n - 1)
    <3> DEFINE e == SlashFrom(s)
    <3>1. e - 1 = s + n - 1
      BY <1>1, <1>7
    <3> HIDE DEF e, n
    <3>2. SubSeq(uri, s, e - 1) = SubSeq(uri, s, s + n - 1)
      BY <3>1
    <3> QED BY <3>2 DEF ComponentFrom, e
  <2> QED BY <2>6, <2>7 DEF b
<1> QED BY <1>8, <1>9 DEF n, N

LEMMA SplitLast ==
    ASSUME NEW S, NEW s \in Seq(S), s # <<>>
    PROVE  /\ ButLast(s) \in Seq(S) /\ s[Len(s)] \in S
           /\ s = Append(ButLast(s), s[Len(s)])
<1>1. Len(s) \in Nat /\ Len(s) # 0
  BY EmptySeq
<1> DEFINE j == Len(s) - 1
<1>2. j \in 0..Len(s) /\ j < Len(s) /\ j + 1 = Len(s) /\ Len(s) \in 1..Len(s)
  BY <1>1
<1>3. Upto(s, j + 1) = Append(Upto(s, j), s[j + 1]) /\ Upto(s, Len(s)) = s /\ Upto(s, j) \in Seq(S)
  <2> HIDE DEF j
  <2> QED BY <1>2, UptoFacts
<1>4. Upto(s, j) = ButLast(s)
  BY DEF Upto, ButLast
<1>5. s[Len(s)] \in S
  BY SMTT(40), <1>2
<1>6. s = Append(ButLast(s), s[Len(s)])
  BY Zenon, <1>2, <1>3, <1>4
<1> QED BY <1>3, <1>4, <1>5, <1>6

(* t is x, a slash, and behind it c, with no more slashes.                 *)
EndsAfterSlash(t, x, c) ==
    /\ t \in Seq(Characters)
    /\ Len(t) = Len(x) + 1 + Len(c)
    /\ \A i \in 1..Len(x) : t[i] = x[i]
    /\ t[Len(x) + 1] = "/"
    /\ \A i \in 1..Len(c) : t[Len(x) + 1 + i] = c[i]
    /\ \A i \in Len(x) + 2..Len(t) : t[i] # "/"

LEMMA SlashAndComponent ==
    ASSUME NEW x \in Seq(Characters), NEW c \in Component,
           NEW t, t = x \o (<<"/">> \o c)
    PROVE  EndsAfterSlash(t, x, c)
<1> DEFINE h == <<"/">> \o c
           n == Len(c)
           m == Len(x)
<1>1. c \in Seq(Characters)
  BY ComponentFacts
<1>2. /\ h \in Seq(Characters) /\ Len(h) = 1 + n /\ h[1] = "/"
      /\ \A i \in 1..n : h[1 + i] = c[i]
  BY <1>1, SlashThen
<1>3. n \in Nat /\ m \in Nat
  BY <1>1
<1>4. t = x \o h
  OBVIOUS
<1> HIDE DEF h
<1>5. /\ x \o h \in Seq(Characters) /\ Len(x \o h) = Len(x) + Len(h)
      /\ \A i \in 1..Len(x) : (x \o h)[i] = x[i]
      /\ \A i \in 1..Len(h) : (x \o h)[Len(x) + i] = h[i]
  BY <1>2, ConcatFacts
<1>6. \A i \in 1..n : c[i] # "/"
  BY ComponentHasNoSlash
<1> HIDE DEF n, m
<1>7. /\ t \in Seq(Characters) /\ Len(t) = m + (1 + n)
      /\ \A i \in 1..m : t[i] = x[i]
      /\ \A i \in 1..1 + n : t[m + i] = h[i]
  BY <1>2, <1>4, <1>5 DEF m
<1>8. t[m + 1] = "/"
  <2>1. 1 \in 1..1 + n
    BY <1>3
  <2> QED BY <1>2, <1>7, <2>1
<1>9. ASSUME NEW i \in m + 2..Len(t) PROVE t[i] # "/"
  <2> DEFINE d == i - m - 1
  <2>1. d \in 1..n /\ 1 + d \in 1..1 + n /\ m + (1 + d) = i
    BY <1>3, <1>7
  <2> HIDE DEF d
  <2> QED BY <1>2, <1>6, <1>7, <2>1
<1>10. m + (1 + n) = m + 1 + n
  BY <1>3
<1>11. ASSUME NEW i \in 1..n PROVE t[m + 1 + i] = c[i]
  <2>1. 1 + i \in 1..1 + n /\ m + (1 + i) = m + 1 + i
    BY <1>3
  <2> QED BY <1>2, <1>7, <2>1
<1> QED BY <1>7, <1>8, <1>9, <1>10, <1>11 DEF m, n, EndsAfterSlash

LEMMA PrefixIs ==
    ASSUME NEW t \in Seq(Characters), NEW y \in Seq(Characters), NEW d, d = Len(y), d <= Len(t),
           \A i \in 1..d : t[i] = y[i]
    PROVE  SubSeq(t, 1, d) = y
<1>1. d \in Nat /\ Len(t) \in Nat
  OBVIOUS
<1>2. d \in 0..Len(t)
  BY <1>1
<1> DEFINE b == SubSeq(t, 1, d)
<1>3. b \in Seq(Characters) /\ Len(b) = d /\ \A i \in 1..d : b[i] = t[i]
  BY <1>2, UptoFacts DEF Upto
<1> HIDE DEF b
<1>4. b = y
  BY <1>3, SeqEqual
<1> QED BY <1>4 DEF b

LEMMA PrefixGives ==
    ASSUME NEW t \in Seq(Characters), NEW d \in 0..Len(t), NEW y, SubSeq(t, 1, d) = y
    PROVE  Len(y) = d /\ \A i \in 1..d : t[i] = y[i]
BY UptoFacts DEF Upto

(* The first d characters of the URI are the components comps.             *)
OutputIs(d, comps) == SubSeq(uri, 1, d) = Text(comps)

LEMMA BackFacts ==
    ASSUME uri \in Seq(Characters), NEW kept \in Seq(Component), NEW d \in 0..Len(uri),
           OutputIs(d, Append(kept, <<>>))
    PROVE  Back(d) \in 1..d /\ OutputIs(Back(d), Append(ButLast(kept), <<>>))
<1> DEFINE e == <<>>
           x == Text(kept)
           t == Text(Append(kept, e))
<1>0. e \in Component /\ e \in Seq(Characters) /\ Len(e) = 0 /\ Seq(Component) \subseteq Seq(Seq(Characters))
  <2>1. Seq(Component) \subseteq Seq(Seq(Characters))
    BY ComponentFacts, SeqMonotonic
  <2> QED BY <2>1, ComponentFacts
<1>1. t = x \o (<<"/">> \o e) /\ x \in Seq(Characters)
  <2> HIDE DEF e
  <2> QED BY <1>0, TextAppend, TextType DEF WithText
<1>2. /\ t \in Seq(Characters) /\ Len(t) = Len(x) + 1 + Len(e)
      /\ \A i \in 1..Len(x) : t[i] = x[i]
      /\ t[Len(x) + 1] = "/"
  <2> HIDE DEF e, x, t
  <2>1. EndsAfterSlash(t, x, e)
    BY <1>0, <1>1, SlashAndComponent
  <2> QED BY <2>1 DEF EndsAfterSlash
<1>3. SubSeq(uri, 1, d) = t
  BY DEF OutputIs
<1>4. Len(t) = d /\ \A i \in 1..d : uri[i] = t[i]
  <2> HIDE DEF t
  <2> QED BY <1>3, PrefixGives
<1>5. d \in Nat /\ Len(x) \in Nat /\ d = Len(x) + 1 /\ Len(uri) \in Nat /\ d <= Len(uri)
  <2>1. Len(x) \in Nat
    BY <1>1
  <2> HIDE DEF x, t, e
  <2> QED BY <1>0, <1>2, <1>4, <2>1
<1>6. uri[d] = "/"
  <2>1. d \in 1..d
    BY <1>5
  <2> QED BY <1>2, <1>4, <1>5, <2>1
<1> HIDE DEF t
<1>7. CASE kept = <<>>
  <2>1. x = <<>> /\ ButLast(kept) = kept
    BY <1>7, TextOfNothing DEF ButLast
  <2>2. d = 1
    <3>1. Len(x) = 0
      BY <2>1
    <3> QED BY <1>5, <3>1
  <2> DEFINE S == {i \in 1..1 : uri[i] = "/"} \cup {0}
  <2>3. Back(d) = Max(S)
    BY <2>2 DEF Back
  <2>4. S \in SUBSET Int /\ 1 \in S /\ \A i \in S : i <= 1
    BY <1>6, <2>2
  <2> HIDE DEF S
  <2>5. Back(d) = 1
    BY <2>3, <2>4, MaxIs
  <2>6. OutputIs(1, Append(ButLast(kept), <<>>))
    BY <2>1, <2>2
  <2> QED BY <2>2, <2>5, <2>6
<1>8. CASE kept # <<>>
  <2> DEFINE k == ButLast(kept)
             c == kept[Len(kept)]
             z == Text(k)
             a == Len(z)
             y == Text(Append(k, e))
  <2>1. k \in Seq(Component) /\ c \in Component /\ kept = Append(k, c)
    BY <1>8, SplitLast
  <2>2. k \in Seq(Seq(Characters)) /\ c \in Seq(Characters)
    BY <1>0, <2>1, ComponentFacts
  <2>3. z \in Seq(Characters) /\ a \in Nat
    <3>1. z \in Seq(Characters)
      BY <2>2, TextType
    <3> QED BY <3>1
  <2>4. x = z \o (<<"/">> \o c)
    <3> HIDE DEF k, c
    <3> QED BY <2>1, <2>2, TextAppend DEF WithText
  <2>5. y = z \o (<<"/">> \o e)
    <3> HIDE DEF k, c, e
    <3> QED BY <1>0, <2>2, TextAppend DEF WithText
  <2> HIDE DEF x, y, z, k, c, e
  <2>6. /\ Len(x) = Len(z) + 1 + Len(c)
        /\ \A i \in 1..Len(z) : x[i] = z[i]
        /\ x[Len(z) + 1] = "/"
        /\ \A i \in Len(z) + 2..Len(x) : x[i] # "/"
    <3>1. EndsAfterSlash(x, z, c)
      BY <2>1, <2>3, <2>4, SlashAndComponent
    <3> QED BY <3>1 DEF EndsAfterSlash
  <2>7. /\ y \in Seq(Characters) /\ Len(y) = Len(z) + 1 + Len(e)
        /\ \A i \in 1..Len(z) : y[i] = z[i]
        /\ y[Len(z) + 1] = "/"
    <3>1. EndsAfterSlash(y, z, e)
      BY <1>0, <2>3, <2>5, SlashAndComponent
    <3> QED BY <3>1 DEF EndsAfterSlash
  <2>8. Len(c) \in Nat
    BY <2>2
  <2> HIDE DEF a
  <2>9. /\ Len(x) = a + 1 + Len(c) /\ x[a + 1] = "/"
        /\ \A i \in a + 2..Len(x) : x[i] # "/"
        /\ \A i \in 1..a : x[i] = z[i]
    BY <2>6 DEF a
  <2>10. Len(y) = a + 1 /\ y[a + 1] = "/" /\ \A i \in 1..a : y[i] = z[i]
    <3>1. Len(y) = a + 1 + 0
      BY <1>0, <2>7 DEF a
    <3>2. a + 1 + 0 = a + 1
      BY <2>3
    <3> QED BY <2>7, <3>1, <3>2 DEF a
  <2>11. \A i \in 1..Len(x) : uri[i] = x[i]
    <3>1. \A i \in 1..Len(x) : i \in 1..d
      BY <1>5
    <3> QED BY <1>2, <1>4, <3>1
  <2>12. a + 1 \in 1..Len(x) /\ a + 1 <= d /\ a + 1 \in Nat /\ a + 1 <= Len(uri)
    BY <1>5, <2>3, <2>8, <2>9
  <2> DEFINE S == {i \in 1..Len(x) : uri[i] = "/"} \cup {0}
  <2>13. Back(d) = Max(S)
    <3>1. d > 1 /\ d - 1 = Len(x)
      BY <1>5, <2>12
    <3> QED BY <1>6, <3>1 DEF Back
  <2>14. S \in SUBSET Int /\ a + 1 \in S /\ \A i \in S : i <= a + 1
    <3>1. uri[a + 1] = "/"
      BY <2>9, <2>11, <2>12
    <3>2. ASSUME NEW i \in 1..Len(x), uri[i] = "/" PROVE i <= a + 1
      <4>1. x[i] = "/"
        BY <2>11, <3>2
      <4>2. i \notin a + 2..Len(x)
        BY <2>9, <4>1
      <4> QED BY <1>5, <2>3, <4>2
    <3> QED BY <2>3, <2>12, <3>1, <3>2
  <2> HIDE DEF S
  <2>15. Back(d) = a + 1
    BY <2>13, <2>14, MaxIs
  <2>16. \A i \in 1..a + 1 : uri[i] = y[i]
    <3>1. ASSUME NEW i \in 1..a + 1 PROVE uri[i] = y[i]
      <4>1. i \in 1..a \/ i = a + 1
        BY <2>3
      <4>2. i \in 1..Len(x)
        BY <1>5, <2>3, <2>12
      <4> QED BY <2>9, <2>10, <2>11, <4>1, <4>2
    <3> QED BY <3>1
  <2>17. SubSeq(uri, 1, a + 1) = y
    <3>1. a + 1 = Len(y) /\ a + 1 <= Len(uri)
      BY <2>10, <2>12
    <3> QED BY <2>7, <2>16, <3>1, PrefixIs
  <2>18. Back(d) \in 1..d
    BY <1>5, <2>3, <2>12, <2>15
  <2>19. OutputIs(a + 1, Append(k, e))
    BY <2>17 DEF y, OutputIs
  <2> QED BY <2>15, <2>18, <2>19 DEF k, e
<1> QED BY <1>7, <1>8

LEMMA ParentFacts ==
    ASSUME NEW names \in Seq(Component)
    PROVE  Parent(Text(names)) = Text(ButLast(names))
<1> DEFINE x == Text(names)
<1>0. Seq(Component) \subseteq Seq(Seq(Characters))
  BY ComponentFacts, SeqMonotonic
<1>1. x \in Seq(Characters)
  BY <1>0, TextType
<1>2. CASE names = <<>>
  <2>1. x = <<>> /\ ButLast(names) = names
    BY <1>2, TextOfNothing DEF ButLast
  <2> DEFINE S == {i \in DOMAIN x : x[i] = "/"} \cup {1}
  <2>2. S = {1}
    BY <2>1
  <2> HIDE DEF x, S
  <2>3. Max(S) = 1
    <3>1. S \in SUBSET Int /\ 1 \in S /\ \A i \in S : i <= 1
      BY <2>2
    <3> QED BY <3>1, MaxIs
  <2>4. Parent(x) = SubSeq(<<>>, 1, 1 - 1)
    BY <2>1, <2>3 DEF Parent, S
  <2>5. SubSeq(<<>>, 1, 1 - 1) = <<>>
    OBVIOUS
  <2> QED BY <2>1, <2>4, <2>5 DEF x
<1>3. CASE names # <<>>
  <2> DEFINE k == ButLast(names)
             c == names[Len(names)]
             z == Text(k)
             a == Len(z)
  <2>1. k \in Seq(Component) /\ c \in Component /\ names = Append(k, c)
    BY <1>3, SplitLast
  <2>2. k \in Seq(Seq(Characters)) /\ c \in Seq(Characters)
    BY <1>0, <2>1, ComponentFacts
  <2>3. z \in Seq(Characters) /\ a \in Nat
    <3>1. z \in Seq(Characters)
      BY <2>2, TextType
    <3> QED BY <3>1
  <2>4. x = z \o (<<"/">> \o c)
    <3> HIDE DEF k, c
    <3> QED BY <2>1, <2>2, TextAppend DEF WithText
  <2> HIDE DEF x, z, k, c
  <2>5. /\ Len(x) = Len(z) + 1 + Len(c)
        /\ \A i \in 1..Len(z) : x[i] = z[i]
        /\ x[Len(z) + 1] = "/"
        /\ \A i \in Len(z) + 2..Len(x) : x[i] # "/"
    <3>1. EndsAfterSlash(x, z, c)
      BY <2>1, <2>3, <2>4, SlashAndComponent
    <3> QED BY <3>1 DEF EndsAfterSlash
  <2>6. Len(c) \in Nat /\ Len(x) \in Nat /\ DOMAIN x = 1..Len(x)
    BY <1>1, <2>2
  <2> HIDE DEF a
  <2>7. /\ Len(x) = a + 1 + Len(c) /\ x[a + 1] = "/"
        /\ \A i \in a + 2..Len(x) : x[i] # "/"
        /\ \A i \in 1..a : x[i] = z[i]
    BY <2>5 DEF a
  <2>8. a + 1 \in 1..Len(x) /\ a <= Len(x) /\ (a + 1) - 1 = a /\ 1 <= a + 1
    BY <2>3, <2>6, <2>7
  <2> DEFINE S == {i \in DOMAIN x : x[i] = "/"} \cup {1}
  <2>9. S \in SUBSET Int /\ a + 1 \in S /\ \A i \in S : i <= a + 1
    <3>1. ASSUME NEW i \in 1..Len(x), x[i] = "/" PROVE i <= a + 1
      <4>1. i \notin a + 2..Len(x)
        BY <2>7, <3>1
      <4> QED BY <2>3, <2>6, <4>1
    <3> QED BY <2>6, <2>7, <2>8, <3>1
  <2> HIDE DEF S
  <2>10. Max(S) = a + 1
    BY <2>9, MaxIs
  <2>11. Parent(x) = SubSeq(x, 1, a)
    BY <2>8, <2>10 DEF Parent, S
  <2>12. SubSeq(x, 1, a) = z
    <3>1. a = Len(z) /\ \A i \in 1..a : x[i] = z[i]
      BY <2>7 DEF a
    <3> QED BY <1>1, <2>3, <2>8, <3>1, PrefixIs
  <2> QED BY <2>11, <2>12 DEF x, z, k
<1> QED BY <1>2, <1>3

-----------------------------------------------------------------------------
(* What is meant, one component at a time.                                 *)

LEMMA RequestFacts ==
    ASSUME request \in Requests
    PROVE  /\ request \in Seq(Component) /\ request \in Seq(Seq(Characters))
           /\ Len(request) \in Nat /\ Len(request) >= 1 /\ request # <<>>
<1>1. PICK n \in 1..MaxComponents : request \in [1..n -> Components]
  BY DEF Requests
<1>2. n \in Nat /\ n >= 1
  BY ComponentsAssumption
<1>3. request \in [1..n -> Component]
  BY <1>1, ComponentFacts
<1>4. request \in Seq(Component) /\ Len(request) = n
  BY <1>2, <1>3, SeqDef
<1>5. request \in Seq(Seq(Characters))
  BY <1>4, ComponentFacts, SeqMonotonic
<1>6. Len(<<>>) = 0
  BY EmptySeq
<1> QED BY <1>2, <1>4, <1>5, <1>6

LEMMA KeptFacts ==
    ASSUME request \in Requests, NEW j \in 0..Len(request)
    PROVE  /\ Kept(Upto(request, j)) \in Seq(Component)
           /\ j < Len(request) => /\ request[j + 1] \in Component
                                  /\ Kept(Upto(request, j + 1)) =
                                         WithComponent(Kept(Upto(request, j)), request[j + 1])
<1>1. request \in Seq(Component)
  BY RequestFacts
<1> DEFINE r == request
<1>2. /\ Upto(r, j) \in Seq(Component)
      /\ j < Len(r) => Upto(r, j + 1) = Append(Upto(r, j), r[j + 1])
  BY <1>1, UptoFacts
<1>3. j < Len(r) => r[j + 1] \in Component
  <2>1. j < Len(r) => j + 1 \in 1..Len(r)
    OBVIOUS
  <2> QED BY <1>1, <2>1
<1>4. Kept(Upto(r, j)) \in Seq(Component)
  BY <1>2, KeptType
<1> HIDE DEF r
<1>5. ASSUME j < Len(r)
      PROVE  Kept(Upto(r, j + 1)) = WithComponent(Kept(Upto(r, j)), r[j + 1])
  BY <1>2, <1>3, <1>5, KeptAppend
<1> QED BY <1>3, <1>4, <1>5 DEF r

(* What the last component makes of the ones that were kept before it.     *)
LEMMA ResolvedFacts ==
    ASSUME request \in Requests, NEW j, j + 1 = Len(request), j \in Nat,
           NEW k, k = Kept(Upto(request, j)), NEW c, c = request[j + 1]
    PROVE  Resolved = IF c = <<".">> THEN Append(k, <<>>)
                      ELSE IF c = <<".", ".">> THEN Append(ButLast(k), <<>>)
                      ELSE Append(k, c)
<1>1. j \in 0..Len(request) /\ j < Len(request)
  BY RequestFacts
<1>2. Kept(Upto(request, j + 1)) = WithComponent(k, c)
  BY <1>1, KeptFacts
<1>3. Kept(request) = WithComponent(k, c)
  <2>1. Len(request) \in 0..Len(request) /\ request \in Seq(Component)
    BY RequestFacts
  <2>2. Upto(request, Len(request)) = request
    BY <2>1, UptoFacts
  <2> QED BY <1>2, <2>2
<1>4. Last(request) = c
  BY DEF Last
<1> QED BY <1>3, <1>4 DEF Resolved, WithComponent, Dots

LEMMA ResolvedType ==
    ASSUME request \in Requests
    PROVE  /\ Resolved \in Seq(Component) /\ Resolved \in Seq(Seq(Characters))
           /\ Len(Resolved) \in Nat /\ Len(Resolved) >= 1
<1> DEFINE j == Len(request) - 1
           k == Kept(Upto(request, j))
           c == request[j + 1]
           R == Resolved
<1>1. j \in Nat /\ j + 1 = Len(request) /\ j \in 0..Len(request) /\ j < Len(request)
  BY RequestFacts
<1>2. k \in Seq(Component) /\ c \in Component
  <2> HIDE DEF j
  <2> QED BY <1>1, KeptFacts
<1>3. R = IF c = <<".">> THEN Append(k, <<>>)
          ELSE IF c = <<".", ".">> THEN Append(ButLast(k), <<>>)
          ELSE Append(k, c)
  <2> HIDE DEF j
  <2> QED BY <1>1, ResolvedFacts
<1>4. ButLast(k) \in Seq(Component) /\ <<>> \in Component
  BY <1>2, ButLastType, ComponentFacts
<1> HIDE DEF k, c, R
<1>5. PICK q \in Seq(Component), d \in Component : R = Append(q, d)
  BY <1>2, <1>3, <1>4
<1>6. R \in Seq(Component) /\ Len(R) = Len(q) + 1 /\ Len(q) \in Nat
  BY <1>5
<1>7. R \in Seq(Seq(Characters))
  BY <1>6, ComponentFacts, SeqMonotonic
<1>8. Len(q) + 1 \in Nat /\ Len(q) + 1 >= 1
  BY <1>6
<1> QED BY <1>6, <1>7, <1>8 DEF R

(* What stands at s in the URI is component j + 1 of the text of comps.    *)
Reads(comps, j, s) ==
    LET c == comps[j + 1]
    IN  /\ s \in Nat /\ s >= 2 /\ s <= Len(uri) + 1
        /\ c \in Component /\ Len(c) \in Nat
        /\ ComponentFrom(s) = c
        /\ \A i \in 1..Len(c) : uri[s - 1 + i] = c[i]
        /\ j + 1 < Len(comps) => /\ AfterSlash(s) = Len(Text(Upto(comps, j + 1))) + 2
                                 /\ AfterSlash(s) = s + Len(c) + 1
                                 /\ s + Len(c) <= Len(uri)
                                 /\ uri[s + Len(c)] = "/"
        /\ j + 1 = Len(comps) => /\ AfterSlash(s) = Len(uri) + 1
                                 /\ Len(uri) + 1 = s + Len(c)

(* Where n characters stand that begin at s, one after a slash at a + 1.    *)
Placed(a, n, N, s, b) ==
    /\ N >= a + n + 2 => s + n <= N /\ ~(N = a + 1 + n)
    /\ N = a + 1 + n => N + 1 = s + n /\ ~(s + n <= N)
    /\ s + n <= N + 1
    /\ b + 2 = s + n + 1 /\ s + n = a + n + 2 /\ s + n \in s..N + 1
    /\ s \in Nat /\ s >= 2 /\ s >= 1 /\ s <= N + 1
    /\ \A i \in 1..n : s - 1 + i = a + 1 + i /\ s - 1 + i \in s..N

LEMMA PlaceOfNext ==
    ASSUME NEW a \in Nat, NEW n \in Nat, NEW N \in Nat,
           N >= a + n + 2 \/ N = a + 1 + n,
           NEW s, s = a + 2, NEW b, b = a + 1 + n
    PROVE  Placed(a, n, N, s, b)
BY DEF Placed

LEMMA NextComponent ==
    ASSUME NEW comps \in Seq(Component), NEW j \in 0..Len(comps), j < Len(comps),
           uri \in Seq(Characters), Len(uri) = Len(Text(comps)),
           NEW s, s = Len(Text(Upto(comps, j))) + 2,
           \A i \in s..Len(uri) : uri[i] = Text(comps)[i]
    PROVE  Reads(comps, j, s)
<1> DEFINE c == comps[j + 1]
           a == Len(Text(Upto(comps, j)))
           t == Text(comps)
           n == Len(c)
           N == Len(uri)
           b == Len(Text(Upto(comps, j + 1)))
           more == j + 1 < Len(comps)
           last == j + 1 = Len(comps)
<1>1. StandsAt(comps, j, a, c)
  <2>1. comps \in Seq(Seq(Characters))
    BY ComponentFacts, SeqMonotonic
  <2> QED BY <2>1, Layout
<1>2. c \in Component /\ n \in Nat /\ N \in Nat
  <2>1. j + 1 \in 1..Len(comps)
    OBVIOUS
  <2>2. c \in Component /\ c \in Seq(Characters)
    BY <2>1, ComponentFacts
  <2> QED BY <2>2
<1>3. (more \/ last) /\ ~(more /\ last)
  <2>1. Len(comps) \in Nat /\ j \in Nat
    OBVIOUS
  <2> QED BY <2>1
<1>4. s = a + 2 /\ \A i \in s..N : uri[i] = t[i]
  OBVIOUS
<1>5. /\ a \in Nat /\ b = a + 1 + n
      /\ \A i \in 1..n : t[a + 1 + i] = c[i]
      /\ more => t[a + n + 2] = "/"
      /\ more => N >= a + n + 2
      /\ last => N = a + 1 + n
  BY <1>1 DEF StandsAt
<1> HIDE DEF a, b, c, n, N, t, more, last
<1>6. /\ more <=> s + n <= N
      /\ last <=> N + 1 = s + n
      /\ s + n <= N + 1
      /\ b + 2 = s + n + 1 /\ s + n = a + n + 2 /\ s + n \in s..N + 1
      /\ s \in Nat /\ s >= 2 /\ s >= 1 /\ s <= N + 1
      /\ \A i \in 1..n : s - 1 + i = a + 1 + i /\ s - 1 + i \in s..N
  <2>1. N >= a + n + 2 \/ N = a + 1 + n
    BY <1>3, <1>5
  <2>2. s = a + 2 /\ b = a + 1 + n /\ a \in Nat
    BY <1>4, <1>5
  <2>3. Placed(a, n, N, s, b)
    BY <1>2, <2>1, <2>2, PlaceOfNext
  <2>4. N + 1 = s + n => ~(s + n <= N)
    BY <1>2, <2>3 DEF Placed
  <2> QED BY <1>3, <1>5, <2>3, <2>4 DEF Placed
<1>7. \A i \in 1..n : uri[s - 1 + i] = c[i]
  BY <1>4, <1>5, <1>6
<1>8. more => uri[s + n] = "/"
  <2>1. s + n <= N => s + n \in s..N
    BY <1>2, <1>6
  <2> QED BY <1>4, <1>5, <1>6, <2>1
<1>9. /\ ComponentFrom(s) = c
      /\ AfterSlash(s) = IF s + n <= N THEN s + n + 1 ELSE N + 1
  BY <1>2, <1>6, <1>7, <1>8, ComponentFound DEF n, N
<1>10. more => AfterSlash(s) = b + 2 /\ AfterSlash(s) = s + n + 1 /\ s + n <= N
  BY <1>6, <1>9
<1>11. last => AfterSlash(s) = N + 1 /\ N + 1 = s + n
  BY <1>3, <1>6, <1>9
<1>12. s \in Nat /\ s >= 2 /\ s <= N + 1
  BY <1>6
<1> QED BY <1>2, <1>7, <1>8, <1>9, <1>10, <1>11, <1>12 DEF Reads, b, c, n, N, more, last

-----------------------------------------------------------------------------
(* Moving a component up writes over nothing that is still to be read.     *)

Moved(n) == [i \in DOMAIN uri |-> IF i \in out + 1 .. out + n
                                  THEN uri[next + i - out - 1] ELSE uri[i]]

MovesUp(u, n) ==
    /\ u \in Seq(Characters) /\ Len(u) = Len(uri)
    /\ \A i \in 1..out : u[i] = uri[i]
    /\ \A i \in 1..n : u[out + i] = uri[next - 1 + i]
    /\ \A i \in next + n..Len(u) : u[i] = uri[i]

LEMMA MovedUp ==
    ASSUME uri \in Seq(Characters), out \in Nat, next \in Nat, out < next,
           NEW n \in Nat, next + n <= Len(uri) + 1
    PROVE  MovesUp(Moved(n), n)
<1> DEFINE N == Len(uri)
           u == Moved(n)
<1>1. N \in Nat /\ DOMAIN uri = 1..N /\ \A i \in 1..N : uri[i] \in Characters
  OBVIOUS
<1>2. next + n <= N + 1
  OBVIOUS
<1>3. u = [i \in 1..N |-> IF i \in out + 1 .. out + n
                          THEN uri[next + i - out - 1] ELSE uri[i]]
  BY <1>1 DEF Moved
<1> HIDE DEF N, u
<1>4. ASSUME NEW i \in 1..N
      PROVE  u[i] \in Characters
  <2>1. CASE i \in out + 1 .. out + n
    <3>1. next + i - out - 1 \in 1..N
      BY <1>1, <1>2, <2>1
    <3> QED BY <1>1, <1>3, <2>1, <3>1
  <2>2. CASE i \notin out + 1 .. out + n
    BY <1>1, <1>3, <2>2
  <2> QED BY <2>1, <2>2
<1>5. u \in [1..N -> Characters]
  BY <1>3, <1>4
<1>6. u \in Seq(Characters) /\ Len(u) = N
  BY <1>1, <1>5, SeqDef
<1>7. ASSUME NEW i \in 1..out PROVE u[i] = uri[i]
  <2>1. i \in 1..N /\ i \notin out + 1 .. out + n
    BY <1>1, <1>2
  <2> QED BY <1>3, <2>1
<1>8. ASSUME NEW i \in 1..n PROVE u[out + i] = uri[next - 1 + i]
  <2> DEFINE k == out + i
  <2>1. k \in 1..N /\ k \in out + 1 .. out + n /\ next + k - out - 1 = next - 1 + i
    BY <1>1, <1>2
  <2> HIDE DEF k
  <2>2. u[k] = uri[next - 1 + i]
    BY <1>3, <2>1
  <2> QED BY <2>2 DEF k
<1>9. ASSUME NEW i \in next + n..N PROVE u[i] = uri[i]
  <2>1. i \in 1..N /\ i \notin out + 1 .. out + n
    BY <1>1, <1>2
  <2> QED BY <1>3, <2>1
<1> QED BY <1>6, <1>7, <1>8, <1>9 DEF MovesUp, N, u

(* What the output is then.                                                *)
OutputEnds(u, n, names, c) ==
    /\ n = Len(c) => SubSeq(u, 1, out + n) = Text(Append(names, c))
    /\ n = Len(c) + 1 /\ uri[next + Len(c)] = "/"
         => SubSeq(u, 1, out + n) = Text(Append(Append(names, c), <<>>))

StandsAtNext(c) == \A i \in 1..Len(c) : uri[next - 1 + i] = c[i]

LEMMA MovedOutput ==
    ASSUME uri \in Seq(Characters), out \in 1..Len(uri), next \in Nat, out < next,
           NEW n \in Nat, NEW u, MovesUp(u, n), next + n <= Len(uri) + 1,
           NEW names \in Seq(Component), NEW c \in Component,
           OutputIs(out, Append(names, <<>>)),
           StandsAtNext(c)
    PROVE  OutputEnds(u, n, names, c)
<1> DEFINE e == <<>>
           m == Len(c)
           x == Text(names)
           y == Text(Append(names, e))
           z == Text(Append(names, c))
           w == Text(Append(Append(names, c), e))
           a == Len(x)
           o == out
           N == Len(uri)
<1>1. e \in Component /\ e \in Seq(Characters) /\ Len(e) = 0 /\ Append(names, c) \in Seq(Component)
      /\ c \in Seq(Characters)
  BY ComponentFacts
<1>2. names \in Seq(Seq(Characters)) /\ Append(names, c) \in Seq(Seq(Characters))
  BY <1>1, ComponentFacts, SeqMonotonic
<1>3. x \in Seq(Characters) /\ z \in Seq(Characters)
  <2> HIDE DEF e
  <2> QED BY <1>2, TextType
<1>4. m \in Nat /\ a \in Nat /\ N \in Nat
  BY <1>1, <1>3
<1>5. /\ y = x \o (<<"/">> \o e)
      /\ z = x \o (<<"/">> \o c)
      /\ w = z \o (<<"/">> \o e)
  <2> HIDE DEF e
  <2> QED BY <1>1, <1>2, TextAppend DEF WithText
<1>6. SubSeq(uri, 1, o) = y /\ o \in 0..N /\ o \in Nat
  BY DEF OutputIs
<1>7. next + n <= N + 1 /\ o < next /\ next \in Nat
  OBVIOUS
<1>8. /\ u \in Seq(Characters) /\ Len(u) = N
      /\ \A i \in 1..o : u[i] = uri[i]
      /\ \A i \in 1..n : u[o + i] = uri[next - 1 + i]
  BY DEF MovesUp
<1>9. \A i \in 1..m : uri[next - 1 + i] = c[i]
  BY DEF StandsAtNext
<1> HIDE DEF e, x, y, z, w, o, N
<1>10. Len(y) = o /\ \A i \in 1..o : uri[i] = y[i]
  BY <1>6, PrefixGives DEF N
<1>11. EndsAfterSlash(y, x, e) /\ EndsAfterSlash(z, x, c) /\ EndsAfterSlash(w, z, e)
  BY <1>1, <1>3, <1>5, SlashAndComponent
<1>12. /\ Len(z) = a + 1 + m
       /\ \A i \in 1..a : z[i] = x[i]
       /\ z[a + 1] = "/"
       /\ \A i \in 1..m : z[a + 1 + i] = c[i]
       /\ Len(y) = a + 1 + 0
       /\ \A i \in 1..a : y[i] = x[i]
       /\ y[a + 1] = "/"
       /\ w \in Seq(Characters)
       /\ Len(w) = Len(z) + 1 + 0
       /\ \A i \in 1..Len(z) : w[i] = z[i]
       /\ w[Len(z) + 1] = "/"
  BY <1>1, <1>11 DEF EndsAfterSlash
<1> HIDE DEF a, m
<1>13. o = a + 1 /\ Len(z) = o + m /\ Len(w) = o + m + 1
  BY <1>4, <1>10, <1>12
<1>14. ASSUME NEW i \in 1..o PROVE u[i] = z[i]
  <2>1. i \in 1..a \/ i = a + 1
    BY <1>4, <1>13
  <2> QED BY <1>8, <1>10, <1>12, <2>1
<1>15. ASSUME m <= n, NEW i \in 1..o + m PROVE u[i] = z[i]
  <2>1. CASE i \in 1..o
    BY <1>14, <2>1
  <2>2. CASE i \notin 1..o
    <3> DEFINE d == i - o
    <3>1. d \in 1..m /\ d \in 1..n /\ o + d = i /\ a + 1 + d = i
      BY <1>4, <1>6, <1>13, <1>15, <2>2
    <3> HIDE DEF d
    <3>2. u[o + d] = c[d]
      BY <1>8, <1>9, <3>1
    <3>3. z[a + 1 + d] = c[d]
      BY <1>12, <3>1
    <3> QED BY <3>1, <3>2, <3>3
  <2> QED BY <2>1, <2>2
<1>16. ASSUME n = m PROVE SubSeq(u, 1, o + n) = z
  <2> DEFINE d == o + n
  <2>1. d = Len(z) /\ d <= Len(u) /\ m <= n
    <3>1. Len(u) = N
      BY <1>8
    <3>2. o + n <= N /\ m <= n
      BY <1>4, <1>6, <1>7, <1>16
    <3>3. o + n = Len(z)
      BY <1>13, <1>16
    <3> QED BY <3>1, <3>2, <3>3
  <2>2. \A i \in 1..d : u[i] = z[i]
    BY <1>15, <1>16, <2>1
  <2> HIDE DEF d
  <2>3. SubSeq(u, 1, d) = z
    BY <1>3, <1>8, <2>1, <2>2, PrefixIs
  <2> QED BY <2>3 DEF d
<1>17. ASSUME n = m + 1, uri[next + m] = "/"
       PROVE  SubSeq(u, 1, o + n) = w
  <2> DEFINE d == o + n
  <2>1. d = Len(w) /\ d <= Len(u) /\ m <= n /\ d = o + m + 1 /\ d = Len(z) + 1 /\ d \in Nat
    BY <1>4, <1>6, <1>7, <1>8, <1>13, <1>17
  <2>2. ASSUME NEW i \in 1..d PROVE u[i] = w[i]
    <3>1. CASE i \in 1..o + m
      <4>1. i \in 1..Len(z)
        BY <1>13, <3>1
      <4> QED BY <1>12, <1>15, <2>1, <3>1, <4>1
    <3>2. CASE i \notin 1..o + m
      <4>1. i = d /\ n \in 1..n /\ o + n = i /\ next - 1 + n = next + m
        BY <1>4, <1>6, <1>7, <1>17, <2>1, <3>2
      <4>2. u[o + n] = uri[next + m]
        BY <1>8, <4>1
      <4> QED BY <1>12, <1>17, <2>1, <4>1, <4>2
    <3> QED BY <3>1, <3>2
  <2> HIDE DEF d
  <2>3. SubSeq(u, 1, d) = w
    BY <1>8, <1>12, <2>1, <2>2, PrefixIs
  <2> QED BY <2>3 DEF d
<1> QED BY <1>16, <1>17 DEF OutputEnds, m, o, z, w, e

-----------------------------------------------------------------------------
(* The inductive invariant.  While the URI is normalized: what has not     *)
(* been read still stands as it came, and the output is what the           *)
(* components before it come to.  While it is walked: the path is the one  *)
(* the components up to some i name, none of them a reason to stop.        *)

AfterComponents(j) ==
    /\ next = Len(Text(Upto(request, j))) + 2
    /\ out \in 1..Len(uri) /\ out < next
    /\ OutputIs(out, Append(Kept(Upto(request, j)), <<>>))

AllNormalized ==
    /\ next = Len(uri) + 1 /\ out \in 1..Len(uri)
    /\ OutputIs(out, Resolved)

Normalizing ==
    /\ path = <<>> /\ exists = TRUE
    /\ uri \in Seq(Characters) /\ uri[1] = "/" /\ Len(uri) = Len(Text(request))
    /\ next \in 1..Len(uri) + 1
    /\ \A i \in next..Len(uri) : uri[i] = Text(request)[i]
    /\ \/ next = 1 /\ out = 0
       \/ \E j \in 0..Len(request) - 1 : AfterComponents(j)
       \/ AllNormalized

At(i) == PathTo(Upto(Resolved, i))
AllFolders(i) == \A k \in 0..i - 1 : At(k) \in Folders
StopsAt(i) == At(i) \in Files /\ AllFolders(i)

Reached(i) ==
    /\ path = At(i) /\ Names(Upto(Resolved, i)) \in Seq(Component)
    /\ exists = AllFolders(i)
    /\ \A k \in 1..i : Legal(Resolved[k])
    /\ \A k \in 0..i - 1 : ~StopsAt(k)
    /\ i < Len(Resolved) => next = Len(Text(Upto(Resolved, i))) + 2
    /\ i = Len(Resolved) => next = Len(uri) + 1 /\ Resolved[i] # <<>>

Walking ==
    /\ uri = Text(Resolved)
    /\ \E i \in 0..Len(Resolved) : Reached(i)

UriInv ==
    /\ request \in Requests \cup {<<>>}
    /\ step = "normalize" => /\ rest = <<>>
                             /\ IF request = <<>> THEN uri = <<"a">> ELSE Normalizing
    /\ step = "walk" => rest = <<>> /\ request # <<>> /\ Walking
    /\ PathExact

LEMMA UriStarts == UriInit => UriInv
<1> SUFFICES ASSUME UriInit PROVE UriInv
  OBVIOUS
<1>1. PathExact
  BY DEF UriInit, PathExact
<1>2. CASE request = <<>>
  BY <1>1, <1>2 DEF UriInit, UriInv
<1>3. CASE request \in Requests
  <2> DEFINE t == Text(request)
  <2>1. request \in Seq(Seq(Characters)) /\ request # <<>>
    BY <1>3, RequestFacts
  <2>2. t \in Seq(Characters) /\ Len(t) >= 1 /\ t[1] = "/"
    BY <2>1, TextType, TextBegins
  <2>3. uri = t /\ step = "normalize" /\ next = 1 /\ out = 0 /\ path = <<>> /\ exists = TRUE /\ rest = <<>>
    BY <2>1 DEF UriInit
  <2> HIDE DEF t
  <2>4. next \in 1..Len(uri) + 1
    BY <2>2, <2>3
  <2>5. Normalizing
    BY <2>2, <2>3, <2>4 DEF Normalizing, t
  <2> QED BY <1>1, <1>3, <2>1, <2>3, <2>5 DEF UriInv
<1> QED BY <1>2, <1>3 DEF UriInit

LEMMA OneDotOrTwo == <<".">> # <<".", ".">>
<1>1. Len(<<".">>) = 1 /\ Len(<<".", ".">>) = 2
  OBVIOUS
<1> QED BY <1>1

(* What component j + 1 leaves: the URI u, the output o, the position k.    *)
Leaves(j, u, o, k) ==
    /\ u \in Seq(Characters) /\ u[1] = "/" /\ Len(u) = Len(uri)
    /\ k \in 1..Len(u) + 1 /\ k > next /\ o \in 1..Len(u) /\ o < k
    /\ \A i \in k..Len(u) : u[i] = uri[i]
    /\ j + 1 < Len(request) =>
         /\ k = Len(Text(Upto(request, j + 1))) + 2
         /\ SubSeq(u, 1, o) = Text(Append(Kept(Upto(request, j + 1)), <<>>))
    /\ j + 1 = Len(request) => k = Len(u) + 1 /\ SubSeq(u, 1, o) = Text(Resolved)

LEMMA MovedLeaves ==
    ASSUME request \in Requests, NEW j \in 0..Len(request), j < Len(request),
           Normalizing, AfterComponents(j), Reads(request, j, next), next <= Len(uri),
           NEW c, c = request[j + 1], c \notin Dots,
           NEW n, n = AfterSlash(next) - next
    PROVE  Leaves(j, Moved(n), out + n, AfterSlash(next))
<1> DEFINE k == Kept(Upto(request, j))
           u == Moved(n)
           N == Len(uri)
           m == Len(c)
           z == AfterSlash(next)
           more == j + 1 < Len(request)
           last == j + 1 = Len(request)
<1>1. k \in Seq(Component) /\ c \in Component
      /\ Kept(Upto(request, j + 1)) = WithComponent(k, c)
  BY KeptFacts
<1>2. WithComponent(k, c) = Append(k, c)
  BY DEF WithComponent, Dots
<1>3. last => Resolved = Append(k, c)
  <2>1. j \in Nat
    OBVIOUS
  <2> HIDE DEF k
  <2>2. k = Kept(Upto(request, j))
    BY DEF k
  <2>3. ASSUME last
        PROVE Resolved = IF c = <<".">> THEN Append(k, <<>>)
                         ELSE IF c = <<".", ".">> THEN Append(ButLast(k), <<>>)
                         ELSE Append(k, c)
    BY <2>1, <2>2, <2>3, ResolvedFacts
  <2> QED BY <2>3 DEF Dots
<1>4. (more \/ last) /\ ~(more /\ last)
  <2>1. Len(request) \in Nat /\ j \in Nat
    BY RequestFacts
  <2> QED BY <2>1
<1>5. /\ uri \in Seq(Characters) /\ uri[1] = "/" /\ next \in Nat /\ N \in Nat
      /\ out \in 1..N /\ out < next /\ next <= N
  BY DEF Normalizing, AfterComponents
<1>6. /\ m \in Nat
      /\ \A i \in 1..m : uri[next - 1 + i] = c[i]
      /\ more => /\ z = Len(Text(Upto(request, j + 1))) + 2
                 /\ z = next + m + 1 /\ next + m <= N /\ uri[next + m] = "/"
      /\ last => z = N + 1 /\ N + 1 = next + m
  BY DEF Reads
<1>7. n = z - next
  OBVIOUS
<1>8. OutputIs(out, Append(k, <<>>))
  BY DEF AfterComponents
<1> HIDE DEF k, u, N, m, z, more, last
<1>9. /\ n \in Nat /\ next + n = z /\ z <= N + 1 /\ z \in 1..N + 1
      /\ more => n = m + 1
      /\ last => n = m /\ z = N + 1
  <2>1. CASE more
    <3>1. z = next + m + 1 /\ next + m <= N /\ ~last /\ m \in Nat
      BY <1>4, <1>6, <2>1
    <3>2. next \in Nat /\ N \in Nat /\ next <= N
      BY <1>5
    <3>3. n \in Nat /\ next + n = z /\ z <= N + 1 /\ z \in 1..N + 1 /\ n = m + 1
      BY <1>7, <3>1, <3>2
    <3> QED BY <3>1, <3>3
  <2>2. CASE last
    <3>1. z = N + 1 /\ N + 1 = next + m /\ ~more /\ m \in Nat
      BY <1>4, <1>6, <2>2
    <3>2. next \in Nat /\ N \in Nat /\ next <= N
      BY <1>5
    <3>3. n \in Nat /\ next + n = z /\ z <= N + 1 /\ z \in 1..N + 1 /\ n = m
      BY <1>7, <3>1, <3>2
    <3> QED BY <3>1, <3>3
  <2> QED BY <1>4, <2>1, <2>2
<1>10. z > next
  <2>1. CASE more
    BY <1>5, <1>6, <2>1
  <2>2. CASE last
    BY <1>5, <1>6, <2>2
  <2> QED BY <1>4, <2>1, <2>2
<1>11. MovesUp(u, n)
  BY <1>5, <1>9, MovedUp DEF N, u
<1>12. /\ n = m => SubSeq(u, 1, out + n) = Text(Append(k, c))
       /\ n = m + 1 /\ uri[next + m] = "/" => SubSeq(u, 1, out + n) = Text(Append(Append(k, c), <<>>))
  <2>1. StandsAtNext(c)
    BY <1>6 DEF StandsAtNext, m
  <2>2. out \in 1..Len(uri) /\ next + n <= Len(uri) + 1
    BY <1>5, <1>9 DEF N
  <2>3. OutputEnds(u, n, k, c)
    BY <1>1, <1>5, <1>8, <1>9, <1>11, <2>1, <2>2, MovedOutput
  <2> QED BY <2>3 DEF OutputEnds, m
<1>13. /\ u \in Seq(Characters) /\ Len(u) = N
       /\ \A i \in 1..out : u[i] = uri[i]
       /\ \A i \in z..Len(u) : u[i] = uri[i]
  BY <1>9, <1>11 DEF MovesUp, N
<1>14. u[1] = "/"
  BY <1>5, <1>13
<1>15. out + n \in 1..N /\ out + n < z
  BY <1>5, <1>9
<1>16. more => SubSeq(u, 1, out + n) = Text(Append(Kept(Upto(request, j + 1)), <<>>))
  BY <1>1, <1>2, <1>6, <1>9, <1>12
<1>17. last => SubSeq(u, 1, out + n) = Text(Resolved)
  BY <1>3, <1>9, <1>12
<1> QED BY <1>6, <1>9, <1>10, <1>13, <1>14, <1>15, <1>16, <1>17 DEF Leaves, u, N, z, more, last

LEMMA DotsLeave ==
    ASSUME request \in Requests, NEW j \in 0..Len(request), j < Len(request),
           Normalizing, AfterComponents(j), Reads(request, j, next), next <= Len(uri),
           NEW c, c = request[j + 1]
    PROVE  /\ c = <<".">> => Leaves(j, uri, out, AfterSlash(next))
           /\ c = <<".", ".">> => Leaves(j, uri, Back(out), AfterSlash(next))
<1> DEFINE k == Kept(Upto(request, j))
           N == Len(uri)
           m == Len(c)
           z == AfterSlash(next)
           more == j + 1 < Len(request)
           last == j + 1 = Len(request)
<1>1. k \in Seq(Component)
      /\ Kept(Upto(request, j + 1)) = WithComponent(k, c)
  BY KeptFacts
<1>2. /\ c = <<".">> => WithComponent(k, c) = k
      /\ c = <<".", ".">> => WithComponent(k, c) = ButLast(k)
  BY OneDotOrTwo DEF WithComponent
<1>3. last => /\ c = <<".">> => Resolved = Append(k, <<>>)
              /\ c = <<".", ".">> => Resolved = Append(ButLast(k), <<>>)
  <2>1. j \in Nat
    OBVIOUS
  <2> HIDE DEF k
  <2>2. k = Kept(Upto(request, j))
    BY DEF k
  <2>3. ASSUME last
        PROVE Resolved = IF c = <<".">> THEN Append(k, <<>>)
                         ELSE IF c = <<".", ".">> THEN Append(ButLast(k), <<>>)
                         ELSE Append(k, c)
    BY <2>1, <2>2, <2>3, ResolvedFacts
  <2> QED BY <2>3, OneDotOrTwo
<1>4. (more \/ last) /\ ~(more /\ last)
  <2>1. Len(request) \in Nat /\ j \in Nat
    BY RequestFacts
  <2> QED BY <2>1
<1>5. /\ uri \in Seq(Characters) /\ uri[1] = "/" /\ next \in Nat /\ N \in Nat
      /\ out \in 1..N /\ out < next /\ next <= N
  BY DEF Normalizing, AfterComponents
<1>6. /\ m \in Nat
      /\ more => /\ z = Len(Text(Upto(request, j + 1))) + 2
                 /\ z = next + m + 1 /\ next + m <= N
      /\ last => z = N + 1 /\ N + 1 = next + m
  BY DEF Reads
<1>7. OutputIs(out, Append(k, <<>>))
  BY DEF AfterComponents
<1>8. Back(out) \in 1..out /\ OutputIs(Back(out), Append(ButLast(k), <<>>))
  <2> HIDE DEF k
  <2> QED BY <1>1, <1>5, <1>7, BackFacts DEF N
<1> HIDE DEF k, N, m, z, more, last
<1>9. z \in 1..N + 1 /\ z > next /\ (last => z = N + 1)
  <2>1. CASE more
    BY <1>4, <1>5, <1>6, <2>1
  <2>2. CASE last
    BY <1>4, <1>5, <1>6, <2>2
  <2> QED BY <1>4, <2>1, <2>2
<1>10. ASSUME NEW o \in 1..out PROVE o \in 1..N /\ o < z
  BY <1>5, <1>9
<1>11. Back(out) \in 1..N /\ Back(out) < z /\ out \in 1..N /\ out < z
  <2>1. out \in 1..out
    BY <1>5
  <2> QED BY <1>8, <1>10, <2>1
<1>12. ASSUME c = <<".">> PROVE Leaves(j, uri, out, z)
  <2>1. SubSeq(uri, 1, out) = Text(Append(k, <<>>))
    BY <1>7 DEF OutputIs
  <2>2. more => SubSeq(uri, 1, out) = Text(Append(Kept(Upto(request, j + 1)), <<>>))
    BY <1>1, <1>2, <1>12, <2>1
  <2>3. last => SubSeq(uri, 1, out) = Text(Resolved)
    BY <1>3, <1>12, <2>1
  <2> QED BY <1>5, <1>6, <1>9, <1>11, <2>2, <2>3 DEF Leaves, N, more, last
<1>13. ASSUME c = <<".", ".">> PROVE Leaves(j, uri, Back(out), z)
  <2> DEFINE b == Back(out)
  <2>1. SubSeq(uri, 1, b) = Text(Append(ButLast(k), <<>>))
    BY <1>8 DEF OutputIs
  <2>2. b \in 1..N /\ b < z
    BY <1>11
  <2> HIDE DEF b
  <2>3. more => SubSeq(uri, 1, b) = Text(Append(Kept(Upto(request, j + 1)), <<>>))
    BY <1>1, <1>2, <1>13, <2>1
  <2>4. last => SubSeq(uri, 1, b) = Text(Resolved)
    BY <1>3, <1>13, <2>1
  <2>5. Leaves(j, uri, b, z)
    BY <1>5, <1>6, <1>9, <2>2, <2>3, <2>4 DEF Leaves, N, more, last
  <2> QED BY <2>5 DEF b
<1> QED BY <1>12, <1>13 DEF z

(* The slash that the URI begins with is moved onto itself.                *)
LEMMA FirstSlash ==
    ASSUME request \in Requests, Normalizing, next = 1, out = 0
    PROVE  /\ ComponentFrom(next) = <<>> /\ AfterSlash(next) = 2
           /\ Moved(1) \in Seq(Characters) /\ Len(Moved(1)) = Len(uri) /\ Moved(1)[1] = "/"
           /\ \A i \in 2..Len(uri) : Moved(1)[i] = uri[i]
           /\ 2 = Len(Text(Upto(request, 0))) + 2
           /\ SubSeq(Moved(1), 1, 1) = Text(Append(Kept(Upto(request, 0)), <<>>))
           /\ 1 <= Len(uri)
<1> DEFINE e == <<>>
           u == Moved(1)
           N == Len(uri)
           y == Text(Append(e, e))
<1>1. e \in Component /\ e \in Seq(Characters) /\ Len(e) = 0 /\ e \in Seq(Seq(Characters))
  BY ComponentFacts
<1>2. uri \in Seq(Characters) /\ uri[1] = "/" /\ N \in Nat /\ N = Len(Text(request))
  BY DEF Normalizing
<1>3. N >= 1
  BY <1>2, RequestFacts, TextBegins
<1>4. Upto(request, 0) = e
  <2>1. 0 \in 0..Len(request) /\ request \in Seq(Component)
    BY RequestFacts
  <2> QED BY <2>1, UptoFacts
<1>5. Text(e) = e /\ Kept(e) = e
  BY TextOfNothing, KeptOfNothing
<1>6. y = e \o (<<"/">> \o e)
  <2> HIDE DEF e
  <2> QED BY <1>1, <1>5, TextAppend DEF WithText
<1> HIDE DEF e, N
<1>7. ComponentFrom(next) = e /\ AfterSlash(next) = 2
  <2>1. \A i \in 1..Len(e) : uri[next - 1 + i] = e[i]
    BY <1>1
  <2>2. next + Len(e) = 1 /\ next \in Nat /\ next >= 1 /\ 1 <= N /\ 1 <= N + 1
    BY <1>1, <1>2, <1>3
  <2>3. /\ ComponentFrom(next) = e
        /\ AfterSlash(next) = IF next + Len(e) <= Len(uri) THEN next + Len(e) + 1 ELSE Len(uri) + 1
    BY <1>1, <1>2, <2>1, <2>2, ComponentFound DEF N
  <2> QED BY <2>2, <2>3 DEF N
<1>8. MovesUp(u, 1)
  <2>1. next + 1 <= Len(uri) + 1 /\ out \in Nat /\ next \in Nat /\ out < next /\ 1 \in Nat
    BY <1>2, <1>3 DEF N
  <2> QED BY <1>2, <2>1, MovedUp
<1> HIDE DEF u
<1>9. /\ u \in Seq(Characters) /\ Len(u) = N /\ u[1] = "/"
      /\ \A i \in 2..N : u[i] = uri[i]
  <2>1. /\ u \in Seq(Characters) /\ Len(u) = N
        /\ \A i \in 1..1 : u[0 + i] = uri[1 - 1 + i]
        /\ \A i \in 1 + 1..Len(u) : u[i] = uri[i]
    BY <1>8 DEF MovesUp, N
  <2>2. 1 \in 1..1 /\ 0 + 1 = 1 /\ 1 - 1 + 1 = 1 /\ 1 + 1 = 2
    OBVIOUS
  <2> QED BY <1>2, <2>1, <2>2
<1> HIDE DEF y
<1>10. EndsAfterSlash(y, e, e)
  BY <1>1, <1>6, SlashAndComponent
<1>11. y \in Seq(Characters) /\ Len(y) = 1 /\ y[1] = "/"
  BY <1>1, <1>10 DEF EndsAfterSlash
<1>12. SubSeq(u, 1, 1) = y
  <2>1. 1 = Len(y) /\ 1 <= Len(u) /\ \A i \in 1..1 : u[i] = y[i]
    BY <1>3, <1>9, <1>11
  <2> QED BY <1>9, <1>11, <2>1, PrefixIs
<1>13. Len(Text(Upto(request, 0))) = 0
  BY <1>1, <1>4, <1>5
<1>14. Kept(Upto(request, 0)) = e
  BY <1>4, <1>5
<1>15. SubSeq(u, 1, 1) = Text(Append(Kept(Upto(request, 0)), e))
  BY <1>12, <1>14 DEF y
<1>16. 2 = Len(Text(Upto(request, 0))) + 2 /\ 1 <= N
  BY <1>2, <1>3, <1>13
<1> QED BY <1>7, <1>9, <1>15, <1>16 DEF e, u, N

LEMMA MeaningStays ==
    ASSUME request' = request
    PROVE  Resolved' = Resolved /\ Stop' = Stop
<1>1. Resolved' = Resolved
  BY DEF Resolved
<1> QED BY <1>1 DEF Stop

(* One step of the normalization. *)
LEMMA NormalizeKeeps ==
    ASSUME UriInv, NormalizeComponent
    PROVE  UriInv'
<1> USE DEF NormalizeComponent
<1>1. request \in Requests /\ Normalizing /\ rest = <<>> /\ request # <<>>
  <2>1. uri[1] = "/" /\ step = "normalize"
    OBVIOUS
  <2>2. request # <<>>
    BY <2>1 DEF UriInv
  <2> QED BY <2>1, <2>2 DEF UriInv
<1>2. /\ request' = request /\ step' = step /\ path' = path /\ exists' = exists /\ rest' = rest
      /\ step = "normalize" /\ next' = AfterSlash(next) /\ next <= Len(uri)
  OBVIOUS
<1>3. Resolved' = Resolved
  BY <1>2, MeaningStays
<1> SUFFICES Normalizing'
  BY <1>1, <1>2 DEF UriInv, PathExact
<1>4. CASE next = 1 /\ out = 0
  <2>1. /\ ComponentFrom(next) = <<>> /\ AfterSlash(next) = 2
        /\ Moved(1) \in Seq(Characters) /\ Len(Moved(1)) = Len(uri) /\ Moved(1)[1] = "/"
        /\ \A i \in 2..Len(uri) : Moved(1)[i] = uri[i]
        /\ 2 = Len(Text(Upto(request, 0))) + 2
        /\ SubSeq(Moved(1), 1, 1) = Text(Append(Kept(Upto(request, 0)), <<>>))
        /\ 1 <= Len(uri)
    BY <1>1, <1>4, FirstSlash
  <2>2. AfterSlash(next) - next = 1 /\ out + 1 = 1
    BY <1>4, <2>1
  <2>3. <<>> # <<".">> /\ <<>> # <<".", ".">>
    OBVIOUS
  <2>4. uri' = Moved(1) /\ out' = 1 /\ next' = 2
    BY <2>1, <2>2, <2>3 DEF Moved
  <2> DEFINE u == Moved(1)
  <2> HIDE DEF u
  <2>5. /\ u \in Seq(Characters) /\ Len(u) = Len(uri) /\ u[1] = "/"
        /\ \A i \in 2..Len(uri) : u[i] = uri[i]
        /\ SubSeq(u, 1, 1) = Text(Append(Kept(Upto(request, 0)), <<>>))
        /\ uri' = u
    BY <2>1, <2>4 DEF u
  <2>6. /\ Len(uri) \in Nat /\ Len(uri) = Len(Text(request)) /\ path = <<>> /\ exists = TRUE
        /\ \A i \in next..Len(uri) : uri[i] = Text(request)[i]
    BY <1>1 DEF Normalizing
  <2>7. 2 \in 1..Len(u) + 1 /\ 1 \in 1..Len(u) /\ \A i \in 2..Len(u) : i \in next..Len(uri)
    BY <1>4, <2>1, <2>5, <2>6
  <2>8. 0 \in 0..Len(request) - 1
    BY <1>1, RequestFacts
  <2>9. AfterComponents(0)'
    BY <1>2, <2>1, <2>4, <2>5, <2>7 DEF AfterComponents, OutputIs
  <2>10. \A i \in 2..Len(u) : u[i] = Text(request)[i]
    BY <2>5, <2>6, <2>7
  <2> QED BY <1>2, <2>4, <2>5, <2>6, <2>7, <2>8, <2>9, <2>10 DEF Normalizing
<1>5. ASSUME NEW j \in 0..Len(request) - 1, AfterComponents(j)
      PROVE  Normalizing'
  <2>1. j \in 0..Len(request) /\ j < Len(request) /\ Len(request) \in Nat /\ j \in Nat
    BY <1>1, RequestFacts
  <2> DEFINE c == request[j + 1]
             k == AfterSlash(next)
             n == k - next
  <2>2. Reads(request, j, next)
    <3>1. /\ uri \in Seq(Characters) /\ Len(uri) = Len(Text(request))
          /\ \A i \in next..Len(uri) : uri[i] = Text(request)[i]
      BY <1>1 DEF Normalizing
    <3>2. request \in Seq(Component) /\ next = Len(Text(Upto(request, j))) + 2
      BY <1>1, <1>5, RequestFacts DEF AfterComponents
    <3> QED BY <2>1, <3>1, <3>2, NextComponent
  <2>3. ComponentFrom(next) = c
    BY <2>2 DEF Reads
  <2>4. /\ c \notin Dots => Leaves(j, Moved(n), out + n, k)
        /\ c = <<".">> => Leaves(j, uri, out, k)
        /\ c = <<".", ".">> => Leaves(j, uri, Back(out), k)
    <3> HIDE DEF c, n
    <3>1. c = request[j + 1] /\ n = AfterSlash(next) - next
      BY DEF c, n
    <3> QED BY <1>1, <1>2, <1>5, <2>1, <2>2, <3>1, MovedLeaves, DotsLeave
  <2>5. Leaves(j, uri', out', k)
    <3>1. CASE c = <<".">>
      BY <2>3, <2>4, <3>1
    <3>2. CASE c = <<".", ".">>
      BY <2>3, <2>4, <3>2, OneDotOrTwo
    <3>3. CASE c \notin Dots
      <4>1. uri' = Moved(n) /\ out' = out + n
        BY <2>3, <3>3 DEF Moved, Dots
      <4> QED BY <2>4, <3>3, <4>1
    <3> QED BY <3>1, <3>2, <3>3 DEF Dots
  <2> DEFINE u == uri'
             o == out'
  <2>6. next' = k
    BY <1>2
  <2> HIDE DEF u, o, k, c
  <2>7. /\ u \in Seq(Characters) /\ u[1] = "/" /\ Len(u) = Len(uri)
        /\ k \in 1..Len(u) + 1 /\ k > next /\ o \in 1..Len(u) /\ o < k
        /\ \A i \in k..Len(u) : u[i] = uri[i]
        /\ j + 1 < Len(request) =>
             /\ k = Len(Text(Upto(request, j + 1))) + 2
             /\ SubSeq(u, 1, o) = Text(Append(Kept(Upto(request, j + 1)), <<>>))
        /\ j + 1 = Len(request) => k = Len(u) + 1 /\ SubSeq(u, 1, o) = Text(Resolved)
    BY <2>5 DEF Leaves, u, o
  <2>8. /\ Len(uri) \in Nat /\ Len(uri) = Len(Text(request)) /\ path = <<>> /\ exists = TRUE
        /\ next \in Nat
        /\ \A i \in next..Len(uri) : uri[i] = Text(request)[i]
    BY <1>1 DEF Normalizing
  <2>9. \A i \in k..Len(u) : u[i] = Text(request)[i]
    <3>1. \A i \in k..Len(u) : i \in next..Len(uri)
      BY <2>7, <2>8
    <3> QED BY <2>7, <2>8, <3>1
  <2>10. CASE j + 1 < Len(request)
    <3> DEFINE l == j + 1
    <3>1. l \in 0..Len(request) - 1
      BY <2>1, <2>10
    <3>2. /\ k = Len(Text(Upto(request, l))) + 2
          /\ SubSeq(u, 1, o) = Text(Append(Kept(Upto(request, l)), <<>>))
      BY <2>7, <2>10
    <3> HIDE DEF l
    <3>3. AfterComponents(l)'
      BY <1>2, <2>6, <2>7, <3>2 DEF AfterComponents, OutputIs, u, o
    <3> QED BY <1>2, <2>6, <2>7, <2>8, <2>9, <3>1, <3>3 DEF Normalizing, u
  <2>11. CASE j + 1 = Len(request)
    <3>1. AllNormalized'
      BY <1>3, <2>6, <2>7, <2>11 DEF AllNormalized, OutputIs, u, o
    <3> QED BY <1>2, <2>6, <2>7, <2>8, <2>9, <3>1 DEF Normalizing, u
  <2> QED BY <2>1, <2>10, <2>11
<1>6. ~AllNormalized
  <2>1. Len(uri) \in Nat
    BY <1>1 DEF Normalizing
  <2> QED BY <1>2, <2>1 DEF AllNormalized
<1> QED BY <1>1, <1>4, <1>5, <1>6 DEF Normalizing

LEMMA RefuseKeeps ==
    ASSUME UriInv, Refuse
    PROVE  UriInv'
<1>1. request = <<>>
  <2>1. step = "normalize" /\ uri[1] # "/"
    BY DEF Refuse
  <2> QED BY <2>1 DEF UriInv, Normalizing
<1>2. request' = request /\ step' = "bad"
  BY DEF Refuse
<1> QED BY <1>1, <1>2 DEF UriInv, PathExact

(* When nothing is left to be read, all of the output is there.            *)
LEMMA NormalizedOutput ==
    ASSUME request \in Requests, Normalizing, next > Len(uri)
    PROVE  out \in 1..Len(uri) /\ OutputIs(out, Resolved)
<1> DEFINE N == Len(uri)
<1>1. request \in Seq(Component) /\ request \in Seq(Seq(Characters)) /\ request # <<>>
      /\ Len(request) \in Nat
  BY RequestFacts
<1>2. N \in Nat /\ N = Len(Text(request)) /\ next = N + 1
  BY DEF Normalizing
<1>3. N >= 1
  BY <1>1, <1>2, TextBegins
<1>4. ASSUME NEW j \in 0..Len(request) - 1, AfterComponents(j)
      PROVE  out \in 1..Len(uri) /\ OutputIs(out, Resolved)
  <2> DEFINE c == request[j + 1]
             k == Kept(Upto(request, j))
             a == Len(Text(Upto(request, j)))
  <2>1. j \in 0..Len(request) /\ j < Len(request) /\ j \in Nat
    BY <1>1
  <2>2. StandsAt(request, j, a, c)
    BY <1>1, <2>1, Layout
  <2>3. a \in Nat /\ c \in Seq(Characters) /\ next = a + 2
        /\ (j + 1 < Len(request) => Len(Text(request)) >= a + Len(c) + 2)
        /\ (j + 1 = Len(request) => Len(Text(request)) = a + 1 + Len(c))
    BY <1>4, <2>2 DEF StandsAt, AfterComponents
  <2>4. Len(c) \in Nat
    BY <2>3
  <2> HIDE DEF a, c, k, N
  <2>5. j + 1 = Len(request)
    <3>1. N + 1 = a + 2
      BY <1>2, <2>3
    <3>2. ~(N >= a + Len(c) + 2)
      BY <1>2, <2>3, <2>4, <3>1
    <3>3. ~(j + 1 < Len(request))
      BY <1>2, <2>3, <3>2
    <3> QED BY <1>1, <2>1, <3>3
  <2>6. Len(c) = 0
    BY <1>2, <2>3, <2>4, <2>5
  <2>7. c = <<>>
    BY <2>3, <2>6, EmptySeq
  <2>8. c # <<".">> /\ c # <<".", ".">>
    BY <2>7
  <2>9. Resolved = IF c = <<".">> THEN Append(k, <<>>)
                   ELSE IF c = <<".", ".">> THEN Append(ButLast(k), <<>>)
                   ELSE Append(k, c)
    <3>1. k = Kept(Upto(request, j)) /\ c = request[j + 1]
      BY DEF k, c
    <3> QED BY <2>1, <2>5, <3>1, ResolvedFacts
  <2>10. Resolved = Append(k, <<>>)
    BY <2>7, <2>8, <2>9
  <2> QED BY <1>4, <2>10 DEF AfterComponents, k
<1>5. next # 1
  BY <1>2, <1>3
<1> QED BY <1>4, <1>5 DEF Normalizing, AllNormalized

(* Where the walk begins.                                                  *)
LEMMA NowhereYet ==
    ASSUME request \in Requests
    PROVE  /\ At(0) = <<>> /\ Names(Upto(Resolved, 0)) \in Seq(Component)
           /\ AllFolders(0) /\ Len(Text(Upto(Resolved, 0))) = 0
<1>1. Upto(Resolved, 0) = <<>>
  <2> DEFINE R == Resolved
  <2>1. R \in Seq(Component)
    BY ResolvedType
  <2>2. 0 \in 0..Len(R)
    BY <2>1
  <2> HIDE DEF R
  <2>3. Upto(R, 0) = <<>>
    BY <2>1, <2>2, UptoFacts
  <2> QED BY <2>3 DEF R
<1>2. Names(<<>>) = <<>> /\ Text(<<>>) = <<>> /\ Len(<<>>) = 0 /\ <<>> \in Seq(Component)
  BY NamesOfNothing, TextOfNothing
<1>3. 0..0 - 1 = {}
  OBVIOUS
<1> QED BY <1>1, <1>2, <1>3 DEF At, PathTo, AllFolders

LEMMA NormalizedKeeps ==
    ASSUME UriInv, Normalized
    PROVE  UriInv'
<1>1. request \in Requests /\ Normalizing /\ rest = <<>> /\ request # <<>>
  <2>1. uri[1] = "/" /\ step = "normalize"
    BY DEF Normalized
  <2>2. request # <<>>
    BY <2>1 DEF UriInv
  <2> QED BY <2>1, <2>2 DEF UriInv
<1>2. /\ request' = request /\ step' = "walk" /\ next' = 2 /\ rest' = rest
      /\ path' = path /\ exists' = exists
      /\ uri' = IF out = 0 THEN <<"/">> ELSE SubSeq(uri, 1, out)
      /\ next > Len(uri)
  BY DEF Normalized
<1>3. out \in 1..Len(uri) /\ OutputIs(out, Resolved)
  BY <1>1, <1>2, NormalizedOutput
<1>4. uri' = Text(Resolved)
  <2>1. out # 0
    BY <1>3
  <2> QED BY <1>2, <1>3, <2>1 DEF OutputIs
<1>5. Resolved' = Resolved
  BY <1>2, MeaningStays
<1>6. path = <<>> /\ exists = TRUE
  BY <1>1 DEF Normalizing
<1>7. /\ At(0) = <<>> /\ Names(Upto(Resolved, 0)) \in Seq(Component)
      /\ AllFolders(0) /\ Len(Text(Upto(Resolved, 0))) = 0
  BY <1>1, NowhereYet
<1>8. Len(Resolved) \in Nat /\ Len(Resolved) >= 1
  BY <1>1, ResolvedType
<1>9. 0 \in 0..Len(Resolved) /\ 0 < Len(Resolved) /\ 0 # Len(Resolved) /\ 0..0 - 1 = {} /\ 1..0 = {}
  BY <1>8
<1>10. Reached(0)'
  <2>1. path' = At(0)'
    BY <1>2, <1>5, <1>6, <1>7 DEF At
  <2>2. exists' = AllFolders(0)'
    <3>1. AllFolders(0)'
      BY <1>9 DEF AllFolders
    <3>2. exists' = TRUE
      BY <1>2, <1>6
    <3>3. AllFolders(0)' = TRUE
      BY <3>1 DEF AllFolders
    <3> QED BY <3>2, <3>3
  <2>3. (Names(Upto(Resolved, 0)) \in Seq(Component))'
    BY <1>5, <1>7
  <2>4. (next = Len(Text(Upto(Resolved, 0))) + 2)'
    BY <1>2, <1>5, <1>7
  <2>5. (\A k \in 1..0 : Legal(Resolved[k]))' /\ (\A k \in 0..0 - 1 : ~StopsAt(k))'
    BY <1>9
  <2> QED BY <1>5, <1>9, <2>1, <2>2, <2>3, <2>4, <2>5 DEF Reached
<1>11. Walking'
  BY <1>4, <1>5, <1>9, <1>10 DEF Walking
<1>12. PathExact'
  BY <1>2, <1>4, <1>5 DEF PathExact
<1> QED BY <1>1, <1>2, <1>11, <1>12 DEF UriInv

-----------------------------------------------------------------------------
(* The walk, one component at a time.                                      *)

LEMMA LegalName ==
    ASSUME NEW c \in Seq(Characters), "/" \notin ToSet(Decode(c))
    PROVE  Decode(c) \in Component
<1> DEFINE d == Decode(c)
<1>1. d \in Seq(Characters)
  BY DecodeType
<1>2. \A i \in 1..Len(d) : d[i] # "/"
  <2> HIDE DEF d
  <2>1. DOMAIN d = 1..Len(d) /\ "/" \notin ToSet(d)
    BY <1>1 DEF d
  <2> QED BY <2>1 DEF ToSet
<1> HIDE DEF d
<1>3. d \in [1..Len(d) -> Characters \ {"/"}] /\ Len(d) \in Nat
  BY <1>1, <1>2
<1>4. d \in Seq(Characters \ {"/"})
  BY <1>3, SeqDef
<1> QED BY <1>4 DEF d, Component

LEMMA ComponentOfResolved ==
    ASSUME request \in Requests, NEW i \in 0..Len(Resolved), i < Len(Resolved)
    PROVE  /\ Resolved[i + 1] \in Component /\ Resolved[i + 1] \in Seq(Characters)
           /\ Upto(Resolved, i) \in Seq(Seq(Characters))
           /\ Upto(Resolved, i + 1) = Append(Upto(Resolved, i), Resolved[i + 1])
<1> DEFINE R == Resolved
<1>1. R \in Seq(Component) /\ R \in Seq(Seq(Characters))
  BY ResolvedType
<1>2. i + 1 \in 1..Len(R) /\ i \in 0..Len(R) /\ i < Len(R)
  OBVIOUS
<1> HIDE DEF R
<1>3. R[i + 1] \in Component /\ R[i + 1] \in Seq(Characters)
  BY <1>1, <1>2
<1>4. Upto(R, i + 1) = Append(Upto(R, i), R[i + 1])
  BY <1>1, <1>2, UptoFacts
<1>5. Upto(R, i) \in Seq(Seq(Characters))
  <2> DEFINE S == Seq(Characters)
  <2>1. R \in Seq(S)
    BY <1>1
  <2> HIDE DEF S
  <2>2. Upto(R, i) \in Seq(S)
    BY <1>2, <2>1, UptoFacts
  <2> QED BY <2>2 DEF S
<1> QED BY <1>3, <1>4, <1>5 DEF R

(* The path that one more component leads to, as the code computes it.     *)
LEMMA OneMoreName ==
    ASSUME request \in Requests, NEW i \in 0..Len(Resolved), i < Len(Resolved),
           Names(Upto(Resolved, i)) \in Seq(Component),
           NEW c, c = Resolved[i + 1], Legal(c)
    PROVE  /\ Names(Upto(Resolved, i + 1)) \in Seq(Component)
           /\ At(i + 1) = IF c = <<>> \/ Decode(c) = <<".">> THEN At(i)
                          ELSE IF Decode(c) = <<".", ".">> THEN Parent(At(i))
                          ELSE At(i) \o <<"/">> \o Decode(c)
<1> DEFINE q == Names(Upto(Resolved, i))
           d == Decode(c)
           w == WithName(q, c)
<1>1. /\ c \in Component /\ c \in Seq(Characters)
      /\ Upto(Resolved, i) \in Seq(Seq(Characters))
      /\ Upto(Resolved, i + 1) = Append(Upto(Resolved, i), c)
  BY ComponentOfResolved
<1>2. Names(Upto(Resolved, i + 1)) = w
  BY <1>1, NamesAppend
<1>3. w = IF c = <<>> \/ d = <<".">> THEN q
          ELSE IF d = <<".", ".">> THEN ButLast(q)
          ELSE Append(q, d)
  BY DEF WithName
<1>4. q \in Seq(Component) /\ q \in Seq(Seq(Characters))
  BY ComponentFacts, SeqMonotonic
<1>5. At(i) = Text(q) /\ At(i + 1) = Text(w)
  BY <1>2 DEF At, PathTo
<1>6. d \in Seq(Characters) /\ (c # <<>> => d \in Component)
  <2>1. ASSUME c # <<>> PROVE d \in Component
    <3>1. "/" \notin ToSet(d)
      BY <2>1 DEF Legal
    <3> QED BY <1>1, <3>1, LegalName
  <2> QED BY <1>1, <2>1, DecodeType
<1> HIDE DEF q, d, w
<1>7. CASE c = <<>> \/ d = <<".">>
  <2>1. w = q
    BY <1>3, <1>7
  <2> QED BY <1>2, <1>4, <1>5, <1>7, <2>1 DEF d
<1>8. CASE ~(c = <<>> \/ d = <<".">>) /\ d = <<".", ".">>
  <2>1. w = ButLast(q)
    BY <1>3, <1>8
  <2>2. Parent(Text(q)) = Text(ButLast(q)) /\ ButLast(q) \in Seq(Component)
    BY <1>4, ParentFacts, ButLastType
  <2> QED BY <1>2, <1>5, <1>8, <2>1, <2>2 DEF d
<1>9. CASE ~(c = <<>> \/ d = <<".">>) /\ d # <<".", ".">>
  <2>1. w = Append(q, d) /\ d \in Component
    BY <1>3, <1>6, <1>9
  <2>2. Text(Append(q, d)) = Text(q) \o (<<"/">> \o d)
    BY <1>4, <1>6, TextAppend DEF WithText
  <2>3. Text(q) \in Seq(Characters) /\ <<"/">> \in Seq(Characters)
    BY <1>4, TextType, SlashIsACharacter
  <2> DEFINE x == Text(q)
             s == <<"/">>
  <2> HIDE DEF x, s
  <2>4. (x \o s) \o d = x \o (s \o d)
    BY <1>6, <2>3, Regroup DEF x, s
  <2>5. Text(w) = (x \o s) \o d
    BY <2>1, <2>2, <2>4 DEF x, s
  <2>6. w \in Seq(Component)
    BY <1>4, <2>1
  <2> QED BY <1>2, <1>5, <1>9, <2>5, <2>6 DEF x, s, d
<1> QED BY <1>7, <1>8, <1>9

(* The search does not stop before a component that was reached.           *)
LEMMA StopFacts ==
    ASSUME request \in Requests, NEW i \in 0..Len(Resolved),
           \A k \in 0..i - 1 : ~StopsAt(k)
    PROVE  /\ StopsAt(i) \/ i = Len(Resolved) => Stop = i
           /\ ~StopsAt(i) /\ i < Len(Resolved) => Stop \in Nat /\ i + 1 <= Stop
<1> DEFINE N == Len(Resolved)
           S == {N} \cup {k \in 0..N : StopsAt(k)}
<1>1. Stop = Min(S)
  BY DEF Stop, StopsAt, AllFolders, At, Upto
<1>2. N \in Nat /\ i \in 0..N
  BY ResolvedType
<1>3. S \in SUBSET Nat /\ S \in SUBSET Int /\ N \in S
  BY <1>2
<1>4. \A k \in S : i <= k
  BY <1>2
<1>5. (StopsAt(i) \/ i = N) => i \in S
  BY <1>2
<1>6. ~StopsAt(i) /\ i < N => i \notin S
  BY <1>2
<1> HIDE DEF S, N
<1>7. ASSUME i \in S PROVE Stop = i
  BY <1>1, <1>3, <1>4, <1>7, MinIs
<1>8. ASSUME i \notin S PROVE Stop \in Nat /\ i + 1 <= Stop
  <2>1. PICK m \in S : \A k \in S : m <= k
    BY <1>3, LeastNumber
  <2>2. Stop = m
    BY <1>1, <1>3, <2>1, MinIs
  <2>3. m \in Nat /\ i <= m /\ m # i
    BY <1>3, <1>4, <1>8, <2>1
  <2> QED BY <1>2, <2>2, <2>3
<1> QED BY <1>5, <1>6, <1>7, <1>8 DEF N

LEMMA AllFoldersNext ==
    ASSUME NEW i \in Nat, NEW j, j = i + 1
    PROVE  AllFolders(j) <=> AllFolders(i) /\ At(i) \in Folders
<1>1. \A k : k \in 0..j - 1 <=> k \in 0..i - 1 \/ k = i
  OBVIOUS
<1> QED BY <1>1 DEF AllFolders

LEMMA WalkKeeps ==
    ASSUME UriInv, WalkComponent
    PROVE  UriInv'
<1> DEFINE R == Resolved
           N == Len(R)
<1>1. /\ step = "walk" /\ ~(exists /\ path \in Files) /\ next <= Len(uri)
      /\ exists' = (exists /\ path \in Folders)
      /\ request' = request /\ uri' = uri /\ rest' = rest
  BY DEF WalkComponent
<1>2. request \in Requests /\ request # <<>> /\ rest = <<>> /\ Walking
  BY <1>1 DEF UriInv
<1>3. PICK i \in 0..N : Reached(i)
  BY <1>2 DEF Walking
<1>4. R \in Seq(Component) /\ R \in Seq(Seq(Characters)) /\ N \in Nat
  BY <1>2, ResolvedType
<1>5. uri = Text(R) /\ uri \in Seq(Characters) /\ Len(uri) \in Nat
  <2>1. uri = Text(R)
    BY <1>2 DEF Walking
  <2> HIDE DEF R
  <2>2. uri \in Seq(Characters)
    BY <1>4, <2>1, TextType
  <2> QED BY <2>1, <2>2
<1>6. i < N /\ i \in Nat
  <2>1. i # N
    BY <1>1, <1>3, <1>5 DEF Reached
  <2> QED BY <1>4, <2>1
<1>7. /\ path = At(i) /\ Names(Upto(R, i)) \in Seq(Component)
      /\ exists = AllFolders(i)
      /\ \A k \in 1..i : Legal(R[k])
      /\ \A k \in 0..i - 1 : ~StopsAt(k)
      /\ next = Len(Text(Upto(R, i))) + 2
  BY <1>3, <1>6 DEF Reached
<1> DEFINE c == R[i + 1]
           d == Decode(c)
           j == i + 1
<1>8. Reads(R, i, next)
  <2> HIDE DEF R
  <2>1. Len(uri) = Len(Text(R)) /\ \A k \in next..Len(uri) : uri[k] = Text(R)[k]
    BY <1>5
  <2> QED BY <1>4, <1>5, <1>6, <1>7, <2>1, NextComponent
<1>9. /\ ComponentFrom(next) = c /\ next \in Nat
      /\ c \in Component /\ Len(c) \in Nat
      /\ j < N => AfterSlash(next) = Len(Text(Upto(R, j))) + 2
      /\ j = N => AfterSlash(next) = Len(uri) + 1 /\ Len(uri) + 1 = next + Len(c)
  BY <1>8 DEF Reads
<1>10. ~StopsAt(i)
  BY <1>1, <1>7 DEF StopsAt
<1>11. Resolved' = Resolved /\ Stop' = Stop
  BY <1>1, MeaningStays
<1>12. CASE ~Legal(c)
  <2>1. step' = "notFound"
    <3>1. c # <<>> /\ (d = <<>> \/ {"nul", "/"} \cap ToSet(d) # {})
      BY <1>12 DEF Legal
    <3> QED BY <1>9, <3>1 DEF WalkComponent
  <2>2. Stop \in Nat /\ i + 1 <= Stop
    BY <1>2, <1>6, <1>7, <1>10, StopFacts
  <2>3. j \in 1..Stop /\ ~Legal(R[j])
    BY <1>6, <1>12, <2>2
  <2> HIDE DEF j
  <2>4. PathExact'
    BY <1>11, <2>1, <2>3 DEF PathExact, Legal
  <2> QED BY <1>1, <1>2, <2>1, <2>4 DEF UriInv
<1>13. CASE Legal(c)
  <2>1. ~(c # <<>> /\ (d = <<>> \/ {"nul", "/"} \cap ToSet(d) # {}))
    BY <1>13 DEF Legal
  <2>2. /\ next' = AfterSlash(next) /\ step' = step
        /\ path' = IF c = <<>> \/ d = <<".">> THEN path
                   ELSE IF d = <<".", ".">> THEN Parent(path)
                   ELSE path \o <<"/">> \o d
    BY <1>9, <2>1 DEF WalkComponent
  <2>3. /\ Names(Upto(R, j)) \in Seq(Component)
        /\ At(j) = IF c = <<>> \/ d = <<".">> THEN At(i)
                   ELSE IF d = <<".", ".">> THEN Parent(At(i))
                   ELSE At(i) \o <<"/">> \o d
    BY <1>2, <1>6, <1>7, <1>13, OneMoreName
  <2>4. path' = At(j)
    BY <1>7, <2>2, <2>3
  <2>5. j \in 0..N /\ j \in Nat /\ (j < N \/ j = N) /\ ~(j < N /\ j = N)
    BY <1>4, <1>6
  <2>6. exists' = AllFolders(j)
    <3>1. AllFolders(j) <=> AllFolders(i) /\ At(i) \in Folders
      BY <1>6, AllFoldersNext
    <3>2. AllFolders(j) \in BOOLEAN /\ AllFolders(i) \in BOOLEAN
      BY DEF AllFolders
    <3> QED BY <1>1, <1>7, <3>1, <3>2
  <2>7. \A k \in 1..j : Legal(R[k])
    <3>1. \A k \in 1..j : k \in 1..i \/ k = j
      BY <1>6
    <3> QED BY <1>7, <1>13, <3>1
  <2>8. \A k \in 0..j - 1 : ~StopsAt(k)
    <3>1. \A k \in 0..j - 1 : k \in 0..i - 1 \/ k = i
      BY <1>6
    <3> QED BY <1>7, <1>10, <3>1
  <2>9. j < N => next' = Len(Text(Upto(R, j))) + 2
    BY <1>9, <2>2
  <2>10. ASSUME j = N PROVE next' = Len(uri) + 1 /\ R[j] # <<>>
    <3>1. Len(uri) + 1 = next + Len(c) /\ next <= Len(uri) /\ next \in Nat /\ Len(c) \in Nat
      BY <1>1, <1>9, <2>10
    <3>2. Len(c) # 0
      BY <1>5, <3>1
    <3>3. c # <<>>
      BY <3>2, EmptySeq
    <3> QED BY <1>9, <2>2, <2>10, <3>3
  <2> HIDE DEF j, R, N
  <2>11. Reached(j)'
    <3>1. path' = At(j)' /\ exists' = AllFolders(j)'
      BY <1>11, <2>4, <2>6 DEF At, AllFolders
    <3>2. (Names(Upto(Resolved, j)) \in Seq(Component))' /\ (\A k \in 1..j : Legal(Resolved[k]))'
      BY <1>11, <2>3, <2>7 DEF R
    <3>3. (\A k \in 0..j - 1 : ~StopsAt(k))'
      BY <1>11, <2>8 DEF StopsAt, AllFolders, At
    <3>4. (j < Len(Resolved) => next = Len(Text(Upto(Resolved, j))) + 2)'
      BY <1>11, <2>9 DEF R, N
    <3>5. (j = Len(Resolved) => next = Len(uri) + 1 /\ Resolved[j] # <<>>)'
      BY <1>1, <1>11, <2>10 DEF R, N
    <3> QED BY <3>1, <3>2, <3>3, <3>4, <3>5 DEF Reached
  <2>12. Walking'
    BY <1>1, <1>5, <1>11, <2>5, <2>11 DEF Walking, R, N
  <2>13. PathExact'
    BY <1>1, <1>5, <1>11, <2>2 DEF PathExact, R
  <2> QED BY <1>1, <1>2, <2>2, <2>12, <2>13 DEF UriInv
<1> QED BY <1>12, <1>13

-----------------------------------------------------------------------------
(* Where the walk ends.                                                    *)

LEMMA WhatIsLeft ==
    ASSUME NEW x \in Seq(Characters), NEW y \in Seq(Characters), NEW t, t = x \o y,
           NEW s, s = Len(x) + 1
    PROVE  SubSeq(t, s, Len(t)) = y
<1> DEFINE a == Len(x)
           b == Len(y)
           N == Len(t)
           w == SubSeq(t, s, N)
<1>1. /\ t \in Seq(Characters) /\ N = a + b
      /\ \A i \in 1..b : t[a + i] = y[i]
  BY ConcatFacts
<1>2. a \in Nat /\ b \in Nat /\ N \in Nat
  BY <1>1
<1>3. s = a + 1
  OBVIOUS
<1> HIDE DEF a, b, w
<1>4. a \in 0..N /\ N - a = b
  <2> HIDE DEF N
  <2> QED BY <1>1, <1>2
<1>5. /\ Behind(t, a) \in Seq(Characters) /\ Len(Behind(t, a)) = N - a
      /\ \A i \in 1..N - a : Behind(t, a)[i] = t[a + i]
  BY <1>1, <1>4, BehindFacts
<1>6. Behind(t, a) = w
  BY <1>3 DEF Behind, w
<1> HIDE DEF N
<1>7. w \in Seq(Characters) /\ Len(w) = b /\ \A i \in 1..b : w[i] = y[i]
  BY <1>1, <1>4, <1>5, <1>6
<1>8. w = y
  BY <1>7, SeqEqual DEF b
<1> QED BY <1>8 DEF w, N

(* What the walk has not read begins with its slash, if it is something.   *)
LEMMA RestOfUri ==
    ASSUME request \in Requests, uri = Text(Resolved), NEW i \in 0..Len(Resolved), Reached(i)
    PROVE  SubSeq(uri, IF uri[next - 1] = "/" THEN next - 1 ELSE next, Len(uri))
               = Text(SubSeq(Resolved, i + 1, Len(Resolved)))
<1> DEFINE R == Resolved
           N == Len(R)
           x == Text(Upto(R, i))
           y == Text(Behind(R, i))
           a == Len(x)
           s == IF uri[next - 1] = "/" THEN next - 1 ELSE next
<1>1. R \in Seq(Component) /\ R \in Seq(Seq(Characters)) /\ N \in Nat /\ N >= 1
  BY ResolvedType
<1>2. uri = Text(R) /\ i \in 0..N
  OBVIOUS
<1>3. /\ i < N => next = a + 2
      /\ i = N => next = Len(uri) + 1 /\ R[i] # <<>>
  BY DEF Reached
<1> HIDE DEF R
<1>4. Upto(R, i) \in Seq(Seq(Characters)) /\ Behind(R, i) \in Seq(Seq(Characters))
  <2> DEFINE S == Seq(Characters)
  <2>1. R \in Seq(S)
    BY <1>1
  <2> HIDE DEF S
  <2>2. Upto(R, i) \in Seq(S) /\ Behind(R, i) \in Seq(S)
    BY <1>2, <2>1, UptoFacts, BehindFacts
  <2> QED BY <2>2 DEF S
<1>5. x \in Seq(Characters) /\ y \in Seq(Characters) /\ Text(R) \in Seq(Characters)
  BY <1>1, <1>4, TextType
<1>6. a \in Nat /\ Len(uri) \in Nat
  BY <1>2, <1>5
<1>7. uri = x \o y
  BY <1>1, <1>2, TextParts
<1>8. s = a + 1
  <2>1. CASE i < N
    <3> DEFINE c == R[i + 1]
    <3>1. StandsAt(R, i, a, c)
      BY <1>1, <1>2, <2>1, Layout
    <3>2. uri[a + 1] = "/"
      BY <1>2, <3>1 DEF StandsAt
    <3> HIDE DEF a
    <3>3. next - 1 = a + 1
      BY <1>3, <1>6, <2>1
    <3> QED BY <3>2, <3>3
  <2>2. CASE i = N
    <3> DEFINE q == ButLast(R)
               c == R[N]
               z == Text(q)
    <3>0. R # <<>>
      <4>1. Len(R) # 0
        BY <1>1
      <4> QED BY <4>1, EmptySeq
    <3>1. q \in Seq(Component) /\ c \in Component /\ R = Append(q, c)
      BY <1>1, <3>0, SplitLast
    <3>2. q \in Seq(Seq(Characters)) /\ c \in Seq(Characters)
      BY <3>1, ComponentFacts, SeqMonotonic
    <3>3. uri = z \o (<<"/">> \o c) /\ z \in Seq(Characters)
      <4> HIDE DEF q, c
      <4> QED BY <1>2, <3>1, <3>2, TextAppend, TextType DEF WithText
    <3>4. Len(c) \in Nat /\ Len(c) # 0 /\ Len(z) \in Nat
      <4>1. c # <<>>
        BY <1>3, <2>2
      <4> QED BY <3>2, <3>3, <4>1, EmptySeq
    <3> HIDE DEF q, c, z
    <3>5. EndsAfterSlash(uri, z, c)
      BY <3>1, <3>3, SlashAndComponent
    <3>6. /\ Len(uri) = Len(z) + 1 + Len(c)
          /\ \A k \in Len(z) + 2..Len(uri) : uri[k] # "/"
      BY <3>5 DEF EndsAfterSlash
    <3>7. Len(uri) \in Len(z) + 2..Len(uri)
      BY <1>6, <3>4, <3>6
    <3>8. uri[Len(uri)] # "/"
      BY <3>6, <3>7
    <3>9. next - 1 = Len(uri) /\ next = Len(uri) + 1
      BY <1>3, <1>6, <2>2
    <3>10. a = Len(uri)
      <4>1. Upto(R, N) = R
        BY <1>1, <1>2, UptoFacts
      <4> QED BY <1>2, <2>2, <4>1
    <3> QED BY <3>8, <3>9, <3>10
  <2> QED BY <1>1, <1>2, <2>1, <2>2
<1> HIDE DEF s, x, y
<1>9. SubSeq(uri, s, Len(uri)) = y
  BY <1>5, <1>7, <1>8, WhatIsLeft
<1> QED BY <1>9 DEF s, y, Behind, R

LEMMA Found ==
    ASSUME request \in Requests, request' = request, step' = "found", path' = path,
           NEW i \in 0..Len(Resolved), Stop = i, path = At(i),
           \A k \in 1..i : Legal(Resolved[k]),
           rest' = Text(SubSeq(Resolved, i + 1, Len(Resolved)))
    PROVE  UriInv'
<1>1. Resolved' = Resolved /\ Stop' = Stop
  BY MeaningStays
<1>2. path' = PathTo(SubSeq(Resolved, 1, Stop))
  BY DEF At, Upto
<1>3. rest' = Text(SubSeq(Resolved, Stop + 1, Len(Resolved)))
  OBVIOUS
<1>4. \A k \in 1..Stop : Legal(Resolved[k])
  OBVIOUS
<1>5. PathExact'
  BY <1>1, <1>2, <1>3, <1>4 DEF PathExact
<1> QED BY <1>5 DEF UriInv

LEMMA TerminalKeeps ==
    ASSUME UriInv, Terminal
    PROVE  UriInv'
<1>1. /\ step = "walk" /\ exists /\ path \in Files
      /\ request' = request /\ step' = "found" /\ path' = path
      /\ rest' = SubSeq(uri, IF uri[next - 1] = "/" THEN next - 1 ELSE next, Len(uri))
  BY DEF Terminal
<1>2. request \in Requests /\ Walking
  BY <1>1 DEF UriInv
<1>3. PICK i \in 0..Len(Resolved) : Reached(i)
  BY <1>2 DEF Walking
<1>4. /\ path = At(i) /\ exists = AllFolders(i)
      /\ \A k \in 1..i : Legal(Resolved[k])
      /\ \A k \in 0..i - 1 : ~StopsAt(k)
  BY <1>3 DEF Reached
<1>5. StopsAt(i)
  BY <1>1, <1>4 DEF StopsAt
<1>6. Stop = i
  BY <1>2, <1>4, <1>5, StopFacts
<1>7. rest' = Text(SubSeq(Resolved, i + 1, Len(Resolved)))
  <2>1. uri = Text(Resolved)
    BY <1>2 DEF Walking
  <2> QED BY <1>1, <1>2, <1>3, <2>1, RestOfUri
<1> QED BY <1>1, <1>2, <1>4, <1>6, <1>7, Found

LEMMA WholeUriKeeps ==
    ASSUME UriInv, WholeUri
    PROVE  UriInv'
<1> DEFINE R == Resolved
           N == Len(R)
<1>1. /\ step = "walk" /\ ~(exists /\ path \in Files) /\ next > Len(uri)
      /\ request' = request /\ step' = "found" /\ path' = path /\ rest' = rest
  BY DEF WholeUri
<1>2. request \in Requests /\ Walking /\ rest = <<>>
  BY <1>1 DEF UriInv
<1>3. PICK i \in 0..N : Reached(i)
  BY <1>2 DEF Walking
<1>4. /\ path = At(i) /\ exists = AllFolders(i)
      /\ Names(Upto(R, i)) \in Seq(Component)
      /\ \A k \in 1..i : Legal(R[k])
      /\ \A k \in 0..i - 1 : ~StopsAt(k)
      /\ i < N => next = Len(Text(Upto(R, i))) + 2
  BY <1>3 DEF Reached
<1>5. ~StopsAt(i)
  BY <1>1, <1>4 DEF StopsAt
<1>6. N \in Nat /\ R \in Seq(Component) /\ R \in Seq(Seq(Characters))
  BY <1>2, ResolvedType
<1>7. /\ path = At(N)
      /\ \A k \in 1..N : Legal(R[k])
      /\ \A k \in 0..N - 1 : ~StopsAt(k)
  <2>1. CASE i = N
    BY <1>4, <2>1
  <2>2. CASE i < N
    <3> DEFINE c == R[i + 1]
               a == Len(Text(Upto(R, i)))
    <3>1. StandsAt(R, i, a, c)
      <4> HIDE DEF R
      <4> QED BY <1>6, <2>2, Layout
    <3>2. /\ a \in Nat /\ c \in Seq(Characters)
          /\ i + 1 < N => Len(Text(R)) >= a + Len(c) + 2
          /\ i + 1 = N => Len(Text(R)) = a + 1 + Len(c)
      BY <3>1 DEF StandsAt
    <3> DEFINE M == Len(uri)
               m == Len(c)
    <3>3. uri = Text(R) /\ Text(R) \in Seq(Characters)
      BY <1>2, <3>1 DEF Walking, StandsAt
    <3>4. M \in Nat /\ m \in Nat /\ M = Len(Text(R)) /\ next = a + 2 /\ next > M
      BY <1>1, <1>4, <2>2, <3>2, <3>3
    <3>5. i + 1 = N /\ m = 0
      <4> DEFINE j == i + 1
      <4>0. j < N \/ j = N
        <5> HIDE DEF N
        <5> QED BY <1>6, <2>2
      <4>1. (j < N => M >= a + m + 2) /\ (j = N => M = a + 1 + m)
        <5> DEFINE T == Len(Text(R))
        <5>1. (j < N => T >= a + m + 2) /\ (j = N => T = a + 1 + m) /\ M = T
          BY <3>2, <3>4
        <5> HIDE DEF T, a, m, M, N, j
        <5> QED BY <5>1
      <4> HIDE DEF j, N, M, m, a
      <4>2. ~(M >= a + m + 2) /\ (M = a + 1 + m => m = 0)
        BY <3>2, <3>4
      <4> QED BY <4>0, <4>1, <4>2 DEF j
    <3>6. c = <<>>
      BY <3>2, <3>5, EmptySeq
    <3>7. Legal(c)
      BY <3>6 DEF Legal
    <3>8. At(i + 1) = At(i)
      BY <1>2, <1>4, <2>2, <3>6, <3>7, OneMoreName
    <3>9. path = At(N)
      BY <1>4, <3>5, <3>8
    <3>10. \A k \in 1..N : k \in 1..i \/ k = i + 1
      BY <1>6, <2>2, <3>5
    <3>11. \A k \in 0..N - 1 : k \in 0..i - 1 \/ k = i
      BY <1>6, <2>2, <3>5
    <3> QED BY <1>4, <1>5, <3>7, <3>9, <3>10, <3>11
  <2> QED BY <1>6, <2>1, <2>2
<1>8. N \in 0..N
  BY <1>6
<1>9. Stop = N
  BY <1>2, <1>7, <1>8, StopFacts
<1>10. rest' = Text(SubSeq(R, N + 1, Len(R)))
  <2>1. Behind(R, N) = <<>>
    <3> HIDE DEF R
    <3> QED BY <1>6, <1>8, BehindFacts
  <2> QED BY <1>1, <1>2, <2>1, TextOfNothing DEF Behind
<1> QED BY <1>1, <1>2, <1>7, <1>8, <1>9, <1>10, Found

(* A URI leads to what its components name, resolved as RFC 3986 does, and *)
(* to what follows a file as the rest; nowhere exactly when a component    *)
(* that matters cannot be a name.  For every URI and every document root.  *)
THEOREM UriLeadsExactly == UriSpec => []PathExact
<1>1. UriInit => UriInv
  BY UriStarts
<1>2. UriInv /\ [UriNext]_uriVars => UriInv'
  <2> SUFFICES ASSUME UriInv, [UriNext]_uriVars PROVE UriInv'
    OBVIOUS
  <2>1. CASE Refuse
    BY <2>1, RefuseKeeps
  <2>2. CASE NormalizeComponent
    BY <2>2, NormalizeKeeps
  <2>3. CASE Normalized
    BY <2>3, NormalizedKeeps
  <2>4. CASE WalkComponent
    BY <2>4, WalkKeeps
  <2>5. CASE Terminal
    BY <2>5, TerminalKeeps
  <2>6. CASE WholeUri
    BY <2>6, WholeUriKeeps
  <2>7. CASE UNCHANGED uriVars
    <3>1. Resolved' = Resolved /\ Stop' = Stop
      BY <2>7, MeaningStays DEF uriVars
    <3>2. /\ request' = request /\ uri' = uri /\ step' = step /\ next' = next /\ out' = out
          /\ path' = path /\ exists' = exists /\ rest' = rest
      BY <2>7 DEF uriVars
    <3>3. PathExact'
      BY <3>1, <3>2 DEF UriInv, PathExact
    <3>4. ASSUME Normalizing PROVE Normalizing'
      BY <3>1, <3>2, <3>4 DEF Normalizing, AfterComponents, AllNormalized, OutputIs
    <3>5. ASSUME NEW i, Reached(i) PROVE Reached(i)'
      BY <3>1, <3>2, <3>5 DEF Reached, AllFolders, StopsAt, At
    <3>6. ASSUME Walking PROVE Walking'
      BY <3>1, <3>2, <3>5, <3>6 DEF Walking
    <3> QED BY <3>2, <3>3, <3>4, <3>6 DEF UriInv
  <2> QED BY <2>1, <2>2, <2>3, <2>4, <2>5, <2>6, <2>7 DEF UriNext
<1>3. UriInv => PathExact
  BY DEF UriInv
<1> QED BY <1>1, <1>2, <1>3, PTL DEF UriSpec
=============================================================================
