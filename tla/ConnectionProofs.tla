------------------------- MODULE ConnectionProofs --------------------------
(***************************************************************************)
(* Proofs about what goes over one connection: the buffered output of a    *)
(* telnet client (Stream), the messages of a web socket (WebSocket) and the *)
(* answers to requests (HttpServe).  The three share lemmas on lists.      *)
(***************************************************************************)
EXTENDS Stream, WebSocket, HttpServe, RecursionProofs
LOCAL INSTANCE SequencesExt
LOCAL INSTANCE FiniteSetsExt

-----------------------------------------------------------------------------
(* Stream, for every size of tx_buf, of a chunk and of the socket's buffer, *)
(* and for every length the owner writes.  Each action does to the bytes on *)
(* their way one of three things: it adds the next ones at the end, it      *)
(* gives numbers to bytes it refuses, or it loses a part from the middle or *)
(* the end.  Accounted is kept by each.                                     *)

Increasing(s) == \A i, j \in DOMAIN s : i < j => s[i] < s[j]

(* The bytes of s, those refused and those lost are the ones before nx,    *)
(* each once, and s has its bytes in the order they were written.          *)
Accounted(s, nx, ref, dis) ==
    /\ s \in Seq(Nat)
    /\ Increasing(s)
    /\ \A x \in Elems(s) : x < nx
    /\ (1 .. nx - 1) = Elems(s) \union ref \union dis
    /\ Elems(s) \intersect (ref \union dis) = {}

(* TypeOK without input: the solvers take numbers and Booleans in turn. *)
Typed ==
    /\ txBuf \in Seq(Nat) /\ Len(txBuf) <= TxSize
    /\ watched \subseteq {"RX", "TX", "EX"}
    /\ sock \in Seq(Nat) /\ Len(sock) <= SockSize
    /\ peer \in {"up", "urgent", "fin", "reset"}
    /\ received \in Seq(Nat)
    /\ pc \in {"idle", "round", "call", "closed", "crashed"}
    /\ todo \subseteq {"RX", "TX", "EX"}
    /\ next \in Nat \ {0}
    /\ refused \subseteq Nat /\ discarded \subseteq Nat

StreamInv == Typed /\ Accounted(Sent, next, refused, discarded)

-----------------------------------------------------------------------------
LEMMA Sizes == TxSize \in Nat /\ Chunk \in Nat /\ SockSize \in Nat
BY SizesAssumption

LEMMA Assoc ==
    ASSUME NEW s \in Seq(Nat), NEW t \in Seq(Nat), NEW u \in Seq(Nat)
    PROVE  (s \o t) \o u = s \o (t \o u)
BY SMTT(40), ConcatAssociative

(* What a concatenation holds. *)
LEMMA ConcatElems ==
    ASSUME NEW s \in Seq(Nat), NEW t \in Seq(Nat)
    PROVE  /\ s \o t \in Seq(Nat)
           /\ Elems(s \o t) = Elems(s) \union Elems(t)
<1>1. /\ s \o t \in Seq(Nat) /\ DOMAIN (s \o t) = 1 .. Len(s) + Len(t)
      /\ DOMAIN s = 1 .. Len(s) /\ DOMAIN t = 1 .. Len(t)
      /\ Len(s) \in Nat /\ Len(t) \in Nat
      /\ \A i \in 1 .. Len(s) : (s \o t)[i] = s[i]
      /\ \A i \in 1 .. Len(t) : (s \o t)[Len(s) + i] = t[i]
  OBVIOUS
<1>2. ASSUME NEW i \in 1 .. Len(s) + Len(t)
      PROVE  (s \o t)[i] \in Elems(s) \union Elems(t)
  <2>1. CASE i \in 1 .. Len(s)
    BY <1>1, <2>1 DEF Elems
  <2>2. CASE i \notin 1 .. Len(s)
    <3>1. i - Len(s) \in 1 .. Len(t) /\ (s \o t)[i] = t[i - Len(s)]
      BY <1>1, <2>2
    <3> QED BY <1>1, <3>1 DEF Elems
  <2> QED BY <2>1, <2>2
<1>3. ASSUME NEW i \in 1 .. Len(s)
      PROVE  s[i] \in Elems(s \o t)
  <2>1. i \in DOMAIN (s \o t) /\ (s \o t)[i] = s[i]
    BY <1>1
  <2> QED BY <2>1 DEF Elems
<1>4. ASSUME NEW i \in 1 .. Len(t)
      PROVE  t[i] \in Elems(s \o t)
  <2>1. Len(s) + i \in DOMAIN (s \o t) /\ (s \o t)[Len(s) + i] = t[i]
    BY <1>1
  <2> QED BY <2>1 DEF Elems
<1>5. Elems(s \o t) \subseteq Elems(s) \union Elems(t)
  BY <1>1, <1>2 DEF Elems
<1>6. Elems(s) \subseteq Elems(s \o t)
  BY <1>1, <1>3 DEF Elems
<1>7. Elems(t) \subseteq Elems(s \o t)
  BY <1>1, <1>4 DEF Elems
<1> QED BY <1>1, <1>5, <1>6, <1>7

(* A concatenation increases just when its parts do and the first one's    *)
(* members come before the second one's.                                   *)
LEMMA ConcatIncreasing ==
    ASSUME NEW s \in Seq(Nat), NEW t \in Seq(Nat)
    PROVE  Increasing(s \o t) <=> /\ Increasing(s) /\ Increasing(t)
                                  /\ \A x \in Elems(s), y \in Elems(t) : x < y
<1>1. /\ s \o t \in Seq(Nat) /\ DOMAIN (s \o t) = 1 .. Len(s) + Len(t)
      /\ DOMAIN s = 1 .. Len(s) /\ DOMAIN t = 1 .. Len(t)
      /\ Len(s) \in Nat /\ Len(t) \in Nat
      /\ \A i \in 1 .. Len(s) : (s \o t)[i] = s[i]
      /\ \A i \in 1 .. Len(t) : (s \o t)[Len(s) + i] = t[i]
  OBVIOUS
<1>2. ASSUME Increasing(s \o t)
      PROVE  Increasing(s)
  <2>1. \A i, j \in 1 .. Len(s) : i \in DOMAIN (s \o t) /\ j \in DOMAIN (s \o t)
    BY <1>1
  <2> QED BY <1>1, <1>2, <2>1 DEF Increasing
<1>3. ASSUME Increasing(s \o t)
      PROVE  Increasing(t)
  <2>1. SUFFICES ASSUME NEW i \in 1 .. Len(t), NEW j \in 1 .. Len(t), i < j
                 PROVE  t[i] < t[j]
    BY <1>1 DEF Increasing
  <2>2. /\ Len(s) + i \in DOMAIN (s \o t) /\ Len(s) + j \in DOMAIN (s \o t)
        /\ Len(s) + i < Len(s) + j
    BY <1>1, <2>1
  <2>3. (s \o t)[Len(s) + i] < (s \o t)[Len(s) + j]
    BY <1>3, <2>2 DEF Increasing
  <2> QED BY <1>1, <2>3
<1>4. ASSUME Increasing(s \o t), NEW x \in Elems(s), NEW y \in Elems(t)
      PROVE  x < y
  <2>1. PICK i \in 1 .. Len(s), j \in 1 .. Len(t) : x = s[i] /\ y = t[j]
    BY <1>1 DEF Elems
  <2>2. i \in DOMAIN (s \o t) /\ Len(s) + j \in DOMAIN (s \o t) /\ i < Len(s) + j
    BY <1>1
  <2>3. (s \o t)[i] < (s \o t)[Len(s) + j]
    BY <1>4, <2>2 DEF Increasing
  <2> QED BY <1>1, <2>1, <2>3
<1>5. ASSUME Increasing(s), Increasing(t), \A x \in Elems(s), y \in Elems(t) : x < y,
             NEW i \in 1 .. Len(s) + Len(t), NEW j \in 1 .. Len(s) + Len(t), i < j
      PROVE  (s \o t)[i] < (s \o t)[j]
  <2>1. CASE j \in 1 .. Len(s)
    <3>1. i \in 1 .. Len(s)
      BY <1>1, <1>5, <2>1
    <3> QED BY <1>1, <1>5, <2>1, <3>1 DEF Increasing
  <2>2. CASE i \in 1 .. Len(s) /\ j \notin 1 .. Len(s)
    <3>1. j - Len(s) \in 1 .. Len(t) /\ (s \o t)[j] = t[j - Len(s)]
      BY <1>1, <2>2
    <3>2. s[i] \in Elems(s) /\ t[j - Len(s)] \in Elems(t)
      BY <1>1, <2>2, <3>1 DEF Elems
    <3> QED BY <1>1, <1>5, <2>2, <3>1, <3>2
  <2>3. CASE i \notin 1 .. Len(s)
    <3>1. /\ i - Len(s) \in 1 .. Len(t) /\ (s \o t)[i] = t[i - Len(s)]
          /\ j - Len(s) \in 1 .. Len(t) /\ (s \o t)[j] = t[j - Len(s)]
          /\ i - Len(s) < j - Len(s)
      BY <1>1, <1>5, <2>3
    <3> QED BY <1>1, <1>5, <3>1 DEF Increasing
  <2> QED BY <2>1, <2>2, <2>3
<1>6. ASSUME Increasing(s), Increasing(t), \A x \in Elems(s), y \in Elems(t) : x < y
      PROVE  Increasing(s \o t)
  BY <1>1, <1>5, <1>6 DEF Increasing
<1> QED BY <1>2, <1>3, <1>4, <1>6

(* What the next k bytes are. *)
LEMMA BytesFacts ==
    ASSUME NEW nx \in Nat \ {0}, NEW k \in Nat
    PROVE  /\ Bytes(nx, nx + k - 1) \in Seq(Nat)
           /\ Len(Bytes(nx, nx + k - 1)) = k
           /\ Elems(Bytes(nx, nx + k - 1)) = nx .. nx + k - 1
           /\ Increasing(Bytes(nx, nx + k - 1))
<1> DEFINE b == [i \in 1 .. k |-> nx + i - 1]
<1>1. (nx + k - 1) - nx + 1 = k
  OBVIOUS
<1>2. Bytes(nx, nx + k - 1) = b
  BY <1>1 DEF Bytes
<1>3. b \in Seq(Nat) /\ Len(b) = k /\ DOMAIN b = 1 .. k
  <2>1. b \in [1 .. k -> Nat]
    OBVIOUS
  <2> QED BY <2>1
<1>4. Elems(b) = nx .. nx + k - 1
  <2>1. ASSUME NEW x \in nx .. nx + k - 1
        PROVE  x \in Elems(b)
    <3>1. x - nx + 1 \in 1 .. k /\ b[x - nx + 1] = x
      OBVIOUS
    <3> QED BY <1>3, <3>1 DEF Elems
  <2>2. \A i \in 1 .. k : b[i] \in nx .. nx + k - 1
    OBVIOUS
  <2> QED BY <1>3, <2>1, <2>2 DEF Elems
<1>5. Increasing(b)
  BY <1>3 DEF Increasing
<1> QED BY <1>2, <1>3, <1>4, <1>5

-----------------------------------------------------------------------------
(* The next k bytes are sent or queued at the end. *)
LEMMA SendKeeps ==
    ASSUME NEW s, NEW nx \in Nat \ {0}, NEW ref \in SUBSET Nat, NEW dis \in SUBSET Nat,
           NEW k \in Nat, Accounted(s, nx, ref, dis)
    PROVE  Accounted(s \o Bytes(nx, nx + k - 1), nx + k, ref, dis)
<1> DEFINE b == Bytes(nx, nx + k - 1)
<1>1. s \in Seq(Nat) /\ b \in Seq(Nat) /\ Elems(b) = nx .. nx + k - 1 /\ Increasing(b)
  BY BytesFacts DEF Accounted
<1> HIDE DEF b
<1>2. s \o b \in Seq(Nat) /\ Elems(s \o b) = Elems(s) \union (nx .. nx + k - 1)
  BY <1>1, ConcatElems
<1>3. Elems(s) \subseteq 1 .. nx - 1 /\ ref \union dis \subseteq 1 .. nx - 1
  BY DEF Accounted
<1>4. Increasing(s \o b)
  <2>1. \A x \in Elems(s), y \in Elems(b) : x < y
    BY <1>1, <1>3
  <2> QED BY <1>1, <2>1, ConcatIncreasing DEF Accounted
<1>5. \A x \in Elems(s \o b) : x < nx + k
  BY <1>2, <1>3
<1>6. 1 .. (nx + k) - 1 = (1 .. nx - 1) \union (nx .. nx + k - 1)
  OBVIOUS
<1>7. 1 .. (nx + k) - 1 = Elems(s \o b) \union ref \union dis
  BY <1>2, <1>6, Zenon DEF Accounted
<1>8. Elems(s \o b) \intersect (ref \union dis) = {}
  <2>1. (nx .. nx + k - 1) \intersect (1 .. nx - 1) = {}
    OBVIOUS
  <2> QED BY <1>2, <1>3, <2>1, Zenon DEF Accounted
<1>9. Accounted(s \o b, nx + k, ref, dis)
  BY <1>2, <1>4, <1>5, <1>7, <1>8 DEF Accounted
<1> QED BY <1>9 DEF b

(* The next k bytes are stored nowhere. *)
LEMMA RefuseKeeps ==
    ASSUME NEW s, NEW nx \in Nat \ {0}, NEW ref \in SUBSET Nat, NEW dis \in SUBSET Nat,
           NEW k \in Nat, Accounted(s, nx, ref, dis)
    PROVE  Accounted(s, nx + k, ref \union (nx .. nx + k - 1), dis)
<1>1. Elems(s) \subseteq 1 .. nx - 1
  BY DEF Accounted
<1>2. 1 .. (nx + k) - 1 = (1 .. nx - 1) \union (nx .. nx + k - 1)
  OBVIOUS
<1>3. (nx .. nx + k - 1) \intersect (1 .. nx - 1) = {}
  OBVIOUS
<1>4. \A x \in Elems(s) : x < nx + k
  BY <1>1
<1>5. 1 .. (nx + k) - 1 = Elems(s) \union (ref \union (nx .. nx + k - 1)) \union dis
  BY <1>2, Zenon DEF Accounted
<1>6. Elems(s) \intersect ((ref \union (nx .. nx + k - 1)) \union dis) = {}
  BY <1>1, <1>3, Zenon DEF Accounted
<1> QED BY <1>4, <1>5, <1>6 DEF Accounted

(* What waits between two parts is lost. *)
LEMMA LoseKeeps ==
    ASSUME NEW a \in Seq(Nat), NEW b \in Seq(Nat), NEW c \in Seq(Nat),
           NEW nx, NEW ref, NEW dis, Accounted(a \o b \o c, nx, ref, dis)
    PROVE  Accounted(a \o c, nx, ref, dis \union Elems(b))
<1>1. /\ a \o b \in Seq(Nat) /\ Elems(a \o b) = Elems(a) \union Elems(b)
      /\ Elems(a \o b \o c) = Elems(a) \union Elems(b) \union Elems(c)
      /\ a \o c \in Seq(Nat) /\ Elems(a \o c) = Elems(a) \union Elems(c)
  <2>1. a \o b \in Seq(Nat) /\ Elems(a \o b) = Elems(a) \union Elems(b)
    BY ConcatElems
  <2>2. Elems((a \o b) \o c) = Elems(a \o b) \union Elems(c)
    BY <2>1, ConcatElems
  <2>3. a \o c \in Seq(Nat) /\ Elems(a \o c) = Elems(a) \union Elems(c)
    BY ConcatElems
  <2> QED BY <2>1, <2>2, <2>3
<1>2. Increasing(a \o b) /\ Increasing(c) /\ \A x \in Elems(a \o b), y \in Elems(c) : x < y
  BY <1>1, ConcatIncreasing DEF Accounted
<1>3. Increasing(a) /\ \A x \in Elems(a), y \in Elems(b) : x < y
  BY <1>2, ConcatIncreasing
<1>4. Increasing(a \o c)
  BY <1>1, <1>2, <1>3, ConcatIncreasing
<1>5. Elems(a \o c) \intersect Elems(b) = {}
  <2>1. ASSUME NEW x \in Elems(a), x \in Elems(b)
        PROVE  FALSE
    <3>1. x < x /\ x \in Nat
      BY <1>3, <2>1 DEF Elems
    <3> QED BY <3>1
  <2>2. ASSUME NEW x \in Elems(c), x \in Elems(b)
        PROVE  FALSE
    <3>1. x \in Elems(a \o b)
      BY <1>1, <2>2
    <3>2. x < x
      BY <1>2, <2>2, <3>1
    <3>3. x \in Nat
      BY <2>2 DEF Elems
    <3> QED BY <3>2, <3>3
  <2> QED BY <1>1, <2>1, <2>2
<1> QED BY <1>1, <1>4, <1>5 DEF Accounted

-----------------------------------------------------------------------------
LEMMA InvInit == Init => StreamInv
<1> SUFFICES ASSUME Init
             PROVE  StreamInv
  OBVIOUS
<1>1. Typed
  BY Sizes DEF Init, Typed
<1>2. Sent = <<>>
  BY DEF Init, Sent
<1>3. Elems(<<>>) = {} /\ Increasing(<<>>)
  BY DEF Elems, Increasing
<1>4. Accounted(<<>>, 1, {}, {})
  BY <1>3 DEF Accounted
<1> QED BY <1>1, <1>2, <1>4 DEF StreamInv, Init

(* The owner writes behind what waits in tx_buf, or all of it is refused. *)
LEMMA WriteBehindKeeps ==
    ASSUME StreamInv, NEW n \in Nat, pc = "call", WriteBehind(n)
    PROVE  StreamInv'
<1> DEFINE b == Bytes(next, next + n - 1)
<1>1. Typed /\ Accounted(Sent, next, refused, discarded)
  BY DEF StreamInv
<1>2. /\ b \in Seq(Nat) /\ Len(b) = n /\ Elems(b) = next .. next + n - 1
  BY <1>1, BytesFacts DEF Typed
<1>3. CASE Len(txBuf) + n <= TxSize /\ txBuf' = txBuf \o b /\ Answer(n) /\ UNCHANGED refused
  <2>1. Typed'
    <3>1. /\ txBuf' \in Seq(Nat) /\ Len(txBuf') <= TxSize /\ next' \in Nat \ {0}
      BY <1>1, <1>2, <1>3, Sizes DEF Typed, Answer
    <3>2. UNCHANGED <<watched, sock, peer, received, pc, todo, refused, discarded>>
      BY <1>3 DEF WriteBehind, Answer, envVars
    <3> QED BY <1>1, <3>1, <3>2 DEF Typed
  <2>2. Sent' = Sent \o b
    <3>1. /\ received' = received /\ sock' = sock /\ txBuf' = txBuf \o b
      BY <1>3 DEF WriteBehind, Answer, envVars
    <3>2. received \o sock \in Seq(Nat)
      BY <1>1 DEF Typed
    <3>3. (received \o sock) \o (txBuf \o b) = ((received \o sock) \o txBuf) \o b
      BY ZenonT(60), <1>1, <1>2, <3>2, Assoc DEF Typed
    <3> QED BY <3>1, <3>3 DEF Sent
  <2>3. Accounted(Sent \o b, next + n, refused, discarded)
    BY <1>1, SendKeeps DEF Typed
  <2> QED BY <1>3, <2>1, <2>2, <2>3 DEF StreamInv, Answer
<1>4. CASE Answer(n) /\ refused' = refused \union Elems(b) /\ UNCHANGED txBuf
  <2>1. Typed'
    <3>1. next' = next + n /\ next \in Nat \ {0} /\ refused \subseteq Nat
      BY <1>1, <1>4 DEF Typed, Answer
    <3>3. next' \in Nat \ {0} /\ refused' \subseteq Nat
      <4>1. \A i \in next .. next + n - 1 : i \in Nat
        BY <3>1
      <4>2. refused' = refused \union (next .. next + n - 1)
        BY <1>2, <1>4, Zenon
      <4> QED BY <3>1, <4>1, <4>2
    <3>2. UNCHANGED <<txBuf, watched, sock, peer, received, pc, todo, discarded>>
      BY <1>4 DEF WriteBehind, Answer, envVars
    <3> QED BY <1>1, <3>3, <3>2 DEF Typed
  <2>2. Sent' = Sent
    BY <1>4 DEF Sent, WriteBehind, Answer, envVars
  <2>3. Accounted(Sent, next + n, refused \union (next .. next + n - 1), discarded)
    BY <1>1, RefuseKeeps DEF Typed
  <2> QED BY <1>2, <1>4, <2>1, <2>2, <2>3 DEF StreamInv, Answer
<1> QED BY <1>3, <1>4 DEF WriteBehind

(* The write fails, or the kernel takes the first bytes and the rest is    *)
(* queued or refused.                                                      *)
LEMMA WriteThroughKeeps ==
    ASSUME StreamInv, NEW n \in Nat, pc = "call", WriteError(n) \/ WriteThrough(n)
    PROVE  StreamInv'
<1>1. Typed /\ Accounted(Sent, next, refused, discarded)
  BY DEF StreamInv
<1>2. txBuf = <<>> /\ Sent = received \o sock
  <2>1. txBuf = <<>>
    BY DEF WriteError, WriteThrough
  <2> QED BY <1>1, <2>1 DEF Sent, Typed
<1>3. CASE WriteError(n)
  <2>1. Typed'
    BY <1>1, <1>3 DEF Typed, WriteError, Answer, envVars
  <2>2. Sent' = Sent
    BY <1>3 DEF Sent, WriteError, Answer, envVars
  <2>3. Accounted(Sent, next + n, refused \union (next .. next + n - 1), discarded)
    BY <1>1, RefuseKeeps DEF Typed
  <2> QED BY <1>3, <2>1, <2>2, <2>3 DEF StreamInv, WriteError, Answer
<1>4. CASE WriteThrough(n)
  <2>1. PICK put \in 0 .. n :
          /\ put <= Room
          /\ sock' = sock \o Bytes(next, next + put - 1)
          /\ IF put = n THEN Answer(n) /\ UNCHANGED <<txBuf, watched, refused>>
                        ELSE Queue(n, put)
    BY <1>4 DEF WriteThrough
  <2>a. put \in Nat /\ n - put \in Nat /\ next \in Nat \ {0} /\ refused \in SUBSET Nat
        /\ discarded \in SUBSET Nat /\ sock \in Seq(Nat) /\ received \in Seq(Nat)
    BY <1>1, <2>1 DEF Typed
  <2> DEFINE first == Bytes(next, next + put - 1)
             rest == Bytes(next + put, next + n - 1)
  <2>2. /\ first \in Seq(Nat) /\ Len(first) = put
        /\ rest \in Seq(Nat) /\ Len(rest) = n - put
        /\ Elems(rest) = next + put .. next + n - 1
    <3>1. first \in Seq(Nat) /\ Len(first) = put
      BY <2>a, BytesFacts
    <3>2. next + put \in Nat \ {0} /\ n - put \in Nat /\ (next + put) + (n - put) - 1 = next + n - 1
      BY <1>1 DEF Typed
    <3> QED BY ZenonT(60), <3>1, <3>2, BytesFacts
  <2> HIDE DEF first, rest
  <2>3. sock' \in Seq(Nat) /\ Len(sock') <= SockSize
    <3>1. sock \in Seq(Nat) /\ put <= SockSize - Len(sock)
      BY <1>1, <2>1 DEF Typed, Room
    <3>2. sock' = sock \o first
      BY <2>1 DEF first
    <3> QED BY <2>2, <3>1, <3>2, Sizes
  <2>4. /\ received \o sock' = Sent \o first
        /\ received \o sock' \in Seq(Nat)
    <3>1. received \o (sock \o first) = (received \o sock) \o first
      BY <2>a, <2>2, Assoc
    <3>2. sock' = sock \o first
      BY <2>1 DEF first
    <3>3. received \o sock' = Sent \o first
      BY <1>2, <3>1, <3>2
    <3>4. received \o sock' \in Seq(Nat)
      BY <2>a, <2>3, ConcatProperties
    <3> QED BY <3>3, <3>4
  <2>5. Accounted(received \o sock', next + put, refused, discarded)
    BY <1>1, <2>a, <2>4, SendKeeps DEF first
  <2>6. received' = received /\ next' = next + n /\ discarded' = discarded
        /\ pc' = pc /\ todo' = todo /\ peer' = peer /\ input' = input
    BY <2>1 DEF Queue, Answer, envVars
  <2>7. CASE put = n
    <3>1. txBuf' = <<>> /\ watched' = watched /\ refused' = refused
      BY <1>2, <2>1, <2>7
    <3>2. Typed'
      BY <1>1, <2>3, <2>6, <3>1, Sizes DEF Typed
    <3>3. Sent' = received \o sock'
      <4>1. (received \o sock') \o <<>> = received \o sock'
        BY <2>4
      <4>2. Sent' = (received \o sock') \o <<>>
        BY <2>6, <3>1 DEF Sent
      <4> QED BY <4>1, <4>2
    <3> QED BY <2>5, <2>6, <2>7, <3>1, <3>2, <3>3 DEF StreamInv
  <2>8. CASE put # n /\ Len(rest) <= TxSize /\ txBuf' = rest /\ UNCHANGED <<refused, watched>>
    <3>1. Typed'
      <4>1. /\ txBuf' \in Seq(Nat) /\ Len(txBuf') <= TxSize /\ next' \in Nat \ {0}
        BY <2>a, <2>2, <2>6, <2>8, Sizes
      <4>2. UNCHANGED <<watched, peer, received, pc, todo, refused, discarded>>
        BY <2>6, <2>8
      <4> QED BY <1>1, <2>3, <4>1, <4>2 DEF Typed
    <3>2. Sent' = (received \o sock') \o rest
      BY <2>6, <2>8 DEF Sent
    <3>3. Accounted((received \o sock') \o rest, next + n, refused, discarded)
      <4>1. next + put \in Nat \ {0} /\ n - put \in Nat
            /\ (next + put) + (n - put) = next + n
            /\ (next + put) + (n - put) - 1 = next + n - 1
        BY <1>1 DEF Typed
      <4> QED BY <1>1, <2>5, <4>1, SendKeeps DEF Typed, rest
    <3> QED BY <2>6, <2>8, <3>1, <3>2, <3>3 DEF StreamInv
  <2>9. CASE put # n /\ refused' = refused \union Elems(rest)
             /\ watched' = watched \union {"TX"} /\ UNCHANGED txBuf
    <3>1. Typed'
      BY SMTT(40), <1>1, <2>2, <2>3, <2>6, <2>9 DEF Typed
    <3>2. Sent' = received \o sock'
      <4>1. (received \o sock') \o <<>> = received \o sock'
        BY <2>4
      <4>2. Sent' = (received \o sock') \o <<>>
        BY <1>2, <2>6, <2>9 DEF Sent
      <4> QED BY <4>1, <4>2
    <3>3. Accounted(received \o sock', next + n, refused \union (next + put .. next + n - 1), discarded)
      <4>1. next + put \in Nat \ {0} /\ n - put \in Nat
            /\ (next + put) + (n - put) = next + n
            /\ (next + put) + (n - put) - 1 = next + n - 1
        BY <1>1 DEF Typed
      <4>2. Accounted(received \o sock', (next + put) + (n - put),
                      refused \union (next + put .. (next + put) + (n - put) - 1), discarded)
        BY <1>1, <2>5, <4>1, RefuseKeeps DEF Typed
      <4> QED BY <4>1, <4>2
    <3> QED BY <2>2, <2>6, <2>9, <3>1, <3>2, <3>3 DEF StreamInv
  <2> QED BY <2>1, <2>7, <2>8, <2>9 DEF Queue, rest
<1> QED BY <1>3, <1>4

(* A failed or finished connection takes what waits with it. *)
LEMMA CloseKeeps ==
    ASSUME StreamInv, Close
    PROVE  StreamInv'
<1>1. Typed /\ Accounted(Sent, next, refused, discarded)
  BY DEF StreamInv
<1>2. Typed'
  <2>1. \A s \in Seq(Nat) : Elems(s) \subseteq Nat
    BY DEF Elems
  <2>2. Elems(txBuf) \subseteq Nat /\ Elems(sock) \subseteq Nat
    BY <1>1, <2>1 DEF Typed
  <2>3. /\ txBuf' = <<>> /\ sock' = <<>> /\ watched' = {} /\ todo' = {} /\ pc' = "closed"
        /\ discarded' \subseteq Nat /\ UNCHANGED <<next, refused, peer, received>>
    BY <1>1, <2>2 DEF Close, envVars, Typed
  <2> QED BY <1>1, <2>3, Sizes DEF Typed
<1>3. /\ received \in Seq(Nat) /\ sock \in Seq(Nat) /\ txBuf \in Seq(Nat) /\ <<>> \in Seq(Nat)
      /\ received \o txBuf \in Seq(Nat)
  BY <1>1 DEF Typed
<1>4. Accounted(received \o txBuf, next, refused, discarded \union Elems(sock))
  BY <1>1, <1>3, LoseKeeps DEF Sent
<1>5. Accounted(received \o <<>>, next, refused, discarded \union Elems(sock) \union Elems(txBuf))
  <2>1. (received \o txBuf) \o <<>> = received \o txBuf
    BY <1>3
  <2> QED BY <1>3, <1>4, <2>1, LoseKeeps
<1>6. Sent' = received \o <<>>
  BY <1>3 DEF Sent, Close, envVars
<1>7. discarded' = discarded \union Elems(sock) \union Elems(txBuf)
  BY DEF Close
<1> QED BY <1>2, <1>5, <1>6, <1>7 DEF StreamInv, Close

(* The drain moves bytes from tx_buf to the socket, in order. *)
LEMMA HandleTxKeeps ==
    ASSUME StreamInv, HandleTx
    PROVE  StreamInv'
<1>1. Typed /\ Accounted(Sent, next, refused, discarded)
  BY DEF StreamInv
<1>2. /\ todo' = todo \ {"TX"} /\ UNCHANGED <<next, refused, discarded>>
      /\ UNCHANGED <<peer, input, received>>
  BY DEF HandleTx, envVars
<1>3. CASE /\ UNCHANGED <<txBuf, sock>>
           /\ watched' = watched \ {"TX"} /\ pc' \in {pc, "crashed"}
  <2>1. Typed'
    BY <1>1, <1>2, <1>3 DEF Typed
  <2>2. Sent' = Sent
    BY <1>2, <1>3 DEF Sent
  <2> QED BY <1>1, <1>2, <2>1, <2>2 DEF StreamInv
<1>4. CASE /\ \E n \in 1 .. Least(Len(txBuf), Chunk) : n <= Room /\ Move(n)
           /\ StopWhenDrained /\ UNCHANGED pc
  <2>1. PICK n \in 1 .. Least(Len(txBuf), Chunk) : n <= Room /\ Move(n)
    BY <1>4
  <2>2. n \in Nat /\ n >= 1 /\ n <= Len(txBuf) /\ txBuf \in Seq(Nat) /\ sock \in Seq(Nat)
        /\ received \in Seq(Nat)
    BY <1>1, <2>1, Sizes DEF Typed, Least
  <2> DEFINE a == SubSeq(txBuf, 1, n)
             b == SubSeq(txBuf, n + 1, Len(txBuf))
  <2>3. a \in Seq(Nat) /\ Len(a) = n /\ b \in Seq(Nat) /\ Len(b) = Len(txBuf) - n
    BY <2>2
  <2>4. a \o b = txBuf
    BY <2>2
  <2>5. sock' = sock \o a /\ txBuf' = b
    BY <2>1 DEF Move
  <2> HIDE DEF a, b
  <2>6. Typed'
    <3>1. sock' \in Seq(Nat) /\ Len(sock') <= SockSize
      BY <2>1, <2>2, <2>3, <2>5, Sizes DEF Room
    <3>2. txBuf' \in Seq(Nat) /\ Len(txBuf') <= TxSize
      BY <1>1, <2>2, <2>3, <2>5, Sizes DEF Typed
    <3>3. watched' \subseteq watched
      BY <1>4 DEF StopWhenDrained
    <3> QED BY <1>1, <1>2, <1>4, <3>1, <3>2, <3>3 DEF Typed
  <2>7. Sent' = Sent
    <3>1. received \o (sock \o a) = (received \o sock) \o a
      BY <2>2, <2>3, Assoc
    <3>2. ((received \o sock) \o a) \o b = (received \o sock) \o (a \o b)
      <4>1. received \o sock \in Seq(Nat)
        BY <2>2
      <4> QED BY <2>3, <4>1, Assoc
    <3> QED BY <1>2, <2>4, <2>5, <3>1, <3>2 DEF Sent
  <2> QED BY <1>1, <1>2, <2>6, <2>7 DEF StreamInv
<1> QED BY <1>3, <1>4 DEF HandleTx, IdleStop

(* The other end reads, or a reset drops what the kernel holds. *)
LEMMA PeerKeeps ==
    ASSUME StreamInv, PeerReads \/ PeerTurns
    PROVE  StreamInv'
<1>1. Typed /\ Accounted(Sent, next, refused, discarded)
  BY DEF StreamInv
<1>2. /\ received \in Seq(Nat) /\ sock \in Seq(Nat) /\ txBuf \in Seq(Nat) /\ <<>> \in Seq(Nat)
  BY <1>1 DEF Typed
<1>3. CASE PeerReads
  <2>1. /\ sock # <<>> /\ received' = Append(received, Head(sock)) /\ sock' = Tail(sock)
    BY <1>3 DEF PeerReads
  <2>2. /\ Head(sock) \in Nat /\ received' \in Seq(Nat)
        /\ sock' \in Seq(Nat) /\ Len(sock') = Len(sock) - 1
    BY <1>2, <2>1
  <2>3. Typed'
    BY <1>1, <1>3, <2>2, Sizes DEF Typed, PeerReads
  <2>4. received' \o sock' = received \o sock
    <3>1. received' = received \o <<Head(sock)>>
      BY <1>2, <2>1, <2>2, AppendIsConcat
    <3>2. <<Head(sock)>> \o Tail(sock) = sock
      BY <1>2, <2>1
    <3>3. (received \o <<Head(sock)>>) \o Tail(sock) = received \o (<<Head(sock)>> \o Tail(sock))
      <4>1. <<Head(sock)>> \in Seq(Nat)
        BY <2>2
      <4>2. Tail(sock) \in Seq(Nat)
        BY <2>1, <2>2
      <4> QED BY SMTT(40), <1>2, <4>1, <4>2, Assoc
    <3> QED BY <2>1, <3>1, <3>2, <3>3
  <2>5. Sent' = Sent
    BY <1>3, <2>4 DEF Sent, PeerReads
  <2> QED BY <1>1, <1>3, <2>3, <2>5 DEF StreamInv, PeerReads
<1>4. CASE PeerTurns /\ peer' # "reset"
  <2>1. Typed'
    BY <1>1, <1>4 DEF Typed, PeerTurns
  <2>2. Sent' = Sent
    BY <1>4 DEF Sent, PeerTurns
  <2> QED BY <1>1, <1>4, <2>1, <2>2 DEF StreamInv, PeerTurns
<1>5. CASE PeerTurns /\ peer' = "reset"
  <2>1. sock' = <<>> /\ discarded' = discarded \union Elems(sock)
        /\ UNCHANGED <<txBuf, watched, input, received, pc, todo, next, refused>>
    BY <1>5 DEF PeerTurns
  <2>2. Elems(sock) \subseteq Nat
    BY <1>2 DEF Elems
  <2>3. Typed'
    <3>1. discarded' \subseteq Nat /\ peer' \in {"up", "urgent", "fin", "reset"}
      BY <1>1, <1>5, <2>1, <2>2 DEF Typed
    <3> QED BY <1>1, <2>1, <3>1, Sizes DEF Typed
  <2>4. Accounted(received \o txBuf, next, refused, discarded \union Elems(sock))
    BY <1>1, <1>2, LoseKeeps DEF Sent
  <2>5. Sent' = received \o txBuf
    BY <1>2, <2>1 DEF Sent
  <2> QED BY <2>1, <2>3, <2>4, <2>5 DEF StreamInv
<1> QED BY <1>3, <1>4, <1>5

(* The steps that leave every byte where it is. *)
LEMMA RestKeeps ==
    ASSUME StreamInv,
           \/ Select \/ EndRound \/ Return \/ PeerSends
           \/ HandleRx /\ ~Close
           \/ UNCHANGED vars
    PROVE  StreamInv'
<1>1. Typed /\ Accounted(Sent, next, refused, discarded)
  BY DEF StreamInv
<1>2. UNCHANGED <<txBuf, sock, received, next, refused, discarded>>
  BY DEF Select, EndRound, Return, PeerSends, HandleRx, vars, envVars
<1>3. Typed'
  <2>1. CASE Select
    BY <1>1, <1>2, <2>1 DEF Typed, Select, envVars
  <2>2. CASE EndRound \/ Return
    BY <1>1, <1>2, <2>2 DEF Typed, EndRound, Return, envVars
  <2>3. CASE PeerSends
    BY <1>1, <1>2, <2>3 DEF Typed, PeerSends
  <2>4. CASE HandleRx /\ ~Close
    BY <1>1, <1>2, <2>4 DEF Typed, HandleRx
  <2>5. CASE UNCHANGED vars
    BY <1>1, <1>2, <2>5 DEF Typed, vars
  <2> QED BY <2>1, <2>2, <2>3, <2>4, <2>5
<1>4. Sent' = Sent
  BY <1>2 DEF Sent
<1> QED BY <1>1, <1>2, <1>3, <1>4 DEF StreamInv

LEMMA InvStep == StreamInv /\ [Next]_vars => StreamInv'
<1> SUFFICES ASSUME StreamInv, [Next]_vars
             PROVE  StreamInv'
  OBVIOUS
<1>1. CASE \E n \in Lens : Write(n)
  <2>1. PICK n \in Nat : Write(n)
    BY <1>1, SizesAssumption
  <2> QED BY <2>1, WriteBehindKeeps, WriteThroughKeeps DEF Write
<1>2. CASE Close
  BY <1>2, CloseKeeps
<1>3. CASE HandleTx
  BY <1>3, HandleTxKeeps
<1>4. CASE PeerReads \/ PeerTurns
  BY <1>4, PeerKeeps
<1>5. CASE Select \/ EndRound \/ Return \/ PeerSends \/ (HandleRx /\ ~Close) \/ UNCHANGED vars
  BY <1>5, RestKeeps
<1> QED BY <1>1, <1>2, <1>3, <1>4, <1>5 DEF Next, StreamTurn, HandleEx

-----------------------------------------------------------------------------
(* stream.c: tx_buf is never filled beyond its size, and every variable    *)
(* keeps its type.                                                         *)
THEOREM StreamTypes == Spec => []TypeOK
<1> DEFINE InputTyped == input \in BOOLEAN
<1>1. Init => InputTyped
  BY DEF Init
<1>2. InputTyped /\ [Next]_vars => InputTyped'
  BY DEF vars, envVars, Next, StreamTurn, Write, WriteBehind, WriteError, WriteThrough, Queue, Answer,
         Select, EndRound, HandleRx, Return, HandleTx, HandleEx, Close,
         PeerReads, PeerSends, PeerTurns
<1>3. StreamInv => Typed
  BY DEF StreamInv
<1>4. Typed /\ InputTyped => TypeOK
  BY DEF Typed, TypeOK
<1> HIDE DEF InputTyped
<1> QED BY <1>1, <1>2, <1>3, <1>4, InvInit, InvStep, PTL DEF Spec

(* stream_write and stream_handle_tx_event: nothing is sent twice or       *)
(* overtaken, for every size of the buffers and every length written.      *)
THEOREM StreamInOrder == Spec => []InOrder
<1>1. StreamInv => InOrder
  <2> SUFFICES ASSUME StreamInv
               PROVE  InOrder
    OBVIOUS
  <2>1. \A i \in DOMAIN Sent : Sent[i] \in Elems(Sent)
    BY DEF Elems
  <2> QED BY <2>1 DEF StreamInv, Accounted, Increasing, InOrder
<1> QED BY <1>1, InvInit, InvStep, PTL DEF Spec

(* Every byte the owner wrote is on its way or there, was refused, or went *)
(* with the connection: never two of these, and never none.                *)
THEOREM StreamConservation == Spec => []Conservation
<1>1. StreamInv => Conservation
  BY DEF StreamInv, Accounted, Conservation
<1> QED BY <1>1, InvInit, InvStep, PTL DEF Spec

-----------------------------------------------------------------------------
(* WebSocket, for every set of payload sizes and of length forms, every    *)
(* number of frames and however they are cut.                              *)

Ops == {"text", "continue"} \cup Control
Wire == [part : {"flags"}, op : Ops, fin : BOOLEAN] \cup [part : {"len"}, n : Nat, ext : Nat]
            \cup [part : {"mask"}] \cup PayloadByte
Message == [op : {"text"} \cup Control, data : Seq(PayloadByte)]
Meant == [open : BOOLEAN, data : Seq(PayloadByte), messages : Seq(Message)]

FrameLen(frame) == 6 + frame.ext + frame.n

(* What the server keeps of a message that has begun.                      *)
Begun(sofar) ==
    IF sofar.open THEN <<[part |-> "flags", op |-> "text", fin |-> FALSE]>> \o sofar.data ELSE <<>>

Prefix(s, t) == Len(s) <= Len(t) /\ \A i \in 1..Len(s) : s[i] = t[i]

(* The frames as bytes: toCome[j] is what comes after the first j of them. *)
AreBytes(frames, toCome) ==
    /\ toCome \in [0..Len(frames) -> Seq(Wire)]
    /\ toCome[Len(frames)] = <<>>
    /\ \A j \in 1..Len(frames) : toCome[j - 1] = FrameBytes(j, frames[j]) \o toCome[j]

(* What the client meant with the first j frames.  Only its last one can   *)
(* be a mistake.                                                           *)
Mean(frames, sofar, wrong) ==
    /\ sofar \in [0..Len(frames) -> Meant]
    /\ sofar[0] = NothingMeant
    /\ \A j \in 1..Len(frames) : sofar[j] = MeantBy(sofar[j - 1], j, frames[j])
    /\ \A j \in 1..Len(frames) : InTurn(sofar[j - 1], frames[j])
    /\ \A j \in 1..Len(frames) : Forbidden(sofar[j - 1], frames[j]) => j = Len(frames) /\ wrong
    /\ \A j \in 0..Len(frames) : ~sofar[j].open => sofar[j].data = <<>>
    /\ \A j \in 0..Len(frames) : Prefix(sofar[j].messages, sofar[Len(frames)].messages)

(* The server has taken the first k frames out of buffer, whose first len  *)
(* bytes are a message that has begun.                                     *)
Holds(begun, left, buffer, len) ==
    /\ left \in Seq(Wire) /\ buffer = Begun(begun) \o left /\ len = Len(Begun(begun))

(* Whether it can do no more before more bytes come, or not at all.        *)
Waits(frames, sofar, k, left) ==
    \/ k = Len(frames)
    \/ Len(left) < FrameLen(frames[k + 1])
    \/ Forbidden(sofar[k], frames[k + 1])

Answered(messages, answers) ==
    LET questions == Sublist(messages, Questions)
    IN  Sublist(answers, Answers) = [i \in DOMAIN questions |-> AnswerTo(questions[i])]

Reply == [op : {"ping", "pong", "close", "refuse"}, data : Seq(PayloadByte)]

Taken(k, toCome, sofar, left) ==
    /\ AreBytes(sentFrames, toCome)
    /\ Mean(sentFrames, sofar, mistaken)
    /\ meant = sofar[Len(sentFrames)]
    /\ k \in 0..Len(sentFrames)
    /\ Holds(sofar[k], left, recvMbuf, reassLen)
    /\ left \o stream = toCome[k]
    /\ ~looping => Waits(sentFrames, sofar, k, left)
    /\ delivered = sofar[k].messages

SocketTypes ==
    /\ stream \in Seq(Wire) /\ sentFrames \in Seq(Frames) /\ looping \in BOOLEAN
    /\ mistaken \in BOOLEAN /\ replies \in Seq(Reply)

SocketInv ==
    /\ SocketTypes
    /\ \E k, toCome, sofar, left : Taken(k, toCome, sofar, left)
    /\ Answered(delivered, replies)

-----------------------------------------------------------------------------
LEMMA JoinFacts ==
    ASSUME NEW S, NEW x \in Seq(S), NEW y \in Seq(S)
    PROVE  /\ x \o y \in Seq(S) /\ Len(x \o y) = Len(x) + Len(y)
           /\ \A i \in 1..Len(x) : (x \o y)[i] = x[i]
           /\ \A i \in 1..Len(y) : (x \o y)[Len(x) + i] = y[i]
<1>1. Len(x) \in Nat /\ Len(y) \in Nat
  OBVIOUS
<1>2. /\ x \o y \in Seq(S) /\ Len(x \o y) = Len(x) + Len(y)
      /\ \A i \in 1..Len(x) + Len(y) : (x \o y)[i] = IF i <= Len(x) THEN x[i] ELSE y[i - Len(x)]
  BY ConcatProperties
<1>3. ASSUME NEW i \in 1..Len(x) PROVE (x \o y)[i] = x[i]
  <2>1. i \in 1..Len(x) + Len(y) /\ i <= Len(x)
    BY <1>1
  <2> QED BY <1>2, <2>1
<1>4. ASSUME NEW i \in 1..Len(y) PROVE (x \o y)[Len(x) + i] = y[i]
  <2>1. Len(x) + i \in 1..Len(x) + Len(y) /\ ~(Len(x) + i <= Len(x)) /\ (Len(x) + i) - Len(x) = i
    BY <1>1
  <2> QED BY <1>2, <2>1
<1> QED BY <1>2, <1>3, <1>4

(* Two ends of a list.                                                     *)
LEMMA PartFacts ==
    ASSUME NEW S, NEW x \in Seq(S), NEW m \in 0..Len(x), NEW n \in m..Len(x)
    PROVE  /\ SubSeq(x, m + 1, n) \in Seq(S) /\ Len(SubSeq(x, m + 1, n)) = n - m
           /\ \A i \in 1..n - m : SubSeq(x, m + 1, n)[i] = x[m + i]
<1>1. Len(x) \in Nat /\ m \in Nat /\ n \in Nat /\ m <= n /\ n <= Len(x)
  OBVIOUS
<1>2. /\ Len(SubSeq(x, m + 1, n)) = n - m
      /\ \A i \in 1..n - m : SubSeq(x, m + 1, n)[i] = x[m + i]
  <2>1. SubSeq(x, m + 1, n) = [i \in 1..((n - (m + 1)) + 1) |-> x[i + (m + 1) - 1]]
    OBVIOUS
  <2>2. (n - (m + 1)) + 1 = n - m /\ n - m \in Nat
    BY <1>1
  <2>3. \A i \in 1..n - m : i + (m + 1) - 1 = m + i
    BY <1>1
  <2> QED BY <2>1, <2>2, <2>3
<1>3. SubSeq(x, m + 1, n) \in Seq(S)
  OBVIOUS
<1> QED BY <1>2, <1>3

LEMMA JoinedParts ==
    ASSUME NEW S, NEW x \in Seq(S), NEW y \in Seq(S), NEW k, k = Len(x), NEW n, n = Len(x) + Len(y)
    PROVE  SubSeq(x \o y, 1, k) = x /\ SubSeq(x \o y, k + 1, n) = y
<1> DEFINE t == x \o y
           a == SubSeq(t, 0 + 1, k)
           b == SubSeq(t, k + 1, n)
<1>1. /\ t \in Seq(S) /\ Len(t) = n /\ \A i \in 1..k : t[i] = x[i]
      /\ \A i \in 1..Len(y) : t[k + i] = y[i]
  BY JoinFacts
<1>2. k \in Nat /\ Len(y) \in Nat /\ n - k = Len(y) /\ k - 0 = k
      /\ 0 \in 0..n /\ k \in 0..n /\ n \in k..n /\ \A i \in 1..k : 0 + i = i
  OBVIOUS
<1> HIDE DEF t
<1>3. a \in Seq(S) /\ Len(a) = k /\ \A i \in 1..k : a[i] = t[i]
  <2>1. /\ SubSeq(t, 0 + 1, k) \in Seq(S) /\ Len(SubSeq(t, 0 + 1, k)) = k - 0
        /\ \A i \in 1..k - 0 : SubSeq(t, 0 + 1, k)[i] = t[0 + i]
    BY <1>1, <1>2, PartFacts
  <2> QED BY <1>2, <2>1
<1>4. b \in Seq(S) /\ Len(b) = n - k /\ \A i \in 1..n - k : b[i] = t[k + i]
  BY <1>1, <1>2, PartFacts
<1> HIDE DEF a, b
<1>5. a = x
  BY <1>1, <1>3, SeqEqual
<1>6. b = y
  BY <1>1, <1>2, <1>4, SeqEqual
<1> QED BY <1>5, <1>6 DEF a, b, t

LEMMA PartsRejoin ==
    ASSUME NEW S, NEW x \in Seq(S), NEW k \in 0..Len(x), NEW n, n = Len(x)
    PROVE  /\ SubSeq(x, 1, k) \in Seq(S) /\ SubSeq(x, k + 1, n) \in Seq(S)
           /\ Len(SubSeq(x, 1, k)) = k /\ Len(SubSeq(x, k + 1, n)) = n - k
           /\ SubSeq(x, 1, k) \o SubSeq(x, k + 1, n) = x
<1> DEFINE a == SubSeq(x, 0 + 1, k)
           b == SubSeq(x, k + 1, n)
<1>1. n \in Nat /\ k \in Nat /\ k <= n /\ 0 \in 0..n /\ k \in 0..n /\ n \in k..n /\ k - 0 = k
      /\ 0 + 1 = 1 /\ \A i \in 1..k : 0 + i = i
  OBVIOUS
<1>2. a \in Seq(S) /\ Len(a) = k /\ \A i \in 1..k : a[i] = x[i]
  <2>1. /\ SubSeq(x, 0 + 1, k) \in Seq(S) /\ Len(SubSeq(x, 0 + 1, k)) = k - 0
        /\ \A i \in 1..k - 0 : SubSeq(x, 0 + 1, k)[i] = x[0 + i]
    BY <1>1, PartFacts
  <2> QED BY <1>1, <2>1
<1>3. b \in Seq(S) /\ Len(b) = n - k /\ \A i \in 1..n - k : b[i] = x[k + i]
  BY <1>1, PartFacts
<1> HIDE DEF a, b
<1> DEFINE t == a \o b
<1>4. /\ t \in Seq(S) /\ Len(t) = k + (n - k) /\ \A i \in 1..k : t[i] = a[i]
      /\ \A i \in 1..n - k : t[k + i] = b[i]
  BY <1>2, <1>3, JoinFacts
<1> HIDE DEF t
<1>5. ASSUME NEW i \in 1..Len(x) PROVE t[i] = x[i]
  <2>1. CASE i \in 1..k
    BY <1>2, <1>4, <2>1
  <2>2. CASE ~(i \in 1..k)
    <3>1. i - k \in 1..n - k /\ k + (i - k) = i
      BY <1>1, <2>2
    <3>2. t[k + (i - k)] = b[i - k] /\ b[i - k] = x[k + (i - k)]
      BY <1>3, <1>4, <3>1
    <3> QED BY <3>1, <3>2
  <2> QED BY <2>1, <2>2
<1>6. k + (n - k) = Len(x)
  BY <1>1
<1>7. t = x
  BY <1>4, <1>5, <1>6, SeqEqual
<1> QED BY <1>1, <1>2, <1>3, <1>7 DEF a, b, t

LEMMA SameEnd ==
    ASSUME NEW S, NEW x \in Seq(S), NEW y \in Seq(S), NEW z \in Seq(S), x \o y = x \o z
    PROVE  y = z
<1>1. Len(x) \in Nat /\ Len(y) \in Nat /\ Len(z) \in Nat
  OBVIOUS
<1>2. Len(x) + Len(y) = Len(x) + Len(z)
  BY JoinFacts
<1>3. Len(y) = Len(z)
  BY <1>1, <1>2
<1>4. SubSeq(x \o y, Len(x) + 1, Len(x) + Len(y)) = y
  BY JoinedParts
<1>5. SubSeq(x \o z, Len(x) + 1, Len(x) + Len(z)) = z
  BY JoinedParts
<1> QED BY <1>3, <1>4, <1>5

LEMMA JoinRegroups ==
    ASSUME NEW S, NEW x \in Seq(S), NEW y \in Seq(S), NEW z \in Seq(S)
    PROVE  (x \o y) \o z = x \o (y \o z)
BY ConcatAssociative

(* Of two ways to cut the same list, the one that cuts later takes more.   *)
CutsLater(a, b, c, d) == a \o b = c \o d /\ Len(a) >= Len(c)
EndsAs(S, a, b, c, d) == \E r \in Seq(S) : a = c \o r /\ r \o b = d

LEMMA CutLater ==
    ASSUME NEW S, NEW a \in Seq(S), NEW b \in Seq(S), NEW c \in Seq(S), NEW d \in Seq(S),
           CutsLater(a, b, c, d)
    PROVE  EndsAs(S, a, b, c, d)
<1>0. a \o b = c \o d /\ Len(a) >= Len(c)
  BY DEF CutsLater
<1> DEFINE k == Len(c)
           n == Len(a)
           q == SubSeq(a, 1, k)
           r == SubSeq(a, k + 1, n)
<1>1. k \in 0..n /\ k \in Nat /\ n \in Nat
  BY <1>0
<1>2. r \in Seq(S) /\ q \in Seq(S) /\ Len(q) = k /\ q \o r = a
  BY <1>1, PartsRejoin
<1> HIDE DEF q, r
<1>3. r \in Seq(S) /\ q \in Seq(S)
  BY <1>2
<1>4. q = c
  <2>1. \A i \in 1..n : (a \o b)[i] = a[i]
    BY JoinFacts
  <2>2. \A i \in 1..k : (c \o d)[i] = c[i]
    BY JoinFacts
  <2>3. \A i \in 1..Len(q) : (q \o r)[i] = q[i]
    BY <1>3, JoinFacts
  <2>4. \A i \in 1..k : i \in 1..n
    BY <1>1
  <2>5. \A i \in 1..k : q[i] = c[i]
    BY <1>0, <1>1, <1>2, <2>1, <2>2, <2>3, <2>4
  <2> QED BY <1>2, <2>5, SeqEqual
<1>5. (c \o r) \o b = c \o (r \o b)
  <2>1. c \in Seq(S) /\ r \in Seq(S) /\ b \in Seq(S)
    BY <1>3
  <2> QED BY ONLY SMTT(40), <2>1, JoinRegroups
<1>6. r \o b \in Seq(S)
  BY <1>3, JoinFacts
<1>7. r \o b = d
  <2>1. c \o (r \o b) = c \o d
    BY <1>0, <1>2, <1>4, <1>5
  <2> QED BY <1>6, <2>1, SameEnd
<1> QED BY <1>2, <1>4, <1>7 DEF EndsAs

-----------------------------------------------------------------------------
(* What a frame is. *)
LEMMA FrameTypes ==
    ASSUME NEW frame \in Frames
    PROVE  /\ frame.op \in {"text", "continue", "close", "ping"} /\ frame.fin \in BOOLEAN
           /\ frame.n \in Nat /\ frame.ext \in Nat
           /\ FrameLen(frame) \in Nat /\ FrameLen(frame) >= 6
<1>1. Payloads \subseteq Nat /\ LengthBytes \subseteq Nat
  BY FramesAssumption
<1>2. /\ frame.op \in {"text", "continue", "close", "ping"} /\ frame.fin \in BOOLEAN
      /\ frame.n \in Nat /\ frame.ext \in Nat
  <2>1. CASE frame \in [op : {"text", "continue"}, fin : BOOLEAN, n : Payloads, ext : LengthBytes]
    BY <1>1, <2>1
  <2>2. CASE frame \in [op : Control \ {"pong"}, fin : BOOLEAN, n : Payloads, ext : {0}]
    <3>1. frame.op \in Control \ {"pong"} /\ frame.fin \in BOOLEAN /\ frame.n \in Payloads /\ frame.ext = 0
      BY <2>2
    <3>2. frame.op \in {"text", "continue", "close", "ping"}
      BY <3>1 DEF Control
    <3>3. frame.n \in Nat
      BY <1>1, <3>1
    <3>4. frame.ext \in Nat
      BY <3>1
    <3> QED BY <3>1, <3>2, <3>3, <3>4, Zenon
  <2> QED BY <2>1, <2>2 DEF Frames
<1> QED BY <1>2 DEF FrameLen

LEMMA OtherMask ==
    ASSUME NEW f, NEW i, NEW old, NEW new
    PROVE  [[part |-> "byte", f |-> f, i |-> i, masked |-> old] EXCEPT !.masked = new]
           = [part |-> "byte", f |-> f, i |-> i, masked |-> new]
OBVIOUS

LEMMA PayloadFacts ==
    ASSUME NEW f \in Nat, NEW n \in Nat
    PROVE  /\ \A masked \in BOOLEAN : /\ PayloadOf(f, n, masked) \in Seq(PayloadByte)
                                      /\ Len(PayloadOf(f, n, masked)) = n
           /\ Unmasked(PayloadOf(f, n, TRUE)) = PayloadOf(f, n, FALSE)
<1>1. ASSUME NEW masked \in BOOLEAN
      PROVE  /\ PayloadOf(f, n, masked) \in Seq(PayloadByte) /\ Len(PayloadOf(f, n, masked)) = n
             /\ \A i \in 1..n : PayloadOf(f, n, masked)[i]
                                = [part |-> "byte", f |-> f, i |-> i, masked |-> masked]
  <2> DEFINE p == PayloadOf(f, n, masked)
  <2>1. p = [i \in 1..n |-> [part |-> "byte", f |-> f, i |-> i, masked |-> masked]]
    BY DEF PayloadOf
  <2>2. \A i \in 1..n : [part |-> "byte", f |-> f, i |-> i, masked |-> masked] \in PayloadByte
    BY DEF PayloadByte
  <2> HIDE DEF p
  <2>3. p \in [1..n -> PayloadByte]
    BY <2>1, <2>2
  <2>4. p \in Seq(PayloadByte) /\ Len(p) = n
    BY <2>1, <2>3
  <2> QED BY <2>1, <2>4 DEF p
<1> DEFINE p == PayloadOf(f, n, TRUE)
           q == PayloadOf(f, n, FALSE)
<1>2. DOMAIN p = 1..n /\ q = [i \in 1..n |-> [part |-> "byte", f |-> f, i |-> i, masked |-> FALSE]]
  BY DEF PayloadOf
<1>3. \A i \in 1..n : p[i] = [part |-> "byte", f |-> f, i |-> i, masked |-> TRUE]
  BY <1>1
<1>4. Unmasked(p) = [i \in 1..n |-> [p[i] EXCEPT !.masked = ~@]]
  BY <1>2 DEF Unmasked
<1> HIDE DEF p, q
<1>5. ASSUME NEW i \in 1..n
      PROVE  [p[i] EXCEPT !.masked = ~@] = [part |-> "byte", f |-> f, i |-> i, masked |-> FALSE]
  <2> DEFINE on == TRUE
             off == FALSE
             r == [part |-> "byte", f |-> f, i |-> i, masked |-> on]
             u == [part |-> "byte", f |-> f, i |-> i, masked |-> off]
  <2>1. p[i] = r
    BY <1>3
  <2>2. off = ~on
    BY Zenon
  <2> HIDE DEF on, off
  <2>3. [r EXCEPT !.masked = off] = u
    BY OtherMask
  <2>4. r.masked = on
    OBVIOUS
  <2> HIDE DEF r, u
  <2>5. [r EXCEPT !.masked = ~@] = [r EXCEPT !.masked = off]
    BY <2>2, <2>4, Zenon
  <2>6. [p[i] EXCEPT !.masked = ~@] = u
    BY <2>1, <2>3, <2>5
  <2> QED BY <2>6 DEF off, u
<1>6. Unmasked(p) = q
  BY <1>2, <1>4, <1>5
<1> QED BY <1>1, <1>6 DEF p, q

LEMMA PayloadByteIsWire == Seq(PayloadByte) \subseteq Seq(Wire)
<1>1. PayloadByte \subseteq Wire
  BY DEF Wire
<1> QED BY <1>1

LEMMA FrameFacts ==
    ASSUME NEW f \in Nat, NEW frame \in Frames
    PROVE  /\ FrameBytes(f, frame) \in Seq(Wire)
           /\ Len(FrameBytes(f, frame)) = FrameLen(frame)
           /\ FrameBytes(f, frame)[1] = [part |-> "flags", op |-> frame.op, fin |-> frame.fin]
           /\ FrameBytes(f, frame)[2] = [part |-> "len", n |-> frame.n, ext |-> frame.ext]
           /\ SubSeq(FrameBytes(f, frame), 2 + frame.ext + 4 + 1, FrameLen(frame))
              = PayloadOf(f, frame.n, TRUE)
<1> DEFINE n == frame.n
           e == frame.ext
           a == [part |-> "flags", op |-> frame.op, fin |-> frame.fin]
           b == [part |-> "len", n |-> n, ext |-> e]
           c == [part |-> "mask"]
           mask == [i \in 1..e + 4 |-> c]
           head == <<a, b>>
           front == head \o mask
           p == PayloadOf(f, n, TRUE)
<1>1. n \in Nat /\ e \in Nat /\ frame.op \in Ops /\ frame.fin \in BOOLEAN
  BY FrameTypes DEF Ops, Control
<1>2. a \in Wire /\ b \in Wire /\ c \in Wire
  BY <1>1 DEF Wire
<1>3. FrameBytes(f, frame) = front \o p
  BY DEF FrameBytes
<1>4. FrameLen(frame) = 2 + e + 4 + n
  BY <1>1 DEF FrameLen
<1>5. p \in Seq(Wire) /\ Len(p) = n
  BY <1>1, PayloadFacts, PayloadByteIsWire
<1> HIDE DEF a, b, c, p
<1>6. mask \in Seq(Wire) /\ Len(mask) = e + 4
  <2>1. mask \in [1..e + 4 -> Wire] /\ e + 4 \in Nat
    BY <1>1, <1>2
  <2> QED BY <2>1
<1>7. head \in Seq(Wire) /\ Len(head) = 2 /\ head[1] = a /\ head[2] = b
  BY <1>2
<1> HIDE DEF head, mask
<1>8. front \in Seq(Wire) /\ Len(front) = 2 + (e + 4) /\ \A i \in 1..2 : front[i] = head[i]
  <2>1. head \in Seq(Wire) /\ mask \in Seq(Wire)
    BY <1>6, <1>7
  <2>2. /\ front \in Seq(Wire) /\ Len(front) = Len(head) + Len(mask)
        /\ \A i \in 1..Len(head) : front[i] = head[i]
    BY ONLY <2>1, JoinFacts
  <2> HIDE DEF front
  <2> QED BY <1>6, <1>7, <2>2
<1> HIDE DEF front
<1> DEFINE t == front \o p
<1>9. t \in Seq(Wire) /\ Len(t) = (2 + (e + 4)) + n /\ \A i \in 1..Len(front) : t[i] = front[i]
  <2>1. front \in Seq(Wire) /\ p \in Seq(Wire)
    BY <1>5, <1>8
  <2>2. /\ t \in Seq(Wire) /\ Len(t) = Len(front) + Len(p)
        /\ \A i \in 1..Len(front) : t[i] = front[i]
    BY ONLY <2>1, JoinFacts
  <2> HIDE DEF t
  <2> QED BY <1>5, <1>8, <2>2
<1>10. 1 \in 1..2 /\ 2 \in 1..2 /\ 1 \in 1..2 + (e + 4) /\ 2 \in 1..2 + (e + 4)
       /\ (2 + (e + 4)) + n = FrameLen(frame) /\ 2 + (e + 4) = 2 + e + 4
  BY <1>1, <1>4
<1>11. t[1] = a /\ t[2] = b
  BY <1>7, <1>8, <1>9, <1>10
<1>12. SubSeq(t, 2 + e + 4 + 1, FrameLen(frame)) = p
  <2> DEFINE k == 2 + e + 4
  <2>1. k = Len(front) /\ FrameLen(frame) = Len(front) + Len(p)
    BY <1>5, <1>8, <1>10
  <2> HIDE DEF k
  <2>2. SubSeq(front \o p, k + 1, FrameLen(frame)) = p
    <3>1. front \in Seq(Wire) /\ p \in Seq(Wire)
      BY <1>5, <1>8
    <3> QED BY ONLY <2>1, <3>1, JoinedParts
  <2> QED BY <2>2 DEF k
<1> QED BY <1>3, <1>9, <1>10, <1>11, <1>12 DEF a, b, p

-----------------------------------------------------------------------------
LEMMA SublistOfNothing == \A T : Sublist(<<>>, T) = <<>>
<1> SUFFICES ASSUME NEW T PROVE Sublist(<<>>, T) = <<>>
  OBVIOUS
<1>1. <<>> \in Seq({}) /\ Len(<<>>) = 0
  OBVIOUS
<1>2. PICK f : Walks(f, Len(<<>>), <<>>, T) /\ Sublist(<<>>, T) = f[Len(<<>>)]
  BY <1>1, WalkExists
<1>3. Walks(f, 0, <<>>, T) /\ Sublist(<<>>, T) = f[0]
  BY <1>1, <1>2
<1>4. 0 \in 0..0
  OBVIOUS
<1> QED BY <1>3, <1>4 DEF Walks

LEMMA SublistAppend ==
    ASSUME NEW S, NEW s \in Seq(S), NEW x \in S, NEW T
    PROVE  /\ Sublist(s, T) \in Seq(S)
           /\ x \in T => Sublist(Append(s, x), T) = Append(Sublist(s, T), x)
           /\ x \notin T => Sublist(Append(s, x), T) = Sublist(s, T)
<1> DEFINE n == Len(s)
           m == n + 1
           t == Append(s, x)
<1>1. n \in Nat /\ t \in Seq(S) /\ Len(t) = m /\ t[m] = x /\ \A i \in 1..n : t[i] = s[i] /\ s[i] \in S
  OBVIOUS
<1>2. PICK f : Walks(f, n, s, T) /\ Sublist(s, T) = f[n]
  BY WalkExists
<1> HIDE DEF t
<1>3. PICK h : Walks(h, Len(t), t, T) /\ Sublist(t, T) = h[Len(t)]
  BY <1>1, WalkExists
<1> HIDE DEF n
<1>4. \A i \in 0..n : f[i] = IF i = 0 THEN <<>>
                             ELSE IF s[i] \in T THEN Append(f[i - 1], s[i]) ELSE f[i - 1]
  BY <1>2 DEF Walks
<1>5. \A i \in 0..m : h[i] = IF i = 0 THEN <<>>
                             ELSE IF t[i] \in T THEN Append(h[i - 1], t[i]) ELSE h[i - 1]
  BY <1>1, <1>3 DEF Walks
<1> DEFINE P == {i \in 0..n : h[i] = f[i] /\ f[i] \in Seq(S)}
<1>6. 0 \in P
  <2>1. 0 \in 0..n /\ 0 \in 0..m
    BY <1>1
  <2>2. h[0] = <<>> /\ f[0] = <<>>
    BY <1>4, <1>5, <2>1
  <2>3. <<>> \in Seq(S)
    OBVIOUS
  <2>4. h[0] = f[0] /\ f[0] \in Seq(S)
    BY <2>2, <2>3
  <2> QED BY <2>1, <2>4
<1>7. ASSUME NEW i \in 0..n, i < n, i \in P
      PROVE  i + 1 \in P
  <2>1. i + 1 \in 0..n /\ i + 1 \in 0..m /\ (i + 1) - 1 = i /\ i + 1 # 0 /\ i + 1 \in 1..n
    BY <1>1, <1>7
  <2>2. f[i + 1] = IF s[i + 1] \in T THEN Append(f[i], s[i + 1]) ELSE f[i]
    BY <1>4, <2>1
  <2>3. h[i + 1] = IF t[i + 1] \in T THEN Append(h[i], t[i + 1]) ELSE h[i]
    BY <1>5, <2>1
  <2>4. t[i + 1] = s[i + 1] /\ s[i + 1] \in S
    BY <1>1, <2>1
  <2>5. h[i] = f[i] /\ f[i] \in Seq(S)
    BY <1>7
  <2>6. h[i + 1] = f[i + 1]
    BY <2>2, <2>3, <2>4, <2>5
  <2>7. f[i + 1] \in Seq(S)
    BY <2>2, <2>4, <2>5
  <2> QED BY <2>1, <2>6, <2>7
<1>8. n \in P
  <2>1. 0..n \subseteq P
    <3> HIDE DEF P
    <3> QED BY <1>1, <1>6, <1>7, CountUp
  <2> QED BY <1>1, <2>1
<1>9. h[m] = IF x \in T THEN Append(h[n], x) ELSE h[n]
  <2>1. m \in 0..m /\ m # 0 /\ m - 1 = n
    BY <1>1
  <2> QED BY <1>1, <1>5, <2>1
<1>10. Sublist(t, T) = h[m] /\ Sublist(s, T) = f[n]
  BY <1>1, <1>2, <1>3
<1>11. h[n] = f[n] /\ f[n] \in Seq(S)
  BY <1>8
<1> QED BY <1>9, <1>10, <1>11 DEF t

-----------------------------------------------------------------------------
LEMMA NothingMeantType == NothingMeant \in Meant
<1>1. <<>> \in Seq(PayloadByte) /\ <<>> \in Seq(Message)
  OBVIOUS
<1> QED BY <1>1 DEF NothingMeant, Meant

(* What one more frame means, by cases. *)
Means(sofar, frame, p, later) ==
    /\ later \in Meant
    /\ Forbidden(sofar, frame) => later = sofar
    /\ ~Forbidden(sofar, frame) /\ frame.op \in Control =>
          /\ frame.fin
          /\ later.open = sofar.open /\ later.data = sofar.data
          /\ [op |-> frame.op, data |-> p] \in Message
          /\ later.messages = Append(sofar.messages, [op |-> frame.op, data |-> p])
    /\ ~Forbidden(sofar, frame) /\ frame.op \notin Control /\ ~frame.fin =>
          /\ later.open /\ later.data = sofar.data \o p
          /\ later.messages = sofar.messages
    /\ ~Forbidden(sofar, frame) /\ frame.op \notin Control /\ frame.fin =>
          /\ ~later.open /\ later.data = <<>>
          /\ [op |-> "text", data |-> sofar.data \o p] \in Message
          /\ later.messages = Append(sofar.messages, [op |-> "text", data |-> sofar.data \o p])
    /\ ~later.open => later.data = <<>>
    /\ \/ later.messages = sofar.messages
       \/ \E x \in Message : later.messages = Append(sofar.messages, x)

LEMMA MeaningFacts ==
    ASSUME NEW sofar \in Meant, NEW f \in Nat, NEW frame \in Frames,
           NEW p, p = PayloadOf(f, frame.n, FALSE),
           NEW later, later = MeantBy(sofar, f, frame),
           ~sofar.open => sofar.data = <<>>, InTurn(sofar, frame)
    PROVE  Means(sofar, frame, p, later)
<1>1. /\ sofar.open \in BOOLEAN /\ sofar.data \in Seq(PayloadByte) /\ sofar.messages \in Seq(Message)
      /\ sofar = [open |-> sofar.open, data |-> sofar.data, messages |-> sofar.messages]
  BY DEF Meant
<1>2. p \in Seq(PayloadByte) /\ frame.op \in {"text", "continue", "close", "ping"}
  <2>1. frame.n \in Nat /\ FALSE \in BOOLEAN
    BY FrameTypes
  <2> QED BY <2>1, FrameTypes, PayloadFacts
<1>3. sofar.data \o p \in Seq(PayloadByte)
  BY <1>1, <1>2, JoinFacts
<1> DEFINE control == [op |-> frame.op, data |-> p]
           text == [op |-> "text", data |-> sofar.data \o p]
<1>4. text \in Message /\ Append(sofar.messages, text) \in Seq(Message)
  <2>1. text \in Message
    BY <1>3 DEF Message
  <2> HIDE DEF text
  <2> QED BY <1>1, <2>1
<1>5. ASSUME frame.op \in Control
      PROVE  control \in Message /\ Append(sofar.messages, control) \in Seq(Message)
  <2>1. control \in Message
    BY <1>2, <1>5 DEF Message
  <2> HIDE DEF control
  <2> QED BY <1>1, <2>1
<1> HIDE DEF control, text
<1>6. CASE Forbidden(sofar, frame)
  <2>1. later = sofar
    BY <1>6 DEF MeantBy
  <2> QED BY <1>6, <2>1 DEF Means
<1>7. CASE ~Forbidden(sofar, frame) /\ frame.op \in Control
  <2>1. later = [sofar EXCEPT !.messages = Append(@, control)]
    BY <1>7 DEF MeantBy, control
  <2>2. later = [open |-> sofar.open, data |-> sofar.data, messages |-> Append(sofar.messages, control)]
    BY <1>1, <2>1
  <2>3. later.open = sofar.open /\ later.data = sofar.data /\ later.messages = Append(sofar.messages, control)
    BY <2>2
  <2>4. later \in Meant
    BY <1>1, <1>5, <1>7, <2>2 DEF Meant
  <2>5. frame.fin
    BY <1>7 DEF Forbidden
  <2> QED BY <1>5, <1>7, <2>3, <2>4, <2>5 DEF control, Means
<1>8. CASE ~Forbidden(sofar, frame) /\ frame.op \notin Control /\ ~frame.fin
  <2> DEFINE d == sofar.data \o p
             on == TRUE
  <2>1. later = [sofar EXCEPT !.open = on, !.data = d]
    BY <1>8 DEF MeantBy
  <2>2. d \in Seq(PayloadByte) /\ on \in BOOLEAN
    BY <1>3
  <2> HIDE DEF d, on
  <2>3. later = [open |-> on, data |-> d, messages |-> sofar.messages]
    BY <1>1, <2>1
  <2>4. later.open = on /\ later.data = d /\ later.messages = sofar.messages
    BY <2>3
  <2>5. later \in Meant
    BY <1>1, <2>2, <2>3 DEF Meant
  <2>6. later.open
    BY <2>4 DEF on
  <2> QED BY <1>8, <2>4, <2>5, <2>6 DEF d, Means
<1>9. CASE ~Forbidden(sofar, frame) /\ frame.op \notin Control /\ frame.fin
  <2>1. later = [open |-> FALSE, data |-> <<>>, messages |-> Append(sofar.messages, text)]
    BY <1>9 DEF MeantBy, text
  <2>2. ~later.open /\ later.data = <<>> /\ later.messages = Append(sofar.messages, text)
    BY <2>1
  <2>3. later \in Meant
    BY <1>4, <2>1 DEF Meant
  <2> QED BY <1>4, <1>9, <2>2, <2>3 DEF text, Means
<1> QED BY <1>6, <1>7, <1>8, <1>9

-----------------------------------------------------------------------------
(* Messages and replies, one more of them. *)
LEMMA NoAnswer ==
    ASSUME NEW m \in Seq(Message), NEW r \in Seq(Reply), Answered(m, r),
           NEW x \in Reply, x \notin Answers
    PROVE  Answered(m, Append(r, x))
<1>1. Sublist(Append(r, x), Answers) = Sublist(r, Answers)
  BY SublistAppend
<1> QED BY <1>1 DEF Answered

LEMMA NoQuestion ==
    ASSUME NEW m \in Seq(Message), NEW r \in Seq(Reply), Answered(m, r),
           NEW x \in Message, x \notin Questions
    PROVE  Answered(Append(m, x), r)
<1>1. Sublist(Append(m, x), Questions) = Sublist(m, Questions)
  BY SublistAppend
<1> QED BY <1>1 DEF Answered

LEMMA OneAnswer ==
    ASSUME NEW m \in Seq(Message), NEW r \in Seq(Reply), Answered(m, r),
           NEW x \in Message, x \in Questions
    PROVE  /\ AnswerTo(x) \in Answers /\ AnswerTo(x) \in Reply
           /\ Answered(Append(m, x), Append(r, AnswerTo(x)))
<1> DEFINE y == AnswerTo(x)
           a == Sublist(m, Questions)
           n == Len(a)
           b == Append(a, x)
<1>1. y \in Answers /\ y \in Reply
  BY DEF AnswerTo, Answers, Reply, Questions
<1>2. a \in Seq(Message) /\ Sublist(Append(m, x), Questions) = b
  BY SublistAppend
<1>3. Sublist(Append(r, y), Answers) = Append(Sublist(r, Answers), y)
  BY <1>1, SublistAppend
<1>4. Sublist(r, Answers) = [i \in DOMAIN a |-> AnswerTo(a[i])]
  BY DEF Answered
<1> HIDE DEF a, y
<1>5. /\ n \in Nat /\ DOMAIN a = 1..n /\ b \in Seq(Message) /\ DOMAIN b = 1..n + 1 /\ b[n + 1] = x
      /\ \A i \in 1..n : b[i] = a[i] /\ i \in 1..n + 1 /\ i # n + 1
  BY <1>2
<1> HIDE DEF n, b
<1> DEFINE q == [i \in 1..n |-> AnswerTo(a[i])]
           t == [i \in 1..n + 1 |-> AnswerTo(b[i])]
<1>6. Append(q, y) = t
  <2> DEFINE W == {AnswerTo(a[i]) : i \in 1..n} \cup {y}
             u == Append(q, y)
  <2>1. \A i \in 1..n : q[i] \in W
    OBVIOUS
  <2>2. y \in W /\ n \in Nat
    BY <1>5
  <2>3. q = [i \in 1..n |-> q[i]] /\ \A i \in 1..n : q[i] = AnswerTo(a[i])
    OBVIOUS
  <2>4. t = [i \in 1..n + 1 |-> t[i]] /\ \A i \in 1..n + 1 : t[i] = AnswerTo(b[i])
    OBVIOUS
  <2> HIDE DEF W, q, t
  <2>5. q \in [1..n -> W]
    BY <2>1, <2>3
  <2>6. q \in Seq(W) /\ Len(q) = n
    BY <2>2, <2>5
  <2>7. u \in Seq(W) /\ Len(u) = n + 1 /\ u[n + 1] = y /\ \A i \in 1..n : u[i] = q[i]
    BY <2>2, <2>6
  <2>8. u = [i \in 1..n + 1 |-> u[i]]
    <3> HIDE DEF u
    <3> QED BY <2>2, <2>7
  <2> HIDE DEF u
  <2>9. ASSUME NEW i \in 1..n + 1 PROVE u[i] = t[i]
    <3>1. CASE i = n + 1
      BY <1>5, <2>4, <2>7, <3>1 DEF y
    <3>2. CASE i # n + 1
      <4>1. i \in 1..n
        BY <2>2, <3>2
      <4> QED BY <1>5, <2>3, <2>4, <2>7, <4>1
    <3> QED BY <3>1, <3>2
  <2>10. u = t
    BY <2>4, <2>8, <2>9
  <2> QED BY <2>10 DEF u
<1>7. Sublist(Append(r, y), Answers)
      = [i \in DOMAIN Sublist(Append(m, x), Questions) |-> AnswerTo(Sublist(Append(m, x), Questions)[i])]
  BY <1>2, <1>3, <1>4, <1>5, <1>6
<1>8. Answered(Append(m, x), Append(r, y))
  BY <1>7 DEF Answered
<1> QED BY <1>1, <1>8 DEF y

LEMMA NothingAnswered == Answered(<<>>, <<>>)
<1>1. Sublist(<<>>, Questions) = <<>> /\ Sublist(<<>>, Answers) = <<>>
  BY SublistOfNothing
<1>2. <<>> = [i \in DOMAIN <<>> |-> AnswerTo(<<>>[i])]
  OBVIOUS
<1> QED BY <1>1, <1>2 DEF Answered

-----------------------------------------------------------------------------
LEMMA BegunFacts ==
    ASSUME NEW sofar \in Meant
    PROVE  /\ Begun(sofar) \in Seq(Wire)
           /\ ~sofar.open => Begun(sofar) = <<>> /\ Len(Begun(sofar)) = 0
           /\ sofar.open => /\ Begun(sofar) = <<[part |-> "flags", op |-> "text", fin |-> FALSE]>> \o sofar.data
                            /\ Len(Begun(sofar)) = 1 + Len(sofar.data)
<1> DEFINE F == [part |-> "flags", op |-> "text", fin |-> FALSE]
<1>1. F \in Wire
  BY DEF Wire, Ops
<1>2. sofar.data \in Seq(Wire)
  BY PayloadByteIsWire DEF Meant
<1> HIDE DEF F
<1>3. <<F>> \in Seq(Wire) /\ Len(<<F>>) = 1
  BY <1>1
<1>4. <<F>> \o sofar.data \in Seq(Wire) /\ Len(<<F>> \o sofar.data) = Len(<<F>>) + Len(sofar.data)
  BY <1>2, <1>3, JoinFacts
<1>5. <<>> \in Seq(Wire) /\ Len(<<>>) = 0
  OBVIOUS
<1> QED BY <1>3, <1>4, <1>5 DEF Begun, F

LEMMA UnreadIs ==
    ASSUME NEW begun \in Meant, NEW left, Holds(begun, left, recvMbuf, reassLen)
    PROVE  Unread = left /\ recvMbuf \in Seq(Wire) /\ SubSeq(recvMbuf, 1, reassLen) = Begun(begun)
<1>1. Begun(begun) \in Seq(Wire) /\ left \in Seq(Wire) /\ recvMbuf = Begun(begun) \o left
      /\ reassLen = Len(Begun(begun))
  BY BegunFacts DEF Holds
<1>2. recvMbuf \in Seq(Wire) /\ Len(recvMbuf) = Len(Begun(begun)) + Len(left)
  BY <1>1, JoinFacts
<1> DEFINE n == Len(recvMbuf)
<1>3. n = Len(Begun(begun)) + Len(left)
  BY <1>2
<1> HIDE DEF n
<1>4. SubSeq(Begun(begun) \o left, 1, reassLen) = Begun(begun)
      /\ SubSeq(Begun(begun) \o left, reassLen + 1, n) = left
  BY ONLY <1>1, <1>3, JoinedParts
<1> QED BY <1>1, <1>2, <1>4 DEF Unread, n

(* While bytes are left, they begin with the next frame.                   *)
Ahead(k, toCome, sofar, left) ==
    /\ Len(sentFrames) \in Nat /\ k \in Nat /\ k <= Len(sentFrames)
    /\ sofar[k] \in Meant /\ (~sofar[k].open => sofar[k].data = <<>>)
    /\ left \in Seq(Wire) /\ Unread = left /\ recvMbuf \in Seq(Wire)
    /\ SubSeq(recvMbuf, 1, reassLen) = Begun(sofar[k])
    /\ k = Len(sentFrames) => left = <<>> /\ stream = <<>>
    /\ k < Len(sentFrames) =>
          /\ k + 1 \in 0..Len(sentFrames) /\ k + 1 \in 1..Len(sentFrames)
          /\ sentFrames[k + 1] \in Frames
          /\ toCome[k + 1] \in Seq(Wire)
          /\ left \o stream = FrameBytes(k + 1, sentFrames[k + 1]) \o toCome[k + 1]
          /\ sofar[k + 1] = MeantBy(sofar[k], k + 1, sentFrames[k + 1])
          /\ InTurn(sofar[k], sentFrames[k + 1])

LEMMA NextFrame ==
    ASSUME SocketTypes, NEW k, NEW toCome, NEW sofar, NEW left, Taken(k, toCome, sofar, left)
    PROVE  Ahead(k, toCome, sofar, left)
<1>1. /\ stream \in Seq(Wire) /\ sentFrames \in Seq(Frames) /\ AreBytes(sentFrames, toCome)
      /\ Mean(sentFrames, sofar, mistaken) /\ k \in 0..Len(sentFrames)
      /\ Holds(sofar[k], left, recvMbuf, reassLen) /\ left \o stream = toCome[k]
  BY DEF SocketTypes, Taken
<1> DEFINE n == Len(sentFrames)
<1>2. n \in Nat /\ k \in Nat /\ k <= n
  BY <1>1
<1>3. sofar[k] \in Meant /\ (~sofar[k].open => sofar[k].data = <<>>)
  BY <1>1 DEF Mean
<1>4. left \in Seq(Wire)
  BY <1>1 DEF Holds
<1>5. Unread = left /\ recvMbuf \in Seq(Wire) /\ SubSeq(recvMbuf, 1, reassLen) = Begun(sofar[k])
  BY <1>1, <1>3, UnreadIs
<1>6. ASSUME k = n PROVE left = <<>> /\ stream = <<>>
  <2>1. left \o stream = <<>>
    BY <1>1, <1>6 DEF AreBytes
  <2>2. Len(left \o stream) = Len(left) + Len(stream)
    BY <1>1, <1>4, JoinFacts
  <2>3. Len(left) \in Nat /\ Len(stream) \in Nat /\ Len(<<>>) = 0
    BY <1>1, <1>4
  <2>4. Len(left) = 0 /\ Len(stream) = 0
    BY <2>1, <2>2, <2>3
  <2> QED BY <1>1, <1>4, <2>4, EmptySeq
<1>7. ASSUME k < n
      PROVE  /\ k + 1 \in 0..n /\ k + 1 \in 1..n
             /\ sentFrames[k + 1] \in Frames
             /\ toCome[k + 1] \in Seq(Wire)
             /\ left \o stream = FrameBytes(k + 1, sentFrames[k + 1]) \o toCome[k + 1]
             /\ sofar[k + 1] = MeantBy(sofar[k], k + 1, sentFrames[k + 1])
             /\ InTurn(sofar[k], sentFrames[k + 1])
  <2>1. k + 1 \in 0..n /\ k + 1 \in 1..n /\ (k + 1) - 1 = k
    BY <1>2, <1>7
  <2>2. sentFrames[k + 1] \in Frames
    BY <1>1, <2>1
  <2>3. toCome[k + 1] \in Seq(Wire) /\ toCome[k] = FrameBytes(k + 1, sentFrames[k + 1]) \o toCome[k + 1]
    BY <1>1, <2>1 DEF AreBytes
  <2>4. sofar[k + 1] = MeantBy(sofar[k], k + 1, sentFrames[k + 1]) /\ InTurn(sofar[k], sentFrames[k + 1])
    BY <1>1, <2>1 DEF Mean
  <2> QED BY <1>1, <2>1, <2>2, <2>3, <2>4
<1> QED BY <1>2, <1>3, <1>4, <1>5, <1>6, <1>7 DEF Ahead

LEMMA SameFront ==
    ASSUME NEW S, NEW a \in Seq(S), NEW b \in Seq(S), NEW c \in Seq(S), NEW d \in Seq(S),
           a \o b = c \o d, NEW i \in 1..Len(a), i \in 1..Len(c)
    PROVE  a[i] = c[i]
<1>1. (a \o b)[i] = a[i]
  BY JoinFacts
<1>2. (c \o d)[i] = c[i]
  BY JoinFacts
<1> QED BY <1>1, <1>2

(* What the server looks at first, when there is any.                      *)
LooksLike(left, frame) ==
    /\ Len(left) >= 1
    /\ left[1] = [part |-> "flags", op |-> frame.op, fin |-> frame.fin]
    /\ left[1].op = frame.op /\ left[1].fin = frame.fin
    /\ Len(left) >= 2 => left[2].n = frame.n /\ left[2].ext = frame.ext

LEMMA FirstBytes ==
    ASSUME SocketTypes, NEW k, NEW toCome, NEW sofar, NEW left, Taken(k, toCome, sofar, left),
           left # <<>>
    PROVE  k < Len(sentFrames) /\ LooksLike(left, sentFrames[k + 1])
<1> DEFINE frame == sentFrames[k + 1]
<1>0. Ahead(k, toCome, sofar, left)
  BY NextFrame
<1>1. /\ Len(sentFrames) \in Nat /\ k \in Nat /\ k <= Len(sentFrames) /\ left \in Seq(Wire)
      /\ k = Len(sentFrames) => left = <<>>
  BY <1>0 DEF Ahead
<1>2. k < Len(sentFrames)
  BY <1>1
<1>3. /\ frame \in Frames /\ k + 1 \in Nat /\ toCome[k + 1] \in Seq(Wire) /\ left \in Seq(Wire)
      /\ left \o stream = FrameBytes(k + 1, frame) \o toCome[k + 1]
  <2>1. /\ sentFrames[k + 1] \in Frames /\ toCome[k + 1] \in Seq(Wire)
        /\ left \o stream = FrameBytes(k + 1, sentFrames[k + 1]) \o toCome[k + 1]
    BY <1>0, <1>2, Zenon DEF Ahead
  <2>2. k + 1 \in Nat
    BY <1>1
  <2> QED BY <1>1, <2>1, <2>2, Zenon
<1> DEFINE b == FrameBytes(k + 1, frame)
           r == toCome[k + 1]
<1>4. /\ b \in Seq(Wire) /\ Len(b) >= 6
      /\ b[1] = [part |-> "flags", op |-> frame.op, fin |-> frame.fin]
      /\ b[2] = [part |-> "len", n |-> frame.n, ext |-> frame.ext]
  BY ZenonT(60), <1>3, FrameFacts, FrameTypes
<1>5. left \o stream = b \o r /\ r \in Seq(Wire) /\ left \in Seq(Wire) /\ stream \in Seq(Wire)
  BY <1>3 DEF SocketTypes
<1> HIDE DEF b, r
<1>6. Len(left) >= 1 /\ Len(left) \in Nat /\ Len(b) \in Nat
  BY <1>1, <1>4, EmptySeq
<1>7. ASSUME NEW i \in 1..Len(left), i <= 2 PROVE left[i] = b[i]
  <2>1. i \in 1..Len(b)
    BY <1>4, <1>6, <1>7
  <2>2. b \in Seq(Wire)
    BY <1>4
  <2> QED BY ONLY <1>5, <2>1, <2>2, i \in 1..Len(left), SameFront
<1>8. left[1] = b[1]
  <2>1. 1 \in 1..Len(left)
    BY <1>6
  <2> QED BY <1>7, <2>1
<1>9. ASSUME Len(left) >= 2 PROVE left[2] = b[2]
  <2>1. 2 \in 1..Len(left)
    BY <1>6, <1>9
  <2> QED BY <1>7, <2>1
<1>10. left[1].op = frame.op
  BY <1>4, <1>8
<1>11. left[1].fin = frame.fin
  BY <1>4, <1>8
<1>12. ASSUME Len(left) >= 2 PROVE left[2].n = frame.n /\ left[2].ext = frame.ext
  BY <1>4, <1>9, <1>12
<1> QED BY <1>2, <1>4, <1>6, <1>8, <1>10, <1>11, <1>12 DEF LooksLike

LEMMA SocketInitially == WsInit => SocketInv
<1> SUFFICES ASSUME WsInit PROVE SocketInv
  OBVIOUS
<1>1. /\ stream = <<>> /\ recvMbuf = <<>> /\ reassLen = 0 /\ looping = FALSE /\ delivered = <<>>
      /\ replies = <<>> /\ sentFrames = <<>> /\ mistaken = FALSE /\ meant = NothingMeant
  BY DEF WsInit
<1>2. SocketTypes
  <2>1. looping \in BOOLEAN /\ mistaken \in BOOLEAN
    BY <1>1, Zenon
  <2>2. stream \in Seq(Wire) /\ sentFrames \in Seq(Frames) /\ replies \in Seq(Reply)
    BY <1>1
  <2> QED BY <2>1, <2>2 DEF SocketTypes
<1>3. Answered(delivered, replies)
  BY <1>1, NothingAnswered
<1> DEFINE toCome == [j \in 0..0 |-> <<>>]
           sofar == [j \in 0..0 |-> NothingMeant]
<1>4. 0 \in 0..0 /\ 1..0 = {} /\ Len(<<>>) = 0 /\ <<>> \in Seq(Wire) /\ \A j \in 0..0 : j = 0
  OBVIOUS
<1>5. toCome \in [0..0 -> Seq(Wire)] /\ toCome[0] = <<>>
  BY <1>4
<1>6. sofar \in [0..0 -> Meant] /\ sofar[0] = NothingMeant
  BY <1>4, NothingMeantType
<1> HIDE DEF toCome, sofar
<1>7. ~NothingMeant.open /\ NothingMeant.data = <<>> /\ NothingMeant.messages = <<>>
  BY DEF NothingMeant
<1>8. AreBytes(<<>>, toCome)
  BY <1>4, <1>5 DEF AreBytes
<1>9. Mean(<<>>, sofar, FALSE)
  <2>1. Prefix(<<>>, <<>>)
    BY DEF Prefix
  <2> QED BY <1>4, <1>6, <1>7, <2>1 DEF Mean
<1>10. Holds(NothingMeant, <<>>, <<>>, 0)
  <2>1. Begun(NothingMeant) = <<>>
    BY <1>7, BegunFacts, NothingMeantType
  <2>2. <<>> \o <<>> = <<>>
    OBVIOUS
  <2> QED BY <1>4, <2>1, <2>2 DEF Holds
<1>11. Waits(<<>>, sofar, 0, <<>>)
  BY <1>4 DEF Waits
<1>12. Taken(0, toCome, sofar, <<>>)
  <2>1. <<>> \o <<>> = <<>>
    OBVIOUS
  <2> QED BY <1>1, <1>4, <1>5, <1>6, <1>7, <1>8, <1>9, <1>10, <1>11, <2>1 DEF Taken
<1> QED BY <1>2, <1>3, <1>12 DEF SocketInv

-----------------------------------------------------------------------------
LEMMA UpgradeKeeps == SocketInv /\ (Upgrade \/ PingIdle) => SocketInv'
<1> SUFFICES ASSUME SocketInv, Upgrade \/ PingIdle PROVE SocketInv'
  OBVIOUS
<1>1. PICK k, toCome, sofar, left : Taken(k, toCome, sofar, left)
  BY DEF SocketInv
<1>2. UNCHANGED <<stream, recvMbuf, reassLen, looping, delivered, sentFrames, mistaken, meant>>
  BY DEF Upgrade, PingIdle
<1>3. Taken(k, toCome, sofar, left)'
  BY <1>1, <1>2 DEF Taken
<1>4. delivered \in Seq(Message) /\ replies \in Seq(Reply) /\ Answered(delivered, replies)
  <2>1. k \in 0..Len(sentFrames) /\ sofar \in [0..Len(sentFrames) -> Meant] /\ delivered = sofar[k].messages
    BY <1>1 DEF Taken, Mean
  <2>2. sofar[k].messages \in Seq(Message)
    BY <2>1 DEF Meant
  <2> QED BY <2>1, <2>2 DEF SocketInv, SocketTypes
<1>5. replies' \in Seq(Reply) /\ Answered(delivered, replies')
  <2>1. CASE Upgrade
    BY <1>4, <2>1 DEF Upgrade
  <2>2. CASE PingIdle
    <3> DEFINE x == [op |-> "ping", data |-> <<>>]
    <3>1. x \in Reply
      <4>1. <<>> \in Seq(PayloadByte)
        OBVIOUS
      <4> QED BY <4>1 DEF Reply
    <3>2. x \notin Answers
      BY DEF Answers
    <3>3. replies' = Append(replies, x)
      BY <2>2 DEF PingIdle
    <3> HIDE DEF x
    <3>4. Append(replies, x) \in Seq(Reply)
      BY <1>4, <3>1
    <3> QED BY <1>4, <3>1, <3>2, <3>3, <3>4, NoAnswer
  <2> QED BY <2>1, <2>2
<1>6. Answered(delivered, replies)'
  BY <1>2, <1>5
<1>7. SocketTypes'
  BY <1>2, <1>5 DEF SocketInv, SocketTypes
<1> QED BY <1>3, <1>6, <1>7 DEF SocketInv

LEMMA ReadStreamKeeps ==
    ASSUME SocketInv, NEW n \in 1..Len(stream), ReadStream(n)
    PROVE  SocketInv'
<1> DEFINE x == SubSeq(stream, 1, n)
           y == SubSeq(stream, n + 1, Len(stream))
<1>1. PICK k, toCome, sofar, left : Taken(k, toCome, sofar, left)
  BY DEF SocketInv
<1>2. stream \in Seq(Wire) /\ SocketTypes
  BY DEF SocketInv, SocketTypes
<1>3. /\ recvMbuf' = recvMbuf \o x /\ stream' = y /\ looping' = TRUE
      /\ UNCHANGED <<reassLen, delivered, replies, sentFrames, mistaken, meant>>
  BY DEF ReadStream
<1>4. x \in Seq(Wire) /\ y \in Seq(Wire) /\ x \o y = stream
  <2>1. n \in 0..Len(stream)
    BY <1>2
  <2> QED BY <1>2, <2>1, PartsRejoin
<1> HIDE DEF x, y
<1>5. /\ sofar[k] \in Meant /\ k \in 0..Len(sentFrames) /\ left \in Seq(Wire)
      /\ recvMbuf = Begun(sofar[k]) \o left /\ reassLen = Len(Begun(sofar[k]))
      /\ left \o stream = toCome[k] /\ delivered = sofar[k].messages
  BY <1>1 DEF Taken, Mean, Holds
<1>6. Begun(sofar[k]) \in Seq(Wire)
  BY <1>5, BegunFacts
<1> DEFINE front == Begun(sofar[k])
<1>7. PICK rest \in Seq(Wire) : rest = left \o x
  BY <1>4, <1>5, JoinFacts
<1>8. front \o rest = recvMbuf \o x
  <2>1. front \in Seq(Wire) /\ left \in Seq(Wire) /\ x \in Seq(Wire)
    BY <1>4, <1>5, <1>6
  <2> HIDE DEF front
  <2>2. (front \o left) \o x = front \o (left \o x)
    BY ONLY SMTT(40), <2>1, JoinRegroups
  <2> QED BY <1>5, <1>7, <2>2 DEF front
<1>9. rest \o y = toCome[k]
  <2>1. left \in Seq(Wire) /\ y \in Seq(Wire) /\ x \in Seq(Wire)
    BY <1>4, <1>5
  <2>2. (left \o x) \o y = left \o (x \o y)
    BY ONLY SMTT(40), <2>1, JoinRegroups
  <2> QED BY <1>4, <1>5, <1>7, <2>2
<1> HIDE DEF front
<1>10. Holds(sofar[k], rest, recvMbuf', reassLen')
  BY <1>3, <1>5, <1>7, <1>8 DEF Holds, front
<1>11. Taken(k, toCome, sofar, rest)'
  <2>1. rest \o stream' = toCome[k]
    BY <1>3, <1>9
  <2>2. ~looping' => Waits(sentFrames, sofar, k, rest)
    BY <1>3
  <2>3. delivered' = sofar[k].messages
    BY <1>3, <1>5
  <2>4. k \in 0..Len(sentFrames) /\ UNCHANGED <<sentFrames, mistaken, meant>>
    BY <1>3, <1>5
  <2> QED BY <1>1, <1>10, <2>1, <2>2, <2>3, <2>4 DEF Taken
<1>12. SocketTypes'
  BY <1>2, <1>3, <1>4 DEF SocketTypes
<1>13. Answered(delivered, replies)'
  BY <1>3 DEF SocketInv
<1> QED BY <1>11, <1>12, <1>13 DEF SocketInv

(* The parts of an invariant that a delivery works with.                   *)
LEMMA DeliverStarts ==
    ASSUME SocketInv
    PROVE  \E k, toCome, sofar, left :
              /\ Taken(k, toCome, sofar, left) /\ Ahead(k, toCome, sofar, left)
              /\ delivered = sofar[k].messages /\ reassLen = Len(Begun(sofar[k]))
              /\ Holds(sofar[k], left, recvMbuf, reassLen)
              /\ left \o stream = toCome[k] /\ k \in 0..Len(sentFrames)
<1>1. PICK k, toCome, sofar, left : Taken(k, toCome, sofar, left)
  BY DEF SocketInv
<1>2. Ahead(k, toCome, sofar, left)
  BY <1>1, NextFrame DEF SocketInv
<1>3. /\ delivered = sofar[k].messages /\ Holds(sofar[k], left, recvMbuf, reassLen)
      /\ left \o stream = toCome[k] /\ k \in 0..Len(sentFrames)
  BY <1>1 DEF Taken
<1> QED BY <1>1, <1>2, <1>3 DEF Holds

LEMMA StopKeeps ==
    ASSUME SocketInv, NEW k, NEW toCome, NEW sofar, NEW left,
           Taken(k, toCome, sofar, left), Waits(sentFrames, sofar, k, left),
           UNCHANGED <<stream, recvMbuf, reassLen, delivered, sentFrames, mistaken, meant>>,
           looping' = FALSE, replies' \in Seq(Reply), Answered(delivered, replies')
    PROVE  SocketInv'
<1>1. Taken(k, toCome, sofar, left)'
  BY DEF Taken
<1>2. SocketTypes'
  <2>1. looping' \in BOOLEAN
    BY Zenon
  <2> QED BY <2>1 DEF SocketInv, SocketTypes
<1> QED BY <1>1, <1>2 DEF SocketInv

LEMMA MisplacedKeeps ==
    ASSUME SocketInv, Deliver, Misplaced
    PROVE  SocketInv'
<1>1. PICK k, toCome, sofar, left :
         /\ Taken(k, toCome, sofar, left) /\ Ahead(k, toCome, sofar, left)
         /\ delivered = sofar[k].messages /\ reassLen = Len(Begun(sofar[k]))
         /\ Holds(sofar[k], left, recvMbuf, reassLen)
         /\ left \o stream = toCome[k] /\ k \in 0..Len(sentFrames)
  BY DeliverStarts
<1> DEFINE frame == sentFrames[k + 1]
<1>2. Unread = left /\ sofar[k] \in Meant
  BY <1>1 DEF Ahead
<1>3. left # <<>>
  BY <1>2 DEF Misplaced
<1>4. k < Len(sentFrames) /\ left[1].op = frame.op /\ left[1].fin = frame.fin
  <2>1. k < Len(sentFrames) /\ LooksLike(left, frame)
    BY <1>1, <1>3, FirstBytes DEF SocketInv
  <2> HIDE DEF frame
  <2> QED BY <2>1 DEF LooksLike
<1>5. frame.op \in {"text", "continue", "close", "ping"} /\ frame.fin \in BOOLEAN
  <2>1. frame \in Frames
    BY <1>1, <1>4 DEF Ahead
  <2> QED BY <2>1, FrameTypes
<1> HIDE DEF frame
<1>6. \/ IsFragment(left[1]) /\ left[1].op \in Control
      \/ ~IsFragment(left[1]) /\ left[1].op \notin Control /\ reassLen > 0
  BY <1>2 DEF Misplaced
<1>7. Forbidden(sofar[k], frame)
  <2>1. CASE IsFragment(left[1]) /\ left[1].op \in Control
    BY <1>4, <2>1 DEF IsFragment, Forbidden, Control
  <2>2. CASE ~IsFragment(left[1]) /\ left[1].op \notin Control /\ reassLen > 0
    <3>1. frame.fin /\ frame.op = "text"
      BY <1>4, <1>5, <2>2 DEF IsFragment, Control
    <3>2. sofar[k].open
      <4> SUFFICES ASSUME ~sofar[k].open PROVE FALSE
        OBVIOUS
      <4>1. Len(Begun(sofar[k])) = 0
        BY <1>2, BegunFacts
      <4> QED BY <1>1, <2>2, <4>1
    <3> QED BY <3>1, <3>2 DEF Forbidden
  <2> QED BY <1>6, <2>1, <2>2
<1>8. Waits(sentFrames, sofar, k, left)
  BY <1>7 DEF Waits, frame
<1> DEFINE x == [op |-> "refuse", data |-> <<>>]
<1>9. /\ UNCHANGED <<stream, recvMbuf, reassLen, delivered, sentFrames, mistaken, meant>>
      /\ looping' = FALSE /\ replies' = Append(replies, x)
  BY DEF Deliver, Misplaced
<1>10. x \in Reply /\ x \notin Answers
  <2>1. <<>> \in Seq(PayloadByte)
    OBVIOUS
  <2> QED BY <2>1 DEF Reply, Answers
<1> HIDE DEF x
<1>11. delivered \in Seq(Message) /\ replies \in Seq(Reply) /\ Answered(delivered, replies)
  BY <1>1, <1>2 DEF Meant, SocketInv, SocketTypes
<1>12. Append(replies, x) \in Seq(Reply)
  BY <1>10, <1>11
<1>13. Answered(delivered, Append(replies, x))
  BY <1>10, <1>11, NoAnswer
<1> QED BY <1>1, <1>8, <1>9, <1>12, <1>13, StopKeeps

LEMMA HeaderFacts ==
    ASSUME NEW new \in Seq(Wire), NEW ext \in Nat, Len(new) >= 2 => new[2].ext = ext
    PROVE  /\ HeaderLen(new) \in Nat
           /\ HeaderLen(new) > 0 => Len(new) >= 2 /\ HeaderLen(new) = 2 + ext + 4
           /\ Len(new) >= 2 + ext + 4 => HeaderLen(new) = 2 + ext + 4
<1>1. Len(new) \in Nat
  OBVIOUS
<1>2. CASE Len(new) < 2
  <2>1. HeaderLen(new) = 0
    BY <1>2 DEF HeaderLen
  <2> QED BY <1>1, <1>2, <2>1
<1>3. CASE ~(Len(new) < 2)
  <2>1. Len(new) >= 2 /\ new[2].ext = ext
    BY <1>1, <1>3
  <2>2. HeaderLen(new) = IF Len(new) >= (IF ext = 0 THEN 4 ELSE 2 + ext + 4) THEN 2 + ext + 4 ELSE 0
    BY <1>3, <2>1 DEF HeaderLen
  <2> QED BY <1>1, <2>1, <2>2
<1> QED BY <1>2, <1>3

LEMMA IncompleteKeeps ==
    ASSUME SocketInv, Deliver, Incomplete
    PROVE  SocketInv'
<1>1. PICK k, toCome, sofar, left :
         /\ Taken(k, toCome, sofar, left) /\ Ahead(k, toCome, sofar, left)
         /\ delivered = sofar[k].messages /\ reassLen = Len(Begun(sofar[k]))
         /\ Holds(sofar[k], left, recvMbuf, reassLen)
         /\ left \o stream = toCome[k] /\ k \in 0..Len(sentFrames)
  BY DeliverStarts
<1>2. Unread = left /\ left \in Seq(Wire) /\ Len(left) \in Nat
  BY <1>1 DEF Ahead
<1>3. Waits(sentFrames, sofar, k, left)
  <2> DEFINE frame == sentFrames[k + 1]
  <2> SUFFICES ASSUME k # Len(sentFrames), ~(Len(left) < FrameLen(frame))
               PROVE  FALSE
    BY DEF Waits
  <2>1. k < Len(sentFrames)
    BY <1>1 DEF Ahead
  <2>2. frame \in Frames
    BY <1>1, <2>1 DEF Ahead
  <2> HIDE DEF frame
  <2>3. /\ frame.n \in Nat /\ frame.ext \in Nat /\ FrameLen(frame) = 6 + frame.ext + frame.n
    BY <2>2, FrameTypes DEF FrameLen
  <2>4. Len(left) >= 6 + frame.ext + frame.n /\ Len(left) >= 2 /\ Len(left) >= 2 + frame.ext + 4
        /\ 2 + frame.ext + 4 > 0
    BY <1>2, <2>3
  <2>5. left # <<>>
    BY <2>4
  <2>6. left[2].n = frame.n /\ left[2].ext = frame.ext
    <3>1. LooksLike(left, frame)
      BY <1>1, <2>5, FirstBytes DEF SocketInv, frame
    <3> QED BY <2>4, <3>1 DEF LooksLike
  <2>7. HeaderLen(left) = 2 + frame.ext + 4
    BY <1>2, <2>3, <2>4, <2>6, HeaderFacts
  <2>8. Len(left) >= HeaderLen(left) + left[2].n
    BY <2>3, <2>4, <2>6, <2>7
  <2>9. WholeFrame(HeaderLen(left))
    BY <1>2, <2>4, <2>7, <2>8 DEF WholeFrame
  <2> QED BY <1>2, <2>9 DEF Incomplete
<1>4. /\ UNCHANGED <<stream, recvMbuf, reassLen, delivered, sentFrames, mistaken, meant, replies>>
      /\ looping' = FALSE
  BY DEF Deliver, Incomplete
<1>5. replies' \in Seq(Reply) /\ Answered(delivered, replies')
  BY <1>4 DEF SocketInv, SocketTypes
<1> QED BY <1>1, <1>3, <1>4, <1>5, StopKeeps

-----------------------------------------------------------------------------
LEMMA PartOfFirst ==
    ASSUME NEW S, NEW x \in Seq(S), NEW y \in Seq(S), NEW m \in 0..Len(x), NEW n \in m..Len(x)
    PROVE  SubSeq(x \o y, m + 1, n) = SubSeq(x, m + 1, n)
<1> DEFINE t == x \o y
           a == SubSeq(t, m + 1, n)
           b == SubSeq(x, m + 1, n)
<1>1. t \in Seq(S) /\ Len(t) = Len(x) + Len(y) /\ \A i \in 1..Len(x) : t[i] = x[i]
  BY JoinFacts
<1> HIDE DEF t
<1>2. Len(x) \in Nat /\ Len(y) \in Nat /\ m \in Nat /\ n \in Nat /\ m <= n /\ n <= Len(x)
  OBVIOUS
<1>3. m \in 0..Len(t) /\ n \in m..Len(t) /\ \A i \in 1..n - m : m + i \in 1..Len(x)
  BY <1>1, <1>2
<1>4. a \in Seq(S) /\ Len(a) = n - m /\ \A i \in 1..n - m : a[i] = t[m + i]
  BY <1>1, <1>3, PartFacts
<1>5. b \in Seq(S) /\ Len(b) = n - m /\ \A i \in 1..n - m : b[i] = x[m + i]
  BY PartFacts
<1> HIDE DEF a, b
<1>6. a = b
  <2>1. \A i \in 1..Len(a) : a[i] = b[i]
    BY <1>1, <1>3, <1>4, <1>5
  <2> QED BY <1>4, <1>5, <2>1, SeqEqual
<1> QED BY <1>6 DEF a, b, t

(* The next frame is there whole, and rest behind it.                      *)
IsWhole(k, toCome, left, frame, rest) ==
    /\ k < Len(sentFrames) /\ frame \in Frames /\ frame = sentFrames[k + 1]
    /\ left[1] = [part |-> "flags", op |-> frame.op, fin |-> frame.fin]
    /\ left[1].op = frame.op /\ left[1].fin = frame.fin /\ left[2].n = frame.n
    /\ rest \in Seq(Wire) /\ rest \o stream = toCome[k + 1]
    /\ Unmasked(SubSeq(left, HeaderLen(left) + 1, HeaderLen(left) + frame.n))
       = PayloadOf(k + 1, frame.n, FALSE)
    /\ SubSeq(left, HeaderLen(left) + frame.n + 1, Len(left)) = rest

LEMMA WholeFrameFacts ==
    ASSUME SocketInv, NEW k, NEW toCome, NEW sofar, NEW left,
           Taken(k, toCome, sofar, left), Ahead(k, toCome, sofar, left),
           left # <<>>, WholeFrame(HeaderLen(Unread))
    PROVE  \E frame, rest : IsWhole(k, toCome, left, frame, rest)
<1> DEFINE f == k + 1
           frame == sentFrames[f]
           b == FrameBytes(f, frame)
           h == 2 + frame.ext + 4
           more == toCome[f]
<1>1. Unread = left /\ left \in Seq(Wire) /\ Len(left) \in Nat /\ k \in Nat
  BY DEF Ahead
<1>2. /\ k < Len(sentFrames) /\ left[1].op = frame.op /\ left[1].fin = frame.fin
      /\ left[1] = [part |-> "flags", op |-> frame.op, fin |-> frame.fin]
      /\ Len(left) >= 2 => left[2].n = frame.n /\ left[2].ext = frame.ext
  <2>1. k < Len(sentFrames) /\ LooksLike(left, frame)
    BY FirstBytes DEF SocketInv
  <2> HIDE DEF frame
  <2> QED BY <2>1 DEF LooksLike
<1>3. /\ frame \in Frames /\ more \in Seq(Wire) /\ left \o stream = b \o more
  BY <1>2, Zenon DEF Ahead
<1>4. f \in Nat
  BY <1>1
<1> HIDE DEF f, frame, more
<1>5. /\ b \in Seq(Wire) /\ Len(b) = FrameLen(frame)
      /\ SubSeq(b, 2 + frame.ext + 4 + 1, FrameLen(frame)) = PayloadOf(f, frame.n, TRUE)
  BY <1>3, <1>4, FrameFacts
<1> HIDE DEF b
<1>6. frame.n \in Nat /\ frame.ext \in Nat /\ FrameLen(frame) = h + frame.n
  BY <1>3, FrameTypes DEF FrameLen
<1>7. HeaderLen(left) > 0 /\ Len(left) >= HeaderLen(left) + left[2].n
  BY <1>1 DEF WholeFrame
<1>8. Len(left) >= 2 /\ HeaderLen(left) = h
  BY <1>1, <1>2, <1>6, <1>7, HeaderFacts
<1>9. Len(left) >= Len(b)
  BY <1>2, <1>5, <1>6, <1>7, <1>8
<1>10. stream \in Seq(Wire)
  BY DEF SocketInv, SocketTypes
<1>11. PICK rest \in Seq(Wire) : left = b \o rest /\ rest \o stream = more
  <2>1. left \in Seq(Wire) /\ b \in Seq(Wire) /\ more \in Seq(Wire) /\ stream \in Seq(Wire)
    BY <1>1, <1>3, <1>5, <1>10
  <2>2. CutsLater(left, stream, b, more)
    BY <1>3, <1>9 DEF CutsLater
  <2>3. EndsAs(Wire, left, stream, b, more)
    BY ONLY <2>1, <2>2, CutLater
  <2> QED BY <2>3 DEF EndsAs
<1> HIDE DEF h
<1>12. SubSeq(left, h + 1, h + frame.n) = PayloadOf(f, frame.n, TRUE)
  <2> DEFINE n == h + frame.n
  <2>1. h \in 0..Len(b) /\ n \in h..Len(b) /\ n = FrameLen(frame)
    BY <1>5, <1>6 DEF h
  <2>2. SubSeq(b, h + 1, n) = PayloadOf(f, frame.n, TRUE)
    BY <1>5, <2>1 DEF h
  <2> HIDE DEF n
  <2>3. b \in Seq(Wire) /\ rest \in Seq(Wire)
    BY <1>5
  <2>4. SubSeq(b \o rest, h + 1, n) = SubSeq(b, h + 1, n)
    BY ONLY <2>1, <2>3, PartOfFirst
  <2> QED BY <1>11, <2>2, <2>4 DEF n
<1>13. Unmasked(SubSeq(left, h + 1, h + frame.n)) = PayloadOf(f, frame.n, FALSE)
  BY <1>4, <1>6, <1>12, PayloadFacts
<1>14. SubSeq(left, h + frame.n + 1, Len(left)) = rest
  <2> DEFINE m == h + frame.n
             n == Len(left)
  <2>1. b \in Seq(Wire) /\ rest \in Seq(Wire)
    BY <1>5
  <2>2. Len(b \o rest) = Len(b) + Len(rest)
    BY ONLY <2>1, JoinFacts
  <2>3. m = Len(b) /\ n = Len(b) + Len(rest)
    BY <1>5, <1>6, <1>11, <2>2
  <2> HIDE DEF m, n
  <2>4. SubSeq(b \o rest, m + 1, n) = rest
    BY ONLY <2>1, <2>3, JoinedParts
  <2> QED BY <1>11, <2>4 DEF m, n
<1>15. IsWhole(k, toCome, left, frame, rest)
  BY <1>2, <1>3, <1>8, <1>11, <1>13, <1>14 DEF IsWhole, f, frame, more
<1> QED BY <1>15

(* One frame more is taken.                                                *)
LEMMA OneFrameMore ==
    ASSUME SocketInv, NEW k, NEW toCome, NEW sofar, NEW left, NEW rest,
           Taken(k, toCome, sofar, left), k + 1 \in 0..Len(sentFrames),
           rest \o stream = toCome[k + 1], looping,
           UNCHANGED <<stream, looping, sentFrames, mistaken, meant>>,
           Holds(sofar[k + 1], rest, recvMbuf', reassLen'),
           delivered' = sofar[k + 1].messages,
           replies' \in Seq(Reply), Answered(delivered', replies')
    PROVE  SocketInv'
<1>1. Taken(k + 1, toCome, sofar, rest)'
  BY SMTT(40) DEF Taken
<1>2. SocketTypes'
  BY DEF SocketInv, SocketTypes
<1> QED BY <1>1, <1>2 DEF SocketInv

LEMMA WholeMessageKeeps ==
    ASSUME SocketInv, Deliver, WholeMessage
    PROVE  SocketInv'
<1>1. PICK k, toCome, sofar, left :
         /\ Taken(k, toCome, sofar, left) /\ Ahead(k, toCome, sofar, left)
         /\ delivered = sofar[k].messages /\ reassLen = Len(Begun(sofar[k]))
         /\ Holds(sofar[k], left, recvMbuf, reassLen)
         /\ left \o stream = toCome[k] /\ k \in 0..Len(sentFrames)
  BY DeliverStarts
<1>2. Unread = left /\ SubSeq(recvMbuf, 1, reassLen) = Begun(sofar[k])
      /\ sofar[k] \in Meant /\ (~sofar[k].open => sofar[k].data = <<>>) /\ k \in Nat
  BY <1>1 DEF Ahead
<1>3. left # <<>> /\ WholeFrame(HeaderLen(Unread)) /\ ~IsFragment(left[1])
      /\ (left[1].op \in Control \/ reassLen = 0)
  BY <1>2 DEF WholeMessage
<1>4. PICK frame, rest : IsWhole(k, toCome, left, frame, rest)
  BY <1>1, <1>3, WholeFrameFacts
<1>5. /\ k < Len(sentFrames) /\ frame \in Frames /\ frame = sentFrames[k + 1]
      /\ left[1].op = frame.op /\ left[1].fin = frame.fin /\ left[2].n = frame.n
      /\ rest \in Seq(Wire) /\ rest \o stream = toCome[k + 1]
      /\ Unmasked(SubSeq(left, HeaderLen(left) + 1, HeaderLen(left) + frame.n))
         = PayloadOf(k + 1, frame.n, FALSE)
      /\ SubSeq(left, HeaderLen(left) + frame.n + 1, Len(left)) = rest
  BY <1>4 DEF IsWhole
<1> DEFINE p == PayloadOf(k + 1, frame.n, FALSE)
           x == [op |-> frame.op, data |-> p]
           old == sofar[k]
           new == sofar[k + 1]
<1>6. /\ delivered' = Append(delivered, x) /\ recvMbuf' = Begun(old) \o rest
      /\ reassLen' = reassLen
      /\ UNCHANGED <<stream, looping, sentFrames, mistaken, meant>> /\ looping
      /\ replies' = CASE frame.op = "ping" -> Append(replies, [op |-> "pong", data |-> p])
                      [] frame.op = "close" -> Append(replies, [op |-> "close", data |-> p])
                      [] OTHER -> replies
  <2>1. Unread[1].op = frame.op /\ Unread[2].n = frame.n /\ HeaderLen(Unread) = HeaderLen(left)
    BY <1>2, <1>5
  <2>2. Unmasked(SubSeq(Unread, HeaderLen(Unread) + 1, HeaderLen(Unread) + Unread[2].n)) = p
    BY <1>2, <1>5, <2>1
  <2>3. Without(HeaderLen(Unread) + Unread[2].n) = Begun(old) \o rest
    BY <1>2, <1>5, <2>1 DEF Without
  <2>4. UNCHANGED <<stream, looping, sentFrames, mistaken, meant, reassLen>> /\ looping
    BY DEF Deliver, WholeMessage
  <2>5. delivered' = Append(delivered, x) /\ recvMbuf' = Begun(old) \o rest
    BY <2>1, <2>2, <2>3 DEF WholeMessage
  <2> QED BY <2>1, <2>2, <2>4, <2>5 DEF WholeMessage
<1>7. frame.fin /\ frame.op \in {"text", "close", "ping"}
  <2>1. frame.op \in {"text", "continue", "close", "ping"} /\ frame.fin \in BOOLEAN
    BY <1>5, FrameTypes
  <2>2. ~(~frame.fin \/ frame.op = "continue")
    BY <1>3, <1>5 DEF IsFragment
  <2> QED BY <2>1, <2>2
<1>8. new = MeantBy(old, k + 1, frame) /\ InTurn(old, frame) /\ k + 1 \in 0..Len(sentFrames)
  BY <1>1, <1>5, Zenon DEF Ahead
<1>9. k + 1 \in Nat
  BY <1>2
<1>10. frame.op \notin Control => reassLen = 0
  BY <1>3, <1>5
<1> HIDE DEF p, x, old, new
<1>11. old.open => reassLen > 0
  <2> SUFFICES ASSUME old.open PROVE reassLen > 0
    OBVIOUS
  <2>1. Len(Begun(old)) = 1 + Len(old.data) /\ old.data \in Seq(PayloadByte)
    BY <1>2, BegunFacts DEF old, Meant
  <2>2. Len(old.data) \in Nat
    BY <2>1
  <2> QED BY <1>1, <2>1, <2>2 DEF old
<1>12. ~Forbidden(old, frame)
  BY <1>7, <1>10, <1>11 DEF Forbidden, Control
<1>13. Means(old, frame, p, new)
  <2>1. /\ old \in Meant /\ k + 1 \in Nat /\ frame \in Frames /\ p = PayloadOf(k + 1, frame.n, FALSE)
        /\ new = MeantBy(old, k + 1, frame) /\ (~old.open => old.data = <<>>) /\ InTurn(old, frame)
    BY <1>2, <1>5, <1>8, <1>9 DEF p, old
  <2> QED BY ONLY <2>1, MeaningFacts
<1>14. /\ Begun(new) = Begun(old) /\ new.messages = Append(old.messages, x) /\ x \in Message
  <2>1. CASE frame.op \in Control
    <3>1. new.open = old.open /\ new.data = old.data /\ x \in Message
          /\ new.messages = Append(old.messages, x)
      BY <1>12, <1>13, <2>1 DEF Means, x
    <3> QED BY <3>1 DEF Begun
  <2>2. CASE frame.op \notin Control
    <3>1. ~old.open /\ old.data = <<>>
      <4>1. ~old.open
        BY <1>10, <1>11, <2>2
      <4> QED BY <1>2, <4>1 DEF old
    <3>2. /\ ~new.open /\ [op |-> "text", data |-> old.data \o p] \in Message
          /\ new.messages = Append(old.messages, [op |-> "text", data |-> old.data \o p])
      BY <1>7, <1>12, <1>13, <2>2 DEF Means
    <3>3. frame.op = "text"
      BY <1>7, <2>2 DEF Control
    <3>4. old.data \o p = p
      <4>1. frame.n \in Nat /\ FALSE \in BOOLEAN
        BY <1>5, FrameTypes
      <4>2. p \in Seq(PayloadByte)
        BY <1>9, <4>1, PayloadFacts DEF p
      <4> QED BY <3>1, <4>2, ConcatEmptySeq
    <3>5. Begun(new) = <<>> /\ Begun(old) = <<>>
      BY <3>1, <3>2 DEF Begun
    <3> QED BY <3>2, <3>3, <3>4, <3>5 DEF x
  <2> QED BY <2>1, <2>2
<1>15. delivered' = new.messages
  BY <1>1, <1>6, <1>14 DEF old
<1>16. Holds(new, rest, recvMbuf', reassLen')
  BY <1>1, <1>5, <1>6, <1>14 DEF Holds, old
<1>17. delivered \in Seq(Message) /\ replies \in Seq(Reply) /\ Answered(delivered, replies)
  BY <1>1, <1>2 DEF Meant, SocketInv, SocketTypes
<1>18. replies' \in Seq(Reply) /\ Answered(delivered', replies')
  <2>1. CASE frame.op = "text"
    <3>1. replies' = replies
      BY <1>6, <2>1
    <3>2. x \notin Questions
      BY <2>1 DEF x, Questions
    <3>3. Answered(Append(delivered, x), replies)
      BY <1>14, <1>17, <3>2, NoQuestion
    <3> QED BY <1>6, <1>17, <3>1, <3>3
  <2>2. CASE frame.op \in {"ping", "close"}
    <3>1. replies' = Append(replies, AnswerTo(x))
      <4>1. CASE frame.op = "ping"
        <5>1. AnswerTo(x) = [op |-> "pong", data |-> p]
          BY <4>1 DEF AnswerTo, x
        <5> QED BY <1>6, <4>1, <5>1
      <4>2. CASE frame.op = "close"
        <5>1. AnswerTo(x) = [op |-> "close", data |-> p]
          BY <4>2 DEF AnswerTo, x
        <5>2. replies' = Append(replies, [op |-> "close", data |-> p])
          BY <1>6, <4>2
        <5> QED BY <5>1, <5>2
      <4> QED BY <2>2, <4>1, <4>2
    <3>2. x \in Questions
      <4>1. x.op = frame.op /\ x.data \in Seq(PayloadByte) /\ x = [op |-> x.op, data |-> x.data]
        BY <1>14 DEF x, Message
      <4> QED BY <2>2, <4>1 DEF Questions
    <3>3. AnswerTo(x) \in Reply /\ Answered(Append(delivered, x), Append(replies, AnswerTo(x)))
      BY <1>14, <1>17, <3>2, OneAnswer
    <3>4. Append(replies, AnswerTo(x)) \in Seq(Reply)
      BY <1>17, <3>3
    <3> QED BY <1>6, <3>1, <3>3, <3>4
  <2> QED BY <1>7, <2>1, <2>2
<1> QED BY <1>1, <1>5, <1>6, <1>8, <1>15, <1>16, <1>18, OneFrameMore DEF new

LEMMA FirstOnly ==
    ASSUME NEW S, NEW x \in Seq(S), x # <<>>
    PROVE  SubSeq(x, 1, 1) = <<x[1]>>
<1> DEFINE a == SubSeq(x, 0 + 1, 1)
           b == <<x[1]>>
<1>1. Len(x) \in Nat /\ Len(x) # 0
  BY EmptySeq
<1>2. 0 \in 0..Len(x) /\ 1 \in 0..Len(x) /\ 1 - 0 = 1 /\ 0 + 1 = 1 /\ 1 \in 1..1 /\ 1 \in 1..Len(x)
  BY <1>1
<1>3. a \in Seq(S) /\ Len(a) = 1 - 0 /\ \A i \in 1..1 - 0 : a[i] = x[0 + i]
  BY <1>2, PartFacts
<1>4. x[1] \in S
  BY <1>2
<1>5. b \in Seq(S) /\ Len(b) = 1 /\ b[1] = x[1]
  BY <1>4
<1> HIDE DEF a, b
<1>6. a[1] = x[1] /\ Len(a) = 1 /\ a \in Seq(S)
  BY <1>2, <1>3
<1>7. \A i \in 1..Len(a) : a[i] = b[i]
  BY <1>5, <1>6
<1>8. a = b
  BY <1>5, <1>6, <1>7, SeqEqual
<1> QED BY <1>8 DEF a, b

LEMMA FragmentKeeps ==
    ASSUME SocketInv, Deliver, Fragment
    PROVE  SocketInv'
<1>1. PICK k, toCome, sofar, left :
         /\ Taken(k, toCome, sofar, left) /\ Ahead(k, toCome, sofar, left)
         /\ delivered = sofar[k].messages /\ reassLen = Len(Begun(sofar[k]))
         /\ Holds(sofar[k], left, recvMbuf, reassLen)
         /\ left \o stream = toCome[k] /\ k \in 0..Len(sentFrames)
  BY DeliverStarts
<1>2. Unread = left /\ SubSeq(recvMbuf, 1, reassLen) = Begun(sofar[k]) /\ left \in Seq(Wire)
      /\ sofar[k] \in Meant /\ (~sofar[k].open => sofar[k].data = <<>>) /\ k \in Nat
  BY SMTT(40), <1>1 DEF Ahead
<1>3. left # <<>> /\ WholeFrame(HeaderLen(Unread)) /\ IsFragment(left[1]) /\ left[1].op \notin Control
  BY <1>2 DEF Fragment
<1>4. PICK frame, rest : IsWhole(k, toCome, left, frame, rest)
  BY <1>1, <1>3, WholeFrameFacts
<1>5. /\ k < Len(sentFrames) /\ frame \in Frames /\ frame = sentFrames[k + 1]
      /\ left[1] = [part |-> "flags", op |-> frame.op, fin |-> frame.fin]
      /\ left[1].op = frame.op /\ left[1].fin = frame.fin /\ left[2].n = frame.n
      /\ rest \in Seq(Wire) /\ rest \o stream = toCome[k + 1]
      /\ Unmasked(SubSeq(left, HeaderLen(left) + 1, HeaderLen(left) + frame.n))
         = PayloadOf(k + 1, frame.n, FALSE)
      /\ SubSeq(left, HeaderLen(left) + frame.n + 1, Len(left)) = rest
  BY <1>4 DEF IsWhole
<1> DEFINE p == PayloadOf(k + 1, frame.n, FALSE)
           F == [part |-> "flags", op |-> "text", fin |-> FALSE]
           old == sofar[k]
           new == sofar[k + 1]
           first == IsFirstFragment(left[1])
           kept == SubSeq(recvMbuf, 1, IF first THEN reassLen + 1 ELSE reassLen)
           buf == (kept \o p) \o rest
           len == (IF first THEN 1 ELSE reassLen) + frame.n
           d == old.data \o p
           g == <<F>> \o d
<1>6. /\ IF frame.fin
         THEN /\ delivered' = Append(delivered, [op |-> buf[1].op, data |-> SubSeq(buf, 2, len)])
              /\ recvMbuf' = SubSeq(buf, len + 1, Len(buf))
              /\ reassLen' = 0
         ELSE recvMbuf' = buf /\ reassLen' = len /\ UNCHANGED delivered
      /\ UNCHANGED <<replies, stream, looping, sentFrames, mistaken, meant>> /\ looping
  <2>1. Unread[1] = left[1] /\ Unread[1].fin = frame.fin /\ Unread[2].n = frame.n
        /\ HeaderLen(Unread) = HeaderLen(left)
    BY <1>2, <1>5
  <2>2. Unmasked(SubSeq(Unread, HeaderLen(Unread) + 1, HeaderLen(Unread) + Unread[2].n)) = p
    BY <1>2, <1>5, <2>1
  <2>3. SubSeq(Unread, HeaderLen(Unread) + Unread[2].n + 1, Len(Unread)) = rest
    BY SMTT(40), <1>2, <1>5, <2>1
  <2>4. UNCHANGED <<replies, stream, looping, sentFrames, mistaken, meant>> /\ looping
    BY Zenon DEF Deliver, Fragment
  <2> HIDE DEF p
  <2> QED BY <2>1, <2>2, <2>3, <2>4 DEF Fragment
<1>7. frame.op \in {"text", "continue"} /\ frame.fin \in BOOLEAN /\ (~frame.fin \/ frame.op = "continue")
      /\ frame.n \in Nat
  <2>1. frame.op \in {"text", "continue", "close", "ping"} /\ frame.fin \in BOOLEAN /\ frame.n \in Nat
    BY <1>5, FrameTypes
  <2>2. ~frame.fin \/ frame.op = "continue"
    BY <1>3, <1>5 DEF IsFragment
  <2>3. frame.op \notin Control
    BY <1>3, <1>5
  <2> QED BY <2>1, <2>2, <2>3 DEF Control
<1>8. new = MeantBy(old, k + 1, frame) /\ InTurn(old, frame) /\ k + 1 \in 0..Len(sentFrames)
  BY <1>1, <1>5, Zenon DEF Ahead
<1>9. k + 1 \in Nat
  BY <1>2
<1>10. old \in Meant /\ (~old.open => old.data = <<>>) /\ old.data \in Seq(PayloadByte)
  BY <1>2 DEF Meant
<1>11. first <=> frame.op = "text"
  BY <1>5, <1>7 DEF IsFirstFragment
<1>12. p \in Seq(PayloadByte) /\ p \in Seq(Wire) /\ Len(p) = frame.n
  <2>1. FALSE \in BOOLEAN
    OBVIOUS
  <2> QED BY <1>7, <1>9, <2>1, PayloadFacts, PayloadByteIsWire
<1>13. Means(old, frame, p, new)
  <2>1. /\ old \in Meant /\ k + 1 \in Nat /\ frame \in Frames /\ p = PayloadOf(k + 1, frame.n, FALSE)
        /\ new = MeantBy(old, k + 1, frame) /\ (~old.open => old.data = <<>>) /\ InTurn(old, frame)
    BY <1>5, <1>8, <1>9, <1>10
  <2> HIDE DEF p, old, new
  <2> QED BY ONLY <2>1, MeaningFacts
<1>14. ~Forbidden(old, frame) /\ frame.op \notin Control
  <2>1. ~(frame.op = "text" /\ frame.fin)
    BY <1>7
  <2>2. frame.op \notin Control
    BY <1>7 DEF Control
  <2> QED BY <2>1, <2>2 DEF Forbidden
<1> HIDE DEF p, old, new, first
<1>15. frame.op = "text" => ~old.open
  BY <1>7, <1>8 DEF InTurn
<1>16. frame.op = "continue" => old.open
  BY <1>8 DEF InTurn
<1>17. F \in Wire /\ <<F>> \in Seq(Wire) /\ Len(<<F>>) = 1 /\ <<F>>[1] = F
  <2>1. F \in Wire
    BY DEF Wire, Ops
  <2> HIDE DEF F
  <2> QED BY <2>1
<1>18. kept = <<F>> \o old.data /\ len = (1 + Len(old.data)) + frame.n
  <2>1. CASE frame.op = "text"
    <3>1. first /\ ~old.open /\ old.data = <<>>
      BY <1>10, <1>11, <1>15, <2>1
    <3>2. Begun(old) = <<>> /\ Len(Begun(old)) = 0
      BY <1>10, <3>1, BegunFacts
    <3>3. recvMbuf = left /\ reassLen = 0
      <4>1. recvMbuf = Begun(old) \o left /\ reassLen = 0
        BY <1>1, <3>2 DEF Holds, old
      <4> QED BY <1>2, <3>2, <4>1, ConcatEmptySeq
    <3>4. frame.fin = FALSE
      <4>1. ~frame.fin
        BY <1>7, <2>1
      <4> QED BY <1>7, <4>1, Zenon
    <3>5. left[1] = F
      BY <1>5, <2>1, <3>4, Zenon
    <3>6. SubSeq(left, 1, 1) = <<F>>
      <4> HIDE DEF F
      <4>1. SubSeq(left, 1, 1) = <<left[1]>>
        BY <1>2, <1>3, FirstOnly
      <4> QED BY <3>5, <4>1
    <3>7. <<F>> \o old.data = <<F>>
      <4> HIDE DEF F
      <4> QED BY <1>17, <3>1, ConcatEmptySeq
    <3>8. len = 1 + frame.n /\ kept = SubSeq(recvMbuf, 1, reassLen + 1)
      BY <3>1
    <3>9. Len(old.data) = 0 /\ reassLen + 1 = 1
      BY <3>1, <3>3
    <3> DEFINE one == <<F>>
               both == one \o old.data
    <3> HIDE DEF F, len, kept
    <3>10. kept = one /\ both = one
      BY <3>3, <3>6, <3>7, <3>8, <3>9
    <3> HIDE DEF one, both
    <3>11. kept = both
      BY <3>10
    <3>12. len = (1 + Len(old.data)) + frame.n
      BY <1>7, <3>8, <3>9
    <3> QED BY <3>11, <3>12 DEF both, one
  <2>2. CASE frame.op = "continue"
    <3>1. ~first /\ old.open
      BY <1>11, <1>16, <2>2
    <3>2. Begun(old) = <<F>> \o old.data /\ Len(Begun(old)) = 1 + Len(old.data)
      BY <1>10, <3>1, BegunFacts
    <3>3. len = reassLen + frame.n /\ kept = SubSeq(recvMbuf, 1, reassLen)
      BY <3>1
    <3> HIDE DEF F, len, kept
    <3> QED BY <1>1, <1>2, <3>2, <3>3 DEF old
  <2> QED BY <1>7, <2>1, <2>2
<1> HIDE DEF F, len, kept
<1>19. d \in Seq(PayloadByte) /\ d \in Seq(Wire) /\ Len(d) = Len(old.data) + frame.n
  <2>1. old.data \in Seq(PayloadByte) /\ p \in Seq(PayloadByte)
    BY <1>10, <1>12
  <2>2. d \in Seq(PayloadByte) /\ Len(d) = Len(old.data) + Len(p)
    BY ONLY <2>1, JoinFacts
  <2> QED BY <1>12, <2>2, PayloadByteIsWire
<1>20. kept \o p = g
  <2>1. <<F>> \in Seq(Wire) /\ old.data \in Seq(Wire) /\ p \in Seq(Wire)
    BY <1>10, <1>12, <1>17, PayloadByteIsWire
  <2> DEFINE one == <<F>>
             two == old.data
  <2>2. one \in Seq(Wire) /\ two \in Seq(Wire) /\ p \in Seq(Wire)
    BY <2>1
  <2> HIDE DEF one, two
  <2>3. (one \o two) \o p = one \o (two \o p)
    BY ONLY <2>2, JoinRegroups
  <2> QED BY <1>18, <2>3 DEF one, two
<1> HIDE DEF d
<1>21. g \in Seq(Wire) /\ Len(g) = 1 + Len(d) /\ g[1] = F
  <2>1. <<F>> \in Seq(Wire) /\ d \in Seq(Wire)
    BY <1>17, <1>19
  <2>2. g \in Seq(Wire) /\ Len(g) = Len(<<F>>) + Len(d) /\ \A i \in 1..Len(<<F>>) : g[i] = <<F>>[i]
    BY ONLY <2>1, JoinFacts
  <2>3. 1 \in 1..Len(<<F>>)
    BY <1>17
  <2> HIDE DEF g
  <2> QED BY <1>17, <2>2, <2>3
<1>22. len = Len(g) /\ len = 1 + Len(d) /\ Len(d) \in Nat /\ len \in Nat
  <2>1. Len(old.data) \in Nat /\ Len(d) \in Nat
    BY <1>10, <1>19
  <2> HIDE DEF g
  <2> QED BY <1>7, <1>18, <1>19, <1>21, <2>1
<1>23. SubSeq(g, 2, len) = d
  <2> DEFINE m == 1
  <2>1. <<F>> \in Seq(Wire) /\ d \in Seq(Wire) /\ m = Len(<<F>>) /\ len = Len(<<F>>) + Len(d)
    BY <1>17, <1>19, <1>22
  <2>2. m + 1 = 2
    OBVIOUS
  <2> HIDE DEF m
  <2>3. SubSeq(<<F>> \o d, m + 1, len) = d
    BY ONLY <2>1, JoinedParts
  <2> QED BY <2>2, <2>3
<1> HIDE DEF g
<1>24. buf = g \o rest
  BY <1>20
<1> HIDE DEF buf
<1>25. /\ Len(buf) = Len(g) + Len(rest) /\ buf[1] = F
       /\ SubSeq(buf, 2, len) = d /\ SubSeq(buf, len + 1, Len(buf)) = rest
  <2>1. g \in Seq(Wire) /\ rest \in Seq(Wire)
    BY <1>5, <1>21
  <2>2. Len(g \o rest) = Len(g) + Len(rest) /\ \A i \in 1..Len(g) : (g \o rest)[i] = g[i]
    BY ONLY <2>1, JoinFacts
  <2>3. 1 \in 1..Len(g)
    BY <1>22
  <2> DEFINE m == 1
             n == Len(buf)
  <2>4. m \in 0..Len(g) /\ len \in m..Len(g) /\ m + 1 = 2
    BY <1>22
  <2>5. len = Len(g) /\ n = Len(g) + Len(rest)
    BY <1>22, <1>24, <2>2
  <2> HIDE DEF m, n
  <2>6. SubSeq(g \o rest, m + 1, len) = SubSeq(g, m + 1, len)
    BY ONLY <2>1, <2>4, PartOfFirst
  <2>7. SubSeq(g \o rest, len + 1, n) = rest
    BY ONLY <2>1, <2>5, JoinedParts
  <2>8. SubSeq(buf, 2, len) = d
    BY <1>23, <1>24, <2>4, <2>6
  <2>9. SubSeq(buf, len + 1, Len(buf)) = rest
    BY <1>24, <2>7 DEF n
  <2> QED BY <1>21, <1>24, <2>2, <2>3, <2>8, <2>9
<1>26. delivered \in Seq(Message) /\ replies \in Seq(Reply) /\ Answered(delivered, replies)
  BY <1>1, <1>2 DEF Meant, SocketInv, SocketTypes
<1>27. Holds(new, rest, recvMbuf', reassLen') /\ delivered' = new.messages /\ Answered(delivered', replies')
  <2>1. CASE frame.fin
    <3> DEFINE x == [op |-> "text", data |-> d]
    <3>1. ~new.open /\ x \in Message /\ new.messages = Append(old.messages, x)
      BY <1>13, <1>14, <2>1 DEF Means, d
    <3>2. buf[1].op = "text"
      BY <1>25 DEF F
    <3>3. delivered' = Append(delivered, x) /\ recvMbuf' = rest /\ reassLen' = 0
      BY <1>6, <1>25, <2>1, <3>2
    <3>4. x \notin Questions
      BY DEF Questions
    <3> HIDE DEF x
    <3>5. Answered(Append(delivered, x), replies)
      BY <1>26, <3>1, <3>4, NoQuestion
    <3>6. Holds(new, rest, rest, 0)
      <4>1. Begun(new) = <<>>
        BY <3>1 DEF Begun
      <4> QED BY <1>5, <4>1, ConcatEmptySeq DEF Holds
    <3>7. Holds(new, rest, recvMbuf', reassLen')
      BY <3>3, <3>6
    <3> QED BY <1>1, <1>6, <3>1, <3>3, <3>5, <3>7 DEF old
  <2>2. CASE ~frame.fin
    <3>1. new.open /\ new.data = d /\ new.messages = old.messages
      BY <1>13, <1>14, <2>2 DEF Means, d
    <3>2. Begun(new) = g
      BY <3>1 DEF Begun, g, F
    <3>3. recvMbuf' = g \o rest /\ reassLen' = Len(g) /\ delivered' = delivered
      BY <1>6, <1>22, <1>24, <2>2
    <3>4. Holds(new, rest, recvMbuf', reassLen')
      BY <1>5, <3>2, <3>3 DEF Holds
    <3> QED BY <1>1, <1>6, <1>26, <3>1, <3>3, <3>4 DEF old
  <2> QED BY <1>7, <2>1, <2>2
<1> QED BY <1>1, <1>5, <1>6, <1>8, <1>26, <1>27, OneFrameMore DEF new

-----------------------------------------------------------------------------
(* The client sends one frame more. *)
LEMMA PrefixFacts ==
    ASSUME NEW S, NEW t \in Seq(S)
    PROVE  /\ Prefix(t, t)
           /\ \A s : Prefix(s, t) => \A x \in S : Prefix(s, Append(t, x))
<1>1. Len(t) \in Nat
  OBVIOUS
<1>2. Prefix(t, t)
  BY <1>1 DEF Prefix
<1>3. ASSUME NEW s, Prefix(s, t), NEW x \in S
      PROVE  Prefix(s, Append(t, x))
  <2> DEFINE u == Append(t, x)
             m == Len(s)
  <2>1. Len(u) = Len(t) + 1 /\ \A i \in 1..Len(t) : u[i] = t[i]
    OBVIOUS
  <2>2. m <= Len(t) /\ \A i \in 1..m : s[i] = t[i]
    BY <1>3 DEF Prefix
  <2> HIDE DEF u
  <2>3. m <= Len(u)
    BY <1>1, <2>1, <2>2
  <2>4. ASSUME NEW i \in 1..m PROVE s[i] = u[i]
    <3>1. i \in 1..Len(t)
      BY <1>1, <2>2
    <3> QED BY <2>1, <2>2, <3>1
  <2>5. Prefix(s, u)
    BY <2>3, <2>4 DEF Prefix
  <2> QED BY <2>5 DEF u
<1> QED BY <1>2, <1>3

OneMoreFrame(frames, frame, n, f, more) ==
    /\ n = Len(frames) /\ f = n + 1
    /\ more \in Seq(Frames) /\ Len(more) = f /\ more[f] = frame
    /\ \A j \in 1..Len(frames) : more[j] = frames[j]

BytesWith(toCome, n, f, b, longer) ==
    longer = [j \in 0..f |-> IF j <= n THEN toCome[j] \o b ELSE <<>>]

LEMMA BytesGrow ==
    ASSUME NEW frames \in Seq(Frames), NEW frame \in Frames, NEW n, NEW f, NEW more,
           OneMoreFrame(frames, frame, n, f, more),
           NEW toCome, AreBytes(frames, toCome), NEW b, b = FrameBytes(f, frame),
           NEW longer, BytesWith(toCome, n, f, b, longer)
    PROVE  AreBytes(more, longer)
<1>0. n = Len(frames) /\ f = n + 1 /\ longer = [j \in 0..f |-> IF j <= n THEN toCome[j] \o b ELSE <<>>]
  BY DEF OneMoreFrame, BytesWith
<1>1. n \in Nat /\ f \in Nat /\ b \in Seq(Wire) /\ Len(more) = f /\ more[f] = frame
  <2>1. n \in Nat /\ f \in Nat
    BY <1>0
  <2> QED BY <2>1, FrameFacts DEF OneMoreFrame
<1>2. \A j \in 1..n : more[j] = frames[j] /\ frames[j] \in Frames
  BY <1>0 DEF OneMoreFrame
<1>3. \A j \in 0..n : toCome[j] \in Seq(Wire)
  BY <1>0 DEF AreBytes
<1>4. ASSUME NEW j \in 0..n
      PROVE  j \in 0..f /\ j <= n /\ longer[j] = toCome[j] \o b
  <2>1. j \in 0..f /\ j <= n
    BY <1>0, <1>1
  <2> DEFINE c == toCome[j] \o b
  <2>2. longer[j] = IF j <= n THEN c ELSE <<>>
    BY <1>0, <2>1
  <2> HIDE DEF c
  <2>3. longer[j] = c
    BY <2>1, <2>2
  <2> QED BY <2>1, <2>3 DEF c
<1>5. longer[f] = <<>>
  BY <1>0, <1>1
<1>6. longer \in [0..f -> Seq(Wire)]
  <2>1. ASSUME NEW j \in 0..f PROVE longer[j] \in Seq(Wire)
    <3>1. CASE j = f
      <4>1. <<>> \in Seq(Wire)
        OBVIOUS
      <4> QED BY <1>5, <3>1, <4>1
    <3>2. CASE j # f
      <4>1. j \in 0..n
        BY <1>0, <1>1, <3>2
      <4>2. toCome[j] \in Seq(Wire)
        BY <1>3, <4>1
      <4>3. toCome[j] \o b \in Seq(Wire)
        BY <1>1, <4>2, JoinFacts
      <4> QED BY <1>4, <4>1, <4>3
    <3> QED BY <3>1, <3>2
  <2>2. longer = [j \in 0..f |-> longer[j]]
    BY <1>0
  <2> QED BY <2>1, <2>2
<1>7. ASSUME NEW j \in 1..f
      PROVE  longer[j - 1] = FrameBytes(j, more[j]) \o longer[j]
  <2>1. CASE j = f
    <3>1. j - 1 = n /\ n \in 0..n
      BY <1>0, <1>1, <2>1
    <3>2. toCome[n] = <<>>
      BY <1>0 DEF AreBytes
    <3>3. <<>> \o b = b /\ b \o <<>> = b
      BY <1>1, ConcatEmptySeq
    <3>4. longer[n] = b
      BY <1>4, <3>1, <3>2, <3>3
    <3> QED BY <1>1, <1>5, <2>1, <3>1, <3>3, <3>4
  <2>2. CASE j # f
    <3>1. j \in 1..n /\ j \in 0..n /\ j - 1 \in 0..n /\ j \in Nat
      BY <1>0, <1>1, <2>2
    <3> DEFINE a == FrameBytes(j, frames[j])
               c == toCome[j]
    <3>2. toCome[j - 1] = a \o c
      BY SMTT(40), <3>1 DEF AreBytes
    <3>3. a \in Seq(Wire) /\ c \in Seq(Wire) /\ b \in Seq(Wire)
      BY <1>1, <1>2, <1>3, <3>1, FrameFacts
    <3>4. longer[j - 1] = toCome[j - 1] \o b /\ longer[j] = c \o b /\ more[j] = frames[j]
      BY <1>2, <1>4, <3>1
    <3> HIDE DEF a, c
    <3>5. (a \o c) \o b = a \o (c \o b)
      BY ONLY SMTT(40), <3>3, JoinRegroups
    <3> QED BY <3>2, <3>4, <3>5 DEF a
  <2> QED BY <2>1, <2>2
<1> QED BY <1>1, <1>5, <1>6, <1>7 DEF AreBytes

MeaningWith(frames, sofar, n, f, frame, new, wrong) ==
    /\ Mean(frames, sofar, FALSE) /\ InTurn(sofar[n], frame) /\ new = MeantBy(sofar[n], f, frame)
    /\ Forbidden(sofar[n], frame) => wrong

MeaningsWith(sofar, n, f, new, longer) ==
    longer = [j \in 0..f |-> IF j <= n THEN sofar[j] ELSE new]

LEMMA MeaningGrows ==
    ASSUME NEW frames \in Seq(Frames), NEW frame \in Frames, NEW n, NEW f, NEW more,
           OneMoreFrame(frames, frame, n, f, more),
           NEW sofar, NEW wrong, NEW new, MeaningWith(frames, sofar, n, f, frame, new, wrong),
           NEW longer, MeaningsWith(sofar, n, f, new, longer)
    PROVE  Mean(more, longer, wrong)
<1>0. /\ n = Len(frames) /\ f = n + 1
      /\ Mean(frames, sofar, FALSE) /\ InTurn(sofar[n], frame) /\ new = MeantBy(sofar[n], f, frame)
      /\ Forbidden(sofar[n], frame) => wrong
      /\ longer = [j \in 0..f |-> IF j <= n THEN sofar[j] ELSE new]
  BY DEF OneMoreFrame, MeaningWith, MeaningsWith
<1>1. n \in Nat /\ f \in Nat /\ n \in 0..n /\ Len(more) = f /\ more[f] = frame
  BY <1>0 DEF OneMoreFrame
<1>2. \A j \in 1..n : more[j] = frames[j] /\ frames[j] \in Frames
  BY <1>0 DEF OneMoreFrame
<1>3. \A j \in 0..n : sofar[j] \in Meant /\ (~sofar[j].open => sofar[j].data = <<>>)
                      /\ Prefix(sofar[j].messages, sofar[n].messages)
  BY <1>0 DEF Mean
<1>4. \A j \in 0..n : longer[j] = sofar[j]
  BY <1>0, <1>1
<1>5. longer[f] = new
  BY <1>0, <1>1
<1> DEFINE p == PayloadOf(f, frame.n, FALSE)
           old == sofar[n]
<1>6. Means(old, frame, p, new)
  <2>1. /\ old \in Meant /\ f \in Nat /\ frame \in Frames /\ p = PayloadOf(f, frame.n, FALSE)
        /\ new = MeantBy(old, f, frame) /\ (~old.open => old.data = <<>>) /\ InTurn(old, frame)
    BY <1>0, <1>1, <1>3
  <2> HIDE DEF p, old
  <2> QED BY ONLY <2>1, MeaningFacts
<1>7. /\ new \in Meant /\ (~new.open => new.data = <<>>)
      /\ new.messages = old.messages \/ \E x \in Message : new.messages = Append(old.messages, x)
  BY <1>6 DEF Means
<1>8. longer \in [0..f -> Meant]
  <2>1. ASSUME NEW j \in 0..f PROVE longer[j] \in Meant
    <3>1. j = f \/ j \in 0..n
      BY <1>0, <1>1
    <3> QED BY <1>3, <1>4, <1>5, <1>7, <3>1
  <2>2. longer = [j \in 0..f |-> longer[j]]
    BY <1>0
  <2> QED BY <2>1, <2>2
<1>9. longer[0] = NothingMeant
  <2>1. 0 \in 0..n
    BY <1>1
  <2> QED BY <1>0, <1>4, <2>1 DEF Mean
<1>10. ASSUME NEW j \in 1..f
       PROVE  /\ longer[j] = MeantBy(longer[j - 1], j, more[j]) /\ InTurn(longer[j - 1], more[j])
              /\ Forbidden(longer[j - 1], more[j]) => j = f /\ wrong
  <2>1. CASE j = f
    <3>1. j - 1 = n
      BY <1>0, <1>1, <2>1
    <3> QED BY <1>0, <1>1, <1>4, <1>5, <2>1, <3>1
  <2>2. CASE j # f
    <3>1. j \in 1..n /\ j \in 0..n /\ j - 1 \in 0..n
      BY <1>0, <1>1, <2>2
    <3>2. /\ sofar[j] = MeantBy(sofar[j - 1], j, frames[j]) /\ InTurn(sofar[j - 1], frames[j])
          /\ ~Forbidden(sofar[j - 1], frames[j])
      BY <1>0, <3>1 DEF Mean
    <3>3. longer[j] = sofar[j] /\ longer[j - 1] = sofar[j - 1] /\ more[j] = frames[j]
      BY <1>2, <1>4, <3>1
    <3> QED BY <3>2, <3>3
  <2> QED BY <2>1, <2>2
<1>11. ASSUME NEW j \in 0..f PROVE ~longer[j].open => longer[j].data = <<>>
  <2>1. j = f \/ j \in 0..n
    BY <1>0, <1>1
  <2> QED BY <1>3, <1>4, <1>5, <1>7, <2>1
<1>12. ASSUME NEW j \in 0..f PROVE Prefix(longer[j].messages, new.messages)
  <2>1. old.messages \in Seq(Message) /\ new.messages \in Seq(Message)
    BY <1>1, <1>3, <1>7 DEF Meant
  <2>2. CASE j = f
    BY <1>5, <2>1, <2>2, PrefixFacts
  <2>3. CASE j # f
    <3>1. j \in 0..n
      BY <1>0, <1>1, <2>3
    <3>2. Prefix(sofar[j].messages, old.messages) /\ longer[j] = sofar[j]
      BY <1>3, <1>4, <3>1
    <3> HIDE DEF old
    <3>3. Prefix(sofar[j].messages, new.messages)
      <4>1. CASE new.messages = old.messages
        BY <3>2, <4>1
      <4>2. CASE \E x \in Message : new.messages = Append(old.messages, x)
        BY <2>1, <3>2, <4>2, PrefixFacts
      <4> QED BY <1>7, <4>1, <4>2
    <3> QED BY <3>2, <3>3
  <2> QED BY <2>2, <2>3
<1> QED BY <1>1, <1>5, <1>8, <1>9, <1>10, <1>11, <1>12 DEF Mean

LEMMA SendFrameKeeps ==
    ASSUME SocketInv, NEW frame \in Frames, SendFrame(frame)
    PROVE  SocketInv'
<1>1. PICK k, toCome, sofar, left :
         /\ Taken(k, toCome, sofar, left) /\ Ahead(k, toCome, sofar, left)
         /\ delivered = sofar[k].messages /\ reassLen = Len(Begun(sofar[k]))
         /\ Holds(sofar[k], left, recvMbuf, reassLen)
         /\ left \o stream = toCome[k] /\ k \in 0..Len(sentFrames)
  BY DeliverStarts
<1>2. /\ stream \in Seq(Wire) /\ sentFrames \in Seq(Frames) /\ mistaken \in BOOLEAN
      /\ looping \in BOOLEAN /\ replies \in Seq(Reply) /\ Answered(delivered, replies)
  BY DEF SocketInv, SocketTypes
<1>3. PICK n : n = Len(sentFrames)
  OBVIOUS
<1>4. PICK f : f = n + 1
  OBVIOUS
<1>5. n \in Nat /\ f \in Nat /\ k \in 0..n /\ f \in 0..f /\ k \in 0..f /\ k <= n /\ k \in Nat
  <2>1. n \in Nat
    BY <1>2, <1>3
  <2> QED BY <1>1, <1>3, <1>4, <2>1
<1>6. PICK b \in Seq(Wire) : b = FrameBytes(f, frame)
  BY <1>5, FrameFacts
<1>7. PICK more : more = Append(sentFrames, frame)
  OBVIOUS
<1>8. /\ AreBytes(sentFrames, toCome) /\ Mean(sentFrames, sofar, mistaken)
      /\ meant = sofar[n] /\ (~looping => Waits(sentFrames, sofar, k, left))
  BY <1>1, <1>3 DEF Taken
<1>9. PICK new : new = MeantBy(sofar[n], f, frame)
  OBVIOUS
<1>10. /\ ~mistaken /\ InTurn(sofar[n], frame) /\ mistaken' = Forbidden(sofar[n], frame)
       /\ sentFrames' = more /\ stream' = stream \o b /\ meant' = new
       /\ UNCHANGED <<recvMbuf, reassLen, looping, delivered, replies>>
  BY <1>3, <1>4, <1>6, <1>7, <1>8, <1>9 DEF SendFrame
<1>11. OneMoreFrame(sentFrames, frame, n, f, more) /\ Len(more) = f
  BY <1>2, <1>3, <1>4, <1>7 DEF OneMoreFrame
<1>12. PICK bytes : bytes = [j \in 0..f |-> IF j <= n THEN toCome[j] \o b ELSE <<>>]
  OBVIOUS
<1>13. PICK meaning : meaning = [j \in 0..f |-> IF j <= n THEN sofar[j] ELSE new]
  OBVIOUS
<1>14. AreBytes(more, bytes)
  <2>1. BytesWith(toCome, n, f, b, bytes)
    BY <1>12 DEF BytesWith
  <2> QED BY <1>2, <1>6, <1>8, <1>11, <2>1, BytesGrow
<1>15. Mean(more, meaning, mistaken')
  <2>1. mistaken = FALSE
    BY <1>2, <1>10, Zenon
  <2>2. Mean(sentFrames, sofar, FALSE)
    BY <1>8, <2>1
  <2>3. Forbidden(sofar[n], frame) => mistaken'
    BY <1>10
  <2>4. MeaningWith(sentFrames, sofar, n, f, frame, new, mistaken')
    BY <1>9, <1>10, <2>2, <2>3 DEF MeaningWith
  <2>5. MeaningsWith(sofar, n, f, new, meaning)
    BY <1>13 DEF MeaningsWith
  <2> QED BY <1>2, <1>11, <2>4, <2>5, MeaningGrows
<1>16. bytes[k] = toCome[k] \o b /\ meaning[k] = sofar[k] /\ meaning[f] = new
  <2> DEFINE c == toCome[k] \o b
  <2>1. bytes[k] = IF k <= n THEN c ELSE <<>>
    BY <1>5, <1>12
  <2> HIDE DEF c
  <2>2. bytes[k] = c
    BY <1>5, <2>1
  <2>3. meaning[k] = sofar[k] /\ meaning[f] = new
    BY <1>4, <1>5, <1>13
  <2> QED BY <2>2, <2>3 DEF c
<1>17. left \o (stream \o b) = bytes[k]
  <2>1. left \in Seq(Wire) /\ stream \in Seq(Wire) /\ b \in Seq(Wire)
    BY <1>1, <1>2 DEF Ahead
  <2>2. (left \o stream) \o b = left \o (stream \o b)
    BY ONLY SMTT(40), <2>1, JoinRegroups
  <2> QED BY <1>1, <1>16, <2>2
<1>18. ASSUME ~looping PROVE Waits(more, meaning, k, left)
  <2>1. Waits(sentFrames, sofar, k, left)
    BY <1>8, <1>18
  <2>2. CASE k = n
    <3>1. left = <<>> /\ Len(left) = 0
      BY <1>1, <1>3, <2>2 DEF Ahead
    <3>2. more[k + 1] = frame /\ FrameLen(frame) \in Nat /\ FrameLen(frame) >= 6
      BY <1>4, <1>11, <2>2, FrameTypes DEF OneMoreFrame
    <3>3. Len(left) < FrameLen(more[k + 1])
      BY <3>1, <3>2
    <3> QED BY <3>3 DEF Waits
  <2>3. CASE k # n
    <3>1. k + 1 \in 1..n
      BY <1>5, <2>3
    <3>2. more[k + 1] = sentFrames[k + 1]
      BY <1>3, <1>11, <3>1 DEF OneMoreFrame
    <3> QED BY <1>3, <1>16, <2>1, <2>3, <3>2 DEF Waits
  <2> QED BY <2>2, <2>3
<1>19. Taken(k, bytes, meaning, left)'
  <2>1. Len(sentFrames') = f
    BY <1>10, <1>11
  <2>2. AreBytes(sentFrames', bytes) /\ Mean(sentFrames', meaning, mistaken')
    BY <1>10, <1>14, <1>15
  <2>3. meant' = meaning[Len(sentFrames')] /\ k \in 0..Len(sentFrames')
    BY <1>5, <1>10, <1>16, <2>1
  <2>4. Holds(meaning[k], left, recvMbuf', reassLen')
    BY <1>1, <1>10, <1>16
  <2>5. left \o stream' = bytes[k]
    BY <1>10, <1>17
  <2>6. ~looping' => Waits(sentFrames', meaning, k, left)
    BY <1>10, <1>18
  <2>7. delivered' = meaning[k].messages
    BY <1>1, <1>10, <1>16
  <2> QED BY <2>2, <2>3, <2>4, <2>5, <2>6, <2>7 DEF Taken
<1>20. SocketTypes'
  <2>1. stream' \in Seq(Wire)
    BY <1>2, <1>10, JoinFacts
  <2>2. sentFrames' \in Seq(Frames)
    BY <1>10, <1>11 DEF OneMoreFrame
  <2>3. mistaken' \in BOOLEAN
    BY <1>10, Zenon DEF Forbidden
  <2>4. looping' \in BOOLEAN /\ replies' \in Seq(Reply)
    BY <1>2, <1>10
  <2> QED BY <2>1, <2>2, <2>3, <2>4 DEF SocketTypes
<1>21. Answered(delivered, replies)'
  BY <1>2, <1>10
<1> QED BY <1>19, <1>20, <1>21 DEF SocketInv

LEMMA SocketStep == SocketInv /\ [WsNext]_wsVars => SocketInv'
<1> SUFFICES ASSUME SocketInv, [WsNext]_wsVars PROVE SocketInv'
  OBVIOUS
<1>1. CASE Upgrade \/ PingIdle
  BY <1>1, UpgradeKeeps
<1>2. CASE \E n \in 1..Len(stream) : ReadStream(n)
  BY <1>2, ReadStreamKeeps
<1>3. CASE Deliver
  <2>1. CASE Misplaced
    BY <1>3, <2>1, MisplacedKeeps
  <2>2. CASE Incomplete
    BY <1>3, <2>2, IncompleteKeeps
  <2>3. CASE Fragment
    BY <1>3, <2>3, FragmentKeeps
  <2>4. CASE WholeMessage
    BY <1>3, <2>4, WholeMessageKeeps
  <2> QED BY <1>3, <2>1, <2>2, <2>3, <2>4 DEF Deliver
<1>4. CASE \E frame \in Frames : SendFrame(frame)
  BY <1>4, SendFrameKeeps
<1>5. CASE UNCHANGED wsVars
  BY <1>5 DEF SocketInv, SocketTypes, Taken, wsVars
<1> QED BY <1>1, <1>2, <1>3, <1>4, <1>5 DEF WsNext

LEMMA NothingMissing == SocketInv => MessagesExact
<1> SUFFICES ASSUME SocketInv PROVE MessagesExact
  OBVIOUS
<1>1. PICK k, toCome, sofar, left :
         /\ Taken(k, toCome, sofar, left) /\ Ahead(k, toCome, sofar, left)
         /\ delivered = sofar[k].messages /\ reassLen = Len(Begun(sofar[k]))
         /\ Holds(sofar[k], left, recvMbuf, reassLen)
         /\ left \o stream = toCome[k] /\ k \in 0..Len(sentFrames)
  BY DeliverStarts
<1> DEFINE n == Len(sentFrames)
<1>2. /\ n \in Nat /\ k \in Nat /\ k <= n /\ left \in Seq(Wire) /\ sofar[k] \in Meant
  BY <1>1 DEF Ahead
<1>3. meant = sofar[n] /\ Mean(sentFrames, sofar, mistaken)
      /\ (~looping => Waits(sentFrames, sofar, k, left))
  BY <1>1 DEF Taken
<1>4. meant \in Meant
  <2>1. n \in 0..n
    BY <1>2
  <2> QED BY <1>3, <2>1 DEF Mean
<1>5. delivered \in Seq(Message) /\ meant.messages \in Seq(Message)
  BY <1>1, <1>2, <1>4 DEF Meant
<1>6. Prefix(delivered, meant.messages)
  BY <1>1, <1>3 DEF Mean
<1>7. IsPrefix(delivered, meant.messages)
  <2> DEFINE s == delivered
             t == meant.messages
             m == Len(s)
             a == SubSeq(s, 0 + 1, m)
             c == SubSeq(t, 0 + 1, m)
  <2>1. m <= Len(t) /\ (\A i \in 1..m : s[i] = t[i]) /\ m \in Nat /\ Len(t) \in Nat
    BY <1>5, <1>6 DEF Prefix
  <2>2. 0 \in 0..Len(s) /\ 0 \in 0..Len(t) /\ m \in 0..Len(s) /\ m \in 0..Len(t) /\ m - 0 = m /\ 0 + 1 = 1
        /\ \A i \in 1..m : 0 + i = i
    BY <2>1
  <2> HIDE DEF s, t
  <2>3. s \in Seq(Message) /\ t \in Seq(Message)
    BY <1>5 DEF s, t
  <2>4. a \in Seq(Message) /\ Len(a) = m - 0 /\ \A i \in 1..m - 0 : a[i] = s[0 + i]
    BY ONLY <2>2, <2>3, PartFacts
  <2>5. c \in Seq(Message) /\ Len(c) = m - 0 /\ \A i \in 1..m - 0 : c[i] = t[0 + i]
    BY ONLY <2>2, <2>3, PartFacts
  <2> HIDE DEF a, c, m
  <2>6. \A i \in 1..Len(a) : a[i] = c[i]
    BY <2>1, <2>2, <2>4, <2>5
  <2>7. a = c
    BY <2>4, <2>5, <2>6, SeqEqual
  <2>8. m <= Len(t) /\ SubSeq(s, 1, m) = SubSeq(t, 1, m)
    BY <2>1, <2>2, <2>7 DEF a, c
  <2> QED BY <2>8 DEF IsPrefix, m, s, t
<1>8. ASSUME ~looping, stream = <<>> PROVE delivered = meant.messages
  <2>1. CASE k = n
    BY <1>1, <1>3, <2>1
  <2>2. CASE k # n
    <3> DEFINE frame == sentFrames[k + 1]
               b == FrameBytes(k + 1, frame)
               r == toCome[k + 1]
    <3>1. k < n /\ k + 1 \in Nat
      BY <1>2, <2>2
    <3>2. /\ k + 1 \in 1..n /\ frame \in Frames /\ r \in Seq(Wire) /\ left \o stream = b \o r
          /\ sofar[k + 1] = MeantBy(sofar[k], k + 1, frame)
      BY <1>1, <3>1, Zenon DEF Ahead
    <3>3. b \in Seq(Wire) /\ Len(b) = FrameLen(frame) /\ FrameLen(frame) \in Nat
      BY <3>1, <3>2, FrameFacts, FrameTypes
    <3>4. ~(Len(left) < FrameLen(frame))
      <4>1. left = b \o r
        <5> HIDE DEF b, r
        <5> QED BY <1>2, <1>8, <3>2, ConcatEmptySeq
      <4>2. r \in Seq(Wire) /\ b \in Seq(Wire)
        BY <3>2, <3>3
      <4> HIDE DEF b, r
      <4>3. Len(b \o r) = Len(b) + Len(r)
        BY ONLY <4>2, JoinFacts
      <4>4. Len(r) \in Nat
        BY <4>2
      <4> QED BY <3>3, <4>1, <4>3, <4>4
    <3>5. Forbidden(sofar[k], frame)
      BY <1>3, <1>8, <2>2, <3>4 DEF Waits
    <3>6. sofar[k + 1] = sofar[k]
      BY <3>2, <3>5 DEF MeantBy
    <3>7. k + 1 = n
      <4>1. (k + 1) - 1 = k
        BY <1>2
      <4> QED BY <1>3, <3>2, <3>5, <4>1 DEF Mean
    <3> QED BY <1>1, <1>3, <3>6, <3>7
  <2> QED BY <2>1, <2>2
<1>9. Answered(delivered, replies)
  BY DEF SocketInv
<1> QED BY <1>7, <1>8, <1>9 DEF MessagesExact, Answered

(* However its bytes are cut, its messages fragmented and its control      *)
(* frames mixed in, a browser's web socket gives the handler each message  *)
(* whole, unmasked and in order; pings and the close are answered in turn; *)
(* nothing that was read whole stays behind (mg_deliver_websocket_data).   *)
THEOREM WebSocketDelivers == WsSpec => []MessagesExact
<1>1. WsInit => SocketInv
  BY SocketInitially
<1>2. SocketInv /\ [WsNext]_wsVars => SocketInv'
  BY SocketStep
<1>3. SocketInv => MessagesExact
  BY NothingMissing
<1> QED BY <1>1, <1>2, <1>3, PTL DEF WsSpec

-----------------------------------------------------------------------------
(* HttpServe, for every set of requests, any number of them on the         *)
(* connection, every size of the send window and of the largest header.    *)

RequestByte == [req : Nat, part : {"head", "blank", "size", "data", "line"}, n : Nat]

(* The smallest and the largest number of a set. *)
LEMMA LeastIsMin ==
    ASSUME NEW S \in SUBSET Int, NEW m \in S, \A x \in S : m <= x
    PROVE  Min(S) = m
<1> DEFINE Extreme(x) == \A y \in S : x <= y
           x == CHOOSE x \in S : Extreme(x)
<1>1. \A y \in S : y \in Int
  OBVIOUS
<1>2. Extreme(m)
  BY <1>1
<1>3. x \in S /\ Extreme(x)
  BY <1>2
<1>4. Min(S) = x
  BY DEF Min
<1>5. x \in Int /\ m \in Int /\ x <= m /\ m <= x
  BY <1>1, <1>2, <1>3
<1> HIDE DEF x
<1> QED BY <1>4, <1>5

LEMMA GreatestIsMax ==
    ASSUME NEW S \in SUBSET Int, NEW m \in S, \A x \in S : x <= m
    PROVE  Max(S) = m
<1> DEFINE Extreme(x) == \A y \in S : x >= y
           x == CHOOSE x \in S : Extreme(x)
<1>1. \A y \in S : y \in Int
  OBVIOUS
<1>2. Extreme(m)
  BY <1>1
<1>3. x \in S /\ Extreme(x)
  BY <1>2
<1>4. Max(S) = x
  BY DEF Max
<1>5. x \in Int /\ m \in Int /\ x <= m /\ m <= x
  BY <1>1, <1>2, <1>3
<1> HIDE DEF x
<1> QED BY <1>4, <1>5

LEMMA MinOfThree ==
    ASSUME NEW a \in Int, NEW b \in Int, NEW c \in Int
    PROVE  /\ Min({a, b, c}) \in {a, b, c}
           /\ Min({a, b, c}) <= a /\ Min({a, b, c}) <= b /\ Min({a, b, c}) <= c
<1> DEFINE S == {a, b, c}
           m == IF a <= b THEN (IF a <= c THEN a ELSE c) ELSE (IF b <= c THEN b ELSE c)
<1>1. S \in SUBSET Int /\ m \in S /\ \A x \in S : m <= x
  OBVIOUS
<1> HIDE DEF S, m
<1>2. Min(S) = m
  BY <1>1, LeastIsMin
<1> QED BY <1>1, <1>2 DEF S

LEMMA AtLeastZero ==
    ASSUME NEW a \in Int
    PROVE  Max({0, a}) = IF a >= 0 THEN a ELSE 0
<1> DEFINE S == {0, a}
           m == IF a >= 0 THEN a ELSE 0
<1>1. S \in SUBSET Int /\ m \in S /\ \A x \in S : x <= m
  OBVIOUS
<1> HIDE DEF S, m
<1>2. Max(S) = m
  BY <1>1, GreatestIsMax
<1> QED BY <1>2 DEF S, m

(* What a sublist is after a list that is all in it, or all not.           *)
AllIn(y, T) == \A i \in 1..Len(y) : y[i] \in T
NoneIn(y, T) == \A i \in 1..Len(y) : y[i] \notin T

SublistGrows(s, x, T) ==
    /\ x \in T => Sublist(Append(s, x), T) = Append(Sublist(s, T), x)
    /\ x \notin T => Sublist(Append(s, x), T) = Sublist(s, T)

LEMMA OneEntryMore ==
    ASSUME NEW S, NEW s \in Seq(S), NEW x \in S, NEW T
    PROVE  SublistGrows(s, x, T)
<1>1. /\ x \in T => Sublist(Append(s, x), T) = Append(Sublist(s, T), x)
      /\ x \notin T => Sublist(Append(s, x), T) = Sublist(s, T)
  BY SMTT(60), SublistAppend
<1> QED BY ONLY <1>1 DEF SublistGrows

LEMMA SublistJoin ==
    ASSUME NEW S, NEW s \in Seq(S), NEW y \in Seq(S), NEW T
    PROVE  /\ Sublist(s, T) \in Seq(S)
           /\ AllIn(y, T) => Sublist(s \o y, T) = Sublist(s, T) \o y
           /\ NoneIn(y, T) => Sublist(s \o y, T) = Sublist(s, T)
<1> DEFINE n == Len(y)
           a == Sublist(s, T)
           Up(i) == SubSeq(y, 1, i)
           P == {i \in 0..n : /\ AllIn(y, T) => Sublist(s \o Up(i), T) = a \o Up(i)
                              /\ NoneIn(y, T) => Sublist(s \o Up(i), T) = a}
<1>1. n \in Nat /\ \A i \in 1..n : y[i] \in S
  OBVIOUS
<1>2. a \in Seq(S)
  <2>1. CASE S = {}
    <3>1. s = <<>>
      BY <2>1, EmptySeq
    <3>2. a = <<>>
      BY <3>1, SublistOfNothing
    <3> QED BY <3>2
  <2>2. CASE S # {}
    <3>1. PICK x : x \in S
      BY <2>2
    <3> QED BY <3>1, SublistAppend
  <2> QED BY <2>1, <2>2
<1>3. /\ Up(0) = <<>> /\ Up(n) = y
      /\ \A i \in 0..n : Up(i) \in Seq(S)
      /\ \A i \in 0..n : i < n => Up(i + 1) = Append(Up(i), y[i + 1])
  <2>1. Up(0) = <<>> /\ Up(n) = y
    BY <1>1
  <2>2. ASSUME NEW i \in 0..n PROVE Up(i) \in Seq(S) /\ Len(Up(i)) = i /\ \A k \in 1..i : Up(i)[k] = y[k]
    <3>1. 0 \in 0..Len(y) /\ i \in 0..Len(y) /\ i - 0 = i /\ 0 + 1 = 1 /\ \A k \in 1..i : 0 + k = k
      BY <1>1
    <3>2. /\ SubSeq(y, 0 + 1, i) \in Seq(S) /\ Len(SubSeq(y, 0 + 1, i)) = i - 0
          /\ \A k \in 1..i - 0 : SubSeq(y, 0 + 1, i)[k] = y[0 + k]
      BY <3>1, PartFacts
    <3> QED BY <3>1, <3>2
  <2>3. ASSUME NEW i \in 0..n, i < n PROVE Up(i + 1) = Append(Up(i), y[i + 1])
    <3>1. i + 1 \in 0..n /\ i + 1 \in 1..n
      BY <1>1, <2>3
    <3> DEFINE u == Up(i)
               v == Up(i + 1)
    <3>2. u \in Seq(S) /\ Len(u) = i /\ \A k \in 1..i : u[k] = y[k]
      BY <2>2
    <3>3. v \in Seq(S) /\ Len(v) = i + 1 /\ \A k \in 1..i + 1 : v[k] = y[k]
      BY <2>2, <3>1
    <3>4. y[i + 1] \in S
      BY <1>1, <3>1
    <3> HIDE DEF u, v
    <3> DEFINE w == Append(u, y[i + 1])
    <3>5. w \in Seq(S) /\ Len(w) = i + 1 /\ (\A k \in 1..i : w[k] = u[k]) /\ w[i + 1] = y[i + 1]
      BY <3>2, <3>4
    <3>6. \A k \in 1..i + 1 : k \in 1..i \/ k = i + 1
      OBVIOUS
    <3> HIDE DEF w
    <3>7. v = w
      BY <3>2, <3>3, <3>5, <3>6, SeqEqual
    <3> QED BY <3>7 DEF u, v, w
  <2> QED BY <2>1, <2>2, <2>3
<1> HIDE DEF Up, a
<1>4. 0 \in P
  <2>1. s \o <<>> = s /\ a \o <<>> = a
    BY <1>2
  <2>2. Up(0) = <<>> /\ 0 \in 0..n
    <3>1. 0 \in 0..n
      BY <1>1
    <3> QED BY <1>3, <3>1
  <2>0. s \o Up(0) = s /\ a \o Up(0) = a
    BY <2>1, <2>2
  <2>3. Sublist(s \o Up(0), T) = a
    BY <2>0 DEF a
  <2> QED BY <2>0, <2>2, <2>3
<1>5. ASSUME NEW i \in 0..n, i < n, i \in P
      PROVE  i + 1 \in P
  <2>1. i + 1 \in 0..n /\ i + 1 \in 1..n
    BY <1>1, <1>5
  <2> DEFINE u == Up(i)
             x == y[i + 1]
             t == s \o u
  <2>2. u \in Seq(S) /\ x \in S /\ Up(i + 1) = Append(u, x)
    BY <1>1, <1>3, <1>5, <2>1
  <2>3. t \in Seq(S) /\ s \o Append(u, x) = Append(t, x) /\ a \o Append(u, x) = Append(a \o u, x)
    BY SMTT(60), <1>2, <2>2
  <2> HIDE DEF t, x, u
  <2>4. /\ x \in T => Sublist(Append(t, x), T) = Append(Sublist(t, T), x)
        /\ x \notin T => Sublist(Append(t, x), T) = Sublist(t, T)
    <3>1. t \in Seq(S) /\ x \in S
      BY <2>2, <2>3
    <3>2. SublistGrows(t, x, T)
      BY ONLY <3>1, OneEntryMore
    <3> QED BY <3>2 DEF SublistGrows
  <2>5. (AllIn(y, T) => x \in T) /\ (NoneIn(y, T) => x \notin T)
    BY <2>1 DEF AllIn, NoneIn, x
  <2>6. /\ AllIn(y, T) => Sublist(t, T) = a \o u
        /\ NoneIn(y, T) => Sublist(t, T) = a
    BY <1>5 DEF t, u
  <2>7. /\ AllIn(y, T) => Sublist(Append(t, x), T) = Append(a \o u, x)
        /\ NoneIn(y, T) => Sublist(Append(t, x), T) = a
    BY <2>4, <2>5, <2>6
  <2>8. s \o Up(i + 1) = Append(t, x) /\ a \o Up(i + 1) = Append(a \o u, x)
    BY <2>2, <2>3
  <2>9. i + 1 \in 0..n
    BY <2>1
  <2> QED BY <2>7, <2>8, <2>9
<1>6. n \in P
  <2>1. 0..n \subseteq P
    <3> HIDE DEF P
    <3> QED BY <1>1, <1>4, <1>5, CountUp
  <2> QED BY <1>1, <2>1
<1> QED BY <1>2, <1>3, <1>6 DEF a

JoinedAs(S, x, y, z) ==
    /\ z \in Seq(S) /\ Len(z) = Len(x) + Len(y)
    /\ \A i \in 1..Len(x) : z[i] = x[i]
    /\ \A i \in 1..Len(y) : z[Len(x) + i] = y[i]

LEMMA Joining ==
    ASSUME NEW S, NEW x \in Seq(S), NEW y \in Seq(S)
    PROVE  JoinedAs(S, x, y, x \o y)
<1>1. /\ x \o y \in Seq(S) /\ Len(x \o y) = Len(x) + Len(y)
      /\ \A i \in 1..Len(x) : (x \o y)[i] = x[i]
      /\ \A i \in 1..Len(y) : (x \o y)[Len(x) + i] = y[i]
  BY JoinFacts
<1> QED BY ONLY <1>1 DEF JoinedAs

(* A list of lists, joined one after the other. *)
Joins(F, q, S) ==
    /\ F \in [0..Len(q) -> Seq(S)] /\ F[0] = <<>> /\ F[Len(q)] = FlattenSeq(q)
    /\ \A i \in 1..Len(q) : F[i] = F[i - 1] \o q[i]

LEMMA FlattenFacts ==
    ASSUME NEW S, NEW q \in Seq(Seq(S)), q # <<>>
    PROVE  \E F : Joins(F, q, S)
<1> DEFINE m == Len(q)
           T == Seq(S)
           e == <<>>
           g == [i \in 1..m |-> [x \in T |-> x \o q[i]]]
           Fits(f) == f = [i \in 1..m |-> IF i = 1 THEN q[i] ELSE f[i - 1] \o q[i]]
           h == CHOOSE f : Fits(f)
<1>1. m \in Nat /\ m # 0 /\ e \in T /\ \A i \in 1..m : q[i] \in T
  OBVIOUS
<1>2. g \in [1..m -> [T -> T]] /\ \A i \in 1..m : \A x \in T : g[i][x] = x \o q[i]
  <2>1. \A i \in 1..m : \A x \in T : x \o q[i] \in T
    BY <1>1
  <2> QED BY <2>1
<1> HIDE DEF g, T, m
<1>3. PICK F : Recurs(F, T, e, m, g)
  BY <1>1, <1>2, Recursion
<1>4. F \in [0..m -> T] /\ F[0] = <<>> /\ \A i \in 1..m : F[i] = F[i - 1] \o q[i]
  <2>1. F \in [0..m -> T] /\ F[0] = <<>> /\ \A i \in 1..m : F[i] = g[i][F[i - 1]]
    BY <1>3 DEF Recurs
  <2>2. \A i \in 1..m : F[i - 1] \in T
    <3>1. \A i \in 1..m : i - 1 \in 0..m
      BY <1>1
    <3> QED BY <2>1, <3>1
  <2> QED BY <1>2, <2>1, <2>2
<1>5. Fits([i \in 1..m |-> F[i]])
  <2> DEFINE f == [i \in 1..m |-> F[i]]
  <2>1. ASSUME NEW i \in 1..m PROVE f[i] = IF i = 1 THEN q[i] ELSE f[i - 1] \o q[i]
    <3>1. CASE i = 1
      <4>0. 1 \in 1..m /\ 1 - 1 = 0
        BY <1>1
      <4>1. F[1] = <<>> \o q[1] /\ q[1] \in T
        <5>1. F[1] = F[1 - 1] \o q[1]
          BY <1>4, <4>0
        <5> QED BY <1>1, <1>4, <4>0, <5>1
      <4>2. <<>> \o q[1] = q[1]
        BY <4>1 DEF T
      <4> QED BY <3>1, <4>1, <4>2
    <3>2. CASE i # 1
      <4>1. i - 1 \in 1..m
        BY <1>1, <3>2
      <4> QED BY <1>4, <3>2, <4>1
    <3> QED BY <3>1, <3>2
  <2> QED BY <2>1
<1>6. Fits(h)
  BY Zenon, <1>5
<1>7. FlattenSeq(q) = h[m]
  <2>1. Len(q) # 0
    BY <1>1 DEF m
  <2> QED BY <2>1 DEF FlattenSeq, m
<1> HIDE DEF h
<1> DEFINE P == {i \in 0..m : i = 0 \/ h[i] = F[i]}
<1>8. 0 \in P
  BY <1>1
<1>9. ASSUME NEW i \in 0..m, i < m, i \in P
      PROVE  i + 1 \in P
  <2>1. i + 1 \in 0..m /\ i + 1 \in 1..m /\ (i + 1) - 1 = i
    BY <1>1, <1>9
  <2>2. h[i + 1] = IF i + 1 = 1 THEN q[i + 1] ELSE h[i] \o q[i + 1]
    BY <1>6, <2>1
  <2>3. F[i + 1] = F[i] \o q[i + 1]
    BY <1>4, <2>1
  <2>4. CASE i = 0
    <3>1. F[1] = <<>> \o q[1] /\ q[1] \in T /\ h[1] = q[1]
      <4>1. i + 1 = 1
        BY <2>4
      <4>2. h[1] = q[1] /\ F[1] = F[i] \o q[1] /\ 1 \in 1..m
        <5>1. h[1] = q[1]
          BY <2>2, <4>1
        <5>2. F[1] = F[i] \o q[1]
          BY <2>3, <4>1
        <5>3. 1 \in 1..m
          BY <2>1, <4>1
        <5> QED BY <5>1, <5>2, <5>3
      <4> QED BY <1>1, <1>4, <2>4, <4>2
    <3>2. <<>> \o q[1] = q[1]
      BY <3>1 DEF T
    <3> QED BY <2>1, <2>4, <3>1, <3>2
  <2>5. CASE i # 0
    <3>1. h[i] = F[i] /\ i + 1 # 1
      BY <1>9, <2>5
    <3> QED BY <2>1, <2>2, <2>3, <3>1
  <2> QED BY <2>4, <2>5
<1>10. m \in P
  <2>1. 0..m \subseteq P
    <3> HIDE DEF P
    <3> QED BY <1>1, <1>8, <1>9, CountUp
  <2> QED BY <1>1, <2>1
<1>11. F[m] = FlattenSeq(q)
  BY <1>1, <1>7, <1>10
<1> QED BY <1>4, <1>11 DEF Joins, m, T

-----------------------------------------------------------------------------
(* The bytes of a request: at[j] of them are before chunk j + 1. *)
Laid(B, chunks, at) ==
    /\ at \in [0..Len(chunks) -> Nat] /\ at[0] = 2 /\ at[Len(chunks)] = Len(B)
    /\ \A j \in 1..Len(chunks) : at[j] = at[j - 1] + chunks[j] + 2 /\ B[at[j - 1] + 1].n = chunks[j]

IsRequest(B, k, r) ==
    /\ B \in Seq(RequestByte) /\ Len(B) >= 2
    /\ B[1] = Part(k, "head", 0) /\ B[2] = Part(k, "blank", 0)
    /\ r.chunks = <<>> => Len(B) = 2 + r.body
    /\ r.chunks # <<>> => \E at : Laid(B, r.chunks, at)

LEMMA PiecesFacts ==
    ASSUME NEW k \in Nat, NEW n \in Nat
    PROVE  Pieces(k, "data", n) \in Seq(RequestByte) /\ Len(Pieces(k, "data", n)) = n
<1>1. \A i \in 1..n : Part(k, "data", i) \in RequestByte
  BY DEF Part, RequestByte
<1>2. Pieces(k, "data", n) = [i \in 1..n |-> Part(k, "data", i)]
  BY DEF Pieces
<1> QED BY <1>1, <1>2

LEMMA ChunkFacts ==
    ASSUME NEW k \in Nat, NEW n \in Nat
    PROVE  /\ ChunkBytes(k, n) \in Seq(RequestByte) /\ Len(ChunkBytes(k, n)) = n + 2
           /\ ChunkBytes(k, n)[1].n = n
<1> DEFINE size == <<Part(k, "size", n)>>
           line == <<Part(k, "line", 0)>>
           data == Pieces(k, "data", n)
<1>1. Part(k, "size", n) \in RequestByte /\ Part(k, "line", 0) \in RequestByte /\ Part(k, "size", n).n = n
  BY DEF Part, RequestByte
<1>2. /\ size \in Seq(RequestByte) /\ Len(size) = 1 /\ size[1].n = n
      /\ line \in Seq(RequestByte) /\ Len(line) = 1
  BY <1>1
<1>3. data \in Seq(RequestByte) /\ Len(data) = n
  BY PiecesFacts
<1>4. ChunkBytes(k, n) = (size \o data) \o line
  BY DEF ChunkBytes
<1> HIDE DEF size, data, line
<1> DEFINE front == size \o data
<1>5. front \in Seq(RequestByte) /\ Len(front) = Len(size) + Len(data)
      /\ \A i \in 1..Len(size) : front[i] = size[i]
  <2>1. JoinedAs(RequestByte, size, data, size \o data)
    BY <1>2, <1>3, Joining
  <2> QED BY <2>1 DEF JoinedAs
<1>6. Len(front) = 1 + n /\ 1 \in 1..Len(front) /\ 1 \in 1..Len(size)
  BY <1>2, <1>3, <1>5
<1> HIDE DEF front
<1> DEFINE all == front \o line
<1>7. all \in Seq(RequestByte) /\ Len(all) = Len(front) + Len(line) /\ \A i \in 1..Len(front) : all[i] = front[i]
  <2>0. front \in Seq(RequestByte) /\ line \in Seq(RequestByte)
    BY <1>2, <1>5
  <2>1. JoinedAs(RequestByte, front, line, front \o line)
    BY ONLY <2>0, Joining
  <2> QED BY <2>1 DEF JoinedAs
<1>8. all[1].n = n /\ Len(all) = n + 2
  BY <1>2, <1>5, <1>6, <1>7
<1> HIDE DEF all
<1>9. ChunkBytes(k, n) = all
  BY <1>4 DEF all, front
<1> QED BY <1>7, <1>8, <1>9

(* Where the chunks of a body stand in it.                                 *)
LEMMA ChunksLaid ==
    ASSUME NEW S, NEW q \in Seq(Seq(S)), NEW F, Joins(F, q, S)
    PROVE  \A j \in 1..Len(q) :
              /\ Len(F[j]) = Len(F[j - 1]) + Len(q[j])
              /\ Len(q[j]) > 0 => F[Len(q)][Len(F[j - 1]) + 1] = q[j][1]
<1> DEFINE m == Len(q)
           L(i) == Len(F[i])
           Done(i, j) ==
              /\ L(j) = L(j - 1) + Len(q[j]) /\ L(j) <= L(i)
              /\ Len(q[j]) > 0 => F[i][L(j - 1) + 1] = q[j][1]
           P == {i \in 0..m : \A j \in 1..i : Done(i, j)}
<1>1. m \in Nat /\ \A i \in 1..m : q[i] \in Seq(S) /\ Len(q[i]) \in Nat
  OBVIOUS
<1>2. /\ \A i \in 0..m : F[i] \in Seq(S) /\ L(i) \in Nat
      /\ \A i \in 1..m : F[i] = F[i - 1] \o q[i]
  <2>1. F \in [0..m -> Seq(S)] /\ \A i \in 1..m : F[i] = F[i - 1] \o q[i]
    BY DEF Joins
  <2>2. \A i \in 0..m : F[i] \in Seq(S)
    BY <2>1
  <2>3. \A x \in Seq(S) : Len(x) \in Nat
    OBVIOUS
  <2> QED BY <2>1, <2>2, <2>3
<1> HIDE DEF m, L
<1>3. 0 \in P
  <2>1. 1..0 = {} /\ 0 \in 0..m
    BY <1>1
  <2> QED BY <2>1
<1>4. ASSUME NEW i \in 0..m, i < m, i \in P
      PROVE  i + 1 \in P
  <2>1. i + 1 \in 0..m /\ i + 1 \in 1..m /\ (i + 1) - 1 = i
    BY <1>1, <1>4
  <2>2. F[i] \in Seq(S) /\ q[i + 1] \in Seq(S) /\ F[i + 1] = F[i] \o q[i + 1]
    <3>1. F[i + 1] = F[(i + 1) - 1] \o q[i + 1]
      BY <1>2, <2>1
    <3>2. F[i] \in Seq(S)
      BY <1>2
    <3>3. q[i + 1] \in Seq(S)
      BY <1>1, <2>1
    <3> QED BY <2>1, <3>1, <3>2, <3>3
  <2>3. JoinedAs(S, F[i], q[i + 1], F[i + 1])
    BY <2>2, Joining
  <2>4. /\ L(i + 1) = L(i) + Len(q[i + 1])
        /\ \A k \in 1..L(i) : F[i + 1][k] = F[i][k]
        /\ \A k \in 1..Len(q[i + 1]) : F[i + 1][L(i) + k] = q[i + 1][k]
    BY <2>3 DEF JoinedAs, L
  <2>5. L(i) \in Nat /\ L(i + 1) \in Nat /\ Len(q[i + 1]) \in Nat
    BY <1>1, <1>2, <2>1
  <2>6. ASSUME NEW j \in 1..i + 1 PROVE Done(i + 1, j)
    <3>1. CASE j \in 1..i
      <4>1. j \in 0..m /\ j - 1 \in 0..m /\ j \in 1..m
        BY <1>1, <1>4, <3>1
      <4>2. Done(i, j)
        BY <1>4, <3>1
      <4>3. L(j) \in Nat /\ L(j - 1) \in Nat /\ Len(q[j]) \in Nat
        BY <1>1, <1>2, <4>1
      <4>4. Len(q[j]) > 0 => L(j - 1) + 1 \in 1..L(i)
        BY SMTT(60), <2>5, <4>2, <4>3
      <4>5. L(j) <= L(i + 1)
        <5>1. L(i) <= L(i + 1)
          <6>1. L(i + 1) = L(i) + Len(q[i + 1])
            BY <2>4
          <6> QED BY <2>5, <6>1
        <5>2. L(j) <= L(i)
          BY <4>2
        <5> QED BY <2>5, <4>3, <5>1, <5>2
      <4> QED BY <2>4, <4>2, <4>4, <4>5
    <3>2. CASE j = i + 1
      <4>1. Len(q[i + 1]) > 0 => 1 \in 1..Len(q[i + 1])
        BY <2>5
      <4> QED BY <2>1, <2>4, <2>5, <3>2, <4>1
    <3>3. j \in 1..i \/ j = i + 1
      BY <1>1
    <3> QED BY <3>1, <3>2, <3>3
  <2> HIDE DEF Done
  <2> QED BY <2>1, <2>6
<1>5. \A j \in 1..m : Done(m, j)
  <2>1. 0..m \subseteq P
    <3> HIDE DEF P
    <3> QED BY <1>1, <1>3, <1>4, CountUp
  <2>2. m \in P
    <3>1. m \in 0..m
      BY <1>1
    <3> HIDE DEF P
    <3> QED BY <2>1, <3>1
  <2> HIDE DEF Done
  <2> QED BY <2>2
<1> QED BY <1>5 DEF m, L

LEMMA BytesOfRequest ==
    ASSUME NEW k \in Nat, NEW r \in Request
    PROVE  IsRequest(RequestBytes(k, r), k, r)
<1> DEFINE S == RequestByte
           head == <<Part(k, "head", 0), Part(k, "blank", 0)>>
           m == Len(r.chunks)
           q == [i \in 1..m |-> ChunkBytes(k, r.chunks[i])]
           body == IF r.chunks = <<>> THEN Pieces(k, "data", r.body) ELSE FlattenSeq(q)
           B == head \o body
<1>1. r.chunks \in Seq(Nat) /\ r.body \in Nat /\ m \in Nat
  BY DEF Request
<1>2. /\ head \in Seq(S) /\ Len(head) = 2
      /\ head[1] = Part(k, "head", 0) /\ head[2] = Part(k, "blank", 0)
  <2>1. Part(k, "head", 0) \in S /\ Part(k, "blank", 0) \in S
    BY DEF Part, RequestByte
  <2> QED BY <2>1
<1>3. RequestBytes(k, r) = B
  BY DEF RequestBytes
<1>4. \A i \in 1..m : q[i] \in Seq(S) /\ Len(q[i]) = r.chunks[i] + 2 /\ q[i][1].n = r.chunks[i]
  <2>1. \A i \in 1..m : r.chunks[i] \in Nat
    BY <1>1
  <2> QED BY <2>1, ChunkFacts
<1>5. q \in Seq(Seq(S)) /\ Len(q) = m
  <2> DEFINE c(i) == ChunkBytes(k, r.chunks[i])
  <2>1. \A i \in 1..m : c(i) \in Seq(S)
    BY <1>4
  <2> HIDE DEF c, m, S
  <2>2. [i \in 1..m |-> c(i)] \in Seq(Seq(S)) /\ Len([i \in 1..m |-> c(i)]) = m
    BY <1>1, <2>1
  <2> QED BY <2>2 DEF c
<1>6. r.chunks # <<>> => m # 0
  BY <1>1, EmptySeq
<1> HIDE DEF head, q, m, S
<1>7. CASE r.chunks = <<>>
  <2>1. body \in Seq(S) /\ Len(body) = r.body
    BY <1>1, <1>7, PiecesFacts DEF S
  <2> HIDE DEF body
  <2>2. JoinedAs(S, head, body, B)
    BY <1>2, <2>1, Joining
  <2> HIDE DEF B
  <2>3. B \in Seq(S) /\ Len(B) = 2 + r.body /\ B[1] = head[1] /\ B[2] = head[2]
    BY <1>2, <2>1, <2>2 DEF JoinedAs
  <2> QED BY <1>1, <1>2, <1>3, <1>7, <2>3 DEF IsRequest, S
<1>8. CASE r.chunks # <<>>
  <2>1. PICK F : Joins(F, q, S)
    <3>1. q # <<>>
      BY <1>5, <1>6, <1>8
    <3> QED BY <1>5, <3>1, FlattenFacts
  <2>2. body = F[m] /\ F \in [0..m -> Seq(S)] /\ F[0] = <<>>
    BY <1>5, <1>8, <2>1 DEF Joins
  <2> DEFINE L(j) == Len(F[j])
             at == [j \in 0..m |-> 2 + L(j)]
  <2>3. \A j \in 1..m : L(j) = L(j - 1) + (r.chunks[j] + 2) /\ F[m][L(j - 1) + 1].n = r.chunks[j]
    <3> SUFFICES ASSUME NEW j \in 1..m
                 PROVE  L(j) = L(j - 1) + (r.chunks[j] + 2) /\ F[m][L(j - 1) + 1].n = r.chunks[j]
      OBVIOUS
    <3>1. /\ L(j) = L(j - 1) + Len(q[j])
          /\ Len(q[j]) > 0 => F[m][L(j - 1) + 1] = q[j][1]
      <4>1. \A i \in 1..Len(q) :
              /\ Len(F[i]) = Len(F[i - 1]) + Len(q[i])
              /\ Len(q[i]) > 0 => F[Len(q)][Len(F[i - 1]) + 1] = q[i][1]
        BY ONLY ZenonT(60), <1>5, <2>1, ChunksLaid
      <4> QED BY <1>5, <4>1
    <3> HIDE DEF L
    <3>2. r.chunks[j] \in Nat
      BY <1>1 DEF m
    <3>3. Len(q[j]) = r.chunks[j] + 2 /\ q[j][1].n = r.chunks[j] /\ r.chunks[j] + 2 > 0
      BY <1>4, <3>2
    <3> QED BY <3>1, <3>3
  <2>4. \A j \in 0..m : L(j) \in Nat
    <3>1. \A x \in Seq(S) : Len(x) \in Nat
      OBVIOUS
    <3> QED BY <2>2, <3>1
  <2>5. body \in Seq(S)
    <3>1. m \in 0..m
      BY <1>1
    <3> QED BY <2>2, <3>1
  <2> HIDE DEF body
  <2>6. JoinedAs(S, head, body, B)
    BY <1>2, <2>5, Joining
  <2> HIDE DEF B, L
  <2>7. /\ B \in Seq(S) /\ Len(B) = 2 + L(m) /\ B[1] = head[1] /\ B[2] = head[2]
        /\ \A i \in 1..L(m) : B[2 + i] = F[m][i]
    <3>1. Len(body) = L(m) /\ L(m) \in Nat
      BY <1>1, <2>2, <2>4 DEF L
    <3> QED BY <1>2, <2>2, <2>6, <3>1 DEF JoinedAs
  <2>8. ASSUME NEW j \in 1..m
        PROVE  at[j] = at[j - 1] + r.chunks[j] + 2 /\ B[at[j - 1] + 1].n = r.chunks[j]
    <3>1. j - 1 \in 0..m /\ j \in 0..m /\ r.chunks[j] \in Nat
      BY <1>1 DEF m
    <3>2. at[j] = 2 + L(j) /\ at[j - 1] = 2 + L(j - 1) /\ L(j) \in Nat /\ L(j - 1) \in Nat
      BY <2>4, <3>1
    <3>3. L(j) = L(j - 1) + (r.chunks[j] + 2)
      BY <2>3
    <3>4. L(j - 1) + 1 \in 1..L(m)
      <4>1. L(j) <= L(m)
        <5> DEFINE P == {i \in 0..m : \A h \in 0..i : L(h) <= L(i)}
        <5>1. 0 \in P
          BY <1>1, <2>4
        <5>2. ASSUME NEW i \in 0..m, i < m, i \in P
              PROVE  i + 1 \in P
          <6>1. i + 1 \in 1..m /\ i + 1 \in 0..m /\ (i + 1) - 1 = i
            BY <1>1, <5>2
          <6>2. L(i + 1) = L(i) + (r.chunks[i + 1] + 2) /\ r.chunks[i + 1] \in Nat
            BY SMTT(40), <1>1, <2>3, <6>1 DEF m
          <6>3. L(i) \in Nat /\ L(i + 1) \in Nat /\ L(i) <= L(i + 1)
            BY <2>4, <6>1, <6>2
          <6>4. \A h \in 0..i + 1 : h \in 0..i \/ h = i + 1
            BY <1>1
          <6>5. \A h \in 0..i : h \in 0..m /\ L(h) \in Nat /\ L(h) <= L(i)
            BY <1>1, <2>4, <5>2
          <6>6. \A h \in 0..i : L(h) <= L(i + 1)
            BY <6>3, <6>5
          <6> QED BY <6>1, <6>3, <6>4, <6>6
        <5>3. 0..m \subseteq P
          <6> HIDE DEF P
          <6> QED BY <1>1, <5>1, <5>2, CountUp
        <5>4. m \in P
          <6> HIDE DEF P
          <6> QED BY <1>1, <5>3
        <5> QED BY <3>1, <5>4
      <4>2. L(m) \in Nat
        BY <1>1, <2>4
      <4> QED BY <3>1, <3>2, <3>3, <4>1, <4>2
    <3>5. B[2 + (L(j - 1) + 1)] = F[m][L(j - 1) + 1]
      BY <2>7, <3>4
    <3>6. 2 + (L(j - 1) + 1) = at[j - 1] + 1
      BY <3>2
    <3>7. B[at[j - 1] + 1].n = r.chunks[j]
      BY <2>3, <3>5, <3>6
    <3>8. at[j] = at[j - 1] + r.chunks[j] + 2
      BY <3>1, <3>2, <3>3
    <3> QED BY <3>7, <3>8
  <2>9. at[0] = 2 /\ at[m] = Len(B) /\ at \in [0..m -> Nat]
    <3>1. L(0) = 0
      BY <2>2 DEF L
    <3>2. 0 \in 0..m /\ m \in 0..m
      BY <1>1
    <3>3. \A j \in 0..m : 2 + L(j) \in Nat
      BY <2>4
    <3> QED BY <2>7, <3>1, <3>2, <3>3
  <2> HIDE DEF at
  <2>10. Laid(B, r.chunks, at)
    BY <2>8, <2>9 DEF Laid, m
  <2>11. Len(B) >= 2
    BY <1>1, <2>4, <2>7
  <2> QED BY <1>2, <1>3, <1>8, <2>7, <2>10, <2>11 DEF IsRequest, S
<1> QED BY <1>7, <1>8

-----------------------------------------------------------------------------
(* Chunks being collapsed: those taken are a number of the first ones, and *)
(* the last one is not taken before all have come.                         *)
Collapsing == [body : Seq(RequestByte), rest : Seq(RequestByte), last : BOOLEAN]

Ends(chunks) == \A i \in 1..Len(chunks) : chunks[i] = 0 <=> i = Len(chunks)

StandsAt(x, B, chunks, at, p, j) ==
    at[j] <= p /\ x.rest = SubSeq(B, at[j] + 1, p) /\ (x.last => j = Len(chunks))
Stands(x, B, chunks, at, p) ==
    x \in Collapsing /\ \E j \in 0..Len(chunks) : StandsAt(x, B, chunks, at, p, j)

LEMMA CutBehind ==
    ASSUME NEW S, NEW B \in Seq(S), NEW a \in Nat, NEW p \in Nat, a <= p, p <= Len(B)
    PROVE  /\ SubSeq(B, a + 1, p) \in Seq(S) /\ Len(SubSeq(B, a + 1, p)) = p - a
           /\ p - a > 0 => SubSeq(B, a + 1, p)[1] = B[a + 1]
           /\ \A n \in 0..p - a : SubSeq(SubSeq(B, a + 1, p), n + 1, p - a) = SubSeq(B, a + n + 1, p)
<1> DEFINE x == SubSeq(B, a + 1, p)
           l == p - a
<1>1. /\ x \in Seq(S) /\ Len(x) = l /\ l \in Nat
      /\ \A i \in 1..l : x[i] = B[a + i]
  <2>1. a \in 0..Len(B) /\ p \in a..Len(B) /\ Len(B) \in Nat
    OBVIOUS
  <2>2. /\ SubSeq(B, a + 1, p) \in Seq(S) /\ Len(SubSeq(B, a + 1, p)) = p - a
        /\ \A i \in 1..p - a : SubSeq(B, a + 1, p)[i] = B[a + i]
    BY <2>1, PartFacts
  <2> QED BY <2>2
<1>2. l > 0 => 1 \in 1..l
  BY <1>1
<1>3. ASSUME NEW n \in 0..l PROVE SubSeq(x, n + 1, l) = SubSeq(B, a + n + 1, p)
  <2> DEFINE y == SubSeq(x, n + 1, l)
             b == a + n
             z == SubSeq(B, b + 1, p)
  <2>1. b \in 0..Len(B) /\ p \in b..Len(B) /\ n \in 0..Len(x) /\ l \in n..Len(x) /\ p - b = l - n
        /\ Len(B) \in Nat /\ b + 1 = a + n + 1
    BY <1>1
  <2>2. z \in Seq(S) /\ Len(z) = p - b /\ \A i \in 1..p - b : z[i] = B[b + i]
    BY <2>1, PartFacts
  <2> HIDE DEF x
  <2>3. y \in Seq(S) /\ Len(y) = l - n /\ \A i \in 1..l - n : y[i] = x[n + i]
    BY SMTT(40), <1>1, <2>1, PartFacts
  <2> HIDE DEF y, z, l
  <2>4. ASSUME NEW i \in 1..Len(y) PROVE y[i] = z[i]
    <3>1. n + i \in 1..l /\ a + (n + i) = b + i /\ i \in 1..l - n
      BY <1>1, <2>1, <2>3
    <3>2. y[i] = x[n + i] /\ x[n + i] = B[a + (n + i)] /\ z[i] = B[b + i]
      BY <1>1, <2>1, <2>2, <2>3, <3>1
    <3> QED BY <3>1, <3>2
  <2>5. y = z
    BY <2>1, <2>2, <2>3, <2>4, SeqEqual
  <2> QED BY <2>1, <2>5 DEF y, z
<1> QED BY <1>1, <1>2, <1>3

LEMMA TakeChunkStands ==
    ASSUME NEW B \in Seq(RequestByte), NEW chunks \in Seq(Nat), Ends(chunks),
           NEW at, Laid(B, chunks, at), NEW p \in Nat, p <= Len(B),
           NEW x, Stands(x, B, chunks, at, p)
    PROVE  Stands(TakeChunk(x), B, chunks, at, p)
<1> DEFINE m == Len(chunks)
           n == x.rest[1].n
           len == Len(x.rest)
           y == [body |-> x.body \o SubSeq(x.rest, 2, n + 1),
                 rest |-> SubSeq(x.rest, n + 3, len), last |-> n = 0]
<1>1. x \in Collapsing /\ m \in Nat
  BY DEF Stands
<1>2. PICK j \in 0..m : StandsAt(x, B, chunks, at, p, j)
  BY DEF Stands
<1>3. CASE x.last \/ x.rest = <<>> \/ len < n + 2
  <2>1. TakeChunk(x) = x
    BY <1>3 DEF TakeChunk
  <2> QED BY <2>1
<1>4. CASE ~(x.last \/ x.rest = <<>> \/ len < n + 2)
  <2>1. TakeChunk(x) = y
    BY <1>4 DEF TakeChunk
  <2> DEFINE a == at[j]
  <2>2. a \in Nat /\ at[m] = Len(B) /\ Len(B) \in Nat
    <3>1. at \in [0..m -> Nat] /\ at[m] = Len(B)
      BY DEF Laid
    <3>2. at[j] \in Nat
      BY <1>2, <3>1
    <3> QED BY <3>1, <3>2
  <2>3. a <= p /\ x.rest = SubSeq(B, a + 1, p)
    BY <1>2 DEF StandsAt
  <2> HIDE DEF a
  <2>4. /\ x.rest \in Seq(RequestByte) /\ len = p - a
        /\ p - a > 0 => x.rest[1] = B[a + 1]
        /\ \A h \in 0..p - a : SubSeq(x.rest, h + 1, p - a) = SubSeq(B, a + h + 1, p)
    <3> DEFINE u == x.rest
    <3>1. a \in Nat /\ p \in Nat /\ a <= p /\ p <= Len(B) /\ B \in Seq(RequestByte)
      BY <2>2, <2>3
    <3>2. u = SubSeq(B, a + 1, p)
      BY <2>3
    <3> HIDE DEF u
    <3>3. /\ u \in Seq(RequestByte) /\ Len(u) = p - a
          /\ p - a > 0 => u[1] = B[a + 1]
          /\ \A h \in 0..p - a : SubSeq(u, h + 1, p - a) = SubSeq(B, a + h + 1, p)
      BY ONLY <3>1, <3>2, CutBehind
    <3> QED BY <3>3 DEF len, u
  <2>5. p - a > 0
    <3>1. x.rest # <<>> /\ len \in Nat
      BY <1>4, <2>4
    <3>2. len # 0
      BY <2>4, <3>1, EmptySeq
    <3> QED BY <2>4, <3>1, <3>2
  <2>6. j + 1 \in 1..m /\ (j + 1) - 1 = j
    <3>1. j # m
      BY <2>2, <2>5 DEF a
    <3> QED BY <1>1, <1>2, <3>1
  <2>7. at[j + 1] = a + n + 2 /\ n = chunks[j + 1] /\ n \in Nat
    <3>1. at[j + 1] = at[j] + chunks[j + 1] + 2 /\ B[at[j] + 1].n = chunks[j + 1]
      BY <2>6 DEF Laid
    <3>2. x.rest[1] = B[a + 1]
      BY <2>4, <2>5
    <3>3. chunks[j + 1] \in Nat
      BY <2>6
    <3> QED BY <3>1, <3>2, <3>3 DEF a
  <2> HIDE DEF n, len
  <2>8. n + 2 \in 0..p - a /\ n + 2 <= p - a
    <3>1. a \in Nat /\ n \in Nat /\ p \in Nat
      BY <2>2, <2>7
    <3>2. ~(len < n + 2) /\ len = p - a
      BY <1>4, <2>4
    <3> QED BY ONLY <3>1, <3>2
  <2>9. SubSeq(x.rest, n + 3, len) = SubSeq(B, at[j + 1] + 1, p)
    <3>1. SubSeq(x.rest, (n + 2) + 1, p - a) = SubSeq(B, a + (n + 2) + 1, p)
      BY <2>4, <2>8
    <3>2. (n + 2) + 1 = n + 3 /\ a + (n + 2) + 1 = at[j + 1] + 1
      BY SMTT(60), <2>2, <2>7
    <3> QED BY <2>4, <3>1, <3>2
  <2>10. at[j + 1] <= p /\ at[j + 1] \in Nat
    <3> DEFINE b == at[j + 1]
    <3>1. b = a + n + 2
      BY <2>7
    <3> HIDE DEF b
    <3>2. a \in Nat /\ n \in Nat /\ p \in Nat
      BY <2>2, <2>7
    <3>3. b <= p /\ b \in Nat
      BY ONLY <2>8, <3>1, <3>2
    <3> QED BY <3>3 DEF b
  <2>11. SubSeq(B, at[j + 1] + 1, p) \in Seq(RequestByte)
    BY <2>10, CutBehind
  <2>12. x.body \o SubSeq(x.rest, 2, n + 1) \in Seq(RequestByte)
    <3>1. x.body \in Seq(RequestByte) /\ 1 \in 0..len /\ n + 1 \in 1..len /\ 1 + 1 = 2
      <4>1. x.body \in Seq(RequestByte)
        BY <1>1 DEF Collapsing
      <4>2. len \in Nat /\ n + 2 <= len
        BY <2>2, <2>4, <2>8
      <4>3. n \in Nat
        BY <2>7
      <4>4. 1 \in 0..len /\ n + 1 \in 1..len /\ 1 + 1 = 2
        BY ONLY <4>2, <4>3
      <4> QED BY <4>1, <4>4
    <3>2. SubSeq(x.rest, 2, n + 1) \in Seq(RequestByte)
      BY <2>4, <3>1, PartFacts DEF len
    <3> QED BY <3>1, <3>2
  <2>13. n = 0 => j + 1 = m
    BY <2>6, <2>7 DEF Ends
  <2>14. y \in Collapsing /\ y.rest = SubSeq(B, at[j + 1] + 1, p) /\ (y.last <=> n = 0)
    BY <2>9, <2>11, <2>12 DEF Collapsing
  <2> HIDE DEF y
  <2>15. StandsAt(y, B, chunks, at, p, j + 1)
    BY <2>10, <2>13, <2>14 DEF StandsAt
  <2>16. j + 1 \in 0..m
    BY <2>6
  <2>17. Stands(y, B, chunks, at, p)
    BY <2>14, <2>15, <2>16 DEF Stands
  <2> QED BY <2>1, <2>17
<1> QED BY <1>3, <1>4

LEMMA TakeChunkType ==
    ASSUME NEW x \in Collapsing
    PROVE  TakeChunk(x) \in Collapsing
<1> DEFINE n == x.rest[1].n
           len == Len(x.rest)
<1>1. x.body \in Seq(RequestByte) /\ x.rest \in Seq(RequestByte) /\ len \in Nat
  BY DEF Collapsing
<1>2. CASE x.last \/ x.rest = <<>> \/ len < n + 2
  BY <1>2 DEF TakeChunk
<1>3. CASE ~(x.last \/ x.rest = <<>> \/ len < n + 2)
  <2>1. len # 0
    BY <1>1, <1>3, EmptySeq
  <2>2. n \in Nat
    <3>1. x.rest[1] \in RequestByte
      BY <1>1, <2>1
    <3> QED BY <3>1 DEF RequestByte
  <2>3. n + 2 <= len /\ 1 + 1 = 2 /\ (n + 2) + 1 = n + 3
    BY <1>1, <1>3, <2>2
  <2> HIDE DEF n
  <2>4. SubSeq(x.rest, 2, n + 1) \in Seq(RequestByte)
    <3>1. 1 \in 0..Len(x.rest) /\ n + 1 \in 1..Len(x.rest)
      BY <1>1, <2>2, <2>3
    <3> QED BY <1>1, <2>3, <3>1, PartFacts
  <2>5. SubSeq(x.rest, n + 3, len) \in Seq(RequestByte)
    <3>1. n + 2 \in 0..Len(x.rest) /\ Len(x.rest) \in (n + 2)..Len(x.rest)
      BY <1>1, <2>2, <2>3
    <3> QED BY <1>1, <2>3, <3>1, PartFacts
  <2>6. x.body \o SubSeq(x.rest, 2, n + 1) \in Seq(RequestByte)
    BY <1>1, <2>4
  <2>7. TakeChunk(x) = [body |-> x.body \o SubSeq(x.rest, 2, n + 1),
                        rest |-> SubSeq(x.rest, n + 3, len), last |-> n = 0]
    BY <1>3 DEF TakeChunk, n
  <2> QED BY <2>5, <2>6, <2>7 DEF Collapsing
<1> QED BY <1>2, <1>3

LEMMA CollapseStands ==
    ASSUME NEW B \in Seq(RequestByte), NEW chunks \in Seq(Nat), Ends(chunks),
           NEW at, Laid(B, chunks, at), NEW p \in Nat, p <= Len(B),
           NEW body \in Seq(RequestByte), NEW rest,
           NEW j \in 0..Len(chunks), at[j] <= p, rest = SubSeq(B, at[j] + 1, p)
    PROVE  Stands(Collapse(body, rest), B, chunks, at, p)
<1> DEFINE n == Len(rest)
           S == Collapsing
           e == [body |-> body, rest |-> rest, last |-> FALSE]
           g == [i \in 1..n |-> [x \in S |-> TakeChunk(x)]]
           Fits(f) == f = [i \in 0..n |->
                             IF i = 0 THEN e ELSE CHOOSE y \in {TakeChunk(x) : x \in {f[i - 1]}} : TRUE]
           h == CHOOSE f : Fits(f)
<1>1. rest \in Seq(RequestByte) /\ n \in Nat
  <2>1. at[j] \in Nat
    BY DEF Laid
  <2>2. rest \in Seq(RequestByte)
    BY <2>1, CutBehind
  <2> QED BY SMTT(40), <2>2
<1>2. e \in S /\ Stands(e, B, chunks, at, p)
  <2>1. e \in S /\ e.rest = rest /\ e.last = FALSE
    BY <1>1 DEF Collapsing
  <2> HIDE DEF e
  <2>2. StandsAt(e, B, chunks, at, p, j)
    BY <2>1 DEF StandsAt
  <2> QED BY <2>1, <2>2 DEF Stands
<1>3. g \in [1..n -> [S -> S]] /\ \A i \in 1..n : \A x \in S : g[i][x] = TakeChunk(x)
  <2>1. \A x \in S : TakeChunk(x) \in S
    BY TakeChunkType
  <2> QED BY <2>1
<1>4. Collapse(body, rest) = h[n]
  BY DEF Collapse
<1> HIDE DEF g, n, e
<1>5. PICK f : Recurs(f, S, e, n, g)
  <2> HIDE DEF S
  <2> QED BY <1>1, <1>2, <1>3, Recursion
<1>6. f \in [0..n -> S] /\ f[0] = e /\ \A i \in 1..n : f[i] = TakeChunk(f[i - 1])
  <2>1. f \in [0..n -> S] /\ f[0] = e /\ \A i \in 1..n : f[i] = g[i][f[i - 1]]
    BY <1>5 DEF Recurs
  <2>2. \A i \in 1..n : i - 1 \in 0..n
    BY <1>1
  <2> QED BY <1>3, <2>1, <2>2
<1>7. \A v : (CHOOSE y \in {TakeChunk(x) : x \in {v}} : TRUE) = TakeChunk(v)
  OBVIOUS
<1>8. Fits(f)
  <2>1. \A i \in 0..n : i # 0 => i \in 1..n
    BY <1>1
  <2>2. \A i \in 0..n : f[i] = IF i = 0 THEN e ELSE TakeChunk(f[i - 1])
    BY <1>6, <2>1
  <2>3. \A i \in 0..n : f[i] = IF i = 0 THEN e
                               ELSE CHOOSE y \in {TakeChunk(x) : x \in {f[i - 1]}} : TRUE
    BY <1>7, <2>2
  <2>4. f = [i \in 0..n |-> f[i]]
    BY <1>6
  <2> QED BY <2>3, <2>4
<1>9. Fits(h)
  BY <1>8
<1> HIDE DEF h
<1> DEFINE P == {i \in 0..n : Stands(h[i], B, chunks, at, p)}
<1>10. 0 \in P
  <2>1. 0 \in 0..n
    BY <1>1
  <2>2. h[0] = e
    BY <1>9, <2>1
  <2> QED BY <1>2, <2>1, <2>2
<1>11. ASSUME NEW i \in 0..n, i < n, i \in P
       PROVE  i + 1 \in P
  <2>1. i + 1 \in 0..n /\ (i + 1) - 1 = i /\ i + 1 # 0
    BY <1>1, <1>11
  <2>2. h[i + 1] = CHOOSE y \in {TakeChunk(x) : x \in {h[i]}} : TRUE
    BY <1>9, <2>1
  <2>3. h[i + 1] = TakeChunk(h[i])
    BY <1>7, <2>2
  <2>4. Stands(TakeChunk(h[i]), B, chunks, at, p)
    BY <1>11, TakeChunkStands
  <2> QED BY <2>1, <2>3, <2>4
<1>12. n \in P
  <2>1. 0..n \subseteq P
    <3> HIDE DEF P
    <3> QED BY <1>1, <1>10, <1>11, CountUp
  <2> QED BY <1>1, <2>1
<1> QED BY <1>4, <1>12

-----------------------------------------------------------------------------
(* The invariant of the connection *)

Unit == [req : Nat, part : {"head", "byte", "text", "final"}, n : Nat, len : Int,
         closes : BOOLEAN]
FileData == [open : BOOLEAN, req : Nat, pos : Nat, size : Nat, cl : Nat, sent : Nat,
             keep : BOOLEAN]
HttpConn == [up : BOOLEAN, recv : Seq(RequestByte), rcvd : Nat, bodyLen : Nat,
             file : FileData, send : Seq(Unit),
             flags : SUBSET {"SEND_AND_CLOSE", "CLOSE_IMMEDIATELY"}]

(* Of the bytes B of a request p have come and the others are on the wire: *)
(* recv has them as they came, or its header, the data of the chunks       *)
(* collapsed so far and what follows these.                                *)
Collapsed(recv, bodyLen, B, chunks, p, at) ==
    \E j \in 0..Len(chunks), body \in Seq(RequestByte) :
       /\ at[j] <= p /\ bodyLen = Len(body)
       /\ recv = (SubSeq(B, 1, 2) \o body) \o SubSeq(B, at[j] + 1, p)

ReceivingAt(p, recv, rcvd, bodyLen, w, B, chunks) ==
    /\ w = SubSeq(B, p + 1, Len(B)) /\ rcvd = p
    /\ chunks = <<>> \/ p < 2 => recv = SubSeq(B, 1, p)
    /\ chunks # <<>> /\ p < 2 => bodyLen = 0
    /\ chunks # <<>> /\ p >= 2 =>
          \E at : Laid(B, chunks, at) /\ Collapsed(recv, bodyLen, B, chunks, p, at)
Receiving(recv, rcvd, bodyLen, w, k, r) ==
    \E p \in 0..Len(RequestBytes(k, r)) :
        ReceivingAt(p, recv, rcvd, bodyLen, w, RequestBytes(k, r), r.chunks)

(* A list o of units is the answer so far to a request for a file: cl      *)
(* bytes are announced, the ones after its first start.                    *)
FileAnswer(k, r, o, start, cl) ==
    /\ o \in Seq(Units(k)) /\ Len(o) >= 1 /\ start \in Nat /\ cl \in Nat
    /\ o[1].part = "head" /\ o[1].len = cl /\ Len(o) <= cl + 1
    /\ \A i \in 2..Len(o) : o[i] = Byte(k, start + (i - 1))
    /\ o[1].n \in {200, 206} =>
          cl = Len(Wanted(r)) /\ \A i \in 1..cl : Wanted(r)[i] = start + i
Sending(f, o, k, r) ==
    /\ f.open /\ f.req = k /\ f.sent <= f.cl /\ f.sent <= f.pos
    /\ Len(o) = 1 + f.sent /\ f.pos - f.sent + f.cl <= f.size
    /\ FileAnswer(k, r, o, f.pos - f.sent, f.cl)
AnswerSoFar(o, k, r) ==
    /\ o \in Seq(Units(k)) /\ Len(o) >= 1 /\ RightSoFar(k, r, o)
    /\ o[1].len < 0 => o[1].closes

(* The connection takes request k in, or has answered it with what has     *)
(* arrived, what is to be sent, and what a file still to go out has.       *)
Waiting(c, w, k, r) ==
    c.send = <<>> /\ c.file = NoFile /\ Receiving(c.recv, c.rcvd, c.bodyLen, w, k, r)
GoesOn(c, a, k, r) ==
    /\ c \in HttpConn /\ c.send \in Seq(Units(k)) /\ a \in Seq(Units(k))
    /\ AnswerSoFar(a \o c.send, k, r)
    /\ c.file # NoFile => Sending(c.file, a \o c.send, k, r) /\ c.file.sent < c.file.cl
Serves(c, w, a, k, r) ==
    \/ c \in HttpConn /\ a = <<>> /\ Waiting(c, w, k, r)
    \/ c.recv = <<>> /\ c.rcvd = 0 /\ w = <<>> /\ GoesOn(c, a, k, r)

StartConn == [up |-> TRUE, recv |-> <<>>, rcvd |-> 0, bodyLen |-> 0,
              file |-> NoFile, send |-> <<>>, flags |-> {}]
HttpTypes ==
    /\ asked \in Seq(RequestKinds) /\ wire \in Seq(RequestByte) /\ conn \in HttpConn
    /\ arrived \in Seq(Unit) /\ client \in {"up", "fin", "gone"}
    /\ \A i \in 1..Len(arrived) : arrived[i].req \in 1..Len(asked)
NothingAsked ==
    asked = <<>> => conn = StartConn /\ wire = <<>> /\ arrived = <<>> /\ client = "up"
LastServed ==
    /\ client = "gone" => wire = <<>>
    /\ conn.up /\ client # "gone" /\ asked # <<>> =>
          Serves(conn, wire, Response(Len(asked)), Len(asked), asked[Len(asked)])
OneChunked == conn.bodyLen > 0 => \E k \in 1..Len(asked) : asked[k].chunks # <<>>
HttpInv == HttpTypes /\ NothingAsked /\ LastServed /\ OneChunked /\ AnswersExact

-----------------------------------------------------------------------------
(* What mg_http_handler makes of the bytes that have come.                 *)
LEMMA HeaderFound ==
    ASSUME NEW buf \in Seq(RequestByte), NEW n, n = Len(buf),
           n > 0 => buf[1].part = "head", n > 1 => buf[2].part = "blank"
    PROVE  RequestLen(buf) = IF n > 1 THEN 2 ELSE 0
<1> DEFINE blank == {i \in 1..Len(buf) : buf[i].part = "blank"}
<1>1. n \in Nat /\ blank \in SUBSET Int
  OBVIOUS
<1>2. CASE n > 1
  <2>1. 2 \in blank
    BY <1>1, <1>2
  <2>2. \A i \in blank : 2 <= i
    <3> SUFFICES ASSUME NEW i \in blank PROVE 2 <= i
      OBVIOUS
    <3>1. i \in 1..n /\ buf[i].part = "blank"
      OBVIOUS
    <3>2. i # 1
      BY <1>2, <3>1
    <3> QED BY <1>1, <3>1, <3>2
  <2>3. RequestLen(buf) = IF blank = {} THEN 0 ELSE Min(blank)
    BY DEF RequestLen
  <2> HIDE DEF blank
  <2>4. Min(blank) = 2
    BY <1>1, <2>1, <2>2, LeastIsMin
  <2> QED BY <1>2, <2>1, <2>3, <2>4
<1>3. CASE ~(n > 1)
  <2>1. blank = {}
    <3> SUFFICES ASSUME NEW i \in blank PROVE FALSE
      OBVIOUS
    <3>1. i \in 1..n /\ buf[i].part = "blank"
      OBVIOUS
    <3>2. i = 1 /\ n > 0
      BY <1>1, <1>3, <3>1
    <3> QED BY <3>1, <3>2
  <2> QED BY <1>3, <2>1 DEF RequestLen
<1> QED BY <1>2, <1>3

(* Bytes of a request, of which q have come.                               *)
LEMMA ComeSoFar ==
    ASSUME NEW B \in Seq(RequestByte), NEW k \in Nat, NEW r, IsRequest(B, k, r),
           NEW q \in 0..Len(B)
    PROVE  /\ SubSeq(B, 1, q) \in Seq(RequestByte) /\ Len(SubSeq(B, 1, q)) = q
           /\ q > 0 => SubSeq(B, 1, q)[1] = Part(k, "head", 0)
           /\ q > 1 => SubSeq(B, 1, q)[2] = Part(k, "blank", 0)
<1> DEFINE x == SubSeq(B, 0 + 1, q)
<1>1. 0 \in 0..Len(B) /\ q \in 0..Len(B) /\ q - 0 = q /\ q \in Nat
  OBVIOUS
<1>2. x \in Seq(RequestByte) /\ Len(x) = q - 0 /\ \A i \in 1..q - 0 : x[i] = B[0 + i]
  BY <1>1, PartFacts
<1> HIDE DEF x
<1>3. B[1] = Part(k, "head", 0) /\ B[2] = Part(k, "blank", 0)
  BY DEF IsRequest
<1>4. q > 0 => x[1] = B[1]
  BY <1>1, <1>2
<1>5. q > 1 => x[2] = B[2]
  BY <1>1, <1>2
<1>6. x = SubSeq(B, 1, q)
  BY DEF x
<1> QED BY <1>1, <1>2, <1>3, <1>4, <1>5, <1>6

(* The bytes that follow, taken together with those that have come.        *)
LEMMA MoreOfTheSame ==
    ASSUME NEW S, NEW B \in Seq(S), NEW a \in Nat, NEW p \in Nat, NEW q \in Nat,
           a <= p, p <= q, q <= Len(B)
    PROVE  SubSeq(B, a + 1, p) \o SubSeq(B, p + 1, q) = SubSeq(B, a + 1, q)
<1> DEFINE x == SubSeq(B, a + 1, q)
<1>1. x \in Seq(S) /\ Len(x) = q - a
  BY CutBehind
<1>2. SubSeq(x, (p - a) + 1, q - a) = SubSeq(B, p + 1, q)
  <2>1. p - a \in 0..q - a /\ a + (p - a) + 1 = p + 1
    OBVIOUS
  <2>2. \A n \in 0..q - a : SubSeq(x, n + 1, q - a) = SubSeq(B, a + n + 1, q)
    BY CutBehind
  <2> HIDE DEF x
  <2> QED BY <2>1, <2>2
<1>3. SubSeq(x, 1, p - a) = SubSeq(B, a + 1, p)
  <2> DEFINE y == SubSeq(x, 0 + 1, p - a)
             z == SubSeq(B, a + 1, p)
  <2>1. 0 \in 0..Len(x) /\ p - a \in 0..Len(x) /\ (p - a) - 0 = p - a /\ p - a \in Nat
    BY <1>1
  <2>2. a \in 0..Len(B) /\ p \in a..Len(B) /\ q \in a..Len(B)
    OBVIOUS
  <2>3. z \in Seq(S) /\ Len(z) = p - a /\ \A i \in 1..p - a : z[i] = B[a + i]
    BY <2>2, PartFacts
  <2>4. \A i \in 1..q - a : x[i] = B[a + i]
    BY <2>2, PartFacts
  <2> HIDE DEF x
  <2>5. y \in Seq(S) /\ Len(y) = (p - a) - 0 /\ \A i \in 1..(p - a) - 0 : y[i] = x[0 + i]
    BY <1>1, <2>1, PartFacts
  <2>6. y = SubSeq(x, 1, p - a)
    OBVIOUS
  <2> HIDE DEF y, z
  <2>7. ASSUME NEW i \in 1..Len(y) PROVE y[i] = z[i]
    <3>1. i \in 1..p - a /\ i \in 1..q - a /\ 0 + i = i
      BY <2>1, <2>5
    <3> QED BY <2>1, <2>3, <2>4, <2>5, <3>1
  <2>8. y = z
    BY <2>1, <2>3, <2>5, <2>7, SeqEqual
  <2> QED BY <2>6, <2>8 DEF z
<1>4. SubSeq(x, 1, p - a) \o SubSeq(x, (p - a) + 1, q - a) = x
  <2>1. p - a \in 0..Len(x) /\ q - a = Len(x)
    BY <1>1
  <2> HIDE DEF x
  <2> QED BY <1>1, <2>1, PartsRejoin
<1> QED BY <1>2, <1>3, <1>4

LEMMA BytesRegroup ==
    ASSUME NEW x \in Seq(RequestByte), NEW y \in Seq(RequestByte), NEW z \in Seq(RequestByte)
    PROVE  (x \o y) \o z = x \o (y \o z)
BY JoinRegroups

LEMMA MoreCome ==
    ASSUME NEW B \in Seq(RequestByte), NEW k \in Nat, NEW r, r.chunks \in Seq(Nat), IsRequest(B, k, r),
           NEW p \in 0..Len(B), NEW recv, NEW rcvd, NEW bodyLen, NEW w,
           ReceivingAt(p, recv, rcvd, bodyLen, w, B, r.chunks),
           NEW n \in 1..Len(w)
    PROVE  /\ p + n \in 1..Len(B)
           /\ ReceivingAt(p + n, recv \o SubSeq(w, 1, n), p + n, bodyLen,
                          SubSeq(w, n + 1, Len(w)), B, r.chunks)
<1> DEFINE q == p + n
           buf == recv \o SubSeq(w, 1, n)
           l == Len(B)
<1>1. w = SubSeq(B, p + 1, l) /\ l \in Nat /\ p \in Nat /\ p <= l
  BY DEF ReceivingAt
<1>2. /\ w \in Seq(RequestByte) /\ Len(w) = l - p
      /\ \A h \in 0..l - p : SubSeq(w, h + 1, l - p) = SubSeq(B, p + h + 1, l)
  <2>1. l = Len(B) /\ l <= Len(B) /\ p \in Nat /\ l \in Nat /\ p <= l
    BY <1>1
  <2> HIDE DEF l
  <2>2. /\ SubSeq(B, p + 1, l) \in Seq(RequestByte) /\ Len(SubSeq(B, p + 1, l)) = l - p
        /\ \A h \in 0..l - p : SubSeq(SubSeq(B, p + 1, l), h + 1, l - p) = SubSeq(B, p + h + 1, l)
    BY ONLY <2>1, CutBehind, B \in Seq(RequestByte)
  <2> QED BY <1>1, <2>2
<1>3. q \in 1..l /\ q \in Nat /\ n \in 0..l - p /\ p <= q /\ q <= l /\ n \in Nat
  BY <1>1, <1>2
<1>4. SubSeq(w, n + 1, Len(w)) = SubSeq(B, q + 1, l)
  BY <1>2, <1>3
<1>5. SubSeq(w, 1, n) = SubSeq(B, p + 1, q)
  <2> DEFINE x == SubSeq(w, 0 + 1, n)
             y == SubSeq(B, p + 1, q)
  <2>1. p \in 0..Len(B) /\ l \in p..Len(B) /\ q \in p..Len(B) /\ q - p = n
    BY <1>1, <1>3
  <2>2. y \in Seq(RequestByte) /\ Len(y) = n /\ \A i \in 1..n : y[i] = B[p + i]
    <3>1. /\ y \in Seq(RequestByte) /\ Len(y) = q - p
          /\ \A i \in 1..q - p : y[i] = B[p + i]
      BY <2>1, PartFacts
    <3> HIDE DEF y, q
    <3> QED BY <2>1, <3>1
  <2>3. \A i \in 1..l - p : w[i] = B[p + i]
    BY <1>1, <2>1, PartFacts
  <2>4. 0 \in 0..Len(w) /\ n \in 0..Len(w) /\ n - 0 = n
    BY <1>2, <1>3
  <2>5. x \in Seq(RequestByte) /\ Len(x) = n - 0 /\ \A i \in 1..n - 0 : x[i] = w[0 + i]
    BY <1>2, <2>4, PartFacts
  <2> HIDE DEF x, y
  <2>6. ASSUME NEW i \in 1..Len(x) PROVE x[i] = y[i]
    <3>1. i \in 1..n /\ i \in 1..l - p /\ 0 + i = i
      BY <1>3, <2>4, <2>5
    <3> QED BY <2>2, <2>3, <2>4, <2>5, <3>1
  <2>7. x = y
    BY <2>2, <2>4, <2>5, <2>6, SeqEqual
  <2> QED BY <2>7 DEF x, y
<1> HIDE DEF q, l
<1>6. ASSUME r.chunks = <<>> \/ p < 2
      PROVE  buf = SubSeq(B, 1, q)
  <2>1. recv = SubSeq(B, 0 + 1, p)
    BY <1>6 DEF ReceivingAt
  <2>2. 0 \in Nat /\ 0 <= p
    BY <1>1
  <2>3. SubSeq(B, 0 + 1, p) \o SubSeq(B, p + 1, q) = SubSeq(B, 0 + 1, q)
    BY SMTT(40), <1>1, <1>3, <2>2, MoreOfTheSame DEF l
  <2>4. 0 + 1 = 1
    OBVIOUS
  <2> QED BY <1>5, <2>1, <2>3, <2>4
<1>7. r.chunks = <<>> \/ q < 2 => buf = SubSeq(B, 1, q)
  BY SMTT(40), <1>1, <1>3, <1>6
<1>8. r.chunks # <<>> /\ q < 2 => bodyLen = 0
  BY <1>1, <1>3 DEF ReceivingAt
<1>9. ASSUME r.chunks # <<>>, q >= 2
      PROVE  \E at : Laid(B, r.chunks, at) /\ Collapsed(buf, bodyLen, B, r.chunks, q, at)
  <2> DEFINE chunks == r.chunks
             two == SubSeq(B, 1, 2)
  <2>1. two \in Seq(RequestByte)
    <3>1. 2 \in 0..Len(B)
      BY <1>3, <1>9 DEF l
    <3> QED BY <3>1, ComeSoFar
  <2>2. CASE p < 2
    <3>1. PICK at : Laid(B, chunks, at)
      BY <1>9 DEF IsRequest
    <3>2. at[0] = 2 /\ 0 \in 0..Len(chunks)
      BY <3>1 DEF Laid
    <3>3. bodyLen = 0 /\ buf = SubSeq(B, 1, q)
      BY <1>6, <1>9, <2>2 DEF ReceivingAt
    <3>4. (two \o <<>>) \o SubSeq(B, 3, q) = SubSeq(B, 1, q)
      <4>1. 0 \in Nat /\ 2 \in Nat /\ 0 <= 2 /\ 2 <= q
        BY <1>9
      <4>2. SubSeq(B, 0 + 1, 2) \o SubSeq(B, 2 + 1, q) = SubSeq(B, 0 + 1, q)
        BY <1>3, <4>1, MoreOfTheSame DEF l
      <4>3. two \o <<>> = two
        BY <2>1, ConcatEmptySeq
      <4>4. 0 + 1 = 1 /\ 2 + 1 = 3
        OBVIOUS
      <4> QED BY <4>2, <4>3, <4>4
    <3>5. Collapsed(buf, bodyLen, B, chunks, q, at)
      <4>1. <<>> \in Seq(RequestByte) /\ Len(<<>>) = 0
        OBVIOUS
      <4>2. at[0] <= q /\ buf = (two \o <<>>) \o SubSeq(B, at[0] + 1, q)
        <5>1. 2 + 1 = 3 /\ 2 <= q
          BY <1>9
        <5> QED BY <3>2, <3>3, <3>4, <5>1
      <4> QED BY <3>2, <3>3, <4>1, <4>2 DEF Collapsed
    <3> QED BY <3>1, <3>5
  <2>3. CASE p >= 2
    <3>1. PICK at : Laid(B, chunks, at) /\ Collapsed(recv, bodyLen, B, chunks, p, at)
      BY <1>9, <2>3 DEF ReceivingAt
    <3>2. PICK j \in 0..Len(chunks), body \in Seq(RequestByte) :
             /\ at[j] <= p /\ bodyLen = Len(body)
             /\ recv = (two \o body) \o SubSeq(B, at[j] + 1, p)
      BY <3>1 DEF Collapsed
    <3> DEFINE a == at[j]
               x == two \o body
               y == SubSeq(B, a + 1, p)
               z == SubSeq(B, p + 1, q)
    <3>3. a \in Nat
      <4>1. at \in [0..Len(chunks) -> Nat]
        BY <3>1 DEF Laid
      <4> QED BY <3>2, <4>1
    <3>4. a <= p /\ recv = x \o y /\ x \in Seq(RequestByte)
      BY <2>1, <3>2
    <3> HIDE DEF a, x
    <3>5. y \in Seq(RequestByte) /\ z \in Seq(RequestByte) /\ y \o z = SubSeq(B, a + 1, q)
      <4>1. y \in Seq(RequestByte)
        BY <1>1, <3>3, <3>4, CutBehind DEF l
      <4>2. z \in Seq(RequestByte)
        BY <1>1, <1>3, CutBehind DEF l
      <4>3. y \o z = SubSeq(B, a + 1, q)
        <5>1. a \in Nat /\ p \in Nat /\ q \in Nat /\ a <= p /\ p <= q /\ q <= Len(B)
          BY <1>1, <1>3, <3>3, <3>4 DEF l
        <5> QED BY ONLY <5>1, B \in Seq(RequestByte), MoreOfTheSame
      <4> QED BY <4>1, <4>2, <4>3
    <3> HIDE DEF y, z
    <3>6. buf = (x \o y) \o z
      BY <1>5, <3>4 DEF z
    <3>7. (x \o y) \o z = x \o (y \o z)
      <4>1. x \in Seq(RequestByte) /\ y \in Seq(RequestByte) /\ z \in Seq(RequestByte)
        BY <3>4, <3>5
      <4> QED BY ONLY ZenonT(60), <4>1, BytesRegroup
    <3>8. buf = x \o SubSeq(B, a + 1, q)
      BY <3>5, <3>6, <3>7
    <3>9. a <= q
      BY <1>1, <1>3, <3>3, <3>4
    <3>10. Collapsed(buf, bodyLen, B, chunks, q, at)
      BY <3>2, <3>8, <3>9 DEF Collapsed, a, x
    <3> QED BY <3>1, <3>10
  <2> QED BY <1>1, <2>2, <2>3
<1>10. ReceivingAt(q, buf, q, bodyLen, SubSeq(w, n + 1, Len(w)), B, r.chunks)
  BY <1>4, <1>7, <1>8, <1>9 DEF ReceivingAt, l
<1> QED BY <1>3, <1>10 DEF q, l

(* A request as it is asked for.                                           *)
LEMMA RequestFacts ==
    ASSUME NEW r \in RequestKinds
    PROVE  /\ r \in Request /\ r.chunks \in Seq(Nat) /\ r.body \in Nat /\ r.size \in Nat
           /\ r.chunks # <<>> => r.method \in {"POST", "PUT"} /\ r.body = 0 /\ Ends(r.chunks)
           /\ r.range \in [from : Nat, to : Nat \cup {-1}] \cup {NoRange}
           /\ r.keep \in BOOLEAN
<1>1. r \in Request
  BY RequestsAssumption
<1>2. r.chunks # <<>> =>
          /\ r.method \in {"POST", "PUT"} /\ r.body = 0
          /\ \A i \in 1 .. Len(r.chunks) : r.chunks[i] = 0 <=> i = Len(r.chunks)
  BY RequestsAssumption
<1> QED BY <1>1, <1>2 DEF Request, Ends, ToEnd

(* The header is found as soon as both its pieces have come.               *)
Come(q, recv, bodyLen, w, B, k, r) ==
    /\ B \in Seq(RequestByte) /\ k \in Nat /\ r.chunks \in Seq(Nat) /\ IsRequest(B, k, r)
    /\ q \in 1..Len(B) /\ ReceivingAt(q, recv, q, bodyLen, w, B, r.chunks)

LEMMA HeaderOf ==
    ASSUME NEW B, NEW k, NEW r, NEW q, NEW recv, NEW bodyLen, NEW w,
           Come(q, recv, bodyLen, w, B, k, r)
    PROVE  /\ recv \in Seq(RequestByte) /\ recv # <<>> /\ recv[1].req = k
           /\ RequestLen(recv) = IF q > 1 THEN 2 ELSE 0
<1> USE DEF Come
<1>1. q \in Nat /\ q >= 1 /\ q \in 0..Len(B)
  OBVIOUS
<1>2. /\ Part(k, "head", 0).part = "head" /\ Part(k, "blank", 0).part = "blank"
      /\ Part(k, "head", 0).req = k
  BY DEF Part
<1>3. CASE r.chunks = <<>> \/ q < 2
  <2>1. recv = SubSeq(B, 1, q)
    BY <1>3 DEF ReceivingAt
  <2>2. /\ recv \in Seq(RequestByte) /\ Len(recv) = q /\ recv[1] = Part(k, "head", 0)
        /\ q > 1 => recv[2] = Part(k, "blank", 0)
    <3>1. /\ SubSeq(B, 1, q) \in Seq(RequestByte) /\ Len(SubSeq(B, 1, q)) = q
          /\ q > 0 => SubSeq(B, 1, q)[1] = Part(k, "head", 0)
          /\ q > 1 => SubSeq(B, 1, q)[2] = Part(k, "blank", 0)
      BY <1>1, ComeSoFar
    <3> QED BY <1>1, <2>1, <3>1
  <2>3. RequestLen(recv) = IF q > 1 THEN 2 ELSE 0
    BY <1>2, <2>2, HeaderFound
  <2>4. recv # <<>>
    BY <1>1, <2>2
  <2> QED BY <1>2, <2>2, <2>3, <2>4
<1>4. CASE r.chunks # <<>> /\ q >= 2
  <2>1. PICK at : Laid(B, r.chunks, at) /\ Collapsed(recv, bodyLen, B, r.chunks, q, at)
    BY <1>4 DEF ReceivingAt
  <2>2. PICK j \in 0..Len(r.chunks), body \in Seq(RequestByte) :
           at[j] <= q /\ recv = (SubSeq(B, 1, 2) \o body) \o SubSeq(B, at[j] + 1, q)
    BY <2>1 DEF Collapsed
  <2> DEFINE two == SubSeq(B, 1, 2)
             a == at[j]
             rest == SubSeq(B, a + 1, q)
             front == two \o body
  <2>3. a \in Nat /\ a <= q /\ q <= Len(B)
    <3>1. at \in [0..Len(r.chunks) -> Nat]
      BY <2>1 DEF Laid
    <3> QED BY SMTT(40), <1>1, <2>2, <3>1
  <2> HIDE DEF a
  <2>4. rest \in Seq(RequestByte)
    BY <1>1, <2>3, CutBehind
  <2>5. /\ two \in Seq(RequestByte) /\ Len(two) = 2
        /\ two[1] = Part(k, "head", 0) /\ two[2] = Part(k, "blank", 0)
    <3>1. 2 \in 0..Len(B) /\ 2 > 0 /\ 2 > 1
      BY <1>1, <1>4
    <3> QED BY <3>1, ComeSoFar
  <2>6. recv = front \o rest
    BY <2>2 DEF a
  <2> HIDE DEF two, rest
  <2>7. JoinedAs(RequestByte, two, body, front)
    BY <2>5, Joining
  <2> HIDE DEF front
  <2>8. /\ front \in Seq(RequestByte) /\ Len(front) \in Nat /\ Len(front) >= 2
        /\ front[1] = two[1] /\ front[2] = two[2]
    BY <2>5, <2>7 DEF JoinedAs
  <2>9. JoinedAs(RequestByte, front, rest, recv)
    BY <2>4, <2>6, <2>8, Joining
  <2>10. /\ recv \in Seq(RequestByte) /\ Len(recv) \in Nat /\ Len(recv) > 1
         /\ recv[1] = two[1] /\ recv[2] = two[2]
    BY <2>4, <2>8, <2>9 DEF JoinedAs
  <2>11. RequestLen(recv) = 2
    <3> DEFINE l == Len(recv)
    <3>1. l = Len(recv) /\ (l > 0 => recv[1].part = "head") /\ (l > 1 => recv[2].part = "blank")
      BY <1>2, <2>5, <2>10
    <3>2. RequestLen(recv) = IF l > 1 THEN 2 ELSE 0
      BY <2>10, <3>1, HeaderFound
    <3> QED BY <2>10, <3>2
  <2>12. recv # <<>>
    BY <2>10
  <2> QED BY <1>2, <1>4, <2>5, <2>10, <2>11, <2>12
<1> QED BY <1>1, <1>3, <1>4

(* What MG_EV_RECV leaves: the request is waited for, or it is handled     *)
(* when all of it is in recv.                                              *)
Idle(c) == c \in HttpConn /\ c.send = <<>> /\ c.file = NoFile
Handles(d, c, w, k) ==
    /\ w = <<>>
    /\ d = [HandleRequest(c, k) EXCEPT !.recv = SubSeq(@, Len(c.recv) + 1, Len(@)), !.rcvd = 0]
Took(d, c, w, k, r) ==
    /\ Idle(c)
    /\ ((d = c \/ d = CloseNow(c)) /\ Waiting(c, w, k, r)) \/ Handles(d, c, w, k)

LEMMA WaitsOn ==
    ASSUME NEW k \in Nat, NEW r, NEW q \in 1..Len(RequestBytes(k, r)), NEW w, NEW c, Idle(c),
           c.rcvd = q, ReceivingAt(q, c.recv, q, c.bodyLen, w, RequestBytes(k, r), r.chunks)
    PROVE  Waiting(c, w, k, r)
<1>1. q \in 0..Len(RequestBytes(k, r))
  OBVIOUS
<1>2. Receiving(c.recv, c.rcvd, c.bodyLen, w, k, r)
  BY <1>1 DEF Receiving
<1> QED BY <1>2 DEF Waiting, Idle

LEMMA PlainReceived ==
    ASSUME NEW k \in 1..Len(asked), asked \in Seq(RequestKinds), NEW n \in Nat,
           NEW q \in 1..Len(RequestBytes(k, asked[k])), NEW w, NEW c, Idle(c), c.rcvd + n = q,
           asked[k].chunks = <<>> \/ q = 1,
           ReceivingAt(q, c.recv, q, c.bodyLen, w, RequestBytes(k, asked[k]), asked[k].chunks)
    PROVE  Took(Receive(c, n), [c EXCEPT !.rcvd = q], w, k, asked[k])
<1> DEFINE r == asked[k]
           B == RequestBytes(k, r)
           c1 == [c EXCEPT !.rcvd = q]
           R == Receive(c, n)
<1>1. k \in Nat /\ r \in RequestKinds /\ q \in Nat /\ q >= 1
  OBVIOUS
<1>2. /\ r \in Request /\ r.chunks \in Seq(Nat) /\ r.body \in Nat
      /\ r.chunks # <<>> => r.method \in {"POST", "PUT"} /\ r.body = 0
  BY <1>1, RequestFacts
<1>3. IsRequest(B, k, r)
  BY <1>1, <1>2, BytesOfRequest
<1>4. B \in Seq(RequestByte) /\ Len(B) \in Nat /\ q \in 1..Len(B) /\ q <= Len(B)
  BY <1>3 DEF IsRequest
<1> HIDE DEF B
<1>5. ReceivingAt(q, c.recv, q, c.bodyLen, w, B, r.chunks)
  BY DEF B
<1>6. /\ c.recv \in Seq(RequestByte) /\ c.recv # <<>> /\ c.recv[1].req = k
      /\ RequestLen(c.recv) = IF q > 1 THEN 2 ELSE 0
  <2> DEFINE recv == c.recv
             bodyLen == c.bodyLen
  <2>1. Come(q, recv, bodyLen, w, B, k, r)
    BY <1>1, <1>2, <1>3, <1>4, <1>5 DEF Come
  <2> HIDE DEF recv, bodyLen, r
  <2>2. /\ recv \in Seq(RequestByte) /\ recv # <<>> /\ recv[1].req = k
        /\ RequestLen(recv) = IF q > 1 THEN 2 ELSE 0
    BY ONLY <2>1, HeaderOf
  <2> QED BY <2>2 DEF recv
<1>7. c1 \in HttpConn /\ Idle(c1) /\ c1.recv = c.recv /\ c1.rcvd = q /\ c1.bodyLen = c.bodyLen
  BY <1>1 DEF Idle, HttpConn
<1>8. Rcvd(c, n) = q
  BY DEF Rcvd
<1> HIDE DEF c1
<1>9. Waiting(c1, w, k, r)
  BY <1>1, <1>4, <1>5, <1>7, WaitsOn DEF B
<1>10. ASSUME q = 1 PROVE Took(R, c1, w, k, r)
  <2>1. R = CloseNow(c1) \/ R = c1
    <3>1. RequestLen(c.recv) = 0
      BY <1>6, <1>10
    <3> QED BY <1>8, <3>1 DEF Receive, c1
  <2> QED BY <1>7, <1>9, <2>1 DEF Took
<1>11. ASSUME q # 1 PROVE Took(R, c1, w, k, r)
  <2> DEFINE message == MessageLen(r, 2)
  <2>1. q > 1 /\ r.chunks = <<>>
    BY <1>1, <1>11
  <2>2. RequestLen(c.recv) = 2
    BY <1>6, <2>1
  <2>3. R = IF message = Unknown \/ message > c1.rcvd THEN c1
            ELSE [HandleRequest(c1, k) EXCEPT !.recv = SubSeq(@, message + 1, Len(@)), !.rcvd = 0]
    BY <1>6, <1>8, <2>1, <2>2 DEF Receive, c1
  <2>4. Len(B) = 2 + r.body
    BY <1>3, <2>1 DEF IsRequest
  <2>5. message = Unknown \/ message = 2 + r.body
    BY <1>2 DEF MessageLen
  <2> HIDE DEF message
  <2>6. CASE message = Unknown \/ message > c1.rcvd
    BY <1>7, <1>9, <2>3, <2>6 DEF Took
  <2>7. CASE ~(message = Unknown \/ message > c1.rcvd)
    <3>1. message = q /\ q = Len(B)
      BY <1>2, <1>4, <1>7, <2>4, <2>5, <2>7
    <3>2. c.recv = SubSeq(B, 1, q) /\ w = SubSeq(B, q + 1, Len(B))
      BY <1>5, <2>1 DEF ReceivingAt
    <3>3. Len(c.recv) = q
      <4>1. q \in 0..Len(B)
        BY <1>4
      <4>2. Len(SubSeq(B, 1, q)) = q
        BY <1>1, <1>3, <1>4, <4>1, ComeSoFar
      <4> QED BY <3>2, <4>2
    <3>4. w = <<>>
      <4>1. Len(w) = q - q /\ w \in Seq(RequestByte)
        <5>1. q \in Nat /\ q <= q /\ q <= Len(B)
          BY <1>1, <3>1
        <5>2. Len(SubSeq(B, q + 1, q)) = q - q /\ SubSeq(B, q + 1, q) \in Seq(RequestByte)
          BY ONLY <5>1, <1>4, CutBehind
        <5> QED BY <3>1, <3>2, <5>2
      <4>2. q - q = 0
        BY <1>1
      <4> QED BY <4>1, <4>2, EmptySeq
    <3>5. Handles(R, c1, w, k)
      BY <1>7, <2>3, <2>7, <3>1, <3>3, <3>4 DEF Handles
    <3> QED BY <1>7, <3>5 DEF Took
  <2> QED BY <2>6, <2>7
<1> QED BY <1>10, <1>11 DEF c1

LEMMA NothingLeft ==
    ASSUME NEW B \in Seq(RequestByte), NEW q, q = Len(B)
    PROVE  SubSeq(B, q + 1, q) = <<>>
<1>1. q \in Nat /\ q <= q /\ q <= Len(B) /\ q - q = 0
  OBVIOUS
<1>2. SubSeq(B, q + 1, q) \in Seq(RequestByte) /\ Len(SubSeq(B, q + 1, q)) = q - q
  BY ONLY <1>1, B \in Seq(RequestByte), CutBehind
<1> QED BY <1>1, <1>2, EmptySeq

(* The body so far and what is behind it, taken apart again.               *)
PutTogether(two, body, rest, buf, b) ==
    /\ two \in Seq(RequestByte) /\ Len(two) = 2 /\ body \in Seq(RequestByte)
    /\ rest \in Seq(RequestByte) /\ buf = (two \o body) \o rest
    /\ b = SubSeq(buf, 3, Len(buf))

LEMMA TakenApart ==
    ASSUME NEW two, NEW body, NEW rest, NEW buf, NEW b, PutTogether(two, body, rest, buf, b)
    PROVE  /\ SubSeq(buf, 1, 2) = two
           /\ SubSeq(b, 1, Len(body)) = body /\ SubSeq(b, Len(body) + 1, Len(b)) = rest
<1> DEFINE y == body \o rest
           n == Len(two) + Len(y)
           l == Len(body)
           m == Len(body) + Len(rest)
<1> USE DEF PutTogether
<1>1. y \in Seq(RequestByte) /\ Len(y) = m
  BY JoinFacts
<1>2. buf = two \o y
  <2>1. /\ two \in Seq(RequestByte) /\ body \in Seq(RequestByte) /\ rest \in Seq(RequestByte)
        /\ buf = (two \o body) \o rest
    OBVIOUS
  <2> QED BY ONLY <2>1, JoinRegroups
<1> HIDE DEF y
<1>3. Len(buf) = n
  <2>1. two \in Seq(RequestByte)
    OBVIOUS
  <2> QED BY ONLY <1>1, <1>2, <2>1, JoinFacts
<1> HIDE DEF n
<1>4. SubSeq(two \o y, 1, 2) = two /\ SubSeq(two \o y, 2 + 1, n) = y
  <2> DEFINE h == Len(two)
  <2>1. n = Len(two) + Len(y) /\ h = Len(two) /\ two \in Seq(RequestByte)
    BY DEF n
  <2> HIDE DEF h
  <2>2. SubSeq(two \o y, 1, h) = two /\ SubSeq(two \o y, h + 1, n) = y
    BY ONLY SMTT(40), <1>1, <2>1, JoinedParts
  <2>3. Len(two) = 2
    OBVIOUS
  <2> QED BY <2>1, <2>2, <2>3
<1>5. SubSeq(buf, 1, 2) = two /\ b = y
  <2>1. 2 + 1 = 3
    OBVIOUS
  <2> QED BY <1>2, <1>3, <1>4, <2>1
<1>6. SubSeq(body \o rest, 1, l) = body /\ SubSeq(body \o rest, l + 1, m) = rest
  <2>1. l = Len(body) /\ m = Len(body) + Len(rest)
    OBVIOUS
  <2> HIDE DEF l, m
  <2> QED BY <2>1, JoinedParts
<1> QED BY <1>1, <1>5, <1>6 DEF y

LEMMA ChunksReceived ==
    ASSUME NEW k \in 1..Len(asked), asked \in Seq(RequestKinds), NEW n \in Nat,
           NEW q \in 1..Len(RequestBytes(k, asked[k])), NEW w, NEW c, Idle(c), c.rcvd + n = q,
           asked[k].chunks # <<>>, q # 1,
           ReceivingAt(q, c.recv, q, c.bodyLen, w, RequestBytes(k, asked[k]), asked[k].chunks)
    PROVE  \E d : Took(Receive(c, n), d, w, k, asked[k])
<1> DEFINE r == asked[k]
           B == RequestBytes(k, r)
           R == Receive(c, n)
<1>1. k \in Nat /\ r \in RequestKinds /\ q \in Nat /\ q >= 2 /\ r.chunks # <<>>
  OBVIOUS
<1>2. /\ r \in Request /\ r.chunks \in Seq(Nat)
      /\ r.method \in {"POST", "PUT"} /\ r.body = 0 /\ Ends(r.chunks)
  BY <1>1, RequestFacts
<1>3. IsRequest(B, k, r)
  BY <1>1, <1>2, BytesOfRequest
<1>4. B \in Seq(RequestByte) /\ Len(B) \in Nat /\ q \in 1..Len(B) /\ q <= Len(B)
  BY <1>3 DEF IsRequest
<1> HIDE DEF B
<1>5. ReceivingAt(q, c.recv, q, c.bodyLen, w, B, r.chunks)
  BY DEF B
<1>6. c.recv[1].req = k /\ RequestLen(c.recv) = 2
  <2> DEFINE recv == c.recv
             bodyLen == c.bodyLen
  <2>1. Come(q, recv, bodyLen, w, B, k, r) /\ q > 1
    BY <1>1, <1>2, <1>3, <1>4, <1>5 DEF Come
  <2> HIDE DEF recv, bodyLen, r
  <2>2. recv[1].req = k /\ RequestLen(recv) = IF q > 1 THEN 2 ELSE 0
    BY ONLY <2>1, HeaderOf
  <2> QED BY <2>1, <2>2 DEF recv
<1>7. PICK at : Laid(B, r.chunks, at) /\ Collapsed(c.recv, c.bodyLen, B, r.chunks, q, at)
  BY <1>1, <1>5 DEF ReceivingAt
<1>8. PICK j \in 0..Len(r.chunks), body \in Seq(RequestByte) :
           /\ at[j] <= q /\ c.bodyLen = Len(body)
           /\ c.recv = (SubSeq(B, 1, 2) \o body) \o SubSeq(B, at[j] + 1, q)
  BY <1>7 DEF Collapsed
<1> DEFINE two == SubSeq(B, 1, 2)
           a == at[j]
           rest == SubSeq(B, a + 1, q)
           b == SubSeq(c.recv, 3, Len(c.recv))
           x == Collapse(SubSeq(b, 1, c.bodyLen), SubSeq(b, c.bodyLen + 1, Len(b)))
           d == [c EXCEPT !.rcvd = q, !.recv = (SubSeq(c.recv, 1, 2) \o x.body) \o x.rest,
                          !.bodyLen = Len(x.body)]
           message == IF x.last THEN Len(d.recv) ELSE MessageLen(r, 2)
<1>9. a \in Nat /\ a <= q /\ q <= Len(B) /\ at[Len(r.chunks)] = Len(B)
  <2>1. at \in [0..Len(r.chunks) -> Nat] /\ at[Len(r.chunks)] = Len(B)
    BY <1>7 DEF Laid
  <2> QED BY <1>4, <1>8, <2>1
<1>10. rest \in Seq(RequestByte)
  <2> HIDE DEF a
  <2> QED BY <1>1, <1>4, <1>9, CutBehind
<1>11. two \in Seq(RequestByte) /\ Len(two) = 2
  <2>1. 2 \in 0..Len(B)
    BY <1>1, <1>4
  <2> QED BY <1>1, <1>3, <1>4, <2>1, ComeSoFar
<1>12. R = IF message = Unknown \/ message > d.rcvd THEN d
           ELSE [HandleRequest(d, k) EXCEPT !.recv = SubSeq(@, message + 1, Len(@)), !.rcvd = 0]
  <2> DEFINE e == [c EXCEPT !.rcvd = Rcvd(c, n)]
             f == [e EXCEPT !.recv = (SubSeq(c.recv, 1, 2) \o x.body) \o x.rest,
                            !.bodyLen = Len(x.body)]
             M == IF x.last THEN Len(f.recv) ELSE MessageLen(r, 2)
  <2>1. 2 + 1 = 3 /\ 2 > 0 /\ 2 # 0
    OBVIOUS
  <2>2. R = IF M = Unknown \/ M > f.rcvd THEN f
            ELSE [HandleRequest(f, k) EXCEPT !.recv = SubSeq(@, M + 1, Len(@)), !.rcvd = 0]
    BY <1>1, <1>6, <2>1 DEF Receive
  <2>3. f = d
    <3>1. Rcvd(c, n) = q
      BY DEF Rcvd
    <3> HIDE DEF x
    <3> QED BY <3>1
  <2> HIDE DEF d, f
  <2> QED BY <2>2, <2>3
<1>13. SubSeq(c.recv, 1, 2) = two /\ x = Collapse(body, rest)
  <2> DEFINE recv == c.recv
  <2>1. recv = (two \o body) \o rest
    BY <1>8
  <2> HIDE DEF recv, two, rest
  <2>2. b = SubSeq(recv, 3, Len(recv))
    BY DEF recv
  <2> HIDE DEF b
  <2>3. /\ SubSeq(recv, 1, 2) = two
        /\ SubSeq(b, 1, Len(body)) = body /\ SubSeq(b, Len(body) + 1, Len(b)) = rest
    <3>1. PutTogether(two, body, rest, recv, b)
      BY <1>8, <1>10, <1>11, <2>1, <2>2 DEF PutTogether
    <3> QED BY ONLY <3>1, TakenApart
  <2> QED BY <1>8, <2>3 DEF recv
<1>14. Stands(x, B, r.chunks, at, q)
  <2> DEFINE chunks == r.chunks
  <2>1. chunks \in Seq(Nat) /\ Ends(chunks) /\ Laid(B, chunks, at) /\ j \in 0..Len(chunks)
    BY <1>2, <1>7, <1>8
  <2>2. rest = SubSeq(B, at[j] + 1, q) /\ at[j] <= q
    BY <1>9
  <2> HIDE DEF chunks, rest, x
  <2>3. Stands(Collapse(body, rest), B, chunks, at, q)
    BY ONLY <1>1, <1>4, <1>8, <2>1, <2>2, CollapseStands
  <2> QED BY <1>13, <2>3 DEF chunks
<1> HIDE DEF x, two, rest, message
<1>15. PICK i \in 0..Len(r.chunks) : StandsAt(x, B, r.chunks, at, q, i)
  BY <1>14 DEF Stands
<1>16. x.body \in Seq(RequestByte) /\ x.rest \in Seq(RequestByte)
  BY <1>14 DEF Stands, Collapsing
<1>17. Idle(d) /\ d.rcvd = q /\ d.recv = (two \o x.body) \o x.rest /\ d.bodyLen = Len(x.body)
  <2>1. (two \o x.body) \o x.rest \in Seq(RequestByte)
    BY <1>11, <1>16
  <2>2. Len(x.body) \in Nat
    BY <1>16
  <2> HIDE DEF r
  <2> QED BY <1>1, <1>13, <2>1, <2>2 DEF Idle, HttpConn
<1> HIDE DEF d
<1>18. Waiting(d, w, k, r)
  <2>1. Collapsed(d.recv, d.bodyLen, B, r.chunks, q, at)
    <3>1. at[i] <= q /\ x.rest = SubSeq(B, at[i] + 1, q)
      BY <1>15 DEF StandsAt
    <3>2. d.recv = (SubSeq(B, 1, 2) \o x.body) \o SubSeq(B, at[i] + 1, q)
      BY <1>17, <3>1 DEF two
    <3> QED BY <1>15, <1>16, <1>17, <3>1, <3>2 DEF Collapsed
  <2>2. ReceivingAt(q, d.recv, q, d.bodyLen, w, B, r.chunks)
    <3>1. w = SubSeq(B, q + 1, Len(B))
      BY <1>5 DEF ReceivingAt
    <3>2. \E h : Laid(B, r.chunks, h) /\ Collapsed(d.recv, d.bodyLen, B, r.chunks, q, h)
      BY <1>7, <2>1
    <3>3. r.chunks # <<>> /\ ~(q < 2)
      BY <1>1
    <3> QED BY <3>1, <3>2, <3>3 DEF ReceivingAt
  <2> QED BY <1>1, <1>4, <1>17, <2>2, WaitsOn DEF B
<1>19. ASSUME message = Unknown \/ message > d.rcvd
       PROVE  Took(R, d, w, k, r)
  BY <1>12, <1>17, <1>18, <1>19 DEF Took
<1>20. ASSUME ~(message = Unknown \/ message > d.rcvd)
       PROVE  Took(R, d, w, k, r)
  <2>1. x.last
    <3>1. MessageLen(r, 2) = Unknown
      BY <1>2 DEF MessageLen
    <3> QED BY <1>20, <3>1 DEF message
  <2>2. i = Len(r.chunks) /\ at[i] <= q
    BY <1>15, <2>1 DEF StandsAt
  <2>3. q = Len(B)
    BY <1>1, <1>4, <1>9, <2>2
  <2>4. w = <<>>
    <3>1. w = SubSeq(B, q + 1, Len(B))
      BY <1>5 DEF ReceivingAt
    <3> QED BY <1>4, <2>3, <3>1, NothingLeft
  <2>5. message = Len(d.recv)
    BY <2>1 DEF message
  <2>6. Handles(R, d, w, k)
    BY <1>12, <1>20, <2>4, <2>5 DEF Handles
  <2> QED BY <1>17, <2>6 DEF Took
<1> QED BY <1>19, <1>20

-----------------------------------------------------------------------------
(* Answers                                                                 *)
LEMMA FileAnswerIsRight ==
    ASSUME NEW k \in Nat, NEW r, NEW o, NEW start, NEW cl, FileAnswer(k, r, o, start, cl)
    PROVE  AnswerSoFar(o, k, r)
<1>1. /\ o \in Seq(Units(k)) /\ Len(o) >= 1 /\ Len(o) \in Nat /\ start \in Nat /\ cl \in Nat
      /\ o[1].part = "head" /\ o[1].len = cl /\ Len(o) <= cl + 1
  BY DEF FileAnswer
<1>2. \A i \in 2..Len(o) : o[i] = Byte(k, start + (i - 1))
  BY DEF FileAnswer
<1>3. \A i \in 2..Len(o) : o[i].part # "head"
  <2> SUFFICES ASSUME NEW i \in 2..Len(o) PROVE o[i].part # "head"
    OBVIOUS
  <2>1. o[i] = Byte(k, start + (i - 1))
    BY <1>2
  <2> QED BY <2>1 DEF Byte
<1>4. ASSUME o[1].n \in {200, 206}
      PROVE  /\ o[1].len = Len(Wanted(r))
             /\ \A i \in 2..Len(o) : o[i] = Byte(k, Wanted(r)[i - 1])
  <2>1. cl = Len(Wanted(r)) /\ \A i \in 1..cl : Wanted(r)[i] = start + i
    BY <1>4 DEF FileAnswer
  <2> SUFFICES ASSUME NEW i \in 2..Len(o) PROVE o[i] = Byte(k, Wanted(r)[i - 1])
    BY <1>1, <2>1
  <2>2. i - 1 \in 1..cl
    BY <1>1
  <2>3. Wanted(r)[i - 1] = start + (i - 1)
    BY <2>1, <2>2
  <2> QED BY <1>2, <2>3
<1>5. RightSoFar(k, r, o)
  BY <1>1, <1>3, <1>4 DEF RightSoFar
<1> QED BY <1>1, <1>5 DEF AnswerSoFar

(* A piece of the file after what has been sent.                           *)
BytesFrom(k, pos, n) == [i \in 1..n |-> Byte(k, pos + i)]

LEMMA ByteUnits ==
    ASSUME NEW k \in Nat, NEW pos \in Nat, NEW n \in Nat
    PROVE  BytesFrom(k, pos, n) \in Seq(Units(k)) /\ Len(BytesFrom(k, pos, n)) = n
<1>1. \A i \in 1..n : Byte(k, pos + i) \in Units(k)
  BY DEF Byte, Units
<1> QED BY <1>1 DEF BytesFrom

Advanced(f, n) == [f EXCEPT !.pos = @ + n, !.sent = @ + n]

LEMMA PieceSent ==
    ASSUME NEW k \in Nat, NEW r, NEW o, NEW f \in FileData, Sending(f, o, k, r),
           NEW n \in Nat, n <= f.cl - f.sent
    PROVE  /\ Advanced(f, n) \in FileData
           /\ Sending(Advanced(f, n), o \o BytesFrom(k, f.pos, n), k, r)
<1> DEFINE g == Advanced(f, n)
           x == BytesFrom(k, f.pos, n)
           y == o \o x
           start == f.pos - f.sent
<1>1. /\ f.pos \in Nat /\ f.sent \in Nat /\ f.cl \in Nat /\ f.size \in Nat
      /\ f.open /\ f.req = k /\ f.sent <= f.cl /\ f.sent <= f.pos
      /\ Len(o) = 1 + f.sent /\ start + f.cl <= f.size
  BY DEF FileData, Sending
<1>2. FileAnswer(k, r, o, start, f.cl)
  BY DEF Sending
<1>3. /\ g \in FileData /\ g.pos = f.pos + n /\ g.sent = f.sent + n /\ g.cl = f.cl
      /\ g.size = f.size /\ g.open = f.open /\ g.req = f.req
  <2> DEFINE p == f.pos + n
             s == f.sent + n
  <2>1. p \in Nat /\ s \in Nat
    BY SMTT(40), <1>1
  <2> HIDE DEF p, s
  <2>2. /\ [f EXCEPT !.pos = p, !.sent = s] \in FileData
        /\ [f EXCEPT !.pos = p, !.sent = s].pos = p /\ [f EXCEPT !.pos = p, !.sent = s].sent = s
        /\ [f EXCEPT !.pos = p, !.sent = s].cl = f.cl /\ [f EXCEPT !.pos = p, !.sent = s].size = f.size
        /\ [f EXCEPT !.pos = p, !.sent = s].open = f.open
        /\ [f EXCEPT !.pos = p, !.sent = s].req = f.req
    BY <2>1 DEF FileData
  <2> QED BY <2>2 DEF Advanced, p, s
<1> HIDE DEF g
<1>4. start \in Nat /\ g.pos - g.sent = start
  BY SMTT(40), <1>1, <1>3
<1>5. x \in Seq(Units(k)) /\ Len(x) = n
  BY <1>1, ByteUnits
<1>6. \A i \in 1..n : x[i] = Byte(k, f.pos + i)
  BY DEF BytesFrom
<1>7. o \in Seq(Units(k)) /\ Len(o) \in Nat
  BY <1>2 DEF FileAnswer
<1> HIDE DEF x
<1>8. JoinedAs(Units(k), o, x, y)
  BY <1>5, <1>7, Joining
<1> HIDE DEF y
<1>9. /\ y \in Seq(Units(k)) /\ Len(y) = 1 + f.sent + n
      /\ \A i \in 1..Len(o) : y[i] = o[i]
      /\ \A i \in 1..n : y[Len(o) + i] = x[i]
  BY <1>1, <1>5, <1>8 DEF JoinedAs
<1>10. ASSUME NEW i \in 2..Len(y) PROVE y[i] = Byte(k, start + (i - 1))
  <2>1. CASE i <= Len(o)
    <3>1. i \in 1..Len(o) /\ i \in 2..Len(o)
      BY <1>7, <2>1
    <3>2. o[i] = Byte(k, start + (i - 1))
      BY <1>2, <3>1 DEF FileAnswer
    <3> QED BY <1>9, <3>1, <3>2
  <2>2. CASE ~(i <= Len(o))
    <3> DEFINE h == i - Len(o)
    <3> DEFINE l == Len(o)
               p == f.pos
               s == f.sent
    <3>3. p \in Nat /\ s \in Nat /\ l = 1 + s /\ i \in 2..1 + s + n /\ ~(i <= l) /\ h = i - l
          /\ start = p - s
      BY <1>1, <1>9, <2>2
    <3> HIDE DEF l, p, s, h, start
    <3>4. h \in 1..n /\ l + h = i /\ p + h = start + (i - 1)
      BY ONLY <3>3, n \in Nat
    <3>1. h \in 1..n /\ Len(o) + h = i
      BY <3>4 DEF l
    <3>2. f.pos + h = start + (i - 1)
      BY <3>4 DEF p
    <3>5. y[Len(o) + h] = x[h] /\ x[h] = Byte(k, f.pos + h)
      BY <1>6, <1>9, <3>1
    <3> QED BY <3>1, <3>2, <3>5
  <2> QED BY <2>1, <2>2
<1>11. y[1] = o[1] /\ Len(y) >= 1 /\ Len(y) <= f.cl + 1
  <2>1. 1 \in 1..Len(o)
    BY <1>1
  <2> QED BY SMTT(40), <1>1, <1>9, <2>1
<1>12. FileAnswer(k, r, y, start, g.cl)
  BY <1>2, <1>3, <1>4, <1>9, <1>10, <1>11 DEF FileAnswer
<1>13. Sending(g, y, k, r)
  <2>1. g.sent <= g.cl /\ g.sent <= g.pos /\ Len(y) = 1 + g.sent
    <3> DEFINE p == f.pos
               s == f.sent
               cl == f.cl
    <3>1. p \in Nat /\ s \in Nat /\ cl \in Nat /\ s <= cl /\ s <= p /\ n <= cl - s
          /\ g.pos = p + n /\ g.sent = s + n /\ g.cl = cl /\ Len(y) = 1 + s + n
      BY <1>1, <1>3, <1>9
    <3> HIDE DEF p, s, cl
    <3> QED BY ONLY <3>1, n \in Nat
  <2> HIDE DEF start
  <2>2. g.pos - g.sent + g.cl <= g.size
    BY <1>1, <1>3, <1>4
  <2> QED BY <1>1, <1>3, <1>4, <1>12, <2>1, <2>2 DEF Sending
<1> QED BY <1>3, <1>13 DEF g, y, x

(* What the events of a connection leave alone.                            *)
Kept(c, d) == d.recv = c.recv /\ d.rcvd = c.rcvd /\ d.bodyLen = c.bodyLen

LEMMA PieceFits ==
    ASSUME NEW c \in HttpConn, c.file.sent <= c.file.cl,
           c.file.sent <= c.file.pos, c.file.pos - c.file.sent + c.file.cl <= c.file.size
    PROVE  Piece(c) \in Nat /\ Piece(c) <= c.file.cl - c.file.sent
<1> DEFINE w == Window(c)
           s == c.file.sent
           l == c.file.cl
           p == c.file.pos
           z == c.file.size
           a == l - s
           b == z - p
<1>1. s \in Nat /\ l \in Nat /\ p \in Nat /\ z \in Nat /\ s <= l /\ s <= p /\ p - s + l <= z
  BY DEF HttpConn, FileData
<1>2. w \in Nat
  <2> DEFINE h == SendWindow - Len(c.send)
  <2>1. h \in Int
    BY RequestsAssumption DEF HttpConn
  <2>2. w = Max({0, h})
    BY DEF Window
  <2> HIDE DEF h, w
  <2>3. w = IF h >= 0 THEN h ELSE 0
    BY <2>1, <2>2, AtLeastZero
  <2> QED BY <2>1, <2>3
<1>3. Piece(c) = Min({w, a, b})
  BY DEF Piece
<1> HIDE DEF w, s, l, p, z
<1>4. a \in Nat /\ b \in Nat
  BY ONLY <1>1
<1> HIDE DEF a, b
<1>5. Min({w, a, b}) \in {w, a, b} /\ Min({w, a, b}) <= a
  <2>1. w \in Int /\ a \in Int /\ b \in Int
    BY <1>2, <1>4
  <2> QED BY ONLY <2>1, MinOfThree
<1> QED BY <1>2, <1>3, <1>4, <1>5 DEF a, l, s

(* A piece of a file goes out with every event, until the whole of what    *)
(* was announced has: then the file is closed.                             *)
LEMMA TransferMoves ==
    ASSUME NEW k \in Nat, NEW r, NEW c \in HttpConn, c.send \in Seq(Units(k)),
           NEW a \in Seq(Units(k)), Sending(c.file, a \o c.send, k, r)
    PROVE  GoesOn(Transfer(c), a, k, r) /\ Kept(c, Transfer(c))
<1> DEFINE f == c.file
           n == Piece(c)
           x == BytesFrom(k, f.pos, n)
           g == Advanced(f, n)
           y == c.send \o x
           c1 == [c EXCEPT !.send = y, !.file = g]
           c2 == [c1 EXCEPT !.file = NoFile]
<1>1. f \in FileData /\ f.pos \in Nat /\ f.open /\ f.req = k
  BY DEF HttpConn, FileData, Sending
<1>2. n \in Nat /\ n <= f.cl - f.sent
  BY PieceFits DEF Sending
<1>3. x \in Seq(Units(k)) /\ Len(x) = n
  BY <1>1, <1>2, ByteUnits
<1>4. g \in FileData /\ Sending(g, (a \o c.send) \o x, k, r)
  <2> DEFINE o == a \o c.send
  <2>1. Sending(f, o, k, r)
    OBVIOUS
  <2> HIDE DEF f, n, o
  <2>2. Advanced(f, n) \in FileData /\ Sending(Advanced(f, n), o \o BytesFrom(k, f.pos, n), k, r)
    BY ONLY <1>1, <1>2, <2>1, k \in Nat, PieceSent
  <2> QED BY <2>2 DEF o
<1>5. Transfer(c) = IF g.sent < f.cl THEN c1
                    ELSE IF f.keep THEN c2 ELSE SendAndClose(c2)
  <2> DEFINE z == [i \in 1..n |-> Byte(f.req, f.pos + i)]
             e == [Send(c, z) EXCEPT !.file.pos = @ + n, !.file.sent = @ + n]
  <2>1. Transfer(c) = IF ~f.open THEN c ELSE IF e.file.sent < f.cl THEN e
                      ELSE LET h == [e EXCEPT !.file = NoFile]
                           IN IF f.keep THEN h ELSE SendAndClose(h)
    BY DEF Transfer
  <2>2. z = x
    BY <1>1 DEF BytesFrom
  <2>3. e = c1
    <3> HIDE DEF x, n, z
    <3> QED BY <2>2 DEF Send, Advanced, HttpConn, FileData
  <2>4. c1.file.sent = g.sent
    BY DEF HttpConn
  <2> HIDE DEF g, n, x, c1, e
  <2> QED BY <1>1, <2>1, <2>3, <2>4
<1> HIDE DEF n, x, g
<1>6. (a \o c.send) \o x = a \o y /\ y \in Seq(Units(k))
  <2> DEFINE z == c.send
  <2>1. z \in Seq(Units(k)) /\ a \in Seq(Units(k)) /\ x \in Seq(Units(k))
    BY <1>3
  <2> HIDE DEF z
  <2>2. (a \o z) \o x = a \o (z \o x)
    BY ONLY SMTT(40), <2>1, JoinRegroups
  <2> QED BY <2>1, <2>2 DEF z
<1>7. y \in Seq(Unit)
  <2>1. Units(k) \subseteq Unit
    BY DEF Units, Unit
  <2> HIDE DEF y
  <2> QED BY <1>6, <2>1
<1>8. Sending(g, a \o y, k, r) /\ AnswerSoFar(a \o y, k, r)
  <2>1. Sending(g, a \o y, k, r)
    BY <1>4, <1>6
  <2> HIDE DEF y
  <2>2. FileAnswer(k, r, a \o y, g.pos - g.sent, g.cl)
    BY <2>1 DEF Sending
  <2> QED BY <2>1, <2>2, FileAnswerIsRight
<1> HIDE DEF y
<1>9. /\ c1 \in HttpConn /\ c1.send = y /\ c1.file = g /\ Kept(c, c1)
      /\ c2 \in HttpConn /\ c2.send = y /\ c2.file = NoFile /\ Kept(c, c2)
  <2>1. NoFile \in FileData
    BY DEF NoFile, FileData
  <2> HIDE DEF f
  <2> QED BY <1>4, <1>7, <2>1 DEF HttpConn, Kept
<1>10. g.cl = f.cl
  BY <1>1 DEF g, Advanced, FileData
<1> HIDE DEF c1, c2
<1>11. CASE g.sent < f.cl
  <2>1. GoesOn(c1, a, k, r)
    BY <1>6, <1>8, <1>9, <1>10, <1>11 DEF GoesOn
  <2> QED BY <1>5, <1>9, <1>11, <2>1
<1>12. CASE ~(g.sent < f.cl)
  <2>1. GoesOn(c2, a, k, r)
    BY <1>6, <1>8, <1>9 DEF GoesOn
  <2>2. GoesOn(SendAndClose(c2), a, k, r) /\ Kept(c, SendAndClose(c2))
    <3>1. /\ SendAndClose(c2) \in HttpConn /\ SendAndClose(c2).send = c2.send
          /\ SendAndClose(c2).file = c2.file /\ Kept(c2, SendAndClose(c2))
      BY <1>9 DEF HttpConn, SendAndClose, Kept
    <3> QED BY <1>9, <2>1, <3>1 DEF GoesOn, Kept
  <2> QED BY <1>5, <1>9, <1>12, <2>1, <2>2
<1> QED BY <1>11, <1>12

LEMMA NothingToMove ==
    ASSUME NEW c, c.file = NoFile
    PROVE  Transfer(c) = c
BY DEF Transfer, NoFile

LEMMA TransferKeeps ==
    ASSUME NEW k \in Nat, NEW r, NEW c, NEW a, GoesOn(c, a, k, r)
    PROVE  GoesOn(Transfer(c), a, k, r) /\ Kept(c, Transfer(c))
<1>1. CASE c.file = NoFile
  BY <1>1, NothingToMove DEF Kept
<1>2. CASE c.file # NoFile
  <2>1. /\ c \in HttpConn /\ c.send \in Seq(Units(k)) /\ a \in Seq(Units(k))
        /\ Sending(c.file, a \o c.send, k, r)
    BY <1>2 DEF GoesOn
  <2> QED BY <2>1, TransferMoves
<1> QED BY <1>1, <1>2

(* An answer that is not a file, all of it said at once.                   *)
Said(u, k) ==
    /\ u \in Seq(Units(k)) /\ Len(u) >= 1 /\ u[1].part = "head"
    /\ \A i \in 2..Len(u) : u[i].part # "head"
    /\ u[1].len >= 0 => Len(u) <= u[1].len + 1 /\ u[1].n \notin {200, 206}
    /\ u[1].len < 0 => u[1].closes

LEMMA ShortAnswer ==
    ASSUME NEW k \in Nat, NEW r, NEW c, Idle(c), NEW u, Said(u, k)
    PROVE  /\ GoesOn(Send(c, u), <<>>, k, r) /\ Kept(c, Send(c, u))
           /\ GoesOn(SendAndClose(Send(c, u)), <<>>, k, r) /\ Kept(c, SendAndClose(Send(c, u)))
<1> DEFINE d == Send(c, u)
           e == SendAndClose(d)
<1>1. AnswerSoFar(u, k, r)
  BY DEF Said, AnswerSoFar, RightSoFar
<1>2. u \in Seq(Units(k)) /\ u \in Seq(Unit) /\ <<>> \o u = u
  <2>1. Units(k) \subseteq Unit
    BY DEF Units, Unit
  <2>2. u \in Seq(Units(k))
    BY DEF Said
  <2>3. u \in Seq(Unit)
    BY <2>1, <2>2
  <2>4. <<>> \o u = u
    BY <2>2, ConcatEmptySeq
  <2> QED BY <2>2, <2>3, <2>4
<1>3. d \in HttpConn /\ d.send = u /\ d.file = NoFile /\ Kept(c, d)
  <2>1. c \in HttpConn /\ c.send = <<>> /\ c.file = NoFile
    BY DEF Idle
  <2>2. d = [c EXCEPT !.send = u]
    BY <1>2, <2>1 DEF Send
  <2> HIDE DEF d
  <2> QED BY <1>2, <2>1, <2>2 DEF HttpConn, Kept
<1> HIDE DEF d
<1>4. e \in HttpConn /\ e.send = u /\ e.file = NoFile /\ Kept(c, e)
  BY <1>3 DEF SendAndClose, HttpConn, Kept
<1> HIDE DEF e
<1>5. <<>> \in Seq(Units(k))
  OBVIOUS
<1> QED BY <1>1, <1>2, <1>3, <1>4, <1>5 DEF GoesOn, d, e

LEMMA ShortAnswers ==
    ASSUME NEW k \in Nat, NEW status \in Nat
    PROVE  /\ status \notin {200, 206} =>
                /\ Said(<<HeadUnit(k, status, 1, TRUE), Words(k)>>, k)
                /\ Said(<<HeadUnit(k, status, 1, FALSE), Words(k)>>, k)
                /\ Said(<<HeadUnit(k, status, 0, FALSE)>>, k)
           /\ Said(<<HeadUnit(k, status, ToClose, TRUE)>>, k)
           /\ Said(<<HeadUnit(k, status, Chunked, TRUE), Words(k), Final(k)>>, k)
<1>1. /\ \A l \in Int, b \in BOOLEAN :
            /\ HeadUnit(k, status, l, b) \in Units(k) /\ HeadUnit(k, status, l, b).part = "head"
            /\ HeadUnit(k, status, l, b).n = status /\ HeadUnit(k, status, l, b).len = l
            /\ HeadUnit(k, status, l, b).closes = b
      /\ Words(k) \in Units(k) /\ Words(k).part = "text"
      /\ Final(k) \in Units(k) /\ Final(k).part = "final"
  BY DEF HeadUnit, Words, Final, Units
<1>2. ASSUME NEW l \in Int, NEW b \in BOOLEAN, l < 0 => b, l >= 0 => status \notin {200, 206}
      PROVE  /\ Said(<<HeadUnit(k, status, l, b)>>, k)
             /\ l # 0 => Said(<<HeadUnit(k, status, l, b), Words(k)>>, k)
             /\ l < 0 => Said(<<HeadUnit(k, status, l, b), Words(k), Final(k)>>, k)
  <2> DEFINE h == HeadUnit(k, status, l, b)
             t == Words(k)
             f == Final(k)
  <2>1. /\ h \in Units(k) /\ h.part = "head" /\ h.n = status /\ h.len = l /\ h.closes = b
        /\ t \in Units(k) /\ t.part # "head" /\ f \in Units(k) /\ f.part # "head"
    BY <1>1
  <2> HIDE DEF h, t, f
  <2>2. Said(<<h>>, k)
    BY <1>2, <2>1 DEF Said
  <2>3. l # 0 => Said(<<h, t>>, k)
    <3> DEFINE q == <<h, t>>
    <3>1. q \in Seq(Units(k)) /\ Len(q) = 2 /\ q[1] = h /\ q[2] = t
      BY <2>1
    <3> HIDE DEF q
    <3>2. \A i \in 2..Len(q) : q[i].part # "head"
      <4>1. \A i \in 2..Len(q) : i = 2
        BY <3>1
      <4> QED BY <2>1, <3>1, <4>1
    <3>3. l # 0 => (l >= 0 => Len(q) <= l + 1)
      BY <3>1
    <3>4. l # 0 => Said(q, k)
      <4>1. q[1].part = "head" /\ q[1].n = status /\ q[1].len = l /\ q[1].closes = b
        BY <2>1, <3>1
      <4>2. l < 0 => q[1].closes
        BY <1>2, <4>1
      <4>3. l >= 0 => q[1].n \notin {200, 206}
        BY <1>2, <4>1
      <4> QED BY <3>1, <3>2, <3>3, <4>1, <4>2, <4>3 DEF Said
    <3> QED BY <3>4 DEF q
  <2>4. l < 0 => Said(<<h, t, f>>, k)
    <3> DEFINE q == <<h, t, f>>
    <3>1. q \in Seq(Units(k)) /\ Len(q) = 3 /\ q[1] = h /\ q[2] = t /\ q[3] = f
      BY <2>1
    <3> HIDE DEF q
    <3>2. \A i \in 2..Len(q) : q[i].part # "head"
      <4>1. \A i \in 2..Len(q) : i = 2 \/ i = 3
        BY <3>1
      <4> QED BY <2>1, <3>1, <4>1
    <3>3. l < 0 => Said(q, k)
      <4>1. q[1].part = "head" /\ q[1].len = l /\ q[1].closes = b
        BY <2>1, <3>1
      <4>2. l < 0 => q[1].closes /\ ~(l >= 0)
        BY <1>2, <4>1
      <4> QED BY <3>1, <3>2, <4>1, <4>2 DEF Said
    <3> QED BY <3>3 DEF q
  <2> QED BY <2>2, <2>3, <2>4 DEF h, t, f
<1>3. status \notin {200, 206} =>
         /\ Said(<<HeadUnit(k, status, 1, TRUE), Words(k)>>, k)
         /\ Said(<<HeadUnit(k, status, 1, FALSE), Words(k)>>, k)
         /\ Said(<<HeadUnit(k, status, 0, FALSE)>>, k)
  <2>1. 1 \in Int /\ 0 \in Int /\ TRUE \in BOOLEAN /\ FALSE \in BOOLEAN /\ ~(1 < 0) /\ ~(0 < 0) /\ 1 # 0
    OBVIOUS
  <2> QED BY <1>2, <2>1
<1>4. /\ Said(<<HeadUnit(k, status, ToClose, TRUE)>>, k)
      /\ Said(<<HeadUnit(k, status, Chunked, TRUE), Words(k), Final(k)>>, k)
  <2>1. /\ ToClose \in Int /\ ToClose < 0 /\ ~(ToClose >= 0)
        /\ Chunked \in Int /\ Chunked < 0 /\ ~(Chunked >= 0)
    BY DEF ToClose, Chunked
  <2> QED BY <1>2, <2>1
<1> QED BY <1>3, <1>4

Spans(r, first, last) ==
    /\ first \in Nat /\ last \in Nat /\ first >= 1 /\ first <= last + 1
    /\ first = (IF r.range = NoRange THEN 1 ELSE r.range.from + 1)
    /\ last = (IF r.range = NoRange \/ r.range.to = ToEnd THEN r.size ELSE r.range.to + 1)

LEMMA WantedPart ==
    ASSUME NEW r, NEW first, NEW last, Spans(r, first, last)
    PROVE  /\ Len(Wanted(r)) = last - first + 1
           /\ \A i \in 1..last - first + 1 : Wanted(r)[i] = first - 1 + i
<1> DEFINE n == last - first + 1
           m == Max({0, n})
<1> USE DEF Spans
<1>1. n \in Nat
  OBVIOUS
<1>2. m = n
  <2> HIDE DEF n
  <2>1. m = IF n >= 0 THEN n ELSE 0
    BY <1>1, AtLeastZero
  <2> QED BY <1>1, <2>1
<1>3. Wanted(r) = [i \in 1..m |-> first + i - 1]
  BY DEF Wanted
<1> HIDE DEF m
<1>4. \A i \in 1..n : first + i - 1 = first - 1 + i
  BY <1>1
<1> HIDE DEF n
<1>5. Wanted(r) = [i \in 1..n |-> first + i - 1]
  BY <1>2, <1>3
<1>6. Len(Wanted(r)) = n /\ \A i \in 1..n : Wanted(r)[i] = first - 1 + i
  BY <1>1, <1>4, <1>5
<1> QED BY <1>6 DEF n

LEMMA ServeFileGoesOn ==
    ASSUME NEW k \in Nat, asked[k] \in RequestKinds, NEW c, Idle(c)
    PROVE  GoesOn(ServeFile(c, k), <<>>, k, asked[k]) /\ Kept(c, ServeFile(c, k))
<1> DEFINE r == asked[k]
           to == IF r.range.to = ToEnd THEN r.size - 1 ELSE r.range.to
           ranged == r.range # NoRange
           bad == r.range.from > to \/ to >= r.size
           status == IF ~ranged THEN 200 ELSE IF bad THEN 416 ELSE 206
           cl == CASE status = 200 -> r.size
                   [] status = 416 -> 0
                   [] OTHER -> to - r.range.from + 1
           pos == IF status = 206 THEN r.range.from ELSE 0
           f == [c.file EXCEPT !.open = TRUE, !.req = k, !.size = r.size, !.cl = cl,
                               !.pos = pos, !.keep = r.keep]
           h == HeadUnit(k, status, cl, ~r.keep)
           e == [Send(c, <<h>>) EXCEPT !.file = f]
<1>1. /\ r.size \in Nat /\ r.keep \in BOOLEAN
      /\ r.range \in [from : Nat, to : Nat \cup {-1}] \cup {NoRange}
  BY RequestFacts
<1>2. ServeFile(c, k) = Transfer(e)
  BY DEF ServeFile
<1>3. c \in HttpConn /\ c.send = <<>> /\ c.file = NoFile
  BY SMTT(40) DEF Idle
<1>4. /\ cl \in Nat /\ pos \in Nat /\ pos + cl <= r.size /\ status \in Nat
      /\ status \in {200, 206} =>
            cl = Len(Wanted(r)) /\ \A i \in 1..cl : Wanted(r)[i] = pos + i
  <2>1. CASE ~ranged
    <3>1. status = 200 /\ cl = r.size /\ pos = 0
      BY <2>1
    <3>2. /\ r.size + 1 >= 1 /\ 1 <= r.size + 1 /\ r.size - 1 + 1 = r.size
          /\ 1 \in Nat /\ 1 >= 1
      BY <1>1
    <3>3. Len(Wanted(r)) = r.size - 1 + 1 /\ \A i \in 1..r.size - 1 + 1 : Wanted(r)[i] = 1 - 1 + i
      <4> DEFINE z == r.size
      <4>1. z \in Nat /\ 1 <= z + 1 /\ 1 = (IF r.range = NoRange THEN 1 ELSE r.range.from + 1)
            /\ z = (IF r.range = NoRange \/ r.range.to = ToEnd THEN r.size ELSE r.range.to + 1)
        BY <1>1, <2>1
      <4> HIDE DEF z
      <4>2. Len(Wanted(r)) = z - 1 + 1 /\ \A i \in 1..z - 1 + 1 : Wanted(r)[i] = 1 - 1 + i
        <5>1. Spans(r, 1, z)
          BY <3>2, <4>1 DEF Spans
        <5> HIDE DEF r
        <5> QED BY ONLY <5>1, WantedPart
      <4> QED BY <4>2 DEF z
    <3>4. \A i \in 1..r.size : 1 - 1 + i = 0 + i
      BY <1>1
    <3>5. Len(Wanted(r)) = r.size /\ \A i \in 1..r.size : Wanted(r)[i] = 0 + i
      BY <3>2, <3>3, <3>4
    <3> HIDE DEF cl, pos, status
    <3> QED BY <1>1, <3>1, <3>5
  <2>2. CASE ranged /\ bad
    <3>1. status = 416 /\ cl = 0 /\ pos = 0
      BY <2>2
    <3> HIDE DEF cl, pos, status
    <3> QED BY <1>1, <3>1
  <2>3. CASE ranged /\ ~bad
    <3>1. status = 206 /\ cl = to - r.range.from + 1 /\ pos = r.range.from
      BY <2>3
    <3> DEFINE first == r.range.from + 1
               last == IF r.range.to = ToEnd THEN r.size ELSE r.range.to + 1
               from == r.range.from
    <3>2. from \in Nat /\ to \in Int /\ from <= to /\ to < r.size /\ last = to + 1
      <4>1. r.range \in [from : Nat, to : Nat \cup {-1}]
        BY <1>1, <2>3
      <4>2. r.range.from \in Nat /\ r.range.to \in Nat \cup {-1}
        BY <4>1
      <4> QED BY <1>1, <2>3, <4>2 DEF ToEnd
    <3>3. /\ first = (IF r.range = NoRange THEN 1 ELSE r.range.from + 1)
          /\ last = (IF r.range = NoRange \/ r.range.to = ToEnd THEN r.size ELSE r.range.to + 1)
          /\ first = from + 1
      BY <2>3
    <3> HIDE DEF first, last, from, to
    <3>4. first \in Nat /\ last \in Nat /\ first >= 1 /\ first <= last + 1
      BY <3>2, <3>3
    <3>5. Len(Wanted(r)) = last - first + 1 /\ \A i \in 1..last - first + 1 : Wanted(r)[i] = first - 1 + i
      <4>1. Spans(r, first, last)
        BY <3>3, <3>4 DEF Spans
      <4> HIDE DEF r
      <4> QED BY ONLY <4>1, WantedPart
    <3>6. last - first + 1 = to - from + 1 /\ \A i \in 1..to - from + 1 : first - 1 + i = from + i
      BY <3>2, <3>3
    <3>7. Len(Wanted(r)) = to - from + 1 /\ \A i \in 1..to - from + 1 : Wanted(r)[i] = from + i
      BY <3>5, <3>6
    <3>8. to - from + 1 \in Nat /\ from + (to - from + 1) <= r.size
      BY <1>1, <3>2
    <3>9. cl = to - from + 1 /\ pos = from /\ status = 206
      BY <3>1 DEF from
    <3> HIDE DEF cl, pos, status
    <3> QED BY <3>2, <3>7, <3>8, <3>9
  <2> QED BY <2>1, <2>2, <2>3
<1> HIDE DEF cl, pos, status
<1>5. /\ f \in FileData /\ f.open /\ f.req = k /\ f.cl = cl /\ f.pos = pos /\ f.sent = 0
      /\ f.size = r.size /\ f # NoFile
  <2> DEFINE z == r.size
             b == r.keep
             g == [NoFile EXCEPT !.open = TRUE, !.req = k, !.size = z, !.cl = cl, !.pos = pos, !.keep = b]
  <2>1. z \in Nat /\ b \in BOOLEAN
    BY <1>1
  <2>2. f = g
    BY <1>3
  <2> HIDE DEF z, b, r
  <2>3. NoFile \in FileData /\ NoFile.sent = 0 /\ NoFile.open = FALSE
    BY DEF NoFile, FileData
  <2>4. g \in FileData
    BY <1>4, <2>1, <2>3 DEF FileData
  <2>5. /\ g.open = TRUE /\ g.req = k /\ g.cl = cl /\ g.pos = pos /\ g.sent = NoFile.sent
        /\ g.size = z
    BY <2>3 DEF FileData
  <2> HIDE DEF f, g
  <2>6. g # NoFile
    BY <2>3, <2>5
  <2> QED BY <2>2, <2>3, <2>4, <2>5, <2>6 DEF z
<1>6. h \in Units(k) /\ h \in Unit /\ h.part = "head" /\ h.n = status /\ h.len = cl
  BY <1>1, <1>4 DEF HeadUnit, Units, Unit
<1> HIDE DEF f, h
<1>7. e \in HttpConn /\ e.send = <<h>> /\ e.file = f /\ Kept(c, e)
  <2>1. <<>> \o <<h>> = <<h>>
    OBVIOUS
  <2>2. <<h>> \in Seq(Unit)
    BY <1>6
  <2>3. e = [c EXCEPT !.send = <<h>>, !.file = f]
    BY <1>3, <2>1 DEF Send
  <2> HIDE DEF e
  <2> QED BY <1>3, <1>5, <2>2, <2>3 DEF HttpConn, Kept
<1> HIDE DEF e
<1>8. Sending(f, <<h>>, k, r)
  <2>1. pos - 0 = pos /\ <<h>> \in Seq(Units(k)) /\ Len(<<h>>) = 1 /\ <<h>>[1] = h
    BY <1>4, <1>6
  <2>2. FileAnswer(k, r, <<h>>, pos, cl)
    <3> DEFINE o == <<h>>
    <3>1. o \in Seq(Units(k)) /\ Len(o) = 1 /\ o[1] = h
      BY <2>1
    <3> HIDE DEF o
    <3>2. \A i \in 2..Len(o) : FALSE
      BY <3>1
    <3>3. Len(o) <= cl + 1
      BY <1>4, <3>1
    <3>4. FileAnswer(k, r, o, pos, cl)
      BY <1>4, <1>6, <3>1, <3>2, <3>3 DEF FileAnswer
    <3> QED BY <3>4 DEF o
  <2>3. f.pos - f.sent = pos /\ f.pos - f.sent + f.cl <= f.size /\ f.sent <= f.cl /\ f.sent <= f.pos
        /\ Len(<<h>>) = 1 + f.sent
    BY <1>4, <1>5, <2>1
  <2> QED BY <1>5, <2>2, <2>3 DEF Sending
<1>9. /\ <<>> \o e.send = <<h>> /\ <<>> \in Seq(Units(k)) /\ e.send \in Seq(Units(k))
  BY <1>6, <1>7
<1>10. GoesOn(Transfer(e), <<>>, k, r) /\ Kept(e, Transfer(e))
  <2>1. Sending(e.file, <<>> \o e.send, k, r)
    BY <1>7, <1>8, <1>9
  <2> HIDE DEF r
  <2> QED BY <1>7, <1>9, <2>1, TransferMoves
<1> QED BY <1>2, <1>7, <1>10 DEF Kept

LEMMA HandleRequestGoesOn ==
    ASSUME NEW k \in Nat, asked[k] \in RequestKinds, NEW c, Idle(c)
    PROVE  GoesOn(HandleRequest(c, k), <<>>, k, asked[k]) /\ Kept(c, HandleRequest(c, k))
<1> DEFINE Goes(d) == GoesOn(d, <<>>, k, asked[k]) /\ Kept(c, d)
<1>1. ASSUME NEW u, Said(u, k) PROVE Goes(Send(c, u)) /\ Goes(SendAndClose(Send(c, u)))
  BY <1>1, ShortAnswer
<1>2. \A status \in Nat \ {200, 206} :
         /\ Goes(SendError(c, k, status))
         /\ Goes(Send(c, <<HeadUnit(k, status, 1, FALSE), Words(k)>>))
         /\ Goes(Send(c, <<HeadUnit(k, status, 0, FALSE)>>))
  <2> SUFFICES ASSUME NEW status \in Nat \ {200, 206}
               PROVE  /\ Goes(SendError(c, k, status))
                      /\ Goes(Send(c, <<HeadUnit(k, status, 1, FALSE), Words(k)>>))
                      /\ Goes(Send(c, <<HeadUnit(k, status, 0, FALSE)>>))
    OBVIOUS
  <2>1. /\ Said(<<HeadUnit(k, status, 1, TRUE), Words(k)>>, k)
        /\ Said(<<HeadUnit(k, status, 1, FALSE), Words(k)>>, k)
        /\ Said(<<HeadUnit(k, status, 0, FALSE)>>, k)
    BY ShortAnswers
  <2> HIDE DEF Goes
  <2> QED BY <1>1, <2>1 DEF SendError
<1>3. Goes(SendOptions(c, k)) /\ Goes(SendListing(c, k))
  <2>1. 200 \in Nat
    OBVIOUS
  <2>2. /\ Said(<<HeadUnit(k, 200, ToClose, TRUE)>>, k)
        /\ Said(<<HeadUnit(k, 200, Chunked, TRUE), Words(k), Final(k)>>, k)
    BY <2>1, ShortAnswers
  <2> HIDE DEF Goes
  <2> QED BY <1>1, <2>2 DEF SendOptions, SendListing
<1>4. Goes(ServeFile(c, k))
  BY ServeFileGoesOn
<1> HIDE DEF Goes
<1>5. /\ Goes(SendError(c, k, 501)) /\ Goes(SendError(c, k, 404)) /\ Goes(SendError(c, k, 304))
      /\ Goes(SendRedirect(c, k)) /\ Goes(Send(c, <<HeadUnit(k, 301, 0, FALSE)>>))
  <2>1. ASSUME NEW s, s \in Nat \ {200, 206}
        PROVE  /\ Goes(SendError(c, k, s))
               /\ Goes(Send(c, <<HeadUnit(k, s, 1, FALSE), Words(k)>>))
               /\ Goes(Send(c, <<HeadUnit(k, s, 0, FALSE)>>))
    BY <1>2, <2>1
  <2>2. PICK s : s = 501
    OBVIOUS
  <2>3. PICK t : t = 404
    OBVIOUS
  <2>4. PICK u : u = 304
    OBVIOUS
  <2>5. PICK v : v = 301
    OBVIOUS
  <2>6. /\ s \in Nat \ {200, 206} /\ t \in Nat \ {200, 206}
        /\ u \in Nat \ {200, 206} /\ v \in Nat \ {200, 206}
    BY <2>2, <2>3, <2>4, <2>5
  <2>7. /\ Goes(SendError(c, k, s)) /\ Goes(SendError(c, k, t)) /\ Goes(SendError(c, k, u))
        /\ Goes(Send(c, <<HeadUnit(k, v, 1, FALSE), Words(k)>>))
        /\ Goes(Send(c, <<HeadUnit(k, v, 0, FALSE)>>))
    BY <2>1, <2>6
  <2> QED BY <2>2, <2>3, <2>4, <2>5, <2>7 DEF SendRedirect
<1>6. Goes(ServeHttp(c, k))
  BY <1>3, <1>4, <1>5 DEF ServeHttp
<1>7. Goes(HandleRequest(c, k))
  BY <1>5, <1>6 DEF HandleRequest
<1> QED BY <1>7 DEF Goes

LEMMA TookServes ==
    ASSUME NEW k \in Nat, asked[k] \in RequestKinds, NEW d, NEW c, NEW w, Took(d, c, w, k, asked[k])
    PROVE  Serves(d, w, <<>>, k, asked[k]) /\ d.bodyLen = c.bodyLen
<1>1. Idle(c) /\ c \in HttpConn
  BY DEF Took, Idle
<1>2. CASE (d = c \/ d = CloseNow(c)) /\ Waiting(c, w, k, asked[k])
  <2>1. /\ d \in HttpConn /\ d.send = c.send /\ d.file = c.file /\ d.bodyLen = c.bodyLen
        /\ d.recv = c.recv /\ d.rcvd = c.rcvd
    BY <1>1, <1>2 DEF CloseNow, HttpConn
  <2>2. Waiting(d, w, k, asked[k])
    BY <1>2, <2>1 DEF Waiting
  <2> QED BY <2>1, <2>2 DEF Serves
<1>3. CASE Handles(d, c, w, k)
  <2> DEFINE h == HandleRequest(c, k)
             x == c.recv
  <2>1. GoesOn(h, <<>>, k, asked[k]) /\ Kept(c, h)
    BY <1>1, HandleRequestGoesOn
  <2>2. w = <<>> /\ d = [h EXCEPT !.recv = SubSeq(@, Len(x) + 1, Len(@)), !.rcvd = 0]
    BY <1>3 DEF Handles
  <2> HIDE DEF h
  <2>3. h \in HttpConn /\ h.recv = x /\ h.bodyLen = c.bodyLen
    BY <2>1 DEF GoesOn, Kept
  <2>4. x \in Seq(RequestByte)
    BY <1>1 DEF HttpConn
  <2>5. SubSeq(x, Len(x) + 1, Len(x)) = <<>>
    BY <2>4, NothingLeft
  <2>6. d = [h EXCEPT !.recv = <<>>, !.rcvd = 0]
    BY <2>2, <2>3, <2>5
  <2>7. /\ d \in HttpConn /\ d.recv = <<>> /\ d.rcvd = 0 /\ d.send = h.send /\ d.file = h.file
        /\ d.bodyLen = c.bodyLen
    <3>1. <<>> \in Seq(RequestByte) /\ 0 \in Nat
      OBVIOUS
    <3> HIDE DEF x
    <3> QED BY <2>3, <2>6, <3>1 DEF HttpConn
  <2>8. GoesOn(d, <<>>, k, asked[k])
    BY <2>1, <2>7 DEF GoesOn
  <2> QED BY <2>2, <2>7, <2>8 DEF Serves
<1> QED BY <1>2, <1>3 DEF Took

Got(c, e, w, n, k) ==
    /\ asked \in Seq(RequestKinds) /\ k \in 1..Len(asked)
    /\ c \in HttpConn /\ Waiting(c, w, k, asked[k]) /\ n \in 1..Len(w)
    /\ e = [c EXCEPT !.recv = @ \o SubSeq(w, 1, n)]

LEMMA ReceiveServes ==
    ASSUME NEW k, NEW c, NEW w, NEW n, NEW e, Got(c, e, w, n, k)
    PROVE  /\ Serves(Receive(e, n), SubSeq(w, n + 1, Len(w)), <<>>, k, asked[k])
           /\ asked[k].chunks = <<>> => Receive(e, n).bodyLen = c.bodyLen
<1> DEFINE r == asked[k]
           B == RequestBytes(k, r)
           v == SubSeq(w, n + 1, Len(w))
           recv == c.recv
           bodyLen == c.bodyLen
           buf == recv \o SubSeq(w, 1, n)
           R == Receive(e, n)
<1> USE DEF Got
<1>1. k \in Nat /\ r \in RequestKinds
  OBVIOUS
<1>2. r \in Request /\ r.chunks \in Seq(Nat)
  BY <1>1, RequestFacts
<1>3. IsRequest(B, k, r)
  BY <1>1, <1>2, BytesOfRequest
<1>4. B \in Seq(RequestByte)
  BY <1>3 DEF IsRequest
<1>5. c.send = <<>> /\ c.file = NoFile
  BY DEF Waiting
<1>6. PICK p \in 0..Len(B) : ReceivingAt(p, recv, c.rcvd, bodyLen, w, B, r.chunks)
  BY DEF Waiting, Receiving
<1>7. c.rcvd = p /\ p \in Nat /\ w = SubSeq(B, p + 1, Len(B))
  BY <1>4, <1>6 DEF ReceivingAt
<1>8. w \in Seq(RequestByte) /\ Len(w) \in Nat /\ n \in Nat
  <2> DEFINE l == Len(B)
  <2>1. l \in Nat /\ p <= l /\ l <= Len(B)
    BY <1>4, <1>6
  <2>2. w = SubSeq(B, p + 1, l)
    BY <1>7
  <2> HIDE DEF l, B
  <2>3. w \in Seq(RequestByte)
    BY SMTT(40), <1>4, <1>7, <2>1, <2>2, CutBehind
  <2> QED BY <2>3
<1>9. p + n \in 1..Len(B) /\ ReceivingAt(p + n, buf, p + n, bodyLen, v, B, r.chunks)
  <2> HIDE DEF B, r, recv, bodyLen
  <2> QED BY <1>1, <1>2, <1>3, <1>4, <1>6, <1>7, MoreCome
<1> HIDE DEF v
<1>10. Idle(e) /\ e.recv = buf /\ e.rcvd = p /\ e.bodyLen = bodyLen
  <2>1. buf \in Seq(RequestByte)
    <3>1. recv \in Seq(RequestByte)
      BY DEF HttpConn
    <3>2. SubSeq(w, 1, n) \in Seq(RequestByte)
      BY <1>8
    <3> HIDE DEF recv
    <3> QED BY <3>1, <3>2
  <2> HIDE DEF buf
  <2>2. e = [c EXCEPT !.recv = buf]
    BY DEF buf
  <2> QED BY <1>5, <1>7, <2>1, <2>2 DEF Idle, HttpConn
<1> HIDE DEF buf
<1> DEFINE q == p + n
<1>11. q \in 1..Len(B) /\ e.rcvd + n = q /\ ReceivingAt(q, e.recv, q, e.bodyLen, v, B, r.chunks)
  BY <1>9, <1>10
<1> HIDE DEF q
<1>12. ASSUME r.chunks = <<>> \/ q = 1
       PROVE  Serves(R, v, <<>>, k, r) /\ R.bodyLen = bodyLen
  <2> DEFINE g == [e EXCEPT !.rcvd = q]
  <2>1. Took(R, g, v, k, r)
    BY <1>8, <1>10, <1>11, <1>12, PlainReceived
  <2>2. g.bodyLen = bodyLen
    BY <1>10 DEF Idle, HttpConn
  <2> HIDE DEF g, R
  <2>3. Serves(R, v, <<>>, k, r) /\ R.bodyLen = g.bodyLen
    BY <1>1, <2>1, TookServes
  <2> QED BY <2>2, <2>3
<1>13. ASSUME r.chunks # <<>>, q # 1
       PROVE  Serves(R, v, <<>>, k, r)
  <2>1. \E d : Took(R, d, v, k, r)
    BY <1>8, <1>10, <1>11, <1>13, ChunksReceived
  <2>2. PICK d : Took(R, d, v, k, r)
    BY <2>1
  <2> HIDE DEF R
  <2> QED BY <1>1, <2>2, TookServes
<1> QED BY <1>12, <1>13 DEF v

LEMMA PartIsRight ==
    ASSUME NEW k \in Nat, NEW r, NEW y \in Seq(Units(k)), NEW z \in Seq(Units(k)),
           RightSoFar(k, r, y \o z), Len(y) >= 1
    PROVE  RightSoFar(k, r, y)
<1> DEFINE o == y \o z
           l == Len(y)
<1>1. JoinedAs(Units(k), y, z, o)
  BY Joining
<1>2. l \in Nat /\ Len(z) \in Nat
  OBVIOUS
<1>3. RightSoFar(k, r, o)
  OBVIOUS
<1> HIDE DEF o
<1>4. Len(o) = l + Len(z) /\ \A i \in 1..l : o[i] = y[i]
  BY <1>1 DEF JoinedAs
<1>5. y[1] = o[1] /\ \A i \in 2..l : y[i] = o[i] /\ i \in 2..Len(o)
  <2>1. 1 \in 1..l /\ 2..l \subseteq 1..l /\ 2..l \subseteq 2..Len(o)
    BY <1>2, <1>4
  <2> QED BY <1>4, <2>1
<1>6. y[1].part = "head" /\ \A i \in 2..l : y[i].part # "head"
  BY <1>3, <1>5 DEF RightSoFar
<1>7. y[1].len >= 0 => l <= y[1].len + 1
  <2> DEFINE n == o[1].len
  <2>1. o[1] \in Units(k)
    <3>1. 1 \in 1..l
      BY <1>2
    <3>2. y[1] \in Units(k)
      BY <3>1
    <3> QED BY <1>5, <3>2
  <2>2. n \in Int
    BY <2>1 DEF Units
  <2>3. n >= 0 => Len(o) <= n + 1
    BY <1>3 DEF RightSoFar
  <2>4. y[1].len = n
    BY <1>5
  <2> HIDE DEF n, l
  <2>5. n >= 0 => l <= n + 1
    BY <1>2, <1>4, <2>2, <2>3
  <2> QED BY <2>4, <2>5
<1>8. y[1].n \in {200, 206} /\ y[1].len >= 0 =>
         /\ y[1].len = Len(Wanted(r))
         /\ \A i \in 2..l : y[i] = Byte(k, Wanted(r)[i - 1])
  BY <1>3, <1>5 DEF RightSoFar
<1> QED BY <1>6, <1>7, <1>8 DEF RightSoFar

(* What is written to the socket and what stays in the send buffer are     *)
(* still the same answer.                                                  *)
Wrote(c, d, x, m) ==
    /\ m \in Nat /\ m <= Len(c.send) /\ x = SubSeq(c.send, 1, m)
    /\ d = [c EXCEPT !.send = SubSeq(@, m + 1, Len(@))]

LEMMA WriteServes ==
    ASSUME NEW k \in Nat, NEW r, NEW c, NEW w, NEW a, Serves(c, w, a, k, r),
           NEW m, NEW d, NEW x, Wrote(c, d, x, m)
    PROVE  /\ Serves(d, w, a \o x, k, r) /\ Kept(c, d) /\ x \in Seq(Units(k))
           /\ a \in Seq(Units(k)) /\ (a \o x # <<>> => RightSoFar(k, r, a \o x))
<1> USE DEF Wrote
<1>1. CASE c \in HttpConn /\ a = <<>> /\ Waiting(c, w, k, r)
  <2>1. c.send = <<>>
    BY <1>1 DEF Waiting
  <2>2. m = 0
    BY <2>1
  <2>3. x = <<>> /\ SubSeq(c.send, m + 1, Len(c.send)) = <<>>
    BY <2>1, <2>2
  <2>4. d = c
    <3>1. d = [c EXCEPT !.send = <<>>]
      BY <2>3
    <3> QED BY <1>1, <2>1, <3>1 DEF HttpConn
  <2>5. a \o x = <<>> /\ x \in Seq(Units(k)) /\ a \in Seq(Units(k))
    BY <1>1, <2>3
  <2>6. Serves(c, w, <<>>, k, r)
    BY <1>1
  <2> QED BY <2>4, <2>5, <2>6 DEF Kept
<1>2. CASE c.recv = <<>> /\ c.rcvd = 0 /\ w = <<>> /\ GoesOn(c, a, k, r)
  <2> DEFINE s == c.send
             l == Len(s)
             y == SubSeq(s, m + 1, l)
  <2>1. c \in HttpConn /\ s \in Seq(Units(k)) /\ a \in Seq(Units(k))
    BY <1>2 DEF GoesOn
  <2>2. x = SubSeq(s, 1, m) /\ l = Len(s) /\ m \in 0..Len(s)
    BY <2>1
  <2>3. d = [c EXCEPT !.send = y]
    OBVIOUS
  <2> HIDE DEF s, l
  <2>4. x \in Seq(Units(k)) /\ y \in Seq(Units(k)) /\ x \o y = s
    BY <2>1, <2>2, PartsRejoin
  <2> HIDE DEF y
  <2>5. (a \o x) \o y = a \o s
    <3>1. (a \o x) \o y = a \o (x \o y)
      <4>1. a \in Seq(Units(k)) /\ x \in Seq(Units(k)) /\ y \in Seq(Units(k))
        BY <2>1, <2>4
      <4> QED BY ONLY SMTT(40), <4>1, JoinRegroups
    <3> QED BY <2>4, <3>1
  <2>6. y \in Seq(Unit)
    <3>1. Units(k) \subseteq Unit
      BY DEF Units, Unit
    <3> QED BY <2>4, <3>1
  <2>7. d \in HttpConn /\ d.send = y /\ d.file = c.file /\ Kept(c, d)
    BY <2>1, <2>3, <2>6 DEF HttpConn, Kept
  <2>8. a \o x \in Seq(Units(k))
    BY <2>1, <2>4
  <2>9. AnswerSoFar((a \o x) \o d.send, k, r)
    BY <1>2, <2>5, <2>7 DEF GoesOn, s
  <2>10. d.file # NoFile => Sending(d.file, (a \o x) \o d.send, k, r) /\ d.file.sent < d.file.cl
    BY <1>2, <2>5, <2>7 DEF GoesOn, s
  <2>11. GoesOn(d, a \o x, k, r)
    BY <2>4, <2>7, <2>8, <2>9, <2>10 DEF GoesOn
  <2>12. Serves(d, w, a \o x, k, r)
    BY <1>2, <2>7, <2>11 DEF Serves, Kept
  <2>13. a \o x # <<>> => RightSoFar(k, r, a \o x)
    <3> DEFINE z == a \o x
    <3>1. z \in Seq(Units(k)) /\ (z # <<>> => Len(z) >= 1)
      <4>1. z \in Seq(Units(k))
        BY <2>8
      <4> HIDE DEF z
      <4> QED BY <4>1, EmptySeq
    <3>2. RightSoFar(k, r, z \o y)
      BY <2>7, <2>9 DEF AnswerSoFar
    <3> HIDE DEF z
    <3>3. z # <<>> => RightSoFar(k, r, z)
      BY <2>4, <3>1, <3>2, PartIsRight
    <3> QED BY <3>3 DEF z
  <2> QED BY <2>1, <2>4, <2>7, <2>12, <2>13
<1> QED BY <1>1, <1>2 DEF Serves

-----------------------------------------------------------------------------
(* A turn of the connection, step by step.                                 *)
LEMMA TransferServes ==
    ASSUME NEW k \in Nat, NEW r, NEW c, NEW w, NEW a, Serves(c, w, a, k, r)
    PROVE  Serves(Transfer(c), w, a, k, r) /\ Kept(c, Transfer(c))
<1>1. CASE c \in HttpConn /\ a = <<>> /\ Waiting(c, w, k, r)
  <2>1. Transfer(c) = c
    BY <1>1, NothingToMove DEF Waiting
  <2> QED BY <2>1 DEF Kept
<1>2. CASE c.recv = <<>> /\ c.rcvd = 0 /\ w = <<>> /\ GoesOn(c, a, k, r)
  <2>1. GoesOn(Transfer(c), a, k, r) /\ Kept(c, Transfer(c))
    BY <1>2, TransferKeeps
  <2> QED BY <1>2, <2>1 DEF Serves, Kept
<1> QED BY <1>1, <1>2 DEF Serves

LEMMA FlaggedServes ==
    ASSUME NEW k \in Nat, NEW r, NEW c, NEW w, NEW a, Serves(c, w, a, k, r)
    PROVE  Serves(SendAndClose(c), w, a, k, r) /\ Kept(c, SendAndClose(c))
<1> DEFINE d == SendAndClose(c)
<1>1. c \in HttpConn
  BY DEF Serves, GoesOn
<1>2. d \in HttpConn /\ d.send = c.send /\ d.file = c.file /\ Kept(c, d)
  BY <1>1 DEF SendAndClose, HttpConn, Kept
<1> HIDE DEF d
<1>3. CASE a = <<>> /\ Waiting(c, w, k, r)
  BY <1>2, <1>3 DEF Serves, Waiting, Kept, d
<1>4. CASE c.recv = <<>> /\ c.rcvd = 0 /\ w = <<>> /\ GoesOn(c, a, k, r)
  <2>1. GoesOn(d, a, k, r)
    BY <1>2, <1>4 DEF GoesOn
  <2> QED BY <1>2, <1>4, <2>1 DEF Serves, Kept, d
<1> QED BY <1>3, <1>4 DEF Serves

(* What a turn with a client that is there leaves.                         *)
Turned(k, a, x) ==
    /\ x \in Seq(Units(k)) /\ a \in Seq(Units(k))
    /\ arrived' = arrived \o x
    /\ a \o x # <<>> => RightSoFar(k, asked[k], a \o x)
    /\ conn' \in HttpConn
    /\ conn'.up => Serves(conn', wire', a \o x, k, asked[k])
    /\ asked[k].chunks = <<>> => conn'.bodyLen = 0 \/ conn'.bodyLen = conn.bodyLen

(* The connection after the read and MG_EV_RECV.                           *)
AfterRead(c, n) ==
    LET readable == wire # <<>> \/ client # "up"
        c1 == IF readable THEN ReadTcp(conn, n) ELSE conn
        moved == IF n > 0 THEN Transfer(c1) ELSE c1
    IN c = IF n > 0 THEN Receive(moved, n) ELSE moved

MayRead(n) == n \in (IF wire = <<>> THEN {0} ELSE 1..Len(wire))

LEMMA ReadServes ==
    ASSUME asked \in Seq(RequestKinds), NEW k \in 1..Len(asked), NEW a,
           Serves(conn, wire, a, k, asked[k]), client \in {"up", "fin"}, wire \in Seq(RequestByte),
           NEW n, MayRead(n), NEW c, AfterRead(c, n)
    PROVE  /\ Serves(c, SubSeq(wire, n + 1, Len(wire)), a, k, asked[k])
           /\ asked[k].chunks = <<>> => c.bodyLen = conn.bodyLen
<1> DEFINE w == wire
           r == asked[k]
<1> USE DEF MayRead
<1>1. k \in Nat /\ Serves(conn, w, a, k, r)
  OBVIOUS
<1>2. CASE wire = <<>>
  <2>1. n = 0 /\ SubSeq(wire, n + 1, Len(wire)) = wire
    BY <1>2
  <2>2. c = conn \/ c = SendAndClose(conn)
    BY <2>1 DEF AfterRead, ReadTcp
  <2>3. Serves(c, wire, a, k, r) /\ c.bodyLen = conn.bodyLen
    <3> HIDE DEF r
    <3>1. Serves(SendAndClose(conn), wire, a, k, r) /\ Kept(conn, SendAndClose(conn))
      BY <1>1, FlaggedServes
    <3> QED BY <1>1, <2>2, <3>1 DEF Kept
  <2> QED BY <2>1, <2>3
<1>3. CASE wire # <<>>
  <2>1. n \in 1..Len(wire) /\ n > 0
    BY <1>3
  <2>2. a = <<>> /\ conn \in HttpConn /\ Waiting(conn, wire, k, r)
    BY <1>3 DEF Serves
  <2> DEFINE e == [conn EXCEPT !.recv = @ \o SubSeq(wire, 1, n)]
  <2>3. ReadTcp(conn, n) = e
    BY <2>1 DEF ReadTcp
  <2>4. e.file = NoFile
    BY <2>2 DEF Waiting, HttpConn
  <2>5. Transfer(e) = e
    BY <2>4, NothingToMove
  <2>6. c = Receive(e, n)
    BY <1>3, <2>1, <2>3, <2>5 DEF AfterRead
  <2>7. /\ Serves(Receive(e, n), SubSeq(wire, n + 1, Len(wire)), <<>>, k, r)
        /\ r.chunks = <<>> => Receive(e, n).bodyLen = conn.bodyLen
    <3> HIDE DEF e
    <3>1. Got(conn, e, wire, n, k)
      BY <2>1, <2>2 DEF Got, e
    <3>2. /\ Serves(Receive(e, n), SubSeq(wire, n + 1, Len(wire)), <<>>, k, asked[k])
          /\ asked[k].chunks = <<>> => Receive(e, n).bodyLen = conn.bodyLen
      BY ONLY <3>1, ReceiveServes
    <3> QED BY <3>2
  <2> QED BY <2>2, <2>6, <2>7
<1> QED BY <1>2, <1>3

LEMMA TurnServes ==
    ASSUME asked \in Seq(RequestKinds), NEW k \in 1..Len(asked), NEW a,
           Serves(conn, wire, a, k, asked[k]), client \in {"up", "fin"}, wire \in Seq(RequestByte),
           NEW n, MayRead(n), NEW m \in Nat, Turn(n, m)
    PROVE  \E x : Turned(k, a, x)
<1> DEFINE r == asked[k]
           w == SubSeq(wire, n + 1, Len(wire))
           writable == conn.send # <<>> /\ (m > 0 \/ client = "gone")
           Writes(c) == Usable(c) /\ writable
<1>1. PICK c2 :
        /\ AfterRead(c2, n)
        /\ m > 0 => Writes(c2) /\ m <= Len(c2.send) /\ client # "gone"
        /\ \E c3 \in {IF Writes(c2) THEN WriteTcp(c2, m) ELSE c2} :
           \E c4 \in {IF Writes(c2) THEN Transfer(c3) ELSE c3} :
           \E c5 \in {IF Usable(c2) THEN Transfer(c4) ELSE c4} :
              conn' = Sweep(c5)
        /\ arrived' = arrived \o SubSeq(c2.send, 1, m)
  BY DEF Turn, AfterRead
<1>2. wire' = w
  BY DEF Turn
<1>3. k \in Nat /\ Serves(c2, w, a, k, r) /\ (r.chunks = <<>> => c2.bodyLen = conn.bodyLen)
  <2>1. AfterRead(c2, n)
    BY <1>1
  <2>2. Serves(c2, w, a, k, r) /\ (r.chunks = <<>> => c2.bodyLen = conn.bodyLen)
    BY <2>1, ReadServes
  <2> QED BY <2>2
<1> DEFINE s == c2.send
           x == SubSeq(s, 1, m)
           d == [c2 EXCEPT !.send = SubSeq(@, m + 1, Len(@))]
<1>4. c2 \in HttpConn /\ s \in Seq(Unit) /\ Len(s) \in Nat
  <2>1. c2 \in HttpConn
    BY <1>3 DEF Serves, GoesOn
  <2>2. s \in Seq(Unit)
    BY <2>1 DEF HttpConn
  <2> HIDE DEF s
  <2> QED BY <2>1, <2>2
<1>5. m <= Len(s)
  BY <1>1, <1>4
<1>6. /\ Serves(d, w, a \o x, k, r) /\ Kept(c2, d) /\ x \in Seq(Units(k))
      /\ a \in Seq(Units(k)) /\ (a \o x # <<>> => RightSoFar(k, r, a \o x))
  <2>1. Wrote(c2, d, x, m)
    BY <1>5 DEF Wrote
  <2> HIDE DEF d, x, r, w, s
  <2> QED BY <1>3, <2>1, WriteServes
<1> HIDE DEF r, w, Writes
<1> DEFINE c3 == IF Writes(c2) THEN WriteTcp(c2, m) ELSE c2
           c4 == IF Writes(c2) THEN Transfer(c3) ELSE c3
           c5 == IF Usable(c2) THEN Transfer(c4) ELSE c4
<1>7. conn' = Sweep(c5)
  BY <1>1
<1>8. Serves(c3, w, a \o x, k, r) /\ Kept(c2, c3)
  <2>1. CASE Writes(c2)
    <3>1. WriteTcp(c2, m) = d
      BY DEF WriteTcp
    <3> HIDE DEF d
    <3> QED BY <1>6, <2>1, <3>1
  <2>2. CASE ~Writes(c2)
    <3>1. m = 0
      BY <1>1, <2>2
    <3>2. x = <<>>
      BY <1>4, <3>1
    <3> HIDE DEF x
    <3>3. a \o x = a
      BY <1>6, <3>2, ConcatEmptySeq
    <3> QED BY <1>3, <2>2, <3>3 DEF Kept
  <2> QED BY <2>1, <2>2
<1> HIDE DEF c3, x, d
<1>9. Serves(c4, w, a \o x, k, r) /\ Kept(c2, c4)
  <2>1. Serves(Transfer(c3), w, a \o x, k, r) /\ Kept(c3, Transfer(c3))
    BY <1>3, <1>8, TransferServes
  <2> QED BY <1>8, <2>1 DEF Kept
<1> HIDE DEF c4
<1>10. Serves(c5, w, a \o x, k, r) /\ Kept(c2, c5)
  <2>1. Serves(Transfer(c4), w, a \o x, k, r) /\ Kept(c4, Transfer(c4))
    BY <1>3, <1>9, TransferServes
  <2> QED BY <1>9, <2>1 DEF Kept
<1> HIDE DEF c5
<1>11. c5 \in HttpConn
  BY <1>10 DEF Serves, GoesOn
<1>12. /\ Closed(c5) \in HttpConn /\ Closed(c5).up = FALSE /\ Closed(c5).bodyLen = 0
  <2>1. NoFile \in FileData /\ <<>> \in Seq(RequestByte) /\ <<>> \in Seq(Unit) /\ 0 \in Nat
    BY DEF NoFile, FileData
  <2> QED BY <1>11, <2>1 DEF Closed, HttpConn
<1>13. conn' = Closed(c5) \/ conn' = c5
  BY <1>7 DEF Sweep
<1>14. /\ conn' \in HttpConn
       /\ conn'.up => Serves(conn', w, a \o x, k, r)
       /\ r.chunks = <<>> => conn'.bodyLen = 0 \/ conn'.bodyLen = conn.bodyLen
  <2>1. r.chunks = <<>> => c5.bodyLen = conn.bodyLen
    BY <1>3, <1>10 DEF Kept
  <2> QED BY <1>10, <1>11, <1>12, <1>13, <2>1
<1>15. Turned(k, a, x)
  BY <1>1, <1>2, <1>6, <1>14 DEF Turned, x, r
<1> QED BY <1>15

-----------------------------------------------------------------------------
(* The units of a request are in its response, and in no other.            *)
LEMMA ResponseGrows ==
    ASSUME NEW s \in Seq(Unit), NEW k \in Nat, NEW y \in Seq(Units(k))
    PROVE  /\ Sublist(s \o y, Units(k)) = Sublist(s, Units(k)) \o y
           /\ \A j : j # k => Sublist(s \o y, Units(j)) = Sublist(s, Units(j))
<1>1. y \in Seq(Unit)
  <2>1. Units(k) \subseteq Unit
    BY DEF Units, Unit
  <2> QED BY <2>1
<1>2. \A i \in 1..Len(y) : y[i] \in Units(k) /\ y[i].req = k
  <2>1. \A i \in 1..Len(y) : y[i] \in Units(k)
    OBVIOUS
  <2>2. \A u \in Units(k) : u.req = k
    BY DEF Units
  <2> QED BY <2>1, <2>2
<1>3. AllIn(y, Units(k))
  BY <1>2 DEF AllIn
<1>4. ASSUME NEW j, j # k PROVE NoneIn(y, Units(j))
  BY <1>2, <1>4 DEF NoneIn, Units
<1>5. AllIn(y, Units(k)) => Sublist(s \o y, Units(k)) = Sublist(s, Units(k)) \o y
  <2> DEFINE T == Units(k)
  <2> HIDE DEF T
  <2>1. AllIn(y, T) => Sublist(s \o y, T) = Sublist(s, T) \o y
    BY <1>1, SublistJoin
  <2> QED BY <2>1 DEF T
<1>6. ASSUME NEW j, j # k PROVE Sublist(s \o y, Units(j)) = Sublist(s, Units(j))
  <2> DEFINE T == Units(j)
  <2>1. NoneIn(y, T)
    BY <1>4, <1>6
  <2> HIDE DEF T
  <2>2. NoneIn(y, T) => Sublist(s \o y, T) = Sublist(s, T)
    BY <1>1, SublistJoin
  <2> QED BY <2>1, <2>2 DEF T
<1> QED BY <1>3, <1>5, <1>6

LEMMA NoResponseYet ==
    ASSUME NEW s \in Seq(Unit), NEW k, \A i \in 1..Len(s) : s[i].req # k
    PROVE  Sublist(s, Units(k)) = <<>>
<1> DEFINE T == Units(k)
<1>1. NoneIn(s, T)
  BY DEF NoneIn, Units
<1> HIDE DEF T
<1>2. Sublist(<<>> \o s, T) = Sublist(<<>>, T)
  <2>1. PICK e : e = <<>>
    OBVIOUS
  <2>2. e \in Seq(Unit) /\ s \in Seq(Unit)
    BY <2>1
  <2>3. NoneIn(s, T) => Sublist(e \o s, T) = Sublist(e, T)
    BY ONLY <2>2, SublistJoin
  <2> QED BY <1>1, <2>1, <2>3
<1>3. <<>> \o s = s
  BY ConcatEmptySeq
<1>4. Sublist(<<>>, T) = <<>>
  BY SublistOfNothing
<1> QED BY <1>2, <1>3, <1>4 DEF T

(* The client asks again when nothing of the last answer is left.          *)
Done(c, w) == c \in HttpConn /\ c.send = <<>> /\ c.file = NoFile /\ c.recv = <<>> /\ c.rcvd = 0 /\ w = <<>>

LEMMA CompleteIsDone ==
    ASSUME NEW k \in Nat, NEW r, NEW a, Serves(conn, wire, a, k, r), a = Response(k), Complete(k),
           ~a[1].closes
    PROVE  Done(conn, wire)
<1> DEFINE s == conn.send
           o == a \o s
           f == conn.file
           l == a[1].len
<1>1. a # <<>>
  BY DEF Complete
<1>2. conn.recv = <<>> /\ conn.rcvd = 0 /\ wire = <<>> /\ GoesOn(conn, a, k, r)
  BY <1>1 DEF Serves
<1>3. conn \in HttpConn /\ s \in Seq(Units(k)) /\ a \in Seq(Units(k)) /\ AnswerSoFar(o, k, r)
  BY <1>2 DEF GoesOn
<1>4. Len(a) \in Nat /\ Len(s) \in Nat /\ 1 \in 1..Len(a)
  <2> HIDE DEF s
  <2>1. Len(a) # 0
    BY <1>1, <1>3, EmptySeq
  <2> QED BY <1>3, <2>1
<1>5. l \in Int
  <2>1. a[1] \in Units(k)
    BY <1>3, <1>4
  <2> QED BY <2>1 DEF Units
<1>6. Len(o) = Len(a) + Len(s) /\ o[1] = a[1]
  <2> HIDE DEF s
  <2>1. JoinedAs(Units(k), a, s, o)
    BY <1>3, Joining
  <2> QED BY <1>4, <2>1 DEF JoinedAs
<1>7. l >= 0 /\ Len(a) = l + 1
  <2>1. ~(l < 0)
    <3>1. o[1].len < 0 => o[1].closes
      BY <1>3 DEF AnswerSoFar
    <3> QED BY <1>6, <3>1
  <2>2. (l >= 0 /\ Len(a) = l + 1) \/ l = Chunked \/ l = ToClose
    BY DEF Complete
  <2> QED BY <1>5, <2>1, <2>2 DEF Chunked, ToClose
<1>8. Len(o) <= l + 1
  BY <1>3, <1>6, <1>7 DEF AnswerSoFar, RightSoFar
<1>9. s = <<>>
  <2>1. Len(s) = 0
    BY <1>4, <1>5, <1>6, <1>7, <1>8
  <2> HIDE DEF s
  <2> QED BY <1>3, <2>1, EmptySeq
<1>10. f = NoFile
  <2> SUFFICES ASSUME f # NoFile PROVE FALSE
    OBVIOUS
  <2>1. Sending(f, o, k, r) /\ f.sent < f.cl
    BY <1>2 DEF GoesOn
  <2>2. Len(o) = 1 + f.sent /\ o[1].len = f.cl
    BY <2>1 DEF Sending, FileAnswer
  <2>3. f.sent \in Nat /\ f.cl \in Nat
    BY <1>3 DEF HttpConn, FileData
  <2>4. Len(o) = l + 1 /\ f.cl = l
    <3>1. Len(s) = 0
      BY <1>9
    <3> QED BY <1>4, <1>6, <1>7, <2>2, <3>1
  <2> QED BY SMTT(40), <2>1, <2>2, <2>3, <2>4
<1> QED BY <1>2, <1>3, <1>9, <1>10 DEF Done

(* A new request is waited for.                                            *)
LEMMA NewRequest ==
    ASSUME NEW k \in Nat, NEW r \in RequestKinds, NEW c, NEW w, Done(c, w),
           r.chunks # <<>> => c.bodyLen = 0
    PROVE  /\ RequestBytes(k, r) \in Seq(RequestByte)
           /\ Serves(c, w \o RequestBytes(k, r), <<>>, k, r)
<1> DEFINE B == RequestBytes(k, r)
           l == Len(B)
<1>1. r \in Request /\ r.chunks \in Seq(Nat)
  BY RequestFacts
<1>2. IsRequest(B, k, r)
  BY <1>1, BytesOfRequest
<1>3. B \in Seq(RequestByte) /\ l \in Nat
  BY <1>2 DEF IsRequest
<1>4. w \o B = B
  <2> HIDE DEF B
  <2> QED BY <1>3, ConcatEmptySeq DEF Done
<1>5. 0 \in 0..l /\ SubSeq(B, 1, 0) = <<>> /\ SubSeq(B, 0 + 1, l) = B
  <2>1. 0 \in 0..l /\ 0 + 1 = 1
    BY <1>3
  <2> HIDE DEF B
  <2>2. SubSeq(B, 1, 0) = <<>> /\ SubSeq(B, 1, Len(B)) = B
    BY <1>3
  <2> QED BY <2>1, <2>2
<1>6. ReceivingAt(0, c.recv, c.rcvd, c.bodyLen, B, B, r.chunks)
  <2> HIDE DEF B, l
  <2>1. c.recv = <<>> /\ c.rcvd = 0 /\ ~(0 >= 2)
    BY DEF Done
  <2> QED BY <1>5, <2>1 DEF ReceivingAt, l
<1>7. Receiving(c.recv, c.rcvd, c.bodyLen, B, k, r)
  BY <1>5, <1>6 DEF Receiving
<1>8. Waiting(c, B, k, r)
  BY <1>7 DEF Waiting, Done
<1> HIDE DEF B
<1>9. Serves(c, B, <<>>, k, r)
  BY <1>8 DEF Serves, Done
<1> QED BY <1>3, <1>4, <1>9 DEF B

-----------------------------------------------------------------------------
(* Every step keeps the invariant                                          *)

LEMMA StartConnTypes == StartConn \in HttpConn /\ Closed(StartConn) \in HttpConn
<1>1. NoFile \in FileData /\ <<>> \in Seq(RequestByte) /\ <<>> \in Seq(Unit) /\ 0 \in Nat
  BY DEF NoFile, FileData
<1> QED BY <1>1 DEF StartConn, Closed, HttpConn

LEMMA HttpStarts == HttpInit => HttpInv
<1> SUFFICES ASSUME HttpInit PROVE HttpInv
  OBVIOUS
<1>1. /\ conn = StartConn /\ wire = <<>> /\ asked = <<>> /\ arrived = <<>> /\ client = "up"
      /\ Len(asked) = 0 /\ Len(arrived) = 0
  BY DEF HttpInit, StartConn
<1>2. HttpTypes
  <2>1. asked \in Seq(RequestKinds) /\ wire \in Seq(RequestByte) /\ arrived \in Seq(Unit)
    BY <1>1
  <2> QED BY <1>1, <2>1, StartConnTypes DEF HttpTypes
<1>3. NothingAsked /\ LastServed
  BY <1>1 DEF NothingAsked, LastServed
<1>4. OneChunked
  BY <1>1 DEF OneChunked, StartConn
<1>5. AnswersExact
  BY <1>1 DEF AnswersExact
<1> QED BY <1>2, <1>3, <1>4, <1>5 DEF HttpInv

(* The client asks for the next page. *)
LEMMA AskForKeeps ==
    ASSUME HttpInv, NEW r \in RequestKinds, AskFor(r)
    PROVE  HttpInv'
<1> DEFINE l == Len(asked)
<1>0. PICK k : k = l + 1
  OBVIOUS
<1> DEFINE B == RequestBytes(k, r)
<1>1. /\ asked \in Seq(RequestKinds) /\ wire \in Seq(RequestByte) /\ conn \in HttpConn
      /\ arrived \in Seq(Unit) /\ client \in {"up", "fin", "gone"}
      /\ \A i \in 1..Len(arrived) : arrived[i].req \in 1..l
  BY DEF HttpInv, HttpTypes
<1>2. /\ client = "up" /\ conn.up /\ MayAsk
      /\ r.chunks # <<>> => \A i \in 1..l : asked[i].chunks = <<>>
      /\ asked' = Append(asked, r) /\ wire' = wire \o B
      /\ conn' = conn /\ arrived' = arrived /\ client' = client
  BY <1>0 DEF AskFor
<1>3. l \in Nat /\ k \in Nat /\ k = l + 1
  BY <1>0, <1>1
<1>4. /\ asked' \in Seq(RequestKinds) /\ Len(asked') = k /\ asked' # <<>> /\ asked'[k] = r
      /\ \A i \in 1..l : i \in 1..k /\ asked'[i] = asked[i]
      /\ \A i \in 1..k : i = k \/ i \in 1..l
  <2>1. asked' \in Seq(RequestKinds) /\ Len(asked') = k
    BY <1>1, <1>2, <1>3
  <2>2. asked'[k] = r /\ \A i \in 1..l : asked'[i] = asked[i]
    BY <1>1, <1>2, <1>3
  <2>3. \A i \in 1..k : i = k \/ i \in 1..l
    BY <1>3
  <2>4. \A i \in 1..l : i \in 1..k
    BY <1>3
  <2>5. asked' # <<>>
    <3>1. Len(asked') # 0
      BY <1>3, <2>1
    <3> QED BY <3>1
  <2> QED BY <2>1, <2>2, <2>3, <2>4, <2>5
<1>5. Done(conn, wire)
  <2>1. CASE asked = <<>>
    <3>1. conn = StartConn /\ wire = <<>>
      BY <2>1 DEF HttpInv, NothingAsked
    <3> QED BY <1>1, <3>1 DEF Done, StartConn
  <2>2. CASE asked # <<>>
    <3> DEFINE a == Response(l)
    <3>1. Complete(l) /\ ~a[1].closes
      BY <1>2, <2>2 DEF MayAsk
    <3>2. Serves(conn, wire, a, l, asked[l])
      BY <1>2, <2>2 DEF HttpInv, LastServed
    <3>3. a = Response(l)
      OBVIOUS
    <3> HIDE DEF a
    <3> QED BY <1>3, <3>1, <3>2, <3>3, CompleteIsDone
  <2> QED BY <2>1, <2>2
<1>6. r.chunks # <<>> => conn.bodyLen = 0
  <2> SUFFICES ASSUME r.chunks # <<>> PROVE conn.bodyLen = 0
    OBVIOUS
  <2>1. conn.bodyLen \in Nat
    BY <1>1 DEF HttpConn
  <2>2. ~(conn.bodyLen > 0)
    BY <1>2 DEF HttpInv, OneChunked
  <2> QED BY <2>1, <2>2
<1>7. B \in Seq(RequestByte) /\ Serves(conn, wire \o B, <<>>, k, r)
  BY <1>3, <1>5, <1>6, NewRequest
<1> HIDE DEF B
<1>8. wire' \in Seq(RequestByte)
  BY <1>1, <1>2, <1>7
<1>9. HttpTypes'
  <2>1. \A i \in 1..Len(arrived) : arrived[i].req \in 1..k
    BY <1>1, <1>4
  <2> QED BY <1>1, <1>2, <1>4, <1>8, <2>1 DEF HttpTypes
<1>10. NothingAsked'
  BY <1>4 DEF NothingAsked
<1>11. Sublist(arrived, Units(k)) = <<>>
  <2>1. \A i \in 1..Len(arrived) : arrived[i].req # k
    BY <1>1, <1>3
  <2> QED BY <1>1, <2>1, NoResponseYet
<1>12. LastServed'
  <2>1. Response(k)' = <<>>
    BY <1>2, <1>11 DEF Response
  <2>2. Serves(conn', wire', Response(k)', k, asked'[k])
    BY <1>2, <1>4, <1>7, <2>1
  <2>3. Len(asked)' = k
    BY <1>4
  <2>4. client' # "gone"
    BY <1>2
  <2> HIDE DEF l
  <2> QED BY <2>2, <2>3, <2>4 DEF LastServed
<1>13. OneChunked'
  <2> SUFFICES ASSUME conn.bodyLen > 0 PROVE \E i \in 1..k : asked'[i].chunks # <<>>
    BY <1>2, <1>4 DEF OneChunked
  <2>1. PICK i \in 1..l : asked[i].chunks # <<>>
    BY DEF HttpInv, OneChunked
  <2>2. i \in 1..k /\ asked'[i] = asked[i]
    BY <1>4, <2>1
  <2> QED BY <2>1, <2>2
<1>14. AnswersExact'
  <2>1. \A i, j \in 1..Len(arrived) : i < j => arrived[i].req <= arrived[j].req
    BY DEF HttpInv, AnswersExact
  <2>2. ASSUME NEW i \in 1..k PROVE Response(i)' # <<>> => RightSoFar(i, asked'[i], Response(i)')
    <3>1. CASE i = k
      BY <1>2, <1>11, <3>1 DEF Response
    <3>2. CASE i \in 1..l
      <4>1. Response(i)' = Response(i)
        BY <1>2 DEF Response
      <4>2. Response(i) # <<>> => RightSoFar(i, asked[i], Response(i))
        BY <3>2 DEF HttpInv, AnswersExact
      <4> QED BY <1>4, <3>2, <4>1, <4>2
    <3> QED BY <1>4, <3>1, <3>2
  <2>3. Len(asked)' = k
    BY <1>4
  <2>4. \A i \in 1..Len(asked)' : (Response(i)' # <<>> => RightSoFar(i, asked'[i], Response(i)'))
    BY <2>2, <2>3
  <2> QED BY <1>2, <2>1, <2>4 DEF AnswersExact, RightSoFar
<1> QED BY <1>9, <1>10, <1>12, <1>13, <1>14 DEF HttpInv

(* The client shuts down its side, or is gone. *)
LEMMA LeavingKeeps ==
    ASSUME HttpInv, ShutDown \/ Vanish \/ UNCHANGED httpVars
    PROVE  HttpInv'
<1>1. conn' = conn /\ asked' = asked /\ arrived' = arrived
  BY DEF ShutDown, Vanish, httpVars
<1>2. \/ asked # <<>> /\ client = "up" /\ client' = "fin" /\ wire' = wire
      \/ asked # <<>> /\ client' = "gone" /\ wire' = <<>>
      \/ client' = client /\ wire' = wire
  BY DEF ShutDown, Vanish, httpVars
<1>3. HttpTypes'
  <2>1. wire \in Seq(RequestByte) /\ client \in {"up", "fin", "gone"}
    BY DEF HttpInv, HttpTypes
  <2>2. <<>> \in Seq(RequestByte)
    OBVIOUS
  <2>3. wire' \in Seq(RequestByte)
    BY <1>2, <2>1, <2>2
  <2>4. client' \in {"up", "fin", "gone"}
    BY <1>2, <2>1
  <2> QED BY <1>1, <2>3, <2>4 DEF HttpInv, HttpTypes
<1>4. NothingAsked'
  BY <1>1, <1>2 DEF HttpInv, NothingAsked
<1>5. Response(Len(asked))' = Response(Len(asked)) /\ Len(asked)' = Len(asked)
  BY <1>1 DEF Response
<1>6. LastServed'
  BY <1>1, <1>2, <1>5 DEF HttpInv, LastServed
<1>7. OneChunked'
  BY <1>1 DEF HttpInv, OneChunked
<1>8. AnswersExact'
  BY <1>1 DEF HttpInv, AnswersExact, RightSoFar, Response
<1> QED BY <1>3, <1>4, <1>6, <1>7, <1>8 DEF HttpInv

(* What the client has got from a turn goes to the end of the last answer. *)
LEMMA AnswersGrow ==
    ASSUME HttpInv, NEW k, k = Len(asked), NEW x, Turned(k, Response(k), x), asked' = asked,
           asked # <<>>
    PROVE  /\ Response(k)' = Response(k) \o x
           /\ arrived' \in Seq(Unit)
           /\ \A i \in 1..Len(arrived') : arrived'[i].req \in 1..Len(asked)
           /\ AnswersExact'
<1>1. /\ asked \in Seq(RequestKinds) /\ arrived \in Seq(Unit)
      /\ \A i \in 1..Len(arrived) : arrived[i].req \in 1..k
  BY DEF HttpInv, HttpTypes
<1>2. k \in Nat /\ k \in 1..k /\ k \in 1..Len(asked)
  <2>1. k \in Nat /\ k # 0
    BY <1>1
  <2> QED BY <2>1
<1>3. x \in Seq(Units(k)) /\ arrived' = arrived \o x
  BY DEF Turned
<1>4. /\ Sublist(arrived \o x, Units(k)) = Sublist(arrived, Units(k)) \o x
      /\ \A j : j # k => Sublist(arrived \o x, Units(j)) = Sublist(arrived, Units(j))
  BY <1>1, <1>2, <1>3, ResponseGrows
<1>5. Response(k)' = Response(k) \o x
  BY <1>3, <1>4 DEF Response
<1>6. x \in Seq(Unit) /\ \A i \in 1..Len(x) : x[i].req = k
  <2>1. Units(k) \subseteq Unit /\ \A u \in Units(k) : u.req = k
    BY <1>2 DEF Units, Unit
  <2> QED BY <1>3, <2>1
<1> DEFINE l == Len(arrived)
           n == Len(x)
           t == arrived \o x
<1>7. l \in Nat /\ n \in Nat
  BY <1>1, <1>6
<1>8. /\ t \in Seq(Unit) /\ Len(t) = l + n
      /\ \A i \in 1..l : t[i] = arrived[i]
      /\ \A i \in 1..n : t[l + i] = x[i]
  BY <1>1, <1>6, JoinFacts
<1> HIDE DEF t
<1>9. ASSUME NEW i \in 1..l + n
      PROVE  \/ i \in 1..l /\ t[i].req = arrived[i].req /\ arrived[i].req \in 1..k
             \/ i > l /\ t[i].req = k
  <2>1. CASE i <= l
    <3>1. i \in 1..l
      BY <1>7, <2>1
    <3> QED BY <1>1, <1>8, <3>1
  <2>2. CASE i > l
    <3>1. PICK j : j = i - l
      OBVIOUS
    <3>2. j \in 1..n /\ i = l + j
      BY <1>7, <2>2, <3>1
    <3> QED BY <1>6, <1>8, <2>2, <3>2
  <2> QED BY <1>7, <2>1, <2>2
<1>10. \A i \in 1..l + n : t[i].req \in 1..k
  BY <1>2, <1>9
<1>11. ASSUME NEW i \in 1..l + n, NEW j \in 1..l + n, i < j PROVE t[i].req <= t[j].req
  <2>1. t[i].req \in 1..k /\ t[j].req \in 1..k
    BY <1>10
  <2>2. CASE j > l /\ t[j].req = k
    BY <1>2, <2>1, <2>2
  <2>3. CASE j \in 1..l /\ t[j].req = arrived[j].req
    <3>1. i \in 1..l
      BY <1>7, <1>11, <2>3
    <3>2. t[i].req = arrived[i].req
      BY <1>8, <3>1
    <3>3. arrived[i].req <= arrived[j].req
      BY <1>11, <2>3, <3>1 DEF HttpInv, AnswersExact
    <3> QED BY <2>3, <3>2, <3>3
  <2> QED BY <1>9, <2>2, <2>3
<1>12. ASSUME NEW i \in 1..Len(asked)
       PROVE  Response(i)' # <<>> => RightSoFar(i, asked[i], Response(i)')
  <2>1. CASE i = k
    <3>1. Response(k) \o x # <<>> => RightSoFar(k, asked[k], Response(k) \o x)
      BY DEF Turned
    <3> QED BY <1>5, <2>1, <3>1
  <2>2. CASE i # k
    <3>1. Response(i)' = Response(i)
      BY <1>3, <1>4, <2>2 DEF Response
    <3>2. Response(i) # <<>> => RightSoFar(i, asked[i], Response(i))
      BY DEF HttpInv, AnswersExact
    <3> QED BY <3>1, <3>2
  <2> QED BY <2>1, <2>2
<1>13. arrived' = t /\ Len(arrived') = l + n
  BY <1>3, <1>8 DEF t
<1>14. AnswersExact'
  <2>1. \A i, j \in 1..Len(arrived') : i < j => arrived'[i].req <= arrived'[j].req
    BY <1>11, <1>13
  <2> QED BY <1>12, <2>1 DEF AnswersExact, RightSoFar
<1> QED BY <1>5, <1>8, <1>10, <1>13, <1>14

(* A turn before the first request, or after the client is gone, moves     *)
(* nothing; the second closes the connection.                              *)
LEMMA NothingMoves ==
    ASSUME HttpTypes, wire = <<>>, NEW n, MayRead(n), NEW m \in Nat, Turn(n, m),
           \/ client = "up" /\ conn = StartConn
           \/ client = "gone"
    PROVE  /\ wire' = <<>> /\ arrived' = arrived
           /\ asked' = asked /\ client' = client
           /\ client = "up" => conn' = conn
           /\ client = "gone" => conn' \in HttpConn /\ ~conn'.up /\ conn'.bodyLen = 0
<1> DEFINE c1 == IF wire # <<>> \/ client # "up" THEN ReadTcp(conn, n) ELSE conn
           writes == Usable(c1) /\ conn.send # <<>> /\ (m > 0 \/ client = "gone")
<1>1. n = 0 /\ asked' = asked /\ client' = client
  BY DEF MayRead, Turn
<1>2. wire' = <<>>
  BY <1>1 DEF Turn
<1>3. /\ m > 0 => writes /\ client # "gone"
      /\ \E c3 \in {IF writes THEN WriteTcp(c1, m) ELSE c1} :
         \E c4 \in {IF writes THEN Transfer(c3) ELSE c3} :
         \E c5 \in {IF Usable(c1) THEN Transfer(c4) ELSE c4} :
            conn' = Sweep(c5)
      /\ arrived' = arrived \o SubSeq(c1.send, 1, m)
  BY <1>1 DEF Turn
<1>4. conn \in HttpConn /\ arrived \in Seq(Unit)
  BY DEF HttpTypes
<1>5. /\ ~writes /\ c1.send \in Seq(Unit)
      /\ client = "up" => c1 = conn
      /\ client = "gone" => c1 = CloseNow(conn) /\ ~Usable(c1) /\ c1 \in HttpConn
  <2>1. CASE client = "up" /\ conn = StartConn
    <3>1. c1 = conn /\ conn.send = <<>>
      BY <2>1 DEF StartConn
    <3>2. conn.send \in Seq(Unit)
      BY <1>4 DEF HttpConn
    <3> QED BY <2>1, <3>1, <3>2
  <2>2. CASE client = "gone"
    <3>1. c1 = CloseNow(conn)
      BY <1>1, <2>2 DEF ReadTcp
    <3>2. CloseNow(conn) \in HttpConn /\ ~Usable(CloseNow(conn))
      BY <1>4 DEF HttpConn, CloseNow, Usable
    <3>3. c1.send \in Seq(Unit)
      BY <3>1, <3>2 DEF HttpConn
    <3> QED BY <2>2, <3>1, <3>2, <3>3
  <2> QED BY <2>1, <2>2
<1> HIDE DEF c1
<1>6. m = 0
  BY <1>3, <1>5
<1>7. arrived' = arrived
  <2> DEFINE s == c1.send
  <2>1. s \in Seq(Unit)
    BY <1>5
  <2> HIDE DEF s
  <2>2. SubSeq(s, 1, 0) = <<>>
    BY <2>1
  <2>3. arrived' = arrived \o SubSeq(s, 1, 0)
    BY <1>3, <1>6 DEF s
  <2> QED BY <1>4, <2>2, <2>3, ConcatEmptySeq
<1>8. conn' = Sweep(IF Usable(c1) THEN Transfer(c1) ELSE c1)
  BY <1>3, <1>5
<1>9. CASE client = "up" /\ conn = StartConn
  <2>1. c1 = conn /\ conn.file = NoFile /\ conn.flags = {}
    BY <1>5, <1>9 DEF StartConn
  <2>2. Transfer(conn) = conn
    BY <2>1, NothingToMove
  <2>3. conn' = Sweep(conn)
    BY <1>8, <2>1, <2>2
  <2>4. conn' = conn
    BY <2>1, <2>3 DEF Sweep
  <2> QED BY <1>1, <1>2, <1>7, <1>9, <2>4
<1>10. CASE client = "gone"
  <2>1. ~Usable(c1) /\ c1 \in HttpConn
    BY <1>5, <1>10
  <2>2. conn' = Closed(c1)
    BY <1>8, <2>1 DEF Sweep, Usable
  <2>3. NoFile \in FileData /\ <<>> \in Seq(RequestByte) /\ <<>> \in Seq(Unit) /\ 0 \in Nat
    BY DEF NoFile, FileData
  <2>4. conn' \in HttpConn /\ ~conn'.up /\ conn'.bodyLen = 0
    BY <2>1, <2>2, <2>3 DEF Closed, HttpConn
  <2> QED BY <1>1, <1>2, <1>7, <1>10, <2>4
<1> QED BY <1>9, <1>10

(* One turn of the loop. *)
LEMMA ConnTurnKeeps ==
    ASSUME HttpInv, ConnTurn
    PROVE  HttpInv'
<1>1. PICK n \in (IF wire = <<>> THEN {0} ELSE 1..Len(wire)), m \in 0..MaxUnits : Turn(n, m)
  BY DEF ConnTurn
<1>2. MayRead(n) /\ m \in Nat /\ Turn(n, m)
  <2>1. MayRead(n) /\ Turn(n, m)
    BY <1>1 DEF MayRead
  <2>2. m \in Nat
    BY <1>1, RequestsAssumption DEF MaxUnits
  <2> QED BY <2>1, <2>2
<1>3. /\ asked \in Seq(RequestKinds) /\ wire \in Seq(RequestByte) /\ conn \in HttpConn
      /\ arrived \in Seq(Unit) /\ client \in {"up", "fin", "gone"} /\ HttpTypes
  BY DEF HttpInv, HttpTypes
<1>4. conn.up /\ asked' = asked /\ client' = client
  BY <1>2 DEF Turn
<1>5. CASE asked = <<>>
  <2>1. conn = StartConn /\ wire = <<>> /\ client = "up"
    BY <1>5 DEF HttpInv, NothingAsked
  <2>2. /\ wire' = <<>> /\ arrived' = arrived
        /\ client = "up" => conn' = conn
    BY <1>2, <1>3, <2>1, NothingMoves
  <2>3. UNCHANGED httpVars
    BY <1>4, <2>1, <2>2 DEF httpVars
  <2> QED BY <2>3, LeavingKeeps
<1>6. CASE asked # <<>> /\ client = "gone"
  <2>1. wire = <<>>
    BY <1>6 DEF HttpInv, LastServed
  <2>2. /\ wire' = <<>> /\ arrived' = arrived
        /\ client = "gone" => conn' \in HttpConn /\ ~conn'.up /\ conn'.bodyLen = 0
    BY <1>2, <1>3, <1>6, <2>1, NothingMoves
  <2>3. wire' \in Seq(RequestByte)
    BY <1>3, <2>1, <2>2
  <2>4. HttpTypes'
    BY <1>3, <1>4, <1>6, <2>2, <2>3 DEF HttpTypes
  <2>5. NothingAsked'
    BY <1>4, <1>6 DEF NothingAsked
  <2>6. LastServed'
    BY <1>6, <2>2 DEF LastServed
  <2>7. OneChunked'
    BY <1>6, <2>2 DEF OneChunked
  <2>8. AnswersExact'
    BY SMTT(40), <1>4, <2>2 DEF HttpInv, AnswersExact, RightSoFar, Response
  <2> QED BY <2>4, <2>5, <2>6, <2>7, <2>8 DEF HttpInv
<1>7. CASE asked # <<>> /\ client \in {"up", "fin"}
  <2>1. PICK k : k = Len(asked)
    OBVIOUS
  <2>2. k \in 1..Len(asked)
    <3>1. Len(asked) \in Nat /\ Len(asked) # 0
      BY <1>3, <1>7
    <3> QED BY <2>1, <3>1
  <2> DEFINE a == Response(k)
  <2>3. Serves(conn, wire, a, k, asked[k])
    BY <1>4, <1>7, <2>1 DEF HttpInv, LastServed
  <2>4. PICK x : Turned(k, a, x)
    <3> HIDE DEF a
    <3>1. client \in {"up", "fin"}
      BY <1>7
    <3> QED BY <1>2, <1>3, <2>2, <2>3, <3>1, TurnServes
  <2>5. /\ Response(k)' = a \o x
        /\ arrived' \in Seq(Unit)
        /\ \A i \in 1..Len(arrived') : arrived'[i].req \in 1..Len(asked)
        /\ AnswersExact'
    BY <1>4, <1>7, <2>1, <2>4, AnswersGrow
  <2> HIDE DEF a
  <2>6. /\ conn' \in HttpConn
        /\ conn'.up => Serves(conn', wire', a \o x, k, asked[k])
        /\ asked[k].chunks = <<>> => conn'.bodyLen = 0 \/ conn'.bodyLen = conn.bodyLen
    BY <2>4 DEF Turned
  <2>7. wire' \in Seq(RequestByte)
    <3>1. wire' = SubSeq(wire, n + 1, Len(wire)) /\ n \in 0..Len(wire) /\ Len(wire) \in n..Len(wire)
      BY <1>1, <1>2, <1>3 DEF Turn
    <3>2. SubSeq(wire, n + 1, Len(wire)) \in Seq(RequestByte)
      BY <1>3, <3>1, PartFacts
    <3> QED BY <3>1, <3>2
  <2>8. HttpTypes'
    BY <1>3, <1>4, <2>5, <2>6, <2>7 DEF HttpTypes
  <2>9. NothingAsked'
    BY <1>4, <1>7 DEF NothingAsked
  <2>10. LastServed'
    <3>1. Len(asked)' = k /\ asked'[k] = asked[k] /\ client' # "gone"
      BY <1>4, <1>7, <2>1
    <3>2. conn'.up => Serves(conn', wire', Response(k)', k, asked'[k])
      BY <2>5, <2>6, <3>1
    <3>3. Response(Len(asked))' = Response(k)'
      BY <3>1 DEF Response
    <3> QED BY <3>1, <3>2, <3>3 DEF LastServed
  <2>11. OneChunked'
    <3> SUFFICES ASSUME conn'.bodyLen > 0 PROVE \E i \in 1..Len(asked) : asked[i].chunks # <<>>
      BY <1>4 DEF OneChunked
    <3>1. CASE asked[k].chunks # <<>>
      BY <2>2, <3>1
    <3>2. CASE asked[k].chunks = <<>>
      <4>1. conn'.bodyLen = conn.bodyLen
        BY <2>6, <3>2
      <4> QED BY <4>1 DEF HttpInv, OneChunked
    <3> QED BY <3>1, <3>2
  <2> QED BY <2>5, <2>8, <2>9, <2>10, <2>11 DEF HttpInv
<1> QED BY <1>3, <1>5, <1>6, <1>7

(* However the bytes of the requests are cut as they arrive, and however   *)
(* little the socket takes of a file at a time, the client gets its        *)
(* answers in the order of its requests, each with one header, no more     *)
(* than this announces, and the bytes of the file that were asked for      *)
(* (mg_http_handler, mg_handle_chunked, mg_http_transfer_file_data).       *)
THEOREM AnswersAreExact == HttpSpec => []AnswersExact
<1>1. HttpInit => HttpInv
  BY HttpStarts
<1>2. HttpInv /\ [HttpNext]_httpVars => HttpInv'
  <2> SUFFICES ASSUME HttpInv, [HttpNext]_httpVars PROVE HttpInv'
    OBVIOUS
  <2>1. ASSUME NEW r \in RequestKinds, AskFor(r) PROVE HttpInv'
    BY <2>1, AskForKeeps
  <2>2. CASE ShutDown \/ Vanish \/ UNCHANGED httpVars
    BY <2>2, LeavingKeeps
  <2>3. CASE ConnTurn
    BY <2>3, ConnTurnKeeps
  <2> QED BY <2>1, <2>2, <2>3 DEF HttpNext
<1>3. HttpInv => AnswersExact
  BY DEF HttpInv
<1> QED BY <1>1, <1>2, <1>3, PTL DEF HttpSpec
=============================================================================
