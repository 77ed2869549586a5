-------------------------- MODULE TelnetCliProofs --------------------------
(***************************************************************************)
(* Proofs about TelnetCli for every line length, subnegotiation buffer and *)
(* set of characters.                                                      *)
(***************************************************************************)
EXTENDS TelnetCli, RecursionProofs
LOCAL INSTANCE SequencesExt

-----------------------------------------------------------------------------
(* Lemmas about buffers. *)

(* A prefix of the buffer, as a sequence. *)
LEMMA PrefixFacts ==
    ASSUME NEW buf \in [1 .. MaxLine + 1 -> Byte], NEW n \in 0 .. MaxLine
    PROVE  /\ SubSeq(buf, 1, n) \in Seq(Byte)
           /\ Len(SubSeq(buf, 1, n)) = n
           /\ \A i \in 1 .. n : SubSeq(buf, 1, n)[i] = buf[i]
<1>1. n \in Nat /\ MaxLine \in Nat /\ n <= MaxLine
  BY SizesAssumption
<1>2. \A i \in 1 .. n : buf[i] \in Byte
  BY <1>1
<1>3. /\ SubSeq(buf, 1, n) \in Seq(Byte)
      /\ Len(SubSeq(buf, 1, n)) = IF 1 <= n THEN n - 1 + 1 ELSE 0
      /\ \A i \in 1 .. n - 1 + 1 : SubSeq(buf, 1, n)[i] = buf[1 + i - 1]
  <2>1. 1 \in Int /\ n \in Int
    BY <1>1
  <2> QED BY <1>2, <2>1, SubSeqProperties
<1> DEFINE p == SubSeq(buf, 1, n)
<1> HIDE DEF p
<1>4. p \in Seq(Byte) /\ Len(p) = n /\ \A i \in 1 .. n : p[i] = buf[i]
  BY <1>1, <1>3 DEF p
<1> QED BY <1>4 DEF p

(* The string in a buffer is what stands before the first 0. *)
LEMMA CStringIsPrefix ==
    ASSUME NEW buf \in [1 .. MaxLine + 1 -> Byte], NEW n \in 0 .. MaxLine,
           buf[n + 1] = "NUL", \A i \in 1 .. n : buf[i] # "NUL"
    PROVE  CString(buf) = SubSeq(buf, 1, n)
<1> DEFINE First(i) == buf[i] = "NUL" /\ \A j \in 1 .. i - 1 : buf[j] # "NUL"
           c == CHOOSE i \in DOMAIN buf : First(i)
<1>1. n \in Nat /\ MaxLine \in Nat /\ n <= MaxLine /\ DOMAIN buf = 1 .. MaxLine + 1
  BY SizesAssumption
<1>2. n + 1 \in DOMAIN buf /\ First(n + 1)
  BY <1>1
<1>3. c \in DOMAIN buf /\ First(c)
  BY <1>2
<1>4. c = n + 1
  <2>1. c \in Nat
    BY <1>1, <1>3
  <2>2. ~(c < n + 1)
    <3>1. c < n + 1 => c \in 1 .. n
      BY <1>1, <1>3, <2>1
    <3> QED BY <1>3, <3>1
  <2>3. ~(n + 1 < c)
    <3>1. n + 1 < c => n + 1 \in 1 .. c - 1
      BY <1>1, <2>1
    <3> QED BY <1>2, <1>3, <3>1
  <2> HIDE DEF c
  <2> QED BY <1>1, <2>1, <2>2, <2>3
<1>5. CString(buf) = SubSeq(buf, 1, c - 1)
  BY DEF CString
<1> HIDE DEF c
<1>6. c - 1 = n
  BY <1>1, <1>4
<1> QED BY <1>5, <1>6

-----------------------------------------------------------------------------
(* What a client sends is a sequence of bytes. *)

WireByte == [b : Byte, key : BOOLEAN]

LEMMA WireType ==
    ASSUME NEW bytes \in Seq(Byte), NEW key \in BOOLEAN
    PROVE  Wire(bytes, key) \in Seq(WireByte)
<1>1. PICK n \in Nat : DOMAIN bytes = 1 .. n /\ \A i \in 1 .. n : bytes[i] \in Byte
  <2>1. Len(bytes) \in Nat /\ DOMAIN bytes = 1 .. Len(bytes) /\ \A i \in 1 .. Len(bytes) : bytes[i] \in Byte
    BY LenProperties, ElementOfSeq
  <2> QED BY <2>1
<1>2. Wire(bytes, key) \in [1 .. n -> WireByte]
  BY <1>1 DEF Wire, WireByte
<1> QED BY SMTT(40), <1>2, SeqDef

LEMMA ItemType == Item \subseteq Seq(WireByte)
<1>1. /\ {"IAC", "DO", "SB", "SE", "NOP", "CR", "BS", "NUL"} \subseteq Byte
      /\ Chars \subseteq Byte
  BY DEF Byte
<1>2. \A w \in Keystroke : w \in Seq(WireByte)
  <2>1. ASSUME NEW b \in Byte PROVE Wire(<<b>>, TRUE) \in Seq(WireByte)
    <3>1. <<b>> \in Seq(Byte)
      OBVIOUS
    <3> QED BY <3>1, WireType
  <2>2. Wire(<<"IAC">>, FALSE) \o Wire(<<"IAC">>, TRUE) \in Seq(WireByte)
    <3>1. <<"IAC">> \in Seq(Byte)
      BY <1>1
    <3>2. Wire(<<"IAC">>, FALSE) \in Seq(WireByte) /\ Wire(<<"IAC">>, TRUE) \in Seq(WireByte)
      BY <3>1, WireType
    <3> QED BY <3>2, ConcatProperties
  <2> QED BY <1>1, <2>1, <2>2 DEF Keystroke
<1>3. \A w \in Negotiation : w \in Seq(WireByte)
  <2>1. ASSUME NEW b \in Byte PROVE Wire(<<"IAC", "DO", b>>, FALSE) \in Seq(WireByte)
    <3>1. <<"IAC", "DO", b>> \in Seq(Byte)
      BY <1>1
    <3> QED BY <3>1, WireType
  <2> QED BY <2>1 DEF Negotiation
<1>4. \A w \in Subnegotiation : w \in Seq(WireByte)
  <2>1. ASSUME NEW n \in 1 .. SubSize, NEW b \in Byte
        PROVE  Wire(<<"IAC", "SB">> \o [i \in 1 .. n |-> b] \o <<"IAC", "SE">>, FALSE)
                   \in Seq(WireByte)
    <3> DEFINE fill == [i \in 1 .. n |-> b]
    <3>1. <<"IAC", "SB">> \in Seq(Byte) /\ <<"IAC", "SE">> \in Seq(Byte)
      BY <1>1
    <3>2. fill \in Seq(Byte)
      <4>1. n \in Nat /\ fill \in [1 .. n -> Byte]
        BY SizesAssumption
      <4> QED BY <4>1, SeqDef
    <3> HIDE DEF fill
    <3>3. <<"IAC", "SB">> \o fill \o <<"IAC", "SE">> \in Seq(Byte)
      BY <3>1, <3>2, ConcatProperties
    <3>4. Wire(<<"IAC", "SB">> \o fill \o <<"IAC", "SE">>, FALSE) \in Seq(WireByte)
      BY <3>3, WireType
    <3> QED BY <3>4 DEF fill
  <2>2. ASSUME NEW w \in Subnegotiation PROVE w \in Seq(WireByte)
    <3>1. PICK n \in 1 .. SubSize :
             w \in {Wire(<<"IAC", "SB">> \o [i \in 1 .. n |-> b] \o <<"IAC", "SE">>, FALSE) :
                        b \in Byte \ {"IAC"}}
      BY DEF Subnegotiation
    <3> PICK b \in Byte \ {"IAC"} :
             w = Wire(<<"IAC", "SB">> \o [i \in 1 .. n |-> b] \o <<"IAC", "SE">>, FALSE)
      BY <3>1
    <3>2. b \in Byte
      OBVIOUS
    <3>3. Wire(<<"IAC", "SB">> \o [i \in 1 .. n |-> b] \o <<"IAC", "SE">>, FALSE)
             \in Seq(WireByte)
      BY <2>1, <3>2
    <3> QED BY <3>3
  <2> QED BY <2>2
<1>5. Wire(<<"NUL">>, FALSE) \in Seq(WireByte) /\ Wire(<<"IAC", "NOP">>, FALSE) \in Seq(WireByte)
  <2>1. <<"NUL">> \in Seq(Byte) /\ <<"IAC", "NOP">> \in Seq(Byte)
    BY <1>1
  <2> QED BY <2>1, WireType
<1> QED BY <1>2, <1>3, <1>4, <1>5 DEF Item

-----------------------------------------------------------------------------
(* The keys in what a client sends. *)

(* The walk of KeysIn. *)
Typing(f, w) ==
    f = [i \in 0 .. Len(w) |->
            IF i = 0 THEN <<>>
            ELSE IF w[i].key THEN Append(f[i - 1], w[i].b) ELSE f[i - 1]]

LEMMA TypingExists ==
    ASSUME NEW w \in Seq(WireByte)
    PROVE  \E f \in [0 .. Len(w) -> Seq(Byte)] :
              /\ f[0] = <<>>
              /\ \A i \in 1 .. Len(w) :
                     f[i] = IF w[i].key THEN Append(f[i - 1], w[i].b) ELSE f[i - 1]
              /\ KeysIn(w) = f[Len(w)]
<1> DEFINE n == Len(w)
           g == [i \in 1 .. n |->
                    [q \in Seq(Byte) |-> IF w[i].key THEN Append(q, w[i].b) ELSE q]]
           h == CHOOSE f : Typing(f, w)
<1>1. n \in Nat /\ \A i \in 1 .. n : w[i] \in WireByte /\ w[i].b \in Byte
  <2>1. n \in Nat /\ \A i \in 1 .. n : w[i] \in WireByte
    BY ElementOfSeq
  <2>2. \A x \in WireByte : x.b \in Byte
    BY DEF WireByte
  <2> QED BY <2>1, <2>2
<1>2. g \in [1 .. n -> [Seq(Byte) -> Seq(Byte)]]
  <2>1. \A i \in 1 .. n : \A q \in Seq(Byte) : Append(q, w[i].b) \in Seq(Byte)
    BY <1>1
  <2> QED BY <2>1
<1>3. \A i \in 1 .. n : \A q \in Seq(Byte) :
          g[i][q] = IF w[i].key THEN Append(q, w[i].b) ELSE q
  OBVIOUS
<1>4. KeysIn(w) = h[n]
  BY DEF KeysIn, Typing
<1> HIDE DEF g, h
<1>5. PICK f : Recurs(f, Seq(Byte), <<>>, n, g)
  <2>1. <<>> \in Seq(Byte)
    OBVIOUS
  <2> HIDE DEF n
  <2> QED BY <1>1, <1>2, <2>1, Recursion
<1>6. /\ f \in [0 .. n -> Seq(Byte)] /\ f[0] = <<>>
      /\ \A i \in 1 .. n : f[i] = IF w[i].key THEN Append(f[i - 1], w[i].b) ELSE f[i - 1]
  <2>1. \A i \in 1 .. n : i - 1 \in 0 .. n
    BY <1>1
  <2> HIDE DEF n
  <2> QED BY <1>3, <1>5, <2>1 DEF Recurs
<1>7. Typing(f, w)
  <2>1. f = [i \in 0 .. n |-> f[i]]
    BY <1>6
  <2>2. \A i \in 0 .. n : i = 0 \/ i \in 1 .. n
    BY <1>1
  <2>3. \A i \in 0 .. n : f[i] = IF i = 0 THEN <<>>
                                 ELSE IF w[i].key THEN Append(f[i - 1], w[i].b) ELSE f[i - 1]
    BY <1>6, <2>2
  <2> QED BY <2>1, <2>3 DEF Typing
<1>8. Typing(h, w)
  BY <1>7 DEF h
<1>9. h \in [0 .. n -> Seq(Byte)] /\ h[0] = <<>>
      /\ \A i \in 1 .. n : h[i] = IF w[i].key THEN Append(h[i - 1], w[i].b) ELSE h[i - 1]
  <2>1. /\ 0 \in 0 .. n /\ \A i \in 1 .. n : i \in 0 .. n /\ i # 0
        /\ \A i \in 0 .. n : i < n => i + 1 \in 1 .. n /\ (i + 1) - 1 = i
    BY <1>1
  <2>2. \A i \in 0 .. n : h[i] = IF i = 0 THEN <<>>
                                 ELSE IF w[i].key THEN Append(h[i - 1], w[i].b) ELSE h[i - 1]
    BY <1>8 DEF Typing
  <2>3. DOMAIN h = 0 .. n /\ h = [i \in DOMAIN h |-> h[i]]
    BY <1>8 DEF Typing
  <2> DEFINE P == {i \in 0 .. n : h[i] \in Seq(Byte)}
  <2>4. 0 \in P
    <3>1. h[0] = <<>>
      BY <2>1, <2>2
    <3>2. <<>> \in Seq(Byte)
      OBVIOUS
    <3>3. h[0] \in Seq(Byte)
      BY <3>1, <3>2
    <3> HIDE DEF n
    <3> QED BY <2>1, <3>3
  <2>5. \A i \in 0 .. n : i < n /\ i \in P => i + 1 \in P
    <3> SUFFICES ASSUME NEW i \in 0 .. n, i < n, h[i] \in Seq(Byte)
                 PROVE  i + 1 \in 0 .. n /\ h[i + 1] \in Seq(Byte)
      OBVIOUS
    <3>1. i + 1 \in 1 .. n /\ (i + 1) - 1 = i /\ i + 1 \in 0 .. n /\ i + 1 # 0
      BY <1>1
    <3>2. h[i + 1] = IF w[i + 1].key THEN Append(h[i], w[i + 1].b) ELSE h[i]
      BY <2>2, <3>1
    <3>3. w[i + 1].b \in Byte
      BY <1>1, <3>1
    <3> HIDE DEF n
    <3>4. Append(h[i], w[i + 1].b) \in Seq(Byte)
      BY <3>3
    <3> QED BY <3>1, <3>2, <3>4
  <2>6. 0 .. n \subseteq P
    <3> HIDE DEF P, n
    <3> QED BY <1>1, <2>4, <2>5, CountUp
  <2>7. \A i \in 0 .. n : h[i] \in Seq(Byte)
    BY <2>6
  <2> HIDE DEF n
  <2> QED BY <2>1, <2>2, <2>3, <2>7
<1> HIDE DEF h
<1> QED BY <1>4, <1>9

LEMMA KeysType == ASSUME NEW w \in Seq(WireByte) PROVE KeysIn(w) \in Seq(Byte)
<1>1. Len(w) \in Nat /\ Len(w) \in 0 .. Len(w)
  OBVIOUS
<1> QED BY <1>1, TypingExists

LEMMA AppendToConcat ==
    ASSUME NEW a \in Seq(Byte), NEW q \in Seq(Byte), NEW x \in Byte
    PROVE  Append(a \o q, x) = a \o Append(q, x)
  OBVIOUS

(* The keys of one input after another.                                    *)
LEMMA KeysOfConcat ==
    ASSUME NEW v \in Seq(WireByte), NEW w \in Seq(WireByte)
    PROVE  KeysIn(v \o w) = KeysIn(v) \o KeysIn(w)
<1> DEFINE m == Len(v)
           n == Len(w)
           u == v \o w
<1>1. /\ m \in Nat /\ n \in Nat /\ u \in Seq(WireByte) /\ Len(u) = m + n
      /\ (\A i \in 1 .. m : u[i] = v[i])
      /\ (\A i \in 1 .. n : u[m + i] = w[i])
  <2>1. /\ m \in Nat /\ n \in Nat /\ u \in Seq(WireByte) /\ Len(u) = m + n
        /\ \A i \in 1 .. m + n : u[i] = IF i <= m THEN v[i] ELSE w[i - m]
    BY ConcatProperties
  <2> HIDE DEF m, n, u
  <2>2. ASSUME NEW i \in 1 .. m PROVE u[i] = v[i]
    <3>1. i \in 1 .. m + n /\ i <= m
      BY <2>1
    <3> QED BY <2>1, <3>1
  <2>3. ASSUME NEW i \in 1 .. n PROVE u[m + i] = w[i]
    <3>1. m + i \in 1 .. m + n /\ ~(m + i <= m) /\ (m + i) - m = i
      BY <2>1
    <3> QED BY <2>1, <3>1
  <2> QED BY <2>1, <2>2, <2>3
<1>2. PICK e \in [0 .. m -> Seq(Byte)] :
          /\ e[0] = <<>>
          /\ \A i \in 1 .. m : e[i] = IF v[i].key THEN Append(e[i - 1], v[i].b) ELSE e[i - 1]
          /\ KeysIn(v) = e[m]
  BY TypingExists
<1>3. PICK f \in [0 .. n -> Seq(Byte)] :
          /\ f[0] = <<>>
          /\ \A i \in 1 .. n : f[i] = IF w[i].key THEN Append(f[i - 1], w[i].b) ELSE f[i - 1]
          /\ KeysIn(w) = f[n]
  BY TypingExists
<1> HIDE DEF u
<1>4. PICK g \in [0 .. m + n -> Seq(Byte)] :
          /\ g[0] = <<>>
          /\ \A i \in 1 .. m + n : g[i] = IF u[i].key THEN Append(g[i - 1], u[i].b) ELSE g[i - 1]
          /\ KeysIn(u) = g[m + n]
  BY <1>1, TypingExists
<1> HIDE DEF m, n
<1>5. g[m] = e[m]
  <2> DEFINE P == {i \in 0 .. m : g[i] = e[i]}
  <2>1. 0 \in P
    BY <1>1, <1>2, <1>4
  <2>2. \A i \in 0 .. m : i < m /\ i \in P => i + 1 \in P
    <3> SUFFICES ASSUME NEW i \in 0 .. m, i < m, g[i] = e[i]
                 PROVE  i + 1 \in 0 .. m /\ g[i + 1] = e[i + 1]
      OBVIOUS
    <3>1. /\ i + 1 \in 0 .. m /\ i + 1 \in 1 .. m /\ i + 1 \in 1 .. m + n
          /\ (i + 1) - 1 = i
      BY <1>1
    <3>2. u[i + 1] = v[i + 1]
      BY <1>1, <3>1
    <3>3. g[i + 1] = IF u[i + 1].key THEN Append(g[i], u[i + 1].b) ELSE g[i]
      BY <1>4, <3>1
    <3>4. e[i + 1] = IF v[i + 1].key THEN Append(e[i], v[i + 1].b) ELSE e[i]
      BY <1>2, <3>1
    <3> QED BY <3>1, <3>2, <3>3, <3>4
  <2>3. 0 .. m \subseteq P
    <3> HIDE DEF P
    <3> QED BY <1>1, <2>1, <2>2, CountUp
  <2>4. m \in 0 .. m
    BY <1>1
  <2> QED BY <2>3, <2>4
<1>6. g[m + n] = e[m] \o f[n]
  <2> DEFINE P == {i \in 0 .. n : g[m + i] = e[m] \o f[i]}
  <2>1. e[m] \in Seq(Byte) /\ \A i \in 0 .. n : f[i] \in Seq(Byte)
    <3>1. m \in 0 .. m
      BY <1>1
    <3> QED BY <3>1
  <2>2. 0 \in P
    <3>1. e[m] \o <<>> = e[m]
      BY <2>1, ConcatEmptySeq
    <3>2. m + 0 = m /\ 0 \in 0 .. n
      BY <1>1
    <3> QED BY <1>3, <1>5, <3>1, <3>2
  <2>3. \A i \in 0 .. n : i < n /\ i \in P => i + 1 \in P
    <3> SUFFICES ASSUME NEW i \in 0 .. n, i < n, g[m + i] = e[m] \o f[i]
                 PROVE  i + 1 \in 0 .. n /\ g[m + (i + 1)] = e[m] \o f[i + 1]
      OBVIOUS
    <3>1. /\ i + 1 \in 0 .. n /\ i + 1 \in 1 .. n /\ m + (i + 1) \in 1 .. m + n
          /\ (i + 1) - 1 = i /\ (m + (i + 1)) - 1 = m + i
      BY <1>1
    <3>2. u[m + (i + 1)] = w[i + 1] /\ w[i + 1] \in WireByte
      <4>1. w[i + 1] \in WireByte
        BY <3>1, ElementOfSeq DEF n
      <4> QED BY <1>1, <3>1, <4>1
    <3>3. g[m + (i + 1)] = IF w[i + 1].key THEN Append(g[m + i], w[i + 1].b) ELSE g[m + i]
      BY <1>4, <3>1, <3>2
    <3>4. f[i + 1] = IF w[i + 1].key THEN Append(f[i], w[i + 1].b) ELSE f[i]
      BY <1>3, <3>1
    <3>5. Append(e[m] \o f[i], w[i + 1].b) = e[m] \o Append(f[i], w[i + 1].b)
      <4>1. w[i + 1].b \in Byte
        BY <3>2 DEF WireByte
      <4> HIDE DEF n
      <4> QED BY <2>1, <4>1, AppendToConcat
    <3> QED BY <3>1, <3>3, <3>4, <3>5
  <2>4. 0 .. n \subseteq P
    <3> HIDE DEF P
    <3> QED BY <1>1, <2>2, <2>3, CountUp
  <2>5. n \in 0 .. n
    BY <1>1
  <2> QED BY <2>4, <2>5
<1> QED BY <1>2, <1>3, <1>4, <1>6 DEF u

LEMMA KeysOfOne ==
    ASSUME NEW x \in WireByte
    PROVE  KeysIn(<<x>>) = IF x.key THEN <<x.b>> ELSE <<>>
<1> DEFINE w == <<x>>
<1>1. w \in Seq(WireByte) /\ Len(w) = 1 /\ w[1] = x /\ x.b \in Byte
  BY DEF WireByte
<1> HIDE DEF w
<1>2. PICK f \in [0 .. Len(w) -> Seq(Byte)] :
          /\ f[0] = <<>>
          /\ \A i \in 1 .. Len(w) : f[i] = IF w[i].key THEN Append(f[i - 1], w[i].b) ELSE f[i - 1]
          /\ KeysIn(w) = f[Len(w)]
  BY <1>1, TypingExists
<1>3. f[1] = IF w[1].key THEN Append(f[0], w[1].b) ELSE f[0]
  <2>1. 1 \in 1 .. Len(w) /\ 1 - 1 = 0
    BY <1>1
  <2> QED BY <1>2, <2>1
<1>4. Append(<<>>, x.b) = <<x.b>>
  OBVIOUS
<1> QED BY <1>1, <1>2, <1>3, <1>4 DEF w

LEMMA KeysOfNone ==
    ASSUME NEW w \in Seq(WireByte), \A i \in 1 .. Len(w) : ~w[i].key
    PROVE  KeysIn(w) = <<>>
<1> DEFINE n == Len(w)
<1>1. PICK f \in [0 .. n -> Seq(Byte)] :
          /\ f[0] = <<>>
          /\ \A i \in 1 .. n : f[i] = IF w[i].key THEN Append(f[i - 1], w[i].b) ELSE f[i - 1]
          /\ KeysIn(w) = f[n]
  BY TypingExists
<1>2. n \in Nat
  OBVIOUS
<1> DEFINE P == {i \in 0 .. n : f[i] = <<>>}
<1> HIDE DEF n
<1>3. 0 \in P /\ n \in 0 .. n
  BY <1>1, <1>2
<1>4. \A i \in 0 .. n : i < n /\ i \in P => i + 1 \in P
  <2> SUFFICES ASSUME NEW i \in 0 .. n, i < n, f[i] = <<>>
               PROVE  i + 1 \in 0 .. n /\ f[i + 1] = <<>>
    OBVIOUS
  <2>1. i + 1 \in 0 .. n /\ i + 1 \in 1 .. n /\ (i + 1) - 1 = i
    BY <1>2
  <2>2. ~w[i + 1].key
    BY <2>1 DEF n
  <2> QED BY <1>1, <2>1, <2>2
<1>5. 0 .. n \subseteq P
  <2> HIDE DEF P
  <2> QED BY <1>2, <1>3, <1>4, CountUp
<1> QED BY <1>1, <1>3, <1>5

-----------------------------------------------------------------------------
(* What telnet_reader.c makes of its input. *)

Reader == [st : ReaderState, n : 0 .. SubSize]

(* The reader r after byte b. *)
After(r, b) ==
    [st |-> IF r.st = "start" THEN IF b = "IAC" THEN "rx_iac" ELSE "start"
            ELSE IF r.st = "rx_iac"
            THEN IF b = "DO" THEN "rx_do_dont_will_wont" ELSE IF b = "SB" THEN "rx_sb" ELSE "start"
            ELSE IF r.st = "rx_sb"
            THEN IF b = "IAC" THEN "wait_for_se" ELSE IF r.n < SubSize THEN "rx_sb" ELSE "start"
            ELSE "start",
     n  |-> IF r.st = "rx_iac" /\ b = "SB" THEN 0
            ELSE IF r.st = "rx_sb" /\ b # "IAC" /\ r.n < SubSize THEN r.n + 1
            ELSE r.n]

(* Whether r hands byte b to the line editor. *)
Data(r, b) ==
    \/ r.st = "start" /\ b \notin {"IAC", "NUL"}
    \/ r.st = "rx_iac" /\ b = "IAC"

(* Input w takes the reader from r to s, and what it takes for data on the *)
(* way are the keys.                                                       *)
Reads(run, w) ==
    \A i \in 1 .. Len(w) :
        /\ run[i] = After(run[i - 1], w[i].b)
        /\ w[i].key <=> Data(run[i - 1], w[i].b)
Understood(w, r, s) ==
    \E run \in [0 .. Len(w) -> Reader] : run[0] = r /\ run[Len(w)] = s /\ Reads(run, w)

LEMMA AfterType == ASSUME NEW r \in Reader, NEW b PROVE After(r, b) \in Reader
<1>1. /\ r.st \in ReaderState /\ r.n \in 0 .. SubSize /\ SubSize \in Nat
      /\ (r.n < SubSize => r.n + 1 \in 0 .. SubSize)
  BY SizesAssumption DEF Reader
<1> QED BY <1>1 DEF After, Reader, ReaderState

LEMMA UnderstoodEmpty == ASSUME NEW r \in Reader PROVE Understood(<<>>, r, r)
<1> DEFINE run == [i \in 0 .. 0 |-> r]
<1>1. run \in [0 .. 0 -> Reader] /\ run[0] = r /\ Len(<<>>) = 0 /\ 1 .. 0 = {}
  OBVIOUS
<1>2. Reads(run, <<>>)
  BY <1>1 DEF Reads
<1> HIDE DEF run
<1> QED BY <1>1, <1>2 DEF Understood

LEMMA UnderstoodOne ==
    ASSUME NEW x \in WireByte, NEW r \in Reader, x.key <=> Data(r, x.b)
    PROVE  Understood(<<x>>, r, After(r, x.b))
<1> DEFINE w == <<x>>
           s == After(r, x.b)
           run == [i \in 0 .. 1 |-> IF i = 0 THEN r ELSE s]
<1>1. Len(w) = 1 /\ w[1] = x
  OBVIOUS
<1>2. s \in Reader
  BY AfterType
<1> HIDE DEF w, s
<1>3. run \in [0 .. 1 -> Reader] /\ run[0] = r /\ run[1] = s
  BY <1>2
<1> HIDE DEF run
<1>4. Reads(run, w)
  <2>1. \A i \in 1 .. 1 : i = 1 /\ i - 1 = 0
    OBVIOUS
  <2> QED BY <1>1, <1>3, <2>1 DEF Reads, s
<1>5. Understood(w, r, s)
  BY <1>1, <1>3, <1>4 DEF Understood
<1> QED BY <1>5 DEF w, s

LEMMA UnderstoodConcat ==
    ASSUME NEW v \in Seq(WireByte), NEW w \in Seq(WireByte), NEW r, NEW s, NEW t,
           Understood(v, r, s), Understood(w, s, t)
    PROVE  Understood(v \o w, r, t)
<1> DEFINE m == Len(v)
           n == Len(w)
           u == v \o w
<1>1. m \in Nat /\ n \in Nat /\ Len(u) = m + n
      /\ \A i \in 1 .. m + n : u[i] = IF i <= m THEN v[i] ELSE w[i - m]
  BY ConcatProperties
<1>2. PICK f \in [0 .. m -> Reader] : f[0] = r /\ f[m] = s /\ Reads(f, v)
  BY DEF Understood
<1>3. PICK g \in [0 .. n -> Reader] : g[0] = s /\ g[n] = t /\ Reads(g, w)
  BY DEF Understood
<1>4. /\ \A i \in 1 .. m : f[i] = After(f[i - 1], v[i].b) /\ (v[i].key <=> Data(f[i - 1], v[i].b))
      /\ \A j \in 1 .. n : g[j] = After(g[j - 1], w[j].b) /\ (w[j].key <=> Data(g[j - 1], w[j].b))
  BY <1>2, <1>3 DEF Reads
<1> DEFINE run == [i \in 0 .. m + n |-> IF i <= m THEN f[i] ELSE g[i - m]]
<1> HIDE DEF m, n, u
<1>5. /\ run \in [0 .. m + n -> Reader]
      /\ \A i \in 0 .. m : run[i] = f[i]
      /\ \A j \in 0 .. n : run[m + j] = g[j]
  <2>1. \A i \in 0 .. m + n : (i <= m => i \in 0 .. m) /\ (~(i <= m) => i - m \in 0 .. n)
    BY <1>1
  <2>2. run \in [0 .. m + n -> Reader]
    BY <2>1
  <2>3. \A i \in 0 .. m : i \in 0 .. m + n /\ i <= m
    BY <1>1
  <2>4. \A i \in 0 .. m : run[i] = f[i]
    BY <2>3
  <2>5. ASSUME NEW j \in 0 .. n PROVE run[m + j] = g[j]
    <3>1. m + j \in 0 .. m + n /\ (j # 0 => ~(m + j <= m)) /\ (m + j) - m = j /\ m \in 0 .. m
      BY <1>1
    <3>2. CASE j = 0
      <4>1. m + j = m
        BY <1>1, <3>2
      <4> QED BY <1>2, <1>3, <2>4, <3>1, <3>2, <4>1
    <3>3. CASE j # 0
      BY <3>1, <3>3
    <3> QED BY <3>2, <3>3
  <2> QED BY <2>2, <2>4, <2>5
<1> HIDE DEF run
<1>6. run[0] = r /\ run[m + n] = t
  <2>1. 0 \in 0 .. m /\ n \in 0 .. n
    BY <1>1
  <2> QED BY <1>2, <1>3, <1>5, <2>1
<1>7. Reads(run, u)
  <2> SUFFICES ASSUME NEW i \in 1 .. m + n
               PROVE  run[i] = After(run[i - 1], u[i].b) /\ (u[i].key <=> Data(run[i - 1], u[i].b))
    BY <1>1 DEF Reads
  <2>1. CASE i <= m
    <3>1. i \in 1 .. m /\ i \in 0 .. m /\ i - 1 \in 0 .. m
      BY <1>1, <2>1
    <3>2. u[i] = v[i] /\ run[i] = f[i] /\ run[i - 1] = f[i - 1]
      BY <1>1, <1>5, <2>1, <3>1
    <3> QED BY <1>4, <3>1, <3>2
  <2>2. CASE ~(i <= m)
    <3> DEFINE j == i - m
    <3>1. j \in 1 .. n /\ j \in 0 .. n /\ j - 1 \in 0 .. n /\ i = m + j /\ i - 1 = m + (j - 1)
      BY <1>1, <2>2
    <3>2. u[i] = w[j]
      BY <1>1, <2>2
    <3> HIDE DEF j
    <3>3. run[i] = g[j] /\ run[i - 1] = g[j - 1]
      BY <1>5, <3>1
    <3> QED BY <1>4, <3>1, <3>2, <3>3
  <2> QED BY <2>1, <2>2
<1> QED BY <1>1, <1>5, <1>6, <1>7 DEF Understood, u

LEMMA UnderstoodFirst ==
    ASSUME NEW w \in Seq(WireByte), w # <<>>, NEW r, NEW t, Understood(w, r, t)
    PROVE  /\ Head(w).key <=> Data(r, Head(w).b)
           /\ Understood(Tail(w), After(r, Head(w).b), t)
<1> DEFINE n == Len(w)
           u == Tail(w)
<1>1. /\ n \in Nat /\ n > 0 /\ Head(w) = w[1] /\ Len(u) = n - 1
      /\ \A i \in 1 .. Len(u) : u[i] = w[i + 1]
  <2>1. n \in Nat /\ n > 0 /\ Head(w) = w[1]
    OBVIOUS
  <2> QED BY <2>1, HeadTailProperties
<1>2. PICK run \in [0 .. n -> Reader] : run[0] = r /\ run[n] = t /\ Reads(run, w)
  BY DEF Understood
<1>3. \A i \in 1 .. n : run[i] = After(run[i - 1], w[i].b) /\ (w[i].key <=> Data(run[i - 1], w[i].b))
  BY <1>2 DEF Reads
<1> DEFINE rest == [i \in 0 .. n - 1 |-> run[i + 1]]
<1> HIDE DEF n, u
<1>4. /\ rest \in [0 .. n - 1 -> Reader]
      /\ \A i \in 0 .. n - 1 : rest[i] = run[i + 1]
      /\ 0 \in 0 .. n - 1 /\ n - 1 \in 0 .. n - 1 /\ (n - 1) + 1 = n /\ 0 + 1 = 1
  <2>1. \A i \in 0 .. n - 1 : i + 1 \in 0 .. n
    BY <1>1
  <2>2. 0 \in 0 .. n - 1 /\ n - 1 \in 0 .. n - 1 /\ (n - 1) + 1 = n
    BY <1>1
  <2> QED BY <2>1, <2>2
<1> HIDE DEF rest
<1>5. run[1] = After(r, w[1].b) /\ (w[1].key <=> Data(r, w[1].b))
  <2>1. 1 \in 1 .. n /\ 1 - 1 = 0
    BY <1>1
  <2> QED BY <1>2, <1>3, <2>1
<1>6. rest[0] = After(r, w[1].b) /\ rest[n - 1] = t
  BY <1>2, <1>4, <1>5
<1>7. Reads(rest, u)
  <2> SUFFICES ASSUME NEW i \in 1 .. n - 1
               PROVE  rest[i] = After(rest[i - 1], u[i].b) /\ (u[i].key <=> Data(rest[i - 1], u[i].b))
    BY <1>1 DEF Reads
  <2>1. /\ i \in 0 .. n - 1 /\ i - 1 \in 0 .. n - 1 /\ (i - 1) + 1 = i
        /\ i + 1 \in 1 .. n /\ (i + 1) - 1 = i
    BY <1>1
  <2>2. rest[i] = run[i + 1] /\ rest[i - 1] = run[i] /\ u[i] = w[i + 1]
    <3>1. i \in 1 .. Len(u)
      BY <1>1
    <3> QED BY <1>1, <1>4, <2>1, <3>1
  <2> QED BY <1>3, <2>1, <2>2
<1> QED BY <1>1, <1>4, <1>5, <1>6, <1>7 DEF Understood, u

(* Bytes that mean no key: what the reader has to do to get over them.     *)
LEMMA Silent ==
    ASSUME NEW bytes \in Seq(Byte), NEW run \in [0 .. Len(bytes) -> Reader],
           \A i \in 1 .. Len(bytes) :
               run[i] = After(run[i - 1], bytes[i]) /\ ~Data(run[i - 1], bytes[i])
    PROVE  /\ KeysIn(Wire(bytes, FALSE)) = <<>>
           /\ Understood(Wire(bytes, FALSE), run[0], run[Len(bytes)])
<1> DEFINE w == Wire(bytes, FALSE)
<1>1. /\ w \in Seq(WireByte) /\ Len(w) = Len(bytes)
      /\ \A i \in 1 .. Len(bytes) : w[i].b = bytes[i] /\ ~w[i].key
  <2>1. w \in Seq(WireByte)
    BY WireType
  <2>2. DOMAIN bytes = 1 .. Len(bytes) /\ Len(bytes) \in Nat
    BY LenProperties
  <2>3. DOMAIN w = 1 .. Len(bytes)
        /\ \A i \in 1 .. Len(bytes) : w[i] = [b |-> bytes[i], key |-> FALSE]
    BY <2>2 DEF Wire
  <2> HIDE DEF w
  <2>4. DOMAIN w = 1 .. Len(w) /\ Len(w) \in Nat
    BY <2>1, LenProperties
  <2>5. Len(w) = Len(bytes)
    BY <2>2, <2>3, <2>4
  <2> QED BY <2>1, <2>3, <2>5
<1> HIDE DEF w
<1>2. KeysIn(w) = <<>>
  BY <1>1, KeysOfNone
<1>3. Reads(run, w)
  BY <1>1 DEF Reads
<1> QED BY <1>1, <1>2, <1>3 DEF Understood, w

Awaiting == {r \in Reader : r.st = "start"}

LEMMA KeystrokeRead ==
    ASSUME NEW item \in Keystroke, NEW r \in Awaiting
    PROVE  /\ \E k \in Chars \union {"IAC", "CR", "BS"} : KeysIn(item) = <<k>>
           /\ \E s \in Awaiting : Understood(item, r, s)
<1>0. /\ r \in Reader /\ r.st = "start"
      /\ {"IAC", "DO", "SB", "SE", "NOP", "CR", "BS", "NUL"} \subseteq Byte /\ Chars \subseteq Byte
  BY DEF Awaiting, Byte
<1>1. ASSUME NEW b \in Byte, NEW k \in BOOLEAN
      PROVE  Wire(<<b>>, k) = <<[b |-> b, key |-> k]>> /\ [b |-> b, key |-> k] \in WireByte
  <2>1. DOMAIN <<b>> = 1 .. 1 /\ <<b>>[1] = b
    OBVIOUS
  <2>2. Wire(<<b>>, k) = [i \in 1 .. 1 |-> [b |-> b, key |-> k]]
    BY <2>1 DEF Wire
  <2> DEFINE x == [b |-> b, key |-> k]
  <2>3. x \in WireByte
    BY DEF WireByte
  <2> HIDE DEF x
  <2>4. [i \in 1 .. 1 |-> x] = <<x>>
    OBVIOUS
  <2> QED BY <2>2, <2>3, <2>4 DEF x
<1>2. CASE \E b \in Chars \union {"CR", "BS"} : item = Wire(<<b>>, TRUE)
  <2>1. PICK b \in Chars \union {"CR", "BS"} : item = Wire(<<b>>, TRUE)
    BY <1>2
  <2> DEFINE x == [b |-> b, key |-> TRUE]
  <2>2. b \in Byte /\ b \notin {"IAC", "NUL"}
    BY <1>0, CharsAssumption
  <2>3. item = <<x>> /\ x \in WireByte /\ x.b = b /\ x.key = TRUE
    BY <1>1, <2>1, <2>2
  <2> HIDE DEF x
  <2>4. KeysIn(item) = <<b>>
    BY <2>3, KeysOfOne
  <2>5. Understood(item, r, After(r, b))
    BY <1>0, <2>2, <2>3, UnderstoodOne DEF Data
  <2>6. After(r, b) \in Awaiting
    <3>1. After(r, b) \in Reader
      BY <1>0, AfterType
    <3>2. After(r, b).st = "start"
      BY <1>0, <2>2 DEF After
    <3> QED BY <3>1, <3>2 DEF Awaiting
  <2> QED BY <2>4, <2>5, <2>6
<1>3. CASE item = Wire(<<"IAC">>, FALSE) \o Wire(<<"IAC">>, TRUE)
  <2> DEFINE x == [b |-> "IAC", key |-> FALSE]
             y == [b |-> "IAC", key |-> TRUE]
             q == After(r, "IAC")
  <2>1. item = <<x>> \o <<y>> /\ x \in WireByte /\ y \in WireByte
    BY <1>0, <1>1, <1>3
  <2>2. x.b = "IAC" /\ x.key = FALSE /\ y.b = "IAC" /\ y.key = TRUE
    OBVIOUS
  <2> HIDE DEF x, y
  <2>3. KeysIn(<<x>>) = <<>> /\ KeysIn(<<y>>) = <<"IAC">>
    BY <2>1, <2>2, KeysOfOne
  <2> DEFINE v == <<x>>
             w == <<y>>
  <2>4. v \in Seq(WireByte) /\ w \in Seq(WireByte) /\ item = v \o w
    BY <2>1
  <2>5. q \in Reader /\ q.st = "rx_iac"
    <3>1. q \in Reader
      BY <1>0, AfterType
    <3> QED BY <1>0, <3>1 DEF After
  <2> HIDE DEF q
  <2>6. After(q, "IAC") \in Awaiting
    <3>1. After(q, "IAC") \in Reader
      BY <2>5, AfterType
    <3>2. After(q, "IAC").st = "start"
      BY <2>5 DEF After
    <3> QED BY <3>1, <3>2 DEF Awaiting
  <2>7. Understood(v, r, q)
    BY <1>0, <2>1, <2>2, UnderstoodOne DEF Data, q
  <2>8. Understood(w, q, After(q, "IAC"))
    BY <2>1, <2>2, <2>5, UnderstoodOne DEF Data
  <2>9. KeysIn(item) = <<"IAC">>
    <3>1. KeysIn(item) = KeysIn(v) \o KeysIn(w)
      BY <2>4, KeysOfConcat
    <3>2. <<>> \o <<"IAC">> = <<"IAC">>
      OBVIOUS
    <3> QED BY <2>3, <3>1, <3>2
  <2> HIDE DEF v, w
  <2>10. Understood(item, r, After(q, "IAC"))
    BY <2>4, <2>7, <2>8, UnderstoodConcat
  <2> QED BY <2>6, <2>9, <2>10
<1> QED BY <1>2, <1>3 DEF Keystroke

LEMMA CommandRead ==
    ASSUME NEW item, NEW r \in Awaiting,
           item \in Negotiation \union {Wire(<<"NUL">>, FALSE), Wire(<<"IAC", "NOP">>, FALSE)}
    PROVE  /\ KeysIn(item) = <<>>
           /\ \E s \in Awaiting : Understood(item, r, s)
<1> DEFINE iac == [st |-> "rx_iac", n |-> r.n]
           opt == [st |-> "rx_do_dont_will_wont", n |-> r.n]
<1>0. /\ r \in Reader /\ r.st = "start" /\ r = [st |-> "start", n |-> r.n]
      /\ iac \in Reader /\ opt \in Reader
      /\ {"IAC", "DO", "SB", "SE", "NOP", "CR", "BS", "NUL"} \subseteq Byte
  BY DEF Awaiting, Reader, ReaderState, Byte
<1>1. /\ After(r, "IAC") = iac /\ After(iac, "DO") = opt /\ After(iac, "NOP") = r
      /\ After(r, "NUL") = r /\ \A b : After(opt, b) = r
  BY <1>0 DEF After
<1>2. /\ ~Data(r, "IAC") /\ ~Data(iac, "DO") /\ ~Data(iac, "NOP") /\ ~Data(r, "NUL")
      /\ \A b : ~Data(opt, b)
  BY <1>0 DEF Data
<1> HIDE DEF iac, opt
<1>3. CASE item = Wire(<<"NUL">>, FALSE)
  <2> DEFINE bytes == <<"NUL">>
             run == [i \in 0 .. 1 |-> r]
  <2>1. bytes \in Seq(Byte) /\ Len(bytes) = 1 /\ bytes[1] = "NUL"
    BY <1>0
  <2>2. run \in [0 .. 1 -> Reader] /\ run[0] = r /\ run[1] = r
    BY <1>0
  <2>3. \A i \in 1 .. 1 : i = 1 /\ i - 1 = 0
    OBVIOUS
  <2> HIDE DEF bytes, run
  <2>4. KeysIn(Wire(bytes, FALSE)) = <<>> /\ Understood(Wire(bytes, FALSE), run[0], run[Len(bytes)])
    BY <1>1, <1>2, <2>1, <2>2, <2>3, Silent
  <2> QED BY <1>3, <2>1, <2>2, <2>4 DEF bytes
<1>4. CASE item = Wire(<<"IAC", "NOP">>, FALSE)
  <2> DEFINE bytes == <<"IAC", "NOP">>
             run == [i \in 0 .. 2 |-> IF i = 1 THEN iac ELSE r]
  <2>1. bytes \in Seq(Byte) /\ Len(bytes) = 2 /\ bytes[1] = "IAC" /\ bytes[2] = "NOP"
    BY <1>0
  <2>2. run \in [0 .. 2 -> Reader] /\ run[0] = r /\ run[1] = iac /\ run[2] = r
    BY <1>0
  <2>3. \A i \in 1 .. 2 : (i = 1 /\ i - 1 = 0) \/ (i = 2 /\ i - 1 = 1)
    OBVIOUS
  <2> HIDE DEF bytes, run
  <2>4. KeysIn(Wire(bytes, FALSE)) = <<>> /\ Understood(Wire(bytes, FALSE), run[0], run[Len(bytes)])
    BY <1>1, <1>2, <2>1, <2>2, <2>3, Silent
  <2> QED BY <1>4, <2>1, <2>2, <2>4 DEF bytes
<1>5. CASE item \in Negotiation
  <2>1. PICK b \in Byte : item = Wire(<<"IAC", "DO", b>>, FALSE)
    BY <1>5 DEF Negotiation
  <2> DEFINE bytes == <<"IAC", "DO", b>>
             run == [i \in 0 .. 3 |-> IF i = 1 THEN iac ELSE IF i = 2 THEN opt ELSE r]
  <2>2. /\ bytes \in Seq(Byte) /\ Len(bytes) = 3
        /\ bytes[1] = "IAC" /\ bytes[2] = "DO" /\ bytes[3] = b
    BY <1>0
  <2>3. run \in [0 .. 3 -> Reader] /\ run[0] = r /\ run[1] = iac /\ run[2] = opt /\ run[3] = r
    BY <1>0
  <2>4. \A i \in 1 .. 3 : \/ i = 1 /\ i - 1 = 0
                          \/ i = 2 /\ i - 1 = 1
                          \/ i = 3 /\ i - 1 = 2
    OBVIOUS
  <2> HIDE DEF bytes, run
  <2>5. KeysIn(Wire(bytes, FALSE)) = <<>> /\ Understood(Wire(bytes, FALSE), run[0], run[Len(bytes)])
    BY ZenonT(60), <1>1, <1>2, <2>2, <2>3, <2>4, Silent
  <2> QED BY <2>1, <2>2, <2>3, <2>5 DEF bytes
<1> QED BY <1>3, <1>4, <1>5

(* The parameters of a subnegotiation fit, so none ends it early. *)
LEMMA SubnegotiationRead ==
    ASSUME NEW item \in Subnegotiation, NEW r \in Awaiting
    PROVE  /\ KeysIn(item) = <<>>
           /\ \E s \in Awaiting : Understood(item, r, s)
<1>1. PICK n \in 1 .. SubSize :
         item \in {Wire(<<"IAC", "SB">> \o [i \in 1 .. n |-> b] \o <<"IAC", "SE">>, FALSE) :
                    b \in Byte \ {"IAC"}}
  BY DEF Subnegotiation
<1>2. PICK b \in Byte \ {"IAC"} :
         item = Wire(<<"IAC", "SB">> \o [i \in 1 .. n |-> b] \o <<"IAC", "SE">>, FALSE)
  BY <1>1
<1> DEFINE fill == [i \in 1 .. n |-> b]
           front == <<"IAC", "SB">> \o fill
           bytes == front \o <<"IAC", "SE">>
<1>3. n \in Nat /\ n >= 1 /\ SubSize \in Nat /\ n <= SubSize
  BY SizesAssumption
<1>4. /\ bytes \in Seq(Byte) /\ Len(bytes) = n + 4
      /\ bytes[1] = "IAC" /\ bytes[2] = "SB" /\ bytes[n + 3] = "IAC" /\ bytes[n + 4] = "SE"
      /\ \A i \in 3 .. n + 2 : bytes[i] = b
  <2> DEFINE head == <<"IAC", "SB">>
             last == <<"IAC", "SE">>
  <2>1. {"IAC", "SB", "SE"} \subseteq Byte
    BY DEF Byte
  <2>2. /\ head \in Seq(Byte) /\ Len(head) = 2 /\ head[1] = "IAC" /\ head[2] = "SB"
        /\ last \in Seq(Byte) /\ Len(last) = 2 /\ last[1] = "IAC" /\ last[2] = "SE"
    BY <2>1
  <2>3. fill \in Seq(Byte) /\ Len(fill) = n /\ \A i \in 1 .. n : fill[i] = b
    <3>1. fill \in [1 .. n -> Byte]
      OBVIOUS
    <3>2. fill \in Seq(Byte)
      BY <1>3, <3>1, SeqDef
    <3> QED BY <1>3, <3>2
  <2> HIDE DEF fill, head, last
  <2> DEFINE f == head \o fill
  <2>4. /\ f \in Seq(Byte) /\ Len(f) = Len(head) + Len(fill)
        /\ \A i \in 1 .. Len(head) + Len(fill) :
               f[i] = IF i <= Len(head) THEN head[i] ELSE fill[i - Len(head)]
    <3>1. head \in Seq(Byte) /\ fill \in Seq(Byte)
      BY <2>2, <2>3
    <3> QED BY <3>1, ConcatProperties
  <2> HIDE DEF f
  <2>5. /\ f \in Seq(Byte) /\ Len(f) = 2 + n
        /\ \A i \in 1 .. 2 + n : f[i] = IF i <= 2 THEN head[i] ELSE fill[i - 2]
    BY <2>2, <2>3, <2>4
  <2>6. /\ f \o last \in Seq(Byte) /\ Len(f \o last) = Len(f) + Len(last)
        /\ \A i \in 1 .. Len(f) + Len(last) :
               (f \o last)[i] = IF i <= Len(f) THEN f[i] ELSE last[i - Len(f)]
    <3>1. f \in Seq(Byte) /\ last \in Seq(Byte)
      BY <2>2, <2>5
    <3> QED BY <3>1, ConcatProperties
  <2> DEFINE a == f \o last
  <2> HIDE DEF a
  <2>7. /\ a \in Seq(Byte) /\ Len(a) = (2 + n) + 2
        /\ \A i \in 1 .. (2 + n) + 2 : a[i] = IF i <= 2 + n THEN f[i] ELSE last[i - (2 + n)]
    BY <2>2, <2>5, <2>6 DEF a
  <2>8. Len(a) = n + 4
    BY <1>3, <2>7
  <2>9. a[1] = "IAC" /\ a[2] = "SB"
    <3>1. /\ 1 \in 1 .. (2 + n) + 2 /\ 1 <= 2 + n /\ 1 \in 1 .. 2 + n
          /\ 2 \in 1 .. (2 + n) + 2 /\ 2 <= 2 + n /\ 2 \in 1 .. 2 + n
      BY <1>3
    <3> QED BY <2>2, <2>5, <2>7, <3>1
  <2>10. a[n + 3] = "IAC" /\ a[n + 4] = "SE"
    <3>1. /\ n + 3 \in 1 .. (2 + n) + 2 /\ ~(n + 3 <= 2 + n) /\ (n + 3) - (2 + n) = 1
          /\ n + 4 \in 1 .. (2 + n) + 2 /\ ~(n + 4 <= 2 + n) /\ (n + 4) - (2 + n) = 2
      BY <1>3
    <3> QED BY <2>2, <2>7, <3>1
  <2>11. ASSUME NEW i \in 3 .. n + 2 PROVE a[i] = b
    <3>1. i \in 1 .. (2 + n) + 2 /\ i <= 2 + n /\ i \in 1 .. 2 + n /\ ~(i <= 2) /\ i - 2 \in 1 .. n
      BY <1>3
    <3> QED BY <2>3, <2>5, <2>7, <3>1
  <2>12. bytes = a
    BY DEF a, f, head, last
  <2> HIDE DEF bytes
  <2> QED BY <2>7, <2>8, <2>9, <2>10, <2>11, <2>12
<1>5. item = Wire(bytes, FALSE)
  BY <1>2
<1> HIDE DEF fill, front, bytes
<1> DEFINE R(st, k) == [st |-> st, n |-> k]
           run == [i \in 0 .. n + 4 |->
                      IF i = 0 THEN r
                      ELSE IF i = 1 THEN R("rx_iac", r.n)
                      ELSE IF i <= n + 2 THEN R("rx_sb", i - 2)
                      ELSE IF i = n + 3 THEN R("wait_for_se", n)
                      ELSE R("start", n)]
<1>6. r \in Reader /\ r.st = "start" /\ r.n \in 0 .. SubSize
  BY DEF Awaiting, Reader
<1>7. /\ \A st \in ReaderState : \A k \in 0 .. SubSize : R(st, k) \in Reader
      /\ \A st, k : R(st, k).st = st /\ R(st, k).n = k
  BY DEF Reader
<1>8. {"start", "rx_iac", "rx_sb", "wait_for_se"} \subseteq ReaderState
  BY DEF ReaderState
<1> HIDE DEF R
<1>9. run \in [0 .. n + 4 -> Reader]
  <2>1. \A i \in 0 .. n + 4 : i # 0 /\ i # 1 /\ i <= n + 2 => i - 2 \in 0 .. SubSize
    BY <1>3
  <2>2. n \in 0 .. SubSize
    BY <1>3
  <2> QED BY <1>6, <1>7, <1>8, <2>1, <2>2
<1>10. /\ run[0] = r /\ run[1] = R("rx_iac", r.n) /\ run[2] = R("rx_sb", 0)
       /\ \A i \in 2 .. n + 2 : run[i] = R("rx_sb", i - 2)
       /\ run[n + 3] = R("wait_for_se", n) /\ run[n + 4] = R("start", n)
  <2>1. /\ {0, 1, 2, n + 3, n + 4} \subseteq 0 .. n + 4
        /\ n + 3 # 0 /\ n + 3 # 1 /\ ~(n + 3 <= n + 2) /\ n + 4 # 0 /\ n + 4 # 1
        /\ ~(n + 4 <= n + 2) /\ n + 4 # n + 3 /\ 2 <= n + 2 /\ 2 - 2 = 0
    BY <1>3
  <2>2. \A i \in 2 .. n + 2 : i \in 0 .. n + 4 /\ i # 0 /\ i # 1 /\ i <= n + 2
    BY <1>3
  <2>3. run[0] = r /\ run[1] = R("rx_iac", r.n)
    BY <2>1
  <2>4. \A i \in 2 .. n + 2 : run[i] = R("rx_sb", i - 2)
    BY <2>2
  <2>5. 2 \in 2 .. n + 2
    BY <1>3
  <2>6. run[2] = R("rx_sb", 0)
    BY <2>1, <2>4, <2>5
  <2>7. run[n + 3] = R("wait_for_se", n) /\ run[n + 4] = R("start", n)
    BY <2>1
  <2> QED BY <2>3, <2>4, <2>6, <2>7
<1> HIDE DEF run
<1>11. /\ After(r, "IAC") = R("rx_iac", r.n) /\ ~Data(r, "IAC")
       /\ \A k : After(R("rx_iac", k), "SB") = R("rx_sb", 0) /\ ~Data(R("rx_iac", k), "SB")
       /\ \A k : After(R("rx_sb", k), "IAC") = R("wait_for_se", k) /\ ~Data(R("rx_sb", k), "IAC")
       /\ \A k : After(R("wait_for_se", k), "SE") = R("start", k) /\ ~Data(R("wait_for_se", k), "SE")
       /\ \A k : k < SubSize => After(R("rx_sb", k), b) = R("rx_sb", k + 1)
       /\ \A k : ~Data(R("rx_sb", k), b)
  BY <1>6 DEF R, After, Data
<1>12. ASSUME NEW i \in 1 .. n + 4
       PROVE  run[i] = After(run[i - 1], bytes[i]) /\ ~Data(run[i - 1], bytes[i])
  <2>1. CASE i = 1
    <3>1. i - 1 = 0
      BY <2>1
    <3> QED BY <1>4, <1>10, <1>11, <2>1, <3>1
  <2>2. CASE i = 2
    <3>1. i - 1 = 1
      BY <2>2
    <3> QED BY <1>4, <1>10, <1>11, <2>2, <3>1
  <2>3. CASE i \in 3 .. n + 2
    <3> DEFINE k == i - 3
    <3>1. /\ i \in 2 .. n + 2 /\ i - 1 \in 2 .. n + 2 /\ (i - 1) - 2 = k /\ i - 2 = k + 1
          /\ k < SubSize
      BY <1>3, <2>3
    <3> HIDE DEF k
    <3>2. run[i] = R("rx_sb", k + 1) /\ run[i - 1] = R("rx_sb", k) /\ bytes[i] = b
      BY <1>4, <1>10, <2>3, <3>1
    <3> QED BY <1>11, <3>1, <3>2
  <2>4. CASE i = n + 3
    <3>1. i - 1 = n + 2 /\ n + 2 \in 2 .. n + 2 /\ (n + 2) - 2 = n
      BY <1>3, <2>4
    <3>2. run[i - 1] = R("rx_sb", n)
      BY <1>10, <3>1
    <3> QED BY <1>4, <1>10, <1>11, <2>4, <3>2
  <2>5. CASE i = n + 4
    <3>1. i - 1 = n + 3
      BY <1>3, <2>5
    <3> QED BY <1>4, <1>10, <1>11, <2>5, <3>1
  <2>6. i = 1 \/ i = 2 \/ i \in 3 .. n + 2 \/ i = n + 3 \/ i = n + 4
    BY <1>3
  <2> QED BY <2>1, <2>2, <2>3, <2>4, <2>5, <2>6
<1>13. /\ KeysIn(Wire(bytes, FALSE)) = <<>>
       /\ Understood(Wire(bytes, FALSE), run[0], run[Len(bytes)])
  BY <1>4, <1>9, <1>12, Silent
<1>14. R("start", n) \in Awaiting
  <2>1. n \in 0 .. SubSize
    BY <1>3
  <2> QED BY <1>7, <1>8, <2>1 DEF Awaiting
<1> QED BY <1>4, <1>5, <1>10, <1>13, <1>14

-----------------------------------------------------------------------------
(* The line editor. *)

(* The line being edited. *)
Typed == SubSeq(cmdBuffer, 1, ndx)

(* What holds of the line between any two bytes: no 0 stands in it, so     *)
(* the terminating one is the first, and the terminal shows it unless a    *)
(* byte 0xFF was echoed.                                                   *)
LineInv ==
    /\ cmdBuffer \in [1 .. MaxLine + 1 -> Byte]
    /\ ndx \in 0 .. MaxLine
    /\ ran \in Seq(Byte) /\ screen \in Seq(Byte) /\ lost \in BOOLEAN
    /\ \A i \in 1 .. ndx : cmdBuffer[i] # "NUL"
    /\ ~lost => screen = Typed

LEMMA Uint8Small == \A n \in 0 .. 255 : Uint8(n) = n
  BY DEF Uint8

LEMMA TypedFacts ==
    ASSUME LineInv
    PROVE  /\ Typed \in Seq(Byte) /\ Len(Typed) = ndx
           /\ \A i \in 1 .. ndx : Typed[i] = cmdBuffer[i]
  BY PrefixFacts DEF LineInv, Typed

(* A sequence of the first n bytes of the buffer is its prefix.            *)
LEMMA PrefixOfLen ==
    ASSUME NEW buf \in [1 .. MaxLine + 1 -> Byte], NEW n \in 0 .. MaxLine,
           NEW p \in Seq(Byte), Len(p) = n, \A i \in 1 .. n : p[i] = buf[i]
    PROVE  SubSeq(buf, 1, n) = p
<1> DEFINE q == SubSeq(buf, 1, n)
<1>1. q \in Seq(Byte) /\ Len(q) = n /\ \A i \in 1 .. n : q[i] = buf[i]
  BY PrefixFacts
<1> HIDE DEF q
<1>2. q = p
  BY <1>1, SeqEqual
<1> QED BY <1>2 DEF q

(* Erasing takes the last byte off the line.                               *)
LEMMA RubKeeps ==
    ASSUME LineInv, Rub
    PROVE  /\ LineInv' /\ ran' = ran
           /\ Typed' = IF ndx > 0 THEN SubSeq(Typed, 1, ndx - 1) ELSE Typed
<1>1. CASE ndx > 0
  <2>1. ndx' = ndx - 1 /\ ndx - 1 \in 0 .. MaxLine /\ ndx \in Nat
    <3>1. ndx - 1 \in 0 .. 255 /\ ndx - 1 \in 0 .. MaxLine /\ ndx \in Nat
      BY <1>1, SizesAssumption DEF LineInv
    <3>2. ndx' = Uint8(ndx - 1)
      BY <1>1 DEF Rub
    <3> QED BY <3>1, <3>2, Uint8Small
  <2>2. /\ cmdBuffer' = cmdBuffer /\ ran' = ran /\ lost' = lost
        /\ screen' = IF lost THEN screen ELSE Front(screen)
    BY <1>1 DEF Rub
  <2> DEFINE s == SubSeq(Typed, 1, ndx - 1)
  <2>3. s \in Seq(Byte) /\ Len(s) = ndx - 1 /\ \A i \in 1 .. ndx - 1 : s[i] = Typed[i]
    <3> HIDE DEF s
    <3>1. 1 \in Int /\ ndx - 1 \in Int /\ \A i \in 1 .. ndx - 1 : Typed[i] \in Byte
      BY <2>1, TypedFacts, ElementOfSeq
    <3>2. /\ s \in Seq(Byte)
          /\ Len(s) = IF 1 <= ndx - 1 THEN ndx - 1 - 1 + 1 ELSE 0
          /\ \A i \in 1 .. ndx - 1 - 1 + 1 : s[i] = Typed[1 + i - 1]
      BY <3>1, SubSeqProperties DEF s
    <3> QED BY <1>1, <2>1, <3>2
  <2>4. Typed' = s
    <3> HIDE DEF s
    <3>1. cmdBuffer \in [1 .. MaxLine + 1 -> Byte] /\ \A i \in 1 .. ndx - 1 : s[i] = cmdBuffer[i]
      BY <2>1, <2>3, TypedFacts DEF LineInv
    <3>2. SubSeq(cmdBuffer, 1, ndx - 1) = s
      BY <2>1, <2>3, <3>1, PrefixOfLen
    <3> QED BY <2>1, <2>2, <3>2 DEF Typed
  <2>5. screen' \in Seq(Byte) /\ (~lost' => screen' = Typed')
    <3>1. CASE lost
      BY <2>2, <3>1 DEF LineInv
    <3>2. CASE ~lost
      <4>1. screen = Typed /\ screen' = Front(screen) /\ Len(Typed) = ndx
        BY <2>2, <3>2, TypedFacts DEF LineInv
      <4>2. screen' = s
        BY <4>1 DEF Front
      <4> HIDE DEF s
      <4> QED BY <2>3, <2>4, <4>2
    <3> QED BY <3>1, <3>2
  <2>6. \A i \in 1 .. ndx' : cmdBuffer'[i] # "NUL"
    BY <2>1, <2>2 DEF LineInv
  <2>7. LineInv'
    BY <2>1, <2>2, <2>5, <2>6 DEF LineInv
  <2> QED BY <1>1, <2>2, <2>4, <2>7
<1>2. CASE ~(ndx > 0)
  BY <1>2 DEF Rub, LineInv, lineVars, Typed
<1> QED BY <1>1, <1>2

(* A character is put behind the line.                                     *)
LEMMA TypeKeeps ==
    ASSUME NEW b \in Byte \ {"NUL"}, LineInv, ndx < MaxLine, Type(b)
    PROVE  LineInv' /\ ran' = ran /\ Typed' = Append(Typed, b)
<1>1. ndx' = ndx + 1 /\ ndx + 1 \in 0 .. MaxLine /\ ndx \in Nat
  <2>1. ndx + 1 \in 0 .. 255 /\ ndx + 1 \in 0 .. MaxLine /\ ndx \in Nat
    BY SizesAssumption DEF LineInv
  <2>2. ndx' = Uint8(ndx + 1)
    BY DEF Type
  <2> QED BY <2>1, <2>2, Uint8Small
<1>2. /\ lost' = (lost \/ b = "IAC") /\ ran' = ran
      /\ screen' = IF lost' THEN <<>> ELSE Append(screen, b)
  BY DEF Type, Echo
<1>3. /\ cmdBuffer' \in [1 .. MaxLine + 1 -> Byte]
      /\ cmdBuffer'[ndx + 1] = b
      /\ \A i \in 1 .. ndx : cmdBuffer'[i] = cmdBuffer[i]
  BY <1>1, SizesAssumption DEF Type, LineInv
<1> DEFINE s == Append(Typed, b)
<1>4. s \in Seq(Byte) /\ Len(s) = ndx + 1 /\ s[ndx + 1] = b /\ \A i \in 1 .. ndx : s[i] = Typed[i]
  BY TypedFacts, AppendProperties
<1>5. \A i \in 1 .. ndx + 1 : i \in 1 .. ndx \/ i = ndx + 1
  BY <1>1
<1> HIDE DEF s
<1>6. Typed' = s
  <2>1. \A i \in 1 .. ndx + 1 : s[i] = cmdBuffer'[i]
    BY <1>3, <1>4, <1>5, TypedFacts
  <2>2. SubSeq(cmdBuffer', 1, ndx + 1) = s
    BY <1>1, <1>3, <1>4, <2>1, PrefixOfLen
  <2> QED BY <1>1, <2>2 DEF Typed
<1>7. \A i \in 1 .. ndx' : cmdBuffer'[i] # "NUL"
  BY <1>1, <1>3, <1>5 DEF LineInv
<1>8. screen' \in Seq(Byte) /\ lost' \in BOOLEAN /\ (~lost' => screen' = Typed')
  <2>1. CASE lost'
    BY <1>2, <2>1 DEF LineInv
  <2>2. CASE ~lost'
    <3>1. ~lost /\ screen = Typed /\ screen' = Append(screen, b)
      BY <1>2, <2>2 DEF LineInv
    <3> QED BY <1>2, <1>4, <1>6, <2>2, <3>1 DEF s, LineInv
  <2> QED BY <2>1, <2>2
<1>9. LineInv'
  BY <1>1, <1>2, <1>3, <1>7, <1>8 DEF LineInv
<1> QED BY <1>2, <1>6, <1>9 DEF s

(* Enter executes the line.                                                *)
LEMMA EnterFacts ==
    ASSUME LineInv, Enter
    PROVE  LineInv' /\ ran' = Typed /\ Typed' = <<>>
<1>1. /\ ndx \in Nat /\ MaxLine \in Nat /\ ndx + 1 \in 1 .. MaxLine + 1
      /\ \A i \in 1 .. ndx : i \in 1 .. MaxLine + 1 /\ i # ndx + 1
  BY SizesAssumption DEF LineInv
<1>2. /\ cmdBuffer' \in [1 .. MaxLine + 1 -> Byte]
      /\ cmdBuffer'[ndx + 1] = "NUL"
      /\ \A i \in 1 .. ndx : cmdBuffer'[i] = cmdBuffer[i]
  <2>1. "NUL" \in Byte
    BY DEF Byte
  <2>2. cmdBuffer' = [cmdBuffer EXCEPT ![ndx + 1] = "NUL"]
    BY DEF Enter
  <2> QED BY <1>1, <2>1, <2>2 DEF LineInv
<1>3. ran' = SubSeq(cmdBuffer', 1, ndx)
  <2>1. \A i \in 1 .. ndx : cmdBuffer'[i] # "NUL"
    BY <1>2 DEF LineInv
  <2>2. ran' = CString(cmdBuffer') /\ ndx \in 0 .. MaxLine
    BY DEF Enter, LineInv
  <2> QED BY <1>2, <2>1, <2>2, CStringIsPrefix
<1>4. ran' = Typed
  <2>1. Typed \in Seq(Byte) /\ Len(Typed) = ndx /\ \A i \in 1 .. ndx : Typed[i] = cmdBuffer'[i]
    BY <1>2, TypedFacts
  <2>2. ndx \in 0 .. MaxLine
    BY DEF LineInv
  <2>3. SubSeq(cmdBuffer', 1, ndx) = Typed
    BY <1>2, <2>1, <2>2, PrefixOfLen
  <2> QED BY <1>3, <2>3
<1>5. ndx' = 0 /\ screen' = <<>> /\ lost' \in BOOLEAN /\ 0 \in 0 .. MaxLine /\ 1 .. 0 = {}
  <2>1. lost' \in {lost, FALSE} /\ ndx' = 0 /\ screen' = <<>>
    BY DEF Enter
  <2>2. 0 \in 0 .. MaxLine /\ 1 .. 0 = {}
    BY <1>1
  <2> QED BY <2>1, <2>2 DEF LineInv
<1>6. Typed' = <<>>
  <2>1. <<>> \in Seq(Byte) /\ Len(<<>>) = 0
    OBVIOUS
  <2>2. SubSeq(cmdBuffer', 1, 0) = <<>>
    BY <1>2, <1>5, <2>1, PrefixOfLen
  <2> QED BY <1>5, <2>2 DEF Typed
<1>7. ran' \in Seq(Byte) /\ screen' \in Seq(Byte)
  BY <1>4, <1>5, TypedFacts
<1> QED BY <1>2, <1>4, <1>5, <1>6, <1>7 DEF LineInv

LEMMA LineUnchanged == LineInv /\ UNCHANGED lineVars => LineInv' /\ Typed' = Typed
  BY DEF LineInv, lineVars, Typed

LEMMA DatabackKeeps ==
    ASSUME NEW b \in Byte, LineInv, Databack(b)
    PROVE  LineInv'
<1>1. CASE UNCHANGED lineVars
  BY <1>1, LineUnchanged
<1>2. CASE b # "NUL" /\ HandleRx(b)
  <2>1. CASE Enter
    BY <2>1, EnterFacts
  <2>2. CASE ndx < MaxLine /\ Rub
    BY <2>2, RubKeeps
  <2>3. CASE ndx < MaxLine /\ Type(b)
    BY <1>2, <2>3, TypeKeeps
  <2> QED BY <1>1, <1>2, <2>1, <2>2, <2>3 DEF HandleRx
<1> QED BY <1>1, <1>2 DEF Databack

-----------------------------------------------------------------------------
(* The invariant. *)

ReaderInv == state \in ReaderState /\ bufNdx \in 0 .. SubSize

SessionInv ==
    /\ up \in BOOLEAN /\ wire \in Seq(WireByte)
    /\ ReaderInv
    /\ LineInv

LEMMA SessionInit == Init => SessionInv
<1> SUFFICES ASSUME Init PROVE SessionInv
  OBVIOUS
<1>1. up \in BOOLEAN /\ wire \in Seq(WireByte)
  BY EmptySeq DEF Init
<1>2. ReaderInv
  BY SizesAssumption DEF Init, Fresh, ReaderInv, ReaderState
<1>3. LineInv
  <2>1. "NUL" \in Byte /\ 0 \in 0 .. MaxLine /\ 1 .. 0 = {}
    BY SizesAssumption DEF Byte
  <2>2. cmdBuffer \in [1 .. MaxLine + 1 -> Byte]
    BY <2>1 DEF Init, Fresh
  <2>3. Typed = <<>>
    <3>1. <<>> \in Seq(Byte) /\ Len(<<>>) = 0
      OBVIOUS
    <3>2. SubSeq(cmdBuffer, 1, 0) = <<>>
      BY <2>1, <2>2, <3>1, PrefixOfLen
    <3> QED BY <3>2 DEF Init, Fresh, Typed
  <2>4. ndx = 0 /\ ran = <<>> /\ screen = <<>> /\ lost \in BOOLEAN
    BY DEF Init, Fresh
  <2>5. \A i \in 1 .. ndx : cmdBuffer[i] # "NUL"
    BY <2>1, <2>4
  <2>6. <<>> \in Seq(Byte)
    OBVIOUS
  <2> QED BY <2>1, <2>2, <2>3, <2>4, <2>5, <2>6 DEF LineInv
<1> QED BY <1>1, <1>2, <1>3 DEF SessionInv

LEMMA FeedKeeps == SessionInv /\ Feed => SessionInv'
<1> SUFFICES ASSUME SessionInv, Feed PROVE SessionInv'
  OBVIOUS
<1> DEFINE d == Head(wire).b
<1>1. d \in Byte /\ wire' \in Seq(WireByte) /\ up' \in BOOLEAN
  <2>1. wire \in Seq(WireByte) /\ wire # <<>>
    BY DEF SessionInv, Feed
  <2>2. Head(wire) \in WireByte /\ Tail(wire) \in Seq(WireByte)
    BY <2>1, HeadTailProperties
  <2> QED BY <2>2 DEF WireByte, Feed, SessionInv
<1>2. ReaderInv' /\ LineInv'
  <2>1. Start(d) \/ RxIac(d) \/ RxOption \/ RxSub(d) \/ WaitForSe
    BY DEF Feed
  <2> HIDE DEF d
  <2>2. ReaderInv /\ LineInv
    BY DEF SessionInv
  <2>3. CASE Start(d)
    <3>1. ReaderInv'
      BY <2>2, <2>3 DEF Start, MoveState, ReaderInv, ReaderState
    <3>2. Databack(d) \/ UNCHANGED lineVars
      BY <2>3 DEF Start
    <3> QED BY <1>1, <2>2, <3>1, <3>2, DatabackKeeps, LineUnchanged
  <2>4. CASE RxIac(d)
    <3>1. ReaderInv'
      BY <2>2, <2>4, SizesAssumption DEF RxIac, MoveState, ReaderInv, ReaderState
    <3>2. Databack(d) \/ UNCHANGED lineVars
      BY <2>4 DEF RxIac
    <3> QED BY <1>1, <2>2, <3>1, <3>2, DatabackKeeps, LineUnchanged
  <2>5. CASE RxOption
    BY <2>2, <2>5, LineUnchanged DEF RxOption, MoveState, ReaderInv, ReaderState
  <2>6. CASE RxSub(d)
    <3>1. UNCHANGED lineVars /\ state' \in ReaderState
      BY <2>6 DEF RxSub, MoveState, ReaderState
    <3>2. bufNdx' \in 0 .. SubSize
      <4>1. bufNdx' = bufNdx \/ (bufNdx < SubSize /\ bufNdx' = Uint8(bufNdx + 1))
        BY <2>6 DEF RxSub
      <4>2. bufNdx < SubSize => bufNdx + 1 \in 0 .. 255 /\ bufNdx + 1 \in 0 .. SubSize
        BY <2>2, SizesAssumption DEF ReaderInv
      <4> QED BY <2>2, <4>1, <4>2, Uint8Small DEF ReaderInv
    <3> QED BY <2>2, <3>1, <3>2, LineUnchanged DEF ReaderInv
  <2>7. CASE WaitForSe
    BY <2>2, <2>7, LineUnchanged DEF WaitForSe, MoveState, ReaderInv, ReaderState
  <2> QED BY <2>1, <2>3, <2>4, <2>5, <2>6, <2>7
<1> QED BY <1>1, <1>2 DEF SessionInv

LEMMA AcceptKeepsInv == SessionInv /\ Accept => SessionInv' /\ Typed' = <<>>
<1> SUFFICES ASSUME SessionInv, Accept PROVE SessionInv' /\ Typed' = <<>>
  OBVIOUS
<1>1. up' \in BOOLEAN /\ wire' \in Seq(WireByte)
  BY DEF Accept
<1>2. ReaderInv'
  BY SizesAssumption DEF Accept, ReaderInv, ReaderState
<1>3. LineInv' /\ Typed' = <<>>
  <2>1. "NUL" \in Byte /\ 0 \in 0 .. MaxLine /\ 1 .. 0 = {}
    BY SizesAssumption DEF Byte
  <2>2. cmdBuffer' \in [1 .. MaxLine + 1 -> Byte]
    BY <2>1 DEF Accept, SessionInv, LineInv
  <2>3. Typed' = <<>>
    <3>1. <<>> \in Seq(Byte) /\ Len(<<>>) = 0
      OBVIOUS
    <3>2. SubSeq(cmdBuffer', 1, 0) = <<>>
      BY <2>1, <2>2, <3>1, PrefixOfLen
    <3> QED BY <3>2 DEF Accept, Typed
  <2>4. ndx' = 0 /\ ran' = <<>> /\ screen' = <<>> /\ lost' \in BOOLEAN
    BY DEF Accept
  <2>5. \A i \in 1 .. ndx' : cmdBuffer'[i] # "NUL"
    BY <2>1, <2>4
  <2>6. <<>> \in Seq(Byte)
    OBVIOUS
  <2> QED BY <2>1, <2>2, <2>3, <2>4, <2>5, <2>6 DEF LineInv
<1> QED BY <1>1, <1>2, <1>3 DEF SessionInv

LEMMA SessionStep == SessionInv /\ [Next]_vars => SessionInv'
<1> SUFFICES ASSUME SessionInv, [Next]_vars PROVE SessionInv'
  OBVIOUS
<1>1. CASE Accept
  BY <1>1, AcceptKeepsInv
<1>2. CASE Dealloc
  <2>1. up' \in BOOLEAN /\ wire' \in Seq(WireByte)
    BY <1>2, EmptySeq DEF Dealloc
  <2> QED BY <1>2, <2>1, LineUnchanged DEF Dealloc, SessionInv, ReaderInv, readerVars
<1>3. CASE Feed
  BY <1>3, FeedKeeps
<1>4. CASE Send
  <2>1. PICK item \in Item : wire' = wire \o item
    BY <1>4 DEF Send
  <2>2. wire \in Seq(WireByte) /\ item \in Seq(WireByte)
    BY <2>1, ItemType DEF SessionInv
  <2>3. wire' \in Seq(WireByte)
    BY <2>1, <2>2, ConcatProperties
  <2> QED BY <1>4, <2>3, LineUnchanged DEF Send, SessionInv, ReaderInv, readerVars
<1>5. CASE UNCHANGED vars
  BY <1>5 DEF vars, SessionInv, ReaderInv, LineInv, Typed
<1> QED BY <1>1, <1>2, <1>3, <1>4, <1>5 DEF Next

(* What is proved inductive: the types, no 0 inside the line, and the      *)
(* terminal showing it as long as cli.c has echoed no byte 0xFF.           *)
THEOREM SessionInvariant == Spec => []SessionInv
  BY SessionInit, SessionStep, PTL DEF Spec

(* Every variable has its type; in particular neither index of             *)
(* telnet_reader.c and cli.c leaves its buffer.                            *)
THEOREM TypeCorrect == Spec => []TypeOK
<1>1. SessionInv => TypeOK
  BY DEF SessionInv, ReaderInv, LineInv, TypeOK, WireByte
<1> QED BY <1>1, SessionInvariant, PTL

(* What is executed is what the terminal showed, unless a byte 0xFF was    *)
(* echoed and taken for the start of a telnet command.                     *)
THEOREM ShownIsExecuted == Spec => ExecutesWhatIsShown
<1>1. SessionInv /\ [Next]_vars => [ran' \in {ran, screen} \/ lost \/ ~up]_vars
  <2> SUFFICES ASSUME SessionInv, Next, ~lost, up PROVE ran' \in {ran, screen}
    OBVIOUS
  <2>1. CASE UNCHANGED lineVars
    BY <2>1 DEF lineVars
  <2>2. CASE Enter
    BY <2>2, EnterFacts DEF SessionInv, LineInv
  <2>3. ASSUME NEW b, Databack(b) PROVE ran' \in {ran, screen}
    BY <2>1, <2>2, <2>3 DEF Databack, HandleRx, Rub, Type
  <2>4. CASE Feed
    <3> DEFINE d == Head(wire).b
    <3>1. Start(d) \/ RxIac(d) \/ RxOption \/ RxSub(d) \/ WaitForSe
      BY <2>4 DEF Feed
    <3> HIDE DEF d
    <3>2. Databack(d) \/ UNCHANGED lineVars
      BY <3>1 DEF Start, RxIac, RxOption, RxSub, WaitForSe
    <3> QED BY <2>1, <2>3, <3>2
  <2>5. CASE Accept
    BY <2>5 DEF Accept
  <2>6. CASE Dealloc \/ Send
    BY <2>1, <2>6 DEF Dealloc, Send
  <2> QED BY <2>4, <2>5, <2>6 DEF Next
<1> QED BY <1>1, SessionInvariant, PTL DEF Spec, ExecutesWhatIsShown
-----------------------------------------------------------------------------
(* The session is a command line. *)

Current == [st |-> state, n |-> bufNdx]

(* What has arrived takes the reader back to where a key is a key, and     *)
(* what it will hand to the editor on the way are the keys.                *)
InStep ==
    /\ up => \E s \in Awaiting : Understood(wire, Current, s)
    /\ ~up => wire = <<>>

LEMMA CurrentType == ReaderInv => Current \in Reader
  BY DEF ReaderInv, Current, Reader

(* One byte: the reader moves on, and the editor has it if it is data.     *)
LEMMA FeedReads ==
    ASSUME SessionInv, Feed
    PROVE  /\ Current' = After(Current, Head(wire).b)
           /\ IF Data(Current, Head(wire).b) THEN HandleRx(Head(wire).b) ELSE UNCHANGED lineVars
<1> DEFINE d == Head(wire).b
<1>1. Start(d) \/ RxIac(d) \/ RxOption \/ RxSub(d) \/ WaitForSe
  BY DEF Feed
<1> HIDE DEF d
<1>2. /\ state \in ReaderState /\ bufNdx \in 0 .. SubSize
      /\ bufNdx < SubSize => Uint8(bufNdx + 1) = bufNdx + 1
  <2>1. state \in ReaderState /\ bufNdx \in 0 .. SubSize
    BY DEF SessionInv, ReaderInv
  <2>2. bufNdx < SubSize => bufNdx + 1 \in 0 .. 255
    BY <2>1, SizesAssumption
  <2> QED BY <2>1, <2>2, Uint8Small
<1>3. Current.st = state /\ Current.n = bufNdx
  BY DEF Current
<1>4. /\ state' = After(Current, d).st /\ bufNdx' = After(Current, d).n
      /\ IF Data(Current, d) THEN HandleRx(d) ELSE UNCHANGED lineVars
  <2>1. CASE Start(d)
    BY <1>3, <2>1 DEF Start, MoveState, Databack, After, Data
  <2>2. CASE RxIac(d)
    <3>1. state = "rx_iac" /\ (IF d = "IAC" THEN Databack(d) ELSE UNCHANGED lineVars)
      BY <2>2 DEF RxIac
    <3>2. IF Data(Current, d) THEN HandleRx(d) ELSE UNCHANGED lineVars
      BY <1>3, <3>1 DEF Databack, Data
    <3>3. state' = After(Current, d).st /\ bufNdx' = After(Current, d).n
      BY <1>3, <2>2 DEF RxIac, MoveState, After
    <3> QED BY <3>2, <3>3
  <2>3. CASE RxOption
    BY <1>3, <2>3 DEF RxOption, MoveState, After, Data
  <2>4. CASE RxSub(d)
    <3>1. UNCHANGED lineVars /\ ~Data(Current, d)
      BY <1>3, <2>4 DEF RxSub, Data
    <3>2. state' = After(Current, d).st
      BY <1>3, <2>4 DEF RxSub, MoveState, After
    <3>3. bufNdx' = After(Current, d).n
      BY <1>2, <1>3, <2>4 DEF RxSub, After
    <3> QED BY <3>1, <3>2, <3>3
  <2>5. CASE WaitForSe
    BY <1>3, <2>5 DEF WaitForSe, MoveState, After, Data
  <2> QED BY <1>1, <2>1, <2>2, <2>3, <2>4, <2>5
<1>5. After(Current, d) = [st |-> After(Current, d).st, n |-> After(Current, d).n]
  BY DEF After
<1> QED BY <1>4, <1>5 DEF Current, d

LEMMA ItemRead ==
    ASSUME NEW item \in Item, NEW r \in Awaiting
    PROVE  \E s \in Awaiting : Understood(item, r, s)
<1>1. CASE item \in Keystroke
  BY <1>1, KeystrokeRead
<1>2. CASE item \in Subnegotiation
  BY <1>2, SubnegotiationRead
<1>3. CASE item \in Negotiation \union {Wire(<<"NUL">>, FALSE), Wire(<<"IAC", "NOP">>, FALSE)}
  BY <1>3, CommandRead
<1> QED BY <1>1, <1>2, <1>3 DEF Item

LEMMA ItemKeys ==
    ASSUME NEW item \in Item
    PROVE  \/ KeysIn(item) = <<>>
           \/ \E k \in Chars \union {"IAC", "CR", "BS"} : KeysIn(item) = <<k>>
<1>1. [st |-> "start", n |-> 0] \in Awaiting
  BY SizesAssumption DEF Awaiting, Reader, ReaderState
<1>2. CASE item \in Keystroke
  BY <1>1, <1>2, KeystrokeRead
<1>3. CASE item \in Subnegotiation
  BY <1>1, <1>3, SubnegotiationRead
<1>4. CASE item \in Negotiation \union {Wire(<<"NUL">>, FALSE), Wire(<<"IAC", "NOP">>, FALSE)}
  BY <1>1, <1>4, CommandRead
<1> QED BY <1>2, <1>3, <1>4 DEF Item

LEMMA InStepInit == Init => InStep
  BY DEF Init, InStep

LEMMA InStepKeeps == SessionInv /\ InStep /\ [Next]_vars => InStep'
<1> SUFFICES ASSUME SessionInv, InStep, [Next]_vars PROVE InStep'
  OBVIOUS
<1>1. CASE Accept
  <2>1. up' = TRUE /\ wire' = <<>> /\ Current' = [st |-> "start", n |-> 0]
    BY <1>1 DEF Accept, Current
  <2>2. Current' \in Awaiting /\ Current' \in Reader
    BY <2>1, SizesAssumption DEF Awaiting, Reader, ReaderState
  <2> DEFINE c == Current'
  <2> HIDE DEF c
  <2>3. c \in Reader
    BY <2>2 DEF c
  <2>4. Understood(<<>>, c, c)
    BY <2>3, UnderstoodEmpty
  <2> QED BY <2>1, <2>2, <2>4 DEF InStep, c
<1>2. CASE Dealloc
  BY <1>2 DEF Dealloc, InStep
<1>3. CASE Feed
  <2>1. up /\ up' = up /\ wire # <<>> /\ wire' = Tail(wire) /\ wire \in Seq(WireByte)
    BY <1>3 DEF Feed, SessionInv
  <2>2. PICK s \in Awaiting : Understood(wire, Current, s)
    BY <2>1 DEF InStep
  <2>3. Understood(Tail(wire), After(Current, Head(wire).b), s)
    BY <2>1, <2>2, UnderstoodFirst
  <2>4. Current' = After(Current, Head(wire).b)
    BY <1>3, FeedReads
  <2>5. Understood(wire', Current', s)
    BY <2>1, <2>3, <2>4
  <2> QED BY <2>1, <2>5 DEF InStep
<1>4. CASE Send
  <2>1. PICK item \in Item : wire' = wire \o item
    BY <1>4 DEF Send
  <2>2. up /\ up' = up /\ Current' = Current
    BY <1>4 DEF Send, Current, readerVars
  <2>3. PICK s \in Awaiting : Understood(wire, Current, s)
    BY <2>2 DEF InStep
  <2>4. PICK t \in Awaiting : Understood(item, s, t)
    BY ItemRead
  <2>5. wire \in Seq(WireByte) /\ item \in Seq(WireByte)
    BY ItemType DEF SessionInv
  <2>6. Understood(wire \o item, Current, t)
    BY <2>3, <2>4, <2>5, UnderstoodConcat
  <2>7. Understood(wire', Current', t)
    BY <2>1, <2>2, <2>6
  <2> QED BY <2>2, <2>7 DEF InStep
<1>5. CASE UNCHANGED vars
  <2>1. up' = up /\ wire' = wire /\ Current' = Current
    BY <1>5 DEF vars, Current
  <2> QED BY <2>1 DEF InStep
<1> QED BY <1>1, <1>2, <1>3, <1>4, <1>5 DEF Next

Line == IF up THEN Typed ELSE <<>>
Ran == IF up THEN ran ELSE <<>>

(* A key is interpreted as CommandLine has it.                             *)
LEMMA KeyInterpreted ==
    ASSUME LineInv, NEW d \in Byte \ {"NUL"}, HandleRx(d)
    PROVE  IF d = "CR" THEN ran' = Typed /\ Typed' = <<>>
           ELSE ran' = ran /\ Typed' = IF Len(Typed) = MaxLine THEN Typed
                                       ELSE IF d # "BS" THEN Append(Typed, d)
                                       ELSE IF Typed = <<>> THEN Typed
                                       ELSE SubSeq(Typed, 1, Len(Typed) - 1)
<1>1. ndx \in Nat /\ MaxLine \in Nat /\ ndx <= MaxLine /\ Len(Typed) = ndx /\ Typed \in Seq(Byte)
  BY SizesAssumption, TypedFacts DEF LineInv
<1>2. CASE d = "CR"
  <2>1. Enter
    BY <1>2 DEF HandleRx
  <2> QED BY <1>2, <2>1, EnterFacts
<1>3. CASE d # "CR" /\ ~(ndx < MaxLine)
  <2>1. Len(Typed) = MaxLine
    BY <1>1, <1>3
  <2>2. UNCHANGED lineVars
    BY <1>3 DEF HandleRx
  <2>3. Typed' = Typed /\ ran' = ran
    BY <2>2, LineUnchanged DEF lineVars
  <2> QED BY <1>3, <2>1, <2>3
<1>4. CASE d # "CR" /\ ndx < MaxLine /\ d # "BS"
  <2>1. Len(Typed) # MaxLine
    BY <1>1, <1>4
  <2>2. Type(d)
    BY <1>4 DEF HandleRx
  <2>3. Typed' = Append(Typed, d) /\ ran' = ran
    BY <1>4, <2>2, TypeKeeps
  <2> QED BY <1>4, <2>1, <2>3
<1>5. CASE d # "CR" /\ ndx < MaxLine /\ d = "BS"
  <2>1. Len(Typed) # MaxLine /\ (ndx > 0 <=> Typed # <<>>)
    BY <1>1, <1>5
  <2>2. Rub
    BY <1>5 DEF HandleRx
  <2>3. ran' = ran /\ Typed' = IF ndx > 0 THEN SubSeq(Typed, 1, ndx - 1) ELSE Typed
    BY <2>2, RubKeeps
  <2> QED BY <1>1, <1>5, <2>1, <2>3
<1> QED BY <1>2, <1>3, <1>4, <1>5

LEMMA FirstKey ==
    ASSUME NEW w \in Seq(WireByte), w # <<>>
    PROVE  IF Head(w).key
           THEN /\ KeysIn(w) # <<>>
                /\ Head(KeysIn(w)) = Head(w).b /\ Tail(KeysIn(w)) = KeysIn(Tail(w))
           ELSE KeysIn(w) = KeysIn(Tail(w))
<1> DEFINE x == Head(w)
           v == <<x>>
           u == Tail(w)
<1>1. x \in WireByte /\ v \in Seq(WireByte) /\ u \in Seq(WireByte) /\ w = v \o u
  OBVIOUS
<1>2. KeysIn(w) = KeysIn(v) \o KeysIn(u)
  BY <1>1, KeysOfConcat
<1>3. KeysIn(v) = IF x.key THEN <<x.b>> ELSE <<>>
  BY <1>1, KeysOfOne
<1>4. KeysIn(u) \in Seq(Byte) /\ x.b \in Byte
  BY <1>1, KeysType DEF WireByte
<1> HIDE DEF x, u, v
<1> DEFINE q == KeysIn(u)
           b == x.b
<1> HIDE DEF q, b
<1>5. q \in Seq(Byte) /\ b \in Byte
  BY <1>4 DEF q, b
<1>6. <<b>> \o q # <<>> /\ Head(<<b>> \o q) = b /\ Tail(<<b>> \o q) = q /\ <<>> \o q = q
  BY <1>5
<1>7. IF x.key THEN KeysIn(w) = <<b>> \o q ELSE KeysIn(w) = <<>> \o q
  BY <1>2, <1>3 DEF q, b
<1>8. IF x.key THEN KeysIn(w) # <<>> /\ Head(KeysIn(w)) = b /\ Tail(KeysIn(w)) = q
               ELSE KeysIn(w) = q
  BY <1>6, <1>7
<1> QED BY <1>8 DEF b, q, u, x

(* Every step of the session is one of the command line, or none.          *)
LEMMA SessionImplements ==
    SessionInv /\ SessionInv' /\ InStep /\ [Next]_vars => [Session!Next]_(Session!vars)
<1> SUFFICES ASSUME SessionInv, SessionInv', InStep, [Next]_vars
             PROVE  Session!Next \/ UNCHANGED <<Keys, Line, Ran>>
  BY DEF Session!vars, Line, Ran, Typed
<1>2. CASE Accept
  <2>1. Keys' = <<>>
    <3>1. wire' = <<>>
      BY <1>2 DEF Accept
    <3>2. KeysIn(<<>>) = <<>>
      <4>1. <<>> \in Seq(WireByte) /\ 1 .. Len(<<>>) = {}
        OBVIOUS
      <4> QED BY <4>1, KeysOfNone
    <3> QED BY <3>1, <3>2 DEF Keys
  <2>2. Line' = <<>> /\ Ran' = <<>>
    BY <1>2, AcceptKeepsInv DEF Accept, Line, Ran
  <2> QED BY <2>1, <2>2 DEF Session!Next, Session!HangUp, Line, Ran, Typed
<1>3. CASE Dealloc
  <2>1. Keys' = <<>>
    <3>1. wire' = <<>>
      BY <1>3 DEF Dealloc
    <3>2. KeysIn(<<>>) = <<>>
      <4>1. <<>> \in Seq(WireByte) /\ 1 .. Len(<<>>) = {}
        OBVIOUS
      <4> QED BY <4>1, KeysOfNone
    <3> QED BY <3>1, <3>2 DEF Keys
  <2>2. Line' = <<>> /\ Ran' = <<>>
    BY <1>3 DEF Dealloc, Line, Ran
  <2> QED BY <2>1, <2>2 DEF Session!Next, Session!HangUp, Line, Ran, Typed
<1>4. CASE Feed
  <2> DEFINE d == Head(wire).b
  <2>1. up /\ up' = up /\ wire # <<>> /\ wire' = Tail(wire) /\ wire \in Seq(WireByte)
    BY <1>4 DEF Feed, SessionInv
  <2>2. d \in Byte
    <3>1. Head(wire) \in WireByte
      BY <2>1, HeadTailProperties
    <3> QED BY <3>1 DEF WireByte
  <2>3. Head(wire).key <=> Data(Current, d)
    <3>1. PICK s \in Awaiting : Understood(wire, Current, s)
      BY <2>1 DEF InStep
    <3> QED BY <2>1, <3>1, UnderstoodFirst
  <2>4. IF Data(Current, d) THEN HandleRx(d) ELSE UNCHANGED lineVars
    BY <1>4, FeedReads
  <2>5. IF Head(wire).key
        THEN Keys # <<>> /\ Head(Keys) = d /\ Tail(Keys) = Keys'
        ELSE Keys' = Keys
    BY <2>1, FirstKey DEF Keys
  <2> HIDE DEF d
  <2>6. CASE ~Head(wire).key
    BY <2>1, <2>3, <2>4, <2>5, <2>6 DEF Line, Ran, Typed, lineVars
  <2>7. CASE Head(wire).key
    <3>1. Line = Typed /\ Line' = Typed' /\ Ran = ran /\ Ran' = ran'
      BY <2>1 DEF Line, Ran
    <3>2. Keys # <<>> /\ Head(Keys) = d /\ Keys' = Tail(Keys)
      BY <2>5, <2>7
    <3>3. HandleRx(d) /\ LineInv
      BY <2>3, <2>4, <2>7 DEF SessionInv
    <3>4. IF d = "CR" THEN Ran' = Line /\ Line' = <<>>
          ELSE Ran' = Ran /\ Line' = IF Len(Line) = MaxLine THEN Line
                                     ELSE IF d # "BS" THEN Append(Line, d)
                                     ELSE IF Line = <<>> THEN Line
                                     ELSE SubSeq(Line, 1, Len(Line) - 1)
      <4>1. d # "NUL"
        BY <2>3, <2>7 DEF Data
      <4> QED BY <2>2, <3>1, <3>3, <4>1, KeyInterpreted
    <3>5. Session!Interpret
      BY <3>2, <3>4 DEF Session!Interpret, Session!Edit, Line, Ran, Typed
    <3> QED BY <3>5 DEF Session!Next
  <2> QED BY <2>6, <2>7
<1>5. CASE Send
  <2>1. PICK item \in Item : wire' = wire \o item
    BY <1>5 DEF Send
  <2>2. Line' = Line /\ Ran' = Ran
    BY <1>5 DEF Send, Line, Ran, Typed, lineVars
  <2>3. wire \in Seq(WireByte) /\ item \in Seq(WireByte)
    BY ItemType DEF SessionInv
  <2>4. Keys' = Keys \o KeysIn(item) /\ Keys \in Seq(Byte)
    BY <2>1, <2>3, KeysOfConcat, KeysType DEF Keys
  <2>5. CASE KeysIn(item) = <<>>
    <3>1. Keys \o <<>> = Keys
      BY <2>4, ConcatEmptySeq
    <3> QED BY <2>2, <2>4, <2>5, <3>1
  <2>6. CASE \E k \in Chars \union {"IAC", "CR", "BS"} : KeysIn(item) = <<k>>
    <3>1. PICK k \in Chars \union {"IAC", "CR", "BS"} : KeysIn(item) = <<k>>
      BY <2>6
    <3>2. k \in Byte
      BY DEF Byte
    <3>3. Keys' = Append(Keys, k)
      BY <2>4, <3>1, <3>2, AppendIsConcat
    <3>4. k \in (Chars \union {"IAC"}) \union {"CR", "BS"}
      OBVIOUS
    <3>5. Session!Press
      BY <2>2, <3>3, <3>4 DEF Session!Press, Line, Ran, Typed
    <3> QED BY <3>5 DEF Session!Next
  <2> QED BY <2>5, <2>6, ItemKeys
<1>6. CASE UNCHANGED vars
  BY <1>6 DEF vars, Keys, Line, Ran, Typed
<1> QED BY <1>2, <1>3, <1>4, <1>5, <1>6 DEF Next

LEMMA InStepAlways == Spec => []InStep
  BY SessionInvariant, InStepInit, InStepKeeps, PTL DEF Spec

(* The safety half of ImplementsCommandLine.  Whatever keys, negotiations  *)
(* and subnegotiations a client sends, over any number of sessions, the    *)
(* line editor has the keys in order, each once, and nothing of the        *)
(* protocol around them; the line in cmd_buffer is what they make of it.   *)
THEOREM SessionIsACommandLine == Spec => Session!Init /\ [][Session!Next]_(Session!vars)
<1>1. Init => Session!Init
  <2> SUFFICES ASSUME Init PROVE Session!Init
    OBVIOUS
  <2>1. KeysIn(<<>>) = <<>>
    <3>1. <<>> \in Seq(WireByte) /\ 1 .. Len(<<>>) = {}
      OBVIOUS
    <3> QED BY <3>1, KeysOfNone
  <2>2. wire = <<>> /\ ~up
    BY DEF Init
  <2> QED BY <2>1, <2>2 DEF Session!Init, Keys
<1> QED BY <1>1, SessionImplements, SessionInvariant, InStepAlways, PTL DEF Spec
=============================================================================
