------------------------------- MODULE Am2320 -------------------------------
(***************************************************************************)
(* The temperature and humidity sensor of the Raspberry Pi build           *)
(* (main/am2320.c): what am2321 makes of the sensor's message, of which    *)
(* the bus may damage bits.  The constant Outcomes of the two threads      *)
(* (SensorData) stands for Returned.                                       *)
(***************************************************************************)
EXTENDS SensorData, ModbusCrc, Bitwise
LOCAL INSTANCE FiniteSetsExt

CONSTANT
    BadBits     \* bound: the bits of a message of which the bus damages two

ASSUME BadBitsAssumption == BadBits \subseteq 0..63

-----------------------------------------------------------------------------
(* The sensor and the bus. *)

HighByte(n) == n \div 256
LowByte(n) == n % 256

(* The datasheet's coding, as the comment of am2321 quotes it: bit 15 is   *)
(* the sign, the other bits are the absolute value.                        *)
SensorTemp(t) == IF t < 0 THEN 32768 - t ELSE t

Message(t, h) ==
    LET body == <<3, 4, HighByte(h), LowByte(h), HighByte(SensorTemp(t)), LowByte(SensorTemp(t))>>
    IN  body \o <<LowByte(ReferenceCrc(body)), HighByte(ReferenceCrc(body))>>

(* The bits of byte n are numbered from 8 * (n - 1). *)
Damaged(bytes, bits) ==
    [n \in DOMAIN bytes |->
        MapThenSumSet(LAMBDA i : LET b == Bit(bytes[n], i) IN
                                 2^i * (IF 8 * (n - 1) + i \in bits THEN 1 - b ELSE b), 0..7)]

-----------------------------------------------------------------------------
(* am2321 *)

(* _calc_crc16 *)
CrcRound(crc) == IF crc % 2 = 1 THEN (crc \div 2) ^^ 40961 ELSE crc \div 2

CalcCrc16(bytes) ==
    LET Eight(crc) == LET round[i \in 0..8] == IF i = 0 THEN crc ELSE CrcRound(round[i - 1])
                      IN  round[8]
        upto[n \in 0..Len(bytes)] == IF n = 0 THEN 65535 ELSE Eight(upto[n - 1] ^^ bytes[n])
    IN  upto[Len(bytes)]

CombineBytes(msb, lsb) == msb * 256 + lsb

(* What the message says, negative temperatures in a uint16_t. *)
Temp16(data) ==
    LET raw == CombineBytes(data[5], data[6])
    IN  IF raw >= 32768 THEN (-(raw % 32768)) % 65536 ELSE raw
Humi16(data) == CombineBytes(data[3], data[4])

Acceptable(data) ==
    /\ data[1] = 3 /\ data[2] = 4
    /\ CalcCrc16(SubSeq(data, 1, 6)) = CombineBytes(data[8], data[7])

(* No bit, one or two. *)
BitErrors == {{}} \union {{i, j} : i, j \in BadBits}

(* What am2321 makes of a message as the bus delivers it: <<>> if it is    *)
(* rejected (returns 9 and 10).                                            *)
Received(data) == IF Acceptable(data) THEN <<Temp16(data), Humi16(data)>> ELSE <<>>

Returned ==
    UNION {LET message == Message(r[1], r[2])
           IN  {Received(Damaged(message, bits)) : bits \in BitErrors} : r \in Readings} \ {<<>>}
=============================================================================
