---------------------------- MODULE SensorData -----------------------------
(***************************************************************************)
(* The two threads of main/am2320.c: one reads the sensor every second and *)
(* publishes what it read under _data_lock; the telnet command `temp`, on  *)
(* the main thread, prints it.  What am2321 may return is a parameter; it  *)
(* may also fail.                                                          *)
(*                                                                         *)
(* Temperatures and humidities are in tenths.                              *)
(***************************************************************************)
EXTENDS Integers

CONSTANTS
    Readings,   \* <<temperature, humidity>>, what there is to measure
    Outcomes    \* <<temperature, humidity>>, what am2321 may return

(* temp16 and humi16 of am2321. *)
Uint16 == 0..65535

ASSUME ReadingsAssumption == Readings \subseteq (-32767..32767) \X Uint16

ASSUME OutcomesAssumption == Outcomes \subseteq Uint16 \X Uint16

VARIABLES
    sensorPc,   \* am2320_task: "sleep", "opened", "got", "locked", "stored"
    readTemp,   \* temp and humi of am2320_task
    readHumi,
    temp,       \* _temp
    humi,       \* _humi
    tempPc,     \* cli_command_temp: "no", "locked", "half", "print"
    shownTemp,  \* temp and humi of cli_command_temp
    shownHumi,
    lockedBy    \* _data_lock

sensorVars == <<sensorPc, readTemp, readHumi, temp, humi, tempPc, shownTemp, shownHumi, lockedBy>>

Am2320Init ==
    /\ sensorPc = "sleep" /\ readTemp = 0 /\ readHumi = 0
    /\ temp = 0 /\ humi = 0
    /\ tempPc = "no" /\ shownTemp = 0 /\ shownHumi = 0
    /\ lockedBy = "nobody"

-----------------------------------------------------------------------------
(* am2320_task: am2321, then the lock. *)

OpenDevice ==
    /\ sensorPc = "sleep"
    /\ sensorPc' \in {"opened", "sleep"}
    /\ UNCHANGED <<readTemp, readHumi, temp, humi, tempPc, shownTemp, shownHumi, lockedBy>>

(* An ioctl, write or read fails, or the message is rejected. *)
ReadFails ==
    /\ sensorPc = "opened"
    /\ sensorPc' = "sleep"
    /\ UNCHANGED <<readTemp, readHumi, temp, humi, tempPc, shownTemp, shownHumi, lockedBy>>

ReadSensor ==
    /\ sensorPc = "opened"
    /\ \E pair \in Outcomes : readTemp' = pair[1] /\ readHumi' = pair[2]
    /\ sensorPc' = "got"
    /\ UNCHANGED <<temp, humi, tempPc, shownTemp, shownHumi, lockedBy>>

LockData ==
    /\ sensorPc = "got" /\ lockedBy = "nobody"
    /\ sensorPc' = "locked" /\ lockedBy' = "sensor"
    /\ UNCHANGED <<readTemp, readHumi, temp, humi, tempPc, shownTemp, shownHumi>>

StoreTemp ==
    /\ sensorPc = "locked"
    /\ sensorPc' = "stored" /\ temp' = readTemp
    /\ UNCHANGED <<readTemp, readHumi, humi, tempPc, shownTemp, shownHumi, lockedBy>>

StoreHumi ==
    /\ sensorPc = "stored"
    /\ sensorPc' = "sleep" /\ humi' = readHumi /\ lockedBy' = "nobody"
    /\ UNCHANGED <<readTemp, readHumi, temp, tempPc, shownTemp, shownHumi>>

(* cli_command_temp: am2320_task_get_data in its steps, then cli_printf.   *)

TempUnlocked == \* mutant: no pthread_mutex_lock in am2320_task_get_data
    /\ tempPc = "no"
    /\ tempPc' = "locked"
    /\ UNCHANGED <<sensorPc, readTemp, readHumi, temp, humi, shownTemp, shownHumi, lockedBy>>

TempCommand ==
    /\ tempPc = "no" /\ lockedBy = "nobody"
    /\ tempPc' = "locked" /\ lockedBy' = "main"
    /\ UNCHANGED <<sensorPc, readTemp, readHumi, temp, humi, shownTemp, shownHumi>>

CopyTemp ==
    /\ tempPc = "locked"
    /\ tempPc' = "half" /\ shownTemp' = temp
    /\ UNCHANGED <<sensorPc, readTemp, readHumi, temp, humi, shownHumi, lockedBy>>

CopyHumi ==
    /\ tempPc = "half"
    /\ tempPc' = "print" /\ shownHumi' = humi /\ lockedBy' = "nobody"
    /\ UNCHANGED <<sensorPc, readTemp, readHumi, temp, humi, shownTemp>>

PrintTemp ==
    /\ tempPc = "print"
    /\ tempPc' = "no"
    /\ UNCHANGED <<sensorPc, readTemp, readHumi, temp, humi, shownTemp, shownHumi, lockedBy>>

SensorThread == OpenDevice \/ ReadFails \/ ReadSensor \/ LockData \/ StoreTemp \/ StoreHumi
TempThread == TempCommand \/ CopyTemp \/ CopyHumi \/ PrintTemp
Am2320Next == SensorThread \/ TempThread

Am2320Spec == Am2320Init /\ [][Am2320Next]_sensorVars

-----------------------------------------------------------------------------
(* Properties. *)

(* What there is to print: a measurement, or the zeros that are there      *)
(* before the first.                                                       *)
Measured == Readings \union {<<0, 0>>}

(* t and h are printed for the reading r.  am2321 keeps the temperature in *)
(* a uint16_t: a negative one may come out 6553.6 degrees too high.  That  *)
(* is not what its comment says; see SignIsPrinted.                        *)
PrintedFor(t, h, r) == h = r[2] /\ t \in {r[1], r[1] % 65536}

(* The command prints the temperature and the humidity of one measurement, *)
(* not a half of each, and never what came of a message the bus damaged in *)
(* up to two bits: the checksum as the code computes it is the sensor's    *)
(* and rejects all of those.  The sign of a negative temperature is        *)
(* exempted: the code loses it.                                            *)
PrintsOneReading ==
    tempPc = "print" => \E r \in Measured : PrintedFor(shownTemp, shownHumi, r)

(* The comment of am2321 (am2320.c:110-117): "temperature highest bit      *)
(* (Bit15) is equal to 1 indicates a negative temperature".  So what is    *)
(* printed is the measurement with its sign, or the zeros before the first.*)
SignIsPrinted == tempPc = "print" => <<shownTemp, shownHumi>> \in Measured

=============================================================================
