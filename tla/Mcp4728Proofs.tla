--------------------------- MODULE Mcp4728Proofs ----------------------------
(***************************************************************************)
(* The safety properties of Mcp4728 for every number of tasks, any values  *)
(* and channels.  ValueKept is inductive together with the types: whatever *)
(* changes a register the driver reads back marks the calls in progress.   *)
(***************************************************************************)
EXTENDS Mcp4728, TLAPS

Inv == TypeOK /\ ValueKept

-----------------------------------------------------------------------------

\* An output is its upper four bits and its lower eight.
LEMMA Halves ==
  ASSUME NEW v \in Outputs
  PROVE  v \div 256 \in 0 .. 15 /\ v % 256 \in 0 .. 255 /\ v = (v \div 256) * 256 + (v % 256)
<1> DEFINE q == v \div 256
           r == v % 256
<1>1. q \in 0 .. 15 /\ r \in 0 .. 255 /\ v = q * 256 + r
  BY DEF Outputs
<1> QED BY <1>1

\* What either layout says of its own bytes is the output they were made from;
\* the bytes of the long layout read as the short one say a sixteenth of it.
LEMMA Layouts ==
  ASSUME NEW v \in Outputs
  PROVE  /\ FromLeft(Left(v)[1], Left(v)[2]) = v
         /\ FromRight(Right(v)[1], Right(v)[2]) = v
         /\ FromRight(16 + Right(v)[1], Right(v)[2]) = v
         /\ FromRight(0, Left(v)[1]) = v \div 16
         /\ v \div 16 \in Outputs
  BY DEF Outputs, Left, Right, FromLeft, FromRight

\* mcp4728_get_raw_output of the EEPROM gives the stored value, that of the
\* output four bits of it and the power mode.
LEMMA Decoded ==
  ASSUME TypeOK
  PROVE  /\ RawOutput(TRUE) = eeprom.value
         /\ RawOutput(FALSE) \in Outputs
         /\ RawOutput(FALSE) % 16 = out \div 256
         /\ awake <=> (RawOutput(FALSE) \div 32) % 4 = 0
<1> SUFFICES ASSUME NEW v, v = eeprom.value
             PROVE  /\ RawOutput(TRUE) = v
                    /\ RawOutput(FALSE) \in Outputs
                    /\ RawOutput(FALSE) % 16 = out \div 256
                    /\ awake <=> (RawOutput(FALSE) \div 32) % 4 = 0
  OBVIOUS
<1>1. v \in Outputs /\ out \in Outputs /\ awake \in BOOLEAN /\ eeprom.awake \in BOOLEAN
      /\ busy \in BOOLEAN
  BY DEF TypeOK
<1>2. RawOutput(TRUE) = v
  <2>1. PICK e \in {0, 32} : e = IF eeprom.awake THEN 0 ELSE 32
    OBVIOUS
  <2>2. RawOutput(TRUE) = ((e + (v \div 256)) % 16) * 256 + (v % 256)
    BY <2>1 DEF RawOutput, Buffer, FromRight
  <2>3. PICK q \in 0 .. 15, r \in 0 .. 255 : v = q * 256 + r /\ q = v \div 256 /\ r = v % 256
    BY <1>1, Halves, Zenon
  <2>4. (e + q) % 16 = q
    BY <2>1, <2>3
  <2>5. RawOutput(TRUE) = ((e + q) % 16) * 256 + r
    BY <2>2, <2>3, Zenon
  <2> QED BY <2>3, <2>4, <2>5, Zenon
<1>3. RawOutput(FALSE) = Status * 16 + (out \div 16) \div 16
  BY DEF RawOutput, Buffer, FromLeft, Left
<1>4. Status \in {0, 2, 128, 130} /\ (awake <=> Status \in {0, 128})
  BY <1>1 DEF Status
<1>6. (out \div 16) \div 16 = out \div 256 /\ out \div 256 \in 0 .. 15
  <2> DEFINE q == out \div 256
             r == out % 256
  <2>1. q \in 0 .. 15 /\ r \in 0 .. 255 /\ out = q * 256 + r
    BY <1>1, Halves
  <2> HIDE DEF q, r
  <2>2. out \div 16 = q * 16 + (r \div 16) /\ r \div 16 \in 0 .. 15
    BY <2>1
  <2>3. (out \div 16) \div 16 = q
    BY <2>1, <2>2
  <2> QED BY <2>1, <2>3 DEF q
<1>7. \A s \in {0, 2, 128, 130}, d \in 0 .. 15 :
        /\ s * 16 + d \in Outputs /\ (s * 16 + d) % 16 = d
        /\ s \in {0, 128} <=> ((s * 16 + d) \div 32) % 4 = 0
  BY DEF Outputs
<1>8. RawOutput(FALSE) = Status * 16 + (out \div 256)
  BY <1>3, <1>6
<1>10. /\ RawOutput(FALSE) \in Outputs
       /\ RawOutput(FALSE) % 16 = out \div 256
       /\ Status \in {0, 128} <=> (RawOutput(FALSE) \div 32) % 4 = 0
  <2>1. PICK s \in {0, 2, 128, 130} : s = Status
    BY <1>4
  <2>2. PICK d \in 0 .. 15 : d = out \div 256
    BY <1>6
  <2>3. /\ s * 16 + d \in Outputs /\ (s * 16 + d) % 16 = d
        /\ s \in {0, 128} <=> ((s * 16 + d) \div 32) % 4 = 0
    BY <1>7
  <2>4. RawOutput(FALSE) = s * 16 + d
    BY <1>8, <2>1, <2>2, Zenon
  <2> QED BY <2>1, <2>2, <2>3, <2>4, Zenon
<1> QED
  BY <1>1, <1>2, <1>4, <1>10, Zenon

\* What a call has just read is kept so far.
LEMMA ReadKept ==
  ASSUME TypeOK, NEW ee \in BOOLEAN, NEW mode \in BOOLEAN
  PROVE  Kept([eeprom |-> ee, awake |-> mode, value |-> RawOutput(ee), raced |-> FALSE])
<1>1. CASE ee
  BY <1>1, Decoded DEF Kept
<1>2. CASE ~ee
  BY <1>2, Decoded DEF Kept
<1> QED BY <1>1, <1>2

\* While the chip does not change, what is kept stays so.
LEMMA KeptSame ==
  ASSUME ValueKept, UNCHANGED <<call, out, awake, eeprom>>
  PROVE  ValueKept'
  BY Zenon DEF ValueKept, Kept

\* The commands of the driver, decoded.
LEMMA Commands ==
  ASSUME TypeOK
  PROVE  /\ \A t \in Tasks : call[t] # None /\ SetPowerWrite(t) =>
              call[t].value \in Outputs /\ call[t].awake \in BOOLEAN
              /\ Written(0, call[t].value, call[t].awake, stores)
         /\ \A t \in Users, v \in Outputs, ee \in BOOLEAN :
              SetRawOutput(t, v, ee) \/ FastWrite(t, v) =>
                \/ UNCHANGED chip
                \/ \E w \in Outputs, store \in BOOLEAN : Written(0, w, awake, store)
         /\ \A c \in Channels, v \in Outputs :
              ChannelCommand(c, v) => Written(c, v, awake, FALSE)
<1>1. ASSUME NEW t \in Tasks, call[t] # None, SetPowerWrite(t)
      PROVE  /\ call[t].value \in Outputs /\ call[t].awake \in BOOLEAN
             /\ Written(0, call[t].value, call[t].awake, stores)
  <2>1. call[t].value \in Outputs /\ call[t].awake \in BOOLEAN
    BY <1>1 DEF TypeOK, PowerCalls
  <2>2. Written(0, FromLeft(Left(call[t].value)[1], Left(call[t].value)[2]), call[t].awake, stores)
    BY <1>1, Zenon DEF SetPowerWrite
  <2> QED BY <2>1, <2>2, Layouts, Zenon
<1>2. ASSUME NEW v \in Outputs
      PROVE  /\ FastCommand(<<0, Left(v)[1], Left(v)[2]>>) =>
                  UNCHANGED chip \/ \E w \in Outputs : Written(0, w, awake, FALSE)
             /\ FastCommand(Right(v)) =>
                  UNCHANGED chip \/ \E w \in Outputs : Written(0, w, awake, FALSE)
  <2> DEFINE data == <<0, Left(v)[1], Left(v)[2]>>
  <2>1. data[1] = 0 /\ data[2] = Left(v)[1] /\ data[3] = Left(v)[2]
    OBVIOUS
  <2>2. Len(Right(v)) = 2
    BY DEF Right
  <2> HIDE DEF data
  <2>3. FromRight(data[1], data[2]) \in Outputs /\ FromLeft(data[2], data[3]) \in Outputs
        /\ FromRight(Right(v)[1], Right(v)[2]) \in Outputs
    BY <2>1, Layouts
  <2>4. FastCommand(data) =>
          UNCHANGED chip \/ \E w \in Outputs : Written(0, w, awake, FALSE)
    BY <2>3, Zenon DEF FastCommand
  <2>5. FastCommand(Right(v)) =>
          UNCHANGED chip \/ \E w \in Outputs : Written(0, w, awake, FALSE)
    <3>1. CASE brief /\ Written(0, FromRight(Right(v)[1], Right(v)[2]), awake, FALSE)
      BY <3>1, <2>3, Zenon
    <3>2. ~(Len(Right(v)) = 3)
      BY <2>2
    <3> QED BY <3>1, <3>2, Zenon DEF FastCommand
  <2> QED BY <2>4, <2>5 DEF data
<1>3. ASSUME NEW t \in Users, NEW v \in Outputs, NEW ee \in BOOLEAN,
             SetRawOutput(t, v, ee) \/ FastWrite(t, v)
      PROVE  \/ UNCHANGED chip
             \/ \E w \in Outputs, store \in BOOLEAN : Written(0, w, awake, store)
  <2>1. \/ UNCHANGED chip
        \/ Written(0, FromLeft(Left(v)[1], Left(v)[2]), awake, TRUE)
        \/ FastCommand(<<0, Left(v)[1], Left(v)[2]>>)
        \/ FastCommand(Right(v))
    BY <1>3, Zenon DEF SetRawOutput, FastWrite
  <2>2. FromLeft(Left(v)[1], Left(v)[2]) \in Outputs
    BY Layouts
  <2> QED BY <1>2, <2>1, <2>2, Zenon
<1>4. ASSUME NEW c \in Channels, NEW v \in Outputs, ChannelCommand(c, v)
      PROVE  Written(c, v, awake, FALSE)
  <2>1. Written(c, FromRight(16 + Right(v)[1], Right(v)[2]), awake, FALSE)
    BY <1>4, Zenon DEF ChannelCommand
  <2> QED BY <2>1, Layouts, Zenon
<1> QED
  BY <1>1, <1>3, <1>4, Zenon

\* The register a call reads gives an output value.
LEMMA RawOutputType ==
  ASSUME TypeOK, NEW ee \in BOOLEAN PROVE RawOutput(ee) \in Outputs
<1>1. CASE ee
  BY <1>1, Decoded DEF TypeOK
<1>2. CASE ~ee
  BY <1>2, Decoded
<1> QED BY <1>1, <1>2

\* A command of the power mode or of the outputs leaves the chip's state in its
\* types.
LEMMA WrittenType ==
  ASSUME TypeOK, NEW c \in Channels, NEW value \in Outputs,
         NEW mode \in BOOLEAN, NEW store \in BOOLEAN, Written(c, value, mode, store)
  PROVE  /\ out' \in Outputs
         /\ eeprom' \in [value : Outputs, awake : BOOLEAN]
         /\ {awake', busy', excused'} \subseteq BOOLEAN
<1>1. CASE Takes(c, value, mode, store)
  BY <1>1 DEF TypeOK, Takes
<1>2. CASE Drops
  BY <1>2 DEF TypeOK, Drops
<1> QED BY <1>1, <1>2 DEF Written

\* After a write session every call still in progress is marked.
LEMMA AfterWriteMarks ==
  ASSUME TypeOK, NEW t \in Tasks
  PROVE  /\ AfterWrite(t) \in [Tasks -> PowerCalls \cup {None}]
         /\ AfterWrite(t)[t] = None
         /\ \A u \in Tasks : call[u] = None => AfterWrite(t)[u] = None
         /\ \A u \in Tasks : AfterWrite(t)[u] # None => call[u] # None /\ AfterWrite(t)[u].raced
  BY McpAssumption DEF TypeOK, AfterWrite, PowerCalls

\* A step that ends or marks every call keeps the invariant if it keeps the
\* types of the chip.
LEMMA WriteStep ==
  ASSUME Inv, NEW t \in Users, main = "up", main' = "up", call' = AfterWrite(t),
         out' \in Outputs, eeprom' \in [value : Outputs, awake : BOOLEAN],
         {awake', busy', stores', brief', excused'} \subseteq BOOLEAN
  PROVE  Inv'
<1>1. t \in Tasks
  BY DEF Tasks
<1>2. Main \in Tasks /\ call[Main] = None
  BY DEF Inv, TypeOK, Tasks
<1>3. TypeOK'
  BY <1>1, <1>2, AfterWriteMarks DEF Inv, TypeOK, Tasks
<1>4. ValueKept'
  BY <1>1, AfterWriteMarks DEF Inv, ValueKept
<1> QED BY <1>3, <1>4 DEF Inv

\* A restart of the driver keeps the invariant.
LEMMA ResetStep ==
  ASSUME Inv, Reset,
         out' \in Outputs, eeprom' \in [value : Outputs, awake : BOOLEAN],
         {awake', busy', stores', brief', excused'} \subseteq BOOLEAN
  PROVE  Inv'
<1>1. main' = "off" /\ \A t \in Tasks : call'[t] = None
  BY DEF Reset, NoCalls
<1>2. call' \in [Tasks -> PowerCalls \cup {None}]
  BY DEF Reset, NoCalls
<1>3. Main \in Tasks /\ Users \subseteq Tasks
  BY DEF Tasks
<1> QED BY <1>1, <1>2, <1>3 DEF Inv, TypeOK, ValueKept

\* A call that has just read carries the register's value.
LEMMA ReadStep ==
  ASSUME Inv, NEW t \in Tasks, NEW ee \in BOOLEAN, NEW mode \in BOOLEAN,
         SetPowerRead(t, ee, mode), UNCHANGED <<chip, kind>>,
         call[t] = None, call'[Main] # None <=> main' = "power",
         t # Main => main' = "up", main = "up" => main' = "up"
  PROVE  Inv'
<1> DEFINE new == [eeprom |-> ee, awake |-> mode, value |-> RawOutput(ee), raced |-> FALSE]
<1>1. new \in PowerCalls
  BY RawOutputType DEF Inv, PowerCalls
<1>2. call' = [call EXCEPT ![t] = new]
  BY DEF SetPowerRead
<1>3. TypeOK'
  <2>1. call' \in [Tasks -> PowerCalls \cup {None}] /\ call'[t] # None
    BY <1>1, <1>2, McpAssumption DEF Inv, TypeOK
  <2>2. \A u \in Users : call'[u] # None => main' = "up"
    BY <1>2, McpAssumption DEF Inv, TypeOK, Tasks
  <2>3. main' \in {"power", "up"}
    BY <2>1
  <2> QED BY <2>1, <2>2, <2>3 DEF Inv, TypeOK, chip, kind
<1>4. \A u \in Tasks : call'[u] # None /\ ~call'[u].raced => Kept(call'[u])
  <2> TAKE u \in Tasks
  <2>1. CASE u = t
    <3>1. Kept(new)
      BY ReadKept DEF Inv
    <3>2. call'[u] = new
      BY <1>2, <2>1 DEF Inv, TypeOK
    <3> QED BY <3>1, <3>2, Zenon
  <2>2. CASE u # t
    BY <1>2, <2>2 DEF Inv, TypeOK, ValueKept
  <2> QED BY <2>1, <2>2
<1>5. ValueKept'
  BY <1>4, Zenon DEF ValueKept, Kept, chip
<1> QED BY <1>3, <1>5 DEF Inv

-----------------------------------------------------------------------------

\* Before any call the invariant holds.
LEMMA InitInv == Init => Inv
  BY McpAssumption DEF Init, Inv, TypeOK, ValueKept, NoCalls, Tasks

\* Every step keeps the invariant.
LEMMA StepInv == Inv /\ [Next]_vars => Inv'
<1> SUFFICES ASSUME Inv, [Next]_vars PROVE Inv'
  OBVIOUS
<1> USE DEF Inv
<1>0. Main \in Tasks /\ Main \notin Users /\ Users \subseteq Tasks /\ 0 \in Channels
  BY McpAssumption DEF Tasks
<1>1. CASE InitDesc
  BY <1>1, <1>0, KeptSame DEF InitDesc, TypeOK, chip, kind
<1>2. CASE GetPowerMode
  BY <1>2, <1>0, KeptSame DEF GetPowerMode, TypeOK, chip, kind
<1>3. CASE WakeRead
  <2>1. call[Main] = None /\ call'[Main] # None
    <3>1. call' = [call EXCEPT ![Main] =
             [eeprom |-> TRUE, awake |-> TRUE, value |-> RawOutput(TRUE), raced |-> FALSE]]
      BY <1>3 DEF WakeRead, SetPowerRead
    <3>2. call'[Main] \in PowerCalls
      BY <3>1, <1>0, RawOutputType DEF TypeOK, PowerCalls
    <3> QED BY <3>2, <1>3, McpAssumption DEF WakeRead, TypeOK
  <2> QED BY <1>0, <1>3, <2>1, ReadStep DEF WakeRead
<1>4. CASE WakeWrite
  <2>1. call[Main] # None
    BY <1>0, <1>4 DEF WakeWrite, TypeOK
  <2>2. /\ call[Main].value \in Outputs /\ call[Main].awake \in BOOLEAN
        /\ Written(0, call[Main].value, call[Main].awake, stores)
    BY <1>0, <1>4, <2>1, Commands, Zenon DEF WakeWrite
  <2>3. /\ out' \in Outputs
        /\ eeprom' \in [value : Outputs, awake : BOOLEAN]
        /\ {awake', busy', stores', brief', excused'} \subseteq BOOLEAN
    BY <1>0, <1>4, <2>2, WrittenType DEF WakeWrite, TypeOK, kind
  <2>4. CASE main' = "wait" /\ call' = AfterWrite(Main)
    <3>1. TypeOK'
      BY <1>0, <1>4, <2>3, <2>4, AfterWriteMarks DEF WakeWrite, TypeOK
    <3>2. ValueKept'
      BY <1>0, <2>4, AfterWriteMarks DEF ValueKept
    <3> QED BY <3>1, <3>2
  <2>5. CASE Reset
    BY <2>3, <2>5, ResetStep
  <2> QED BY <1>4, <2>4, <2>5 DEF WakeWrite
<1>5. CASE WaitForEeprom
  BY <1>5, <1>0, KeptSame DEF WaitForEeprom, TypeOK, chip, kind
<1>6. CASE EepromDone
  BY <1>6, <1>0, KeptSame DEF EepromDone, TypeOK, kind
<1>7. CASE Restart
  BY <1>7, ResetStep DEF Restart, TypeOK, chip, kind
<1>8. CASE PowerLoss
  <2>1. eeprom' \in [value : Outputs, awake : BOOLEAN]
    BY <1>8, McpAssumption DEF PowerLoss, TypeOK
  <2>2. /\ out' \in Outputs
        /\ {awake', busy', stores', brief', excused'} \subseteq BOOLEAN
    BY <1>8, <2>1 DEF PowerLoss, TypeOK, kind
  <2> QED BY <1>8, <2>1, <2>2, ResetStep DEF PowerLoss
<1>9. ASSUME NEW t \in Users, NEW ee \in BOOLEAN, NEW mode \in BOOLEAN, SetPowerMode(t, ee, mode)
      PROVE  Inv'
  <2>1. call'[Main] = call[Main]
    BY <1>0, <1>9 DEF SetPowerMode, SetPowerRead, TypeOK
  <2> QED BY <1>0, <1>9, <2>1, ReadStep DEF SetPowerMode, TypeOK
<1>10. ASSUME NEW t \in Users, SetPowerEnds(t) PROVE Inv'
  <2>1. t \in Tasks /\ call[t] # None
    BY <1>0, <1>10 DEF SetPowerEnds
  <2>2. \/ UNCHANGED chip
        \/ /\ call[t].value \in Outputs /\ call[t].awake \in BOOLEAN
           /\ Written(0, call[t].value, call[t].awake, stores)
    BY <1>10, <2>1, Commands, Zenon DEF SetPowerEnds
  <2>3. /\ out' \in Outputs
        /\ eeprom' \in [value : Outputs, awake : BOOLEAN]
        /\ {awake', busy', stores', brief', excused'} \subseteq BOOLEAN
    BY <1>0, <1>10, <2>2, WrittenType DEF SetPowerEnds, TypeOK, chip, kind
  <2> QED BY <1>10, <2>3, WriteStep DEF SetPowerEnds
<1>11. ASSUME NEW t \in Users, NEW v \in Values, NEW ee \in BOOLEAN,
              SetRawOutput(t, v, ee) \/ FastWrite(t, v)
       PROVE  Inv'
  <2>0. UNCHANGED chip \/ \E w \in Outputs, store \in BOOLEAN : Written(0, w, awake, store)
    <3>1. v \in Outputs
      BY McpAssumption
    <3> QED BY <1>11, <3>1, Commands, Zenon
  <2>1. /\ out' \in Outputs
        /\ eeprom' \in [value : Outputs, awake : BOOLEAN]
        /\ {awake', busy', stores', brief', excused'} \subseteq BOOLEAN
    <3>1. CASE UNCHANGED chip
      BY <3>1, <1>11 DEF SetRawOutput, FastWrite, TypeOK, chip, kind
    <3>2. ASSUME NEW w \in Outputs, NEW store \in BOOLEAN, Written(0, w, awake, store)
          PROVE  /\ out' \in Outputs
                 /\ eeprom' \in [value : Outputs, awake : BOOLEAN]
                 /\ {awake', busy', stores', brief', excused'} \subseteq BOOLEAN
      <4>1. awake \in BOOLEAN /\ stores' \in BOOLEAN /\ brief' \in BOOLEAN
        BY <1>11 DEF SetRawOutput, FastWrite, TypeOK, kind
      <4> QED BY <1>0, <3>2, <4>1, WrittenType
    <3> QED BY <2>0, <3>1, <3>2
  <2> QED BY <1>11, <2>1, WriteStep DEF SetRawOutput, FastWrite
<1>12. ASSUME NEW t \in Users, NEW c \in Channels, NEW v \in Values, DacWriteChannel(t, c, v)
       PROVE  Inv'
  <2>1. /\ out' \in Outputs
        /\ eeprom' \in [value : Outputs, awake : BOOLEAN]
        /\ {awake', busy', stores', brief', excused'} \subseteq BOOLEAN
    <3>1. v \in Outputs
      BY McpAssumption
    <3>2. UNCHANGED chip \/ Written(c, v, awake, FALSE)
      BY <1>12, <3>1, Commands, Zenon DEF DacWriteChannel
    <3> QED BY <1>12, <3>1, <3>2, WrittenType DEF DacWriteChannel, TypeOK, chip, kind
  <2>2. CASE call' = AfterWrite(t) /\ UNCHANGED main
    BY <1>12, <2>1, <2>2, WriteStep DEF DacWriteChannel
  <2>3. CASE Reset
    BY <2>1, <2>3, ResetStep
  <2> QED BY <1>12, <2>2, <2>3 DEF DacWriteChannel
<1>13. CASE UNCHANGED vars
  BY <1>13, KeptSame DEF vars, chip, kind, TypeOK
<1> QED
  BY <1>1, <1>2, <1>3, <1>4, <1>5, <1>6, <1>7, <1>8, <1>9, <1>10, <1>11, <1>12, <1>13
  DEF Next, MainStep

\* The variables keep their types, and only the start is in a power mode call
\* of its own, only once init_mcp4728 has returned are tasks in theirs.
THEOREM TypeCorrect == Spec => []TypeOK
  BY InitInv, StepInv, PTL DEF Spec, Inv

\* mcp4728_set_power_mode gives back the value the register still holds,
\* unless another write came between its sessions, however many tasks write.
THEOREM ValueKeptHolds == Spec => []ValueKept
  BY InitInv, StepInv, PTL DEF Spec, Inv

-----------------------------------------------------------------------------
(* The start: what InitWakes says of the moment it is about, apart from    *)
(* that it comes.                                                          *)

\* A DAC that sleeps without an excuse has it in its EEPROM, where the start
\* looks; after the command that wakes it there is none.
AwakeInv ==
  /\ awake \/ excused \/ ~eeprom.awake
  /\ main \in {"wait", "up"} => awake \/ excused

\* The start takes the DAC for awake when the EEPROM says so.
LEMMA StoredMode ==
  ASSUME TypeOK, (Buffer[4] \div 32) % 4 = 0
  PROVE  eeprom.awake
<1>1. Buffer[4] = (IF eeprom.awake THEN 0 ELSE 32) + (eeprom.value \div 256)
  BY DEF Buffer
<1>2. eeprom.awake \in BOOLEAN /\ eeprom.value \div 256 \in 0 .. 15
  <2>1. eeprom.awake \in BOOLEAN /\ eeprom.value \in Outputs
    BY DEF TypeOK
  <2> QED BY <2>1, Halves
<1>3. \A d \in 0 .. 15 : (32 + d) \div 32 = 1
  OBVIOUS
<1> QED BY <1>1, <1>2, <1>3

\* A command leaves the DAC awake, or the reason why it is not.
LEMMA WrittenWakes ==
  ASSUME NEW c, NEW value, NEW mode \in BOOLEAN, NEW store, Written(c, value, mode, store)
  PROVE  awake' \/ excused'
<1>1. CASE Takes(c, value, mode, store)
  BY <1>1, Zenon DEF Takes
<1>2. CASE Drops
  BY <1>2 DEF Drops
<1> QED BY <1>1, <1>2 DEF Written

\* Every step keeps it so.
LEMMA AwakeStep == Inv /\ AwakeInv /\ [Next]_vars => AwakeInv'
<1> SUFFICES ASSUME Inv, AwakeInv, [Next]_vars PROVE AwakeInv'
  OBVIOUS
<1>0. /\ {awake, excused, stores} \subseteq BOOLEAN /\ Main \in Tasks /\ Users \subseteq Tasks
      /\ \A t \in Tasks : call[t] # None => call[t].awake \in BOOLEAN
  BY DEF Inv, TypeOK, Tasks, PowerCalls
<1>1. CASE InitDesc \/ GetPowerMode \/ WakeRead \/ WaitForEeprom
  <2>1. UNCHANGED chip /\ (main' \in {"wait", "up"} => main = "wait" \/ eeprom.awake)
    <3>1. (Buffer[4] \div 32) % 4 = 0 => eeprom.awake
      BY StoredMode DEF Inv
    <3> QED BY <1>1, <3>1 DEF InitDesc, GetPowerMode, WakeRead, WaitForEeprom
  <2> QED BY <2>1, Zenon DEF chip, AwakeInv
<1>2. CASE WakeWrite
  <2>1. call[Main] # None
    BY <1>2 DEF WakeWrite, Inv, TypeOK
  <2>2. call[Main].awake \in BOOLEAN /\ Written(0, call[Main].value, call[Main].awake, stores)
    BY <1>0, <1>2, <2>1, Commands, Zenon DEF WakeWrite, Inv
  <2> QED BY <2>2, WrittenWakes, Zenon DEF AwakeInv
<1>3. CASE EepromDone \/ Restart
  BY <1>3 DEF EepromDone, Restart, Reset, chip, AwakeInv
<1>4. CASE PowerLoss
  <2>1. awake' = eeprom'.awake /\ main' = "off"
    BY <1>4 DEF PowerLoss, Reset
  <2>2. eeprom'.awake \in BOOLEAN
    BY <1>4 DEF PowerLoss, Inv, TypeOK
  <2> QED BY <2>1, <2>2 DEF AwakeInv
<1>5. ASSUME NEW t \in Users, NEW ee \in BOOLEAN, NEW mode \in BOOLEAN, SetPowerMode(t, ee, mode)
      PROVE  AwakeInv'
  BY <1>5 DEF SetPowerMode, chip, AwakeInv
<1>6. ASSUME NEW t \in Users, SetPowerEnds(t) PROVE AwakeInv'
  <2>1. CASE UNCHANGED chip
    BY <1>6, <2>1 DEF SetPowerEnds, chip, AwakeInv
  <2>2. CASE SetPowerWrite(t)
    <3>1. t \in Tasks /\ call[t] # None
      BY <1>0, <1>6 DEF SetPowerEnds
    <3>2. call[t].awake \in BOOLEAN /\ Written(0, call[t].value, call[t].awake, stores)
      BY <2>2, <3>1, Commands, Zenon DEF Inv
    <3> QED BY <3>2, WrittenWakes, Zenon DEF AwakeInv
  <2> QED BY <1>6, <2>1, <2>2 DEF SetPowerEnds
<1>7. ASSUME NEW t \in Users, NEW v \in Values, NEW ee \in BOOLEAN,
             SetRawOutput(t, v, ee) \/ FastWrite(t, v)
      PROVE  AwakeInv'
  <2>0. UNCHANGED chip \/ \E w \in Outputs, store \in BOOLEAN : Written(0, w, awake, store)
    <3>1. v \in Outputs
      BY McpAssumption
    <3> QED BY <1>7, <3>1, Commands, Zenon DEF Inv
  <2>1. CASE UNCHANGED chip
    BY <1>7, <2>1 DEF SetRawOutput, FastWrite, chip, AwakeInv
  <2>2. ASSUME NEW w \in Outputs, NEW store \in BOOLEAN, Written(0, w, awake, store)
        PROVE  AwakeInv'
    <3>1. awake \in BOOLEAN
      BY <1>0
    <3> QED BY <3>1, <2>2, WrittenWakes, Zenon DEF AwakeInv
  <2> QED BY <2>0, <2>1, <2>2
<1>8. ASSUME NEW t \in Users, NEW c \in Channels, NEW v \in Values, DacWriteChannel(t, c, v)
      PROVE  AwakeInv'
  <2>1. CASE UNCHANGED chip /\ Reset
    BY <2>1 DEF Reset, chip, AwakeInv
  <2>2. CASE Written(c, v, awake, FALSE)
    <3>1. awake \in BOOLEAN
      BY <1>0
    <3> QED BY <3>1, <2>2, WrittenWakes, Zenon DEF AwakeInv
  <2>3. v \in Outputs
    BY McpAssumption
  <2> QED BY <1>8, <2>1, <2>2, <2>3, Commands, Zenon DEF DacWriteChannel, Inv
<1>9. CASE UNCHANGED vars
  BY <1>9 DEF vars, chip, AwakeInv
<1> QED
  BY <1>1, <1>2, <1>3, <1>4, <1>5, <1>6, <1>7, <1>8, <1>9 DEF Next, MainStep

\* Whenever init_mcp4728 has returned the DAC is awake, unless since its power
\* came a task put it to sleep or it was too busy to listen.
THEOREM AwakeWhenUp == Spec => [](main = "up" => awake \/ excused)
<1>1. Init => AwakeInv
  BY DEF Init, AwakeInv
<1>2. AwakeInv => (main = "up" => awake \/ excused)
  BY DEF AwakeInv
<1> QED
  BY <1>1, <1>2, InitInv, StepInv, AwakeStep, PTL DEF Spec
=============================================================================
