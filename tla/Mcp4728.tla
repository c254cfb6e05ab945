------------------------------ MODULE Mcp4728 -------------------------------
(***************************************************************************)
(* The DAC: mcp4728.c and its user my_i2cdac.c.                            *)
(*                                                                         *)
(* A function of mcp4728.c is one session on the descriptor, or two for    *)
(* mcp4728_set_power_mode: a read, and a write of what was read.  Sessions *)
(* on one descriptor do not overlap and come back with or without having   *)
(* reached the chip (module I2cDev), so each is one step here.  Tasks use  *)
(* the DAC after init_mcp4728 has returned.                                *)
(*                                                                         *)
(* The chip is external and is what the driver takes it for: a command     *)
(* sets an output or the power mode, some also write the EEPROM, which     *)
(* takes a while and is reloaded when the power comes.  A chip that is     *)
(* busy with its EEPROM may drop a command: init_mcp4728 waits for it.     *)
(* Outputs have 12 bits; what goes over the wire is modelled as bytes,     *)
(* since the functions of the driver do not agree on their layout.         *)
(***************************************************************************)
EXTENDS Naturals, Sequences

CONSTANTS
  Users,      \* tasks of the application that use the DAC
  Main,       \* the task that runs init_mcp4728
  Channels,   \* arguments of dac_write_channel in use
  Values,     \* output values passed by the callers, or found in the EEPROM
  None        \* no call of mcp4728_set_power_mode

Outputs == 0 .. 4095

\* Calls of mcp4728_set_power_mode between their two sessions.  raced is a
\* history: another write ran after value had been read.
PowerCalls == [eeprom : BOOLEAN, awake : BOOLEAN, value : Outputs, raced : BOOLEAN]

\* The driver's single value is the chip's first channel.
ASSUME McpAssumption ==
  /\ Main \notin Users /\ None \notin PowerCalls
  /\ 0 \in Channels /\ Channels \subseteq 0 .. 3
  /\ Values \subseteq Outputs

Tasks == Users \cup {Main}

VARIABLES
  main,     \* where init_mcp4728 is
  call,     \* each task's mcp4728_set_power_mode, between its two sessions
  out,      \* external: output of the first channel, the only one read back
  awake,    \* external: the power mode is MCP4728_PM_NORMAL
  eeprom,   \* external: the stored value and power mode
  busy,     \* external: the EEPROM is being written
  stores,   \* external: the power mode command also writes the EEPROM
  brief,    \* external: command 0x00 is laid out as by mcp4728_fast_write, in
            \* two bytes, and not as by mcp4728_set_raw_output, in three
  excused   \* history, since power came: a task powered the DAC down, or a
            \* busy chip dropped a command

chip == <<out, awake, eeprom, busy, excused>>
kind == <<stores, brief>>
vars == <<main, call, chip, kind>>

TypeOK ==
  /\ main \in {"off", "mode", "wake", "power", "wait", "up"}
  /\ call \in [Tasks -> PowerCalls \cup {None}]
  /\ call[Main] # None <=> main = "power"
  /\ \A t \in Users : call[t] # None => main = "up"
  /\ out \in Outputs
  /\ eeprom \in [value : Outputs, awake : BOOLEAN]
  /\ {awake, busy, stores, brief, excused} \subseteq BOOLEAN

NoCalls == [t \in Tasks |-> None]

Init ==
  /\ main = "off" /\ call = NoCalls
  /\ eeprom \in [value : Values, awake : BOOLEAN]
  /\ out = eeprom.value /\ awake = eeprom.awake
  /\ busy = FALSE /\ stores \in BOOLEAN /\ brief \in BOOLEAN /\ excused = FALSE

-----------------------------------------------------------------------------
(* The bytes of an output.                                                 *)

\* As mcp4728_set_raw_output and mcp4728_set_power_mode send it, and as
\* mcp4728_fast_write and mcp4728_write_channel_raw do.
Left(value) == <<value \div 16, (value % 16) * 16>>
Right(value) == <<value \div 256, value % 256>>

\* What either layout says.
FromLeft(high, low) == high * 16 + low \div 16
FromRight(high, low) == (high % 16) * 256 + low

-----------------------------------------------------------------------------
(* The chip, and restarts.                                                 *)

\* What read_data reads: the status with the ready bit and the power mode (one
\* of the modes of a DAC that sleeps stands for all), the first channel's
\* output, and the EEPROM.
Status == (IF busy THEN 0 ELSE 128) + (IF awake THEN 0 ELSE 2)
Buffer ==
  <<Status, Left(out)[1], Left(out)[2],
    (IF eeprom.awake THEN 0 ELSE 32) + eeprom.value \div 256, eeprom.value % 256>>

\* A command reaches the chip: it sets the output of channel c and the power
\* mode, and starts to store them if store.
Takes(c, value, mode, store) ==
  /\ out' = IF c = 0 THEN value ELSE out
  /\ awake' = mode
  /\ eeprom' = IF store THEN [value |-> value, awake |-> mode] ELSE eeprom
  /\ busy' = (busy \/ store)
  /\ excused' = (excused \/ ~mode)

Drops == busy /\ excused' = TRUE /\ UNCHANGED <<out, awake, eeprom, busy>>

Written(c, value, mode, store) == Takes(c, value, mode, store) \/ Drops

EepromDone ==
  /\ busy /\ busy' = FALSE
  /\ UNCHANGED <<main, call, out, awake, eeprom, excused, kind>>

\* ESP_ERROR_CHECK fails, or the chip restarts for another reason; the DAC
\* keeps its power.
Reset == main' = "off" /\ call' = NoCalls

Restart == main # "off" /\ Reset /\ UNCHANGED <<chip, kind>>

\* What was being stored is undefined.
PowerLoss ==
  /\ Reset
  /\ IF busy THEN eeprom' \in [value : Values, awake : BOOLEAN] ELSE UNCHANGED eeprom
  /\ out' = eeprom'.value /\ awake' = eeprom'.awake
  /\ busy' = FALSE /\ excused' = FALSE
  /\ UNCHANGED kind

-----------------------------------------------------------------------------
(* mcp4728.c                                                               *)

\* Variant: what was read for one call is kept for the next.
AfterWrite_KeepOwn(t) ==
  [u \in Tasks |-> IF call[u] = None THEN None ELSE [call[u] EXCEPT !.raced = TRUE]]

\* The calls in progress after a write session of t, which ends t's own.
AfterWrite(t) ==
  [u \in Tasks |-> IF u = t \/ call[u] = None THEN None ELSE [call[u] EXCEPT !.raced = TRUE]]

\* mcp4728_get_raw_output decodes the EEPROM, or the status and the byte after it.
RawOutput(ee) ==
  IF ee THEN FromRight(Buffer[4], Buffer[5]) ELSE FromLeft(Buffer[1], Buffer[2])

\* Variant: a failed read is not noticed and value is whatever it was.
SetPowerRead_NoCheck(t, ee, mode) ==
  \E v \in Values :
    call' = [call EXCEPT ![t] = [eeprom |-> ee, awake |-> mode, value |-> v, raced |-> FALSE]]

SetPowerRead(t, ee, mode) ==
  call' = [call EXCEPT ![t] =
    [eeprom |-> ee, awake |-> mode, value |-> RawOutput(ee), raced |-> FALSE]]

\* The same command is sent whatever the caller's eeprom.
SetPowerWrite(t) ==
  LET data == Left(call[t].value)
  IN  Written(0, FromLeft(data[1], data[2]), call[t].awake, stores)

\* A user's call of mcp4728_set_power_mode; it may fail in either session.
SetPowerMode(t, ee, mode) ==
  /\ main = "up" /\ call[t] = None
  /\ SetPowerRead(t, ee, mode)
  /\ UNCHANGED <<main, chip, kind>>

SetPowerEnds(t) ==
  /\ main = "up" /\ call[t] # None
  /\ call' = AfterWrite(t)
  /\ SetPowerWrite(t) \/ UNCHANGED chip
  /\ UNCHANGED <<main, kind>>

\* A command 0x00 of these bytes; one that ends early does nothing.
FastCommand(data) ==
  \/ brief /\ Written(0, FromRight(data[1], data[2]), awake, FALSE)
  \/ ~brief /\ Len(data) = 3 /\ Written(0, FromLeft(data[2], data[3]), awake, FALSE)
  \/ ~brief /\ Len(data) = 2 /\ UNCHANGED chip

\* mcp4728_set_raw_output
SetRawOutput(t, value, ee) ==
  LET data == Left(value)
  IN  /\ main = "up" /\ call[t] = None
      /\ call' = AfterWrite(t)
      /\ \/ ee /\ Written(0, FromLeft(data[1], data[2]), awake, TRUE)
         \/ ~ee /\ FastCommand(<<0, data[1], data[2]>>)
         \/ UNCHANGED chip
      /\ UNCHANGED <<main, kind>>

\* mcp4728_fast_write
FastWrite(t, value) ==
  /\ main = "up" /\ call[t] = None
  /\ call' = AfterWrite(t)
  /\ FastCommand(Right(value)) \/ UNCHANGED chip
  /\ UNCHANGED <<main, kind>>

-----------------------------------------------------------------------------
(* my_i2cdac.c                                                             *)

\* The command of mcp4728_write_channel_raw, with bit 4 of the first byte set.
ChannelCommand(c, value) ==
  LET data == Right(value)
  IN  c < 3 /\ Written(c, FromRight(16 + data[1], data[2]), awake, FALSE)

\* mcp4728_write_channel_raw refuses channel 3, and any error restarts.
DacWriteChannel(t, c, value) ==
  /\ main = "up" /\ call[t] = None
  /\ \/ ChannelCommand(c, value) /\ call' = AfterWrite(t) /\ UNCHANGED main
     \/ ChannelCommand(c, value) /\ Reset
     \/ UNCHANGED chip /\ Reset
  /\ UNCHANGED kind

InitDesc == main = "off" /\ main' = "mode" /\ UNCHANGED <<call, chip, kind>>

\* The mode in the EEPROM decides.
GetPowerMode ==
  /\ main = "mode"
  /\ main' = IF (Buffer[4] \div 32) % 4 = 0 THEN "up" ELSE "wake"
  /\ UNCHANGED <<call, chip, kind>>

WakeRead ==
  /\ main = "wake" /\ main' = "power"
  /\ SetPowerRead(Main, TRUE, TRUE)
  /\ UNCHANGED <<chip, kind>>

WakeWrite ==
  /\ main = "power"
  /\ \/ SetPowerWrite(Main) /\ main' = "wait" /\ call' = AfterWrite(Main)
     \/ SetPowerWrite(Main) /\ Reset
  /\ UNCHANGED kind

\* Variant: the ready bit is taken for a busy bit.
WaitForEeprom_Inverted ==
  /\ main = "wait" /\ Status < 128
  /\ main' = "up"
  /\ UNCHANGED <<call, chip, kind>>

WaitForEeprom ==
  /\ main = "wait" /\ Status >= 128
  /\ main' = "up"
  /\ UNCHANGED <<call, chip, kind>>

MainStep == InitDesc \/ GetPowerMode \/ WakeRead \/ WakeWrite \/ WaitForEeprom

Next ==
  \/ MainStep \/ EepromDone \/ Restart \/ PowerLoss
  \/ \E t \in Users, v \in Values, ee \in BOOLEAN :
       \/ \E mode \in BOOLEAN : SetPowerMode(t, ee, mode)
       \/ SetPowerEnds(t)
       \/ SetRawOutput(t, v, ee)
       \/ FastWrite(t, v)
       \/ \E c \in Channels : DacWriteChannel(t, c, v)

Spec == Init /\ [][Next]_vars

\* The main task runs, and the chip finishes writing its EEPROM.
FairSpec == Spec /\ WF_vars(MainStep) /\ WF_vars(EepromDone)

-----------------------------------------------------------------------------

Kept(c) ==
  IF c.eeprom THEN c.value = eeprom.value
  ELSE c.value % 16 = out \div 256 /\ (awake <=> (c.value \div 32) % 4 = 0)

\* The value that mcp4728_set_power_mode is about to write, unless another write
\* ran between its two sessions (mcp4728.c:123-133, 145-147): with eeprom it is the
\* stored value still; without, four bits of the output are all it keeps of it, its
\* highest as the lowest, below the power mode, and the rest of the output is lost.
ValueKept == \A t \in Tasks : call[t] # None /\ ~call[t].raced => Kept(call[t])

\* init_mcp4728 returns or restarts the chip, and when it returns the DAC is
\* awake, unless since its power came a task put it to sleep or it was too
\* busy to listen (my_i2cdac.c:45-60: only the mode in the EEPROM is looked at).
InitWakes ==
  main = "mode" ~> (main = "off" \/ (main = "up" /\ (awake \/ excused)))
=============================================================================
