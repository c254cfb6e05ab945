------------------------------ MODULE Tca9534 -------------------------------
(***************************************************************************)
(* The port expander: src/components/tca9534, both the register functions  *)
(* of tca9534.c and their user i2c_exp.c, on top of I2cDev.                *)
(*                                                                         *)
(* A call of tca9534.c is a session of I2cDev on the expander: one         *)
(* transfer, or a read and a write for tca9534_set_level.  i2c_exp_init    *)
(* makes a script of calls, the application's tasks single ones.  Other    *)
(* devices of the bus are used meanwhile.  Nothing in the repository calls *)
(* i2cdev_done, so the library stays up.                                   *)
(***************************************************************************)
EXTENDS I2cDev, Sequences

CONSTANTS
  Exp,      \* i2c_exp.c's static descriptor
  Pins,     \* bits of the chip's 8-bit registers
  UserOps   \* the calls the application makes

VARIABLES
  regs,     \* external: the chip's output, polarity and configuration registers
  op,       \* the call of tca9534.c a task is in
  status,   \* how far it is, as in PinLatch
  phase,    \* which transfer of the call comes next, or is running
  val,      \* local v of tca9534_set_level
  script,   \* the calls i2c_exp_init has yet to make
  boot,     \* i2c_exp_init: "no", the task that runs it, or "yes"
  faulted   \* history: a call of i2c_exp_init failed

expVars == <<regs, op, status, phase, val, script, boot, faulted>>
tcaVars == <<vars, expVars>>

\* Variant: the values are never written.
InitScript_NoValues ==
  << [kind |-> "read"],
     [kind |-> "write", reg |-> "conf", bits |-> {}],
     [kind |-> "write", reg |-> "conf", bits |-> {}] >>

\* i2c_exp_init: read the pins, make all pins outputs, drive them low.
InitScript ==
  << [kind |-> "read"],
     [kind |-> "write", reg |-> "conf", bits |-> {}],
     [kind |-> "write", reg |-> "out", bits |-> {}] >>

AllOps == UserOps \cup {InitScript[i] : i \in 1 .. 3}

\* What callers may rely on.
Latch == INSTANCE PinLatch WITH Ops <- AllOps

ASSUME TcaAssumption ==
  /\ Exp \in Devices
  /\ {"no", "yes"} \cap Tasks = {}
  /\ UserOps \subseteq
       {Latch!Read} \cup {Latch!Write(r, v) : r \in Latch!Regs, v \in SUBSET Pins}
                    \cup {Latch!Level(p, on) : p \in Pins, on \in BOOLEAN}

\* What may be left of the script.
Scripts ==
  { InitScript, <<InitScript[2], InitScript[3]>>, <<InitScript[3]>>, << >> }

ExpType ==
  /\ regs \in [Latch!Regs -> SUBSET Pins]
  /\ op \in [Tasks -> AllOps \cup {Latch!NoOp}]
  /\ status \in [Tasks -> {"pending", "latched", "ok", "error"}]
  /\ phase \in [Tasks -> {"rest", "first", "second", "end"}]
  /\ val \in [Tasks -> SUBSET Pins]
  /\ script \in Scripts
  /\ boot \in Tasks \cup {"no", "yes"} /\ faulted \in BOOLEAN

TcaTypeOK == TypeOK /\ ExpType

\* The chip powers up with all pins inputs and all output bits one.
TcaInit ==
  /\ Init
  /\ regs = [r \in Latch!Regs |-> IF r = "pol" THEN {} ELSE Pins]
  /\ op = [t \in Tasks |-> Latch!NoOp]
  /\ status = [t \in Tasks |-> "ok"]
  /\ phase = [t \in Tasks |-> "rest"]
  /\ val = [t \in Tasks |-> {}]
  /\ script = << >>
  /\ boot = "no" /\ faulted = FALSE

-----------------------------------------------------------------------------
(* i2c_exp.c                                                               *)

ExpInit(t) ==
  /\ boot = "no"
  /\ lib = "up"
  /\ pc[t] = "idle"
  /\ CreateMutex(Exp)
  /\ script' = InitScript
  /\ boot' = t
  /\ faulted' = FALSE
  /\ UNCHANGED <<regs, op, status, phase, val>>

\* What the three calls returned is not looked at.
ExpInitReturns ==
  /\ boot \in Tasks
  /\ pc[boot] = "idle"
  /\ script = << >>
  /\ boot' = "yes" /\ faulted' = FALSE
  /\ UNCHANGED <<vars, regs, op, status, phase, val, script>>

ExpDeinit ==
  /\ boot = "yes"
  /\ DeleteMutex(Exp)
  /\ boot' = "no"
  /\ UNCHANGED <<regs, op, status, phase, val, script, faulted>>

-----------------------------------------------------------------------------
(* tca9534.c: read_reg_8, write_reg_8 and tca9534_set_level.               *)

Begin(t, o) ==
  /\ Call(t, Exp)
  /\ op' = [op EXCEPT ![t] = o]
  /\ status' = [status EXCEPT ![t] = "pending"]
  /\ phase' = [phase EXCEPT ![t] = "first"]
  /\ UNCHANGED <<regs, val>>

UserCall(t, o) ==
  /\ boot = "yes"
  /\ Begin(t, o)
  /\ UNCHANGED <<script, boot, faulted>>

InitCall(t) ==
  /\ boot = t
  /\ script # << >>
  /\ Begin(t, Head(script))
  /\ script' = Tail(script)
  /\ UNCHANGED <<boot, faulted>>

End(t, r) ==
  /\ status' = [status EXCEPT ![t] = IF r = "ok" THEN "ok" ELSE "error"]
  /\ op' = [op EXCEPT ![t] = Latch!NoOp]
  /\ phase' = [phase EXCEPT ![t] = "rest"]
  /\ val' = [val EXCEPT ![t] = {}]
  /\ faulted' = (faulted \/ (boot = t /\ r # "ok"))
  /\ UNCHANGED <<regs, script, boot>>

NoDeviceMutex(t) == MutexTimeout(t) /\ End(t, "timeout")

\* I2C_DEV_GIVE_MUTEX, on the good path or in I2C_DEV_CHECK.
FinishCall(t) ==
  /\ phase[t] = "end"
  /\ GiveMutex(t)
  /\ End(t, res[t])

ExpTransfer(t) ==
  /\ phase[t] \in {"first", "second"}
  /\ StartTransfer(t)
  /\ UNCHANGED expVars

\* The steps of a transfer in which no data moves.
Plumbing(t) ==
  /\ \/ TakeMutex(t) \/ TakePort(t) \/ BlockOnPort(t) \/ SetupPort(t)
     \/ ParamConfig(t) \/ DriverInstall(t) \/ SetStretch(t) \/ SetupFails(t)
  /\ UNCHANGED expVars

\* The register write of a call reaches the chip.
WriteLands(t) ==
  /\ regs' = CASE op[t].kind = "write" -> [regs EXCEPT ![op[t].reg] = op[t].bits]
               [] op[t].kind = "level" -> [regs EXCEPT !["out"] = val[t]]
  /\ status' = [status EXCEPT ![t] = "latched"]
  /\ UNCHANGED <<op, phase, val, script, boot, faulted>>

IsWrite(t) == op[t].kind = "write" \/ phase[t] = "second"

WriteCommand(t) == IsWrite(t) /\ CommandRuns(t) /\ WriteLands(t)

ReadCommand(t) ==
  /\ op[t].kind = "read"
  /\ CommandRuns(t)
  /\ status' = [status EXCEPT ![t] = "latched"]
  /\ UNCHANGED <<regs, op, phase, val, script, boot, faulted>>

\* Variant: the output register is not read but taken from a shadow copy, the
\* value i2c_exp_init wrote.
LevelRead_Shadow(t) ==
  /\ op[t].kind = "level" /\ phase[t] = "first"
  /\ CommandRuns(t)
  /\ val' = [val EXCEPT ![t] = Latch!SetBit({}, op[t].pin, op[t].on)]
  /\ UNCHANGED <<regs, op, status, phase, script, boot, faulted>>

\* tca9534_set_level reads the output register and replaces its pin's bit.
LevelRead(t) ==
  /\ op[t].kind = "level" /\ phase[t] = "first"
  /\ CommandRuns(t)
  /\ val' = [val EXCEPT ![t] = Latch!SetBit(regs["out"], op[t].pin, op[t].on)]
  /\ UNCHANGED <<regs, op, status, phase, script, boot, faulted>>

\* A failed command may have failed after the chip took the byte.
ExpCommandFails(t) ==
  /\ CommandFails(t)
  /\ \/ UNCHANGED expVars
     \/ IsWrite(t) /\ live[Port(t)] /\ WriteLands(t)

\* Variant: a failed transfer is tried again until it succeeds.
TransferEnds_Retry(t) ==
  /\ GivePort(t) \/ PortTimeout(t)
  /\ phase' = [phase EXCEPT ![t] =
       IF res'[t] # "ok" THEN @
       ELSE IF op[t].kind = "level" /\ @ = "first" THEN "second" ELSE "end"]
  /\ UNCHANGED <<regs, op, status, val, script, boot, faulted>>

\* A transfer is over: I2C_DEV_CHECK looks at its result.
TransferEnds(t) ==
  /\ GivePort(t) \/ PortTimeout(t)
  /\ phase' = [phase EXCEPT ![t] =
       IF res'[t] = "ok" /\ op[t].kind = "level" /\ @ = "first"
         THEN "second" ELSE "end"]
  /\ UNCHANGED <<regs, op, status, val, script, boot, faulted>>

-----------------------------------------------------------------------------
\* The rest of the bus: sessions on other devices.
OtherStep(t) ==
  /\ dev[t] # Exp
  /\ SessionStep(t) \/ TransferStep(t)
  /\ UNCHANGED expVars

OtherStart(t) ==
  /\ \/ boot # t /\ \E d \in Devices \ {Exp} : Call(t, d)
     \/ dev[t] # Exp /\ StartTransfer(t)
  /\ UNCHANGED expVars

ExpStep(t) ==
  /\ dev[t] = Exp
  /\ \/ NoDeviceMutex(t) \/ FinishCall(t) \/ ExpTransfer(t) \/ Plumbing(t)
     \/ WriteCommand(t) \/ ReadCommand(t) \/ LevelRead(t) \/ ExpCommandFails(t)
     \/ TransferEnds(t)

BusUp ==
  /\ LibInit(NPorts) \/ \E d \in Devices \ {Exp} : CreateMutex(d)
  /\ UNCHANGED expVars

TcaNext ==
  \/ BusUp
  \/ ExpInitReturns \/ ExpDeinit
  \/ \E t \in Tasks :
       \/ ExpInit(t) \/ InitCall(t) \/ \E o \in UserOps : UserCall(t, o)
       \/ ExpStep(t)
       \/ OtherStart(t) \/ OtherStep(t)

TcaSpec == TcaInit /\ [][TcaNext]_tcaVars

TcaFairness == \A t \in Tasks : WF_tcaVars(ExpStep(t)) /\ WF_tcaVars(OtherStep(t))

TcaFairSpec == TcaSpec /\ TcaFairness

-----------------------------------------------------------------------------
(* Properties.                                                             *)

\* tca9534_set_level loses no update: when its write runs, the value it read,
\* with its own pin replaced, is still the content of the output register.
NoLostUpdate ==
  \A t \in Tasks :
    dev[t] = Exp /\ pc[t] = "command" /\ phase[t] = "second" =>
      val[t] = Latch!SetBit(regs["out"], op[t].pin, op[t].on)

\* Each call of tca9534.c behaves as one atomic step on the chip's registers,
\* done at most once, and done if the call returns ESP_OK.
CallsAreAtomic == Latch!Spec

\* Each call returns: no mutex and no failure on the bus holds it for good.
CallReturns ==
  \A t \in Tasks : status[t] = "pending" ~> status[t] \in {"ok", "error"}

AllOff == regs["out"] = {} /\ regs["conf"] = {}

\* "All values off" (i2c_exp.c:50): when i2c_exp_init returns, every pin is an
\* output and off, although other tasks use the bus and a first call finds the
\* driver not yet set up, unless one of its calls failed, which it does not
\* notice.
InitDrivesLow ==
  [][(boot \in Tasks /\ boot' = "yes" /\ ~faulted) => AllOff]_tcaVars
=============================================================================
