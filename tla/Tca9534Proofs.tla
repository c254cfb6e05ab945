--------------------------- MODULE Tca9534Proofs ---------------------------
(***************************************************************************)
(* The safety properties of I2cDev, and of the port expander on its bus,   *)
(* for any tasks, devices, ports and pins and any calls the application    *)
(* makes.                                                                  *)
(*                                                                         *)
(* The bus: LockInv, about the mutexes alone, is inductive on its own;     *)
(* CacheInv, about the configuration cache and the driver, needs it to     *)
(* know that nobody else touches the port of a task that is setting it up. *)
(*                                                                         *)
(* The expander: the calls of tca9534.c are atomic, and i2c_exp_init       *)
(* leaves every pin an output and off.  This rests on the bus: a session   *)
(* on the expander excludes every other one.                               *)
(***************************************************************************)
EXTENDS Tca9534, TLAPS

\* A task inside a port holds its mutex, unless i2cdev_done deleted it.
InsideHolds == \A t \in Tasks : InPort(t) => lock[Port(t)] \in {t, NoLock}

\* A task in a session holds its device's mutex.
SessionHolds ==
  \A t \in Tasks : pc[t] \notin {"idle", "mutex"} => mutex[dev[t]] = t

\* i2cdev_done holds the mutex it took.
DoneHolds == lib = "held" => lock[donePort] = Lib

LockInv ==
  /\ TypeOK
  /\ NoMutexLeak
  /\ InsideHolds
  /\ SessionHolds
  /\ DoneHolds
  /\ PortExclusive

\* What a task that sets its port up relies on, step by step.
SetupInv ==
  \A t \in Tasks :
    /\ pc[t] \in {"param", "install"} /\ live[Port(t)] => cached[Port(t)] = ZeroCfg
    /\ pc[t] = "install" => drvCfg[Port(t)] = DevCfg[dev[t]]
    /\ pc[t] \in {"stretch", "command"} => cached[Port(t)] = DevCfg[dev[t]]
    /\ pc[t] = "command" => drvTicks[Port(t)] = DevTicks[dev[t]]

CacheInv == CacheCoherent /\ SetupInv

IInv == LockInv /\ CacheInv

-----------------------------------------------------------------------------
(* Typing.                                                                 *)

\* A task's port exists (dev->port is in range for every descriptor).
LEMMA PortType == TypeOK => \A t \in Tasks : Port(t) \in Ports
  BY I2cAssumption DEF TypeOK, Port

\* The initial state and every step keep the variables in their types.
LEMMA TypeStep == TypeOK /\ [Next]_vars => TypeOK'
<1> SUFFICES ASSUME TypeOK, [Next]_vars PROVE TypeOK'
  OBVIOUS
<1> USE I2cAssumption, PortType DEF TypeOK, TaskPc, PortPc, LibPc, Results, portVars, drvVars, taskVars, libVars
<1>1. CASE \E d \in Devices : CreateMutex(d) \/ DeleteMutex(d)
  BY <1>1 DEF CreateMutex, DeleteMutex
<1>2. CASE \E t \in Tasks, d \in Devices : Call(t, d)
  BY <1>2 DEF Call, Goto
<1>3. CASE \E t \in Tasks : StartTransfer(t) \/ SessionStep(t)
  BY <1>3 DEF StartTransfer, SessionStep, TakeMutex, MutexTimeout, GiveMutex, Goto, Return
<1>4. ASSUME NEW t \in Tasks, TransferStep(t) PROVE TypeOK'
  <2>1. CASE TakePort(t)
    BY <2>1 DEF TakePort, Goto
  <2>2. CASE BlockOnPort(t)
    BY <2>2 DEF BlockOnPort, Goto
  <2>3. CASE PortTimeout(t)
    BY <2>3 DEF PortTimeout, Goto, Return
  <2>4. CASE SetupPort(t)
    BY <2>4 DEF SetupPort, Goto
  <2>5. CASE ParamConfig(t)
    BY <2>5 DEF ParamConfig, Goto
  <2>6. CASE DriverInstall(t)
    BY <2>6 DEF DriverInstall, Goto
  <2>7. CASE SetStretch(t)
    BY <2>7 DEF SetStretch, Goto
  <2>8. CASE SetupFails(t)
    BY <2>8 DEF SetupFails, Goto, Return
  <2>9. CASE CommandRuns(t)
    BY <2>9 DEF CommandRuns, Goto, Return
  <2>10. CASE CommandFails(t)
    BY <2>10 DEF CommandFails, Goto, Return
  <2>11. CASE GivePort(t)
    BY <2>11 DEF GivePort, Goto
  <2>12. CASE Abort(t)
    BY <2>12 DEF Abort
  <2> QED
    BY <1>4, <2>1, <2>2, <2>3, <2>4, <2>5, <2>6, <2>7, <2>8, <2>9, <2>10, <2>11, <2>12 DEF TransferStep
<1>5. ASSUME NEW n \in 0 .. NPorts, LibInit(n) PROVE TypeOK'
  BY <1>5 DEF LibInit, Ports
<1>6. CASE LibDone \/ LibStep
  <2>1. CASE LibDone
    BY <2>1 DEF LibDone, Ports
  <2>2. CASE DoneCheck
    BY <2>2 DEF DoneCheck, Ports
  <2>3. CASE DoneReturns
    BY <2>3 DEF DoneReturns, Ports
  <2>4. CASE DoneTake
    BY <2>4 DEF DoneTake, Ports
  <2>5. CASE DoneTimeout
    BY <2>5 DEF DoneTimeout, Ports
  <2>6. CASE DoneUninstall
    BY <2>6 DEF DoneUninstall, Ports
  <2>7. CASE DoneDelete
    BY <2>7 DEF DoneDelete, Ports
  <2> QED
    BY <1>6, <2>1, <2>2, <2>3, <2>4, <2>5, <2>6, <2>7 DEF LibStep
<1>7. CASE UNCHANGED vars
  BY <1>7 DEF vars
<1> QED
  BY <1>1, <1>2, <1>3, <1>4, <1>5, <1>6, <1>7 DEF Next

\* A specification keeps its variables in their types.
THEOREM TypeCorrect == Spec => []TypeOK
<1>1. Init => TypeOK
  BY I2cAssumption DEF Init, TypeOK, TaskPc, LibPc, Results, Ports
<1> QED
  BY <1>1, TypeStep, PTL DEF Spec

-----------------------------------------------------------------------------
(* Mutexes.                                                                *)

\* Before i2cdev_init no mutex exists.
LEMMA LockInit == Init => LockInv
  <1> SUFFICES ASSUME Init PROVE LockInv
    OBVIOUS
  <1>1. TypeOK
    BY I2cAssumption DEF Init, TypeOK, TaskPc, LibPc, Results, Ports
  <1> QED
    BY <1>1, I2cAssumption DEF Init, LockInv, NoMutexLeak, InsideHolds,
       SessionHolds, DoneHolds, PortExclusive, InPort, PortPc

\* Every step of the tasks and of i2cdev_done keeps the mutexes sound.
LEMMA LockStep == LockInv /\ [Next]_vars => LockInv'
<1> SUFFICES ASSUME LockInv, [Next]_vars PROVE LockInv'
  OBVIOUS
<1> DEFINE Goal == (NoMutexLeak /\ InsideHolds /\ SessionHolds /\ DoneHolds /\ PortExclusive)'
<1>0. TypeOK /\ TypeOK'
  BY TypeStep DEF LockInv
<1> SUFFICES Goal
  BY <1>0 DEF LockInv
<1> USE <1>0, I2cAssumption, PortType DEF LockInv, TypeOK, NoMutexLeak, InsideHolds, SessionHolds,
        DoneHolds, PortExclusive, InPort, PortPc, Port, portVars, drvVars, taskVars, libVars
<1>1. ASSUME NEW d \in Devices, CreateMutex(d) \/ DeleteMutex(d) PROVE Goal
  BY <1>1 DEF CreateMutex, DeleteMutex
<1>2. ASSUME NEW t \in Tasks, NEW d \in Devices, Call(t, d) PROVE Goal
  BY <1>2 DEF Call, Goto
<1>3. ASSUME NEW t \in Tasks, StartTransfer(t) \/ SessionStep(t) PROVE Goal
  <2>1. CASE StartTransfer(t)
    BY <2>1 DEF StartTransfer, Goto
  <2>2. CASE TakeMutex(t)
    BY <2>2 DEF TakeMutex, Goto, Return
  <2>3. CASE MutexTimeout(t)
    BY <2>3 DEF MutexTimeout, Goto, Return
  <2>4. CASE GiveMutex(t)
    BY <2>4 DEF GiveMutex, Goto
  <2> QED
    BY <1>3, <2>1, <2>2, <2>3, <2>4 DEF SessionStep
<1>4. ASSUME NEW t \in Tasks, TransferStep(t) PROVE Goal
  <2>1. CASE TakePort(t)
    BY <2>1 DEF TakePort, Goto
  <2>2. CASE BlockOnPort(t)
    BY <2>2 DEF BlockOnPort, Goto
  <2>3. CASE PortTimeout(t)
    BY <2>3 DEF PortTimeout, Goto, Return
  <2>4. CASE SetupPort(t)
    BY <2>4 DEF SetupPort, Goto
  <2>5. CASE ParamConfig(t)
    BY <2>5 DEF ParamConfig, Goto
  <2>6. CASE DriverInstall(t)
    BY <2>6 DEF DriverInstall, Goto
  <2>7. CASE SetStretch(t)
    BY <2>7 DEF SetStretch, Goto
  <2>8. CASE SetupFails(t)
    BY <2>8 DEF SetupFails, Goto, Return
  <2>9. CASE CommandRuns(t)
    BY <2>9 DEF CommandRuns, Goto, Return
  <2>10. CASE CommandFails(t)
    BY <2>10 DEF CommandFails, Goto, Return
  <2>11. CASE GivePort(t)
    BY <2>11 DEF GivePort, Goto
  <2>12. CASE Abort(t)
    BY <2>12 DEF Abort
  <2> QED
    BY <1>4, <2>1, <2>2, <2>3, <2>4, <2>5, <2>6, <2>7, <2>8, <2>9, <2>10, <2>11, <2>12 DEF TransferStep
<1>5. ASSUME NEW n \in 0 .. NPorts, LibInit(n) PROVE Goal
  BY <1>5 DEF LibInit, Quiet
<1>6. ASSUME LibDone \/ LibStep PROVE Goal
  <2>1. CASE LibDone
    BY <2>1 DEF LibDone
  <2>2. CASE DoneCheck
    BY <2>2 DEF DoneCheck
  <2>3. CASE DoneReturns
    BY <2>3 DEF DoneReturns
  <2>4. CASE DoneTake
    BY <2>4 DEF DoneTake
  <2>5. CASE DoneTimeout
    BY <2>5 DEF DoneTimeout
  <2>6. CASE DoneUninstall
    BY <2>6 DEF DoneUninstall
  <2>7. CASE DoneDelete
    BY <2>7 DEF DoneDelete
  <2> QED
    BY <1>6, <2>1, <2>2, <2>3, <2>4, <2>5, <2>6, <2>7 DEF LibStep
<1>7. CASE UNCHANGED vars
  BY <1>7 DEF vars
<1> QED
  BY <1>1, <1>2, <1>3, <1>4, <1>5, <1>6, <1>7 DEF Next

-----------------------------------------------------------------------------
(* The configuration cache and the driver.                                 *)

\* Before i2cdev_init no driver is installed.
LEMMA CacheInit == Init => CacheInv
  BY DEF Init, CacheInv, CacheCoherent, Reinstalling, SetupInv

\* Every step keeps the cache true to the driver, given sound mutexes.
LEMMA CacheStep == LockInv /\ CacheInv /\ [Next]_vars => CacheInv'
<1> SUFFICES ASSUME LockInv, CacheInv, [Next]_vars PROVE CacheInv'
  OBVIOUS
<1>0. TypeOK /\ TypeOK'
  BY TypeStep DEF LockInv
<1> USE <1>0, I2cAssumption, PortType DEF LockInv, TypeOK, NoMutexLeak, InsideHolds, DoneHolds, PortExclusive, InPort, PortPc, Port,
        CacheInv, CacheCoherent, Reinstalling, SetupInv, portVars, drvVars, taskVars, libVars
<1>1. ASSUME NEW d \in Devices, CreateMutex(d) \/ DeleteMutex(d) PROVE CacheInv'
  BY <1>1 DEF CreateMutex, DeleteMutex
<1>2. ASSUME NEW t \in Tasks, NEW d \in Devices, Call(t, d) PROVE CacheInv'
  BY <1>2 DEF Call, Goto
<1>3. ASSUME NEW t \in Tasks, StartTransfer(t) \/ SessionStep(t) PROVE CacheInv'
  <2>1. CASE StartTransfer(t)
    BY <2>1 DEF StartTransfer, Goto
  <2>2. CASE TakeMutex(t)
    BY <2>2 DEF TakeMutex, Goto, Return
  <2>3. CASE MutexTimeout(t)
    BY <2>3 DEF MutexTimeout, Goto, Return
  <2>4. CASE GiveMutex(t)
    BY <2>4 DEF GiveMutex, Goto
  <2> QED
    BY <1>3, <2>1, <2>2, <2>3, <2>4 DEF SessionStep
<1>4. ASSUME NEW t \in Tasks, TransferStep(t) PROVE CacheInv'
  <2>1. CASE TakePort(t)
    BY <2>1 DEF TakePort, Goto
  <2>2. CASE BlockOnPort(t)
    BY <2>2 DEF BlockOnPort, Goto
  <2>3. CASE PortTimeout(t)
    BY <2>3 DEF PortTimeout, Goto, Return
  <2>4. CASE SetupPort(t)
    BY <2>4 DEF SetupPort, Goto
  <2>5. CASE ParamConfig(t)
    BY <2>5 DEF ParamConfig, Goto
  <2>6. CASE DriverInstall(t)
    BY <2>6 DEF DriverInstall, Goto
  <2>7. CASE SetStretch(t)
    BY <2>7 DEF SetStretch, Goto
  <2>8. CASE SetupFails(t)
    BY <2>8 DEF SetupFails, Goto, Return
  <2>9. CASE CommandRuns(t)
    BY <2>9 DEF CommandRuns, Goto, Return
  <2>10. CASE CommandFails(t)
    BY <2>10 DEF CommandFails, Goto, Return
  <2>11. CASE GivePort(t)
    BY <2>11 DEF GivePort, Goto
  <2>12. CASE Abort(t)
    BY <2>12 DEF Abort
  <2> QED
    BY <1>4, <2>1, <2>2, <2>3, <2>4, <2>5, <2>6, <2>7, <2>8, <2>9, <2>10, <2>11, <2>12 DEF TransferStep
<1>5. ASSUME NEW n \in 0 .. NPorts, LibInit(n) PROVE CacheInv'
  BY <1>5 DEF LibInit, Quiet
<1>6. ASSUME LibDone \/ LibStep PROVE CacheInv'
  <2>1. CASE LibDone
    BY <2>1 DEF LibDone
  <2>2. CASE DoneCheck
    BY <2>2 DEF DoneCheck
  <2>3. CASE DoneReturns
    BY <2>3 DEF DoneReturns
  <2>4. CASE DoneTake
    BY <2>4 DEF DoneTake
  <2>5. CASE DoneTimeout
    BY <2>5 DEF DoneTimeout
  <2>6. CASE DoneUninstall
    BY <2>6 DEF DoneUninstall
  <2>7. CASE DoneDelete
    BY <2>7 DEF DoneDelete
  <2> QED
    BY <1>6, <2>1, <2>2, <2>3, <2>4, <2>5, <2>6, <2>7 DEF LibStep
<1>7. CASE UNCHANGED vars
  BY <1>7 DEF vars
<1> QED
  BY <1>1, <1>2, <1>3, <1>4, <1>5, <1>6, <1>7 DEF Next

\* The inductive invariant holds in every reachable state.
THEOREM InvariantHolds == Spec => []IInv
<1>1. Init => IInv
  BY LockInit, CacheInit DEF IInv
<1>2. IInv /\ [Next]_vars => IInv'
  BY LockStep, CacheStep DEF IInv
<1> QED
  BY <1>1, <1>2, PTL DEF Spec

\* At most one task works on a port, even while i2cdev_done deletes its mutex.
THEOREM PortExclusiveHolds == Spec => []PortExclusive
<1>1. IInv => PortExclusive
  BY DEF IInv, LockInv
<1> QED
  BY <1>1, InvariantHolds, PTL

\* Every exit of a driver function has given its mutexes back.
THEOREM NoMutexLeakHolds == Spec => []NoMutexLeak
<1>1. IInv => NoMutexLeak
  BY DEF IInv, LockInv
<1> QED
  BY <1>1, InvariantHolds, PTL

\* A cache hit finds the driver running with the cached configuration, unless
\* i2cdev_done deleted it or the last reinstallation failed: exactly then there
\* is no driver.
THEOREM CacheCoherentHolds == Spec => []CacheCoherent
<1>1. IInv => CacheCoherent
  BY DEF IInv, CacheInv
<1> QED
  BY <1>1, InvariantHolds, PTL

\* Every command the driver executes runs with its own device's settings: the
\* cache holds them since the setup of this transfer, and the driver agrees
\* with the cache.
THEOREM CommandHasOwnConfigHolds == Spec => []CommandHasOwnConfig
<1>1. IInv => CommandHasOwnConfig
  <2> SUFFICES ASSUME IInv, NEW t \in Tasks, pc[t] = "command", live[Port(t)]
               PROVE  /\ drvCfg[Port(t)] = DevCfg[dev[t]]
                      /\ drvTicks[Port(t)] = DevTicks[dev[t]]
    BY DEF CommandHasOwnConfig
  <2>1. TypeOK
    BY DEF IInv, LockInv
  <2>2. cached[Port(t)] = DevCfg[dev[t]] /\ drvTicks[Port(t)] = DevTicks[dev[t]]
    BY DEF IInv, CacheInv, SetupInv
  <2>3. Port(t) \in Ports /\ cached[Port(t)] # ZeroCfg
    BY <2>1, <2>2, PortType, I2cAssumption DEF TypeOK
  <2>4. drvCfg[Port(t)] = cached[Port(t)]
    BY <2>3 DEF IInv, CacheInv, CacheCoherent
  <2> QED
    BY <2>2, <2>4
<1> QED
  BY <1>1, InvariantHolds, PTL

-----------------------------------------------------------------------------
(* The expander on the bus: the inductive invariant.                       *)

\* i2cdev_init succeeds before the bus is used and i2cdev_done is not called,
\* so no port lacks its mutex.
LibUp ==
  /\ lib \in {"off", "up"}
  /\ lib = "off" => Quiet
  /\ lib = "up" => \A p \in Ports : lock[p] # NoLock

\* A device is used while its mutex exists.
MutexExists == \A t \in Tasks : pc[t] # "idle" => mutex[dev[t]] # NoLock

BusInv == IInv /\ LibUp /\ MutexExists

\* The steps of I2cDev that are taken here.
BusNext ==
  \/ LibInit(NPorts)
  \/ \E d \in Devices : CreateMutex(d) \/ DeleteMutex(d)
  \/ \E t \in Tasks :
       \/ \E d \in Devices : Call(t, d)
       \/ StartTransfer(t) \/ SessionStep(t) \/ TransferStep(t)

Using(t) == dev[t] = Exp /\ pc[t] # "idle"

\* tca9534_set_level has read the register and not yet written it.
HasRead(t) ==
  \/ phase[t] = "second" /\ pc[t] # "give"
  \/ phase[t] = "first" /\ op[t].kind = "level" /\ pc[t] = "give" /\ res[t] = "ok"

\* A call that is not in progress has returned.  One that is knows whether the
\* chip has done it, and between the two transfers of tca9534_set_level nothing
\* changes what the first one read.
CallOK(t) ==
  IF Using(t)
  THEN /\ op[t] \in AllOps
       /\ phase[t] \in {"first", "second", "end"}
       /\ status[t] \in {"pending", "latched"}
       /\ pc[t] = "mutex" => phase[t] = "first"
       /\ phase[t] = "first" /\ op[t].kind = "level" => status[t] = "pending"
       /\ phase[t] = "second" => op[t].kind = "level"
       /\ HasRead(t) => val[t] = Latch!SetBit(regs["out"], op[t].pin, op[t].on)
       /\ phase[t] = "end" => pc[t] = "session" /\ (res[t] = "ok" => status[t] = "latched")
       /\ status[t] = "latched" => pc[t] = "give" \/ phase[t] = "end"
       /\ pc[t] = "give" /\ res[t] = "ok" =>
            status[t] = "latched" \/ (phase[t] = "first" /\ op[t].kind = "level")
  ELSE phase[t] = "rest" /\ op[t] = Latch!NoOp /\ status[t] \in {"ok", "error"}

CallInv == \A t \in Tasks : CallOK(t)

\* i2c_exp_init has the expander to itself, and what its finished calls wrote
\* is in the registers.
BootOK(t) ==
  /\ \A u \in Tasks : Using(u) => u = t
  /\ pc[t] # "idle" => dev[t] = Exp
  /\ ~faulted =>
       /\ script = <<InitScript[3]>> =>
            IF pc[t] = "idle" THEN regs["conf"] = {}
            ELSE op[t] = InitScript[2] /\ (status[t] = "latched" => regs["conf"] = {})
       /\ script = << >> =>
            /\ regs["conf"] = {}
            /\ IF pc[t] = "idle" THEN regs["out"] = {}
               ELSE op[t] = InitScript[3] /\ (status[t] = "latched" => regs["out"] = {})

BootInv == boot \in Tasks => BootOK(boot)

\* Nobody uses the expander that i2c_exp.c has not set up.
DownInv == boot = "no" => \A u \in Tasks : ~Using(u)

TcaInv == BusInv /\ ExpType /\ CallInv /\ DownInv /\ BootInv

-----------------------------------------------------------------------------
(* The bus below.                                                          *)

\* Every step of the expander's users is a step of the bus or leaves it alone.
LEMMA TcaIsBus == [TcaNext]_tcaVars => [BusNext]_vars
<1> SUFFICES ASSUME TcaNext PROVE [BusNext]_vars
  BY DEF tcaVars
<1>1. CASE BusUp
  BY <1>1 DEF BusUp, BusNext
<1>2. CASE ExpInitReturns \/ ExpDeinit
  BY <1>2, TcaAssumption DEF ExpInitReturns, ExpDeinit, BusNext
<1>3. ASSUME NEW t \in Tasks, ExpInit(t) \/ InitCall(t) \/ \E o \in UserOps : UserCall(t, o)
      PROVE  BusNext
  BY <1>3, TcaAssumption DEF ExpInit, InitCall, UserCall, Begin, BusNext
<1>4. ASSUME NEW t \in Tasks, ExpStep(t) PROVE BusNext
  <2>1. CASE NoDeviceMutex(t) \/ FinishCall(t) \/ ExpTransfer(t)
    BY <2>1 DEF NoDeviceMutex, FinishCall, ExpTransfer, SessionStep, BusNext
  <2>2. CASE Plumbing(t)
    BY <2>2 DEF Plumbing, SessionStep, TransferStep, BusNext
  <2>3. CASE WriteCommand(t) \/ ReadCommand(t) \/ LevelRead(t) \/ ExpCommandFails(t) \/ TransferEnds(t)
    BY <2>3 DEF WriteCommand, ReadCommand, LevelRead, ExpCommandFails, TransferEnds, TransferStep, BusNext
  <2> QED
    BY <1>4, <2>1, <2>2, <2>3 DEF ExpStep
<1>5. ASSUME NEW t \in Tasks, OtherStart(t) \/ OtherStep(t) PROVE BusNext
  BY <1>5 DEF OtherStart, OtherStep, BusNext
<1> QED
  BY <1>1, <1>2, <1>3, <1>4, <1>5 DEF TcaNext

\* No port lacks its mutex, so nothing restarts the chip.
LEMMA NoAbort == BusInv => \A t \in Tasks : ~Abort(t)
<1> SUFFICES ASSUME BusInv, NEW t \in Tasks, Abort(t) PROVE FALSE
  OBVIOUS
<1>1. TypeOK /\ LibUp
  BY DEF BusInv, IInv, LockInv
<1>2. pc[t] # "idle" /\ lock[Port(t)] = NoLock /\ Port(t) \in Ports
  BY <1>1, PortType DEF Abort
<1> QED
  BY <1>1, <1>2 DEF LibUp, Quiet

\* Every step of the bus keeps its invariant, with the library up.
LEMMA BusStep == BusInv /\ [BusNext]_vars => BusInv'
<1> SUFFICES ASSUME BusInv, [BusNext]_vars PROVE BusInv'
  OBVIOUS
<1>1. [Next]_vars
  BY I2cAssumption DEF BusNext, Next
<1>2. IInv'
  BY <1>1, LockStep, CacheStep DEF BusInv, IInv
<1>3. TypeOK /\ TypeOK'
  BY <1>2 DEF BusInv, IInv, LockInv
<1> SUFFICES LibUp' /\ MutexExists'
  BY <1>2 DEF BusInv
<1> USE <1>3, I2cAssumption, PortType
    DEF BusInv, LibUp, MutexExists, Quiet, TypeOK, portVars, drvVars, taskVars, libVars, Goto, Return
<1>4. CASE LibInit(NPorts)
  BY <1>4 DEF LibInit, Ports
<1>5. ASSUME NEW d \in Devices, CreateMutex(d) \/ DeleteMutex(d) PROVE LibUp' /\ MutexExists'
  BY <1>5 DEF CreateMutex, DeleteMutex
<1>6. ASSUME NEW t \in Tasks, NEW d \in Devices, Call(t, d) PROVE LibUp' /\ MutexExists'
  BY <1>6 DEF Call
<1>7. ASSUME NEW t \in Tasks, StartTransfer(t) \/ SessionStep(t) PROVE LibUp' /\ MutexExists'
  BY <1>7 DEF StartTransfer, SessionStep, TakeMutex, MutexTimeout, GiveMutex
<1>8. ASSUME NEW t \in Tasks, TransferStep(t) PROVE LibUp' /\ MutexExists'
  <2>1. CASE TakePort(t) \/ BlockOnPort(t) \/ PortTimeout(t) \/ GivePort(t)
    BY <2>1 DEF TakePort, BlockOnPort, PortTimeout, GivePort
  <2>2. CASE SetupPort(t) \/ ParamConfig(t) \/ DriverInstall(t) \/ SetStretch(t) \/ SetupFails(t)
    BY <2>2 DEF SetupPort, ParamConfig, DriverInstall, SetStretch, SetupFails
  <2>3. CASE CommandRuns(t) \/ CommandFails(t)
    BY <2>3 DEF CommandRuns, CommandFails
  <2>4. ~Abort(t)
    BY NoAbort
  <2> QED
    BY <1>8, <2>1, <2>2, <2>3, <2>4 DEF TransferStep
<1>9. CASE UNCHANGED vars
  BY <1>9 DEF vars
<1> QED
  BY <1>4, <1>5, <1>6, <1>7, <1>8, <1>9 DEF BusNext

-----------------------------------------------------------------------------
(* The calls and the script.                                               *)

\* Every call is a read, a register write or a level, with the arguments its
\* function takes.
LEMMA OpKinds ==
  \A o \in AllOps :
    /\ o.kind \in {"read", "write", "level"}
    /\ o.kind = "write" => o.reg \in Latch!Regs /\ o.bits \in SUBSET Pins
    /\ o.kind = "level" => o.pin \in Pins /\ o.on \in BOOLEAN
<1> TAKE o \in AllOps
<1>1. CASE o \in UserOps
  <2>1. \/ o = Latch!Read
        \/ \E r \in Latch!Regs, v \in SUBSET Pins : o = Latch!Write(r, v)
        \/ \E p \in Pins, on \in BOOLEAN : o = Latch!Level(p, on)
    BY <1>1, TcaAssumption
  <2> QED
    BY <2>1 DEF Latch!Read, Latch!Write, Latch!Level
<1>2. CASE \E i \in 1 .. 3 : o = InitScript[i]
  BY <1>2 DEF InitScript, Latch!Regs
<1> QED
  BY <1>1, <1>2 DEF AllOps

\* A level changes one pin of the register.
LEMMA SetBitType ==
  \A bits \in SUBSET Pins, o \in AllOps :
    o.kind = "level" => Latch!SetBit(bits, o.pin, o.on) \in SUBSET Pins
  BY OpKinds DEF Latch!SetBit

\* The script's calls come off its head one by one.
LEMMA ScriptSteps ==
  \A s \in Scripts : s # << >> =>
    /\ Head(s) \in AllOps
    /\ Tail(s) \in Scripts
    /\ Tail(s) = <<InitScript[3]>> => Head(s) = InitScript[2]
    /\ Tail(s) = << >> => s = <<InitScript[3]>> /\ Head(s) = InitScript[3]
<1> DEFINE R == InitScript[1]
           C == InitScript[2]
           O == InitScript[3]
<1>1. R \in AllOps /\ C \in AllOps /\ O \in AllOps
  BY DEF AllOps
<1>2. InitScript = <<R, C, O>>
  BY DEF InitScript
<1> HIDE DEF R, C, O
<1> SUFFICES ASSUME NEW s \in {<<R, C, O>>, <<C, O>>, <<O>>}
             PROVE  /\ Head(s) \in AllOps
                    /\ Tail(s) \in {<<R, C, O>>, <<C, O>>, <<O>>, << >>}
                    /\ Tail(s) = <<O>> => Head(s) = C
                    /\ Tail(s) = << >> => s = <<O>> /\ Head(s) = O
  BY <1>2 DEF Scripts, R, C, O
<1>3. CASE s = <<R, C, O>>
  <2>1. Head(s) = R /\ Tail(s) = <<C, O>>
    BY <1>3
  <2> QED
    BY <2>1, <1>1
<1>4. CASE s = <<C, O>>
  <2>1. Head(s) = C /\ Tail(s) = <<O>>
    BY <1>4
  <2> QED
    BY <2>1, <1>1
<1>5. CASE s = <<O>>
  <2>1. Head(s) = O /\ Tail(s) = << >>
    BY <1>5
  <2> QED
    BY <2>1, <1>1, <1>5
<1> QED
  BY <1>3, <1>4, <1>5

\* Before the script starts.
LEMMA WholeScript == InitScript \in Scripts /\ InitScript # <<InitScript[3]>> /\ InitScript # << >>
<1>1. Len(InitScript) = 3
  BY DEF InitScript
<1>2. Len(<<InitScript[3]>>) = 1 /\ Len(<< >>) = 0
  OBVIOUS
<1> QED
  BY <1>1, <1>2 DEF Scripts

-----------------------------------------------------------------------------
(* Typing.                                                                 *)

\* Every step keeps the variables of Tca9534 in their types.
LEMMA ExpTypeStep == TypeOK /\ ExpType /\ CallInv /\ [TcaNext]_tcaVars => ExpType'
<1> SUFFICES ASSUME TypeOK, ExpType, CallInv, [TcaNext]_tcaVars PROVE ExpType'
  OBVIOUS
<1> USE TcaAssumption DEF ExpType
<1>1. CASE UNCHANGED expVars
  BY <1>1 DEF expVars
<1>2. CASE ExpInitReturns \/ ExpDeinit
  BY <1>2 DEF ExpInitReturns, ExpDeinit
<1>3. ASSUME NEW t \in Tasks, ExpInit(t) PROVE ExpType'
  BY <1>3, WholeScript DEF ExpInit
<1>4. ASSUME NEW t \in Tasks, NEW o \in AllOps, Begin(t, o)
      PROVE  /\ op' \in [Tasks -> AllOps \cup {Latch!NoOp}]
             /\ status' \in [Tasks -> {"pending", "latched", "ok", "error"}]
             /\ phase' \in [Tasks -> {"rest", "first", "second", "end"}]
             /\ regs' = regs /\ val' = val
  BY <1>4 DEF Begin
<1>5. ASSUME NEW t \in Tasks, NEW o \in UserOps, UserCall(t, o) PROVE ExpType'
  BY <1>5, <1>4 DEF UserCall, AllOps
<1>6. ASSUME NEW t \in Tasks, InitCall(t) PROVE ExpType'
  BY <1>6, <1>4, ScriptSteps DEF InitCall
<1>7. ASSUME NEW t \in Tasks, ExpStep(t), ~UNCHANGED expVars PROVE ExpType'
  <2>1. Using(t) => op[t] \in AllOps /\ (phase[t] = "second" => op[t].kind = "level")
    BY DEF CallInv, CallOK
  <2>2. CASE NoDeviceMutex(t) \/ FinishCall(t)
    BY <2>2 DEF NoDeviceMutex, FinishCall, End
  <2>3. ASSUME WriteLands(t), IsWrite(t), Using(t) PROVE ExpType'
    <3>1. CASE op[t].kind = "write"
      BY <3>1, <2>1, <2>3, OpKinds DEF WriteLands
    <3>2. CASE op[t].kind = "level"
      BY <3>2, <2>1, <2>3, OpKinds DEF WriteLands, Latch!Regs
    <3> QED
      BY <3>1, <3>2, <2>1, <2>3 DEF IsWrite
  <2>4. CASE WriteCommand(t) \/ ExpCommandFails(t)
    <3>1. Using(t)
      BY <2>4, <1>7 DEF ExpStep, WriteCommand, ExpCommandFails, CommandRuns, CommandFails, Using
    <3> QED
      BY <2>4, <2>3, <1>7, <3>1 DEF WriteCommand, ExpCommandFails
  <2>5. CASE ReadCommand(t) \/ TransferEnds(t)
    BY <2>5 DEF ReadCommand, TransferEnds
  <2>6. CASE LevelRead(t)
    <3>1. Using(t)
      BY <2>6, <1>7 DEF ExpStep, LevelRead, CommandRuns, Using
    <3>2. regs["out"] \in SUBSET Pins
      BY DEF Latch!Regs
    <3>3. Latch!SetBit(regs["out"], op[t].pin, op[t].on) \in SUBSET Pins
      BY <2>1, <2>6, <3>1, <3>2, SetBitType DEF LevelRead
    <3> QED
      BY <2>6, <3>3 DEF LevelRead
  <2> QED
    BY <1>7, <2>2, <2>4, <2>5, <2>6 DEF ExpStep, ExpTransfer, Plumbing
<1> QED
  BY <1>1, <1>2, <1>3, <1>5, <1>6, <1>7 DEF TcaNext, BusUp, OtherStart, OtherStep, tcaVars

-----------------------------------------------------------------------------
(* The calls in progress.                                                  *)

\* A step of another task leaves the call of u where it is.
Same(u) ==
  /\ pc'[u] = pc[u] /\ dev'[u] = dev[u] /\ res'[u] = res[u]
  /\ op'[u] = op[u] /\ status'[u] = status[u] /\ phase'[u] = phase[u] /\ val'[u] = val[u]

\* Task t executes a command on the expander.
Commanding(t) == dev[t] = Exp /\ pc[t] = "command"

\* A write to the registers cannot fall between the two transfers of another
\* task's tca9534_set_level: both would hold the device's mutex.
LEMMA CallFrame ==
  ASSUME SessionHolds, CallInv, NEW u \in Tasks, Same(u),
         regs' = regs \/ \E t \in Tasks \ {u} : Commanding(t)
  PROVE  CallOK(u)'
<1>1. CallOK(u)
  BY DEF CallInv
<1>2. Using(u)' <=> Using(u)
  BY DEF Same, Using
<1>3. ASSUME Using(u), HasRead(u) PROVE regs' = regs
  <2> SUFFICES ASSUME NEW t \in Tasks \ {u}, Commanding(t) PROVE FALSE
    OBVIOUS
  <2>1. pc[u] \notin {"idle", "mutex"}
    BY <1>1, <1>3 DEF CallOK, Using, HasRead
  <2>2. mutex[Exp] = u /\ mutex[Exp] = t
    BY <1>3, <2>1 DEF SessionHolds, Using, Commanding
  <2> QED
    BY <2>2
<1> QED
  BY <1>1, <1>2, <1>3 DEF CallOK, Same, HasRead

\* Every step keeps what is known of the calls in progress.
LEMMA CallStep ==
  TypeOK /\ SessionHolds /\ ExpType /\ CallInv /\ (\A t \in Tasks : ~Abort(t)) /\ TcaNext
    => CallInv'
<1> SUFFICES ASSUME TypeOK, SessionHolds, ExpType, CallInv, \A t \in Tasks : ~Abort(t), TcaNext
             PROVE  CallInv'
  OBVIOUS
<1> DEFINE Others(t) == \A u \in Tasks \ {t} : Same(u)
<1>0. ASSUME NEW t \in Tasks, Others(t), regs' = regs \/ Commanding(t), CallOK(t)' PROVE CallInv'
  <2> SUFFICES ASSUME NEW u \in Tasks, u # t PROVE CallOK(u)'
    BY <1>0 DEF CallInv
  <2> QED
    BY <1>0, CallFrame
<1>a. ASSUME \A u \in Tasks : Same(u), regs' = regs PROVE CallInv'
  BY <1>a, CallFrame DEF CallInv
<1> USE DEF TypeOK, ExpType, Same, Goto, Return, taskVars, portVars, drvVars, libVars
<1>1. CASE BusUp
  BY <1>1, <1>a DEF BusUp, LibInit, CreateMutex, expVars
<1>2. CASE ExpInitReturns \/ ExpDeinit
  BY <1>2, <1>a DEF ExpInitReturns, ExpDeinit, DeleteMutex, vars
<1>3. ASSUME NEW t \in Tasks, ExpInit(t) PROVE CallInv'
  BY <1>3, <1>a DEF ExpInit, CreateMutex
<1>4. ASSUME NEW t \in Tasks, NEW o \in AllOps, Begin(t, o) PROVE CallInv'
  <2>1. Others(t) /\ regs' = regs
    BY <1>4 DEF Begin, Call
  <2>2. CallOK(t)'
    BY <1>4, TcaAssumption DEF Begin, Call, CallOK, Using, HasRead
  <2> QED
    BY <2>1, <2>2, <1>0
<1>5. ASSUME NEW t \in Tasks, NEW o \in UserOps, UserCall(t, o) PROVE CallInv'
  BY <1>5, <1>4 DEF UserCall, AllOps
<1>6. ASSUME NEW t \in Tasks, InitCall(t) PROVE CallInv'
  BY <1>6, <1>4, ScriptSteps DEF InitCall
<1>7. ASSUME NEW t \in Tasks, ExpStep(t) PROVE CallInv'
  <2> USE DEF CallOK, Using, HasRead
  <2>0. CallOK(t) /\ dev[t] = Exp
    BY <1>7 DEF CallInv, ExpStep
  <2>1. CASE NoDeviceMutex(t)
    <3>1. Others(t) /\ regs' = regs
      BY <2>1 DEF NoDeviceMutex, MutexTimeout, End
    <3>2. CallOK(t)'
      BY <2>0, <2>1 DEF NoDeviceMutex, MutexTimeout, End
    <3> QED
      BY <3>1, <3>2, <1>0
  <2>2. CASE FinishCall(t)
    <3>1. Others(t) /\ regs' = regs
      BY <2>2 DEF FinishCall, GiveMutex, End
    <3>2. CallOK(t)'
      BY <2>0, <2>2 DEF FinishCall, GiveMutex, End
    <3> QED
      BY <3>1, <3>2, <1>0
  <2>3. CASE ExpTransfer(t)
    <3>1. Others(t) /\ regs' = regs
      BY <2>3 DEF ExpTransfer, StartTransfer, expVars
    <3>2. CallOK(t)'
      BY <2>0, <2>3 DEF ExpTransfer, StartTransfer, expVars
    <3> QED
      BY <3>1, <3>2, <1>0
  <2>4. CASE Plumbing(t)
    <3>1. Others(t) /\ regs' = regs
      BY <2>4 DEF Plumbing, TakeMutex, TakePort, BlockOnPort, SetupPort, ParamConfig, DriverInstall,
                  SetStretch, SetupFails, expVars
    <3>2. CASE TakeMutex(t) \/ TakePort(t) \/ BlockOnPort(t)
      <4>1. CallOK(t)'
        BY <2>0, <2>4, <3>2 DEF Plumbing, TakeMutex, TakePort, BlockOnPort, expVars
      <4> QED
        BY <3>1, <4>1, <1>0
    <3>3. CASE SetupPort(t) \/ ParamConfig(t) \/ DriverInstall(t) \/ SetStretch(t)
      <4>1. CallOK(t)'
        BY <2>0, <2>4, <3>3 DEF Plumbing, SetupPort, ParamConfig, DriverInstall, SetStretch, expVars
      <4> QED
        BY <3>1, <4>1, <1>0
    <3>4. CASE SetupFails(t)
      <4>1. CallOK(t)'
        BY <2>0, <2>4, <3>4 DEF Plumbing, SetupFails, expVars
      <4> QED
        BY <3>1, <4>1, <1>0
    <3> QED
      BY <2>4, <3>2, <3>3, <3>4 DEF Plumbing
  <2>5. CASE WriteCommand(t)
    <3>1. Others(t) /\ Commanding(t)
      BY <2>0, <2>5 DEF WriteCommand, CommandRuns, WriteLands, Commanding
    <3>2. CallOK(t)'
      BY <2>0, <2>5 DEF WriteCommand, CommandRuns, WriteLands, IsWrite
    <3> QED
      BY <3>1, <3>2, <1>0
  <2>6. CASE ReadCommand(t)
    <3>1. Others(t) /\ regs' = regs
      BY <2>6 DEF ReadCommand, CommandRuns
    <3>2. CallOK(t)'
      BY <2>0, <2>6 DEF ReadCommand, CommandRuns
    <3> QED
      BY <3>1, <3>2, <1>0
  <2>7. CASE LevelRead(t)
    <3>1. Others(t) /\ regs' = regs
      BY <2>7 DEF LevelRead, CommandRuns
    <3>2. CallOK(t)'
      BY <2>0, <2>7 DEF LevelRead, CommandRuns
    <3> QED
      BY <3>1, <3>2, <1>0
  <2>8. CASE ExpCommandFails(t)
    <3>1. Others(t) /\ Commanding(t)
      BY <2>0, <2>8 DEF ExpCommandFails, CommandFails, WriteLands, Commanding, expVars
    <3>2. CallOK(t)'
      BY <2>0, <2>8 DEF ExpCommandFails, CommandFails, WriteLands, IsWrite, expVars
    <3> QED
      BY <3>1, <3>2, <1>0
  <2>9. CASE TransferEnds(t)
    <3>1. Others(t) /\ regs' = regs
      BY <2>9 DEF TransferEnds, GivePort, PortTimeout
    <3>2. CallOK(t)'
      BY <2>0, <2>9 DEF TransferEnds, GivePort, PortTimeout
    <3> QED
      BY <3>1, <3>2, <1>0
  <2> QED
    BY <1>7, <2>1, <2>2, <2>3, <2>4, <2>5, <2>6, <2>7, <2>8, <2>9 DEF ExpStep
<1>8. ASSUME NEW t \in Tasks, OtherStart(t) \/ OtherStep(t) PROVE CallInv'
  <2>0. CallOK(t)
    BY DEF CallInv
  <2> USE DEF CallOK, Using, HasRead
  <2>1. CASE OtherStart(t)
    <3>1. Others(t) /\ regs' = regs
      BY <2>1 DEF OtherStart, Call, StartTransfer, expVars
    <3>2. CallOK(t)'
      BY <2>0, <2>1 DEF OtherStart, Call, StartTransfer, expVars
    <3> QED
      BY <3>1, <3>2, <1>0
  <2>2. CASE OtherStep(t)
    <3>1. /\ Others(t) /\ regs' = regs /\ dev[t] # Exp /\ dev'[t] = dev[t]
          /\ op' = op /\ status' = status /\ phase' = phase
      BY <2>2 DEF OtherStep, SessionStep, TakeMutex, MutexTimeout, GiveMutex, TransferStep, TakePort,
           BlockOnPort, PortTimeout, SetupPort, ParamConfig, DriverInstall, SetStretch, SetupFails,
           CommandRuns, CommandFails, GivePort, expVars
    <3>2. CallOK(t)'
      BY <2>0, <3>1
    <3> QED
      BY <3>1, <3>2, <1>0
  <2> QED
    BY <1>8, <2>1, <2>2
<1> QED
  BY <1>1, <1>2, <1>3, <1>5, <1>6, <1>7, <1>8 DEF TcaNext

-----------------------------------------------------------------------------
(* i2c_exp_init.                                                           *)

\* Nobody uses the expander while it is down; i2c_exp_init has it to itself.
LEMMA DownStep ==
  TypeOK /\ ExpType /\ DownInv /\ TcaNext => DownInv'
<1> SUFFICES ASSUME TypeOK, ExpType, DownInv, TcaNext, boot' = "no", NEW u \in Tasks, Using(u)'
             PROVE  FALSE
  BY DEF DownInv
<1> USE TcaAssumption DEF TypeOK, ExpType, DownInv, Using, Goto, Return, taskVars
<1>1. CASE BusUp
  BY <1>1 DEF BusUp, LibInit, CreateMutex, expVars
<1>2. CASE ExpInitReturns \/ ExpDeinit
  BY <1>2 DEF ExpInitReturns, ExpDeinit, DeleteMutex
<1>3. ASSUME NEW t \in Tasks, ExpInit(t) PROVE FALSE
  BY <1>3 DEF ExpInit
<1>4. ASSUME NEW t \in Tasks, InitCall(t) \/ \E o \in UserOps : UserCall(t, o) PROVE FALSE
  BY <1>4 DEF InitCall, UserCall
<1>5. ASSUME NEW t \in Tasks, ExpStep(t) PROVE FALSE
  <2>1. Using(t)
    BY <1>5 DEF ExpStep, NoDeviceMutex, FinishCall, ExpTransfer, Plumbing, WriteCommand, ReadCommand,
         LevelRead, ExpCommandFails, TransferEnds, MutexTimeout, GiveMutex, StartTransfer, TakeMutex,
         TakePort, BlockOnPort, SetupPort, ParamConfig, DriverInstall, SetStretch, SetupFails,
         CommandRuns, CommandFails, GivePort, PortTimeout
  <2>2. boot' = boot
    BY <1>5 DEF ExpStep, NoDeviceMutex, FinishCall, End, ExpTransfer, Plumbing, WriteCommand, ReadCommand,
         LevelRead, ExpCommandFails, TransferEnds, WriteLands, expVars
  <2> QED
    BY <2>1, <2>2
<1>6. ASSUME NEW t \in Tasks, OtherStart(t) PROVE FALSE
  BY <1>6 DEF OtherStart, Call, StartTransfer, expVars
<1>7. ASSUME NEW t \in Tasks, OtherStep(t), ~Abort(t) PROVE FALSE
  BY <1>7 DEF OtherStep, SessionStep, TakeMutex, MutexTimeout, GiveMutex, TransferStep, TakePort,
       BlockOnPort, PortTimeout, SetupPort, ParamConfig, DriverInstall, SetStretch, SetupFails,
       CommandRuns, CommandFails, GivePort, expVars
<1>8. ASSUME NEW t \in Tasks, Abort(t) PROVE FALSE
  BY <1>8 DEF Abort
<1> QED
  BY <1>1, <1>2, <1>3, <1>4, <1>5, <1>6, <1>7, <1>8 DEF TcaNext

\* Every step keeps what i2c_exp_init has achieved so far.
LEMMA BootStep ==
  TypeOK /\ ExpType /\ CallInv /\ DownInv /\ BootInv /\ (\A t \in Tasks : ~Abort(t)) /\ TcaNext
    => BootInv'
<1> SUFFICES ASSUME TypeOK, ExpType, CallInv, DownInv, BootInv, \A t \in Tasks : ~Abort(t), TcaNext,
                    boot' \in Tasks
             PROVE  BootOK(boot)'
  BY DEF BootInv
<1> DEFINE Undisturbed == /\ \A u \in Tasks : pc'[u] = pc[u] /\ dev'[u] = dev[u]
                          /\ UNCHANGED expVars
<1>0. ASSUME Undisturbed PROVE BootOK(boot)'
  BY <1>0 DEF BootInv, BootOK, Using, expVars
<1> USE TcaAssumption, WholeScript DEF TypeOK, ExpType, Using, Goto, Return, taskVars
<1>1. CASE BusUp
  <2>1. Undisturbed
    BY <1>1 DEF BusUp, LibInit, CreateMutex, expVars
  <2> QED
    BY <2>1, <1>0
<1>2. CASE ExpInitReturns \/ ExpDeinit
  BY <1>2 DEF ExpInitReturns, ExpDeinit
<1>3. ASSUME NEW t \in Tasks, ExpInit(t) PROVE BootOK(boot)'
  BY <1>3 DEF ExpInit, CreateMutex, DownInv, BootOK
<1>4. ASSUME NEW t \in Tasks, NEW o \in UserOps, UserCall(t, o) PROVE BootOK(boot)'
  BY <1>4 DEF UserCall
<1>5. ASSUME NEW t \in Tasks, InitCall(t) PROVE BootOK(boot)'
  <2>1. BootOK(t) /\ boot' = t /\ faulted' = faulted /\ regs' = regs
    BY <1>5 DEF BootInv, InitCall, Begin
  <2>2. /\ pc[t] = "idle" /\ pc'[t] # "idle" /\ dev'[t] = Exp /\ op'[t] = Head(script)
        /\ status'[t] = "pending" /\ script' = Tail(script) /\ script # << >>
        /\ \A u \in Tasks \ {t} : pc'[u] = pc[u] /\ dev'[u] = dev[u]
    BY <1>5 DEF InitCall, Begin, Call
  <2>3. /\ \A u \in Tasks : Using(u)' => u = t
        /\ pc'[t] # "idle" => dev'[t] = Exp
    BY <2>1, <2>2 DEF BootOK
  <2>4. script' = <<InitScript[3]>> => op'[t] = InitScript[2]
    BY <2>2, ScriptSteps
  <2>5. script' = << >> => op'[t] = InitScript[3] /\ (faulted \/ regs["conf"] = {})
    BY <2>1, <2>2, ScriptSteps DEF BootOK
  <2> QED
    BY <2>1, <2>2, <2>3, <2>4, <2>5 DEF BootOK
<1>6. ASSUME NEW t \in Tasks, ExpStep(t) PROVE BootOK(boot)'
  <2>0. CallOK(t) /\ dev[t] = Exp
    BY <1>6 DEF CallInv, ExpStep
  <2>1. Using(t) /\ boot' = boot /\ script' = script
    BY <1>6 DEF ExpStep, NoDeviceMutex, FinishCall, End, ExpTransfer, Plumbing, WriteCommand, ReadCommand,
         LevelRead, ExpCommandFails, TransferEnds, WriteLands, MutexTimeout, GiveMutex, StartTransfer,
         TakeMutex, TakePort, BlockOnPort, SetupPort, ParamConfig, DriverInstall, SetStretch, SetupFails,
         CommandRuns, CommandFails, GivePort, PortTimeout, expVars
  <2>2. boot = t /\ BootOK(t)
    BY <2>1 DEF BootInv, BootOK
  <2>3. /\ \A u \in Tasks : Using(u)' => u = t
        /\ pc'[t] # "idle" => dev'[t] = Exp
    <3>1. dev' = dev /\ \A u \in Tasks \ {t} : pc'[u] = pc[u]
      BY <1>6 DEF ExpStep, NoDeviceMutex, FinishCall, ExpTransfer, Plumbing, WriteCommand, ReadCommand,
           LevelRead, ExpCommandFails, TransferEnds, MutexTimeout, GiveMutex, StartTransfer,
           TakeMutex, TakePort, BlockOnPort, SetupPort, ParamConfig, DriverInstall, SetStretch, SetupFails,
           CommandRuns, CommandFails, GivePort, PortTimeout
    <3> QED
      BY <2>0, <2>2, <3>1 DEF BootOK
  <2> DEFINE Done ==
        ~faulted' =>
          /\ script = <<InitScript[3]>> =>
               IF pc'[t] = "idle" THEN regs'["conf"] = {}
               ELSE op'[t] = InitScript[2] /\ (status'[t] = "latched" => regs'["conf"] = {})
          /\ script = << >> =>
               /\ regs'["conf"] = {}
               /\ IF pc'[t] = "idle" THEN regs'["out"] = {}
                  ELSE op'[t] = InitScript[3] /\ (status'[t] = "latched" => regs'["out"] = {})
  <2> SUFFICES Done
    BY <2>1, <2>2, <2>3 DEF BootOK
  <2>4. CASE NoDeviceMutex(t) \/ FinishCall(t)
    BY <2>0, <2>1, <2>2, <2>4 DEF NoDeviceMutex, FinishCall, MutexTimeout, GiveMutex, End, CallOK, BootOK
  <2>5. CASE /\ pc'[t] # "idle" /\ op' = op /\ regs' = regs /\ faulted' = faulted
             /\ status'[t] = status[t] \/ op[t].kind = "read"
    BY <2>1, <2>2, <2>5 DEF BootOK, InitScript
  <2>6. CASE ExpTransfer(t) \/ Plumbing(t) \/ ReadCommand(t) \/ LevelRead(t) \/ TransferEnds(t)
    <3>1. /\ pc'[t] # "idle" /\ op' = op /\ regs' = regs /\ faulted' = faulted
          /\ status'[t] = status[t] \/ op[t].kind = "read"
      BY <2>6 DEF ExpTransfer, Plumbing, ReadCommand, LevelRead, TransferEnds, StartTransfer,
           TakeMutex, TakePort, BlockOnPort, SetupPort, ParamConfig, DriverInstall, SetStretch, SetupFails,
           CommandRuns, GivePort, PortTimeout, expVars
    <3> QED
      BY <2>5, <3>1
  <2>7. CASE WriteCommand(t) \/ ExpCommandFails(t)
    <3>1. pc'[t] # "idle" /\ op' = op /\ faulted' = faulted
      BY <2>7 DEF WriteCommand, ExpCommandFails, CommandRuns, CommandFails, WriteLands, expVars
    <3>2. CASE UNCHANGED expVars
      BY <2>5, <3>1, <3>2 DEF expVars
    <3>3. CASE WriteLands(t)
      BY <2>1, <2>2, <3>1, <3>3 DEF BootOK, WriteLands, InitScript, Latch!Regs
    <3> QED
      BY <2>7, <3>2, <3>3 DEF WriteCommand, ExpCommandFails
  <2> QED
    BY <1>6, <2>4, <2>6, <2>7 DEF ExpStep
<1>7. ASSUME NEW t \in Tasks, OtherStart(t) \/ OtherStep(t) PROVE BootOK(boot)'
  <2>1. UNCHANGED expVars
    BY <1>7 DEF OtherStart, OtherStep
  <2>2. /\ dev'[t] # Exp /\ (dev[t] # Exp \/ pc[t] = "idle") /\ (pc[t] # "idle" \/ boot # t)
        /\ \A u \in Tasks \ {t} : pc'[u] = pc[u] /\ dev'[u] = dev[u]
    BY <1>7 DEF OtherStart, OtherStep, Call, StartTransfer, SessionStep, TakeMutex, MutexTimeout, GiveMutex,
         TransferStep, TakePort, BlockOnPort, PortTimeout, SetupPort, ParamConfig, DriverInstall,
         SetStretch, SetupFails, CommandRuns, CommandFails, GivePort
  <2> QED
    BY <2>1, <2>2 DEF BootInv, BootOK, expVars
<1> QED
  BY <1>1, <1>2, <1>3, <1>4, <1>5, <1>6, <1>7 DEF TcaNext

-----------------------------------------------------------------------------
(* The invariant and what follows from it.                                 *)

\* Nothing is in use after a reset.
LEMMA TcaStarts == TcaInit => TcaInv
<1> SUFFICES ASSUME TcaInit PROVE TcaInv
  OBVIOUS
<1>1. Init
  BY DEF TcaInit
<1>2. BusInv
  BY <1>1, LockInit, CacheInit DEF BusInv, IInv, LibUp, Quiet, MutexExists, Init
<1>3. ExpType
  BY DEF TcaInit, ExpType, Scripts
<1>4. CallInv /\ DownInv /\ BootInv
  BY TcaAssumption DEF TcaInit, Init, CallInv, CallOK, Using, DownInv, BootInv
<1> QED
  BY <1>2, <1>3, <1>4 DEF TcaInv

\* Every step keeps the invariant.
LEMMA TcaInvStep == TcaInv /\ [TcaNext]_tcaVars => TcaInv'
<1> SUFFICES ASSUME TcaInv, [TcaNext]_tcaVars PROVE TcaInv'
  OBVIOUS
<1>1. BusInv'
  BY TcaIsBus, BusStep DEF TcaInv
<1>2. TypeOK /\ SessionHolds
  BY DEF TcaInv, BusInv, IInv, LockInv
<1>3. ExpType'
  BY <1>2, ExpTypeStep DEF TcaInv
<1>4. CASE TcaNext
  BY <1>1, <1>2, <1>3, <1>4, NoAbort, CallStep, DownStep, BootStep DEF TcaInv
<1>5. CASE UNCHANGED tcaVars
  BY <1>1, <1>3, <1>5 DEF TcaInv, tcaVars, expVars, vars, taskVars, CallInv, CallOK, HasRead, Using,
     DownInv, BootInv, BootOK
<1> QED
  BY <1>4, <1>5

\* The inductive invariant holds in every reachable state.
THEOREM TcaInvariantHolds == TcaSpec => []TcaInv
  BY TcaStarts, TcaInvStep, PTL DEF TcaSpec

\* The variables of the bus and of the expander keep their types.
THEOREM TcaTypeCorrect == TcaSpec => []TcaTypeOK
<1>1. TcaInv => TcaTypeOK
  BY DEF TcaInv, BusInv, IInv, LockInv, TcaTypeOK
<1> QED
  BY <1>1, TcaInvariantHolds, PTL

\* The value tca9534_set_level writes is up to date: between its read and its
\* write the device's mutex keeps every other call out.
THEOREM NoLostUpdateHolds == TcaSpec => []NoLostUpdate
<1>1. TcaInv => NoLostUpdate
  BY DEF TcaInv, CallInv, CallOK, HasRead, Using, NoLostUpdate
<1> QED
  BY <1>1, TcaInvariantHolds, PTL

\* When i2c_exp_init returns and none of its calls failed, what they wrote is
\* in the registers and nobody has written since.
THEOREM InitDrivesLowHolds == TcaSpec => InitDrivesLow
<1>1. TcaInv /\ [TcaNext]_tcaVars => [(boot \in Tasks /\ boot' = "yes" /\ ~faulted) => AllOff]_tcaVars
  <2> SUFFICES ASSUME TcaInv, TcaNext, boot \in Tasks, boot' = "yes", ~faulted PROVE AllOff
    OBVIOUS
  <2>1. boot # "yes" /\ boot # "no"
    BY TcaAssumption
  <2>2. CASE ExpInitReturns
    BY <2>2 DEF ExpInitReturns, TcaInv, BootInv, BootOK, AllOff
  <2>3. ASSUME NEW t \in Tasks, ExpStep(t) PROVE boot' = boot
    BY <2>3 DEF ExpStep, NoDeviceMutex, FinishCall, End, ExpTransfer, Plumbing, WriteCommand, ReadCommand,
         LevelRead, ExpCommandFails, TransferEnds, WriteLands, expVars
  <2> QED
    BY <2>1, <2>2, <2>3 DEF TcaNext, BusUp, ExpDeinit, ExpInit, InitCall, UserCall, OtherStart,
       OtherStep, expVars
<1> QED
  BY <1>1, TcaInvariantHolds, PTL DEF TcaSpec, InitDrivesLow

\* A step of the bus and the expander is a step of the latch or leaves it alone.
LEMMA LatchStep == TcaInv /\ [TcaNext]_tcaVars => [Latch!Next]_(Latch!vars)
<1> SUFFICES ASSUME TcaInv, TcaNext PROVE Latch!Next \/ UNCHANGED <<regs, op, status>>
  BY DEF tcaVars, expVars, Latch!vars
<1>0. ExpType /\ CallInv
  BY DEF TcaInv
<1>1. ASSUME NEW t \in Tasks, NEW o \in AllOps, Begin(t, o) PROVE Latch!Invoke(t, o)
  <2>1. ~Using(t)
    BY <1>1 DEF Begin, Call, Using
  <2>2. status[t] \in {"ok", "error"}
    BY <1>0, <2>1 DEF CallInv, CallOK
  <2> QED
    BY <1>1, <2>2 DEF Begin, Latch!Invoke, Latch!Returned
<1>2. ASSUME NEW t \in Tasks, NEW o \in UserOps, UserCall(t, o) PROVE Latch!Next
  BY <1>1, <1>2 DEF UserCall, AllOps, Latch!Next
<1>3. ASSUME NEW t \in Tasks, InitCall(t) PROVE Latch!Next
  BY <1>0, <1>1, <1>3, ScriptSteps DEF InitCall, ExpType, Latch!Next
<1>4. ASSUME NEW t \in Tasks, ExpStep(t) PROVE Latch!Next \/ UNCHANGED <<regs, op, status>>
  <2>0. CallOK(t) /\ dev[t] = Exp
    BY <1>0, <1>4 DEF CallInv, ExpStep
  <2>1. CASE NoDeviceMutex(t) \/ FinishCall(t)
    <3>1. Latch!Return(t)
      BY <1>0, <2>0, <2>1 DEF NoDeviceMutex, FinishCall, MutexTimeout, GiveMutex, End, CallOK, Using, ExpType,
         Latch!Return, Latch!Returned
    <3> QED
      BY <3>1 DEF Latch!Next
  <2>2. ASSUME pc[t] = "command", IsWrite(t), WriteLands(t) PROVE Latch!Latch(t)
    <3>1. op[t] \in AllOps /\ status[t] = "pending"
      BY <2>0, <2>2 DEF CallOK, Using
    <3>2. CASE op[t].kind = "write"
      BY <3>1, <3>2, <2>2 DEF WriteLands, Latch!Latch, Latch!Effect
    <3>3. CASE phase[t] = "second"
      <4>1. op[t].kind = "level" /\ val[t] = Latch!SetBit(regs["out"], op[t].pin, op[t].on)
        BY <2>0, <2>2, <3>3 DEF CallOK, Using, HasRead
      <4> QED
        BY <3>1, <4>1, <2>2 DEF WriteLands, Latch!Latch, Latch!Effect
    <3> QED
      BY <2>2, <3>2, <3>3 DEF IsWrite
  <2>3. CASE WriteCommand(t)
    BY <2>2, <2>3 DEF WriteCommand, CommandRuns, Latch!Next
  <2>4. CASE ExpCommandFails(t)
    BY <2>2, <2>4 DEF ExpCommandFails, CommandFails, Latch!Next, expVars
  <2>5. CASE ReadCommand(t)
    <3>1. Latch!Latch(t)
      BY <2>0, <2>5 DEF ReadCommand, CommandRuns, CallOK, Using, Latch!Latch, Latch!Effect
    <3> QED
      BY <3>1 DEF Latch!Next
  <2>6. CASE ExpTransfer(t) \/ Plumbing(t) \/ LevelRead(t) \/ TransferEnds(t)
    BY <2>6 DEF ExpTransfer, Plumbing, LevelRead, TransferEnds, expVars
  <2> QED
    BY <1>4, <2>1, <2>3, <2>4, <2>5, <2>6 DEF ExpStep
<1> QED
  BY <1>2, <1>3, <1>4 DEF TcaNext, BusUp, ExpInitReturns, ExpDeinit, ExpInit, OtherStart, OtherStep, expVars

\* Each call of tca9534.c is one atomic step on the registers: the detailed
\* specification implements the latch.
THEOREM CallsAreAtomicHolds == TcaSpec => CallsAreAtomic
<1>1. TcaInit => Latch!Init
  BY DEF TcaInit, Latch!Init, Latch!Regs
<1> QED
  BY <1>1, LatchStep, TcaInvariantHolds, PTL DEF TcaSpec, CallsAreAtomic, Latch!Spec
=============================================================================
