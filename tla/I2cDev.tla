------------------------------- MODULE I2cDev -------------------------------
(***************************************************************************)
(* The shared I2C layer, src/components/i2cdev (ESP32 build).              *)
(*                                                                         *)
(* Tasks use devices through a session: take the device's mutex, run any   *)
(* number of transfers (i2c_dev_read / i2c_dev_write, alike but for the    *)
(* bytes they move), give the mutex back.  A transfer takes the mutex of   *)
(* the device's port, sets the port up for the device (i2c_setup_port),    *)
(* runs the command and gives the mutex back.  The application's main task *)
(* calls i2cdev_init and i2cdev_done.                                      *)
(*                                                                         *)
(* The ESP-IDF I2C driver and FreeRTOS are external: a driver call may     *)
(* fail, a driver runs commands only while it is installed and refuses to  *)
(* be installed twice, a configASSERT on a NULL semaphore restarts the     *)
(* chip.  Data bytes are left to the modules that build on this one.       *)
(***************************************************************************)
EXTENDS Naturals

CONSTANTS
  Tasks,      \* FreeRTOS tasks that use I2C devices
  Devices,    \* device descriptors (i2c_dev_t)
  NPorts,     \* I2C_NUM_MAX
  Cfgs,       \* pin/clock configurations, as far as cfg_equal tells them apart
  Ticks,      \* values of the driver's stretch timeout
  DevPort,    \* dev->port
  DevCfg,     \* dev->cfg
  DevTicks,   \* dev->timeout_ticks, 0 already replaced by I2CDEV_MAX_STRETCH_TIME
  ZeroCfg,    \* the all-zero configuration memset leaves in the cache
  ResetTicks, \* the stretch timeout i2c_param_config leaves in the hardware
  Free,       \* a mutex nobody holds
  NoLock,     \* a NULL mutex handle
  Lib         \* the task that runs i2cdev_done, as a mutex holder

Ports == 0 .. NPorts - 1

\* dev->cfg always has a clock speed, so it differs from the zeroed cache;
\* every descriptor of the repository names an existing port.
ASSUME I2cAssumption ==
  /\ NPorts \in Nat \ {0}
  /\ DevPort \in [Devices -> Ports]
  /\ DevCfg \in [Devices -> Cfgs]
  /\ DevTicks \in [Devices -> Ticks]
  /\ ZeroCfg \notin Cfgs
  /\ ResetTicks \in Ticks
  /\ {Free, NoLock, Lib} \cap Tasks = {}
  /\ Free # NoLock /\ Free # Lib /\ NoLock # Lib

VARIABLES
  lock,       \* states[port].lock: NoLock, Free or its holder
  cached,     \* states[port].config
  installed,  \* states[port].installed
  live,       \* external: is the IDF driver of the port installed
  drvCfg,     \* external: configuration the port's hardware runs with
  drvTicks,   \* external: stretch timeout of the port's hardware
  failed,     \* history: the last reinstallation of the port's driver failed
  mutex,      \* dev->mutex: NoLock, Free or its holder
  pc,         \* where each task is
  dev,        \* the device of the task's session
  res,        \* result of the task's last mutex or transfer call
  lib,        \* where the application's main task is in init / done
  donePort    \* i2cdev_done's loop counter

portVars == <<lock, cached, installed>>
drvVars  == <<live, drvCfg, drvTicks, failed>>
taskVars == <<pc, dev, res>>
libVars  == <<lib, donePort>>
vars     == <<portVars, drvVars, mutex, taskVars, libVars>>

Results == {"ok", "fail", "timeout"}
PortPc  == {"setup", "param", "install", "stretch", "command", "give"}
TaskPc  == {"idle", "mutex", "session", "take", "blocked"} \cup PortPc
LibPc   == {"off", "failed", "up", "check", "take", "held", "delete"}

TypeOK ==
  /\ lock \in [Ports -> Tasks \cup {Free, NoLock, Lib}]
  /\ cached \in [Ports -> Cfgs \cup {ZeroCfg}]
  /\ installed \in [Ports -> BOOLEAN]
  /\ live \in [Ports -> BOOLEAN]
  /\ drvCfg \in [Ports -> Cfgs \cup {ZeroCfg}]
  /\ drvTicks \in [Ports -> Ticks]
  /\ failed \in [Ports -> BOOLEAN]
  /\ mutex \in [Devices -> Tasks \cup {Free, NoLock}]
  /\ pc \in [Tasks -> TaskPc]
  /\ dev \in [Tasks -> Devices]
  /\ res \in [Tasks -> Results]
  /\ lib \in LibPc
  /\ donePort \in IF lib \in {"take", "held", "delete"} THEN Ports ELSE 0 .. NPorts

\* Static storage and hardware after a reset, before i2cdev_init.
Init ==
  /\ lock = [p \in Ports |-> NoLock]
  /\ cached = [p \in Ports |-> ZeroCfg]
  /\ installed = [p \in Ports |-> FALSE]
  /\ live = [p \in Ports |-> FALSE]
  /\ drvCfg = [p \in Ports |-> ZeroCfg]
  /\ drvTicks = [p \in Ports |-> ResetTicks]
  /\ failed = [p \in Ports |-> FALSE]
  /\ mutex = [d \in Devices |-> NoLock]
  /\ pc = [t \in Tasks |-> "idle"]
  /\ dev \in [Tasks -> Devices]
  /\ res = [t \in Tasks |-> "ok"]
  /\ lib = "off"
  /\ donePort = 0

-----------------------------------------------------------------------------
(* Device mutexes and sessions.                                            *)

\* The port of the task's current session.
Port(t) == DevPort[dev[t]]

\* The task is between taking and giving its port's mutex.
InPort(t) == pc[t] \in PortPc

Quiet == \A t \in Tasks : pc[t] = "idle"

Goto(t, step) == pc' = [pc EXCEPT ![t] = step]
Return(t, r)  == res' = [res EXCEPT ![t] = r]

CreateMutex(d) ==
  /\ mutex[d] = NoLock
  /\ mutex' = [mutex EXCEPT ![d] = Free]
  /\ UNCHANGED <<portVars, drvVars, taskVars, libVars>>

\* The owner of a descriptor frees it when no task works with it.
DeleteMutex(d) ==
  /\ mutex[d] = Free
  /\ \A t \in Tasks : dev[t] = d => pc[t] = "idle"
  /\ mutex' = [mutex EXCEPT ![d] = NoLock]
  /\ UNCHANGED <<portVars, drvVars, taskVars, libVars>>

\* A driver function is called: I2C_DEV_TAKE_MUTEX(dev).
Call(t, d) ==
  /\ pc[t] = "idle"
  /\ lib \notin {"off", "failed"}
  /\ mutex[d] # NoLock
  /\ Goto(t, "mutex")
  /\ dev' = [dev EXCEPT ![t] = d]
  /\ UNCHANGED <<portVars, drvVars, mutex, res, libVars>>

\* Variant: the result of xSemaphoreTake is ignored.
TakeMutex_Ignored(t) ==
  /\ pc[t] = "mutex"
  /\ mutex' = [mutex EXCEPT ![dev[t]] = t]
  /\ Goto(t, "session")
  /\ Return(t, "ok")
  /\ UNCHANGED <<portVars, drvVars, dev, libVars>>

TakeMutex(t) ==
  /\ pc[t] = "mutex"
  /\ mutex[dev[t]] = Free
  /\ mutex' = [mutex EXCEPT ![dev[t]] = t]
  /\ Goto(t, "session")
  /\ Return(t, "ok")
  /\ UNCHANGED <<portVars, drvVars, dev, libVars>>

MutexTimeout(t) ==
  /\ pc[t] = "mutex"
  /\ mutex[dev[t]] # Free
  /\ Goto(t, "idle")
  /\ Return(t, "timeout")
  /\ UNCHANGED <<portVars, drvVars, mutex, dev, libVars>>

GiveMutex(t) ==
  /\ pc[t] = "session"
  /\ mutex' = [mutex EXCEPT ![dev[t]] = Free]
  /\ Goto(t, "idle")
  /\ UNCHANGED <<portVars, drvVars, dev, res, libVars>>

-----------------------------------------------------------------------------
(* One transfer: i2c_dev_read or i2c_dev_write.                            *)

StartTransfer(t) ==
  /\ pc[t] = "session"
  /\ Goto(t, "take")
  /\ UNCHANGED <<portVars, drvVars, mutex, dev, res, libVars>>

TakePort(t) ==
  /\ pc[t] \in {"take", "blocked"}
  /\ lock[Port(t)] = Free
  /\ lock' = [lock EXCEPT ![Port(t)] = t]
  /\ Goto(t, "setup")
  /\ UNCHANGED <<cached, installed, drvVars, mutex, dev, res, libVars>>

BlockOnPort(t) ==
  /\ pc[t] = "take"
  /\ lock[Port(t)] \notin {Free, NoLock}
  /\ Goto(t, "blocked")
  /\ UNCHANGED <<portVars, drvVars, mutex, dev, res, libVars>>

\* Variant: the timeout is logged but not returned.
PortTimeout_NoReturn(t) ==
  /\ pc[t] = "blocked"
  /\ lock[Port(t)] # Free
  /\ Goto(t, "setup")
  /\ UNCHANGED <<portVars, drvVars, mutex, dev, res, libVars>>

\* Variant: portMAX_DELAY instead of a timeout.
PortTimeout_Never(t) ==
  /\ pc[t] = "blocked"
  /\ lock[Port(t)] = NoLock
  /\ Goto(t, "session")
  /\ Return(t, "timeout")
  /\ UNCHANGED <<portVars, drvVars, mutex, dev, libVars>>

\* CONFIG_I2CDEV_TIMEOUT passes.  A task blocked on a mutex that i2cdev_done
\* deletes meanwhile may come back this way too.
PortTimeout(t) ==
  /\ pc[t] = "blocked"
  /\ lock[Port(t)] # Free
  /\ Goto(t, "session")
  /\ Return(t, "timeout")
  /\ UNCHANGED <<portVars, drvVars, mutex, dev, libVars>>

\* Variant: a cache hit returns before the timeout block.
SetupPort_EarlyReturn(t) ==
  /\ pc[t] = "setup"
  /\ IF cached[Port(t)] = DevCfg[dev[t]]
       THEN Goto(t, "command") /\ UNCHANGED live
       ELSE /\ Goto(t, "param")
            /\ live' = [live EXCEPT ![Port(t)] = @ /\ ~installed[Port(t)]]
  /\ UNCHANGED <<portVars, drvCfg, drvTicks, failed, mutex, dev, res, libVars>>

\* i2c_setup_port up to the deletion of the old driver.
SetupPort(t) ==
  /\ pc[t] = "setup"
  /\ IF cached[Port(t)] = DevCfg[dev[t]]
       THEN Goto(t, "stretch") /\ UNCHANGED live
       ELSE /\ Goto(t, "param")
            /\ live' = [live EXCEPT ![Port(t)] = @ /\ ~installed[Port(t)]]
  /\ UNCHANGED <<portVars, drvCfg, drvTicks, failed, mutex, dev, res, libVars>>

ParamConfig(t) ==
  /\ pc[t] = "param"
  /\ drvCfg' = [drvCfg EXCEPT ![Port(t)] = DevCfg[dev[t]]]
  /\ drvTicks' = [drvTicks EXCEPT ![Port(t)] = ResetTicks]
  /\ Goto(t, "install")
  /\ UNCHANGED <<portVars, live, failed, mutex, dev, res, libVars>>

\* Variant: the new configuration is not copied to the cache.
DriverInstall_NoCopy(t) ==
  /\ pc[t] = "install"
  /\ ~live[Port(t)]
  /\ live' = [live EXCEPT ![Port(t)] = TRUE]
  /\ installed' = [installed EXCEPT ![Port(t)] = TRUE]
  /\ cached' = [cached EXCEPT ![Port(t)] = IF @ = ZeroCfg THEN DevCfg[dev[t]] ELSE @]
  /\ failed' = [failed EXCEPT ![Port(t)] = FALSE]
  /\ Goto(t, "stretch")
  /\ UNCHANGED <<lock, drvCfg, drvTicks, mutex, dev, res, libVars>>

\* The driver refuses a second installation.
DriverInstall(t) ==
  /\ pc[t] = "install"
  /\ ~live[Port(t)]
  /\ live' = [live EXCEPT ![Port(t)] = TRUE]
  /\ installed' = [installed EXCEPT ![Port(t)] = TRUE]
  /\ cached' = [cached EXCEPT ![Port(t)] = DevCfg[dev[t]]]
  /\ failed' = [failed EXCEPT ![Port(t)] = FALSE]
  /\ Goto(t, "stretch")
  /\ UNCHANGED <<lock, drvCfg, drvTicks, mutex, dev, res, libVars>>

SetStretch(t) ==
  /\ pc[t] = "stretch"
  /\ drvTicks' = [drvTicks EXCEPT ![Port(t)] = DevTicks[dev[t]]]
  /\ Goto(t, "command")
  /\ UNCHANGED <<portVars, live, drvCfg, failed, mutex, dev, res, libVars>>

\* Variant: a setup error is returned without giving the port back.
SetupFails_KeepLock(t) ==
  /\ pc[t] \in {"param", "install", "stretch"}
  /\ Goto(t, "session")
  /\ Return(t, "fail")
  /\ UNCHANGED <<portVars, drvVars, mutex, dev, libVars>>

\* i2c_param_config, i2c_driver_install, i2c_get_timeout or i2c_set_timeout
\* reports an error: i2c_setup_port returns it at once.  The first two leave
\* the cache and the installed flag as they were, without the old driver.
SetupFails(t) ==
  /\ pc[t] \in {"param", "install", "stretch"}
  /\ failed' = [failed EXCEPT ![Port(t)] = @ \/ pc[t] # "stretch"]
  /\ Goto(t, "give")
  /\ Return(t, "fail")
  /\ UNCHANGED <<portVars, live, drvCfg, drvTicks, mutex, dev, libVars>>

\* i2c_master_cmd_begin needs an installed driver, and may fail even then.
CommandRuns(t) ==
  /\ pc[t] = "command"
  /\ live[Port(t)]
  /\ Goto(t, "give")
  /\ Return(t, "ok")
  /\ UNCHANGED <<portVars, drvVars, mutex, dev, libVars>>

CommandFails(t) ==
  /\ pc[t] = "command"
  /\ Goto(t, "give")
  /\ Return(t, "fail")
  /\ UNCHANGED <<portVars, drvVars, mutex, dev, libVars>>

GivePort(t) ==
  /\ pc[t] = "give"
  /\ lock[Port(t)] = t
  /\ lock' = [lock EXCEPT ![Port(t)] = Free]
  /\ Goto(t, "session")
  /\ UNCHANGED <<cached, installed, drvVars, mutex, dev, res, libVars>>

\* FreeRTOS asserts on a NULL handle (or trips over a freed mutex) and the
\* chip restarts: every variable is back at its reset value.
Abort(t) ==
  /\ pc[t] \in {"take", "blocked", "give"}
  /\ lock[Port(t)] = NoLock
  /\ lock' = [p \in Ports |-> NoLock]
  /\ cached' = [p \in Ports |-> ZeroCfg]
  /\ installed' = [p \in Ports |-> FALSE]
  /\ live' = [p \in Ports |-> FALSE]
  /\ drvCfg' = [p \in Ports |-> ZeroCfg]
  /\ drvTicks' = [p \in Ports |-> ResetTicks]
  /\ failed' = [p \in Ports |-> FALSE]
  /\ mutex' = [d \in Devices |-> NoLock]
  /\ pc' = [u \in Tasks |-> "idle"]
  /\ res' = [u \in Tasks |-> "ok"]
  /\ lib' = "off"
  /\ donePort' = 0
  /\ UNCHANGED dev

-----------------------------------------------------------------------------
(* i2cdev_init and i2cdev_done, run by the application's main task.        *)

\* i2cdev_init: memset, then one mutex per port until a creation fails (at
\* port n; n = NPorts when none does).  The header asks that it come before
\* any other function, so no session is open.
LibInit(n) ==
  /\ lib \in {"off", "failed"}
  /\ Quiet
  /\ lock' = [p \in Ports |-> IF p < n THEN Free ELSE NoLock]
  /\ cached' = [p \in Ports |-> ZeroCfg]
  /\ installed' = [p \in Ports |-> FALSE]
  /\ failed' = [p \in Ports |-> FALSE]
  /\ lib' = IF n = NPorts THEN "up" ELSE "failed"
  /\ UNCHANGED <<live, drvCfg, drvTicks, mutex, taskVars, donePort>>

LibDone ==
  /\ lib \in {"up", "failed"}
  /\ lib' = "check"
  /\ donePort' = 0
  /\ UNCHANGED <<portVars, drvVars, mutex, taskVars>>

\* The loop head: both fields are read without the mutex.
DoneCheck ==
  /\ lib = "check"
  /\ donePort < NPorts
  /\ \/ /\ lock[donePort] = NoLock
        /\ donePort' = donePort + 1
        /\ UNCHANGED lib
     \/ /\ lock[donePort] # NoLock
        /\ lib' = IF installed[donePort] THEN "take" ELSE "delete"
        /\ UNCHANGED donePort
  /\ UNCHANGED <<portVars, drvVars, mutex, taskVars>>

DoneReturns ==
  /\ lib = "check"
  /\ donePort = NPorts
  /\ lib' = "off"
  /\ UNCHANGED <<portVars, drvVars, mutex, taskVars, donePort>>

DoneTake ==
  /\ lib = "take"
  /\ lock[donePort] = Free
  /\ lock' = [lock EXCEPT ![donePort] = Lib]
  /\ lib' = "held"
  /\ UNCHANGED <<cached, installed, drvVars, mutex, taskVars, donePort>>

\* SEMAPHORE_TAKE returns ESP_ERR_TIMEOUT out of i2cdev_done.
DoneTimeout ==
  /\ lib = "take"
  /\ lock[donePort] # Free
  /\ lib' = "up"
  /\ UNCHANGED <<portVars, drvVars, mutex, taskVars, donePort>>

DoneUninstall ==
  /\ lib = "held"
  /\ live' = [live EXCEPT ![donePort] = FALSE]
  /\ installed' = [installed EXCEPT ![donePort] = FALSE]
  /\ lock' = [lock EXCEPT ![donePort] = Free]
  /\ lib' = "delete"
  /\ UNCHANGED <<cached, drvCfg, drvTicks, failed, mutex, taskVars, donePort>>

\* Variant: the loop's condition is not looked at again.
DoneDelete_NoHead ==
  /\ lib = "delete"
  /\ lock' = [lock EXCEPT ![donePort] = NoLock]
  /\ donePort' = donePort + 1
  /\ UNCHANGED <<cached, installed, drvVars, mutex, taskVars, lib>>

\* vSemaphoreDelete, whoever holds the mutex or waits for it.
DoneDelete ==
  /\ lib = "delete"
  /\ lock' = [lock EXCEPT ![donePort] = NoLock]
  /\ donePort' = donePort + 1
  /\ lib' = "check"
  /\ UNCHANGED <<cached, installed, drvVars, mutex, taskVars>>

-----------------------------------------------------------------------------
\* The steps of a call that has begun: the scheduler runs them to the end.
TransferStep(t) ==
  \/ TakePort(t) \/ BlockOnPort(t) \/ PortTimeout(t)
  \/ SetupPort(t) \/ ParamConfig(t) \/ DriverInstall(t) \/ SetStretch(t)
  \/ SetupFails(t) \/ CommandRuns(t) \/ CommandFails(t)
  \/ GivePort(t) \/ Abort(t)

SessionStep(t) == TakeMutex(t) \/ MutexTimeout(t) \/ GiveMutex(t)

LibStep ==
  \/ DoneCheck \/ DoneReturns \/ DoneTake \/ DoneTimeout
  \/ DoneUninstall \/ DoneDelete

Next ==
  \/ \E d \in Devices : CreateMutex(d) \/ DeleteMutex(d)
  \/ \E t \in Tasks :
       \/ \E d \in Devices : Call(t, d)
       \/ StartTransfer(t)
       \/ SessionStep(t)
       \/ TransferStep(t)
  \/ \E n \in 0 .. NPorts : LibInit(n)
  \/ LibDone
  \/ LibStep

Spec == Init /\ [][Next]_vars

Fairness == \A t \in Tasks : WF_vars(TransferStep(t)) /\ WF_vars(SessionStep(t))

FairSpec == Spec /\ Fairness

-----------------------------------------------------------------------------
(* Properties.                                                             *)

\* The port mutex does its work even while i2cdev_done deletes it under its
\* holder: never two tasks between SEMAPHORE_TAKE and SEMAPHORE_GIVE of a port.
PortExclusive ==
  \A t, u \in Tasks : InPort(t) /\ InPort(u) /\ Port(t) = Port(u) => t = u

Reinstalling(p) ==
  \E t \in Tasks : pc[t] \in {"param", "install"} /\ Port(t) = p

\* What a hit in the configuration cache is worth, after any failures: the port
\* has a driver, which runs with the cached configuration, unless i2cdev_done
\* has deleted it or the last reinstallation failed.  In that last case the
\* cache is wrong: i2c_setup_port has deleted the driver, keeps the old
\* configuration and the installed flag, and skips the setup for the next user
\* of that configuration, whose commands find no driver until another
\* configuration is installed.
CacheCoherent ==
  \A p \in Ports : cached[p] # ZeroCfg =>
    /\ live[p] <=> installed[p] /\ ~failed[p] /\ ~Reinstalling(p)
    /\ live[p] => drvCfg[p] = cached[p]

\* A command that an installed driver executes runs with the pins, the clock
\* and the stretch timeout of its own device: no other task's i2c_setup_port,
\* failed reinstallation or i2cdev_done/i2cdev_init gets in between.
CommandHasOwnConfig ==
  \A t \in Tasks :
    pc[t] = "command" /\ live[Port(t)] =>
      /\ drvCfg[Port(t)] = DevCfg[dev[t]]
      /\ drvTicks[Port(t)] = DevTicks[dev[t]]

\* Every exit of a driver function, errors and timeouts included, has given
\* back what it took: a mutex is held only by a task that is still inside.
NoMutexLeak ==
  \A t \in Tasks :
    /\ \A p \in Ports : lock[p] = t => InPort(t) /\ Port(t) = p
    /\ \A d \in Devices : mutex[d] = t => pc[t] \notin {"idle", "mutex"} /\ dev[t] = d

\* A transfer ends, with a result or an abort, whatever the other tasks and
\* i2cdev_done do: i2c_dev_read and i2c_dev_write never block for good.
TransferReturns ==
  \A t \in Tasks : pc[t] = "take" ~> pc[t] \in {"session", "idle"}

\* i2cdev.h:63 promises that i2cdev_done uninstalls the drivers: once it has
\* returned ESP_OK and no session is left, no port has a driver.
DoneUninstalls == lib = "off" /\ Quiet => \A p \in Ports : ~live[p]
=============================================================================
