# Verification of esp32-partlib

TLA+ models of the components of this library, TLC runs that check them on
small instances, and TLAPS proofs, for any values of the constants, of every
safety property the passing runs check. Paths below are relative to
`src/components/`.

## The system

| component | state | operations | interacts with |
|---|---|---|---|
| `i2cdev` | per port: mutex, cached configuration, installed flag; per device: mutex | `i2cdev_init/done`, device mutex calls, `i2c_dev_read/write`, `i2c_setup_port` | called by every I2C driver from any task; drives the ESP-IDF I2C driver |
| `tca9534`, `i2c_exp` | one static descriptor; registers in the chip | register reads and writes, `tca9534_set_level` (read, modify, write), start script | sessions on `i2cdev` |
| `mcp4728`, `my_i2cdac` | static descriptor; DAC and EEPROM in the chip | reads, writes, `set_power_mode` (read, then write), EEPROM wait | sessions on `i2cdev` |
| `rotary_encoder` (`encoder.c`) | registry with its mutex, per encoder: code, store, button state and time | periodic timer: decode and send events; add, remove | queue to `my_encoder` |
| `my_encoder` | queue, task, position `ctl_d` and its last value `ctl_q` | init, destroy, task, setter | timer, application callback, setter from other tasks |
| `mqtt_wrapper` | client handle, running flag, setup function, endpoints with mutexes | event handler, register, publish | client library's task, application callbacks, publishing tasks |
| `provisioning` | event bits, semaphore on the stack, credentials in NVS | `setup_provisioning`, `event_handler` | Wi-Fi events, provisioning manager, restarts |
| `simple_ota` | two partitions and their states, HTTP server | `start_ota_http`, `/update`, `/reboot` | bootloader, restarts |
| `ble_console` (`ble_spp_server.c`) | connection flags, MTU, prepared writes, command queue | GATT events, uplink task, heartbeat, command task | `console_ll` by callbacks |
| `console_ll` | receive and transmit queues of characters | put, get, lines, link callbacks | BLE link, shell |
| `tcp_console_driver` | listening and connection sockets, console task, hand-over queue | maintainer task, console task, shutdown | sockets, console |
| `esp_idf_lib_helpers`, example, web page | none | compile-time macros, demonstration, browser side | |

What is hard here: tasks share descriptors, ports, flags and pointers with and
without mutexes; every mutex wait of the I2C layer can time out; driver calls
fail half way; shutdown functions delete mutexes and tasks that are in use;
callbacks run in library tasks while their owner is still starting; queues are
written without waiting and drop what does not fit; and three components
survive restarts and power losses. `PROJECT.json` lists each hazard
at its line with the properties that cover it.

What makes each component correct, in a sentence: a bus command runs with its
own device's configuration and every transfer returns with its mutexes given
back; an expander call is atomic on the registers; the decoder counts
completed detents only; the encoder task reports the direction that was
turned; an endpoint's callback never overlaps its publications and subscribed
topics are served; the provisioning keeps credentials that work and drops those
that do not; an update never leaves the chip without an image that can serve
the next one; the DAC is awake when its initialisation returns and a change of
its power mode does not touch its value; BLE text arrives in order in both
directions and a full queue empties again; there is one console task, it owns
every socket, and after "exit" the console listens again. Where the code keeps less
than that, the property says exactly how much: see
[What the models say about the code](#what-the-models-say-about-the-code).

## Modules

| module | models | built on |
|---|---|---|
| `I2cDev` | `i2cdev/i2cdev.c`, macros of `i2cdev.h` | |
| `PinLatch` | abstract specification: register operations that are atomic | |
| `Tca9534` | `tca9534.c`, `i2c_exp.c` | extends `I2cDev`, implements `PinLatch` |
| `RotaryEncoder` | `read_encoder` of `encoder.c` | |
| `MyEncoder` | the rest of `encoder.c`, `my_encoder.c` | abstracts `RotaryEncoder` to the events a poll may send |
| `MqttWrapper` | `mqtt_main.c` | |
| `Provisioning` | `my_provisioning.c` | |
| `SimpleOta` | `otaserver.c`, partitions and bootloader | |
| `Device` | one chip that runs both and restarts | instances of `Provisioning` and `SimpleOta` |
| `Mcp4728` | `mcp4728.c`, `my_i2cdac.c` | sessions of `I2cDev` as single steps |
| `TcpConsole` | `tcp_console_driver.c` | |
| `LossyStreams` | abstract specification: streams that lose text but keep its order | |
| `BleDownlink` | writes, prepared writes and commands in `ble_spp_server.c`, the receive side of `console_ll.c` | implements `LossyStreams` |
| `BleUplink` | connection events and `link_task` of `ble_spp_server.c`, the transmit side of `console_ll.c` | |
| `MCI2cDev`, `MCTca9534`, `MCMqttWrapper` | constants for TLC | |
| `XProofs` for `Tca9534`, `MyEncoder`, `MqttWrapper`, `Device`, `Mcp4728`, `TcpConsole`, `BleDownlink`, `BleUplink` | theorems about `X` | `X`, TLAPS |
| of these, `Tca9534Proofs` | also those about `I2cDev` | which `Tca9534` extends |
| and `MyEncoderProofs` | also those about `RotaryEncoder`, and that its polls are the ones `MyEncoder` expects | `RotaryEncoder`, whose specification is `DecoderSpec` |

Definitions named `X_Variant` with a comment "Variant:" are wrong versions of
the definition `X` that follows. No specification uses them; each is there to
show that a property notices the bug (`mutants` in `PROJECT.json`).

### Correspondence

**I2cDev.** `lock`, `cached` and `installed` are the fields of `states[]`;
`mutex` is `dev->mutex`; `live`, `drvCfg`, `drvTicks` are the driver and the
hardware, which only `i2c_setup_port` and `i2cdev_done` change. `pc[t]` is the
next statement of task t: a session (`Call`, `TakeMutex` or `MutexTimeout`,
transfers, `GiveMutex`) contains transfers (`TakePort` or `BlockOnPort` and
`PortTimeout`, `SetupPort`, `ParamConfig`, `DriverInstall`, `SetStretch`,
`CommandRuns`, with `SetupFails` and `CommandFails` for every error return, and
`GivePort`). `failed` is a history: the last reinstallation of the port's driver
ended in an error, after the old one had been deleted. `cfg_equal` is equality of abstract configurations, and a
descriptor's configuration always differs from the zeroed cache because its
clock speed is set. `i2cdev_done` is split at each access it makes without the
mutex. A NULL or deleted semaphore handle restarts the chip (`Abort`). The
ESP32 branch is modelled.

**Tca9534.** A call of `tca9534.c` is one session on the descriptor `Exp`;
`phase` says which of its transfers is next, `val` is the local byte of
`tca9534_set_level`. Register contents are sets of pins. A failed command may
or may not have reached the chip. `i2c_exp_init` is a script of three calls
whose results are not looked at. `faulted` is a history: a call of
`i2c_exp_init` failed. Other devices use the same bus meanwhile.

**RotaryEncoder.** `code` and `store` have the code's widths (4 and 16 bits);
times are counted in timer periods and kept up to the first value the code
cannot tell from larger ones. The shaft turns by at most a quarter of a detent
between polls, in any direction; the button is arbitrary. `moves`, `since` and
`longed` are histories for the properties.

**MyEncoder.** A poll sends one of the event sequences `read_encoder` can send
and the queue drops what does not fit. Positions lie in `-Half .. Half - 1`, where
`Half` is 2^31 in the code, and wrap around. The increment of `ctl_d` and the copy to
`ctl_q` are a load and a store each, the setter two stores. `raced` is a
history: a position was set while a round ran or in the round before.
`init_encoder` may be called at any time, also while the encoder is up: it zeroes
the descriptor and the position, `AddFull` finds the only slot of the registry
taken (`RE_MAX` is 1, as in the default configuration) and `ESP_ERROR_CHECK`
restarts the chip. `again` is a history of such a call.

**MqttWrapper.** `main` is the position in `mqtt_app_start` after the client
has been started, `ev` that of the client's task in `mqtt_event_handler` and
`parse_mqtt_topic`. `Begins[e]` abstracts the prefix comparison of topics. A
callback may publish on another endpoint. A mutex that could not be created
restarts the chip at its first use, since the check at its creation passes
either way. `RegisterLate` is `register_mqtt_topic` from a
task of the application, up to its subscription, which is `SubscribeLate`. The
event of a disconnection comes for a lost connection and for an attempt to
connect that failed. The client library has a lock, as far as the wrapper can feel
it: its task holds it while it hands out an event, and `PubSend` and
`SubscribeLate`, calls from other tasks, wait until it is free. `told` is the last
argument of `if_updown`; `early`, `lost` and `own` are histories.

**Provisioning, SimpleOta, Device.** `chip` becomes `"reset"` by `esp_restart`,
a failed `ESP_ERROR_CHECK` or a power loss, and `Reboot` then clears the memory
of both components and runs the bootloader. The handler of a new address is three steps,
`AddressArrives`, `GiveSemaphore` and `SetEventBit`, between which the main task goes
on; `arrived`, `ended` and `late` are histories of the wait for it. In `MarkValid` both
calls on the running image may fail, which leaves it on probation (`srv` is
`"failed"`). Credentials are none, right or
wrong; images are ones that serve, ones that cannot start the server and
corrupt ones. Giving the semaphore after `setup_provisioning` has returned uses
a dead stack frame, so it may succeed or abort. `Device` starts
`start_ota_http` after `setup_provisioning`: this repository has no `main`, and
the server needs the network interface and the event loop that
`setup_provisioning` creates. As NVS is initialised by then, the erase in
`start_ota_http` cannot happen.

**Mcp4728.** A session is one step with or without an effect on the chip, which
`I2cDev` justifies (one session at a time per descriptor, and a failed one may
have reached the chip). The driver's single value is the first channel. What goes
over the wire is modelled byte by byte, `Left`, `Right` and `FromLeft`, `FromRight`
being the two layouts the driver uses: `mcp4728_get_raw_output` without `eeprom` reads
the upper eight bits from the byte in which other functions find status and power mode,
and command 0x00 is laid out in one way by `mcp4728_set_raw_output` and in another by
`mcp4728_fast_write`. Which of the two the chip understands is its choice (`brief`);
the property does not depend on it.
`call[t]` is a `mcp4728_set_power_mode` between its read and its write; `raced`
in it is a history: another write came in between. The EEPROM write that a
command starts is a step of the chip; until then it may drop commands. The
power mode command is the same whatever the argument `eeprom`, and whether it
also stores is the chip's choice (`stores`), so both readings of the data sheet
are covered. `excused` is a history: a task put the DAC to sleep, or a busy chip
dropped a command, since power came.

**TcpConsole.** `m` is the statement `socket_maintainer_task` is at, `at[k]`
that of console task k. The three assignments of the shutdown that the
maintainer can see are three steps. `raced` and `faulted` are histories: a
console task was created during a shutdown; a task or a socket was refused.
Linenoise, history and commands are left out except `exit`, whose handler is in
a component that is not in the repository.

**BleDownlink.** Characters carry their way and their number, so that order and
repetition can be seen. The loops of `print_write_buffer` and `free_write_buffer`
are one step per node, `__link_rx` one per character, because it runs in two
tasks. List nodes are memory cells with their `next_node`; `p1`, `p2` are the two
static pointers. The refinement mapping takes as `transit` every character that
is in a queue, in a task's hands or in a node that has not been handed over.

**BleUplink.** `text` is what one printing task still has to put into the queue:
`console_printf` asserts that there is room, `console_ll_putline` gives up after
a second. `link_task` is one step per statement that reads the MTU; a fragment
is its number and total, its range in the line and its size, `room` the size of the
buffer that was allocated. `Notify` may fail, and does without a connection; `pieces` is
what the client gets and `lost` a history of the bytes it does not. A fragment that
does not fit is undefined behaviour: the chip goes on or restarts. `raced` is a history:
the connection or the MTU changed after the fragments of the line had been counted or
the line sent.

## Runs

| run | instance | shows |
|---|---|---|
| `i2c` | 2 tasks; a fast and a slow device on port 0; 2 ports | `PortExclusive`, `CacheCoherent`, `CommandHasOwnConfig`, `NoMutexLeak`, `TransferReturns` with `i2cdev_done` at any moment |
| `i2c_done_leak` | the same | violated: `i2cdev_done` "Uninstall i2c drivers" |
| `tca9534` | 2 tasks, 2 pins, another device on the bus, 1 port | `NoLostUpdate`, refinement of `PinLatch`, `CallReturns`, `InitDrivesLow` |
| `rotary` | dead time 3, long press 7 | `CountIsCycle`, `ButtonStory` |
| `my_encoder` | queue of 3, 3-bit positions, one position set from outside | `DirectionUnlessRaced`, `CountUnlessRaced`, `DescriptorNotShared` |
| `mqtt` | 2 endpoints, both subscribers, whose topics share a prefix, 2 publishers | `EndpointExclusive`, `LinkReported`, `FirstLinkServed`, `CallsReturn` |
| `mcp4728` | 2 tasks, channels 0, 1 and the refused 3, the values 0 and 2748 | `ValueKept`, `InitWakes` |
| `tcp_console` | 3 console tasks, 4 descriptors | `ConsoleOwned`, `GiveSucceeds`, `ExitListensAgain` |
| `ble_downlink` | 3 list nodes, queues of 2 characters and 1 command, writes of up to 2, 3 characters per way | `ListWhole`, refinement of `LossyStreams` |
| `ble_uplink` | queue of 4, buffer of 8, texts of 4, MTUs 9 and 10 | `LineArrives`, `FullQueueDrains` |
| `device` | 2 partitions, uploads of up to 2 receives, 2 power losses | `Recoverable`, `WorkingCredentialsKept`, `WrongForgotten`, `ProbationEnds` |
| `provisioning_cleanup` | the same | violated: "Clean up all resources" |

Why the bounds are enough. Two tasks on one port with two configurations make
every pair of code points meet and force a reconfiguration between any two
transfers; a third task adds waiting tasks but no new holder, and the safety
properties of `I2cDev` are proved for any number. The second port exercises the
loops of `i2cdev_init` and `i2cdev_done`. Two pins are the least that can lose an
update of one to the other. The decoder is checked with its real widths and
patterns; only the two times are scaled, with dead time < long press time as in
the defaults. Three-bit positions overflow after a few turns, and a queue of
three is smaller than what one poll and a pending event send. Two publishers
and the client's task contend for one endpoint, the one with the lock of the client
and the others without. 2748 is 0xABC: its three hexadecimal digits differ, so
that every confusion of the two layouts changes it. Two power losses can hit an
update and the rollback after it; reaching a further state needs no more,
since a restart forgets everything but credentials and partitions. Three console
tasks are an old one, its successor and one more after the wrong one was deleted;
four descriptors are two of the console and two that leak. Queues of one or two
entries are full at once, and three prepared nodes have a first, a middle and a
last. A notification of the two MTUs carries 6 or 7 characters, a fragment 2 or 3.
`console_ll_putline` drops the end of a text that finds no room, so two texts
of 4 also make lines of 5 to 8, up to the full buffer: lines that fit both MTUs, one or
none, are sent in one to four fragments, divide evenly by one payload or not, and lose
any of them; the two MTUs change into each other in both directions. Every passing run explores its whole state
space; none uses symmetry or a constraint. Deadlock is checked except in
`tcp_console`, where after a refused resource or a lost shutdown race the
maintainer really waits for ever, and in `ble_downlink`, whose client stops when
it has sent what the bound allows.

## Fairness

Weak fairness of each task's steps is what the FreeRTOS scheduler gives to tasks
that are not blocked; a step that waits with a timeout is not blocked for good,
so in `I2cDev` and `Tca9534` no strong fairness is needed. `MqttWrapper` waits for
mutexes without a timeout, and for the lock of the client: strong fairness of taking
one is FreeRTOS waking waiters in order of priority and arrival. That a lock
is given back is not assumed: who holds one and waits for the other may wait for
ever, and `CallsReturn` says when. It is assumed that callbacks return; nothing is
assumed of registrations. `Device` assumes that the tasks run, that the five minutes pass, and
strongly that erasing the flash does not fail for ever. `Mcp4728` assumes that
the main task runs and that the chip finishes an EEPROM write; `TcpConsole` that
its tasks run, but not that an accept ends or that anyone types `exit`;
`BleUplink` that `link_task` runs. Nothing is assumed of
networks, messages, users, uploads or the start of calls.

## Proofs

Each `XProofs` module has the same plan: an inductive invariant `IInv` (for
`Tca9534` `TcaInv`, for `RotaryEncoder` `PollInv`, in `Mcp4728Proofs` `Inv`), a lemma that it holds
initially, step lemmas with one step per action, and theorems that combine them
with temporal logic. They hold for every value of the constants that the named
assumption of `X` admits. A listed theorem states the very definition that the
run of `X` checks.

| module | theorems | from |
|---|---|---|
| `Tca9534Proofs`, of `I2cDev` | `TypeCorrect`, `PortExclusiveHolds`, `NoMutexLeakHolds`, `CacheCoherentHolds`, `CommandHasOwnConfigHolds` | `I2cAssumption` |
| the same, of `Tca9534` | `TcaTypeCorrect`, `NoLostUpdateHolds`, `InitDrivesLowHolds`, `CallsAreAtomicHolds` | `I2cAssumption`, `TcaAssumption` |
| `MyEncoderProofs` | `TypeCorrect`, `DescriptorNotSharedHolds`, `DirectionUnlessRacedHolds`, `CountUnlessRacedHolds` | `EncAssumption` |
| the same, of `RotaryEncoder` | `DecoderTypeCorrect`, `ButtonStoryHolds`, `LongPressAtLimit`, `CountIsCycleHolds`, `PollsAreTicks` | `TimeAssumption` |
| `MqttWrapperProofs` | `TypeCorrect`, `EndpointExclusiveHolds`, `LinkReportedHolds`, `FirstLinkServedHolds` | `MqttAssumption` |
| `DeviceProofs` | `TypeCorrect`, `RecoverableHolds`, `WorkingCredentialsKeptHolds` | `DeviceAssumption` |
| `BleDownlinkProofs` | `TypeCorrect`, `ListWholeHolds`, `TextInOrderHolds` | `DownlinkAssumption` |
| `BleUplinkProofs` | `TypeCorrect`, `LineArrivesHolds`, `CountersFitBytes` | `UplinkAssumption` |
| `Mcp4728Proofs` | `TypeCorrect`, `ValueKeptHolds`, `AwakeWhenUp` | `McpAssumption` |
| `TcpConsoleProofs` | `TypeCorrect`, `GiveSucceedsHolds`, `ConsoleOwnedHolds` | `TcpAssumption` |

The assumptions only say that sizes are numbers, that the names of special values
are not names of tasks, nodes or ports, and what the configuration fixes: two
partitions, port and mutex tables that match, calls that the expander has, a dead
time shorter than the long press, and an uplink buffer of at most 254 fragments of
the smallest MTU (512 bytes against 4064).

**I2cDev.** `PortExclusive` is not inductive, because holding the mutex does not
imply being its holder for ever: `i2cdev_done` deletes mutexes that are held. `IInv`
has two halves. `LockInv` says who holds what: a task inside a port either is the
recorded holder or the port's mutex is gone, in which case nobody else can get
in; a session holds its device's mutex; `i2cdev_done` holds a port only in
`"held"`. `CacheInv` adds to `CacheCoherent`, which names the one case in which the
cache is wrong, what a task that sets the port up knows meanwhile. It says what each phase of `i2c_setup_port` has established: after
the deletion the driver is gone, after `i2c_param_config` the hardware has the
device's configuration, from `"stretch"` on the cache and the hardware agree,
from `"command"` on the timeout does too, and no one else can disturb this
because of `LockInv`.

**Tca9534.** `TcaIsBus` shows that every step of the expander is one of the bus, so
the invariant of `I2cDev` is kept; as `i2cdev_done` is not called, `LibUp` adds that
no mutex is ever missing and `NoAbort` that no task restarts the chip. Then
`LockInv` makes sessions on the expander exclusive. `CallInv` says of a call in
progress whether the chip has done it and, between the two transfers of
`tca9534_set_level`, that `val` is the register with the one pin changed, which no
other task can spoil: this is `NoLostUpdate`. `BootInv` says that nobody else calls
while `i2c_exp_init` runs and what its finished calls have written; `InitDrivesLow`
follows at its last step. In the refinement of `PinLatch` a call takes effect when
the chip latches it; `LatchStep` maps every other step to the call's start, its
end or a stutter.

**MyEncoder.** `DirectionUnlessRaced` is about one moment, the callback; `RoundInv`
says for every place of `encoder_task`, and for the initialisation, how `ctl_d`,
`ctl_q` and the loaded copy are related as long as no store fell into this round
or the one before. `SetInv` does the same for a half finished `setter`, since its
second store may come rounds after the first. `AppInv` keeps the encoder's slot, its
task and the application in step, also in an `init_encoder` that is called again, from
which `DescriptorNotShared` follows. `WrapMoves` is the arithmetic of overflow.

**RotaryEncoder.** `CountIsCycle` says what the poll that completes a cycle sends, so
the invariant has to say what the store knows before. `DecoderInv` does so for each
direction: the last one, two and three codes in the store are the beginning of the
direction's pattern if and only if the last one, two or three quarter turns went
that way and the shaft is as many quarters past its rest. "Only if" needs that the
code of a quarter turn tells where it began and its direction (`CodesDiffer`), that
standing still gives no valid code (`CodeTable`), and that the first sample after an
encoder was added completes nothing (`FirstStep`). `SampledStep` then shifts one more
code into the store: the whole pattern stands in it exactly after the fourth quarter
turn. `PressInv` ties `btnTime` to the time since the press was reported, which makes
`ButtonStory` a matter of cases; `LongPressAtLimit` says on which side of a
disagreement of header and code about the limit the code is. `PollsAreTicks` closes the gap between the two
modules of the encoder: whatever a poll sends is in `PollEvents`, from which
`MyEncoder` draws what its timer sends, button events being alike there.

**MqttWrapper.** `HoldInv` gives every place inside an endpoint its mutex, and says
that the initialisation loop, which creates the mutexes while the client may
already run, never replaces one that exists. `LinkInv` and `ServeInv` add what holds
during an event to what `LinkReported` and `FirstLinkServed` say between events:
the setup function is there until a disconnection is reported, of a connection or of an
attempt, its loop over endpoints has registered those it has passed, and once it is
gone nobody but other tasks subscribes anything.

**Device.** `BootInv` names the only two cases in which the partition to start next
has not proved itself: it is on probation with a valid one behind it, or it has
just been selected and the running one is valid. `ArrivedInv` follows an address
through the handler: until the semaphore is tried, an address that has arrived is in it
or about to be given, and the event bit is never set before; so a wait that ended by the
bit finds the semaphore, and one that ended by the timeout may be late by that one step.

**BleDownlink.** Order at the reader depends on order in every place before it.
`WayInv` says which way the characters in each place came, `WaitInv` that what waits
was sent and not yet read, `OrderInv` that every text is in order and every place
nearer to the reader holds earlier characters of the same way. For prepared writes
the place is the list: `ListInv` says that there is a sequence of nodes that the
links follow, with the texts in order, and that printing has handed over a prefix
and freeing only what was printed; this is needed in the states between, where
`ListWhole` says nothing because `p1` and `p2` are in use. Every step then is
`Losing`, `Sending` or `Reading` (`FlowStep`), which are the actions of
`LossyStreams` or a stutter.

**BleUplink.** `LineArrives` speaks of the end of a line. `CountInv` says that nothing
of it has been sent before the first notification and bounds the counters; `LineInv`
says that the bytes of the first `current_num - 1` fragments are accounted for, each in
one notification the client got or among the lost ones, and that every such notification
fits and tells its place, with `total_num` the quotient of line and payload rounded
up (`RoundedUp`) and `room` enough for a full fragment. It holds while `raced` is false only: `link_task` reads the MTU again in
every statement, and `BluetoothStep` shows that each event that changes what it reads
is remembered from the count on; before it every statement goes by one value of the MTU.
`FragmentSent` is the arithmetic of one more fragment, `NextBytes` that its bytes, sent or
lost, follow those before.
`CountersFitBytes` is not about the model's own numbers but about the code's: it
shows that `total_num` and `current_num`, which are `uint8_t` there and unbounded
here, never exceed a byte, also when the MTU changes during a line.

**Mcp4728.** `ValueKept` is inductive together with `TypeOK`: only a write session
changes a register that is read back, and `AfterWriteMarks` shows that it marks
every call that is still in progress; a power loss reloads the registers but ends
all calls. What a read makes of the registers is arithmetic on 12-bit numbers:
`Layouts` says which output each layout reads from its own bytes and from those of the
other, `Decoded` what `mcp4728_get_raw_output` returns with and without `eeprom`.
`AwakeWhenUp` is the half of `InitWakes` that is not about progress: when
the start has returned the DAC is awake. `AwakeInv` adds that a DAC asleep without an
excuse has that in its EEPROM too, which is all the start looks at.

**TcpConsole.** `GiveSucceeds` needs `Handshake`: the semaphore is given only while
the maintainer waits for it, and one task at most is about to give it.
`ConsoleOwned` says nothing of where the console task is when the maintainer
creates the next one; `Owned` adds `Stage`, the places the task and the maintainer
can be in together with the descriptors each pair of places implies, and
`Resting`, what holds when no task is left. `OwnedStep` then shows that without a
race and without a refused resource `CreateConsole` finds no task alive.

Only model-checked: liveness (`TransferReturns`, `CallReturns`, `CallsReturn`,
`InitWakes`, `ExitListensAgain`, `FullQueueDrains`, `WrongForgotten`,
`ProbationEnds`), because fairness needs ENABLED, which is out of the prover's reach.
Nothing here needs induction over data: texts, queues and the prepared
list are treated as functions of their places.

## What the models say about the code

Two runs end in a violation of what the repository says of itself:

- `i2c_done_leak`: `i2cdev_done` reads `installed` before it takes the mutex. A
  first transfer in between leaves a driver that the next `i2cdev_init` does not
  know of, and every later installation on that port fails.
- `provisioning_cleanup`: after the start the Wi-Fi event handler goes on giving
  a semaphore that lived on a stack frame; the second new address makes the give
  fail and restarts the chip.

Other properties hold only under a condition that they name, or state that the code
does less than one would wish; without the condition TLC shows a run of the code that
breaks them:

- `CacheCoherent`: an error of `i2c_param_config` or `i2c_driver_install` after the old
  driver was deleted leaves cache and flag as they were. The next user of the old
  configuration hits the cache and runs its commands without a driver, and so on
  until a device with another configuration uses the port.
- `ButtonStory`: of a press of exactly the long press time `encoder.h:53` says that it is
  not a long press, and `encoder.c:65` reports one.
- `DescriptorNotShared`: a second `init_encoder` zeroes the descriptor and the position
  under the timer and the task before `rotary_encoder_add` finds no slot and the chip
  restarts.
- `InitDrivesLow`: `i2c_exp_init` ignores errors, so the application may run with
  relays and LEDs that were never switched off.
- `DirectionUnlessRaced`: a position set while a turn is handled reverses the
  reported direction.
- `FirstLinkServed`: after a reconnect, and on the first connection too when an attempt
  before it failed, the MQTT client is up, `if_updown(true)` has been called and
  publishing works, but nothing is subscribed until the application registers its
  topics again itself.
- `LinkReported`: when the client connects before `mqtt_app_start` has returned, `running`
  is cleared after the event has set it, and nothing can be published on a connection
  that is up.
- `CallsReturn`: a publisher that has its endpoint's mutex and waits for the client, and
  the client's task that has come to that endpoint's callback, or to a nested publication
  on it, embrace each other for ever.
- `ValueKept`: a value written between the two sessions of
  `mcp4728_set_power_mode` is overwritten with the old one; and without `eeprom` that
  function writes back the status byte and four bits of the output.
- `WorkingCredentialsKept`: when the five minutes end between the arrival of the address
  and the give of the semaphore, credentials that work are erased.
- `ProbationEnds`: an image that could not be marked valid runs on without anyone
  noticing, and the next restart brings back the one before.
- `InitWakes`: a DAC that was put to sleep without its EEPROM being told stays
  asleep when only the ESP32 restarts, because the EEPROM's mode is looked at.
- `ConsoleOwned`, `ExitListensAgain`: a maintainer that polls between the
  assignments of a shutdown creates a console task that the shutdown deletes
  instead of its own; and one failed `bind`, `listen` or `accept` is never
  repeated, because `socket_fd` stays set.
- `LineArrives`: a notification that cannot be sent is lost unnoticed, alone or from the
  middle of a line; fragments of a line during which the MTU changed overlap, leave
  gaps or exceed the buffer; and a client that asks for no MTU gets the one of
  the client before.
- `FullQueueDrains`: one failed `malloc` ends `link_task` for good; after that,
  or without a peer, `console_printf` fails its assertion.

## Not modelled

- The heartbeat of the BLE link (compiled out), its attribute table, advertising
  and the bring-up of the Bluetooth stack: calls of the vendor's stack in a fixed
  order.
- A BLE command as long as its buffer, or one with a zero byte, whose length
  `strlen` gets wrong; `console_printf` with a text beyond its buffer; characters
  that are zero on the way up.
- The handler of `exit` and the rest of `app_console`, external to this
  repository. `tcp_console_driver.c` is modelled as its code stands, although the
  end of its licence text is outside the comment.
- The inside of the MQTT client library. It is taken to have one lock, held by its task
  while that hands out an event and needed by calls of other tasks; a library
  outside this tree that lets go of it earlier has fewer behaviours. A callback that
  publishes on its own endpoint waits for ever and is left out.
- `destroy_encoder` while no encoder task exists, and a second encoder (`RE_MAX` above 1).
- Out-of-range arguments and memory errors: a port index beyond the array, which
  `SEMAPHORE_TAKE` uses before `i2c_setup_port` checks it; a topic longer than its
  buffer; torn topic strings.
- `rotary_encoder_add` returns with its mutex taken when `gpio_config` fails;
  `init_encoder` then restarts the chip, which is modelled, but other users of
  `encoder.c` would be stuck. The error returns of `/update` leave the
  `esp_ota` handle open, which is memory of the library.
- The reset-provisioning configuration, custom endpoints and the QR payload of
  the provisioning, a broker URL typed on stdin, log output.
- ESP8266 branches, macros, web page, example program.

## Plan

1. Done: every component with state of its own, as in the table of modules, and a
   theorem for every type invariant, safety invariant, safety action property and
   refinement the passing runs check.
2. Liveness stays with TLC, for want of ENABLED in the prover.
3. Left: the reset-provisioning configuration in `Provisioning`.
