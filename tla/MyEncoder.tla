----------------------------- MODULE MyEncoder ------------------------------
(***************************************************************************)
(* The rotary encoder from the timer to the application's callback:        *)
(* rotary_encoder_init/add/remove and timer_handler of encoder.c, and      *)
(* my_encoder.c.  What a run of read_encoder sends is left open within     *)
(* what RotaryEncoder allows.                                              *)
(*                                                                         *)
(* Four threads share the state: the periodic timer, which polls a         *)
(* registered encoder and sends events to a bounded queue without waiting; *)
(* encoder_task, which counts the turns and calls the application back;    *)
(* the application's task, which runs init_encoder and destroy_encoder;    *)
(* and a task (mqtt, rs485, ...) that sets the position from outside.      *)
(***************************************************************************)
EXTENDS Integers, Sequences

CONSTANTS
  QLen,       \* EV_QUEUE_LEN
  Half,       \* positions below zero: ctl_d and ctl_q are int32_t, so 2^31
  SetValues   \* positions set from outside

Low  == -Half
High == Half - 1
Position == Low .. High

ASSUME EncAssumption ==
  QLen \in Nat \ {0} /\ Half \in Nat \ {0} /\ SetValues \subseteq Position

\* Addition wraps around on this target.
Wrap(x) == ((x + Half) % (2 * Half)) - Half

Events == {"INC", "DEC", "BTN"}  \* button events are alike here

\* What one poll can send: at most two button events, at most one count.
PollEvents ==
  { << >>, <<"BTN">>, <<"BTN", "BTN">>, <<"INC">>, <<"DEC">>,
    <<"BTN", "INC">>, <<"BTN", "DEC">>, <<"BTN", "BTN", "INC">>, <<"BTN", "BTN", "DEC">> }

VARIABLES
  mutex,      \* encoder.c's mutex: "none", "free" or "app"
  enc,        \* encs[0] is MY_ENC.re (RE_MAX is 1)
  queue,      \* MY_ENC.event_queue
  app,        \* where the application's task is in init / destroy
  task,       \* where encoder_task is, "none" when it does not exist
  ev,         \* e, the event encoder_task received
  called,     \* the event given to the callback of this round, or "none"
  ctlD,       \* MY_ENC.ctl_d
  ctlQ,       \* MY_ENC.ctl_q
  copy,       \* register of encoder_task: ctl_d read and not yet stored
  setter,     \* << >>, or the position that is being stored from outside
  raced,      \* history: a store from outside fell into this round or the
              \* one before it, outside the wait for an event
  again       \* history: init_encoder runs although the encoder is up

vars == <<mutex, enc, queue, app, task, ev, called, ctlD, ctlQ, copy, setter, raced, again>>

TypeOK ==
  /\ mutex \in {"none", "free", "app"}
  /\ enc \in BOOLEAN
  /\ queue \in Seq(Events) /\ Len(queue) <= QLen
  /\ app \in {"down", "zeroing", "zeroed", "adding", "added", "up", "killed", "removing"}
  /\ task \in {"none", "wait", "load", "store", "callback", "copyLoad", "copyStore"}
  /\ ev \in Events
  /\ called \in Events \cup {"none"}
  /\ ctlD \in Position /\ ctlQ \in Position /\ copy \in Position
  /\ setter \in { << >> } \cup { <<v>> : v \in Position }
  /\ raced \in {0, 1, 2} /\ again \in BOOLEAN

Init ==
  /\ mutex = "none" /\ enc = FALSE /\ queue = << >>
  /\ app = "down" /\ task = "none"
  /\ ev = "BTN" /\ called = "none"
  /\ ctlD = 0 /\ ctlQ = 0 /\ copy = 0
  /\ setter = << >> /\ raced = 0 /\ again = FALSE

\* esp_restart: everything is back at its reset value.
Restart ==
  /\ mutex' = "none" /\ enc' = FALSE /\ queue' = << >>
  /\ app' = "down" /\ task' = "none"
  /\ ev' = "BTN" /\ called' = "none"
  /\ ctlD' = 0 /\ ctlQ' = 0 /\ copy' = 0
  /\ setter' = << >> /\ raced' = 0 /\ again' = FALSE

-----------------------------------------------------------------------------
(* The application's task: init_encoder and destroy_encoder.               *)

InRound == task \notin {"wait", "none"}

\* The queue, the mutex and the timer are made by the first call only; then
\* the descriptor is zeroed, and the position in two stores.  Nothing keeps the
\* application from calling init_encoder again while the encoder is up.
InitZero ==
  /\ app \in {"down", "up"}
  /\ mutex' = IF mutex = "none" THEN "free" ELSE mutex
  /\ ctlD' = 0
  /\ app' = "zeroing"
  /\ again' = (app = "up")
  /\ raced' = IF setter # << >> \/ InRound THEN 2 ELSE 0
  /\ UNCHANGED <<enc, queue, task, ev, called, ctlQ, copy, setter>>

InitZeroed ==
  /\ app = "zeroing"
  /\ ctlQ' = 0
  /\ app' = "zeroed"
  /\ raced' = IF InRound THEN 2 ELSE raced
  /\ UNCHANGED <<mutex, enc, queue, task, ev, called, ctlD, copy, setter, again>>

\* rotary_encoder_add finds the only slot taken: ESP_ERROR_CHECK in init_encoder
\* restarts the chip.
AddFull ==
  /\ app = "zeroed"
  /\ mutex = "free" /\ enc
  /\ Restart

\* rotary_encoder_add: the slot is filled before the pins are configured.
AddTake ==
  /\ app = "zeroed"
  /\ mutex = "free" /\ ~enc
  /\ mutex' = "app" /\ enc' = TRUE
  /\ app' = "adding"
  /\ UNCHANGED <<queue, task, ev, called, ctlD, ctlQ, copy, setter, raced, again>>

AddGive ==
  /\ app = "adding"
  /\ mutex' = "free"
  /\ app' = "added"
  /\ UNCHANGED <<enc, queue, task, ev, called, ctlD, ctlQ, copy, setter, raced, again>>

\* gpio_config fails: rotary_encoder_add returns with the mutex taken, and
\* ESP_ERROR_CHECK in init_encoder restarts the chip.
AddFails ==
  /\ app = "adding"
  /\ Restart

StartTask ==
  /\ app = "added"
  /\ task' = "wait"
  /\ app' = "up"
  /\ UNCHANGED <<mutex, enc, queue, ev, called, ctlD, ctlQ, copy, setter, raced, again>>

\* Variant: destroy_encoder does not remove the encoder from the timer.
KillTask_NoRemove ==
  /\ app = "up"
  /\ task' = "none" /\ called' = "none"
  /\ app' = "down"
  /\ UNCHANGED <<mutex, enc, queue, ev, ctlD, ctlQ, copy, setter, raced, again>>

\* destroy_encoder deletes the task wherever it is; the queue keeps its events.
KillTask ==
  /\ app = "up"
  /\ task' = "none" /\ called' = "none"
  /\ app' = "killed"
  /\ UNCHANGED <<mutex, enc, queue, ev, ctlD, ctlQ, copy, setter, raced, again>>

RemoveTake ==
  /\ app = "killed"
  /\ mutex = "free"
  /\ mutex' = "app" /\ enc' = FALSE
  /\ app' = "removing"
  /\ UNCHANGED <<queue, task, ev, called, ctlD, ctlQ, copy, setter, raced, again>>

RemoveGive ==
  /\ app = "removing"
  /\ mutex' = "free"
  /\ app' = "down"
  /\ UNCHANGED <<enc, queue, task, ev, called, ctlD, ctlQ, copy, setter, raced, again>>

-----------------------------------------------------------------------------
(* The timer, at the highest priority: a run is not interrupted by the     *)
(* encoder task, and is skipped when the mutex is taken.                   *)

\* Variant: the queue is not bounded.
Tick_Unbounded(events) ==
  /\ mutex = "free"
  /\ enc
  /\ queue' = queue \o events
  /\ UNCHANGED <<mutex, enc, app, task, ev, called, ctlD, ctlQ, copy, setter, raced, again>>

Tick(events) ==
  /\ mutex = "free"
  /\ enc
  /\ LET all == queue \o events IN
       queue' = SubSeq(all, 1, IF Len(all) < QLen THEN Len(all) ELSE QLen)
  /\ UNCHANGED <<mutex, enc, app, task, ev, called, ctlD, ctlQ, copy, setter, raced, again>>

-----------------------------------------------------------------------------
(* encoder_task: one round per event.                                      *)

Diff(e) == CASE e = "INC" -> 1 [] e = "DEC" -> -1 [] OTHER -> 0

\* The position is between the two stores of the setter or of init_encoder.
BeingSet == setter # << >> \/ app = "zeroing"

Receive ==
  /\ task = "wait"
  /\ queue # << >>
  /\ ev' = Head(queue)
  /\ queue' = Tail(queue)
  /\ task' = IF ev' = "BTN" THEN "callback" ELSE "load"
  /\ raced' = IF BeingSet THEN 2 ELSE raced
  /\ UNCHANGED <<mutex, enc, app, called, ctlD, ctlQ, copy, setter, again>>

\* Variant: the task keeps the position in a local that starts a round at 0.
CountLoad_Local ==
  /\ task = "load"
  /\ task' = "store"
  /\ UNCHANGED <<mutex, enc, queue, app, ev, called, ctlD, ctlQ, copy, setter, raced, again>>

\* ctl_d += diff reads and writes a shared word.
CountLoad ==
  /\ task = "load"
  /\ copy' = ctlD
  /\ task' = "store"
  /\ UNCHANGED <<mutex, enc, queue, app, ev, called, ctlD, ctlQ, setter, raced, again>>

CountStore ==
  /\ task = "store"
  /\ ctlD' = Wrap(copy + Diff(ev))
  /\ task' = "callback"
  /\ UNCHANGED <<mutex, enc, queue, app, ev, called, ctlQ, copy, setter, raced, again>>

Callback ==
  /\ task = "callback"
  /\ called' = IF ev = "BTN" THEN "BTN" ELSE IF ctlD > ctlQ THEN "INC" ELSE "DEC"
  /\ task' = "copyLoad"
  /\ UNCHANGED <<mutex, enc, queue, app, ev, ctlD, ctlQ, copy, setter, raced, again>>

CopyLoad ==
  /\ task = "copyLoad"
  /\ copy' = ctlD
  /\ task' = "copyStore"
  /\ UNCHANGED <<mutex, enc, queue, app, ev, called, ctlD, ctlQ, setter, raced, again>>

EndRound ==
  /\ raced' = IF BeingSet THEN 2 ELSE IF raced = 0 THEN 0 ELSE raced - 1
  /\ called' = "none"
  /\ copy' = 0

\* Variant: ctl_q is not brought up to date.
CopyStore_Forgotten ==
  /\ task = "copyStore"
  /\ task' = "wait"
  /\ EndRound
  /\ UNCHANGED <<mutex, enc, queue, app, ev, ctlD, ctlQ, setter, again>>

CopyStore ==
  /\ task = "copyStore"
  /\ ctlQ' = copy
  /\ task' = "wait"
  /\ EndRound
  /\ UNCHANGED <<mutex, enc, queue, app, ev, ctlD, setter, again>>

-----------------------------------------------------------------------------
(* my_encoder_set_current_encreg, in two stores.                           *)

\* A store from outside is harmless while encoder_task waits or is not there
\* and init_encoder is not between its own two stores.
Disturbs == InRound \/ app = "zeroing"

SetFirst(v) ==
  /\ setter = << >>
  /\ ctlD' = v
  /\ setter' = <<v>>
  /\ raced' = IF Disturbs THEN 2 ELSE raced
  /\ UNCHANGED <<mutex, enc, queue, app, task, ev, called, ctlQ, copy, again>>

SetSecond ==
  /\ setter # << >>
  /\ ctlQ' = setter[1]
  /\ setter' = << >>
  /\ raced' = IF Disturbs THEN 2 ELSE raced
  /\ UNCHANGED <<mutex, enc, queue, app, task, ev, called, ctlD, copy, again>>

-----------------------------------------------------------------------------
TaskStep == Receive \/ CountLoad \/ CountStore \/ Callback \/ CopyLoad \/ CopyStore

InitStep == InitZeroed \/ AddTake \/ AddFull \/ AddGive \/ AddFails \/ StartTask

DestroyStep == RemoveTake \/ RemoveGive

Next ==
  \/ InitZero \/ InitStep \/ KillTask \/ DestroyStep
  \/ \E events \in PollEvents : Tick(events)
  \/ TaskStep
  \/ \E v \in SetValues : SetFirst(v)
  \/ SetSecond

Spec == Init /\ [][Next]_vars

-----------------------------------------------------------------------------
(* Properties.                                                             *)

Wrapped == (ev = "INC" /\ ctlD = Low) \/ (ev = "DEC" /\ ctlD = High)

\* The callback reports the direction in which the shaft was turned, through
\* any sequence of turns, drops, restarts of the encoder and positions set from
\* outside, as long as no position is set while a round runs and the position
\* does not overflow.
DirectionUnlessRaced ==
  task = "copyLoad" /\ raced = 0 /\ ~Wrapped => called = ev

\* Under the same condition no position that was set is overwritten: a round
\* adds its turn to the position as it is.
CountUnlessRaced ==
  [][(CountStore /\ raced = 0) => ctlD' = Wrap(ctlD + Diff(ev))]_vars

\* init_encoder zeroes a descriptor that the timer polls if and only if it is
\* called again while the encoder is up: after destroy_encoder and after every
\* restart memset and read_encoder do not meet.  A repeated init_encoder goes no
\* further than rotary_encoder_add, whose only slot is taken: the chip restarts,
\* and no encoder goes on with a descriptor that was zeroed under it.
DescriptorNotShared ==
  /\ app \in {"down", "zeroing", "zeroed"} => (enc <=> again)
  /\ again => app \in {"zeroing", "zeroed"}
=============================================================================
