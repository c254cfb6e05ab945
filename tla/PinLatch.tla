------------------------------ MODULE PinLatch ------------------------------
(***************************************************************************)
(* What the functions of tca9534.c promise their callers: a call takes     *)
(* effect on the expander's registers at one instant between its           *)
(* invocation and its return, at most once, and surely if it returns       *)
(* ESP_OK.  In particular tca9534_set_level changes its own pin only,      *)
(* whoever else is changing pins.                                          *)
(***************************************************************************)
CONSTANTS
  Tasks,    \* the callers
  Pins,     \* bits of the chip's registers
  Ops       \* the calls they make, built with Read, Write and Level

Regs == {"out", "pol", "conf"}

VARIABLES
  regs,     \* the chip's registers, each the set of its bits that are one
  op,       \* the call each task is in, or NoOp
  status    \* how far it is: pending, latched, or returned ok / error

vars == <<regs, op, status>>

NoOp           == [kind |-> "none"]
Read           == [kind |-> "read"]
Write(reg, v)  == [kind |-> "write", reg |-> reg, bits |-> v]
Level(pin, on) == [kind |-> "level", pin |-> pin, on |-> on]

Returned(t) == status[t] \in {"ok", "error"}

SetBit(bits, pin, on) == IF on THEN bits \cup {pin} ELSE bits \ {pin}

Effect(o) ==
  CASE o.kind = "read"  -> regs
    [] o.kind = "write" -> [regs EXCEPT ![o.reg] = o.bits]
    [] o.kind = "level" -> [regs EXCEPT !["out"] = SetBit(@, o.pin, o.on)]

Init ==
  /\ regs \in [Regs -> SUBSET Pins]
  /\ op = [t \in Tasks |-> NoOp]
  /\ status = [t \in Tasks |-> "ok"]

Invoke(t, o) ==
  /\ Returned(t)
  /\ op' = [op EXCEPT ![t] = o]
  /\ status' = [status EXCEPT ![t] = "pending"]
  /\ UNCHANGED regs

Latch(t) ==
  /\ status[t] = "pending"
  /\ regs' = Effect(op[t])
  /\ status' = [status EXCEPT ![t] = "latched"]
  /\ UNCHANGED op

Return(t) ==
  /\ \/ status[t] = "latched" /\ status' = [status EXCEPT ![t] = "ok"]
     \/ ~Returned(t) /\ status' = [status EXCEPT ![t] = "error"]
  /\ op' = [op EXCEPT ![t] = NoOp]
  /\ UNCHANGED regs

Next == \E t \in Tasks : Latch(t) \/ Return(t) \/ \E o \in Ops : Invoke(t, o)

Spec == Init /\ [][Next]_vars
=============================================================================
