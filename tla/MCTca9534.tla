----------------------------- MODULE MCTca9534 ------------------------------
(* Two tasks, the expander and the DAC on port 0, two pins.  The calls: one  *)
(* pin on and off, the other one on, all off at once.  The read is made by   *)
(* i2c_exp_init.                                                             *)
EXTENDS Tca9534, TLC

CONSTANTS dac, exp, fast, slow, t1, t2, led, rel

MCTasks    == {t1, t2}
MCDevices  == {dac, exp}
MCCfgs     == {fast, slow}
MCDevPort  == dac :> 0 @@ exp :> 0
MCDevCfg   == dac :> fast @@ exp :> slow
MCDevTicks == dac :> 1 @@ exp :> 1
MCOps ==
  {[kind |-> "level", pin |-> led, on |-> FALSE],
   [kind |-> "level", pin |-> led, on |-> TRUE],
   [kind |-> "level", pin |-> rel, on |-> TRUE],
   [kind |-> "write", reg |-> "out", bits |-> {}]}
=============================================================================
