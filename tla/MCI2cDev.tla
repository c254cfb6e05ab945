------------------------------ MODULE MCI2cDev ------------------------------
(* Two ports (I2C_NUM_MAX of the ESP32); as in the repository, the DAC at     *)
(* 1 MHz and the expander at 400 kHz share port 0.  Their stretch timeouts    *)
(* differ, and differ from the one a reconfiguration leaves behind.           *)
EXTENDS I2cDev, TLC

CONSTANTS dac, exp, fast, slow, t1, t2

MCTasks    == {t1, t2}
MCDevices  == {dac, exp}
MCCfgs     == {fast, slow}
MCTicks    == {0, 1, 2}
MCDevPort  == dac :> 0 @@ exp :> 0
MCDevCfg   == dac :> fast @@ exp :> slow
MCDevTicks == dac :> 1 @@ exp :> 2
=============================================================================
