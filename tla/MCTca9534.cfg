CONSTANTS
  t1 = t1  t2 = t2
  dac = dac  exp = exp
  fast = fast  slow = slow
  led = led  rel = rel
  Tasks <- MCTasks
  Devices <- MCDevices
  NPorts = 1
  Cfgs <- MCCfgs
  Ticks = {1}
  DevPort <- MCDevPort
  DevCfg <- MCDevCfg
  DevTicks <- MCDevTicks
  ZeroCfg = zero
  ResetTicks = 1
  Free = free
  NoLock = null
  Lib = main
  Exp = exp
  Pins = {led, rel}
  UserOps <- MCOps
SPECIFICATION TcaFairSpec
INVARIANTS
  NoLostUpdate
PROPERTIES
  CallsAreAtomic
  CallReturns
  InitDrivesLow
