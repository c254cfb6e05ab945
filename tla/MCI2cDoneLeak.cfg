CONSTANTS
  t1 = t1  t2 = t2
  dac = dac  exp = exp
  fast = fast  slow = slow
  Tasks <- MCTasks
  Devices <- MCDevices
  NPorts = 2
  Cfgs <- MCCfgs
  Ticks <- MCTicks
  DevPort <- MCDevPort
  DevCfg <- MCDevCfg
  DevTicks <- MCDevTicks
  ZeroCfg = zero
  ResetTicks = 0
  Free = free
  NoLock = null
  Lib = main
SPECIFICATION Spec
INVARIANT DoneUninstalls
