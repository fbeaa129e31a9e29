SPECIFICATION FairSpec
CONSTANTS
  Supervisors = {a, b}
  Order <- SomeDaemons
  Installed = {"gpud", "gpud-zc", "gxpd3", "gxpd", "cfgd"}
  Together = FALSE
  Mortal = {"gpud", "gpud-zc", "gxpd3", "gxpd", "cfgd", "worker"}
  MaxInst = 2
  NoPid = NoPid
INVARIANTS OneSupervisor OneInstance
PROPERTY UnseenIsStarted
