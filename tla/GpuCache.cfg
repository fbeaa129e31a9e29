SPECIFICATION Spec
CONSTANTS
  Threads = {t1, t2}
  Shaders = {s1, s2, s3}
  PCache = 2
  MaxH = 1
  MaxSh = 1
  MaxStage = 3
  None = None
SYMMETRY Perms
INVARIANTS PipelinesAlive RefusedOnlyIfTooWide QueueHasOneUser
PROPERTY LeaseSpec
