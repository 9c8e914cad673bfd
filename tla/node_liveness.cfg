CONSTANTS
  v1 = v1
  v2 = v2
  t1 = t1
  t2 = t2
  d0 = d0
  d1 = d1
  c1 = c1
  c2 = c2
  NoVol = NoVol
  NoDev = NoDev
  NoTgt = NoTgt
  Volume = {v1}
  BlockVol = {}
  RecoveryVol = {v1}
  Target = {t1}
  DevId = {d0, d1}
  Call = {c1}
  FsType = {"ext4"}
  FsRequest = {"ext4"}
  Ops = {"stage", "unstage", "publish", "unpublish"}
  Faults = {"pluginCrash", "start", "mkfs", "mount", "bind", "umount", "statTarget", "removeTarget", "daemonCrash", "startLimit"}
  Upsets = {"signal", "idleKill", "login", "listen"}
SPECIFICATION RetrySpec
INVARIANTS UnpublishedIsUnmounted
PROPERTIES CallsTerminate EventuallyStaged EventuallyServes StopsWhenTold
CHECK_DEADLOCK FALSE
