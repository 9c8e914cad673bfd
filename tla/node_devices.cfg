CONSTANTS
  v1 = v1
  v2 = v2
  t1 = t1
  d0 = d0
  d1 = d1
  c1 = c1
  c2 = c2
  NoVol = NoVol
  NoDev = NoDev
  NoTgt = NoTgt
  Volume = {v1, v2}
  BlockVol = {v1}
  RecoveryVol = {v1}
  Target = {t1}
  DevId = {d0, d1}
  Call = {c1, c2}
  FsType = {"ext4"}
  FsRequest = {"ext4"}
  Ops = {"stage", "unstage"}
  Faults = {"startJob", "stop", "del", "linkTimeout", "daemonCrash", "earlyCrash", "startLimit", "pluginCrash", "mount", "umount", "blkid", "start", "mkfs", "statStaging"}
SPECIFICATION Spec
INVARIANTS TypeOK HeldIsOwn StagingMountedOnce
PROPERTIES HandlersKeepMounts
SYMMETRY Sym
