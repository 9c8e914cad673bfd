CONSTANTS
  v1 = v1
  v2 = v2
  t1 = t1
  t2 = t2
  d0 = d0
  d1 = d1
  c1 = c1
  c2 = c2
  NoVol = NoVol
  NoDev = NoDev
  NoTgt = NoTgt
  Volume = {v1, v2}
  BlockVol = {v2}
  RecoveryVol = {}
  Target = {t1, t2}
  DevId = {d0, d1}
  Call = {c1, c2}
  FsType = {"ext4", "btrfs"}
  FsRequest = {"ext4"}
  Ops = {"stage", "unstage", "publish", "unpublish"}
  Faults = {"pluginCrash", "start", "mkfs", "mount", "umount", "statStaging"}
  Upsets = {"signal"}
SPECIFICATION PluginSpec
INVARIANTS StagedIsBacked PublishedIsLive UnstagedIsClean
SYMMETRY Sym
PROPERTIES KeepsStagePromise
