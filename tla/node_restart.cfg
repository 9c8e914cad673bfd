CONSTANTS
  v1 = v1
  v2 = v2
  t1 = t1
  t2 = t2
  d0 = d0
  d1 = d1
  c1 = c1
  c2 = c2
  NoVol = NoVol
  NoDev = NoDev
  NoTgt = NoTgt
  Volume = {v1, v2}
  BlockVol = {v1, v2}
  RecoveryVol = {}
  Target = {t1}
  DevId = {d0, d1}
  Call = {c1, c2}
  FsType = {}
  FsRequest = {}
  Ops = {"stage", "unstage", "publish", "unpublish"}
  Faults = {"pluginCrash", "listVolumes", "bind", "umount", "statStaging", "statTarget", "removeTarget"}
  Upsets = {"signal", "kill", "login", "listen", "remove"}
SPECIFICATION PluginSpec
INVARIANTS SeededIsBacked RememberedIsLive
PROPERTIES UnpublishUnmounts
SYMMETRY Sym
