----------------------------- MODULE NodeServer -----------------------------
(***************************************************************************)
(* The node service of the plugin (pkg/node/node.go): NodeStageVolume,     *)
(* NodeUnstageVolume, NodePublishVolume and NodeUnpublishVolume, each a    *)
(* handler that runs in a goroutine of its own and does one host operation *)
(* (NodeHost) per step.  The only state the plugin keeps is VolMap; its    *)
(* mutex is held for single map accesses, never across host operations.    *)
(* The kubelet that calls the handlers, and what it believes it has        *)
(* achieved, are external.                                                 *)
(***************************************************************************)
EXTENDS NodeHost

CONSTANTS
  Call,        \* handler invocations that can be in flight together
  FsRequest,   \* file systems a volume capability may ask for
  Ops,         \* operations the kubelet performs
  NoTgt

ASSUME NodeAssumption ==
  /\ FsRequest \subseteq FsType
  /\ {"", "No such device"} \cap FsType = {}
  /\ Ops \subseteq {"stage", "unstage", "publish", "unpublish"}
  /\ NoTgt \notin Target

VARIABLES
  VolMap,      \* Node.VolMap: which volumes have an entry, and its mode
  call,        \* call[c]: the program counter and locals of one invocation
  staged,      \* staged[v]: does the kubelet hold v as staged here
  published,   \* published[v, t]: does it hold v as published at t
  alive        \* the plugin process serves requests

pluginVars == <<VolMap, call, alive>>
kubeletVars == <<staged, published>>
vars == <<hostVars, pluginVars, kubeletVars>>

Idle == [pc |-> "idle", op |-> "none", vol |-> NoVol, tgt |-> NoTgt, fs |-> "",
         dev |-> NoDev, known |-> FALSE, waiting |-> FALSE]

StagePc == {"stageCheck", "startUnit", "waitLink", "stopAfterWait", "validate",
            "probe", "mkfs", "mountCheck", "stageMount", "insert"}
DeletePc == {"resolve", "stopUnit", "ublkDel"}
UnstagePc == {"unstageCheck", "unmountStaging", "cleanupStaging", "delete"}
PublishPc == {"publishCheck", "bindCheck", "bind", "recordTarget"}
UnpublishPc == {"unpublishCheck", "unmountTarget", "removeTarget"}

\* "leaving": an unpublish was tried, so nothing is published there any more
\* until one succeeds (a target path belongs to one pod).
Belief == {"no", "yes", "maybe", "leaving"}
Mode(v) == IF v \in BlockVol THEN "block" ELSE "mount"

Pc == {"idle"} \cup StagePc \cup DeletePc \cup UnstagePc \cup PublishPc \cup UnpublishPc

Invocation ==
  [pc : Pc, op : {"none", "stage", "unstage", "publish", "unpublish"},
   vol : Volume \cup {NoVol}, tgt : Target \cup {NoTgt}, fs : FsType \cup {""},
   dev : DevId \cup {NoDev}, known : BOOLEAN, waiting : BOOLEAN]

TypeOK ==
  /\ HostTypeOK
  /\ VolMap \in [Volume -> {"absent", "seeded", "block", "mount"}]
  /\ call \in [Call -> Invocation]
  /\ staged \in [Volume -> {"no", "yes", "maybe"}]
  /\ published \in [Volume \X Target -> Belief]
  /\ alive \in BOOLEAN

Init ==
  /\ HostInit
  /\ VolMap = [v \in Volume |-> "absent"]
  /\ call = [c \in Call |-> Idle]
  /\ staged = [v \in Volume |-> "no"]
  /\ published = [p \in Volume \X Target |-> "no"]
  /\ alive = TRUE

(***************************************************************************)
(* The kubelet.  It performs one operation per volume at a time, unless it *)
(* has given an unanswered call up (clientTimeout): the handlers ignore    *)
(* their context, so the abandoned invocation goes on beside the retry.    *)
(***************************************************************************)
Busy(v) == \E c \in Call : call[c].vol = v /\ call[c].waiting

Begin(c, op, pc, v, t, f) ==
  /\ op \in Ops
  /\ alive
  /\ call[c] = Idle
  /\ ~Busy(v)
  /\ call' = [call EXCEPT ![c] = [Idle EXCEPT !.pc = pc, !.op = op, !.vol = v,
                                    !.tgt = t, !.fs = f, !.waiting = TRUE]]
  /\ UNCHANGED <<hostVars, VolMap, alive, kubeletVars>>

CallStage(c, v) ==
  \E f \in IF v \in BlockVol THEN {""} ELSE FsRequest :
    Begin(c, "stage", "stageCheck", v, NoTgt, f)

\* A volume is unstaged once it may be staged and is published nowhere.
CallUnstage(c, v) ==
  /\ staged[v] # "no"
  /\ \A t \in Target : published[<<v, t>>] = "no"
  /\ Begin(c, "unstage", "unstageCheck", v, NoTgt, "")

CallPublish(c, v, t) ==
  /\ staged[v] = "yes"
  /\ published[<<v, t>>] # "leaving"
  /\ Begin(c, "publish", "publishCheck", v, t, "")

CallUnpublish(c, v, t) ==
  /\ published[<<v, t>>] # "no"
  /\ Begin(c, "unpublish", "unpublishCheck", v, t, "")

\* What the kubelet must believe when the answer never comes ...
Doubt(op, before) ==
  CASE op \in {"stage", "publish"} -> IF before = "yes" THEN "yes" ELSE "maybe"
    [] op = "unpublish" -> "leaving"
    [] OTHER -> "maybe"

\* ... and what an answer tells it, given what it believed before.
Learn(op, ok, before) ==
  IF op \in {"stage", "publish"}
  THEN IF ok \/ before = "yes" THEN "yes" ELSE "no"
  ELSE IF ok THEN "no" ELSE Doubt(op, before)

OnVolume == {"stage", "unstage"}
OnTarget == {"publish", "unpublish"}

\* The handler of c answers.  Nobody is told when the call was given up.
Return(c, ok) ==
  LET k == call[c] IN
  /\ call' = [call EXCEPT ![c] = Idle]
  /\ staged' = IF k.waiting /\ k.op \in OnVolume
               THEN [staged EXCEPT ![k.vol] = Learn(k.op, ok, @)] ELSE staged
  /\ published' = IF k.waiting /\ k.op \in OnTarget
                  THEN [published EXCEPT ![<<k.vol, k.tgt>>] = Learn(k.op, ok, @)] ELSE published

Abandon(c) ==
  LET k == call[c] IN
  /\ Can("clientTimeout")
  /\ k.waiting
  /\ call' = [call EXCEPT ![c].waiting = FALSE]
  /\ staged' = IF k.op \in OnVolume
               THEN [staged EXCEPT ![k.vol] = Doubt(k.op, @)] ELSE staged
  /\ published' = IF k.op \in OnTarget
                  THEN [published EXCEPT ![<<k.vol, k.tgt>>] = Doubt(k.op, @)] ELSE published
  /\ UNCHANGED <<hostVars, VolMap, alive>>

At(c, pc) == call[c].pc = pc
Goto(c, pc) == call' = [call EXCEPT ![c].pc = pc] /\ UNCHANGED kubeletVars

\* A step that leaves the host and the plugin's map alone.
Quiet == UNCHANGED <<hostVars, VolMap, alive>>

(***************************************************************************)
(* NodeStageVolume.                                                        *)
(***************************************************************************)

\* Every entry has a UblkPath, a seeded one too: the volume counts as staged.
AlreadyStaged(v) == VolMap[v] # "absent"

StageCheck(c) ==
  /\ At(c, "stageCheck")
  /\ IF AlreadyStaged(call[c].vol)
     THEN Return(c, TRUE)
     ELSE Goto(c, "startUnit")
  /\ Quiet

\* CreateUblkDevice, first half: startUblkUnit.
StartOk(c) ==
  /\ At(c, "startUnit")
  /\ StartUnit(call[c].vol)
  /\ Goto(c, "waitLink")
  /\ UNCHANGED <<dev, fs, mounts, targetPath, VolMap, alive>>

StartRefusedOrFailed(c) ==
  /\ At(c, "startUnit")
  /\ StartRefused(call[c].vol) \/ Can("start")
  /\ Return(c, FALSE)
  /\ Quiet

\* The job's result, its timeout or the missing MainPID turn a start that took
\* place into an error; the unit stays.
StartReportedFailed(c) ==
  /\ At(c, "startUnit")
  /\ Can("startJob")
  /\ StartUnit(call[c].vol)
  /\ Return(c, FALSE)
  /\ UNCHANGED <<dev, fs, mounts, targetPath, VolMap, alive>>

\* CreateUblkDevice, second half: waitForByUUIDLink.
LinkSeen(c) ==
  /\ At(c, "waitLink")
  /\ Link(call[c].vol) # {}
  /\ Goto(c, IF call[c].vol \in BlockVol THEN "insert" ELSE "validate")
  /\ Quiet

\* Thirty seconds without a link: a slow daemon, or one that cannot come up.
LinkTimeout(c) ==
  /\ At(c, "waitLink")
  /\ Link(call[c].vol) = {}
  /\ Can("linkTimeout") \/ unit[call[c].vol] # "running" \/ FreeIds = {}
  /\ Goto(c, "stopAfterWait")
  /\ Quiet

\* Mutant: the unit is left running when its device does not show up.
LeavesUnit(c) == At(c, "stopAfterWait") /\ Return(c, FALSE) /\ Quiet

StopAfterWait(c) ==
  /\ At(c, "stopAfterWait")
  /\ Return(c, FALSE)
  /\ \/ StopUnit(call[c].vol)
     \/ Can("stop") /\ UNCHANGED <<unit, dev, mounts>>
  /\ UNCHANGED <<fs, targetPath, VolMap, alive>>

(***************************************************************************)
(* FormatAndMountDevice.  I/O to a quiesced device waits for its daemon;   *)
(* a failure anywhere leads to DeleteUblkDevice.                           *)
(***************************************************************************)
SupportedFs == {"ext4", "ext3", "xfs"}

\* getExistingFilesystemType: blkid's failure is an error when it says "No such
\* device"; any other, also on a missing device node, reads as a blank device.
NotFound == "No such device"
BlkidFailure == {"", NotFound}

Blkid(v) ==
  (IF Live(v) THEN {fs[v]} ELSE BlkidFailure) \cup (IF Can("blkid") THEN BlkidFailure ELSE {})

\* The staging directory is made first.
Validate(c) ==
  LET k == call[c] IN
  /\ At(c, "validate")
  /\ \/ /\ ~Quiesced(k.vol)
        /\ \E existing \in Blkid(k.vol) :
             Goto(c, IF k.fs \in SupportedFs /\ existing \in SupportedFs \cup {""}
                     THEN "probe" ELSE "resolve")
     \/ Can("statStaging") /\ Goto(c, "resolve")
  /\ Quiet

\* Mutant: anything but the requested file system is formatted over.
FormatsMismatch(existing, requested) == existing # requested

NeedsFormatting(existing, requested) == existing = ""

\* Mutant: what blkid prints is taken for a file system also when it fails.
ErrorIsType(c) ==
  /\ At(c, "probe")
  /\ ~Quiesced(call[c].vol)
  /\ \E existing \in Blkid(call[c].vol) :
       call' = [call EXCEPT ![c] = IF NeedsFormatting(existing, @.fs)
                                   THEN [@ EXCEPT !.pc = "mkfs"]
                                   ELSE [@ EXCEPT !.pc = "mountCheck", !.fs = existing]]
  /\ UNCHANGED kubeletVars
  /\ Quiet

\* The second probe decides: a blank device is formatted with the requested
\* file system, an existing one is kept and is what will be mounted.
Probe(c) ==
  LET k == call[c] IN
  /\ At(c, "probe")
  /\ ~Quiesced(k.vol)
  /\ \E existing \in Blkid(k.vol) :
       IF existing = NotFound
       THEN Goto(c, "resolve")
       ELSE /\ call' = [call EXCEPT ![c] =
                          IF NeedsFormatting(existing, k.fs)
                          THEN [@ EXCEPT !.pc = "mkfs"]
                          ELSE [@ EXCEPT !.pc = "mountCheck", !.fs = existing]]
            /\ UNCHANGED kubeletVars
  /\ Quiet

\* Mutant: a failed mkfs fails the stage without DeleteUblkDevice.
FailsWithoutCleanup(c) ==
  LET v == call[c].vol IN
  /\ At(c, "mkfs")
  /\ ~Quiesced(v)
  /\ ~Live(v) \/ LiveAt(staging[v]) \/ Can("mkfs")
  /\ Return(c, FALSE)
  /\ Quiet

\* mkfs without double force refuses a mounted device.
MkfsOk(c) ==
  LET k == call[c] IN
  /\ At(c, "mkfs")
  /\ Live(k.vol)
  /\ ~LiveAt(staging[k.vol])
  /\ fs' = [fs EXCEPT ![k.vol] = k.fs]
  /\ Goto(c, "mountCheck")
  /\ UNCHANGED <<unit, dev, mounts, targetPath, VolMap, alive>>

MkfsFails(c) ==
  LET v == call[c].vol IN
  /\ At(c, "mkfs")
  /\ ~Quiesced(v)
  /\ ~Live(v) \/ LiveAt(staging[v]) \/ Can("mkfs")
  /\ Goto(c, "resolve")
  /\ Quiet

\* Mutant: IsMountPoint is not asked before the mount.
MountsAlways(c) == At(c, "mountCheck") /\ Goto(c, "stageMount") /\ Quiet

MountCheck(c) ==
  /\ At(c, "mountCheck")
  /\ \/ Goto(c, IF MountedAt(staging[call[c].vol]) THEN "insert" ELSE "stageMount")
     \/ Can("statStaging") /\ Goto(c, "resolve")
  /\ Quiet

StageMountOk(c) ==
  LET k == call[c] IN
  /\ At(c, "stageMount")
  /\ Live(k.vol)
  /\ fs[k.vol] = k.fs
  /\ ~LiveAt(staging[k.vol])
  /\ staging' = [staging EXCEPT ![k.vol] = <<"live">> \o @]
  /\ Goto(c, "insert")
  /\ UNCHANGED <<unit, dev, fs, target, targetPath, VolMap, alive>>

StageMountFails(c) ==
  LET k == call[c] IN
  /\ At(c, "stageMount")
  /\ ~Quiesced(k.vol)
  /\ ~Live(k.vol) \/ fs[k.vol] # k.fs \/ LiveAt(staging[k.vol]) \/ Can("mount")
  /\ Goto(c, "resolve")
  /\ Quiet

Insert(c) ==
  LET v == call[c].vol IN
  /\ At(c, "insert")
  /\ VolMap' = [VolMap EXCEPT ![v] = Mode(v)]
  /\ Return(c, TRUE)
  /\ UNCHANGED <<hostVars, alive>>

(***************************************************************************)
(* DeleteUblkDevice, for a failed stage and for unstage.  The id is read   *)
(* before the unit is stopped and used after.  Both callers ignore an      *)
(* error, which skips the steps that are left.                             *)
(***************************************************************************)

\* Where the caller goes on: stage fails, unstage cleans up.
AfterDelete(c) ==
  IF call[c].op = "stage" THEN Return(c, FALSE)
  ELSE /\ call' = [call EXCEPT ![c] = [@ EXCEPT !.pc = "cleanupStaging", !.dev = NoDev]]
       /\ UNCHANGED kubeletVars

Resolve(c) ==
  LET v == call[c].vol IN
  /\ At(c, "resolve")
  /\ IF Link(v) = {}
     THEN AfterDelete(c)
     ELSE /\ \E d \in Link(v) :
               call' = [call EXCEPT ![c] = [@ EXCEPT !.pc = "stopUnit", !.dev = d]]
          /\ UNCHANGED kubeletVars
  /\ Quiet

StopUblkUnit(c) ==
  /\ At(c, "stopUnit")
  /\ StopUnit(call[c].vol)
  /\ Goto(c, "ublkDel")
  /\ UNCHANGED <<fs, targetPath, VolMap, alive>>

\* An error from systemd, or a stop job that outlives the 30 seconds.
StopFails(c) ==
  /\ At(c, "stopUnit")
  /\ Can("stop")
  /\ StopUnit(call[c].vol) \/ UNCHANGED <<unit, dev, mounts>>
  /\ AfterDelete(c)
  /\ UNCHANGED <<fs, targetPath, VolMap, alive>>

\* Mutant: `ublk del` may be run again with the same id.
DeletesAgain(c) ==
  /\ At(c, "ublkDel")
  /\ UblkDel(call[c].dev)
  /\ AfterDelete(c) \/ UNCHANGED <<call, kubeletVars>>
  /\ UNCHANGED <<fs, targetPath, VolMap, alive>>

DeleteDevice(c) ==
  /\ At(c, "ublkDel")
  /\ UblkDel(call[c].dev)
  /\ AfterDelete(c)
  /\ UNCHANGED <<fs, targetPath, VolMap, alive>>

DeleteDeviceFails(c) ==
  /\ At(c, "ublkDel")
  /\ Can("del")
  /\ AfterDelete(c)
  /\ Quiet

(***************************************************************************)
(* NodeUnstageVolume.                                                      *)
(***************************************************************************)
Unmount(stack) == IF MountedAt(stack) THEN Tail(stack) ELSE stack

\* Unmounting a file system writes to its device, and waits while that is
\* quiesced.
UnmountHangs(v) == LiveAt(staging[v]) /\ Quiesced(v)

\* Mutant: the device is deleted first, CleanupMountPoint unmounts later.
DeletesFirst(c) ==
  /\ At(c, "unstageCheck")
  /\ IF VolMap[call[c].vol] = "absent" THEN Return(c, TRUE) ELSE Goto(c, "resolve")
  /\ Quiet

UnstageCheck(c) ==
  /\ At(c, "unstageCheck")
  /\ IF VolMap[call[c].vol] = "absent"
     THEN Return(c, TRUE)
     ELSE Goto(c, "unmountStaging")
  /\ Quiet

UnmountStaging(c) ==
  /\ At(c, "unmountStaging")
  /\ ~UnmountHangs(call[c].vol)
  /\ staging' = [staging EXCEPT ![call[c].vol] = Unmount(@)]
  /\ Goto(c, "resolve")
  /\ UNCHANGED <<unit, dev, fs, target, targetPath, VolMap, alive>>

\* Mutant: a busy staging path is unmounted again and again.
RetriesUnmount(c) ==
  /\ At(c, "unmountStaging")
  /\ Can("umount")
  /\ MountedAt(staging[call[c].vol])
  /\ Goto(c, "unstageCheck")
  /\ Quiet

\* The umount fails, or the look at the path before it.
UnmountStagingFails(c) ==
  /\ At(c, "unmountStaging")
  /\ (Can("umount") /\ MountedAt(staging[call[c].vol])) \/ Can("statStaging")
  /\ Return(c, FALSE)
  /\ Quiet

\* CleanupMountPoint unmounts what is still there; its error is ignored.
CleanupStaging(c) ==
  LET v == call[c].vol IN
  /\ At(c, "cleanupStaging")
  /\ \/ ~UnmountHangs(v) /\ staging' = [staging EXCEPT ![v] = Unmount(@)]
     \/ (Can("umount") \/ Can("statStaging")) /\ UNCHANGED staging
  /\ Goto(c, "delete")
  /\ UNCHANGED <<unit, dev, fs, target, targetPath, VolMap, alive>>

\* Mutant: the map entry is not removed.
KeepsEntry(c) ==
  /\ At(c, "delete")
  /\ Return(c, TRUE)
  /\ Quiet

DeleteEntry(c) ==
  /\ At(c, "delete")
  /\ VolMap' = [VolMap EXCEPT ![call[c].vol] = "absent"]
  /\ Return(c, TRUE)
  /\ UNCHANGED <<hostVars, alive>>

(***************************************************************************)
(* NodePublishVolume.                                                      *)
(***************************************************************************)
PublishCheck(c) ==
  /\ At(c, "publishCheck")
  /\ IF VolMap[call[c].vol] = "absent"
     THEN Return(c, FALSE)
     ELSE Goto(c, "bindCheck")
  /\ Quiet

\* A file for a block volume, a directory for a mounted one.
PathKind(v) == IF v \in BlockVol THEN "file" ELSE "dir"

\* The target path is made and, when something is mounted there, that is taken
\* for this volume's mount.  Making the path or examining it may fail, also
\* where something is mounted.
BindCheck(c) ==
  LET k == call[c]
      p == <<k.vol, k.tgt>>
      made == [targetPath EXCEPT ![p] = IF @ = "absent" THEN PathKind(k.vol) ELSE @]
  IN
  /\ At(c, "bindCheck")
  /\ \/ /\ targetPath' = made
        /\ Goto(c, IF MountedAt(target[p]) THEN "recordTarget" ELSE "bind")
     \/ /\ Can("statTarget")
        /\ targetPath' \in {targetPath, made}
        /\ Return(c, FALSE)
  /\ UNCHANGED <<unit, dev, fs, mounts, VolMap, alive>>

\* Mutant: a block volume is bound from its staging path too.
BindsStagingAlways(v) == IF MountedAt(staging[v]) THEN {Head(staging[v])} ELSE {"bare"}

\* What a bind mount makes visible: the device node behind the by-uuid link, or
\* the top of the staging path, which may be an ordinary directory.
BindSource(v) ==
  IF v \in BlockVol
  THEN IF Link(v) = {} THEN {} ELSE {"live"}
  ELSE IF MountedAt(staging[v]) THEN {Head(staging[v])} ELSE {"bare"}

\* An unmounted staging path may or may not have been removed with the mount.
BindOk(c) ==
  LET k == call[c]
      p == <<k.vol, k.tgt>>
  IN
  /\ At(c, "bind")
  /\ targetPath[p] # "absent"
  /\ \E m \in BindSource(k.vol) : target' = [target EXCEPT ![p] = <<m>> \o @]
  /\ Goto(c, "recordTarget")
  /\ UNCHANGED <<unit, dev, fs, staging, targetPath, VolMap, alive>>

BindFails(c) ==
  LET k == call[c]
      p == <<k.vol, k.tgt>>
  IN
  /\ At(c, "bind")
  /\ \/ Can("bind")
     \/ BindSource(k.vol) \in {{}, {"bare"}}
     \/ targetPath[p] = "absent"
  /\ Return(c, FALSE)
  /\ Quiet

\* The entry's TargetPath is only ever written.  Until here a crash leaves a
\* mount at a path that the kubelet only may believe in.
RecordTarget(c) ==
  /\ At(c, "recordTarget")
  /\ Return(c, TRUE)
  /\ Quiet

(***************************************************************************)
(* NodeUnpublishVolume.                                                    *)
(***************************************************************************)
\* Mutant: a volume without an entry counts as unpublished.
UnpublishesKnownOnly(c) ==
  /\ At(c, "unpublishCheck")
  /\ IF VolMap[call[c].vol] = "absent"
     THEN Return(c, TRUE)
     ELSE call' = [call EXCEPT ![c] = [@ EXCEPT !.pc = "unmountTarget", !.known = TRUE]]
          /\ UNCHANGED kubeletVars
  /\ Quiet

UnpublishCheck(c) ==
  /\ At(c, "unpublishCheck")
  /\ call' = [call EXCEPT ![c] = [@ EXCEPT !.pc = "unmountTarget",
                                           !.known = (VolMap[call[c].vol] # "absent")]]
  /\ UNCHANGED kubeletVars
  /\ Quiet

UnmountTarget(c) ==
  LET k == call[c] IN
  /\ At(c, "unmountTarget")
  /\ target' = [target EXCEPT ![<<k.vol, k.tgt>>] = Unmount(@)]
  /\ IF k.known THEN Goto(c, "removeTarget") ELSE Return(c, TRUE)
  /\ UNCHANGED <<unit, dev, fs, staging, targetPath, VolMap, alive>>

\* Mutant: a failed unmount is only logged.
UnmountErrorIgnored(c) ==
  /\ At(c, "unmountTarget")
  /\ Can("umount")
  /\ MountedAt(target[<<call[c].vol, call[c].tgt>>])
  /\ Return(c, TRUE)
  /\ Quiet

UnmountTargetFails(c) ==
  LET p == <<call[c].vol, call[c].tgt>> IN
  /\ At(c, "unmountTarget")
  /\ (Can("umount") /\ MountedAt(target[p])) \/ Can("statTarget")
  /\ Return(c, FALSE)
  /\ Quiet

\* A directory is unmounted again by CleanupMountPoint, a file is not; neither
\* goes away while something is mounted on it, and no error is reported: the
\* answer is the same when the path cannot be examined or removed.
RemoveTarget(c) ==
  LET k == call[c]
      p == <<k.vol, k.tgt>>
  IN
  /\ At(c, "removeTarget")
  /\ \/ target' = [target EXCEPT ![p] = IF targetPath[p] = "dir" THEN Unmount(@) ELSE @]
     \/ (Can("umount") \/ Can("statTarget")) /\ UNCHANGED target
  /\ \/ targetPath' = [targetPath EXCEPT ![p] = IF MountedAt(target'[p]) THEN @ ELSE "absent"]
     \/ (Can("statTarget") \/ Can("removeTarget")) /\ UNCHANGED targetPath
  /\ Return(c, TRUE)
  /\ UNCHANGED <<unit, dev, fs, staging, VolMap, alive>>

(***************************************************************************)
(* The plugin process.  Its invocations and its map die with it, the host  *)
(* state stays.  Before it serves again, UpdateNodeVolumeMap makes an      *)
(* entry for every volume whose link resolves; when the control plane      *)
(* cannot be listed it starts with an empty map (cmd/node/main.go only     *)
(* logs that).                                                             *)
(***************************************************************************)
\* The kubelet is waiting for this operation on v, or on v at t.
Unanswered(op, v) == \E c \in Call : call[c].waiting /\ call[c].op = op /\ call[c].vol = v
UnansweredAt(op, v, t) ==
  \E c \in Call : call[c].waiting /\ call[c].op = op /\ call[c].vol = v /\ call[c].tgt = t

\* Mutant: the daemons are children of the plugin's container.
DaemonsDie ==
  /\ unit' = [v \in Volume |-> "none"]
  /\ dev' = [d \in DevId |-> IF dev[d] = FreeDev THEN FreeDev
                                ELSE [dev[d] EXCEPT !.state = "dead"]]
  /\ staging' = [v \in Volume |-> Stale(staging[v])]
  /\ target' = [p \in Volume \X Target |-> Stale(target[p])]
  /\ UNCHANGED <<fs, targetPath>>

\* They are systemd units of the host, so nothing of the host's state goes.
DaemonsSurvive == UNCHANGED hostVars

PluginCrash ==
  /\ Can("pluginCrash")
  /\ alive
  /\ alive' = FALSE
  /\ VolMap' = [v \in Volume |-> "absent"]
  /\ call' = [c \in Call |-> Idle]
  /\ staged' = [v \in Volume |->
       CASE Unanswered("stage", v) -> Doubt("stage", staged[v])
         [] Unanswered("unstage", v) -> Doubt("unstage", staged[v])
         [] OTHER -> staged[v]]
  /\ published' = [p \in Volume \X Target |->
       CASE UnansweredAt("publish", p[1], p[2]) -> Doubt("publish", published[p])
         [] UnansweredAt("unpublish", p[1], p[2]) -> Doubt("unpublish", published[p])
         [] OTHER -> published[p]]
  /\ DaemonsSurvive

\* Mutant: every volume the control plane lists gets an entry.
SeedsEverything(v) == "seeded"

SeededEntry(v) == IF Link(v) # {} THEN "seeded" ELSE "absent"

UpdateNodeVolumeMap ==
  /\ ~alive
  /\ alive' = TRUE
  /\ \/ VolMap' = [v \in Volume |-> SeededEntry(v)]
     \/ Can("listVolumes") /\ UNCHANGED VolMap
  /\ UNCHANGED <<hostVars, call, kubeletVars>>

-----------------------------------------------------------------------------
Kubelet(c) ==
  \/ \E v \in Volume : CallStage(c, v) \/ CallUnstage(c, v)
  \/ \E v \in Volume, t \in Target : CallPublish(c, v, t) \/ CallUnpublish(c, v, t)
  \/ Abandon(c)

NodeStageVolume(c) ==
  \/ StageCheck(c) \/ StartOk(c) \/ StartRefusedOrFailed(c) \/ StartReportedFailed(c)
  \/ LinkSeen(c) \/ LinkTimeout(c) \/ StopAfterWait(c)
  \/ Validate(c) \/ Probe(c) \/ MkfsOk(c) \/ MkfsFails(c)
  \/ MountCheck(c) \/ StageMountOk(c) \/ StageMountFails(c) \/ Insert(c)

DeleteUblkDevice(c) ==
  Resolve(c) \/ StopUblkUnit(c) \/ StopFails(c) \/ DeleteDevice(c) \/ DeleteDeviceFails(c)

NodeUnstageVolume(c) ==
  \/ UnstageCheck(c) \/ UnmountStaging(c) \/ UnmountStagingFails(c)
  \/ CleanupStaging(c) \/ DeleteEntry(c)

NodePublishVolume(c) ==
  PublishCheck(c) \/ BindCheck(c) \/ BindOk(c) \/ BindFails(c) \/ RecordTarget(c)

NodeUnpublishVolume(c) ==
  UnpublishCheck(c) \/ UnmountTarget(c) \/ UnmountTargetFails(c) \/ RemoveTarget(c)

Handler(c) ==
  NodeStageVolume(c) \/ DeleteUblkDevice(c) \/ NodeUnstageVolume(c)
  \/ NodePublishVolume(c) \/ NodeUnpublishVolume(c)

Host == HostNext /\ UNCHANGED <<pluginVars, kubeletVars>>

Next ==
  \/ \E c \in Call : Kubelet(c) \/ Handler(c)
  \/ Host
  \/ PluginCrash
  \/ UpdateNodeVolumeMap

Spec == Init /\ [][Next]_vars

-----------------------------------------------------------------------------
(***************************************************************************)
(* The abstract view: StagedVolume says what the kubelet is promised about *)
(* each volume, and this is what it sees of the state here.                *)
(***************************************************************************)

\* What StagedVolume calls the state of v: nothing of it is left on the host, or
\* all that makes it usable is there.  A plugin that is down has no map.
Untouched(v) ==
  /\ unit[v] = "none"
  /\ DevsOf(v, {"live", "quiesced", "dead"}) = {}
  /\ staging[v] = <<>>
  /\ VolMap[v] = "absent"

Usable(v) ==
  /\ alive => VolMap[v] # "absent"
  /\ unit[v] = "running"
  /\ Live(v)
  /\ v \in BlockVol \/ LiveAt(staging[v])

StateOf(v) == IF Untouched(v) THEN "clean" ELSE IF Usable(v) THEN "usable" ELSE "partial"

RequestOn(v) ==
  CASE Unanswered("stage", v) -> "stage" [] Unanswered("unstage", v) -> "unstage" [] OTHER -> "none"

Staged == INSTANCE StagedVolume WITH
  told <- staged,
  request <- [v \in Volume |-> RequestOn(v)],
  state <- [v \in Volume |-> StateOf(v)]

-----------------------------------------------------------------------------
(***************************************************************************)
(* Properties.  A run admits the faults under which a property is meant to *)
(* hold; README.md says which and why.  Liveness is NodePlugin's.          *)
(***************************************************************************)

\* No invocation is in flight for v, answered or given up.
Settled(v) == \A c \in Call : call[c].vol # v

\* A volume the kubelet was told is staged has its map entry, a running unit, a
\* live device and, unless it is a block volume, a live mount at its staging
\* path: what NodePublishVolume and the pod behind it rely on.
StagedIsBacked ==
  \A v \in Volume : alive /\ staged[v] = "yes" /\ Settled(v) => Usable(v)

\* What a pod sees at a published target path is the volume, neither a mount
\* whose device has gone nor an ordinary directory of the node.
PublishedIsLive ==
  \A v \in Volume, t \in Target : published[<<v, t>>] = "yes" /\ Settled(v) =>
    LiveAt(target[<<v, t>>])

\* The kubelet is never left with a volume it holds as not staged (so that it
\* will not unstage it) while a niova-ublk unit of that volume is loaded.
UnstagedHasNoDaemon ==
  \A v \in Volume : staged[v] = "no" /\ Settled(v) => unit[v] = "none"

\* Unstaging, and staging that fails, give everything back: unit, ublk id in
\* any state, staging mount and map entry.
UnstagedIsClean == \A v \in Volume : staged[v] = "no" /\ Settled(v) => Untouched(v)

\* Where the kubelet holds nothing as published nothing is mounted: also when the
\* bind of the publish failed (which leaves the path).
UnpublishedIsUnmounted ==
  \A v \in Volume, t \in Target : published[<<v, t>>] = "no" /\ Settled(v) => target[<<v, t>>] = <<>>

\* A path that was published, or was to be unpublished, is told to be unpublished
\* with nothing mounted there: also when the plugin had no map entry any more and
\* unmounted without knowing the volume.
UnpublishUnmounts ==
  [][\A v \in Volume, t \in Target :
       published[<<v, t>>] \in {"yes", "leaving"} /\ published'[<<v, t>>] = "no" =>
         target'[<<v, t>>] = <<>>]_vars

\* Seen from the kubelet, each volume goes the way StagedVolume describes: only
\* its own unanswered stage or unstage moves it, never a publish, a neighbour
\* or a graceful restart; a stage answers "done" with the volume usable and
\* "failed" with nothing left of it, and an unstage "done" with nothing left.
KeepsStagePromise == Staged!Spec

\* The id that DeleteUblkDevice read from the link before it stopped the unit,
\* and will pass to `ublk del`, has not become another volume's device.
HeldIsOwn ==
  \A c \in Call : call[c].dev # NoDev => dev[call[c].dev].vol \in {call[c].vol, NoVol}

\* mkfs never runs on a volume that carries a file system.
FormatOnlyBlank ==
  \A c \in Call : At(c, "mkfs") /\ Live(call[c].vol) => fs[call[c].vol] = ""

\* Two invocations never prepare (start, probe, format, mount) one volume at
\* the same time, although NodeStageVolume holds no lock while it does: the
\* systemd unit name is what excludes the second one.
Preparing == {"waitLink", "stopAfterWait", "validate", "probe", "mkfs", "mountCheck", "stageMount"}

OneFormatter ==
  \A c, o \in Call :
    c # o /\ call[c].pc \in Preparing /\ call[o].pc \in Preparing => call[c].vol # call[o].vol

\* Daemon crashes, kills and clean-ups that fail leave a mount at a staging path
\* without a map entry; the next stage finds it and mounts nothing over it, so
\* that unmounting the path once, as NodeUnstageVolume does before it deletes the
\* device, is enough.  While the kubelet gives no call up: nothing but that keeps
\* another stage out between FormatAndMountDevice's check and its mount.
StagingMountedOnce == \A v \in Volume : Len(staging[v]) <= 1

\* Some path showed v live, and what is mounted there now has lost its device.
LosesMount(v) ==
  \/ LiveAt(staging[v]) /\ MountedAt(staging'[v]) /\ ~LiveAt(staging'[v])
  \/ \E t \in Target :
       LiveAt(target[<<v, t>>]) /\ MountedAt(target'[<<v, t>>]) /\ ~LiveAt(target'[<<v, t>>])

\* Only the host, by a daemon's crash, takes the device from under a mount; no
\* step of a handler does, for its own volume or for another.
HandlersKeepMounts == [][\A v \in Volume : LosesMount(v) => call' = call]_vars
=============================================================================
