# A TLA+ model of the niova block CSI driver

This directory holds TLA+ modules that model the niova block CSI plugin, TLC
configurations that check them on small instances, and proofs that TLAPS checks
for every value of their constants. All paths below are relative to the
repository root, which is `src/` in `PROJECT.json`.

- [The system](#the-system)
- [The modules](#the-modules)
- [How the models correspond to the code](#how-the-models-correspond-to-the-code)
- [The runs](#the-runs)
- [Fairness](#fairness)
- [The proofs](#the-proofs)
- [Observations](#observations)
- [What is not modelled](#what-is-not-modelled)
- [Plan](#plan)

## The system

The plugin makes vdevs of a niova cluster available to pods. It consists of a
controller program (`cmd/controller`), one per cluster, and a node program
(`cmd/node`), one per worker node. Both serve CSI requests over gRPC, each
request in a goroutine of its own; both log in to the control plane before they
serve, and none of them keeps anything on disk.

| Component | State | Operations | What makes it hard | What makes it correct |
|---|---|---|---|---|
| Node service, `pkg/node/node.go` | `VolMap`: the volumes with an entry | `NodeStageVolume`, `NodeUnstageVolume`, `NodePublishVolume`, `NodeUnpublishVolume` | `VolMap`'s mutex covers single accesses, never a handler: retries of a request that the kubelet gave up run beside it; every host operation can fail in the middle; the map dies with the plugin | what the kubelet holds as staged or published works; what it holds as gone has given everything back; two invocations never prepare one volume |
| ublk and systemd layer, `pkg/node/ublk.go`, `systemd.go` | on the host: a transient unit `niova-ublk-<v>.service`, ublk device numbers, by-uuid links | `CreateUblkDevice`, `DeleteUblkDevice`, `startUblkUnit`, `stopUblkUnit` | a device number is read, then the unit is stopped, then the number is used; daemons crash and respawn by themselves; a start may be reported as failed although it took place | the number that is deleted is the volume's own; nothing outlives an unstage |
| Mount manager, `pkg/node/mount.go` | on the host: mounts and file systems | `FormatAndMountDevice`, `BindMount`, `BindRawBlock`, `Unmount`, `CleanupMountPoint` | probe, then format, then mount; a failed probe looks like a blank device; a check of the mount point precedes the mount | mkfs meets blank devices only; a staging path carries one mount; no handler takes the device from under a mount |
| Node map seeding, `pkg/config/config.go` `UpdateNodeVolumeMap`, `cmd/node/main.go` | `VolMap` after a start | once per start of the plugin | the links are all that is left of what was staged; the control plane may not answer | what was staged stays usable |
| Control plane session, `pkg/config/config.go` `RetryAuth`, `UserLogin` | the access token of the client, shared by all callers | every request to the control plane | callers find the token expired together, log in together and install their tokens in any order | a request takes effect at most once and its answer is honest; logins do not multiply; the client ends up with a valid token |
| Controller service, `pkg/controller/controller.go` | `ConfigManager.Mutex`; the vdevs are the control plane's | `CreateVolume`, `DeleteVolume`, `ControllerPublishVolume`, `ControllerUnpublishVolume`, `ValidateVolumeCapabilities` | answers are lost, the controller dies between two requests, a call that was given up runs beside its repetition | one vdev per claim; a bound claim has its vdev; a deleted one leaves none |
| Driver server, `pkg/driver/driver.go` and the two `main.go` | where `main` and `Run` are, a signal that came in, the socket file | start, signal, graceful stop | a signal comes at any point of the start; a dead process leaves its socket file; a stop waits for requests in flight | comes back after every end; ends when told; a stop leaves no volume half way; no request before the map is seeded |
| Shared types, `pkg/types` | none | the by-uuid path | | |
| Deployment, `deploy/`, images, test client | none | | | the environment the models assume |

The kubelet calls the node service, the external provisioner the controller
service. The two services share nothing but the control plane and the volume
context that `CreateVolume` answers and `NodeStageVolume` reads. Every request to
the control plane goes through `RetryAuth`. The node service calls the ublk layer
and the mount manager, which act on the host: systemd, the kernel's ublk driver,
udev, mount tables and the niova-ublk daemons.

The hazards, each at its line and with the properties that are about it, are
listed in `PROJECT.json`.

## The modules

| Module | What it is |
|---|---|
| `NodeHost` | The host of a node: units, devices, links, file systems, mounts. The operators that the node service's actions are made of, and what systemd, the kernel and the daemons do by themselves. |
| `NodeServer` | EXTENDS `NodeHost`: the four handlers of the node service, one action per host operation, `VolMap`, the plugin's death and restart, and the kubelet. Its properties. |
| `StagedVolume` | What the node service promises the kubelet about its volumes: the abstract specification, seven definitions long. |
| `DriverServer` | A plugin program from its start to its end: `main` and `CSIDriver.Run`, signals, the socket file. |
| `NodePlugin` | The node program: EXTENDS `NodeServer` and takes `DriverServer` as an instance. Each of its steps is a step of one of them or of both. It states the fairness of the node side. |
| `MCNodeServer`, `MCNodePlugin` | Small instances for TLC, with symmetry. |
| `NodeServerProofs`, `NodeStartupProofs` | About `NodeServer`: types and `HeldIsOwn`; `OneFormatter` and `FormatOnlyBlank`. |
| `NodeStageProofs`, `NodePromiseProofs` | About `NodePlugin`: it implements `NodeServer`; it implements `StagedVolume`; what the kubelet was told of volumes holds. |
| `NodeMountProofs` | About the mounts of both: what they are at staging and target paths, whatever fails, and what the kubelet was told of target paths. |
| `NodeCrashProofs` | What holds of volumes whose daemons crash, and of a plugin that is killed anywhere. |
| `RemoteCall` | What a request to the control plane promises its caller: the abstract specification. |
| `RetryAuth` | `RetryAuth`, `VerifyTokenExpiryAndReLogin`, `UserLogin` and the shared token. It implements `RemoteCall`. |
| `MCRetryAuth`, `RetryAuthProofs` | Its instance for TLC; `TypeOK`, the refinement, `ExhaustedByExpiry` and `LoginsAreBounded`, proved. |
| `ControllerServer` | The controller service over the control plane's vdevs; a request to the control plane is one step, with the outcomes that `RemoteCall` allows. |
| `MCControllerServer`, `ControllerServerProofs` | Its instance for TLC; `TypeOK`, `OneVdevPerClaim`, `BoundIsBacked`, `GoneIsDeleted` and `RemoveFindsVdev`, proved. |

`NodePlugin` composes the node service with the process that serves it: the kubelet's
requests need `phase = "serve"`, the seeding is a step of both, a graceful stop
ends when `NoneInFlight`, and every end of the process is a `PluginCrash` of
`NodeServer`, which thereby gets the four ways in which the code lets it happen.

`RemoteCall` is the joint between the last two components: `ControllerServer` has
for each request the outcomes "took effect and ok", "took effect and error" and
"did not take effect and error", which are `RemoteCall`'s, and `RetryAuth` is shown
to have no others.

Definitions whose comment starts with "Mutant:" are not part of the model. Each
is a plausible mistake in the code that the definition after it stands for;
`PROJECT.json` says which property notices it.

## How the models correspond to the code

### Node service and host

A handler invocation is a record `call[c]`: its place `pc` in the handler and the
locals that are still read. An action runs from one host operation (a D-Bus call, a
command, a mount system call, a link look-up) to the next; map accesses under
`VolMap`'s mutex are steps of their own, because the mutex is not held over
anything else. A handler's answer is part of its last step, so that a crash comes before
both or after both; a stage and a publish end with a map access of their own, `Insert` and
`RecordTarget`, so the plugin may die between the mount and the answer.

| Model | Code |
|---|---|
| `VolMap[v]`: "absent", "seeded", "block", "mount" | `Node.VolMap` and the mode of the entry |
| `unit[v]` | the transient unit of v; "restarting" is systemd's `Restart=on-failure` |
| `dev[d]` | ublk device number d: free, or of a volume and live, quiesced (daemon gone, `UBLK_F_USER_RECOVERY`) or dead |
| `Link(v)` | `/dev/disk/by-uuid/<v>` resolves; it exists while v has a live or quiesced device |
| `fs[v]` | what blkid finds on v |
| `staging[v]`, `target[v, t]` | the stack of mounts on a path, top first: live, stale (its device has gone), or bare (a directory of the node) |
| `targetPath[v, t]` | what exists on disk at the target path |
| `staged`, `published` | what the kubelet believes: external |
| `StageCheck` .. `Insert` | `NodeStageVolume` with `CreateUblkDevice` and `FormatAndMountDevice` |
| `Resolve` .. `DeleteDevice` | `DeleteUblkDevice`, called by stage on failure and by unstage |
| `UnstageCheck` .. `DeleteEntry` | `NodeUnstageVolume` |
| `PublishCheck` .. `RecordTarget` | `NodePublishVolume`; the last one is the write of `TargetPath` and the answer |
| `UnpublishCheck` .. `RemoveTarget` | `NodeUnpublishVolume` |
| `PluginCrash`, `UpdateNodeVolumeMap` | the process dies; `cmd/node/main.go` seeds the map before it serves |

What is abstracted:

- Volume ids are UUIDs, so `UblkPath` of an entry is never empty and the branches
  for an empty one are dead; `uuid.Parse` does not fail.
- The kubelet sends complete requests: the `InvalidArgument` returns at the top of the
  handlers are left out.
- Fields that are written and never read (`StagingPath`, `TargetPath`, `UblkPid`, and
  `ReadOnly`, which only becomes a mount option) are left out; the steps that write them
  are not.
- The link appears and disappears with the device; the delay before udev has made
  it is the delay before `DaemonUp`.
- Device numbers become free by `ublk del` only, as the code assumes.
- Whether the staging directory exists is not tracked: a bind mount from a staging path
  without a mount may succeed or fail.
- The errors of `MkdirAll`, `OpenFile`, `os.Stat` and `IsMountPoint` on a path are one fault,
  "statStaging" at staging paths and "statTarget" at target paths: `FormatAndMountDevice` fails and
  the device is deleted, an unstage or unpublish fails before it unmounts, a publish fails before or
  after it made its target and before it looks for a mount. A failing `os.Remove` is
  "removeTarget"; the unpublish is answered with success all the same. That `Unmount` also takes
  `IsNotExist` for success is the case of a path without a mount.
- A blkid that fails says "No such device" or something else; only the former is an error to the code.
- A `ublk del` that fails after it deleted is `DeleteDevice`, since both callers ignore the error.
- `NodeGetVolumeStats`, `NodeGetInfo` and `NodeGetCapabilities` change nothing.
- The kubelet performs one operation per volume at a time. With the fault
  "clientTimeout" it gives calls up, and as the handlers ignore their context they
  run on beside the next one.

Each run admits a set of `Faults`. A fault is a failure or disturbance of the
environment that the code handles or meets; the set of a run is what its
properties are meant to hold under, and [Observations](#observations) says
what happens outside it.

### A program's life

| Model | Code |
|---|---|
| `phase` | "connect", "seed": `main` up to `signal.Notify`; "remove", "listen", "ready": `Run` before `os.Remove`, `net.Listen`, `Serve`; "serve", "drain": before and after `GracefulStop` |
| `signal` | a signal in `sigChan`, or `ctx` cancelled by the goroutine of `main` |
| `socket` | the endpoint's path: absent, the listener's, or left by a process that was killed |
| `Signal`, `Cancel` | `sigChan`, which holds one signal, and the goroutine that reads one |
| `StopEarly` | `GracefulStop` before `Serve`: `Serve` returns an error and `main` exits through `log.Fatalf` |
| `Exit` | `Serve` returns nil when the last request is answered; `main` returns |
| `seeded` | history: at the last start the map had an entry for each volume with a link |
| `forgotten` | history: the target paths with a mount left that an answer made the kubelet hold as not published |

The step from `phase = "down"` to "connect" is Kubernetes'. A signal before `Notify` ends the
process (`SignalKills`), which is the Go runtime's default. Both programs have the same
life but for the seeding; the controller's requests are those of `ControllerServer`, whose
crashes are this module's ends.

### Control plane session

`call[k].pc` is the place of caller k in `RetryAuth`; "setToken" is the gap in
`UserLogin` between the answer of the user service and `Cpclient.SetToken`, in which
other callers install theirs. Tokens are numbered in the order they were handed
out. `tries` is the loop counter. `met` records the tokens that this call was refused
with and `executed` how often its request took effect: both are history. `Usertoken` is
written and never read, so it is left out. That the token is a plain field of the
client, written without synchronisation, is a matter of the client library, which
is not in the repository: a read sees some token that was installed.

### Controller service

`call[c]` is an invocation, `writer` and `readers` the state of `ConfigManager.Mutex`.
`DeleteVolume` and the look-ups hold it for writing over their requests;
`AllocVdev` for reading over its one; `GetVolumeByName` does not take it. `claim[n]` is
what the provisioner wants and was told about claim n. "otherSize" lets it repeat
`CreateVolume` with another size, "clientTimeout" lets it give a call up.
`slipped` is history: the claims for which a look-up failed, or a create was given up
while it ran.

- The control plane does not refuse a second vdev of a name: the look-up in
  `controller.go:71-75` exists because it does not.
- `ControllerPublishVolume`, `ControllerUnpublishVolume` and
  `ValidateVolumeCapabilities` are one handler, `Inspect`: lock, look up, unlock.
- `ListVolumes`, `GetCapacity` and the capability handlers read only.
- Sizes are small numbers; 0 is "no required size", for which `CreateVolume` takes
  its default.

## The runs

| Run | Asks | Instance and faults |
|---|---|---|
| `node_serial` | Does everything the kubelet was told hold, is what it gave back gone, and does the node program implement `StagedVolume`? `StagedIsBacked`, `PublishedIsLive`, `UnstagedIsClean`, `KeepsStagePromise` | `NodePlugin`: a mounted and a block volume, two target paths each, two devices, two invocations; start, mkfs, mount, umount and the look at the staging path fail; a signal at any point, and the program starts again |
| `node_restart` | Does a plugin that ends in any way and seeds its map again keep what was staged, does what is published show its volume unless the kubelet has forgotten a mount there, and does an unpublish unmount without a map entry too? `SeededIsBacked`, `RememberedIsLive`, `UnpublishUnmounts` | `NodePlugin`: two block volumes; killed or stopped by a signal at any point, failing to log in, to remove its socket or to listen, any number of times; the control plane may not be listed; bind mounts and unmounts fail, and so do the look at a path, its making and its removal |
| `node_devices` | Can a deletion hit another volume's device, a staging path be mounted twice, a handler pull a device from under a mount? `HeldIsOwn`, `StagingMountedOnce`, `HandlersKeepMounts`, and `TypeOK` | a recoverable block and a mounted volume over two device numbers, stages and unstages; start (refused, or reported as failed), stop, deletion, blkid, mkfs, mount, umount and the look at the path fail, links come late, daemons crash until systemd gives them up, the plugin restarts with its map. Not "clientTimeout" and "listVolumes" |
| `node_startup_retry` | Do retries of a stage beside the one given up exclude each other, and does mkfs meet blank devices only? `OneFormatter`, `FormatOnlyBlank` | one mounted volume, three file systems; every failure of the start-up but blkid's and a crash of the daemon; timeouts, restarts with and without a map |
| `node_recovery` | Do recoverable volumes survive crashes of their daemons? `PublishedIsLive`, `UnstagedHasNoDaemon`, `FormatOnlyBlank` | two recoverable volumes; daemons crash any number of times; mkfs, mount, umount and bind mounts fail, and the look at a path, its making and its removal |
| `node_liveness` | Does every handler end, does every retried stage succeed some time, does the program come back after every end, and end when told, unless a handler waits for a daemon that systemd has given up? Is nothing left mounted where nothing is published? `CallsTerminate`, `EventuallyStaged`, `EventuallyServes`, `StopsWhenTold`, `UnpublishedIsUnmounted` | `NodePlugin`: one recoverable mounted volume, all operations; failures of start, mkfs, mount, bind, umount and at target paths, daemon crashes up to the start limit and beyond, signals, kills while nothing is in flight, failing starts |
| `retry_auth` | Is a request executed at most once, and do callers converge on a valid token? `KeepsPromise`, `ExhaustedByExpiry`, `LoginsAreBounded`, `Recovers`, `TypeOK` | two callers, two attempts, three expiries |
| `ctl_retry` | Do claims and vdevs stay in step over failures, crashes and repetitions? `OneVdevPerClaim`, `BoundIsBacked`, `GoneIsDeleted`, `RemoveFindsVdev`, `CallsEnd`, `ReleasedIsGone`, `TypeOK` | one claim, two vdevs, two invocations, four crashes or timeouts |
| `node_seeded_stage` | violated: `StagedIsBacked` | a mounted volume, the plugin dies |
| `node_daemon_crash_leak` | violated: `UnstagedHasNoDaemon` | a volume without recovery, its daemon crashes |
| `node_format_race` | violated: `FormatOnlyBlank` | a mounted volume without recovery, its daemon crashes |
| `ctl_lost_recovery` | violated: `RecoveryKept` | one claim whose class asks for recovery, answers are lost |

The last four show disagreements between the code and what its comments say:

- **Seeded stage.** The plugin dies after the device is up and before the mount.
  `UpdateNodeVolumeMap` makes an entry for the link, and the kubelet's retry of
  `NodeStageVolume` returns success at `node.go:107` with nothing mounted. The comment
  above says an entry that is "not actually staged locally" must not short-circuit.
- **Daemon crash leak.** The daemon crashes before an unstage; its link is gone, so
  `DeleteUblkDevice` returns at the resolution, the unstage succeeds, and the unit
  that respawns stays. The comment in `NodeUnstageVolume` says that the link is passed
  so that the unit is not leaked.
- **Format race.** The daemon crashes around the two probes; `blkid` fails for want of
  a device node, which reads as a blank device; the daemon is back before mkfs, and
  a volume with a file system is formatted. `mount.go:61` says that an existing one is
  used and its data preserved.
- **Lost recovery.** `CreateVolume` allocates and its answer is lost; the repetition finds
  the vdev and answers without the volume context, so the volume is staged without
  the recovery mode its class asks for.

### Bounds, and why they are enough

Two invocations are what it takes for a retry beside the one given up, and for
two volumes to be worked on at once; the kubelet allows one waited-for call per
volume. Two device numbers let two volumes compete for a number just freed, and
run out when one is leaked. `node_serial` has two target paths per volume, so that one is taken down while the other is shown;
the other runs have one, as no code relates two of them. `node_liveness` has one invocation:
with one volume and no timeouts the kubelet has one call at a time. File systems: one that is supported and requested, one that is
supported and not requested, one that is not supported. Nothing in `NodeServer` is
counted, so its state spaces are finite as they are. In `RetryAuth` two attempts are the
fewest that can run out with a retry in between, and three expiries allow each of
two callers to meet two expired tokens. In `ControllerServer` two vdevs are what a
duplicate takes; `MaxUpsets` lets crashes and timeouts cease, which liveness needs,
and four are enough for a crash and a timeout during both the creation and the deletion. The
model has no interaction between claims but the mutex and the ids; the proofs cover any
number. Runs of `NodeServer` without liveness use the symmetry of invocations, of
device numbers and of target paths: no definition tells two of them apart.

## Fairness

- Handlers are goroutines that run on: strong fairness for `Handler(c)`. Strong, because a
  handler may wait for I/O on a quiesced device or for a mutex, which is enabled
  again and again.
- A daemon that is started again and again comes up some time; systemd respawns a unit that
  waits for it, or gives it up (`Restart=on-failure`, `StartLimitBurst`), and unloads what it gave
  up (`CollectMode=inactive-or-failed`, `systemd.go:57-71`). Which of the two it does is not
  assumed, nor that it ever respawns the same unit again.
- No fairness ends the wait of a command on a quiesced device whose unit systemd has given up:
  blkid, mkfs, mount and umount get no context. `Stuck` names that handler, and the four
  properties of `node_liveness` excuse it and nothing else. Such a process may stop (the run does
  not check for deadlock): in practice Kubernetes kills one that does not end its drain.
- Kubernetes starts the program again and again (a DaemonSet's pods restart always), and a
  start that is tried again and again gets through: strong fairness for the login, the seeding,
  the removal of the socket, `net.Listen` and `Serve`, each of which may fail and be tried
  again by the next process. The goroutines of `main` and `Run` run on. Nothing makes a
  signal come, or keeps the program from being killed.
- `RetrySpec` (of `NodePlugin`) adds that the kubelet retries stages while the program serves,
  and that a host operation that is tried again and again succeeds some time; without it a device that never starts refutes
  `EventuallyStaged` for no fault of the code.
- `RetryAuth`: every call returns, and a refusal and a login get through some time.
  Nothing is assumed about which of two callers installs its token last.
- `ControllerServer`: `sync.RWMutex` lets everyone in who waits, requests to the control plane
  return, the provisioner repeats `DeleteVolume`, and a removal that is tried again and again
  succeeds.

## The proofs

All proofs are for any constants that satisfy the modules' ASSUMEs: any volumes,
paths, devices, callers, attempts, claims, vdevs and invocations. Those of the node
side name the faults that they admit:

- `Tolerated`: "start", "mkfs", "mount", "umount", "bind", "statStaging", "statTarget",
  "removeTarget" and restarts. These are the failures that the handlers clean up after, or that
  take nothing from the kubelet. Of the others, as the violation runs and
  the [observations](#observations) show, "startJob", "stop",
  "del", "linkTimeout" leave a unit or a device behind, "daemonCrash" takes the device
  from under a mount, "listVolumes" empties the map, "clientTimeout" lets two
  invocations work on one volume.
- `"kill" \notin Upsets`: the process ends between requests, by a signal and a graceful stop.
  A kill in the middle of a stage is what `node_seeded_stage` is about.
- `EnoughIds`: a device number for every volume. The limit of the kernel on ublk
  devices is not something the code handles.
- `Recovering`: every daemon that crashes can be recovered, and systemd stops a unit when it
  says so and has none when it says that a start failed; the plugin stays up and the kubelet
  gives no call up. A daemon of a volume without recovery that crashes is what
  `node_daemon_crash_leak` is about. All other failures are admitted, of blkid and of the
  deletion too, and any number of device numbers.
- `Killable`: the plugin may be killed at any step, start without its map and fail in every host
  operation, but all volumes are block volumes without recovery, no daemon crashes under a
  device that is there, and the kubelet gives no call up. Block volumes, because a plugin that is
  killed between device and mount comes back with an entry for a volume that is not mounted
  (`node_seeded_stage`); without recovery, because the link of a quiesced device makes an entry
  for a volume whose daemon was stopped.
- `NothingForgotten`: if the plugin may be killed, every start can list the volumes and target
  paths can be examined, so that the kubelet is not made to forget a mount.
- `OnlyStartup`: no volume with recovery, no unstage and no daemon crash, "blkid" or "earlyCrash"; timeouts, restarts
  and all other failures are admitted, "clientTimeout" above all. `node_format_race` is
  what happens with a daemon crash.

| Theorem | Argument |
|---|---|
| `NodeServerProofs!TypeCorrect` | `TypeOK` is inductive; one step per action. |
| `NodeServerProofs!HeldIsOwnHolds`: `Spec => []HeldIsOwn` when the kubelet gives no call up | `HeldIsOwn` alone is not inductive: that the number stays the volume's rests on nobody else working on the volume. `OneCallPerVolume` says that an invocation in flight is waited for and is its volume's only one; `HoldsOwnDevice`, that a number is held by an invocation of the volume that still owns it. Crashes, restarts and all failures are admitted. With timeouts the conclusion is false (see below), so the theorem assumes that "clientTimeout" is not among the faults. |
| `NodeStartupProofs!OneFormatterHolds`, `FormatOnlyBlankHolds` | `StartupInv`. An invocation that started the unit owns the volume until it has inserted its entry or has stopped the unit: `Owner`, while the unit is loaded. Its name is taken, so another invocation's start fails and it goes without touching anything (`Apart`). Not inductive without `CallOK`: the clean-up of a failed start holds the number of a device that is its volume's own, and dead before it is deleted, so that it takes no other owner's device; and the file system that the probe missed stays missing until the owner's mkfs, because nobody else formats and the device stays live. |
| `NodePromiseProofs!ImplementsNodeServer`: `PluginSpec => Spec` | Every end of the program is a `PluginCrash` or leaves `NodeServer` as it is, every other step is one of `NodeServer` or a stutter. Hence its types (`PluginTypeCorrect`) and `PluginHeldIsOwn`, from the theorems about `NodeServer`. |
| `NodePromiseProofs!StagedIsBackedHolds`, `UnstagedIsCleanHolds` | `StageInv` of `NodeStageProofs`: a volume nobody works on is at rest, `Clean` or `Full` as the kubelet was told; one that an invocation works on is in the state that belongs to the invocation's place, `WorkOK`, which says at each of them how far unit, device, mounts and entry have got. It needs that the invocation is the volume's only one (`OneCallPerVolume`), that a start finds a free number (`EnoughFree`, by counting: no other volume has two), that the plugin is alive and its map seeded when a request runs, and that a graceful stop waits for every request (`GracefulLife`). |
| `NodePromiseProofs!PluginKeepsStagePromise`: `PluginSpec => KeepsStagePromise` | The refinement: `told` is `staged`, `request` the operation of the volume's invocation, `state` is read from the host. By `StageInv` each handler step is a step of the abstract specification or a stutter for its volume, and none for the others. |
| `NodeMountProofs!StagingMountedOnceHolds`, `UnpublishUnmountsHolds` | `MountInv`, inductive for `Spec` when the kubelet gives no call up, whatever else goes wrong. Neither property is: that a mount is the first one at its path rests on the check before it, which finds what a crash, a kill or a failed clean-up left, and on nobody else being at work on the volume in between (`OneCallPerVolume`). `OnPathOK` says at each place of a handler what has been found out; `PathOK` what the kubelet's belief about a path rests on: a path is only published of a staged volume, so a stage that runs is of a volume with no published path, and a path that is held as published shows a mount, but between unmount and answer (`Removing`). |
| `NodeMountProofs!UnpublishedStaysUnmounted` | `Doubtless` above `MountInv`: a mount at a target path is one that the kubelet holds as published or wants gone, but between mount and answer (`Recording`). A kill in that gap is what makes it false, so the theorem assumes that the process is stopped between requests; host operations fail, daemons crash and maps are lost as they like. |
| `NodeMountProofs!PublishedStaysLive` | Under the assumptions of `StagedIsBackedHolds`. `LiveTargets`: what is mounted at a target path is live. A stage or unstage that takes a device away works on a volume that is published nowhere, so with `Doubtless` nothing is mounted that could lose its device; and what a publish binds is live by `StageInv`. |
| `NodeMountProofs!HandlersKeepMountsHolds`: `Spec => HandlersKeepMounts` | `KeepInv` above `MountInv`: a volume that some path shows live (`Shows`) has its link and, while the plugin is up, an entry, or its stage is about to make one; hence no stage gets past its check for it, and an unstage that stops and deletes has unmounted (`Keeping`). `HeldIsOwn` keeps a deletion off other volumes. Assumes that the kubelet gives no call up and `NothingForgotten`; daemon crashes and every other failure are admitted, kills too. The [observations](#observations) say what happens otherwise. |
| `NodeCrashProofs!UnstagedHasNoDaemonHolds`, `PublishedOutlivesDaemons` | `RecoverInv`, which replaces `StageInv` where daemons crash. A device is not live all the time, so what an invocation's place tells (`Labours`), and what the kubelet was told (`Rests`), is that the link is there, live or quiesced: by `DaemonOK` a device outlives its daemon only when it can be recovered, and with the link the deletion finds the unit that it has to stop. |
| `NodeCrashProofs!FormatOnlyBlankOverCrashes` | `FormatsBlank`: what the second probe found blank stays blank until the mkfs. A probe reads the device, as the link is there and a quiesced device makes it wait; a daemon that comes back brings the file system that the volume had; and nobody else works on it. Assumes besides that blkid does not fail on a device that is there. |
| `NodeCrashProofs!SeededIsBackedHolds` | `KillInv`. What is staged or has an entry has its live device (`Stands`), but while an unstage has stopped the unit (`Ending`); and after a start with the map it has an entry. Without a map a stage may be asked of a volume that is staged and runs: its unit's name is taken, so it fails and leaves the device alone (`OnWay`). |
| `NodeCrashProofs!RememberedIsLiveHolds` | `RememberInv`: at a path that is not `forgotten`, what is mounted is live (`Shown`) and the kubelet knows or suspects it (`Noticed`), but between mount and answer. A kill turns knowledge into suspicion, never into ignorance; only an answer makes the kubelet forget, and an unmount is what ends it. While a path of a volume is not known to be empty the kubelet does not unstage it, so a mount that is not forgotten keeps its device. |
| `RetryAuthProofs!TypeCorrect` | `TypeOK` is inductive. |
| `RetryAuthProofs!PromiseIsKept`: `Spec => KeepsPromise` | The refinement of `RemoteCall`. The invariant says that a request on its way to be sent (again) has not taken effect, and that "ok" is only met when it took effect once; every step of `RetryAuth` is then a step of `RemoteCall` or a stutter. |
| `RetryAuthProofs!ExhaustedByExpiryHolds` | `HeldIsNew`: a token that a login returned and nobody has installed yet is new to everyone. Hence, `MeetsNewTokens`, the client's token is never one that a call about to send has been refused with, whoever installed it; so each attempt meets another expired token, `Count`, and `MAX_RETRY` attempts meet as many. |
| `RetryAuthProofs!LoginsAreBoundedHolds` | Counting. An expired token is `Open` to a caller while it could cost it another login: its request carries it, it is the client's, or somebody is about to install it. What is closed stays closed, because a token is installed once (`HeldIsNew`), and a login closes its token to its caller. So there are as many closed pairs (`Spent`) as logins, and no more than callers times expired tokens. |
| `ControllerServerProofs!TypeCorrect` | `TypeOK` is inductive. |
| `ControllerServerProofs!OneVdevPerClaimHolds`, `BoundIsBackedHolds`, `GoneIsDeletedHolds` | One inductive invariant, `IInv`. `Requests`: an invocation that is waited for is its claim's only one, a create that is waited for belongs to a claim without a vdev, a delete to one that is given back and has its id. `Owned`: the vdev a claim was told was made for it. `Single`: until a claim slips its creates are waited for, one past the look-up shows that the claim has no vdev, and a vdev there is is the one it was told. None of the three properties is inductive: a create that is about to allocate must be known to be alone. |
| `ControllerServerProofs!RemoveFindsVdevHolds` | `Exclusive`: who looks a vdev up for its removal, or inspects it, holds the mutex, so no other invocation removes it in between. |

Not provable with the installed provers, and so only model-checked: everything
under fairness (`CallsTerminate`, `EventuallyStaged`, `EventuallyServes`, `StopsWhenTold`,
`Recovers`, `CallsEnd`, `ReleasedIsGone`), which needs ENABLED. Every invariant, every
action property and every refinement that a passing run checks is the conclusion of a theorem
above, and the run's instance satisfies the theorem's hypotheses. Left open between the theorems
and the violation runs: `SeededIsBacked` for a mounted volume whose plugin is killed between
requests only, and kills together with daemon crashes.

## Observations

Things the models show outside the faults a run admits; none of them contradicts
a text of the repository, so no run is about them.

- A plugin that dies before the link exists has no entry after its restart; the
  unstage then returns at `node.go:180` and the unit stays.
- With "clientTimeout" `HeldIsOwn` fails: a deletion that was given up still holds the
  number at `ublk.go:129` that its repetition has deleted meanwhile and the kernel has given
  to another volume.
- A stage that was given up may insert its entry (`node.go:155`) after the unstage of the
  same volume has answered.
- A start reported as failed (`systemd.go:81`) leaves the unit running; the
  unit's name then refuses all retries, so `EventuallyStaged` fails with "startJob".
- One kill of the plugin while it waits for the link (`ublk.go:158-173`) does the same: the unit
  runs, the next start finds no link and makes no entry, every stage is refused by the unit's name
  and an unstage answers at `node.go:180`. With "kill" instead of "idleKill" `EventuallyStaged`
  fails; the next restart of the plugin, which finds the link by then, would end it.
- After five crashes within five minutes (`StartLimitBurst`, `systemd.go:65-66`) systemd does not
  start the daemon of a recoverable volume again, and its device stays quiesced. A blkid, mkfs,
  mount or umount on it never returns, none of them has a context, and a graceful stop waits for
  the handler. That is the handler that `Stuck` names. A stage that finds the volume's entry does
  not start the unit again.
- A link left by a quiesced device is taken for the readiness of the new daemon
  (`ublk.go:166`).
- `LinkTimeout` stops the unit and leaves a device that comes up late; with "earlyCrash"
  the numbers leak until none is left and `EventuallyStaged` fails.
- With "clientTimeout" and "daemonCrash" an invocation may also wait on a quiesced device whose unit
  another invocation has stopped.
- A target path may be left without a mount: a publish that fails after it made the path
  (`node.go:245-260`), and an unpublish whose `os.Remove` fails, which is ignored or only logged
  (`node.go:322-326`, `mount.go:202-205`), leave it, and so does one without a map entry. What holds
  is that nothing is mounted there, `UnpublishUnmounts` and `UnpublishedIsUnmounted`.
- With "clientTimeout" `HandlersKeepMounts` fails, and with "clientTimeout" and "daemonCrash"
  `StagingMountedOnce`.
- With "listVolumes" `HandlersKeepMounts` fails when systemd gives a recoverable daemon up: its
  device stays quiesced under the mount, a plugin that starts with an empty map takes the volume for
  unstaged, and a stage with another file system than the one found deletes the device in use.
- A plugin that is killed between the bind mount and its answer (`node.go:268`) leaves a mount that
  the kubelet only may believe in. The retry finds the mount and answers. But it may be refused
  at `node.go:241`, when the control plane could not be listed at the start, or fail before it looks
  for a mount, in making the path (`node.go:247-255`) or examining it (`mount.go:105-114`,
  `mount.go:129-136`), also when every start had its map; then the kubelet forgets the path.
  `UnpublishedIsUnmounted` fails, an unstage takes the device from under the mount, so
  `HandlersKeepMounts` does, and, when the volume is staged anew, `PublishedIsLive`: the next publish
  finds the old mount, whose device has gone, and takes it for its own. `forgotten` records these
  paths, and `RememberedIsLive` says that only there a published path fails to show its volume.
- `CreateVolume` makes a duplicate when the look-up fails for another reason than
  "not found", or when a create that was given up overlaps its repetition
  (`controller.go:71-76`); `DeleteVolume` answers success when the look-up fails
  (`controller.go:129-133`). `slipped` records exactly these claims.
- A signal between `net.Listen` and `Serve` makes `main` exit through `log.Fatalf`, which
  skips its deferred teardown; the comment at `cmd/node/main.go:53` counts on it running
  before the process exits. The process ends all the same, so `StopsWhenTold` holds.
- The controller's Deployment has the default rolling update and its socket is on a host path, so
  two instances may share the path: the old one, when it closes its listener, unlinks the socket
  that the new one has bound.
- A vdev that is removed from the control plane while it is staged gets no entry at the next
  start (`config.go:281`), and an unstage then answers at `node.go:180`.
- `ValidateVolumeCapabilities` confirms neither the block nor the mount capability that the node
  service serves (`controller.go:233-246`).

## What is not modelled

- Two instances of a program on one socket path, which a DaemonSet excludes for the node program
  and the controller's Deployment does not.
- A vdev that goes away while a node has it staged: Kubernetes detaches first.
- The identity service (constants), capability handlers, `ListVolumes`, `GetCapacity`,
  `NodeGetVolumeStats`: they only read. So does the look-up of the node in the configuration at
  the start of `ControllerPublishVolume`, whose failure changes nothing.
- Errors of the control plane are of two kinds in `RetryAuth`, refused for the token or not: the
  code tells them by substrings of their text (`config.go:112`), and the model takes it that no
  other error contains one.
- In `ControllerServer` a request whose answer is lost has taken effect by the time its handler
  sees the error, or never does: an effect that arrives later is not modelled.
- Snapshots, expansion, cloning: the code answers "unimplemented".
- Code that nothing calls: `GetUblkDeviceInfo`, `extractUblkID`, `prepareTargetPath`,
  `isDeviceFormatted`, `probeFilesystemInfo`, `GetMountInfo`, `IsPathMounted`.
- Formatting of command lines, D-Bus properties, log output, parsing of responses.
- Manifests, images and the test client.

## Plan

1. *(done)* `NodeHost` and `NodeServer`, `RemoteCall` and `RetryAuth`, `ControllerServer`;
   their runs and first theorems.
2. *(done)* `StagedVolume` and the refinement; `DriverServer`, and `NodePlugin`, which composes
   it with `NodeServer`.
3. *(done)* Proofs of `LoginsAreBounded`, of `OneFormatter` and `FormatOnlyBlank`, and of what the
   kubelet is told about volumes and paths.
4. *(done)* Proofs about mounts under every failure, crash and kill, about volumes whose daemons
   crash, and about a plugin that is killed anywhere.
5. *(done)* The failures of examining, making and removing paths, of blkid and of systemd's start
   limit, and what they leave of the properties.
6. Open: a composition of `ControllerServer` and `NodePlugin` over one claim's life; two programs
   on one socket path.
