------------------------------ MODULE NodeHost ------------------------------
(***************************************************************************)
(* The host of one worker node, as the node plugin sees it: one transient  *)
(* systemd unit per volume that runs its niova-ublk daemon, the ublk       *)
(* devices the kernel holds for those daemons, the udev by-uuid links, the *)
(* content of the volumes, and the mounts at the staging and the target    *)
(* paths.  pkg/node/systemd.go, ublk.go and mount.go are the only code     *)
(* that touches this state; what systemd, the kernel and the daemon do on  *)
(* their own is external and is modelled from how that code relies on it.  *)
(***************************************************************************)
EXTENDS Naturals, Sequences

CONSTANTS
  Volume,       \* volumes (vdevs) of the cluster that may come to this node
  Target,       \* target paths a volume can be published at
  DevId,        \* numbers N of the ublkbN devices the kernel can hand out
  BlockVol,     \* volumes with a raw block capability, the rest are mounted
  RecoveryVol,  \* volumes whose daemon runs with -r (ublkrecovery: "true")
  FsType,       \* file systems that volumes carry or that are requested
  Faults,       \* what the environment of a run may do wrong
  NoVol, NoDev

\* Every kind of failure or disturbance that a run may admit.
FaultKind == {"start", "startJob", "stop", "del", "linkTimeout", "blkid",
              "mkfs", "mount", "bind", "umount", "daemonCrash", "earlyCrash",
              "startLimit", "pluginCrash", "listVolumes", "clientTimeout",
              "statStaging", "statTarget", "removeTarget"}

ASSUME HostAssumption ==
  /\ BlockVol \subseteq Volume
  /\ RecoveryVol \subseteq Volume
  /\ Faults \subseteq FaultKind
  /\ NoVol \notin Volume
  /\ NoDev \notin DevId

Can(fault) == fault \in Faults

\* Mutant: the recovery flag does not reach the daemon.
NeverRecoverable(v) == FALSE

\* The daemon is started with -r: its device outlives it, quiesced.
Recoverable(v) == v \in RecoveryVol

VARIABLES
  unit,        \* unit[v]: the systemd unit niova-ublk-<v>.service
  dev,         \* dev[d]: owner and state of ublk device d
  fs,          \* fs[v]: the file system on volume v, "" when it is blank
  staging,     \* staging[v]: stack of mounts at v's staging path, top first
  target,      \* target[v, t]: stack of mounts at target path t of v
  targetPath   \* targetPath[v, t]: what exists there on disk

hostVars == <<unit, dev, fs, staging, target, targetPath>>
mounts == <<staging, target>>

UnitState == {"none", "running", "restarting", "failed"}
FreeDev == [vol |-> NoVol, state |-> "free"]
Device == [vol : Volume, state : {"live", "quiesced", "dead"}] \cup {FreeDev}
Mount == {"live", "stale", "bare"}

HostTypeOK ==
  /\ unit \in [Volume -> UnitState]
  /\ dev \in [DevId -> Device]
  /\ fs \in [Volume -> FsType \cup {""}]
  /\ staging \in [Volume -> Seq(Mount)]
  /\ target \in [Volume \X Target -> Seq(Mount)]
  /\ targetPath \in [Volume \X Target -> {"absent", "file", "dir"}]

HostInit ==
  /\ unit = [v \in Volume |-> "none"]
  /\ dev = [d \in DevId |-> FreeDev]
  /\ fs \in [Volume -> FsType \cup {""}]
  /\ staging = [v \in Volume |-> <<>>]
  /\ target = [p \in Volume \X Target |-> <<>>]
  /\ targetPath = [p \in Volume \X Target |-> "absent"]

(***************************************************************************)
(* Devices and their links.  /dev/disk/by-uuid/<v> exists while a device   *)
(* node of v does: a quiesced device keeps it, a dead one has lost it.     *)
(***************************************************************************)
DevsOf(v, states) == {d \in DevId : dev[d].vol = v /\ dev[d].state \in states}
Link(v) == DevsOf(v, {"live", "quiesced"})
Live(v) == DevsOf(v, {"live"}) # {}
Quiesced(v) == DevsOf(v, {"quiesced"}) # {} /\ ~Live(v)
FreeIds == {d \in DevId : dev[d] = FreeDev}

MountedAt(stack) == stack # <<>>
LiveAt(stack) == MountedAt(stack) /\ Head(stack) = "live"
Stale(stack) == [i \in DOMAIN stack |-> IF stack[i] = "live" THEN "stale" ELSE stack[i]]

\* The device under every mount of v has gone.
LoseMounts(v) ==
  /\ staging' = [staging EXCEPT ![v] = Stale(@)]
  /\ target' = [p \in Volume \X Target |->
                  IF p[1] = v THEN Stale(target[p]) ELSE target[p]]

\* The daemon of v is gone: its live device, if it has one, becomes `left`.
DetachDaemon(v, left) ==
  /\ dev' = [d \in DevId |->
               IF dev[d].vol = v /\ dev[d].state = "live"
               THEN [vol |-> v, state |-> left] ELSE dev[d]]
  /\ IF left = "dead" THEN LoseMounts(v) ELSE UNCHANGED mounts

(***************************************************************************)
(* startUblkUnit and stopUblkUnit.  A loaded unit keeps its name: while    *)
(* v's unit runs or waits for its restart StartTransientUnit refuses; a    *)
(* failed one is acknowledged first by ResetFailedUnit.                    *)
(***************************************************************************)
\* Mutant: a second start replaces the unit instead of being refused.
NeverRefused(v) == FALSE

StartRefused(v) == unit[v] \in {"running", "restarting"}

StartUnit(v) ==
  /\ ~StartRefused(v)
  /\ unit' = [unit EXCEPT ![v] = "running"]

\* What systemd's stop leaves of v's device: the kernel tears the device of a
\* daemon without recovery down, a recoverable one may stay quiesced.
LeftByStop(v) == IF Recoverable(v) THEN {"quiesced", "dead"} ELSE {"dead"}

StopUnit(v) ==
  /\ unit' = [unit EXCEPT ![v] = "none"]
  /\ \E left \in LeftByStop(v) : DetachDaemon(v, left)

(***************************************************************************)
(* `ublk del -n d`: the id is released whatever its state.  A daemon that  *)
(* still serves it exits with it, with or without a restart by systemd.    *)
(* Deleting an id that is not in use fails and changes nothing.            *)
(***************************************************************************)
UblkDel(d) ==
  IF dev[d] = FreeDev
  THEN UNCHANGED <<unit, dev, mounts>>
  ELSE /\ dev' = [dev EXCEPT ![d] = FreeDev]
       /\ LoseMounts(dev[d].vol)
       /\ IF dev[d].state = "live"
          THEN \E s \in {"none", "restarting"} : unit' = [unit EXCEPT ![dev[d].vol] = s]
          ELSE UNCHANGED unit

(***************************************************************************)
(* What the daemon, systemd and the kernel do by themselves.               *)
(***************************************************************************)

\* The daemon finishes niova_ublk_start: it takes a quiesced device of its
\* volume over if it can, and adds a new device otherwise; udev makes the link.
DaemonUp(v) ==
  /\ unit[v] = "running"
  /\ ~Live(v)
  /\ \E d \in DevId :
       /\ IF Recoverable(v) /\ Quiesced(v)
          THEN d \in DevsOf(v, {"quiesced"})
          ELSE d \in FreeIds
       /\ dev' = [dev EXCEPT ![d] = [vol |-> v, state |-> "live"]]
  /\ UNCHANGED <<unit, fs, mounts, targetPath>>

\* An early crash is one before the daemon has its device.
DaemonCrash(v) ==
  /\ Can(IF Live(v) THEN "daemonCrash" ELSE "earlyCrash")
  /\ unit[v] = "running"
  /\ unit' = [unit EXCEPT ![v] = "restarting"]
  /\ DetachDaemon(v, IF Recoverable(v) THEN "quiesced" ELSE "dead")
  /\ UNCHANGED <<fs, targetPath>>

\* Restart=on-failure, RestartUSec: systemd runs the daemon again ...
Respawn(v) ==
  /\ unit[v] = "restarting"
  /\ unit' = [unit EXCEPT ![v] = "running"]
  /\ UNCHANGED <<dev, fs, mounts, targetPath>>

\* ... unless StartLimitBurst is exhausted.
StartLimit(v) ==
  /\ Can("startLimit")
  /\ unit[v] = "restarting"
  /\ unit' = [unit EXCEPT ![v] = "failed"]
  /\ UNCHANGED <<dev, fs, mounts, targetPath>>

\* CollectMode=inactive-or-failed: the failed unit is unloaded.
Collect(v) ==
  /\ unit[v] = "failed"
  /\ unit' = [unit EXCEPT ![v] = "none"]
  /\ UNCHANGED <<dev, fs, mounts, targetPath>>

HostNext ==
  \E v \in Volume : DaemonUp(v) \/ DaemonCrash(v) \/ Respawn(v)
                    \/ StartLimit(v) \/ Collect(v)
=============================================================================
