---------------------------- MODULE NodeMountProofs ----------------------------
(***************************************************************************)
(* What TLAPS proves about mounts, for every number of volumes, target     *)
(* paths and invocations, whatever host operation fails, whichever daemon  *)
(* crashes and whenever the process is killed, while the kubelet gives no  *)
(* call up: no path ever carries two mounts, an unpublish is answered with *)
(* nothing mounted, and, if the kubelet is not made to forget a mount, no  *)
(* handler takes the device from under one.  And, under the assumptions of *)
(* NodePromiseProofs: a path that the kubelet was told is published shows  *)
(* its volume.                                                             *)
(***************************************************************************)
EXTENDS NodePromiseProofs

(***************************************************************************)
(* Stacks of mounts.  What the end of a daemon does to a stack leaves it   *)
(* as high as it was.                                                      *)
(***************************************************************************)
AtMostOne(stack) == stack = <<>> \/ \E m \in Mount : stack = <<m>>

Fades(before, after) == (after = <<>> <=> before = <<>>) /\ (AtMostOne(before) => AtMostOne(after))

\* A path with at most one mount has none once it is unmounted.
LEMMA OneMount ==
  ASSUME NEW stack, AtMostOne(stack)
  PROVE  /\ Unmount(stack) = <<>> /\ Len(stack) <= 1
         /\ MountedAt(stack) <=> stack # <<>>
         /\ LiveAt(stack) <=> stack = <<"live">>
  <1>1. CASE stack = <<>>
    BY <1>1 DEF Unmount, MountedAt, LiveAt
  <1>2. ASSUME NEW m \in Mount, stack = <<m>>
        PROVE  /\ Unmount(stack) = <<>> /\ Len(stack) <= 1
               /\ MountedAt(stack) <=> stack # <<>>
               /\ LiveAt(stack) <=> stack = <<"live">>
    <2>1. stack # <<>> /\ Tail(stack) = <<>> /\ Head(stack) = m /\ Len(stack) = 1
      BY <1>2
    <2>2. m = "live" <=> stack = <<"live">>
      BY <1>2
    <2> QED BY <2>1, <2>2 DEF Unmount, MountedAt, LiveAt
  <1> QED BY <1>1, <1>2 DEF AtMostOne

\* A mount at a path without one is the only one there.
LEMMA FirstMount ==
  ASSUME NEW m \in Mount
  PROVE  <<m>> \o <<>> = <<m>> /\ AtMostOne(<<m>>) /\ AtMostOne(<<>>) /\ <<m>> # <<>>
  BY DEF AtMostOne

\* A stack whose device has gone is as high as before, and none of it is live.
LEMMA StaleFades ==
  ASSUME NEW stack \in Seq(Mount)
  PROVE  Fades(stack, Stale(stack)) /\ ~LiveAt(Stale(stack))
  <1>1. DOMAIN Stale(stack) = DOMAIN stack
    BY DEF Stale
  <1>2. stack = <<>> => Stale(stack) = <<>>
    BY DEF Stale
  <1>3. ASSUME stack # <<>> PROVE Stale(stack) # <<>> /\ Stale(stack)[1] # "live"
    <2>1. 1 \in DOMAIN stack
      BY <1>3
    <2>2. Stale(stack)[1] = IF stack[1] = "live" THEN "stale" ELSE stack[1]
      BY <2>1 DEF Stale
    <2> QED BY <1>1, <2>1, <2>2
  <1>4. ASSUME NEW m \in Mount, stack = <<m>> PROVE AtMostOne(Stale(stack))
    <2> DEFINE n == IF m = "live" THEN "stale" ELSE m
    <2>1. Stale(stack) = <<n>> /\ n \in Mount
      BY <1>4 DEF Stale, Mount
    <2> QED BY <2>1 DEF AtMostOne
  <1>5. AtMostOne(stack) => AtMostOne(Stale(stack))
    BY <1>2, <1>4 DEF AtMostOne
  <1>6. ~LiveAt(Stale(stack))
    <2> DEFINE after == Stale(stack)
    <2>1. after \in Seq(Mount) /\ (stack = <<>> => after = <<>>) /\ (stack # <<>> => after[1] # "live")
      BY <1>2, <1>3, StaleType
    <2> HIDE DEF after
    <2>2. ~LiveAt(after)
      <3>1. after # <<>> => Head(after) = after[1]
        BY <2>1
      <3> QED BY <1>3, <2>1, <3>1 DEF LiveAt, MountedAt
    <2> QED BY <2>2 DEF after
  <1> QED BY <1>2, <1>3, <1>5, <1>6 DEF Fades

\* A step that leaves a stack alone does no harm.
LEMMA SameFades == \A stack : Fades(stack, stack)
  BY DEF Fades

\* When a volume loses its device its own mounts turn stale, and no others.
LEMMA LoseFades ==
  ASSUME TypeOK, NEW v, LoseMounts(v), NEW w \in Volume
  PROVE  /\ Fades(staging[w], staging'[w])
         /\ \A u \in Target : Fades(target[<<w, u>>], target'[<<w, u>>])
         /\ w = v => ~LiveAt(staging'[w]) /\ \A u \in Target : ~LiveAt(target'[<<w, u>>])
         /\ w # v => /\ staging'[w] = staging[w]
                     /\ \A u \in Target : target'[<<w, u>>] = target[<<w, u>>]
  <1>1. staging'[w] = IF w = v THEN Stale(staging[w]) ELSE staging[w]
    BY DEF LoseMounts, TypeOK, HostTypeOK
  <1>2. ASSUME NEW u \in Target
        PROVE  target'[<<w, u>>] = IF w = v THEN Stale(target[<<w, u>>]) ELSE target[<<w, u>>]
    BY DEF LoseMounts
  <1>3. staging[w] \in Seq(Mount) /\ \A u \in Target : target[<<w, u>>] \in Seq(Mount)
    BY DEF TypeOK, HostTypeOK
  <1> QED BY <1>1, <1>2, <1>3, StaleFades, SameFades

(***************************************************************************)
(* What each step of a handler does to mounts, with the conditions it does *)
(* so under.                                                               *)
(***************************************************************************)
KeepsMounts == staging' = staging /\ target' = target

LosesDevice(c) == call[c].pc \in {"stopAfterWait", "stopUnit", "ublkDel"} /\ LoseMounts(call[c].vol)

Stages(c) ==
  /\ call[c].pc = "stageMount" /\ Live(call[c].vol) /\ Goto(c, "insert")
  /\ staging' = [staging EXCEPT ![call[c].vol] = <<"live">> \o @]
  /\ UNCHANGED <<dev, target>>

Unstages(c) ==
  /\ call[c].pc \in {"unmountStaging", "cleanupStaging"}
  /\ staging' = [staging EXCEPT ![call[c].vol] = Unmount(@)]
  /\ target' = target

Binds(c) ==
  /\ call[c].pc = "bind" /\ Goto(c, "recordTarget")
  /\ \E m \in BindSource(call[c].vol) : target' = [target EXCEPT ![<<call[c].vol, call[c].tgt>>] = <<m>> \o @]
  /\ staging' = staging

Unbinds(c) ==
  /\ call[c].pc \in {"unmountTarget", "removeTarget"}
  /\ target' = [target EXCEPT ![<<call[c].vol, call[c].tgt>>] = Unmount(@)]
  /\ staging' = staging

\* There is nothing else that a handler does to mounts.
LEMMA HandlerMounts ==
  ASSUME HostAssumption, TypeOK, HeldInv, NEW c \in Call, Handler(c)
  PROVE  KeepsMounts \/ LosesDevice(c) \/ Stages(c) \/ Unstages(c) \/ Binds(c) \/ Unbinds(c)
  <1> DEFINE Done == KeepsMounts \/ LosesDevice(c) \/ Stages(c) \/ Unstages(c) \/ Binds(c) \/ Unbinds(c)
  <1>1. ASSUME StopUnit(call[c].vol), call[c].pc \in {"stopAfterWait", "stopUnit", "ublkDel"} PROVE Done
    BY <1>1 DEF StopUnit, DetachDaemon, mounts, KeepsMounts, LosesDevice
  <1>2. CASE NodeStageVolume(c)
    <2>1. CASE StopAfterWait(c)
      BY <1>1, <2>1 DEF StopAfterWait, At, KeepsMounts, mounts
    <2>2. CASE StageMountOk(c)
      BY <2>2 DEF StageMountOk, At, Stages
    <2>3. CASE ~StopAfterWait(c) /\ ~StageMountOk(c)
      BY <1>2, <2>3 DEF NodeStageVolume, StageCheck, StartOk, StartRefusedOrFailed, StartReportedFailed,
         LinkSeen, LinkTimeout, Validate, Probe, MkfsOk, MkfsFails, MountCheck, StageMountFails, Insert,
         Quiet, hostVars, mounts, KeepsMounts
    <2> QED BY <2>1, <2>2, <2>3
  <1>3. CASE DeleteUblkDevice(c)
    <2>1. CASE StopUblkUnit(c) \/ StopFails(c)
      BY <1>1, <2>1 DEF StopUblkUnit, StopFails, At, KeepsMounts, mounts
    <2>2. CASE DeleteDevice(c)
      <3>1. call[c].pc = "ublkDel" /\ dev[call[c].dev].vol = call[c].vol
        BY <2>2 DEF DeleteDevice, At, HeldInv, HoldsOwnDevice, Holding
      <3> QED BY <2>2, <3>1 DEF DeleteDevice, UblkDel, mounts, KeepsMounts, LosesDevice
    <2> QED BY <1>3, <2>1, <2>2 DEF DeleteUblkDevice, Resolve, DeleteDeviceFails, Quiet, hostVars, KeepsMounts
  <1>4. CASE NodeUnstageVolume(c)
    BY <1>4 DEF NodeUnstageVolume, UnstageCheck, UnmountStaging, UnmountStagingFails, CleanupStaging,
       DeleteEntry, At, Quiet, hostVars, KeepsMounts, Unstages
  <1>5. CASE NodePublishVolume(c)
    BY <1>5 DEF NodePublishVolume, PublishCheck, BindCheck, BindOk, BindFails, RecordTarget, At, Quiet,
       hostVars, mounts, KeepsMounts, Binds
  <1>6. CASE NodeUnpublishVolume(c)
    <2>1. CASE RemoveTarget(c)
      <3> DEFINE p == <<call[c].vol, call[c].tgt>>
      <3>1. \/ target' = [target EXCEPT ![p] = Unmount(target[p])]
            \/ target' = [target EXCEPT ![p] = target[p]]
            \/ target' = target
        BY <2>1 DEF RemoveTarget
      <3>2. [target EXCEPT ![p] = target[p]] = target
        BY DEF TypeOK, HostTypeOK
      <3>3. staging' = staging /\ call[c].pc = "removeTarget"
        BY <2>1 DEF RemoveTarget, At
      <3> QED BY <3>1, <3>2, <3>3 DEF KeepsMounts, Unbinds
    <2>2. CASE UnmountTarget(c)
      BY <2>2 DEF UnmountTarget, At, Unbinds
    <2> QED BY <1>6, <2>1, <2>2 DEF NodeUnpublishVolume, UnpublishCheck, UnmountTargetFails, Quiet,
         hostVars, KeepsMounts
  <1> QED BY <1>2, <1>3, <1>4, <1>5, <1>6 DEF Handler

(***************************************************************************)
(* The inductive invariant.  No path carries two mounts, because whoever   *)
(* is about to mount at one has found it empty and no other invocation is  *)
(* at work on its volume; what is published is of a staged volume, and     *)
(* where the kubelet holds a path as published something is mounted.       *)
(***************************************************************************)

\* The unpublish of v at t has unmounted, the publish has mounted, and neither
\* has answered yet.
Removing(v, t) == \E c \in Call : call[c].pc = "removeTarget" /\ call[c].vol = v /\ call[c].tgt = t
Recording(v, t) == \E c \in Call : call[c].pc = "recordTarget" /\ call[c].vol = v /\ call[c].tgt = t

PathOK(v, t) ==
  /\ AtMostOne(target[<<v, t>>])
  /\ published[<<v, t>>] # "no" => staged[v] = "yes"
  /\ published[<<v, t>>] = "yes" => target[<<v, t>>] # <<>> \/ Removing(v, t)

OnPathOK(c) ==
  LET v == call[c].vol
      t == call[c].tgt
  IN
  /\ OpAt(c)
  /\ call[c].pc \in PublishPc => call[c].op = "publish"
  /\ call[c].pc \in UnpublishPc => call[c].op = "unpublish"
  /\ call[c].op \in OnTarget => t \in Target /\ staged[v] = "yes"
  /\ call[c].op = "publish" => published[<<v, t>>] # "leaving"
  /\ call[c].op = "unstage" => \A u \in Target : published[<<v, u>>] = "no"
  /\ call[c].pc \in {"bind", "removeTarget"} => target[<<v, t>>] = <<>>
  /\ call[c].pc = "recordTarget" => target[<<v, t>>] # <<>>
  /\ call[c].pc = "stageMount" => staging[v] = <<>>

MountInv ==
  /\ \A v \in Volume : AtMostOne(staging[v])
  /\ \A v \in Volume, t \in Target : PathOK(v, t)
  /\ \A c \in Call : OnPathOK(c)
  /\ ~alive => \A c \in Call : call[c] = Idle

\* An invocation that performs nothing is at no path.
LEMMA IdleAt == Idle.pc = "idle" /\ Idle.op = "none" /\ Idle.vol = NoVol /\ ~Idle.waiting
  BY DEF Idle

\* ... and is as it should be, whatever the paths are.
LEMMA IdleOK ==
  ASSUME NEW c \in Call, call'[c] = Idle
  PROVE  OnPathOK(c)'
  BY IdleAt DEF OnPathOK, OpAt, StagePc, UnstagePc, DeletePc, PublishPc, UnpublishPc, OnTarget

\* What an invocation in flight relies on: it is alone on its volume.
LEMMA Alone ==
  ASSUME HostAssumption, HeldInv, MountInv, NEW c \in Call, call[c].pc # "idle"
  PROVE  /\ call[c].vol \in Volume /\ call[c].waiting /\ alive
         /\ \A o \in Call : o # c => call[o].vol # call[c].vol
  <1>1. call[c].vol \in Volume
    BY DEF MountInv, OnPathOK, OpAt
  <1>2. alive
    BY IdleAt DEF MountInv
  <1> QED BY <1>1, <1>2 DEF HeldInv, OneCallPerVolume, HostAssumption

\* What a step of one invocation must do to keep MountInv.
LEMMA MountFrame ==
  ASSUME HostAssumption, HeldInv, MountInv, NEW c \in Call, NEW v \in Volume,
         call[c].vol \in {v, NoVol}, \A o \in Call : o # c => call[o].vol # v,
         OthersStand(c), alive, alive',
         \A w \in Volume : w # v =>
           /\ staged'[w] = staged[w] /\ Fades(staging[w], staging'[w])
           /\ \A u \in Target : /\ published'[<<w, u>>] = published[<<w, u>>]
                                /\ Fades(target[<<w, u>>], target'[<<w, u>>]),
         AtMostOne(staging'[v]),
         \A u \in Target : PathOK(v, u)',
         OnPathOK(c)'
  PROVE  MountInv'
  <1>1. ASSUME NEW o \in Call, o # c PROVE OnPathOK(o)'
    <2>1. call'[o] = call[o] /\ OnPathOK(o)
      BY <1>1 DEF OthersStand, MountInv
    <2>2. CASE call[o].pc = "idle"
      <3>1. call'[o] = Idle
        BY <2>1, <2>2 DEF OnPathOK, OpAt
      <3> QED BY <3>1, IdleOK
    <2>3. CASE call[o].pc # "idle"
      <3>1. PICK w \in Volume : w = call[o].vol
        BY <2>1, <2>3 DEF OnPathOK, OpAt
      <3>2. w # v
        BY <1>1, <3>1
      <3>3. /\ staged'[w] = staged[w] /\ Fades(staging[w], staging'[w])
            /\ \A u \in Target : /\ published'[<<w, u>>] = published[<<w, u>>]
                                 /\ Fades(target[<<w, u>>], target'[<<w, u>>])
        BY <3>2
      <3>4. /\ call[o].pc \in {"bind", "removeTarget", "recordTarget"} => call[o].op \in OnTarget
            /\ call[o].op = "publish" => call[o].op \in OnTarget
        BY <2>1 DEF OnPathOK, PublishPc, UnpublishPc, OnTarget
      <3>5. OpAt(o)'
        BY <2>1 DEF OnPathOK, OpAt
      <3> QED BY <2>1, <3>1, <3>3, <3>4, <3>5 DEF OnPathOK, Fades
    <2> QED BY <2>2, <2>3
  <1>2. ASSUME NEW w \in Volume, w # v PROVE AtMostOne(staging'[w]) /\ \A u \in Target : PathOK(w, u)'
    <2>1. ASSUME NEW u \in Target PROVE PathOK(w, u)'
      <3>1. /\ staged'[w] = staged[w] /\ published'[<<w, u>>] = published[<<w, u>>]
            /\ Fades(target[<<w, u>>], target'[<<w, u>>]) /\ PathOK(w, u)
        BY <1>2 DEF MountInv
      <3>2. Removing(w, u) => Removing(w, u)'
        BY <1>2 DEF Removing, OthersStand, HostAssumption
      <3> QED BY <3>1, <3>2 DEF PathOK, Fades
    <2> QED BY <1>2, <2>1 DEF MountInv, Fades
  <1> QED BY <1>1, <1>2 DEF MountInv

\* What a step that no invocation takes must do to keep it.
LEMMA FadingKeeps ==
  ASSUME MountInv, UNCHANGED <<call, staged, published, alive>>,
         \A w \in Volume : /\ Fades(staging[w], staging'[w])
                           /\ \A u \in Target : Fades(target[<<w, u>>], target'[<<w, u>>])
  PROVE  MountInv'
  <1>1. ASSUME NEW w \in Volume, NEW u \in Target PROVE PathOK(w, u)'
    BY DEF MountInv, PathOK, Fades, Removing
  <1>2. ASSUME NEW c \in Call PROVE OnPathOK(c)'
    <2>1. OnPathOK(c) /\ OpAt(c)'
      BY DEF MountInv, OnPathOK, OpAt
    <2>2. /\ call[c].pc \in {"bind", "removeTarget", "recordTarget"} =>
               call[c].op \in OnTarget /\ call[c].pc # "idle"
          /\ call[c].pc = "stageMount" => call[c].pc # "idle"
      BY <2>1 DEF OnPathOK, PublishPc, UnpublishPc, OnTarget
    <2>3. call[c].pc # "idle" => call[c].vol \in Volume
      BY <2>1 DEF OnPathOK, OpAt
    <2>4. call'[c] = call[c] /\ staged' = staged /\ published' = published
      OBVIOUS
    <2> QED BY <2>1, <2>2, <2>3, <2>4 DEF OnPathOK, Fades
  <1> QED BY <1>1, <1>2 DEF MountInv, Fades

(***************************************************************************)
(* How stages and unstages move on.  They tell the kubelet nothing about a *)
(* path, and mount at a staging path only what they found empty.           *)
(***************************************************************************)
AtWork == StagePc \cup DeletePc \cup UnstagePc

\* The next place of an invocation that has not answered yet.
MovesOn(c) ==
  /\ Stays(c) /\ published' = published
  /\ call'[c].pc \in AtWork /\ Fits(call'[c].pc, call[c].op)
  /\ call'[c].pc = "stageMount" => staging' = staging /\ staging[call[c].vol] = <<>>

\* Going on to a place of the same operation is moving on.
LEMMA GotoMovesOn ==
  ASSUME TypeOK, NEW c \in Call, NEW pc, Goto(c, pc), pc \in AtWork, Fits(pc, call[c].op),
         pc = "stageMount" => staging' = staging /\ staging[call[c].vol] = <<>>
  PROVE  MovesOn(c)
  BY GotoFields DEF MovesOn, Stays, Goto, kubeletVars

\* The other ways on set locals as well.
LEMMA LocalMovesOn ==
  ASSUME TypeOK, NEW c \in Call, NEW r, call' = [call EXCEPT ![c] = r], UNCHANGED kubeletVars,
         r.op = call[c].op, r.vol = call[c].vol, r.waiting = call[c].waiting,
         r.pc \in AtWork, Fits(r.pc, call[c].op), r.pc # "stageMount"
  PROVE  MovesOn(c)
  BY DEF MovesOn, Stays, OthersStand, TypeOK, kubeletVars

\* NodeStageVolume answers or moves on.
LEMMA StageMoves ==
  ASSUME TypeOK, NEW c \in Call, OpAt(c), NodeStageVolume(c)
  PROVE  call[c].pc \in AtWork /\ (Return(c, TRUE) \/ Return(c, FALSE) \/ MovesOn(c))
  <1>1. call[c].pc \in StagePc
    BY DEF NodeStageVolume, StageCheck, StartOk, StartRefusedOrFailed, StartReportedFailed, LinkSeen,
       LinkTimeout, StopAfterWait, Validate, Probe, MkfsOk, MkfsFails, MountCheck, StageMountOk,
       StageMountFails, Insert, At, StagePc
  <1>2. call[c].op = "stage" /\ call[c].pc \in AtWork
    BY <1>1 DEF OpAt, AtWork
  <1>3. ASSUME NEW pc \in (StagePc \ {"stageMount"}) \cup {"resolve"}
        PROVE  pc \in AtWork /\ Fits(pc, call[c].op) /\ pc # "stageMount"
    BY <1>2, <1>3 DEF AtWork, Fits, StagePc, DeletePc, UnstagePc, PublishPc, UnpublishPc
  <1>4. ASSUME NEW pc \in (StagePc \ {"stageMount"}) \cup {"resolve"}, Goto(c, pc) PROVE MovesOn(c)
    BY <1>3, <1>4, GotoMovesOn
  <1>5. CASE Probe(c)
    <2>0. CASE Goto(c, "resolve")
      BY <1>2, <1>4, <2>0
    <2>1. ASSUME ~Goto(c, "resolve")
          PROVE  /\ UNCHANGED kubeletVars
                 /\ \E existing :
                      \/ call' = [call EXCEPT ![c] = [call[c] EXCEPT !.pc = "mkfs"]]
                      \/ call' = [call EXCEPT ![c] = [call[c] EXCEPT !.pc = "mountCheck", !.fs = existing]]
      BY <1>5, <2>1, ProbeFinds
    <2>2. call[c] \in Invocation
      BY DEF TypeOK
    <2>3. ASSUME call' = [call EXCEPT ![c] = [call[c] EXCEPT !.pc = "mkfs"]], UNCHANGED kubeletVars
          PROVE  MovesOn(c)
      <3> DEFINE r == [call[c] EXCEPT !.pc = "mkfs"]
      <3>1. r.pc = "mkfs" /\ r.op = call[c].op /\ r.vol = call[c].vol /\ r.waiting = call[c].waiting
        BY <2>2 DEF Invocation
      <3>2. call' = [call EXCEPT ![c] = r]
        BY <2>3
      <3>3. "mkfs" \in AtWork /\ Fits("mkfs", call[c].op)
        BY <1>3 DEF StagePc
      <3> HIDE DEF r
      <3> QED BY <2>3, <3>1, <3>2, <3>3, LocalMovesOn
    <2>4. ASSUME NEW existing, UNCHANGED kubeletVars,
                 call' = [call EXCEPT ![c] = [call[c] EXCEPT !.pc = "mountCheck", !.fs = existing]]
          PROVE  MovesOn(c)
      <3> DEFINE r == [call[c] EXCEPT !.pc = "mountCheck", !.fs = existing]
      <3>1. r.pc = "mountCheck" /\ r.op = call[c].op /\ r.vol = call[c].vol /\ r.waiting = call[c].waiting
        BY <2>2 DEF Invocation
      <3>2. call' = [call EXCEPT ![c] = r]
        BY <2>4
      <3>3. "mountCheck" \in AtWork /\ Fits("mountCheck", call[c].op)
        BY <1>3 DEF StagePc
      <3> HIDE DEF r
      <3> QED BY <2>4, <3>1, <3>2, <3>3, LocalMovesOn
    <2> QED BY <1>2, <2>0, <2>1, <2>3, <2>4
  <1>6. CASE MountCheck(c)
    <2>0. CASE Goto(c, "resolve")
      BY <1>2, <1>4, <2>0
    <2>1. CASE MountedAt(staging[call[c].vol]) /\ ~Goto(c, "resolve")
      <3>1. Goto(c, "insert")
        BY <1>6, <2>1 DEF MountCheck
      <3> QED BY <1>2, <1>4, <3>1 DEF StagePc
    <2>2. CASE ~MountedAt(staging[call[c].vol]) /\ ~Goto(c, "resolve")
      <3>1. Goto(c, "stageMount") /\ staging' = staging /\ staging[call[c].vol] = <<>>
        BY <1>6, <2>2 DEF MountCheck, Quiet, hostVars, MountedAt
      <3>2. "stageMount" \in AtWork /\ Fits("stageMount", call[c].op)
        BY <1>2 DEF AtWork, Fits, StagePc, DeletePc, UnstagePc, PublishPc, UnpublishPc
      <3> QED BY <1>2, <3>1, <3>2, GotoMovesOn
    <2> QED BY <2>0, <2>1, <2>2
  <1>7. CASE LinkSeen(c) \/ Validate(c) \/ StageCheck(c)
    <2>1. {"insert", "validate", "probe", "resolve", "startUnit"} \subseteq (StagePc \ {"stageMount"}) \cup {"resolve"}
      BY DEF StagePc
    <2>2. \/ Goto(c, "insert") \/ Goto(c, "validate") \/ Goto(c, "probe") \/ Goto(c, "resolve")
          \/ Goto(c, "startUnit") \/ Return(c, TRUE)
      BY <1>7 DEF LinkSeen, Validate, StageCheck
    <2>3. ASSUME NEW pc \in {"insert", "validate", "probe", "resolve", "startUnit"}, Goto(c, pc) PROVE MovesOn(c)
      BY <1>4, <2>1, <2>3
    <2> QED BY <1>2, <2>2, <2>3
  <1>8. CASE StartOk(c) \/ LinkTimeout(c) \/ MkfsOk(c) \/ MkfsFails(c) \/ StageMountOk(c) \/ StageMountFails(c)
    <2>1. {"waitLink", "stopAfterWait", "mountCheck", "resolve", "insert"} \subseteq (StagePc \ {"stageMount"}) \cup {"resolve"}
      BY DEF StagePc
    <2>2. \/ Goto(c, "waitLink") \/ Goto(c, "stopAfterWait") \/ Goto(c, "mountCheck") \/ Goto(c, "resolve")
          \/ Goto(c, "insert")
      BY <1>8 DEF StartOk, LinkTimeout, MkfsOk, MkfsFails, StageMountOk, StageMountFails
    <2>3. ASSUME NEW pc \in {"waitLink", "stopAfterWait", "mountCheck", "resolve", "insert"}, Goto(c, pc)
          PROVE  MovesOn(c)
      BY <1>4, <2>1, <2>3
    <2> QED BY <1>2, <2>2, <2>3
  <1>9. CASE StartRefusedOrFailed(c) \/ StartReportedFailed(c) \/ StopAfterWait(c) \/ Insert(c)
    BY <1>2, <1>9 DEF StartRefusedOrFailed, StartReportedFailed, StopAfterWait, Insert
  <1> QED BY <1>5, <1>6, <1>7, <1>8, <1>9 DEF NodeStageVolume

\* DeleteUblkDevice answers for a stage that failed, or moves on.
LEMMA DeleteMoves ==
  ASSUME TypeOK, NEW c \in Call, OpAt(c), DeleteUblkDevice(c)
  PROVE  call[c].pc \in AtWork /\ (Return(c, FALSE) \/ MovesOn(c))
  <1>1. call[c].pc \in DeletePc
    BY DEF DeleteUblkDevice, Resolve, StopUblkUnit, StopFails, DeleteDevice, DeleteDeviceFails, At, DeletePc
  <1>2. call[c].op \in {"stage", "unstage"} /\ call[c].pc \in AtWork /\ call[c] \in Invocation
    BY <1>1 DEF OpAt, AtWork, TypeOK
  <1>3. \A pc \in DeletePc : pc \in AtWork /\ Fits(pc, call[c].op) /\ pc # "stageMount"
    BY <1>2 DEF AtWork, Fits, StagePc, DeletePc, UnstagePc, PublishPc, UnpublishPc
  <1>4. ASSUME AfterDelete(c) PROVE Return(c, FALSE) \/ MovesOn(c)
    <2> DEFINE r == [call[c] EXCEPT !.pc = "cleanupStaging", !.dev = NoDev]
    <2>1. r.pc = "cleanupStaging" /\ r.op = call[c].op /\ r.vol = call[c].vol /\ r.waiting = call[c].waiting
      BY <1>2 DEF Invocation
    <2>2. \/ Return(c, FALSE)
          \/ call[c].op = "unstage" /\ call' = [call EXCEPT ![c] = r] /\ UNCHANGED kubeletVars
      BY <1>2, <1>4 DEF AfterDelete
    <2>3. call[c].op = "unstage" => "cleanupStaging" \in AtWork /\ Fits("cleanupStaging", call[c].op)
      BY DEF AtWork, Fits, StagePc, DeletePc, UnstagePc, PublishPc, UnpublishPc
    <2> HIDE DEF r
    <2> QED BY <2>1, <2>2, <2>3, LocalMovesOn
  <1>5. CASE Resolve(c)
    <2>1. \/ AfterDelete(c)
          \/ \E d : call' = [call EXCEPT ![c] = [call[c] EXCEPT !.pc = "stopUnit", !.dev = d]] /\ UNCHANGED kubeletVars
      BY <1>5 DEF Resolve
    <2>2. ASSUME NEW d, call' = [call EXCEPT ![c] = [call[c] EXCEPT !.pc = "stopUnit", !.dev = d]],
                 UNCHANGED kubeletVars
          PROVE  MovesOn(c)
      <3> DEFINE r == [call[c] EXCEPT !.pc = "stopUnit", !.dev = d]
      <3>1. r.pc = "stopUnit" /\ r.op = call[c].op /\ r.vol = call[c].vol /\ r.waiting = call[c].waiting
        BY <1>2 DEF Invocation
      <3>2. call' = [call EXCEPT ![c] = r] /\ "stopUnit" \in DeletePc
        BY <2>2 DEF DeletePc
      <3> HIDE DEF r
      <3> QED BY <1>3, <2>2, <3>1, <3>2, LocalMovesOn
    <2> QED BY <1>2, <1>4, <2>1, <2>2
  <1>6. CASE StopUblkUnit(c)
    <2>1. Goto(c, "ublkDel") /\ "ublkDel" \in DeletePc
      BY <1>6 DEF StopUblkUnit, DeletePc
    <2> QED BY <1>2, <1>3, <2>1, GotoMovesOn
  <1>7. CASE StopFails(c) \/ DeleteDevice(c) \/ DeleteDeviceFails(c)
    BY <1>2, <1>4, <1>7 DEF StopFails, DeleteDevice, DeleteDeviceFails
  <1> QED BY <1>5, <1>6, <1>7 DEF DeleteUblkDevice

\* NodeUnstageVolume answers or moves on.
LEMMA UnstageMoves ==
  ASSUME TypeOK, NEW c \in Call, OpAt(c), NodeUnstageVolume(c)
  PROVE  call[c].pc \in AtWork /\ (Return(c, TRUE) \/ Return(c, FALSE) \/ MovesOn(c))
  <1>1. call[c].pc \in UnstagePc
    BY DEF NodeUnstageVolume, UnstageCheck, UnmountStaging, UnmountStagingFails, CleanupStaging,
       DeleteEntry, At, UnstagePc
  <1>2. call[c].op = "unstage" /\ call[c].pc \in AtWork
    BY <1>1 DEF OpAt, AtWork
  <1>3. \A pc \in UnstagePc \cup {"resolve"} : pc \in AtWork /\ Fits(pc, call[c].op) /\ pc # "stageMount"
    BY <1>2 DEF AtWork, Fits, StagePc, DeletePc, UnstagePc, PublishPc, UnpublishPc
  <1>4. {"unmountStaging", "delete"} \subseteq UnstagePc
    BY DEF UnstagePc
  <1>5. ASSUME NEW pc \in UnstagePc \cup {"resolve"}, Goto(c, pc) PROVE MovesOn(c)
    BY <1>3, <1>5, GotoMovesOn
  <1>6. \/ Return(c, TRUE) \/ Return(c, FALSE)
        \/ Goto(c, "unmountStaging") \/ Goto(c, "resolve") \/ Goto(c, "delete")
    BY DEF NodeUnstageVolume, UnstageCheck, UnmountStaging, UnmountStagingFails, CleanupStaging, DeleteEntry
  <1> QED BY <1>2, <1>4, <1>5, <1>6

\* A stage or an unstage tells the kubelet of its volume only, and takes back
\* that it is staged only while nothing is published of it.
LEMMA WorkTells ==
  ASSUME TypeOK, MountInv, NEW c \in Call, NEW v \in Volume, v = call[c].vol,
         call[c].op \in OnVolume, call[c].waiting,
         Return(c, TRUE) \/ Return(c, FALSE) \/ MovesOn(c)
  PROVE  /\ published' = published
         /\ staged[v] = "yes" => staged'[v] = "yes" \/ \A u \in Target : published[<<v, u>>] = "no"
  <1>1. CASE MovesOn(c)
    BY <1>1 DEF MovesOn, Stays
  <1>2. ASSUME NEW ok \in BOOLEAN, Return(c, ok)
        PROVE  /\ published' = published
               /\ staged[v] = "yes" => staged'[v] = "yes" \/ \A u \in Target : published[<<v, u>>] = "no"
    <2>1. published' = published
      BY <1>2 DEF Return, OnVolume, OnTarget
    <2>2. staged' = [staged EXCEPT ![v] = Learn(call[c].op, ok, staged[v])]
      BY <1>2 DEF Return
    <2>3. staged'[v] = Learn(call[c].op, ok, staged[v])
      BY <2>2 DEF TypeOK
    <2>4. CASE call[c].op = "stage"
      BY <2>1, <2>3, <2>4 DEF Learn
    <2>5. CASE call[c].op = "unstage"
      BY <2>1, <2>5 DEF MountInv, OnPathOK
    <2> QED BY <2>4, <2>5 DEF OnVolume
  <1> QED BY <1>1, <1>2

\* Stages and unstages keep the invariant.
LEMMA WorkMounts ==
  ASSUME HostAssumption, TypeOK, HeldInv, MountInv, NEW c \in Call,
         NodeStageVolume(c) \/ DeleteUblkDevice(c) \/ NodeUnstageVolume(c)
  PROVE  MountInv'
  <1>1. call[c].pc \in AtWork /\ (Return(c, TRUE) \/ Return(c, FALSE) \/ MovesOn(c)) /\ OnPathOK(c) /\ OpAt(c)
    <2>1. OnPathOK(c) /\ OpAt(c)
      BY DEF MountInv, OnPathOK
    <2> QED BY <2>1, StageMoves, DeleteMoves, UnstageMoves
  <1>2. call[c].pc \notin {"idle", "removeTarget", "bind", "unmountTarget"} /\ call[c].op \in OnVolume
    BY <1>1 DEF AtWork, StagePc, DeletePc, UnstagePc, OpAt, OnVolume
  <1>3. PICK v \in Volume : v = call[c].vol /\ call[c].waiting /\ alive /\ \A o \in Call : o # c => call[o].vol # v
    BY <1>2, Alone
  <1>4. Handler(c)
    BY DEF Handler
  <1>5. OthersStand(c) /\ alive' = alive /\ \A w \in Volume : w # v => staged'[w] = staged[w]
    BY <1>3, <1>4, HandlerLocal, HandlerRuns DEF OthersUntouched
  <1>6. /\ published' = published
        /\ staged[v] = "yes" => staged'[v] = "yes" \/ \A u \in Target : published[<<v, u>>] = "no"
    BY <1>1, <1>2, <1>3, WorkTells
  <1>7. KeepsMounts \/ LosesDevice(c) \/ Stages(c) \/ Unstages(c)
    BY <1>1, <1>4, HandlerMounts DEF Binds, Unbinds, AtWork, StagePc, DeletePc, UnstagePc
  <1>8. /\ \A w \in Volume : w # v => Fades(staging[w], staging'[w])
        /\ \A w \in Volume, u \in Target : Fades(target[<<w, u>>], target'[<<w, u>>])
        /\ AtMostOne(staging'[v])
    <2>1. AtMostOne(staging[v])
      BY DEF MountInv
    <2>2. CASE KeepsMounts
      BY <2>1, <2>2, SameFades DEF KeepsMounts
    <2>3. CASE LosesDevice(c)
      BY <1>3, <2>1, <2>3, LoseFades DEF LosesDevice, Fades
    <2>4. CASE Stages(c)
      <3>1. staging[v] = <<>> /\ "live" \in Mount
        BY <1>1, <1>3, <2>4 DEF Stages, OnPathOK, Mount
      <3>2. staging' = [staging EXCEPT ![v] = <<"live">>] /\ target' = target
        BY <1>3, <2>4, <3>1, FirstMount DEF Stages
      <3> QED BY <3>1, <3>2, SameFades, FirstMount DEF TypeOK, HostTypeOK
    <2>5. CASE Unstages(c)
      <3>1. staging' = [staging EXCEPT ![v] = <<>>] /\ target' = target
        BY <1>3, <2>1, <2>5, OneMount DEF Unstages
      <3> QED BY <3>1, SameFades DEF TypeOK, HostTypeOK, AtMostOne
    <2> QED BY <1>7, <2>2, <2>3, <2>4, <2>5
  <1>9. ASSUME NEW u \in Target PROVE PathOK(v, u)'
    <2>1. PathOK(v, u) /\ Fades(target[<<v, u>>], target'[<<v, u>>]) /\ published' = published
      BY <1>6, <1>8 DEF MountInv
    <2>2. ~Removing(v, u)
      BY <1>2, <1>3 DEF Removing
    <2> QED BY <1>6, <2>1, <2>2 DEF PathOK, Fades
  <1>10. OnPathOK(c)'
    <2>1. CASE Return(c, TRUE) \/ Return(c, FALSE)
      <3>1. call'[c] = Idle
        BY <2>1 DEF Return, TypeOK
      <3> QED BY <3>1, IdleOK
    <2>2. CASE MovesOn(c)
      <3>1. call'[c].op = call[c].op /\ call'[c].vol = v /\ call'[c].pc \in AtWork /\ Fits(call'[c].pc, call'[c].op)
        BY <1>3, <2>2 DEF MovesOn, Stays
      <3>2. OpAt(c)'
        BY <3>1 DEF OpAt, Fits
      <3>3. /\ call'[c].op \notin OnTarget \cup {"publish"}
            /\ call'[c].pc \notin PublishPc \cup UnpublishPc \cup {"bind", "removeTarget", "recordTarget"}
        BY <1>2, <3>1 DEF OnVolume, OnTarget, AtWork, StagePc, DeletePc, UnstagePc, PublishPc, UnpublishPc
      <3>4. call'[c].op = "unstage" => \A u \in Target : published'[<<v, u>>] = "no"
        BY <1>1, <1>3, <1>6, <3>1 DEF OnPathOK
      <3>5. call'[c].pc = "stageMount" => staging'[v] = <<>>
        BY <1>3, <2>2 DEF MovesOn
      <3> QED BY <3>1, <3>2, <3>3, <3>4, <3>5 DEF OnPathOK
    <2> QED BY <1>1, <2>1, <2>2
  <1> QED BY <1>3, <1>5, <1>6, <1>8, <1>9, <1>10, MountFrame

(***************************************************************************)
(* NodePublishVolume and NodeUnpublishVolume.                              *)
(***************************************************************************)
SameTarget(v, t) == target'[<<v, t>>] = target[<<v, t>>] /\ published'[<<v, t>>] = published[<<v, t>>]

\* What a publish or an unpublish in flight relies on.
LEMMA AtPath ==
  ASSUME HostAssumption, HeldInv, MountInv, NEW c \in Call, call[c].pc \in PublishPc \cup UnpublishPc
  PROVE  /\ call[c].vol \in Volume /\ call[c].tgt \in Target /\ call[c].waiting /\ alive
         /\ call[c].op = (IF call[c].pc \in PublishPc THEN "publish" ELSE "unpublish")
         /\ staged[call[c].vol] = "yes" /\ PathOK(call[c].vol, call[c].tgt) /\ OnPathOK(c)
         /\ \A o \in Call : o # c => call[o].vol # call[c].vol
         /\ call[c].pc # "removeTarget" => ~Removing(call[c].vol, call[c].tgt)
  <1>1. call[c].pc # "idle" /\ OnPathOK(c) /\ (call[c].pc \in PublishPc => call[c].pc \notin UnpublishPc)
    BY DEF PublishPc, UnpublishPc, MountInv
  <1>2. PICK v \in Volume : v = call[c].vol /\ call[c].waiting /\ alive /\ \A o \in Call : o # c => call[o].vol # v
    BY <1>1, Alone
  <1>3. /\ call[c].op = (IF call[c].pc \in PublishPc THEN "publish" ELSE "unpublish")
        /\ call[c].tgt \in Target /\ staged[v] = "yes"
    BY <1>1, <1>2 DEF OnPathOK, OnTarget
  <1> QED BY <1>1, <1>2, <1>3 DEF MountInv, Removing

\* What an answer to a publish or an unpublish makes of the kubelet's belief.
LEMMA ToldOfPath ==
  ASSUME TypeOK, NEW c \in Call, call[c].waiting, call[c].op \in OnTarget,
         NEW v \in Volume, v = call[c].vol, NEW t \in Target, t = call[c].tgt, NEW ok, Return(c, ok)
  PROVE  /\ staged' = staged /\ call'[c] = Idle /\ OthersStand(c)
         /\ \A w \in Volume, u \in Target : <<w, u>> # <<v, t>> => published'[<<w, u>>] = published[<<w, u>>]
         /\ published'[<<v, t>>] = Learn(call[c].op, ok, published[<<v, t>>])
  <1>1. staged' = staged /\ call'[c] = Idle /\ OthersStand(c)
    BY DEF Return, OnTarget, OnVolume, OthersStand, TypeOK
  <1>2. published' = [published EXCEPT ![<<v, t>>] = Learn(call[c].op, ok, published[<<v, t>>])]
    BY DEF Return
  <1> QED BY <1>1, <1>2 DEF TypeOK

\* A step of an invocation for path t of v that leaves all other paths alone.
LEMMA PathFrame ==
  ASSUME HostAssumption, HeldInv, MountInv, NEW c \in Call, call[c].pc \in PublishPc \cup UnpublishPc,
         NEW v \in Volume, v = call[c].vol, NEW t \in Target, t = call[c].tgt,
         OthersStand(c), alive' = alive, staging' = staging, staged' = staged,
         \A w \in Volume, u \in Target : <<w, u>> # <<v, t>> => SameTarget(w, u),
         PathOK(v, t)', OnPathOK(c)'
  PROVE  MountInv'
  <1>1. alive /\ \A o \in Call : o # c => call[o].vol # v
    BY AtPath
  <1>2. ASSUME NEW u \in Target, u # t PROVE PathOK(v, u)'
    <2>1. SameTarget(v, u) /\ PathOK(v, u)
      BY <1>2 DEF MountInv
    <2>2. ~Removing(v, u)
      BY <1>1, <1>2 DEF Removing
    <2> QED BY <2>1, <2>2 DEF PathOK, SameTarget
  <1>3. \A w \in Volume : w # v =>
           /\ staged'[w] = staged[w] /\ Fades(staging[w], staging'[w])
           /\ \A u \in Target : /\ published'[<<w, u>>] = published[<<w, u>>]
                                /\ Fades(target[<<w, u>>], target'[<<w, u>>])
    BY SameFades DEF SameTarget
  <1>4. AtMostOne(staging'[v])
    BY DEF MountInv
  <1> QED BY <1>1, <1>2, <1>3, <1>4, MountFrame

\* Going on with a publish or an unpublish keeps the invariant when the next
\* place fits what is mounted.
LEMMA PathGoesOn ==
  ASSUME HostAssumption, TypeOK, HeldInv, MountInv, NEW c \in Call, call[c].pc \in PublishPc \cup UnpublishPc,
         NEW v \in Volume, v = call[c].vol, NEW t \in Target, t = call[c].tgt,
         NEW r \in Invocation, call' = [call EXCEPT ![c] = r], UNCHANGED kubeletVars,
         r.vol = v, r.tgt = t, r.op = call[c].op,
         r.pc \in (IF call[c].pc \in PublishPc THEN PublishPc ELSE UnpublishPc),
         staging' = staging, alive' = alive,
         \A w \in Volume, u \in Target : <<w, u>> # <<v, t>> => target'[<<w, u>>] = target[<<w, u>>],
         AtMostOne(target'[<<v, t>>]),
         r.pc \in {"bind", "removeTarget"} => target'[<<v, t>>] = <<>>,
         r.pc = "recordTarget" => target'[<<v, t>>] # <<>>,
         published[<<v, t>>] = "yes" => target'[<<v, t>>] # <<>> \/ r.pc = "removeTarget"
  PROVE  MountInv'
  <1>1. OthersStand(c) /\ staged' = staged /\ published' = published /\ call'[c] = r
    BY DEF OthersStand, kubeletVars, TypeOK
  <1>2. /\ OnPathOK(c) /\ staged[v] = "yes" /\ PathOK(v, t)
        /\ r.op = (IF call[c].pc \in PublishPc THEN "publish" ELSE "unpublish")
    BY AtPath
  <1>3. PathOK(v, t)'
    <2>1. r.pc = "removeTarget" => Removing(v, t)'
      BY <1>1 DEF Removing
    <2> QED BY <1>1, <1>2, <2>1 DEF PathOK
  <1>4. OnPathOK(c)'
    <2>1. r.pc \in PublishPc => r.op = "publish" /\ r.pc \notin UnpublishPc
      BY <1>2 DEF PublishPc, UnpublishPc
    <2>2. r.pc \in UnpublishPc => r.op = "unpublish"
      BY <1>2 DEF PublishPc, UnpublishPc
    <2>3. r.pc \notin StagePc \cup DeletePc \cup UnstagePc \cup {"idle", "stageMount"} /\ r.op \in OnTarget /\ r.op # "unstage"
      BY <1>2 DEF PublishPc, UnpublishPc, StagePc, DeletePc, UnstagePc, OnTarget
    <2>4. call'[c].vol \in Volume /\ OpAt(c)'
      BY <1>1, <2>3 DEF OpAt
    <2>5. r.op = "publish" => published'[<<v, t>>] # "leaving"
      BY <1>1, <1>2 DEF OnPathOK
    <2> QED BY <1>1, <1>2, <2>1, <2>2, <2>3, <2>4, <2>5 DEF OnPathOK
  <1> QED BY <1>1, <1>3, <1>4, PathFrame DEF SameTarget

\* A step to another place that sets no local is such a step.
LEMMA PathGoto ==
  ASSUME TypeOK, NEW c \in Call, NEW pc \in Pc, Goto(c, pc)
  PROVE  \E r \in Invocation : /\ call' = [call EXCEPT ![c] = r] /\ UNCHANGED kubeletVars
                               /\ r.vol = call[c].vol /\ r.tgt = call[c].tgt /\ r.op = call[c].op /\ r.pc = pc
  <1> DEFINE r == [call[c] EXCEPT !.pc = pc]
  <1>1. call[c] \in Invocation
    BY DEF TypeOK
  <1>2. r \in Invocation /\ r.vol = call[c].vol /\ r.tgt = call[c].tgt /\ r.op = call[c].op /\ r.pc = pc
    BY <1>1 DEF Invocation
  <1>3. call' = [call EXCEPT ![c] = r] /\ UNCHANGED kubeletVars
    BY DEF Goto
  <1> HIDE DEF r
  <1> QED BY <1>2, <1>3

\* Answering keeps the invariant when the answer fits what is mounted.
LEMMA PathAnswers ==
  ASSUME HostAssumption, TypeOK, HeldInv, MountInv, NEW c \in Call, call[c].pc \in PublishPc \cup UnpublishPc,
         NEW v \in Volume, v = call[c].vol, NEW t \in Target, t = call[c].tgt,
         NEW ok \in BOOLEAN, Return(c, ok), staging' = staging, alive' = alive,
         \A w \in Volume, u \in Target : <<w, u>> # <<v, t>> => target'[<<w, u>>] = target[<<w, u>>],
         AtMostOne(target'[<<v, t>>]),
         Learn(call[c].op, ok, published[<<v, t>>]) = "yes" => target'[<<v, t>>] # <<>>
  PROVE  MountInv'
  <1>1. staged[v] = "yes" /\ call[c].waiting /\ call[c].op \in OnTarget
    BY AtPath DEF OnTarget
  <1>2. Return(c, ok)
    OBVIOUS
  <1>3. /\ staged' = staged /\ call'[c] = Idle /\ OthersStand(c)
        /\ \A w \in Volume, u \in Target : <<w, u>> # <<v, t>> => published'[<<w, u>>] = published[<<w, u>>]
        /\ published'[<<v, t>>] = Learn(call[c].op, ok, published[<<v, t>>])
    BY <1>1, <1>2, ToldOfPath
  <1>4. PathOK(v, t)'
    BY <1>1, <1>3 DEF PathOK
  <1>5. OnPathOK(c)'
    BY <1>3, IdleOK
  <1> QED BY <1>3, <1>4, <1>5, PathFrame DEF SameTarget

\* NodePublishVolume keeps the invariant.
LEMMA PublishMounts ==
  ASSUME HostAssumption, TypeOK, HeldInv, MountInv, NEW c \in Call, NodePublishVolume(c)
  PROVE  MountInv'
  <1>1. call[c].pc \in PublishPc /\ call[c].pc # "removeTarget"
    BY DEF NodePublishVolume, PublishCheck, BindCheck, BindOk, BindFails, RecordTarget, At, PublishPc
  <1>2. PICK v \in Volume, t \in Target :
          /\ v = call[c].vol /\ t = call[c].tgt /\ call[c].op = "publish"
          /\ PathOK(v, t) /\ OnPathOK(c) /\ ~Removing(v, t)
    BY <1>1, AtPath
  <1>3. AtMostOne(target[<<v, t>>]) /\ (published[<<v, t>>] = "yes" => target[<<v, t>>] # <<>>)
    BY <1>2 DEF PathOK
  <1>4. staging' = staging /\ alive' = alive
    BY DEF NodePublishVolume, PublishCheck, BindCheck, BindOk, BindFails, RecordTarget, Quiet, hostVars, mounts
  <1>5. ASSUME NEW pc \in {"bindCheck", "bind", "recordTarget"}, Goto(c, pc),
               \A w \in Volume, u \in Target : <<w, u>> # <<v, t>> => target'[<<w, u>>] = target[<<w, u>>],
               AtMostOne(target'[<<v, t>>]),
               pc = "bind" => target'[<<v, t>>] = <<>>,
               pc = "recordTarget" => target'[<<v, t>>] # <<>>,
               target[<<v, t>>] # <<>> => target'[<<v, t>>] # <<>>
        PROVE  MountInv'
    <2>1. pc \in Pc /\ pc \in PublishPc /\ pc # "removeTarget"
      BY <1>5 DEF Pc, PublishPc
    <2>2. PICK r \in Invocation : /\ call' = [call EXCEPT ![c] = r] /\ UNCHANGED kubeletVars
                                  /\ r.vol = v /\ r.tgt = t /\ r.op = call[c].op /\ r.pc = pc
      BY <1>2, <1>5, <2>1, PathGoto
    <2> QED BY <1>1, <1>2, <1>3, <1>4, <1>5, <2>1, <2>2, PathGoesOn
  <1>6. ASSUME NEW ok \in BOOLEAN, Return(c, ok), target' = target, ok => target[<<v, t>>] # <<>>
        PROVE  MountInv'
    <2>1. Learn(call[c].op, ok, published[<<v, t>>]) = "yes" => target'[<<v, t>>] # <<>>
      BY <1>2, <1>3, <1>6 DEF Learn
    <2> QED BY <1>1, <1>2, <1>3, <1>4, <1>6, <2>1, PathAnswers
  <1>7. CASE PublishCheck(c)
    <2>1. target' = target /\ (Return(c, FALSE) \/ Goto(c, "bindCheck"))
      BY <1>7 DEF PublishCheck, Quiet, hostVars
    <2> QED BY <1>3, <1>5, <1>6, <2>1
  <1>8. CASE BindCheck(c)
    <2>1. target' = target /\ (MountedAt(target[<<v, t>>]) <=> target[<<v, t>>] # <<>>)
      BY <1>8 DEF BindCheck, mounts, MountedAt
    <2>2. \/ target[<<v, t>>] # <<>> /\ Goto(c, "recordTarget")
          \/ target[<<v, t>>] = <<>> /\ Goto(c, "bind")
          \/ Return(c, FALSE)
      BY <1>2, <1>8, <2>1 DEF BindCheck
    <2> QED BY <1>3, <1>5, <1>6, <2>1, <2>2
  <1>9. CASE BindOk(c)
    <2>1. target[<<v, t>>] = <<>>
      BY <1>2, <1>9 DEF BindOk, At, OnPathOK
    <2>2. PICK m \in BindSource(v) : target' = [target EXCEPT ![<<v, t>>] = <<m>> \o <<>>]
      BY <1>2, <1>9, <2>1 DEF BindOk
    <2>3. m \in Mount
      <3>1. CASE MountedAt(staging[v])
        <4>1. staging[v] \in Seq(Mount) /\ staging[v] # <<>>
          BY <3>1 DEF TypeOK, HostTypeOK, MountedAt
        <4> QED BY <4>1, <2>2 DEF BindSource, Mount
      <3> QED BY <2>2, <3>1 DEF BindSource, Mount
    <2>4. /\ target'[<<v, t>>] = <<m>>
          /\ \A w \in Volume, u \in Target : <<w, u>> # <<v, t>> => target'[<<w, u>>] = target[<<w, u>>]
      BY <2>2, <2>3, FirstMount DEF TypeOK, HostTypeOK
    <2>5. AtMostOne(target'[<<v, t>>]) /\ target'[<<v, t>>] # <<>>
      BY <2>3, <2>4, FirstMount
    <2> QED BY <1>5, <1>9, <2>4, <2>5 DEF BindOk
  <1>10. CASE BindFails(c)
    BY <1>6, <1>10 DEF BindFails, Quiet, hostVars
  <1>11. CASE RecordTarget(c)
    <2>1. target[<<v, t>>] # <<>> /\ target' = target /\ Return(c, TRUE)
      BY <1>2, <1>11 DEF RecordTarget, At, OnPathOK, Quiet, hostVars
    <2> QED BY <1>6, <2>1
  <1> QED BY <1>7, <1>8, <1>9, <1>10, <1>11 DEF NodePublishVolume

\* NodeUnpublishVolume keeps the invariant, and answers "done" with nothing mounted.
LEMMA UnpublishMounts ==
  ASSUME HostAssumption, TypeOK, HeldInv, MountInv, NEW c \in Call, NodeUnpublishVolume(c)
  PROVE  /\ MountInv'
         /\ \A v \in Volume, t \in Target :
              published[<<v, t>>] # "no" /\ published'[<<v, t>>] = "no" => target'[<<v, t>>] = <<>>
  <1> DEFINE Answered == \A v \in Volume, t \in Target :
                       published[<<v, t>>] # "no" /\ published'[<<v, t>>] = "no" => target'[<<v, t>>] = <<>>
  <1>1. call[c].pc \in UnpublishPc /\ call[c].pc \notin PublishPc
    BY DEF NodeUnpublishVolume, UnpublishCheck, UnmountTarget, UnmountTargetFails, RemoveTarget, At,
       UnpublishPc, PublishPc
  <1>2. PICK v \in Volume, t \in Target :
          /\ v = call[c].vol /\ t = call[c].tgt /\ call[c].op = "unpublish" /\ call[c].waiting
          /\ PathOK(v, t) /\ OnPathOK(c)
          /\ call[c].pc # "removeTarget" => ~Removing(v, t)
    BY <1>1, AtPath
  <1>3. /\ AtMostOne(target[<<v, t>>]) /\ Unmount(target[<<v, t>>]) = <<>>
        /\ published[<<v, t>>] = "yes" /\ call[c].pc # "removeTarget" => target[<<v, t>>] # <<>>
        /\ AtMostOne(<<>>)
    <2>1. AtMostOne(target[<<v, t>>])
      BY <1>2 DEF PathOK
    <2> QED BY <1>2, <2>1, OneMount DEF PathOK, AtMostOne
  <1>4. staging' = staging /\ alive' = alive
    BY DEF NodeUnpublishVolume, UnpublishCheck, UnmountTarget, UnmountTargetFails, RemoveTarget, Quiet, hostVars, mounts
  <1>5. ASSUME NEW ok \in BOOLEAN, Return(c, ok),
               \A w \in Volume, u \in Target : <<w, u>> # <<v, t>> => target'[<<w, u>>] = target[<<w, u>>],
               AtMostOne(target'[<<v, t>>]), ok => target'[<<v, t>>] = <<>>
        PROVE  MountInv' /\ Answered
    <2>1. Learn(call[c].op, ok, published[<<v, t>>]) = IF ok THEN "no" ELSE "leaving"
      BY <1>2, <1>5 DEF Learn, Doubt
    <2>2. MountInv'
      BY <1>1, <1>2, <1>4, <1>5, <2>1, PathAnswers
    <2>3. Answered
      <3>1. Return(c, ok)
        BY <1>5
      <3>2. /\ \A w \in Volume, u \in Target : <<w, u>> # <<v, t>> => published'[<<w, u>>] = published[<<w, u>>]
            /\ published'[<<v, t>>] = IF ok THEN "no" ELSE "leaving"
        BY <1>2, <2>1, <3>1, ToldOfPath DEF OnTarget
      <3> QED BY <1>5, <3>2
    <2> QED BY <2>2, <2>3
  <1>6. CASE UnpublishCheck(c)
    <2> DEFINE r == [call[c] EXCEPT !.pc = "unmountTarget", !.known = (VolMap[call[c].vol] # "absent")]
    <2>1. r \in Invocation /\ r.vol = v /\ r.tgt = t /\ r.op = call[c].op /\ r.pc = "unmountTarget"
      <3>1. call[c] \in Invocation
        BY DEF TypeOK
      <3> QED BY <1>2, <3>1 DEF Invocation, Pc, UnpublishPc
    <2>2. call' = [call EXCEPT ![c] = r] /\ UNCHANGED kubeletVars /\ target' = target
      BY <1>6 DEF UnpublishCheck, Quiet, hostVars
    <2>3. call[c].pc # "removeTarget" /\ "unmountTarget" \in UnpublishPc
      BY <1>6 DEF UnpublishCheck, At, UnpublishPc
    <2> HIDE DEF r
    <2>4. MountInv'
      BY <1>1, <1>2, <1>3, <1>4, <2>1, <2>2, <2>3, PathGoesOn
    <2> QED BY <2>2, <2>4 DEF kubeletVars
  <1>7. CASE UnmountTarget(c)
    <2>1. target' = [target EXCEPT ![<<v, t>>] = Unmount(target[<<v, t>>])]
      BY <1>2, <1>7 DEF UnmountTarget
    <2>2. /\ target'[<<v, t>>] = <<>>
          /\ \A w \in Volume, u \in Target : <<w, u>> # <<v, t>> => target'[<<w, u>>] = target[<<w, u>>]
      BY <1>3, <2>1 DEF TypeOK, HostTypeOK
    <2>3. CASE Return(c, TRUE)
      BY <1>3, <1>5, <2>2, <2>3
    <2>4. CASE Goto(c, "removeTarget")
      <3>1. "removeTarget" \in Pc /\ "removeTarget" \in UnpublishPc
        BY DEF Pc, UnpublishPc
      <3>2. PICK r \in Invocation : /\ call' = [call EXCEPT ![c] = r] /\ UNCHANGED kubeletVars
                                    /\ r.vol = v /\ r.tgt = t /\ r.op = call[c].op /\ r.pc = "removeTarget"
        BY <1>2, <2>4, <3>1, PathGoto
      <3>3. /\ AtMostOne(target'[<<v, t>>]) /\ r.pc \in (IF call[c].pc \in PublishPc THEN PublishPc ELSE UnpublishPc)
            /\ published[<<v, t>>] = "yes" => target'[<<v, t>>] # <<>> \/ r.pc = "removeTarget"
        BY <1>1, <1>3, <2>2, <3>1, <3>2
      <3>4. MountInv'
        BY <1>1, <1>2, <1>4, <2>2, <3>2, <3>3, PathGoesOn
      <3> QED BY <3>2, <3>4 DEF kubeletVars
    <2> QED BY <1>7, <2>3, <2>4 DEF UnmountTarget
  <1>8. CASE UnmountTargetFails(c)
    <2>1. target' = target
      BY <1>8 DEF UnmountTargetFails, Quiet, hostVars
    <2> QED BY <1>3, <1>5, <1>8, <2>1 DEF UnmountTargetFails
  <1>9. CASE RemoveTarget(c)
    <2>1. target[<<v, t>>] = <<>>
      BY <1>2, <1>9 DEF RemoveTarget, At, OnPathOK
    <2>2. target' = [target EXCEPT ![<<v, t>>] = <<>>] \/ target' = target
      <3>1. Unmount(<<>>) = <<>>
        BY <1>3, <2>1
      <3> QED BY <1>2, <1>9, <2>1, <3>1 DEF RemoveTarget
    <2>3. /\ target'[<<v, t>>] = <<>>
          /\ \A w \in Volume, u \in Target : <<w, u>> # <<v, t>> => target'[<<w, u>>] = target[<<w, u>>]
      <3>1. CASE target' = [target EXCEPT ![<<v, t>>] = <<>>]
        BY <3>1 DEF TypeOK, HostTypeOK
      <3> QED BY <2>1, <2>2, <3>1
    <2> QED BY <1>3, <1>5, <1>9, <2>3 DEF RemoveTarget
  <1> QED BY <1>6, <1>7, <1>8, <1>9 DEF NodeUnpublishVolume

(***************************************************************************)
(* The kubelet, the host and the process.                                  *)
(***************************************************************************)

\* A request that has just come in fits what the kubelet believes.
LEMMA BeginMounts ==
  ASSUME HostAssumption, TypeOK, HeldInv, MountInv, NEW c \in Call, NEW op, NEW pc,
         NEW v \in Volume, NEW t, NEW f, Begin(c, op, pc, v, t, f),
         Fits(pc, op), pc \notin {"bind", "removeTarget", "recordTarget", "stageMount"},
         pc \in PublishPc => op = "publish", pc \in UnpublishPc => op = "unpublish",
         op \in OnTarget => t \in Target /\ staged[v] = "yes",
         op = "publish" => published[<<v, t>>] # "leaving",
         op = "unstage" => \A u \in Target : published[<<v, u>>] = "no"
  PROVE  MountInv'
  <1>1. /\ OthersStand(c) /\ UNCHANGED <<staging, target, published, staged>> /\ alive /\ alive'
        /\ call'[c].pc = pc /\ call'[c].op = op /\ call'[c].vol = v /\ call'[c].tgt = t
    BY DEF Begin, Idle, OthersStand, TypeOK, hostVars, kubeletVars
  <1>2. call[c].pc = "idle" /\ call[c].vol = NoVol
    BY IdleAt DEF Begin
  <1>3. OnPathOK(c)'
    BY <1>1 DEF OnPathOK, OpAt, Fits
  <1>4. \A o \in Call : o # c => call[o].vol # v
    BY DEF Begin, Busy, HeldInv, OneCallPerVolume, HostAssumption
  <1>5. ASSUME NEW u \in Target PROVE PathOK(v, u)'
    <2>1. ~Removing(v, u)
      BY <1>2, <1>4 DEF Removing
    <2> QED BY <1>1, <2>1 DEF MountInv, PathOK
  <1>6. AtMostOne(staging'[v])
    BY <1>1 DEF MountInv
  <1> QED BY <1>1, <1>2, <1>3, <1>4, <1>5, <1>6, MountFrame, SameFades

\* The kubelet asks for what fits its belief.
LEMMA AskingMounts ==
  ASSUME HostAssumption, NodeAssumption, "clientTimeout" \notin Faults,
         TypeOK, HeldInv, MountInv, NEW c \in Call, Kubelet(c)
  PROVE  MountInv'
  <1>1. ~Abandon(c)
    BY DEF Abandon, Can
  <1> DEFINE Settling == {"bind", "removeTarget", "recordTarget", "stageMount"}
  <1>2. /\ "stageCheck" \notin PublishPc \cup UnpublishPc \cup Settling
        /\ "unstageCheck" \notin PublishPc \cup UnpublishPc \cup Settling
        /\ "publishCheck" \notin UnpublishPc \cup Settling
        /\ "unpublishCheck" \notin PublishPc \cup Settling
        /\ {"stage", "unstage"} \cap OnTarget = {}
        /\ Fits("stageCheck", "stage") /\ Fits("unstageCheck", "unstage")
        /\ Fits("publishCheck", "publish") /\ Fits("unpublishCheck", "unpublish")
    BY DEF PublishPc, UnpublishPc, StagePc, UnstagePc, DeletePc, OnTarget, Fits
  <1>3. ASSUME NEW v \in Volume, CallStage(c, v) PROVE MountInv'
    <2>1. PICK f : Begin(c, "stage", "stageCheck", v, NoTgt, f)
      BY <1>3 DEF CallStage
    <2> QED BY <1>2, <2>1, BeginMounts
  <1>4. ASSUME NEW v \in Volume, CallUnstage(c, v) PROVE MountInv'
    BY <1>2, <1>4, BeginMounts DEF CallUnstage
  <1>5. ASSUME NEW v \in Volume, NEW t \in Target, CallPublish(c, v, t) PROVE MountInv'
    BY <1>2, <1>5, BeginMounts DEF CallPublish
  <1>6. ASSUME NEW v \in Volume, NEW t \in Target, CallUnpublish(c, v, t) PROVE MountInv'
    <2>1. staged[v] = "yes"
      BY <1>6 DEF CallUnpublish, MountInv, PathOK
    <2> QED BY <1>2, <1>6, <2>1, BeginMounts DEF CallUnpublish
  <1> QED BY <1>1, <1>3, <1>4, <1>5, <1>6 DEF Kubelet

\* Daemons come and go; a crash makes mounts stale and no more.
LEMMA HostFades ==
  ASSUME TypeOK, Host
  PROVE  /\ UNCHANGED <<call, staged, published, alive>>
         /\ \A w \in Volume : /\ Fades(staging[w], staging'[w])
                              /\ \A u \in Target : Fades(target[<<w, u>>], target'[<<w, u>>])
  <1>1. PICK v \in Volume : DaemonUp(v) \/ DaemonCrash(v) \/ Respawn(v) \/ StartLimit(v) \/ Collect(v)
    BY DEF Host, HostNext
  <1>2. LoseMounts(v) \/ UNCHANGED mounts
    BY <1>1 DEF DaemonUp, DaemonCrash, DetachDaemon, Respawn, StartLimit, Collect
  <1>3. UNCHANGED <<call, staged, published, alive>>
    BY DEF Host, pluginVars, kubeletVars
  <1>4. \A w \in Volume : /\ Fades(staging[w], staging'[w])
                          /\ \A u \in Target : Fades(target[<<w, u>>], target'[<<w, u>>])
    BY <1>2, LoseFades, SameFades DEF mounts
  <1> QED BY <1>3, <1>4

\* A killed process takes its invocations with it; the kubelet then doubts
\* what it had asked for, and nothing else.
LEMMA CrashMounts ==
  ASSUME HostAssumption, TypeOK, HeldInv, MountInv, PluginCrash
  PROVE  MountInv'
  <1>1. staging' = staging /\ target' = target /\ \A c \in Call : call'[c] = Idle
    BY DEF PluginCrash, DaemonsSurvive, hostVars
  <1>2. ASSUME NEW c \in Call, call[c].waiting
        PROVE  /\ call[c].vol \in Volume /\ OnPathOK(c)
               /\ \A o \in Call : call[o].vol = call[c].vol => o = c
    <2>1. call[c].pc # "idle" /\ OnPathOK(c)
      BY <1>2, IdleAt DEF MountInv, OnPathOK, OpAt
    <2> QED BY <2>1, Alone
  <1>3. ASSUME NEW v \in Volume, NEW t \in Target PROVE PathOK(v, t)'
    <2>1. /\ staged'[v] = CASE Unanswered("stage", v) -> Doubt("stage", staged[v])
                            [] Unanswered("unstage", v) -> Doubt("unstage", staged[v])
                            [] OTHER -> staged[v]
          /\ published'[<<v, t>>] =
               CASE UnansweredAt("publish", v, t) -> Doubt("publish", published[<<v, t>>])
                 [] UnansweredAt("unpublish", v, t) -> Doubt("unpublish", published[<<v, t>>])
                 [] OTHER -> published[<<v, t>>]
      BY DEF PluginCrash
    <2>2. PathOK(v, t) /\ published[<<v, t>>] \in Belief
      BY DEF MountInv, TypeOK
    <2>3. ASSUME NEW op, Unanswered(op, v)
          PROVE  \E c \in Call : /\ call[c].waiting /\ call[c].op = op /\ call[c].vol = v
                                /\ OnPathOK(c) /\ \A o \in Call : call[o].vol = v => o = c
      BY <1>2, <2>3 DEF Unanswered
    <2>4. CASE UnansweredAt("publish", v, t) \/ UnansweredAt("unpublish", v, t)
      <3>1. PICK c \in Call : /\ call[c].waiting /\ call[c].vol = v /\ call[c].tgt = t
                              /\ call[c].op \in {"publish", "unpublish"}
        BY <2>4 DEF UnansweredAt
      <3>2. OnPathOK(c) /\ \A o \in Call : call[o].vol = v => o = c
        BY <1>2, <3>1
      <3>3. ~Unanswered("stage", v) /\ ~Unanswered("unstage", v) /\ staged[v] = "yes"
        BY <3>1, <3>2 DEF Unanswered, OnPathOK, OnTarget
      <3>4. /\ UnansweredAt("publish", v, t) => call[c].op = "publish"
            /\ UnansweredAt("unpublish", v, t) => call[c].op = "unpublish"
        BY <3>2 DEF UnansweredAt
      <3>5. staged'[v] = "yes"
        BY <2>1, <3>3
      <3>6. published'[<<v, t>>] = "yes" => published[<<v, t>>] = "yes" /\ call[c].op = "publish"
        BY <2>1, <2>4, <3>1, <3>4 DEF Doubt
      <3>7. Removing(v, t) => call[c].op = "unpublish"
        BY <3>2 DEF Removing, OnPathOK, UnpublishPc
      <3> QED BY <1>1, <2>2, <3>5, <3>6, <3>7 DEF PathOK
    <2>5. CASE ~UnansweredAt("publish", v, t) /\ ~UnansweredAt("unpublish", v, t)
      <3>1. published'[<<v, t>>] = published[<<v, t>>]
        BY <2>1, <2>5
      <3>2. ~Removing(v, t)
        <4>1. ASSUME NEW c \in Call, call[c].pc = "removeTarget", call[c].vol = v, call[c].tgt = t
              PROVE  UnansweredAt("unpublish", v, t)
          <5>1. call[c].op = "unpublish" /\ call[c].waiting
            BY <4>1, Alone DEF MountInv, OnPathOK, UnpublishPc
          <5> QED BY <4>1, <5>1 DEF UnansweredAt
        <4> QED BY <2>5, <4>1 DEF Removing
      <3>3. staged[v] = "yes" /\ published[<<v, t>>] # "no" => staged'[v] = "yes"
        <4>1. ASSUME NEW c \in Call, call[c].waiting, call[c].op = "unstage", call[c].vol = v
              PROVE  published[<<v, t>>] = "no"
          <5>1. OnPathOK(c)
            BY <1>2, <4>1
          <5> QED BY <4>1, <5>1 DEF OnPathOK
        <4>2. Unanswered("unstage", v) => published[<<v, t>>] = "no"
          BY <4>1 DEF Unanswered
        <4> QED BY <2>1, <4>2 DEF Doubt
      <3> QED BY <1>1, <2>2, <3>1, <3>2, <3>3 DEF PathOK
    <2> QED BY <2>4, <2>5
  <1> QED BY <1>1, <1>3, IdleOK DEF MountInv

\* Every step of NodeServer keeps the invariant.
LEMMA MountStep ==
  ASSUME HostAssumption, NodeAssumption, "clientTimeout" \notin Faults,
         TypeOK, HeldInv, MountInv, [Next]_vars
  PROVE  MountInv'
  <1>1. ASSUME NEW c \in Call, Kubelet(c) PROVE MountInv'
    BY <1>1, AskingMounts
  <1>2. ASSUME NEW c \in Call, Handler(c) PROVE MountInv'
    BY <1>2, WorkMounts, PublishMounts, UnpublishMounts DEF Handler
  <1>3. CASE Host
    BY <1>3, HostFades, FadingKeeps
  <1>4. CASE PluginCrash
    BY <1>4, CrashMounts
  <1>5. CASE UpdateNodeVolumeMap
    <2>1. UNCHANGED <<call, staged, published, staging, target>> /\ alive'
      BY <1>5 DEF UpdateNodeVolumeMap, hostVars, kubeletVars
    <2>2. ASSUME NEW w \in Volume, NEW u \in Target PROVE PathOK(w, u)'
      <3>1. PathOK(w, u) /\ Removing(w, u)' = Removing(w, u)
        BY <2>1 DEF MountInv, Removing
      <3> QED BY <2>1, <3>1 DEF PathOK
    <2>3. ASSUME NEW c \in Call PROVE OnPathOK(c)'
      BY <2>1 DEF MountInv, OnPathOK, OpAt
    <2> QED BY <2>1, <2>2, <2>3 DEF MountInv
  <1>6. CASE UNCHANGED vars
    BY <1>6, FadingKeeps, SameFades DEF vars, hostVars, pluginVars, kubeletVars
  <1> QED BY <1>1, <1>2, <1>3, <1>4, <1>5, <1>6 DEF Next

\* Nothing is mounted at first.
LEMMA InitMounts ==
  ASSUME Init
  PROVE  MountInv
  <1>1. \A c \in Call : call[c] = Idle
    BY DEF Init
  <1>2. \A v \in Volume : staging[v] = <<>> /\ \A t \in Target : target[<<v, t>>] = <<>> /\ published[<<v, t>>] = "no"
    BY DEF Init, HostInit
  <1>3. \A v \in Volume, t \in Target : PathOK(v, t)
    BY <1>2 DEF PathOK, AtMostOne
  <1>4. \A c \in Call : OnPathOK(c)
    BY <1>1, IdleAt DEF OnPathOK, OpAt, StagePc, UnstagePc, DeletePc, PublishPc, UnpublishPc, OnTarget
  <1> QED BY <1>1, <1>2, <1>3, <1>4 DEF MountInv, AtMostOne

\* The invariant, with what it rests on, holds of the node service.
LEMMA MountCorrect ==
  ASSUME HostAssumption, NodeAssumption, "clientTimeout" \notin Faults
  PROVE  Spec => [](TypeOK /\ HeldInv /\ MountInv)
  <1>1. Init => TypeOK /\ HeldInv /\ MountInv
    <2> SUFFICES ASSUME Init PROVE HeldInv
      BY InitType, InitMounts
    <2>1. Idle.vol = NoVol /\ Idle.pc \notin Holding /\ Idle.dev = NoDev
      BY DEF Idle, Holding
    <2> QED BY <2>1 DEF Init, HeldInv, OneCallPerVolume, HoldsOwnDevice
  <1>2. TypeOK /\ HeldInv /\ MountInv /\ [Next]_vars => (TypeOK /\ HeldInv /\ MountInv)'
    BY TypeStep, HeldStep, MountStep
  <1> QED BY <1>1, <1>2, PTL DEF Spec

\* However the handlers overlap, whatever fails, whichever daemon crashes and
\* whenever the process is killed: a staging path carries one mount at most, so
\* that the one unmount of NodeUnstageVolume leaves none.
THEOREM StagingMountedOnceHolds ==
  ASSUME HostAssumption, NodeAssumption, "clientTimeout" \notin Faults
  PROVE  Spec => []StagingMountedOnce
  <1>1. MountInv => StagingMountedOnce
    BY OneMount DEF MountInv, StagingMountedOnce
  <1> QED BY <1>1, MountCorrect, PTL

\* A path that was published, or was to be unpublished, is told to be unpublished
\* only with nothing mounted there, under the same faults.
THEOREM UnpublishUnmountsHolds ==
  ASSUME HostAssumption, NodeAssumption, "clientTimeout" \notin Faults
  PROVE  Spec => UnpublishUnmounts
  <1> DEFINE Answered == \A v \in Volume, t \in Target :
                       published[<<v, t>>] \in {"yes", "leaving"} /\ published'[<<v, t>>] = "no" =>
                         target'[<<v, t>>] = <<>>
  <1>1. ASSUME TypeOK, HeldInv, MountInv, [Next]_vars PROVE Answered
    <2>1. CASE published' = published
      BY <2>1
    <2>2. ASSUME NEW c \in Call, Kubelet(c) PROVE published' = published
      BY <2>2 DEF Kubelet, CallStage, CallUnstage, CallPublish, CallUnpublish, Abandon, Can, Begin, kubeletVars
    <2>3. ASSUME NEW c \in Call, NodeStageVolume(c) \/ DeleteUblkDevice(c) \/ NodeUnstageVolume(c)
          PROVE  published' = published
      <3>1. call[c].pc \in AtWork /\ (Return(c, TRUE) \/ Return(c, FALSE) \/ MovesOn(c)) /\ OpAt(c)
        <4>1. OpAt(c)
          BY <1>1 DEF MountInv, OnPathOK
        <4> QED BY <1>1, <2>3, <4>1, StageMoves, DeleteMoves, UnstageMoves
      <3>2. call[c].pc # "idle" /\ call[c].op \in OnVolume
        BY <3>1 DEF AtWork, StagePc, DeletePc, UnstagePc, OpAt, OnVolume
      <3>3. call[c].vol \in Volume /\ call[c].waiting
        BY <1>1, <3>2, Alone
      <3> QED BY <1>1, <3>1, <3>2, <3>3, WorkTells
    <2>4. ASSUME NEW c \in Call, NodePublishVolume(c) PROVE Answered
      <3>1. call[c].pc \in PublishPc
        BY <2>4 DEF NodePublishVolume, PublishCheck, BindCheck, BindOk, BindFails, RecordTarget, At, PublishPc
      <3>2. PICK v \in Volume, t \in Target :
              /\ v = call[c].vol /\ t = call[c].tgt /\ call[c].op = "publish" /\ call[c].waiting /\ OnPathOK(c)
        BY <1>1, <3>1, AtPath
      <3>3. published[<<v, t>>] # "leaving"
        BY <3>2 DEF OnPathOK
      <3>4. ASSUME NEW ok \in {TRUE, FALSE}, Return(c, ok) PROVE Answered
        <4>1. \A w \in Volume, u \in Target : <<w, u>> # <<v, t>> => published'[<<w, u>>] = published[<<w, u>>]
          BY <1>1, <3>2, <3>4 DEF Return, TypeOK
        <4>2. published' = [published EXCEPT ![<<v, t>>] = Learn("publish", ok, published[<<v, t>>])]
          BY <3>2, <3>4 DEF Return, OnTarget
        <4>3. published[<<v, t>>] = "yes" => published'[<<v, t>>] = "yes"
          BY <1>1, <4>2 DEF Learn, TypeOK
        <4> QED BY <3>3, <4>1, <4>3
      <3>5. CASE published' = published
        BY <3>5
      <3>6. Return(c, TRUE) \/ Return(c, FALSE) \/ published' = published
        BY <2>4 DEF NodePublishVolume, PublishCheck, BindCheck, BindOk, BindFails, RecordTarget, Goto, kubeletVars
      <3> QED BY <3>4, <3>5, <3>6
    <2>5. ASSUME NEW c \in Call, NodeUnpublishVolume(c) PROVE Answered
      BY <1>1, <2>5, UnpublishMounts
    <2>6. CASE Host \/ UpdateNodeVolumeMap \/ UNCHANGED vars
      BY <2>1, <2>6 DEF Host, UpdateNodeVolumeMap, vars, kubeletVars
    <2>7. CASE PluginCrash
      <3>1. ASSUME NEW v \in Volume, NEW t \in Target, published[<<v, t>>] \in {"yes", "leaving"}
            PROVE  published'[<<v, t>>] # "no"
        BY <2>7, <3>1 DEF PluginCrash, Doubt
      <3> QED BY <3>1
    <2> QED BY <1>1, <2>1, <2>2, <2>3, <2>4, <2>5, <2>6, <2>7 DEF Next, Handler
  <1>2. TypeOK /\ HeldInv /\ MountInv /\ [Next]_vars => [Answered]_vars
    BY <1>1
  <1> QED BY <1>2, MountCorrect, PTL DEF Spec, UnpublishUnmounts

(***************************************************************************)
(* Where the kubelet holds nothing as published.  When the process ends    *)
(* only between two requests, no mount is left at a path that the kubelet  *)
(* does not hold as published, but by an invocation that has just made it. *)
(* A process that is killed leaves such mounts.                            *)
(***************************************************************************)
\* The kubelet holds the path as published, or wants it unpublished.
Believed == {"yes", "leaving"}

\* What is mounted at the path it knows of.
Known(v, t) == target[<<v, t>>] # <<>> => published[<<v, t>>] \in Believed \/ Recording(v, t)

Doubtless == \A v \in Volume, t \in Target : Known(v, t)

\* A step of an invocation that is at no path.
LEMMA DoubtlessElsewhere ==
  ASSUME Doubtless, NEW c \in Call, OthersStand(c), call[c].pc # "recordTarget", published' = published,
         \A w \in Volume, u \in Target : Fades(target[<<w, u>>], target'[<<w, u>>])
  PROVE  Doubtless'
  <1> SUFFICES ASSUME NEW w \in Volume, NEW u \in Target PROVE Known(w, u)'
    BY DEF Doubtless
  <1>1. Recording(w, u) => Recording(w, u)'
    BY DEF Recording, OthersStand
  <1>2. Known(w, u) /\ Fades(target[<<w, u>>], target'[<<w, u>>])
    BY DEF Doubtless
  <1> QED BY <1>1, <1>2 DEF Known, Fades

\* A step of the only invocation that is at path t of v.
LEMMA DoubtlessAtPath ==
  ASSUME HostAssumption, HeldInv, MountInv, Doubtless, NEW c \in Call,
         call[c].pc \in PublishPc \cup UnpublishPc, OthersStand(c),
         NEW v \in Volume, v = call[c].vol, NEW t \in Target, t = call[c].tgt,
         \A w \in Volume, u \in Target : <<w, u>> # <<v, t>> => SameTarget(w, u),
         Known(v, t)'
  PROVE  Doubtless'
  <1> SUFFICES ASSUME NEW w \in Volume, NEW u \in Target, <<w, u>> # <<v, t>> PROVE Known(w, u)'
    BY DEF Doubtless
  <1>1. Recording(w, u) => Recording(w, u)'
    BY DEF Recording, OthersStand
  <1> QED BY <1>1 DEF Doubtless, Known, SameTarget

\* Publishes and unpublishes leave no mount that the kubelet does not know of.
LEMMA PathDoubtless ==
  ASSUME HostAssumption, TypeOK, HeldInv, MountInv, Doubtless, NEW c \in Call,
         NodePublishVolume(c) \/ NodeUnpublishVolume(c)
  PROVE  Doubtless'
  <1>1. call[c].pc \in PublishPc \cup UnpublishPc /\ Handler(c)
    BY DEF NodePublishVolume, PublishCheck, BindCheck, BindOk, BindFails, RecordTarget, NodeUnpublishVolume,
       UnpublishCheck, UnmountTarget, UnmountTargetFails, RemoveTarget, At, PublishPc, UnpublishPc, Handler
  <1>2. PICK v \in Volume, t \in Target :
          /\ v = call[c].vol /\ t = call[c].tgt /\ call[c].waiting /\ PathOK(v, t) /\ OnPathOK(c)
          /\ \A o \in Call : o # c => call[o].vol # v
          /\ call[c].op = (IF call[c].pc \in PublishPc THEN "publish" ELSE "unpublish")
    BY <1>1, AtPath
  <1>3. OthersStand(c)
    BY <1>1, <1>2, HandlerLocal
  <1>4. Recording(v, t) <=> call[c].pc = "recordTarget"
    BY <1>2 DEF Recording
  <1>5. Known(v, t) /\ Unmount(target[<<v, t>>]) = <<>> /\ (MountedAt(target[<<v, t>>]) <=> target[<<v, t>>] # <<>>)
    BY <1>2, OneMount DEF Doubtless, PathOK
  <1>6. \/ target' = target
        \/ \E stack : target' = [target EXCEPT ![<<v, t>>] = stack]
    BY <1>2 DEF NodePublishVolume, PublishCheck, BindCheck, BindOk, BindFails, RecordTarget, NodeUnpublishVolume,
       UnpublishCheck, UnmountTarget, UnmountTargetFails, RemoveTarget, Quiet, hostVars, mounts
  <1>7. \A w \in Volume, u \in Target : <<w, u>> # <<v, t>> => target'[<<w, u>>] = target[<<w, u>>]
    BY <1>6 DEF TypeOK, HostTypeOK
  <1>8. ASSUME NEW ok \in {TRUE, FALSE}, Return(c, ok),
               target'[<<v, t>>] # <<>> =>
                 IF call[c].op = "publish" THEN ok \/ published[<<v, t>>] = "yes" ELSE ~ok
        PROVE  Doubtless'
    <2>1. \A w \in Volume, u \in Target : <<w, u>> # <<v, t>> => published'[<<w, u>>] = published[<<w, u>>]
      BY <1>2, <1>8 DEF Return, TypeOK
    <2>2. published' = [published EXCEPT ![<<v, t>>] = Learn(call[c].op, ok, published[<<v, t>>])]
      BY <1>2, <1>8 DEF Return, OnTarget
    <2>3. published'[<<v, t>>] = Learn(call[c].op, ok, published[<<v, t>>])
      BY <2>2 DEF TypeOK
    <2>4. Known(v, t)'
      BY <1>2, <1>8, <2>3 DEF Known, Learn, Doubt, Believed
    <2> QED BY <1>1, <1>2, <1>3, <1>7, <2>1, <2>4, DoubtlessAtPath DEF SameTarget
  <1>9. ASSUME UNCHANGED kubeletVars, Known(v, t)' PROVE Doubtless'
    <2>1. published' = published
      BY <1>9 DEF kubeletVars
    <2> QED BY <1>1, <1>2, <1>3, <1>7, <1>9, <2>1, DoubtlessAtPath DEF SameTarget
  <1>10. ASSUME NEW pc, Goto(c, pc), target'[<<v, t>>] # <<>> => target' = target \/ pc = "recordTarget",
                call[c].pc = "recordTarget" => pc = "recordTarget"
         PROVE  Doubtless'
    <2>1. call'[c].pc = pc /\ call'[c].vol = v /\ call'[c].tgt = t
      <3>1. call[c] \in Invocation /\ call'[c] = [call[c] EXCEPT !.pc = pc]
        BY <1>10 DEF TypeOK, Goto
      <3> QED BY <1>2, <3>1 DEF Invocation
    <2>2. pc = "recordTarget" => Recording(v, t)'
      BY <2>1 DEF Recording
    <2>3. UNCHANGED kubeletVars /\ published' = published
      BY <1>10 DEF Goto, kubeletVars
    <2>4. Known(v, t)'
      BY <1>4, <1>5, <1>10, <2>2, <2>3 DEF Known
    <2> QED BY <1>9, <2>3, <2>4
  <1>11. CASE NodePublishVolume(c)
    <2>1. call[c].op = "publish" /\ published[<<v, t>>] # "leaving"
      <3>1. call[c].pc \in PublishPc
        BY <1>11 DEF NodePublishVolume, PublishCheck, BindCheck, BindOk, BindFails, RecordTarget, At, PublishPc
      <3> QED BY <1>2, <3>1 DEF OnPathOK
    <2>2. CASE PublishCheck(c)
      <3>1. target' = target /\ call[c].pc = "publishCheck" /\ (Return(c, FALSE) \/ Goto(c, "bindCheck"))
        BY <2>2 DEF PublishCheck, At, Quiet, hostVars
      <3>2. target[<<v, t>>] # <<>> => published[<<v, t>>] = "yes"
        BY <1>4, <1>5, <2>1, <3>1 DEF Known, Believed
      <3> QED BY <1>8, <1>10, <2>1, <3>1, <3>2
    <2>3. CASE BindCheck(c)
      <3>1. target' = target /\ call[c].pc = "bindCheck"
        BY <2>3 DEF BindCheck, At, mounts
      <3>2. Return(c, FALSE) \/ Goto(c, "recordTarget") \/ Goto(c, "bind")
        BY <2>3 DEF BindCheck
      <3>3. target[<<v, t>>] # <<>> => published[<<v, t>>] = "yes"
        BY <1>4, <1>5, <2>1, <3>1 DEF Known, Believed
      <3> QED BY <1>8, <1>10, <2>1, <3>1, <3>2, <3>3
    <2>4. CASE BindOk(c)
      <3>1. call[c].pc = "bind" /\ Goto(c, "recordTarget")
        BY <2>4 DEF BindOk, At
      <3> QED BY <1>10, <3>1
    <2>5. CASE BindFails(c)
      <3>1. target' = target /\ call[c].pc = "bind" /\ Return(c, FALSE)
        BY <2>5 DEF BindFails, At, Quiet, hostVars
      <3>2. target[<<v, t>>] = <<>>
        BY <1>2, <3>1 DEF OnPathOK
      <3> QED BY <1>8, <3>1, <3>2
    <2>6. CASE RecordTarget(c)
      <3>1. Return(c, TRUE)
        BY <2>6 DEF RecordTarget
      <3> QED BY <1>8, <2>1, <3>1
    <2> QED BY <1>11, <2>2, <2>3, <2>4, <2>5, <2>6 DEF NodePublishVolume
  <1>12. CASE NodeUnpublishVolume(c)
    <2>1. call[c].op = "unpublish" /\ call[c].pc # "recordTarget"
      <3>1. call[c].pc \in UnpublishPc /\ call[c].pc \notin PublishPc
        BY <1>12 DEF NodeUnpublishVolume, UnpublishCheck, UnmountTarget, UnmountTargetFails, RemoveTarget, At,
           UnpublishPc, PublishPc
      <3> QED BY <1>2, <3>1 DEF PublishPc
    <2>2. CASE UnpublishCheck(c)
      <3>1. target' = target /\ UNCHANGED kubeletVars
        BY <2>2 DEF UnpublishCheck, Quiet, hostVars
      <3>2. Known(v, t)'
        BY <1>4, <1>5, <2>1, <3>1 DEF Known, kubeletVars
      <3> QED BY <1>9, <3>1, <3>2
    <2>3. CASE UnmountTarget(c)
      <3>1. target' = [target EXCEPT ![<<v, t>>] = <<>>] /\ (Return(c, TRUE) \/ Goto(c, "removeTarget"))
        BY <1>2, <1>5, <2>3 DEF UnmountTarget
      <3>2. target'[<<v, t>>] = <<>>
        BY <3>1 DEF TypeOK, HostTypeOK
      <3> QED BY <1>8, <1>10, <2>1, <3>1, <3>2
    <2>4. CASE UnmountTargetFails(c)
      <3>1. Return(c, FALSE)
        BY <2>4 DEF UnmountTargetFails
      <3> QED BY <1>8, <2>1, <3>1
    <2>5. CASE RemoveTarget(c)
      <3>1. target[<<v, t>>] = <<>> /\ Return(c, TRUE)
        BY <1>2, <2>5 DEF RemoveTarget, At, OnPathOK
      <3>2. Unmount(<<>>) = <<>>
        BY <1>5, <3>1
      <3>3. target' = [target EXCEPT ![<<v, t>>] = <<>>] \/ target' = target
        BY <1>2, <2>5, <3>1, <3>2 DEF RemoveTarget
      <3>4. target'[<<v, t>>] = <<>>
        <4>1. CASE target' = [target EXCEPT ![<<v, t>>] = <<>>]
          BY <4>1 DEF TypeOK, HostTypeOK
        <4> QED BY <3>1, <3>3, <4>1
      <3> QED BY <1>8, <3>1, <3>4
    <2> QED BY <1>12, <2>2, <2>3, <2>4, <2>5 DEF NodeUnpublishVolume
  <1> QED BY <1>11, <1>12

\* The process ends between two requests.
LEMMA EndLeavesPaths ==
  ASSUME TypeOK, \A c \in Call : call[c] = Idle, PluginCrash
  PROVE  UNCHANGED <<target, targetPath, staging, published, staged, call>>
  <1>1. staged' = [v \in Volume |-> staged[v]]
    BY IdleAt DEF PluginCrash, Unanswered
  <1>2. published' = [p \in Volume \X Target |-> published[p]]
    BY IdleAt DEF PluginCrash, UnansweredAt
  <1>3. call' = [c \in Call |-> call[c]] /\ UNCHANGED <<target, targetPath, staging>>
    BY DEF PluginCrash, DaemonsSurvive, hostVars
  <1> QED BY <1>1, <1>2, <1>3 DEF TypeOK

\* Every step keeps that, unless a publish is cut off before its answer.
LEMMA DoubtlessStep ==
  ASSUME HostAssumption, NodeAssumption, "clientTimeout" \notin Faults,
         TypeOK, HeldInv, MountInv, Doubtless, [Next]_vars, alive /\ ~alive' => NoneInFlight
  PROVE  Doubtless'
  <1>1. ASSUME UNCHANGED <<published, call>>,
               \A w \in Volume, u \in Target : Fades(target[<<w, u>>], target'[<<w, u>>])
        PROVE  Doubtless'
    <2> SUFFICES ASSUME NEW w \in Volume, NEW u \in Target PROVE Known(w, u)'
      BY DEF Doubtless
    <2>1. Known(w, u) /\ Fades(target[<<w, u>>], target'[<<w, u>>]) /\ (Recording(w, u)' <=> Recording(w, u))
      BY <1>1 DEF Doubtless, Recording
    <2> QED BY <1>1, <2>1 DEF Known, Fades
  <1>2. ASSUME NEW c \in Call, Kubelet(c) PROVE Doubtless'
    <2>1. \E op, pc, v, t, f : Begin(c, op, pc, v, t, f)
      BY <1>2 DEF Kubelet, CallStage, CallUnstage, CallPublish, CallUnpublish, Abandon, Can
    <2>2. OthersStand(c) /\ UNCHANGED <<published, target>> /\ call[c].pc # "recordTarget"
      BY <2>1, IdleAt DEF Begin, OthersStand, TypeOK, hostVars, kubeletVars
    <2> QED BY <2>2, DoubtlessElsewhere, SameFades
  <1>3. ASSUME NEW c \in Call, NodeStageVolume(c) \/ DeleteUblkDevice(c) \/ NodeUnstageVolume(c)
        PROVE  Doubtless'
    <2>1. call[c].pc \in AtWork /\ (Return(c, TRUE) \/ Return(c, FALSE) \/ MovesOn(c)) /\ OpAt(c)
      <3>1. OpAt(c)
        BY DEF MountInv, OnPathOK
      <3> QED BY <1>3, <3>1, StageMoves, DeleteMoves, UnstageMoves
    <2>2. call[c].pc \notin {"idle", "recordTarget"} /\ call[c].op \in OnVolume /\ Handler(c)
      BY <1>3, <2>1 DEF AtWork, StagePc, DeletePc, UnstagePc, OpAt, OnVolume, Handler
    <2>3. PICK v \in Volume : v = call[c].vol /\ call[c].waiting
      BY <2>2, Alone
    <2>4. published' = published /\ OthersStand(c)
      BY <2>1, <2>2, <2>3, WorkTells, HandlerLocal
    <2>5. KeepsMounts \/ LosesDevice(c) \/ Stages(c) \/ Unstages(c)
      BY <2>1, <2>2, HandlerMounts DEF Binds, Unbinds, AtWork, StagePc, DeletePc, UnstagePc
    <2>6. \A w \in Volume, u \in Target : Fades(target[<<w, u>>], target'[<<w, u>>])
      BY <2>5, LoseFades, SameFades DEF KeepsMounts, LosesDevice, Stages, Unstages
    <2> QED BY <2>2, <2>4, <2>6, DoubtlessElsewhere
  <1>4. ASSUME NEW c \in Call, NodePublishVolume(c) \/ NodeUnpublishVolume(c) PROVE Doubtless'
    BY <1>4, PathDoubtless
  <1>5. CASE Host
    BY <1>1, <1>5, HostFades
  <1>6. CASE PluginCrash
    <2>1. \A c \in Call : call[c] = Idle
      BY <1>6 DEF PluginCrash, NoneInFlight
    <2> QED BY <1>1, <1>6, <2>1, EndLeavesPaths, SameFades
  <1>7. CASE UpdateNodeVolumeMap \/ UNCHANGED vars
    BY <1>1, <1>7, SameFades DEF UpdateNodeVolumeMap, vars, hostVars, pluginVars, kubeletVars
  <1> QED BY <1>2, <1>3, <1>4, <1>5, <1>6, <1>7 DEF Next, Handler

\* The invariants of mounts in the life of the node program.
MountLife == TypeOK /\ HeldInv /\ MountInv /\ Doubtless /\ GracefulLife

\* They hold when only graceful stops end the process.
LEMMA MountLifeCorrect ==
  ASSUME HostAssumption, NodeAssumption, "clientTimeout" \notin Faults, "kill" \notin Upsets
  PROVE  PluginSpec => []MountLife
  <1>1. PluginInit => MountLife
    <2> SUFFICES ASSUME PluginInit PROVE MountLife
      OBVIOUS
    <2>1. TypeOK /\ HeldInv /\ GracefulLife
      BY PluginInit0 DEF PluginInv
    <2>2. MountInv
      BY InitMounts DEF PluginInit
    <2>3. \A v \in Volume, t \in Target : target[<<v, t>>] = <<>>
      BY DEF PluginInit, Init, HostInit
    <2> QED BY <2>1, <2>2, <2>3 DEF MountLife, Doubtless, Known
  <1>2. MountLife /\ [PluginNext]_programVars => MountLife'
    <2> SUFFICES ASSUME MountLife, [PluginNext]_programVars PROVE MountLife'
      OBVIOUS
    <2>1. [Next]_vars /\ TypeOK' /\ HeldInv' /\ MountInv'
      BY StepMaps, TypeStep, HeldStep, MountStep DEF MountLife
    <2>2. GracefulLife' /\ (alive /\ ~alive' => NoneInFlight)
      BY LifeStep DEF MountLife
    <2> QED BY <2>1, <2>2, DoubtlessStep DEF MountLife
  <1> QED BY <1>1, <1>2, PTL DEF PluginSpec

\* Where the kubelet holds nothing as published nothing is mounted: a publish
\* that failed and an unpublish that succeeded leave no mount behind, whatever
\* host operation fails and whichever daemon crashes, while the process is
\* stopped only between two requests.
THEOREM UnpublishedStaysUnmounted ==
  ASSUME HostAssumption, NodeAssumption, "clientTimeout" \notin Faults, "kill" \notin Upsets
  PROVE  PluginSpec => []UnpublishedIsUnmounted
  <1>1. MountLife => UnpublishedIsUnmounted
    <2> SUFFICES ASSUME MountLife, NEW v \in Volume, NEW t \in Target, published[<<v, t>>] = "no", Settled(v)
                 PROVE  target[<<v, t>>] = <<>>
      BY DEF UnpublishedIsUnmounted
    <2>1. ~Recording(v, t) /\ Known(v, t)
      BY DEF Recording, Settled, MountLife, Doubtless
    <2> QED BY <2>1 DEF Known, Believed
  <1> QED BY <1>1, MountLifeCorrect, PTL

(***************************************************************************)
(* What a pod sees.  A target path shows its volume or nothing, as long as *)
(* the volume has its device whenever it is bound, and only volumes that   *)
(* are not published lose theirs.                                          *)
(***************************************************************************)
Shown(v, t) == target[<<v, t>>] \in {<<>>, <<"live">>}

LiveTargets == \A v \in Volume, t \in Target : Shown(v, t)

\* What is mounted at a path is about a publish that the kubelet remembers.
Noticed(v, t) == target[<<v, t>>] # <<>> => published[<<v, t>>] # "no" \/ Recording(v, t)

\* What the kubelet does not doubt it has noticed.
LEMMA DoubtlessNotices ==
  ASSUME Doubtless, NEW v \in Volume, NEW t \in Target
  PROVE  Noticed(v, t)
  BY DEF Doubtless, Known, Noticed, Believed

\* Nothing is mounted at a path of a volume that a stage or an unstage is at work
\* on, unless the kubelet has forgotten it.
LEMMA WorkUnpublished ==
  ASSUME HostAssumption, HeldInv, MountInv, NEW c \in Call, call[c].pc \in AtWork,
         NEW v \in Volume, v = call[c].vol, staged[v] # "yes" \/ call[c].op = "unstage",
         NEW u \in Target, Noticed(v, u)
  PROVE  published[<<v, u>>] = "no" /\ target[<<v, u>>] = <<>>
  <1>1. published[<<v, u>>] = "no"
    BY DEF MountInv, PathOK, OnPathOK
  <1>2. ~Recording(v, u)
    <2>1. call[c].pc \notin {"idle", "recordTarget"}
      BY DEF AtWork, StagePc, DeletePc, UnstagePc
    <2>2. \A o \in Call : o # c => call[o].vol # v
      BY <2>1, Alone
    <2> QED BY <2>1, <2>2 DEF Recording
  <1> QED BY <1>1, <1>2 DEF Noticed

\* No handler shows a pod anything but its volume, or takes that away.
LEMMA HandlerShows ==
  ASSUME HostAssumption, TypeOK, HeldInv, MountInv, NEW c \in Call, Handler(c),
         NEW w \in Volume, NEW u \in Target, Noticed(w, u), Shown(w, u),
         call[c].pc \in {"stopAfterWait", "stopUnit", "ublkDel"} =>
           staged[call[c].vol] # "yes" \/ call[c].op = "unstage",
         call[c].pc = "bind" => BindSource(call[c].vol) = {"live"}
  PROVE  Shown(w, u)'
  <1>1. CASE KeepsMounts \/ Stages(c) \/ Unstages(c)
    BY <1>1 DEF KeepsMounts, Stages, Unstages, Shown
  <1>2. CASE LosesDevice(c)
    <2>1. call[c].pc \in {"stopAfterWait", "stopUnit", "ublkDel"} /\ call[c].pc \in AtWork /\ call[c].pc # "idle"
      BY <1>2 DEF LosesDevice, AtWork, StagePc, DeletePc
    <2>2. PICK v \in Volume : v = call[c].vol
      BY <2>1, Alone
    <2>3. LoseMounts(v)
      BY <1>2, <2>2 DEF LosesDevice
    <2>4. CASE w # v
      <3>1. target'[<<w, u>>] = target[<<w, u>>]
        BY <2>3, <2>4, LoseFades
      <3> QED BY <3>1 DEF Shown
    <2>5. CASE w = v
      <3>1. target[<<w, u>>] = <<>>
        BY <2>1, <2>2, <2>5, WorkUnpublished
      <3>2. Fades(target[<<w, u>>], target'[<<w, u>>])
        BY <2>3, LoseFades
      <3> QED BY <3>1, <3>2 DEF Fades, Shown
    <2> QED BY <2>4, <2>5
  <1>3. CASE Binds(c)
    <2>1. /\ call[c].pc = "bind" /\ call[c].pc \in PublishPc
          /\ \E m \in {"live"} : target' = [target EXCEPT ![<<call[c].vol, call[c].tgt>>] = <<m>> \o @]
      BY <1>3 DEF Binds, PublishPc
    <2>2. PICK v \in Volume, t \in Target : v = call[c].vol /\ t = call[c].tgt /\ OnPathOK(c)
      BY <2>1, AtPath
    <2>3. target[<<v, t>>] = <<>>
      BY <2>1, <2>2 DEF OnPathOK
    <2>4. target' = [target EXCEPT ![<<v, t>>] = <<"live">>]
      BY <2>1, <2>2, <2>3, FirstMount DEF Mount
    <2> QED BY <2>4 DEF Shown, TypeOK, HostTypeOK
  <1>4. CASE Unbinds(c)
    <2>1. call[c].pc \in UnpublishPc
      BY <1>4 DEF Unbinds, UnpublishPc
    <2>2. PICK v \in Volume, t \in Target : v = call[c].vol /\ t = call[c].tgt /\ PathOK(v, t)
      BY <2>1, AtPath
    <2>3. Unmount(target[<<v, t>>]) = <<>>
      BY <2>2, OneMount DEF PathOK
    <2>4. target' = [target EXCEPT ![<<v, t>>] = <<>>]
      BY <1>4, <2>2, <2>3 DEF Unbinds
    <2> QED BY <2>4 DEF Shown, TypeOK, HostTypeOK
  <1> QED BY <1>1, <1>2, <1>3, <1>4, HandlerMounts

\* A published path where the volume is shown, if anything is, shows it.
LEMMA ShownIsLive ==
  ASSUME MountInv, NEW v \in Volume, NEW t \in Target, Shown(v, t), published[<<v, t>>] = "yes", Settled(v)
  PROVE  LiveAt(target[<<v, t>>])
  <1>1. PathOK(v, t) /\ ~Removing(v, t)
    BY DEF MountInv, Removing, Settled
  <1>2. target[<<v, t>>] = <<"live">>
    BY <1>1 DEF PathOK, Shown
  <1> QED BY <1>1, <1>2, OneMount DEF PathOK

\* While its daemon does not crash, a volume that is published or unpublished has
\* its entry and something to bind.
LEMMA PathVolume ==
  ASSUME HostAssumption, PluginInv, MountLife, NEW c \in Call, call[c].pc \in PublishPc \cup UnpublishPc
  PROVE  VolMap[call[c].vol] # "absent" /\ BindSource(call[c].vol) = {"live"}
  <1>1. call[c].pc \notin Work /\ call[c].pc # "idle"
    BY DEF PublishPc, UnpublishPc, Work, StagePc, DeletePc, UnstagePc
  <1>2. PICK v \in Volume : v = call[c].vol /\ staged[v] = "yes" /\ alive
    BY AtPath DEF MountLife
  <1>3. RestOK(v)
    BY <1>1, <1>2, InFlight DEF PluginInv
  <1>4. /\ VolMap[v] # "absent" /\ (v \in BlockVol => Link(v) # {})
        /\ v \notin BlockVol => staging[v] = <<"live">>
    BY <1>2, <1>3 DEF RestOK, Full, Up, Only, MountOf, Link, DevsOf
  <1>5. staging[v] = <<"live">> => MountedAt(staging[v]) /\ Head(staging[v]) = "live"
    BY <1>2, OneMount DEF MountLife, MountInv, LiveAt
  <1>6. CASE v \in BlockVol
    BY <1>2, <1>4, <1>6 DEF BindSource
  <1>7. CASE v \notin BlockVol
    BY <1>2, <1>4, <1>5, <1>7 DEF BindSource
  <1> QED BY <1>6, <1>7

\* A volume that is bound is usable, while its daemon does not crash.
LEMMA TargetStep ==
  ASSUME HostAssumption, NodeAssumption, Faults \subseteq Tolerated,
         PluginInv, MountLife, LiveTargets, [Next]_vars
  PROVE  LiveTargets'
  <1>1. ASSUME NEW c \in Call, Handler(c) PROVE LiveTargets'
    <2>1. call[c].pc \in {"stopAfterWait", "stopUnit", "ublkDel"} =>
            staged[call[c].vol] # "yes" \/ call[c].op = "unstage"
      <3>1. call[c].pc \in {"stopAfterWait", "stopUnit", "ublkDel"} => call[c].pc \in Work
        BY DEF Work, StagePc, DeletePc
      <3>2. call[c].pc \in Work => WorkOK(c) /\ call[c].op \in {"stage", "unstage"}
        BY DEF PluginInv, StageInv, Good, OpAt, Work, StagePc, DeletePc, UnstagePc
      <3> QED BY <3>1, <3>2 DEF WorkOK
    <2>2. call[c].pc = "bind" => BindSource(call[c].vol) = {"live"}
      BY PathVolume DEF PublishPc
    <2> QED BY <1>1, <2>1, <2>2, HandlerShows, DoubtlessNotices DEF MountLife, LiveTargets
  <1>2. target' = target => LiveTargets'
    BY DEF LiveTargets, Shown
  <1>3. ASSUME NEW c \in Call, Kubelet(c) PROVE target' = target
    BY <1>3 DEF Kubelet, CallStage, CallUnstage, CallPublish, CallUnpublish, Abandon, Begin, hostVars
  <1>4. CASE Host
    <2>1. PICK v \in Volume : DaemonUp(v) \/ DaemonCrash(v) \/ Respawn(v) \/ StartLimit(v) \/ Collect(v)
      BY <1>4 DEF Host, HostNext
    <2>2. ~DaemonCrash(v)
      BY DEF DaemonCrash, Can, Tolerated
    <2> QED BY <1>2, <2>1, <2>2 DEF DaemonUp, Respawn, StartLimit, Collect, mounts
  <1>5. CASE PluginCrash \/ UpdateNodeVolumeMap \/ UNCHANGED vars
    BY <1>2, <1>5 DEF PluginCrash, DaemonsSurvive, UpdateNodeVolumeMap, vars, hostVars
  <1> QED BY <1>1, <1>2, <1>3, <1>4, <1>5 DEF Next

\* All of that holds of the node program.
LEMMA TargetCorrect ==
  ASSUME HostAssumption, NodeAssumption, EnoughIds, Faults \subseteq Tolerated, "kill" \notin Upsets
  PROVE  PluginSpec => [](PluginInv /\ MountLife /\ LiveTargets)
  <1>1. PluginInit => LiveTargets
    <2> SUFFICES ASSUME PluginInit PROVE LiveTargets
      OBVIOUS
    <2>1. \A v \in Volume, t \in Target : target[<<v, t>>] = <<>>
      BY DEF PluginInit, Init, HostInit
    <2> QED BY <2>1 DEF LiveTargets, Shown
  <1>2. PluginInv /\ MountLife /\ LiveTargets /\ [PluginNext]_programVars => LiveTargets'
    BY StepMaps, TargetStep
  <1>3. PluginSpec => []PluginInv /\ []MountLife
    BY PluginCorrect, MountLifeCorrect DEF Tolerated
  <1> QED BY <1>1, <1>2, <1>3, PTL DEF PluginSpec

\* A pod whose target path the kubelet holds as published sees its volume
\* there: no stage, unstage, publish or unpublish of any volume, failed or not,
\* and no restart of the plugin takes it away.
THEOREM PublishedStaysLive ==
  ASSUME HostAssumption, NodeAssumption, EnoughIds, Faults \subseteq Tolerated, "kill" \notin Upsets
  PROVE  PluginSpec => []PublishedIsLive
  <1>1. MountLife /\ LiveTargets => PublishedIsLive
    BY ShownIsLive DEF MountLife, LiveTargets, PublishedIsLive
  <1> QED BY <1>1, TargetCorrect, PTL

(***************************************************************************)
(* Who takes a device.  A volume with a live mount has its link, and its   *)
(* entry from the moment its stage has ended, also after a restart; so no  *)
(* stage gets to stopping a daemon that is in use, and an unstage gets     *)
(* there only when nothing of its volume is mounted any more.              *)
(***************************************************************************)
Shows(v) == LiveAt(staging[v]) \/ \E u \in Target : LiveAt(target[<<v, u>>])

Inserting(v) == \E c \in Call : call[c].pc = "insert" /\ call[c].vol = v

ShowsOK(v) ==
  /\ Shows(v) => Link(v) # {}
  /\ alive /\ Shows(v) => VolMap[v] # "absent" \/ Inserting(v)
  /\ \A u \in Target : LiveAt(target[<<v, u>>]) => published[<<v, u>>] # "no" \/ Recording(v, u)

\* Where the mounts of the volume may be live while a stage or an unstage works.
Mounted == {"insert", "unmountStaging"}

Keeping(c) ==
  /\ call[c].pc \in Work \ Mounted => ~Shows(call[c].vol)
  /\ call[c].pc \in {"bindCheck", "bind", "recordTarget"} => VolMap[call[c].vol] # "absent"

KeepInv ==
  /\ \A v \in Volume : ShowsOK(v)
  /\ \A c \in Call : Keeping(c)

\* The kubelet forgets a mount when the plugin is killed before it answers a
\* publish, and the retry is refused for want of an entry or fails before it has
\* looked for a mount.
NothingForgotten ==
  "pluginCrash" \in Faults => "listVolumes" \notin Faults /\ "statTarget" \notin Faults

\* Without a kill the kubelet is in doubt about no path.
Sure ==
  "pluginCrash" \notin Faults => alive /\ \A v \in Volume, t \in Target : published[<<v, t>>] # "maybe"

\* Answers alone bring no doubt.
LEMMA SureStep ==
  ASSUME HostAssumption, "clientTimeout" \notin Faults, TypeOK, HeldInv, MountInv, Sure, [Next]_vars
  PROVE  Sure'
  <1> SUFFICES ASSUME "pluginCrash" \notin Faults
               PROVE  alive' /\ \A v \in Volume, t \in Target : published'[<<v, t>>] # "maybe"
    BY DEF Sure
  <1>1. alive /\ \A v \in Volume, t \in Target : published[<<v, t>>] # "maybe"
    BY DEF Sure
  <1> DEFINE Certain == alive' /\ \A v \in Volume, t \in Target : published'[<<v, t>>] # "maybe"
  <1>2. published' = published /\ alive' = alive => Certain
    BY <1>1
  <1>3. ASSUME NEW c \in Call, Kubelet(c) PROVE Certain
    BY <1>2, <1>3 DEF Kubelet, CallStage, CallUnstage, CallPublish, CallUnpublish, Abandon, Can, Begin, kubeletVars
  <1>4. ASSUME NEW c \in Call, NodeStageVolume(c) \/ DeleteUblkDevice(c) \/ NodeUnstageVolume(c)
        PROVE  Certain
    <2>1. call[c].pc \in AtWork /\ (Return(c, TRUE) \/ Return(c, FALSE) \/ MovesOn(c)) /\ OpAt(c)
      <3>1. OpAt(c)
        BY DEF MountInv, OnPathOK
      <3> QED BY <1>4, <3>1, StageMoves, DeleteMoves, UnstageMoves
    <2>2. call[c].pc # "idle" /\ call[c].op \in OnVolume /\ Handler(c)
      BY <1>4, <2>1 DEF AtWork, StagePc, DeletePc, UnstagePc, OpAt, OnVolume, Handler
    <2>3. PICK v \in Volume : v = call[c].vol /\ call[c].waiting
      BY <2>2, Alone
    <2> QED BY <1>2, <2>1, <2>2, <2>3, WorkTells, HandlerRuns
  <1>5. ASSUME NEW c \in Call, NodePublishVolume(c) \/ NodeUnpublishVolume(c) PROVE Certain
    <2>1. call[c].pc \in PublishPc \cup UnpublishPc /\ alive' = alive
      BY <1>5, HandlerRuns DEF NodePublishVolume, PublishCheck, BindCheck, BindOk, BindFails, RecordTarget,
         NodeUnpublishVolume, UnpublishCheck, UnmountTarget, UnmountTargetFails, RemoveTarget, At,
         PublishPc, UnpublishPc, Handler
    <2>2. PICK v \in Volume, t \in Target :
            v = call[c].vol /\ t = call[c].tgt /\ call[c].op \in OnTarget /\ call[c].waiting
      BY <2>1, AtPath DEF OnTarget
    <2>3. ASSUME NEW ok \in BOOLEAN, Return(c, ok) PROVE Certain
      <3>1. /\ \A w \in Volume, u \in Target : <<w, u>> # <<v, t>> => published'[<<w, u>>] = published[<<w, u>>]
            /\ published'[<<v, t>>] = Learn(call[c].op, ok, published[<<v, t>>])
        BY <2>2, <2>3, ToldOfPath
      <3>2. Learn(call[c].op, ok, published[<<v, t>>]) # "maybe"
        BY <2>2 DEF Learn, Doubt, OnTarget
      <3> QED BY <1>1, <2>1, <3>1, <3>2
    <2>4. published' = published \/ \E ok \in BOOLEAN : Return(c, ok)
      BY <1>5 DEF NodePublishVolume, PublishCheck, BindCheck, BindOk, BindFails, RecordTarget,
         NodeUnpublishVolume, UnpublishCheck, UnmountTarget, UnmountTargetFails, RemoveTarget, Goto, kubeletVars
    <2> QED BY <1>2, <2>1, <2>3, <2>4
  <1>6. ~PluginCrash /\ ~UpdateNodeVolumeMap
    BY <1>1 DEF PluginCrash, UpdateNodeVolumeMap, Can
  <1>7. Host \/ UNCHANGED vars => Certain
    BY <1>2 DEF Host, vars, pluginVars, kubeletVars
  <1> QED BY <1>3, <1>4, <1>5, <1>6, <1>7 DEF Next, Handler

\* What a step of one invocation must do to keep KeepInv.
LEMMA KeepFrame ==
  ASSUME HostAssumption, MountInv, KeepInv, NEW c \in Call, NEW v \in Volume, v = call[c].vol,
         \A o \in Call : o # c => call[o].vol # v,
         OthersStand(c), OthersUntouched(v), alive' = alive,
         \A w \in Volume, u \in Target : w # v => SameTarget(w, u),
         ShowsOK(v)', Keeping(c)'
  PROVE  KeepInv'
  <1>1. ASSUME NEW w \in Volume, w # v
        PROVE  (Shows(w)' <=> Shows(w)) /\ VolMap'[w] = VolMap[w] /\ ShowsOK(w)'
    <2>1. /\ staging'[w] = staging[w] /\ VolMap'[w] = VolMap[w]
          /\ \A states : DevsOf(w, states)' = DevsOf(w, states)
      BY <1>1, OtherVolume
    <2>2. (Shows(w)' <=> Shows(w)) /\ Link(w)' = Link(w)
      BY <1>1, <2>1 DEF Shows, SameTarget, Link
    <2>3. Inserting(w) => Inserting(w)'
      BY <1>1 DEF Inserting, OthersStand
    <2>4. ASSUME NEW u \in Target
          PROVE  SameTarget(w, u) /\ (Recording(w, u) => Recording(w, u)')
      BY <1>1 DEF Recording, OthersStand
    <2>5. ShowsOK(w)
      BY DEF KeepInv
    <2> QED BY <2>1, <2>2, <2>3, <2>4, <2>5 DEF ShowsOK, SameTarget
  <1>2. ASSUME NEW o \in Call, o # c PROVE Keeping(o)'
    <2>1. call'[o] = call[o] /\ Keeping(o) /\ OpAt(o)
      BY <1>2 DEF OthersStand, KeepInv, MountInv, OnPathOK
    <2>2. CASE call[o].pc = "idle"
      <3>1. "idle" \notin Work \cup {"bindCheck", "bind", "recordTarget"}
        BY DEF Work, StagePc, DeletePc, UnstagePc
      <3> QED BY <2>1, <2>2, <3>1 DEF Keeping
    <2>3. CASE call[o].pc # "idle"
      <3>1. PICK w \in Volume : w = call[o].vol /\ w # v
        BY <1>2, <2>1, <2>3 DEF OpAt
      <3>2. (Shows(w)' <=> Shows(w)) /\ VolMap'[w] = VolMap[w]
        BY <1>1, <3>1
      <3> QED BY <2>1, <3>1, <3>2 DEF Keeping
    <2> QED BY <2>2, <2>3
  <1> QED BY <1>1, <1>2 DEF KeepInv

\* A volume that a stage or an unstage is about to take the device of shows nowhere.
LEMMA WorkKeeps ==
  ASSUME HostAssumption, TypeOK, HeldInv, MountInv, KeepInv, NEW c \in Call,
         NodeStageVolume(c) \/ DeleteUblkDevice(c) \/ NodeUnstageVolume(c)
  PROVE  KeepInv'
  <1>1. call[c].pc \in AtWork /\ (Return(c, TRUE) \/ Return(c, FALSE) \/ MovesOn(c)) /\ OnPathOK(c) /\ OpAt(c)
    <2>1. OnPathOK(c) /\ OpAt(c)
      BY DEF MountInv, OnPathOK
    <2> QED BY <2>1, StageMoves, DeleteMoves, UnstageMoves
  <1>2. /\ AtWork = Work \cup {"stageCheck", "unstageCheck"}
        /\ AtWork \cap {"idle", "bindCheck", "bind", "recordTarget", "removeTarget"} = {}
    BY DEF AtWork, Work, StagePc, DeletePc, UnstagePc
  <1>3. PICK v \in Volume : v = call[c].vol /\ call[c].waiting /\ alive /\ \A o \in Call : o # c => call[o].vol # v
    BY <1>1, <1>2, Alone
  <1>4. Handler(c) /\ call[c].op \in OnVolume
    BY <1>1 DEF Handler, OpAt, AtWork, StagePc, DeletePc, UnstagePc, OnVolume
  <1>5. OthersStand(c) /\ OthersUntouched(v) /\ alive' = alive /\ published' = published
    BY <1>1, <1>3, <1>4, HandlerLocal, HandlerRuns, WorkTells
  <1>6. KeepsMounts \/ LosesDevice(c) \/ Stages(c) \/ Unstages(c)
    BY <1>1, <1>4, HandlerMounts DEF Binds, Unbinds, AtWork, StagePc, DeletePc, UnstagePc
  <1>7. /\ \A w \in Volume, u \in Target : w # v => target'[<<w, u>>] = target[<<w, u>>]
        /\ \A u \in Target : LiveAt(target'[<<v, u>>]) => LiveAt(target[<<v, u>>])
    BY <1>3, <1>6, LoseFades DEF KeepsMounts, LosesDevice, Stages, Unstages
  <1>8. LiveAt(staging'[v]) => LiveAt(staging[v]) \/ Stages(c)
    <2>1. CASE KeepsMounts \/ LosesDevice(c)
      BY <1>3, <2>1, LoseFades DEF KeepsMounts, LosesDevice
    <2>2. CASE Unstages(c)
      <3>1. staging' = [staging EXCEPT ![v] = <<>>]
        BY <1>3, <2>2, OneMount DEF Unstages, MountInv
      <3> QED BY <3>1 DEF TypeOK, HostTypeOK, LiveAt, MountedAt
    <2> QED BY <1>6, <2>1, <2>2
  <1>9. Shows(v)' => Shows(v) \/ Stages(c)
    BY <1>7, <1>8 DEF Shows
  <1>10. Stages(c) => call[c].pc = "stageMount" /\ call'[c].pc = "insert" /\ call'[c].vol = v
    BY <1>3, GotoFields DEF Stages
  <1>11. Shows(v) => call[c].pc \in Mounted \cup {"stageCheck", "unstageCheck"}
    BY <1>1, <1>2, <1>3 DEF KeepInv, Keeping
  <1>12. ASSUME Shows(v)
         PROVE  /\ dev' = dev /\ Link(v) # {}
                /\ (VolMap'[v] # "absent" /\ call'[c].pc \notin Work \ Mounted) \/ ~Shows(v)'
    <2>1. \/ StageCheck(c) \/ UnstageCheck(c) \/ Insert(c) \/ UnmountStaging(c) \/ UnmountStagingFails(c)
      BY <1>11, <1>12 DEF Mounted, NodeStageVolume, StageCheck, StartOk, StartRefusedOrFailed, StartReportedFailed, LinkSeen,
         LinkTimeout, StopAfterWait, Validate, Probe, MkfsOk, MkfsFails, MountCheck, StageMountOk,
         StageMountFails, Insert, DeleteUblkDevice, Resolve, StopUblkUnit, StopFails, DeleteDevice,
         DeleteDeviceFails, NodeUnstageVolume, UnstageCheck, UnmountStaging, UnmountStagingFails,
         CleanupStaging, DeleteEntry, At
    <2>2. dev' = dev /\ Link(v) # {}
      BY <1>12, <2>1 DEF KeepInv, ShowsOK, StageCheck, UnstageCheck, Insert, UnmountStaging,
         UnmountStagingFails, Quiet, hostVars
    <2>3. Inserting(v) <=> call[c].pc = "insert"
      BY <1>3 DEF Inserting
    <2>4. VolMap[v] # "absent" \/ call[c].pc = "insert"
      BY <1>3, <1>12, <2>3 DEF KeepInv, ShowsOK
    <2>5. CASE Insert(c)
      <3>1. VolMap'[v] = Mode(v) /\ Return(c, TRUE)
        BY <1>3, <2>5 DEF Insert, TypeOK
      <3>2. call'[c].pc \notin Work
        BY <1>2, <3>1, IdleAt DEF Return, TypeOK
      <3> QED BY <2>2, <3>1, <3>2 DEF Mode
    <2>6. CASE StageCheck(c)
      <3>1. VolMap[v] # "absent" /\ VolMap' = VolMap
        BY <2>4, <2>6 DEF StageCheck, At, Quiet
      <3>2. call'[c] = Idle
        BY <1>3, <2>6, <3>1 DEF StageCheck, AlreadyStaged, Return, TypeOK
      <3> QED BY <1>2, <2>2, <3>1, <3>2, IdleAt
    <2>7. CASE UnstageCheck(c)
      <3>1. VolMap[v] # "absent" /\ VolMap' = VolMap /\ Goto(c, "unmountStaging")
        BY <1>3, <2>4, <2>7 DEF UnstageCheck, At, Quiet
      <3> QED BY <2>2, <3>1, GotoFields DEF Mounted
    <2>8. CASE UnmountStaging(c)
      <3>1. call[c].pc = "unmountStaging" /\ call[c].op = "unstage"
        BY <1>1, <2>8 DEF UnmountStaging, At, OpAt, UnstagePc
      <3>2. staging' = [staging EXCEPT ![v] = <<>>] /\ target' = target
        BY <1>3, <2>8, OneMount DEF UnmountStaging, MountInv
      <3>3. ASSUME NEW u \in Target PROVE ~LiveAt(target'[<<v, u>>])
        <4>1. published[<<v, u>>] = "no" /\ ~Recording(v, u)
          BY <1>1, <1>3, <3>1 DEF OnPathOK, Recording
        <4> QED BY <3>2, <4>1 DEF KeepInv, ShowsOK
      <3>4. ~LiveAt(staging'[v])
        BY <3>2 DEF TypeOK, HostTypeOK, LiveAt, MountedAt
      <3> QED BY <2>2, <3>3, <3>4 DEF Shows
    <2>9. CASE UnmountStagingFails(c)
      <3>1. call[c].pc # "insert" /\ VolMap' = VolMap /\ call'[c] = Idle
        BY <2>9 DEF UnmountStagingFails, At, Quiet, Return, TypeOK
      <3> QED BY <1>2, <2>2, <2>4, <3>1, IdleAt
    <2> QED BY <2>1, <2>5, <2>6, <2>7, <2>8, <2>9
  <1>13. Stages(c) => Link(v)' # {}
    BY <1>3 DEF Stages, Live, Link, DevsOf
  <1>14. ShowsOK(v)'
    <2>1. Shows(v)' => Link(v)' # {}
      <3>1. Shows(v) => Link(v)' # {}
        BY <1>12 DEF Link, DevsOf
      <3> QED BY <1>9, <1>13, <3>1
    <2>2. Shows(v)' => VolMap'[v] # "absent" \/ Inserting(v)'
      BY <1>9, <1>10, <1>12 DEF Inserting
    <2>3. ASSUME NEW u \in Target, LiveAt(target'[<<v, u>>]) PROVE published'[<<v, u>>] # "no"
      <3>1. ~Recording(v, u)
        BY <1>1, <1>2, <1>3 DEF Recording
      <3> QED BY <1>5, <1>7, <2>3, <3>1 DEF KeepInv, ShowsOK
    <2> QED BY <2>1, <2>2, <2>3 DEF ShowsOK
  <1>15. Keeping(c)'
    <2>1. CASE Return(c, TRUE) \/ Return(c, FALSE)
      <3>1. call'[c] = Idle
        BY <2>1 DEF Return, TypeOK
      <3> QED BY <1>2, <3>1, IdleAt DEF Keeping
    <2>2. CASE MovesOn(c)
      <3>1. call'[c].pc \in AtWork /\ call'[c].vol = v
        BY <1>3, <2>2 DEF MovesOn, Stays
      <3>2. call'[c].pc \in Work \ Mounted => ~Shows(v)'
        BY <1>9, <1>10, <1>12 DEF Mounted
      <3> QED BY <1>2, <3>1, <3>2 DEF Keeping
    <2> QED BY <1>1, <2>1, <2>2
  <1> QED BY <1>3, <1>5, <1>7, <1>14, <1>15, KeepFrame DEF SameTarget

\* A step of an invocation for path t of v that touches no device, no entry and
\* no other path.
LEMMA KeepAtPath ==
  ASSUME HostAssumption, TypeOK, HeldInv, MountInv, KeepInv, NEW c \in Call, Handler(c),
         call[c].pc \in PublishPc \cup UnpublishPc,
         NEW v \in Volume, v = call[c].vol, NEW t \in Target, t = call[c].tgt,
         staging' = staging, dev' = dev, VolMap' = VolMap,
         \A w \in Volume, u \in Target : <<w, u>> # <<v, t>> => SameTarget(w, u),
         LiveAt(target'[<<v, t>>]) =>
           /\ Shows(v) \/ (Link(v) # {} /\ VolMap[v] # "absent")
           /\ published'[<<v, t>>] # "no" \/ Recording(v, t)',
         call'[c].pc \notin Work,
         call'[c].pc \in {"bindCheck", "bind", "recordTarget"} => call'[c].vol = v /\ VolMap[v] # "absent"
  PROVE  KeepInv'
  <1>1. /\ \A o \in Call : o # c => call[o].vol # v
        /\ call[c].pc # "insert" /\ alive
    BY AtPath DEF PublishPc, UnpublishPc
  <1>2. OthersStand(c) /\ OthersUntouched(v) /\ alive' = alive
    BY HandlerLocal, HandlerRuns
  <1>3. ~Inserting(v) /\ ShowsOK(v)
    BY <1>1 DEF Inserting, KeepInv
  <1>4. /\ Link(v)' = Link(v) /\ VolMap'[v] = VolMap[v]
        /\ Shows(v)' => Shows(v) \/ (Link(v) # {} /\ VolMap[v] # "absent")
    <2>1. Shows(v)' => Shows(v) \/ LiveAt(target'[<<v, t>>])
      BY DEF Shows, SameTarget
    <2>2. Link(v)' = Link(v)
      BY DEF Link, DevsOf
    <2>3. Shows(v)' => Shows(v) \/ (Link(v) # {} /\ VolMap[v] # "absent")
      BY <2>1
    <2> QED BY <2>2, <2>3
  <1>5. ASSUME NEW u \in Target, LiveAt(target'[<<v, u>>])
        PROVE  published'[<<v, u>>] # "no" \/ Recording(v, u)'
    <2>1. CASE u # t
      <3>1. ~Recording(v, u) /\ SameTarget(v, u)
        BY <1>1, <2>1 DEF Recording
      <3> QED BY <1>3, <1>5, <3>1 DEF ShowsOK, SameTarget
    <2> QED BY <1>5, <2>1
  <1>6. ShowsOK(v)'
    BY <1>1, <1>3, <1>4, <1>5 DEF ShowsOK
  <1>7. Keeping(c)'
    BY DEF Keeping
  <1>8. \A w \in Volume, u \in Target : w # v => SameTarget(w, u)
    OBVIOUS
  <1> QED BY <1>1, <1>2, <1>6, <1>7, <1>8, KeepFrame

\* NodePublishVolume shows a volume only where the kubelet will hold it as
\* published, and refuses none that shows somewhere.
LEMMA PublishKeeps ==
  ASSUME HostAssumption, NothingForgotten, TypeOK, HeldInv, MountInv, Sure, KeepInv,
         NEW c \in Call, NodePublishVolume(c)
  PROVE  KeepInv'
  <1>1. call[c].pc \in PublishPc /\ Handler(c)
    BY DEF NodePublishVolume, PublishCheck, BindCheck, BindOk, BindFails, RecordTarget, At, PublishPc, Handler
  <1>2. PICK v \in Volume, t \in Target :
          /\ v = call[c].vol /\ t = call[c].tgt /\ call[c].op = "publish" /\ call[c].waiting
          /\ OnPathOK(c) /\ \A o \in Call : o # c => call[o].vol # v
    BY <1>1, AtPath
  <1>3. staging' = staging /\ dev' = dev /\ VolMap' = VolMap
    BY DEF NodePublishVolume, PublishCheck, BindCheck, BindOk, BindFails, RecordTarget, Quiet, hostVars, mounts
  <1>4. /\ ShowsOK(v) /\ Keeping(c) /\ alive /\ ~Inserting(v)
        /\ Recording(v, t) => call[c].pc = "recordTarget"
    BY <1>1, <1>2, AtPath DEF KeepInv, Inserting, PublishPc, Recording
  <1>5. LiveAt(target[<<v, t>>]) => Shows(v) /\ VolMap[v] # "absent"
    BY <1>4 DEF Shows, ShowsOK
  <1>6. ASSUME NEW pc \in {"bindCheck", "bind", "recordTarget"}, Goto(c, pc), VolMap[v] # "absent",
               \A w \in Volume, u \in Target : <<w, u>> # <<v, t>> => target'[<<w, u>>] = target[<<w, u>>],
               LiveAt(target'[<<v, t>>]) =>
                 /\ Shows(v) \/ Link(v) # {}
                 /\ published[<<v, t>>] # "no" \/ pc = "recordTarget"
        PROVE  KeepInv'
    <2>1. pc \in Pc /\ pc \notin Work
      BY <1>6 DEF Pc, PublishPc, Work, StagePc, DeletePc, UnstagePc
    <2>2. PICK r \in Invocation : /\ call' = [call EXCEPT ![c] = r] /\ UNCHANGED kubeletVars
                                  /\ r.vol = v /\ r.tgt = t /\ r.pc = pc
      BY <1>2, <1>6, <2>1, PathGoto
    <2>3. published' = published /\ call'[c] = r
      BY <2>2 DEF kubeletVars, TypeOK
    <2>4. pc = "recordTarget" => Recording(v, t)'
      BY <2>2, <2>3 DEF Recording
    <2>5. /\ call[c].pc \in PublishPc \cup UnpublishPc
          /\ \A w \in Volume, u \in Target : <<w, u>> # <<v, t>> => SameTarget(w, u)
      BY <1>1, <1>6, <2>3 DEF SameTarget
    <2>6. LiveAt(target'[<<v, t>>]) =>
            /\ Shows(v) \/ (Link(v) # {} /\ VolMap[v] # "absent")
            /\ published'[<<v, t>>] # "no" \/ Recording(v, t)'
      BY <1>6, <2>3, <2>4
    <2>7. call'[c].pc \notin Work /\ call'[c].vol = v
      BY <2>1, <2>2, <2>3
    <2> QED BY <1>1, <1>2, <1>3, <1>6, <2>5, <2>6, <2>7, KeepAtPath
  <1>7. ASSUME NEW ok \in {TRUE, FALSE}, Return(c, ok), target' = target,
               LiveAt(target[<<v, t>>]) => ok \/ published[<<v, t>>] = "yes"
        PROVE  KeepInv'
    <2>1. Return(c, ok)
      BY <1>7
    <2>2. /\ call'[c] = Idle
          /\ \A w \in Volume, u \in Target : <<w, u>> # <<v, t>> => published'[<<w, u>>] = published[<<w, u>>]
          /\ published'[<<v, t>>] = Learn(call[c].op, ok, published[<<v, t>>])
      BY <1>2, <2>1, ToldOfPath DEF OnTarget
    <2>3. LiveAt(target[<<v, t>>]) => published'[<<v, t>>] # "no"
      BY <1>2, <1>7, <2>2 DEF Learn
    <2>4. "idle" \notin Work \cup {"bindCheck", "bind", "recordTarget"}
      BY DEF Work, StagePc, DeletePc, UnstagePc
    <2>5. /\ call[c].pc \in PublishPc \cup UnpublishPc
          /\ \A w \in Volume, u \in Target : <<w, u>> # <<v, t>> => SameTarget(w, u)
      BY <1>1, <1>7, <2>2 DEF SameTarget
    <2>6. LiveAt(target'[<<v, t>>]) =>
            /\ Shows(v) \/ (Link(v) # {} /\ VolMap[v] # "absent")
            /\ published'[<<v, t>>] # "no" \/ Recording(v, t)'
      BY <1>5, <1>7, <2>3
    <2>7. call'[c].pc \notin Work \cup {"bindCheck", "bind", "recordTarget"}
      BY <2>2, <2>4, IdleAt
    <2> QED BY <1>1, <1>2, <1>3, <2>5, <2>6, <2>7, KeepAtPath
  <1>8. CASE PublishCheck(c)
    <2>1. target' = target /\ call[c].pc = "publishCheck"
      BY <1>8 DEF PublishCheck, Quiet, hostVars, At
    <2>2. CASE VolMap[v] = "absent"
      BY <1>2, <1>5, <1>7, <1>8, <2>1, <2>2 DEF PublishCheck
    <2>3. CASE VolMap[v] # "absent"
      <3>1. Goto(c, "bindCheck")
        BY <1>2, <1>8, <2>3 DEF PublishCheck
      <3>2. LiveAt(target[<<v, t>>]) => published[<<v, t>>] # "no"
        BY <1>4, <2>1 DEF ShowsOK
      <3> QED BY <1>5, <1>6, <2>1, <2>3, <3>1, <3>2
    <2> QED BY <2>2, <2>3
  <1>9. CASE BindCheck(c)
    <2>1. /\ target' = target /\ VolMap[v] # "absent"
          /\ LiveAt(target[<<v, t>>]) => MountedAt(target[<<v, t>>])
      BY <1>2, <1>4, <1>9 DEF BindCheck, mounts, At, Keeping, LiveAt
    <2>2. \/ MountedAt(target[<<v, t>>]) /\ Goto(c, "recordTarget")
          \/ ~MountedAt(target[<<v, t>>]) /\ Goto(c, "bind")
          \/ Can("statTarget") /\ Return(c, FALSE)
      BY <1>2, <1>9 DEF BindCheck
    <2>3. ASSUME Can("statTarget"), LiveAt(target[<<v, t>>]) PROVE published[<<v, t>>] = "yes"
      <3>1. published[<<v, t>>] # "maybe"
        BY <2>3 DEF NothingForgotten, Sure, Can
      <3>2. published[<<v, t>>] # "no"
        BY <1>4, <1>9, <2>3 DEF ShowsOK, BindCheck, At
      <3>3. published[<<v, t>>] \in Belief /\ published[<<v, t>>] # "leaving"
        BY <1>2 DEF OnPathOK, TypeOK
      <3> QED BY <3>1, <3>2, <3>3 DEF Belief
    <2> QED BY <1>5, <1>6, <1>7, <2>1, <2>2, <2>3
  <1>10. CASE BindOk(c)
    <2>1. call[c].pc = "bind" /\ target[<<v, t>>] = <<>> /\ VolMap[v] # "absent"
      BY <1>2, <1>4, <1>10 DEF BindOk, At, OnPathOK, Keeping
    <2>2. PICK m \in BindSource(v) : target' = [target EXCEPT ![<<v, t>>] = <<m>> \o <<>>]
      BY <1>2, <1>10, <2>1 DEF BindOk
    <2>3. m \in Mount /\ (m = "live" => Shows(v) \/ Link(v) # {})
      <3>1. CASE v \in BlockVol
        BY <2>2, <3>1 DEF BindSource, Mount
      <3>2. CASE v \notin BlockVol /\ MountedAt(staging[v])
        <4>1. staging[v] \in Seq(Mount) /\ staging[v] # <<>> /\ m = Head(staging[v])
          BY <2>2, <3>2 DEF TypeOK, HostTypeOK, MountedAt, BindSource
        <4> QED BY <3>2, <4>1 DEF Shows, LiveAt
      <3>3. CASE v \notin BlockVol /\ ~MountedAt(staging[v])
        BY <2>2, <3>3 DEF BindSource, Mount
      <3> QED BY <3>1, <3>2, <3>3
    <2>4. /\ target'[<<v, t>>] = <<m>>
          /\ \A w \in Volume, u \in Target : <<w, u>> # <<v, t>> => target'[<<w, u>>] = target[<<w, u>>]
      BY <2>2, <2>3, FirstMount DEF TypeOK, HostTypeOK
    <2>5. LiveAt(target'[<<v, t>>]) => m = "live"
      BY <2>3, <2>4 DEF LiveAt
    <2>6. Goto(c, "recordTarget")
      BY <1>10 DEF BindOk
    <2> QED BY <1>6, <2>1, <2>3, <2>4, <2>5, <2>6
  <1>11. CASE BindFails(c)
    <2>1. target[<<v, t>>] = <<>> /\ target' = target /\ Return(c, FALSE)
      BY <1>2, <1>11 DEF BindFails, At, OnPathOK, Quiet, hostVars
    <2> QED BY <1>7, <2>1 DEF LiveAt, MountedAt
  <1>12. CASE RecordTarget(c)
    <2>1. target' = target /\ Return(c, TRUE)
      BY <1>12 DEF RecordTarget, Quiet, hostVars
    <2> QED BY <1>7, <2>1
  <1> QED BY <1>8, <1>9, <1>10, <1>11, <1>12 DEF NodePublishVolume

\* NodeUnpublishVolume leaves nothing that shows where it answers "done".
LEMMA UnpublishKeeps ==
  ASSUME HostAssumption, TypeOK, HeldInv, MountInv, KeepInv, NEW c \in Call, NodeUnpublishVolume(c)
  PROVE  KeepInv'
  <1>1. call[c].pc \in UnpublishPc /\ call[c].pc \notin PublishPc /\ Handler(c)
    BY DEF NodeUnpublishVolume, UnpublishCheck, UnmountTarget, UnmountTargetFails, RemoveTarget, At,
       UnpublishPc, PublishPc, Handler
  <1>2. PICK v \in Volume, t \in Target :
          /\ v = call[c].vol /\ t = call[c].tgt /\ call[c].op = "unpublish" /\ call[c].waiting
          /\ OnPathOK(c) /\ PathOK(v, t) /\ \A o \in Call : o # c => call[o].vol # v
    BY <1>1, AtPath
  <1>3. staging' = staging /\ dev' = dev /\ VolMap' = VolMap
    BY DEF NodeUnpublishVolume, UnpublishCheck, UnmountTarget, UnmountTargetFails, RemoveTarget, Quiet, hostVars, mounts
  <1>4. /\ LiveAt(target[<<v, t>>]) => Shows(v) /\ published[<<v, t>>] # "no"
        /\ Unmount(target[<<v, t>>]) = <<>> /\ ~LiveAt(<<>>)
    <2>1. ~Recording(v, t) /\ ShowsOK(v)
      BY <1>1, <1>2 DEF Recording, UnpublishPc, KeepInv
    <2> QED BY <1>2, <2>1, OneMount DEF PathOK, ShowsOK, Shows, LiveAt, MountedAt
  <1>5. \A pc \in UnpublishPc \cup {"idle"} : pc \notin Work /\ pc \notin {"bindCheck", "bind", "recordTarget"}
    BY DEF UnpublishPc, Work, StagePc, DeletePc, UnstagePc
  <1>6. ASSUME published' = published, call'[c].pc \in UnpublishPc,
               \A w \in Volume, u \in Target : <<w, u>> # <<v, t>> => target'[<<w, u>>] = target[<<w, u>>],
               LiveAt(target'[<<v, t>>]) => LiveAt(target[<<v, t>>])
        PROVE  KeepInv'
    <2>1. call'[c].pc \notin Work /\ call'[c].pc \notin {"bindCheck", "bind", "recordTarget"}
      BY <1>5, <1>6
    <2>2. LiveAt(target'[<<v, t>>]) => Shows(v) /\ published'[<<v, t>>] # "no"
      BY <1>4, <1>6
    <2>3. \A w \in Volume, u \in Target : <<w, u>> # <<v, t>> => SameTarget(w, u)
      BY <1>6 DEF SameTarget
    <2> QED BY <1>1, <1>2, <1>3, <2>1, <2>2, <2>3, KeepAtPath
  <1>7. ASSUME NEW ok \in {TRUE, FALSE}, Return(c, ok), ok => target'[<<v, t>>] = <<>>,
               \A w \in Volume, u \in Target : <<w, u>> # <<v, t>> => target'[<<w, u>>] = target[<<w, u>>],
               LiveAt(target'[<<v, t>>]) => LiveAt(target[<<v, t>>])
        PROVE  KeepInv'
    <2>1. Return(c, ok)
      BY <1>7
    <2>2. /\ call'[c] = Idle
          /\ \A w \in Volume, u \in Target : <<w, u>> # <<v, t>> => published'[<<w, u>>] = published[<<w, u>>]
          /\ published'[<<v, t>>] = Learn(call[c].op, ok, published[<<v, t>>])
      BY <1>2, <2>1, ToldOfPath DEF OnTarget
    <2>3. LiveAt(target'[<<v, t>>]) => published'[<<v, t>>] # "no"
      BY <1>2, <1>4, <1>7, <2>2 DEF Learn, Doubt
    <2>4. call'[c].pc \notin Work /\ call'[c].pc \notin {"bindCheck", "bind", "recordTarget"}
      BY <1>5, <2>2, IdleAt
    <2>5. \A w \in Volume, u \in Target : <<w, u>> # <<v, t>> => SameTarget(w, u)
      BY <1>7, <2>2 DEF SameTarget
    <2>6. LiveAt(target'[<<v, t>>]) => Shows(v)
      BY <1>4, <1>7
    <2> QED BY <1>1, <1>2, <1>3, <2>3, <2>4, <2>5, <2>6, KeepAtPath
  <1>8. ASSUME target' = [target EXCEPT ![<<v, t>>] = Unmount(target[<<v, t>>])]
        PROVE  /\ target'[<<v, t>>] = <<>>
               /\ \A w \in Volume, u \in Target : <<w, u>> # <<v, t>> => target'[<<w, u>>] = target[<<w, u>>]
    BY <1>4, <1>8 DEF TypeOK, HostTypeOK
  <1>9. CASE UnpublishCheck(c)
    <2> DEFINE r == [call[c] EXCEPT !.pc = "unmountTarget", !.known = (VolMap[call[c].vol] # "absent")]
    <2>1. call' = [call EXCEPT ![c] = r] /\ published' = published /\ target' = target
      BY <1>9 DEF UnpublishCheck, Quiet, hostVars, kubeletVars
    <2>2. r.pc = "unmountTarget"
      <3>1. call[c] \in Invocation
        BY DEF TypeOK
      <3> QED BY <3>1 DEF Invocation
    <2> HIDE DEF r
    <2>3. call'[c].pc \in UnpublishPc
      BY <2>1, <2>2 DEF TypeOK, UnpublishPc
    <2> QED BY <1>6, <2>1, <2>3
  <1>10. CASE UnmountTarget(c)
    <2>1. /\ target'[<<v, t>>] = <<>>
          /\ \A w \in Volume, u \in Target : <<w, u>> # <<v, t>> => target'[<<w, u>>] = target[<<w, u>>]
      BY <1>2, <1>8, <1>10 DEF UnmountTarget
    <2>2. CASE Return(c, TRUE)
      BY <1>4, <1>7, <2>1, <2>2
    <2>3. CASE Goto(c, "removeTarget")
      <3>1. published' = published /\ call'[c].pc \in UnpublishPc
        BY <2>3, GotoFields DEF Goto, kubeletVars, UnpublishPc
      <3> QED BY <1>4, <1>6, <2>1, <3>1
    <2> QED BY <1>10, <2>2, <2>3 DEF UnmountTarget
  <1>11. CASE UnmountTargetFails(c)
    <2>1. target' = target /\ Return(c, FALSE)
      BY <1>11 DEF UnmountTargetFails, Quiet, hostVars
    <2> QED BY <1>7, <2>1
  <1>12. CASE RemoveTarget(c)
    <2>1. target[<<v, t>>] = <<>> /\ Return(c, TRUE)
      BY <1>2, <1>12 DEF RemoveTarget, At, OnPathOK
    <2>2. target' = [target EXCEPT ![<<v, t>>] = <<>>] \/ target' = target
      BY <1>2, <1>4, <1>12, <2>1 DEF RemoveTarget
    <2>3. /\ target'[<<v, t>>] = <<>>
          /\ \A w \in Volume, u \in Target : <<w, u>> # <<v, t>> => target'[<<w, u>>] = target[<<w, u>>]
      <3>1. CASE target' = [target EXCEPT ![<<v, t>>] = <<>>]
        BY <3>1 DEF TypeOK, HostTypeOK
      <3> QED BY <2>1, <2>2, <3>1
    <2> QED BY <1>4, <1>7, <2>1, <2>3
  <1> QED BY <1>9, <1>10, <1>11, <1>12 DEF NodeUnpublishVolume

\* What the host does by itself leaves every volume that shows somewhere its link.
LEMMA HostKeepsShows ==
  ASSUME HostAssumption, TypeOK, MountInv, KeepInv, Host
  PROVE  KeepInv'
  <1>1. UNCHANGED <<VolMap, call, alive, published>>
    BY DEF Host, pluginVars, kubeletVars
  <1>2. ASSUME NEW w \in Volume
        PROVE  /\ Shows(w)' => Shows(w)
               /\ Shows(w)' /\ Link(w) # {} => Link(w)' # {}
               /\ \A u \in Target : LiveAt(target'[<<w, u>>]) => LiveAt(target[<<w, u>>])
    <2>1. PICK v \in Volume : DaemonUp(v) \/ DaemonCrash(v) \/ Respawn(v) \/ StartLimit(v) \/ Collect(v)
      BY DEF Host, HostNext
    <2>2. CASE Respawn(v) \/ StartLimit(v) \/ Collect(v)
      BY <2>2 DEF Respawn, StartLimit, Collect, mounts, Shows, Link, DevsOf
    <2>3. CASE DaemonUp(v)
      <3>1. UNCHANGED mounts
        BY <2>3 DEF DaemonUp
      <3>2. PICK d \in DevId : /\ dev[d].vol \in {v, NoVol}
                               /\ dev' = [dev EXCEPT ![d] = [vol |-> v, state |-> "live"]]
        <4>1. PICK d \in DevId : /\ d \in DevsOf(v, {"quiesced"}) \/ d \in FreeIds
                                 /\ dev' = [dev EXCEPT ![d] = [vol |-> v, state |-> "live"]]
          BY <2>3 DEF DaemonUp
        <4>2. dev[d].vol \in {v, NoVol}
          BY <4>1 DEF DevsOf, FreeIds, FreeDev
        <4> QED BY <4>1, <4>2
      <3>3. ASSUME NEW e \in Link(w) PROVE e \in Link(w)'
        <4>1. e \in DevId /\ dev[e].vol = w /\ dev[e].state \in {"live", "quiesced"}
          BY <3>3 DEF Link, DevsOf
        <4>2. CASE e = d
          <5>1. w = v /\ dev'[e] = [vol |-> v, state |-> "live"]
            BY <3>2, <4>1, <4>2 DEF HostAssumption, TypeOK, HostTypeOK
          <5> QED BY <4>1, <5>1 DEF Link, DevsOf
        <4>3. CASE e # d
          <5>1. dev'[e] = dev[e]
            BY <3>2, <4>1, <4>3 DEF TypeOK, HostTypeOK
          <5> QED BY <4>1, <5>1 DEF Link, DevsOf
        <4> QED BY <4>2, <4>3
      <3> QED BY <3>1, <3>3 DEF mounts, Shows
    <2>4. CASE DaemonCrash(v) /\ Recoverable(v)
      <3>1. UNCHANGED mounts
        BY <2>4 DEF DaemonCrash, DetachDaemon
      <3>2. dev' = [d \in DevId |-> IF dev[d].vol = v /\ dev[d].state = "live"
                                    THEN [vol |-> v, state |-> "quiesced"] ELSE dev[d]]
        BY <2>4 DEF DaemonCrash, DetachDaemon
      <3>3. Link(w) \subseteq Link(w)'
        BY <3>2 DEF Link, DevsOf
      <3> QED BY <3>1, <3>3 DEF mounts, Shows
    <2>5. CASE DaemonCrash(v) /\ ~Recoverable(v)
      <3>1. LoseMounts(v)
        BY <2>5 DEF DaemonCrash, DetachDaemon
      <3>2. dev' = [d \in DevId |-> IF dev[d].vol = v /\ dev[d].state = "live"
                                    THEN [vol |-> v, state |-> "dead"] ELSE dev[d]]
        BY <2>5 DEF DaemonCrash, DetachDaemon
      <3>3. CASE w = v
        BY <3>1, <3>3, LoseFades DEF Shows
      <3>4. CASE w # v
        <4>1. Link(w) \subseteq Link(w)'
          BY <3>2, <3>4 DEF Link, DevsOf
        <4> QED BY <3>1, <3>4, <4>1, LoseFades DEF Shows
      <3> QED BY <3>3, <3>4
    <2> QED BY <2>1, <2>2, <2>3, <2>4, <2>5
  <1>3. ASSUME NEW w \in Volume PROVE ShowsOK(w)'
    <2>1. ShowsOK(w) /\ (Inserting(w)' <=> Inserting(w)) /\ \A u \in Target : Recording(w, u)' <=> Recording(w, u)
      BY <1>1 DEF KeepInv, Inserting, Recording
    <2>2. /\ Shows(w)' => Shows(w)
          /\ Shows(w)' /\ Link(w) # {} => Link(w)' # {}
          /\ \A u \in Target : LiveAt(target'[<<w, u>>]) => LiveAt(target[<<w, u>>])
      BY <1>2
    <2> QED BY <1>1, <2>1, <2>2 DEF ShowsOK
  <1>4. ASSUME NEW c \in Call PROVE Keeping(c)'
    <2>1. Keeping(c) /\ call' = call /\ VolMap' = VolMap
      BY <1>1 DEF KeepInv
    <2>2. call[c].pc \in Work => call[c].vol \in Volume
      BY DEF MountInv, OnPathOK, OpAt, Work, StagePc, DeletePc, UnstagePc
    <2> QED BY <1>2, <2>1, <2>2 DEF Keeping
  <1> QED BY <1>3, <1>4 DEF KeepInv

\* A request that has just come in changes nothing that a volume relies on.
LEMMA AskingKeeps ==
  ASSUME "clientTimeout" \notin Faults, TypeOK, KeepInv, NEW c \in Call, Kubelet(c)
  PROVE  KeepInv'
  <1>1. \E op, v, t, f : \E pc \in {"stageCheck", "unstageCheck", "publishCheck", "unpublishCheck"} :
          Begin(c, op, pc, v, t, f)
    BY DEF Kubelet, CallStage, CallUnstage, CallPublish, CallUnpublish, Abandon, Can
  <1>2. PICK op, v, t, f, pc :
          pc \in {"stageCheck", "unstageCheck", "publishCheck", "unpublishCheck"} /\ Begin(c, op, pc, v, t, f)
    BY <1>1
  <1>3. /\ OthersStand(c) /\ call'[c].pc = pc
        /\ UNCHANGED <<dev, staging, target, VolMap, alive, published>>
    BY <1>2 DEF Begin, Idle, OthersStand, TypeOK, hostVars, kubeletVars
  <1>4. call[c].pc = "idle"
    BY <1>2, IdleAt DEF Begin
  <1>5. ASSUME NEW w \in Volume PROVE ShowsOK(w)'
    <2>1. ShowsOK(w) /\ (Inserting(w) => Inserting(w)')
      BY <1>3, <1>4 DEF KeepInv, Inserting, OthersStand
    <2>2. \A u \in Target : Recording(w, u) => Recording(w, u)'
      BY <1>3, <1>4 DEF Recording, OthersStand
    <2>3. (Shows(w)' <=> Shows(w)) /\ Link(w)' = Link(w)
      BY <1>3 DEF Shows, Link, DevsOf
    <2> QED BY <1>3, <2>1, <2>2, <2>3 DEF ShowsOK
  <1>6. ASSUME NEW o \in Call PROVE Keeping(o)'
    <2>1. CASE o = c
      <3>1. pc \notin Work /\ pc \notin {"bindCheck", "bind", "recordTarget"}
        BY <1>2 DEF Work, StagePc, DeletePc, UnstagePc
      <3> QED BY <1>3, <2>1, <3>1 DEF Keeping
    <2>2. CASE o # c
      <3>1. call'[o] = call[o] /\ Keeping(o)
        BY <1>3, <2>2 DEF OthersStand, KeepInv
      <3>2. Shows(call[o].vol)' <=> Shows(call[o].vol)
        <4>1. staging' = staging /\ target' = target /\ call'[o] = call[o]
          BY <1>3, <3>1
        <4> QED BY <4>1 DEF Shows
      <3> QED BY <1>3, <3>1, <3>2 DEF Keeping
    <2> QED BY <2>1, <2>2
  <1> QED BY <1>5, <1>6 DEF KeepInv

\* A killed plugin leaves the mounts, and what it had not answered in doubt; the
\* one that is started next has an entry for every volume that shows somewhere.
LEMMA RestartKeeps ==
  ASSUME HostAssumption, NothingForgotten, TypeOK, HeldInv, MountInv, Sure, KeepInv,
         PluginCrash \/ UpdateNodeVolumeMap
  PROVE  KeepInv'
  <1>0. "listVolumes" \notin Faults
    BY DEF PluginCrash, UpdateNodeVolumeMap, Sure, NothingForgotten, Can
  <1>1. \A c \in Call : call'[c] = Idle
    BY DEF PluginCrash, UpdateNodeVolumeMap, MountInv
  <1>2. "idle" \notin Work \cup {"bindCheck", "bind", "recordTarget"}
    BY DEF Work, StagePc, DeletePc, UnstagePc
  <1>3. \A c \in Call : Keeping(c)'
    BY <1>1, <1>2, IdleAt DEF Keeping
  <1>4. UNCHANGED <<dev, staging, target>>
    BY DEF PluginCrash, DaemonsSurvive, UpdateNodeVolumeMap, hostVars
  <1>5. ASSUME NEW v \in Volume, NEW u \in Target, LiveAt(target[<<v, u>>])
        PROVE  published'[<<v, u>>] # "no"
    <2>1. published[<<v, u>>] # "no" \/ Recording(v, u)
      BY <1>5 DEF KeepInv, ShowsOK
    <2>2. CASE PluginCrash
      <3>1. Recording(v, u) => UnansweredAt("publish", v, u)
        <4> SUFFICES ASSUME NEW c \in Call, call[c].pc = "recordTarget", call[c].vol = v, call[c].tgt = u
                     PROVE  call[c].waiting /\ call[c].op = "publish"
          BY DEF Recording, UnansweredAt
        <4>1. OnPathOK(c) /\ call[c].pc \in PublishPc
          BY DEF MountInv, PublishPc
        <4>2. call[c].waiting
          BY <4>1, Alone DEF PublishPc
        <4> QED BY <4>1, <4>2 DEF OnPathOK
      <3>2. published'[<<v, u>>] =
              CASE UnansweredAt("publish", v, u) -> Doubt("publish", published[<<v, u>>])
                [] UnansweredAt("unpublish", v, u) -> Doubt("unpublish", published[<<v, u>>])
                [] OTHER -> published[<<v, u>>]
        BY <2>2 DEF PluginCrash
      <3>3. \A b : Doubt("publish", b) # "no" /\ Doubt("unpublish", b) # "no"
        BY DEF Doubt
      <3> QED BY <2>1, <3>1, <3>2, <3>3
    <2>3. CASE UpdateNodeVolumeMap
      <3>1. ~Recording(v, u) /\ published' = published
        BY <2>3, IdleAt DEF UpdateNodeVolumeMap, MountInv, Recording, kubeletVars
      <3> QED BY <2>1, <3>1
    <2> QED BY <2>2, <2>3
  <1>6. ASSUME NEW v \in Volume PROVE ShowsOK(v)'
    <2>1. (Shows(v)' <=> Shows(v)) /\ Link(v)' = Link(v)
      BY <1>4 DEF Shows, Link, DevsOf
    <2>2. Shows(v) => Link(v) # {}
      BY DEF KeepInv, ShowsOK
    <2>3. alive' /\ Shows(v) => VolMap'[v] # "absent"
      BY <1>0, <2>2 DEF PluginCrash, UpdateNodeVolumeMap, Can, SeededEntry
    <2> QED BY <1>4, <1>5, <2>1, <2>2, <2>3 DEF ShowsOK
  <1> QED BY <1>3, <1>6 DEF KeepInv

\* Only the end of a device turns a mount stale, and who ends a device that is
\* not its daemon's crash has seen to it that nothing of its volume is mounted.
LEMMA NoneLost ==
  ASSUME HostAssumption, TypeOK, HeldInv, MountInv, KeepInv, NEW c \in Call, Handler(c), NEW v \in Volume
  PROVE  ~LosesMount(v)
  <1>1. call[c].pc # "idle"
    BY IdleAt, HandlerRuns DEF MountInv, OnPathOK, OpAt
  <1>2. PICK w \in Volume : w = call[c].vol /\ OnPathOK(c)
    BY <1>1, Alone DEF MountInv
  <1>3. AtMostOne(staging[w]) /\ \A u \in Target : PathOK(w, u)
    BY DEF MountInv
  <1>4. CASE KeepsMounts
    BY <1>4 DEF KeepsMounts, LosesMount
  <1>5. CASE LosesDevice(c)
    <2>1. ~Shows(w)
      BY <1>2, <1>5 DEF LosesDevice, KeepInv, Keeping, Work, Mounted, StagePc, DeletePc
    <2>2. CASE v = w
      BY <2>1, <2>2 DEF Shows, LosesMount
    <2>3. CASE v # w
      <3>1. LoseMounts(w)
        BY <1>2, <1>5 DEF LosesDevice
      <3>2. staging'[v] = staging[v] /\ \A u \in Target : target'[<<v, u>>] = target[<<v, u>>]
        BY <2>3, <3>1, LoseFades
      <3> QED BY <3>2 DEF LosesMount
    <2> QED BY <2>2, <2>3
  <1>6. CASE Stages(c) \/ Unstages(c)
    <2>1. Stages(c) => staging[w] = <<>>
      BY <1>2 DEF Stages, OnPathOK
    <2>2. Unstages(c) => staging' = [staging EXCEPT ![w] = <<>>]
      BY <1>2, <1>3, OneMount DEF Unstages
    <2>3. target' = target /\ \A x \in Volume : x # w => staging'[x] = staging[x]
      BY <1>2, <1>6 DEF Stages, Unstages, TypeOK, HostTypeOK
    <2>4. staging[w] = <<>> \/ staging'[w] = <<>>
      BY <1>6, <2>1, <2>2 DEF TypeOK, HostTypeOK
    <2> QED BY <2>3, <2>4 DEF LosesMount, LiveAt, MountedAt
  <1>7. CASE Binds(c) \/ Unbinds(c)
    <2>1. call[c].pc \in PublishPc \cup UnpublishPc
      BY <1>7 DEF Binds, Unbinds, PublishPc, UnpublishPc
    <2>2. PICK t \in Target : t = call[c].tgt
      BY <2>1, AtPath
    <2>3. Binds(c) => target[<<w, t>>] = <<>>
      BY <1>2, <2>2 DEF Binds, OnPathOK
    <2>4. Unbinds(c) => target' = [target EXCEPT ![<<w, t>>] = <<>>]
      BY <1>2, <1>3, <2>2, OneMount DEF Unbinds, PathOK
    <2>5. /\ staging' = staging
          /\ \A x \in Volume, u \in Target : <<x, u>> # <<w, t>> => target'[<<x, u>>] = target[<<x, u>>]
      BY <1>2, <1>7, <2>2 DEF Binds, Unbinds, TypeOK, HostTypeOK
    <2>6. target[<<w, t>>] = <<>> \/ target'[<<w, t>>] = <<>>
      BY <1>7, <2>3, <2>4 DEF TypeOK, HostTypeOK
    <2> QED BY <2>5, <2>6 DEF LosesMount, LiveAt, MountedAt
  <1> QED BY <1>4, <1>5, <1>6, <1>7, HandlerMounts

\* No step of a handler takes the device from under a mount, of its own volume
\* or of another: whichever host operation fails and whichever daemon crashes; and
\* whenever the plugin is killed, as long as every start has its map and target
\* paths can be examined.
THEOREM HandlersKeepMountsHolds ==
  ASSUME HostAssumption, NodeAssumption, "clientTimeout" \notin Faults, NothingForgotten
  PROVE  Spec => HandlersKeepMounts
  <1> DEFINE Kept == \A v \in Volume : LosesMount(v) => call' = call
  <1>1. Init => KeepInv
    <2> SUFFICES ASSUME Init PROVE KeepInv
      OBVIOUS
    <2>1. \A v \in Volume : ~Shows(v) /\ \A u \in Target : ~LiveAt(target[<<v, u>>])
      BY DEF Init, HostInit, Shows, LiveAt, MountedAt
    <2>2. \A c \in Call : call[c].pc \notin Work /\ call[c].pc \notin {"bindCheck", "bind", "recordTarget"}
      BY IdleAt DEF Init, Work, StagePc, DeletePc, UnstagePc
    <2> QED BY <2>1, <2>2 DEF KeepInv, ShowsOK, Keeping
  <1>2. ASSUME TypeOK, HeldInv, MountInv, Sure, KeepInv, [Next]_vars PROVE Sure' /\ KeepInv'
    <2>0. Sure'
      BY <1>2, SureStep
    <2>1. ASSUME NEW c \in Call, Handler(c) PROVE KeepInv'
      BY <1>2, <2>1, WorkKeeps, PublishKeeps, UnpublishKeeps DEF Handler
    <2>2. ASSUME UNCHANGED vars PROVE KeepInv'
      <3>1. UNCHANGED <<dev, staging, target, VolMap, call, alive, published>>
        BY <2>2 DEF vars, hostVars, pluginVars, kubeletVars
      <3>2. ASSUME NEW v \in Volume PROVE ShowsOK(v)'
        <4>1. ShowsOK(v) /\ Link(v)' = Link(v) /\ (Shows(v)' <=> Shows(v)) /\ (Inserting(v)' <=> Inserting(v))
          BY <1>2, <3>1 DEF KeepInv, Link, DevsOf, Shows, Inserting
        <4>2. \A u \in Target : Recording(v, u)' <=> Recording(v, u)
          BY <3>1 DEF Recording
        <4> QED BY <3>1, <4>1, <4>2 DEF ShowsOK
      <3>3. ASSUME NEW c \in Call PROVE Keeping(c)'
        <4>1. Keeping(c) /\ call'[c] = call[c] /\ (Shows(call[c].vol)' <=> Shows(call[c].vol))
          BY <1>2, <3>1 DEF KeepInv, Shows
        <4> QED BY <3>1, <4>1 DEF Keeping
      <3> QED BY <3>2, <3>3 DEF KeepInv
    <2> QED BY <1>2, <2>0, <2>1, <2>2, AskingKeeps, HostKeepsShows, RestartKeeps DEF Next
  <1>3. ASSUME TypeOK, HeldInv, MountInv, KeepInv, [Next]_vars PROVE Kept
    <2>1. ASSUME UNCHANGED <<staging, target>> \/ call' = call PROVE Kept
      BY <2>1 DEF LosesMount
    <2>2. ASSUME NEW c \in Call, Handler(c) PROVE Kept
      BY <1>3, <2>2, NoneLost
    <2>3. ASSUME NEW c \in Call, Kubelet(c) PROVE UNCHANGED <<staging, target>>
      BY <2>3 DEF Kubelet, CallStage, CallUnstage, CallPublish, CallUnpublish, Abandon, Begin, hostVars
    <2>4. PluginCrash \/ UpdateNodeVolumeMap \/ UNCHANGED vars => UNCHANGED <<staging, target>>
      BY DEF PluginCrash, DaemonsSurvive, UpdateNodeVolumeMap, vars, hostVars
    <2>5. Host => call' = call
      BY DEF Host, pluginVars
    <2> HIDE DEF Kept
    <2> QED BY <1>3, <2>1, <2>2, <2>3, <2>4, <2>5 DEF Next
  <1>4. TypeOK /\ HeldInv /\ MountInv /\ KeepInv /\ [Next]_vars => [Kept]_vars
    BY <1>3
  <1>5. Init => Sure
    BY DEF Init, Sure
  <1> QED BY <1>1, <1>2, <1>4, <1>5, MountCorrect, PTL DEF Spec, HandlersKeepMounts
=============================================================================
