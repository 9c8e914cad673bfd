-------------------------- MODULE NodeServerProofs --------------------------
(***************************************************************************)
(* What TLAPS proves of NodeServer for every set of volumes, targets,      *)
(* device numbers and invocations and for every set of faults: that it     *)
(* keeps its types, and that a device number held by DeleteUblkDevice does *)
(* not become another volume's.                                            *)
(***************************************************************************)
EXTENDS NodeServer, TLAPS, SequenceTheorems

\* A stack of mounts stays one when the device under it goes.
LEMMA StaleType ==
  ASSUME NEW s \in Seq(Mount)
  PROVE  Stale(s) \in Seq(Mount)
  <1>1. s \in [1..Len(s) -> Mount] /\ Len(s) \in Nat
    BY LenProperties
  <1>2. Stale(s) \in [1..Len(s) -> Mount]
    BY <1>1 DEF Stale, Mount
  <1> QED BY <1>1, <1>2, SeqDef

\* Unmounting leaves a stack of mounts.
LEMMA UnmountType ==
  ASSUME NEW s \in Seq(Mount)
  PROVE  Unmount(s) \in Seq(Mount)
  BY HeadTailProperties DEF Unmount, MountedAt

\* Mounting leaves a stack of mounts.
LEMMA MountType ==
  ASSUME NEW s \in Seq(Mount), NEW m \in Mount
  PROVE  <<m>> \o s \in Seq(Mount)
  OBVIOUS

\* Losing the device of a volume leaves stacks of mounts everywhere.
LEMMA LoseMountsType ==
  ASSUME NEW v, staging \in [Volume -> Seq(Mount)],
         target \in [Volume \X Target -> Seq(Mount)], LoseMounts(v)
  PROVE  /\ staging' \in [Volume -> Seq(Mount)]
         /\ target' \in [Volume \X Target -> Seq(Mount)]
  BY StaleType DEF LoseMounts

\* A daemon's end leaves every device number free or owned by a volume.
LEMMA DetachType ==
  ASSUME NEW v, NEW left \in {"quiesced", "dead"}, HostTypeOK, HostAssumption, DetachDaemon(v, left)
  PROVE  /\ dev' \in [DevId -> Device]
         /\ staging' \in [Volume -> Seq(Mount)]
         /\ target' \in [Volume \X Target -> Seq(Mount)]
  <1>1. ASSUME NEW d \in DevId PROVE dev'[d] \in Device
    <2>1. dev[d] \in Device
      BY DEF HostTypeOK
    <2>2. CASE dev[d].vol = v /\ dev[d].state = "live"
      <3>1. v \in Volume
        BY <2>1, <2>2 DEF Device, FreeDev
      <3>2. dev'[d] = [vol |-> v, state |-> left]
        BY <2>2 DEF DetachDaemon
      <3> QED BY <3>1, <3>2 DEF Device
    <2>3. CASE ~(dev[d].vol = v /\ dev[d].state = "live")
      BY <2>1, <2>3 DEF DetachDaemon
    <2> QED BY <2>2, <2>3
  <1>1a. dev' \in [DevId -> Device]
    BY <1>1 DEF DetachDaemon
  <1>2. /\ staging' \in [Volume -> Seq(Mount)]
        /\ target' \in [Volume \X Target -> Seq(Mount)]
    BY LoseMountsType DEF DetachDaemon, HostTypeOK, mounts
  <1> QED BY <1>1a, <1>2

\* The effect of stopUblkUnit on the host is well typed.
LEMMA StopUnitType ==
  ASSUME NEW v, HostTypeOK, HostAssumption, StopUnit(v)
  PROVE  /\ unit' \in [Volume -> UnitState]
         /\ dev' \in [DevId -> Device]
         /\ staging' \in [Volume -> Seq(Mount)]
         /\ target' \in [Volume \X Target -> Seq(Mount)]
  <1>1. unit' \in [Volume -> UnitState]
    BY DEF StopUnit, HostTypeOK, UnitState
  <1>2. PICK left \in {"quiesced", "dead"} : DetachDaemon(v, left)
    BY DEF StopUnit, LeftByStop
  <1> QED BY <1>1, <1>2, DetachType

\* The effect of `ublk del` on the host is well typed.
LEMMA UblkDelType ==
  ASSUME NEW d, HostTypeOK, UblkDel(d)
  PROVE  /\ unit' \in [Volume -> UnitState]
         /\ dev' \in [DevId -> Device]
         /\ staging' \in [Volume -> Seq(Mount)]
         /\ target' \in [Volume \X Target -> Seq(Mount)]
  <1>1. CASE dev[d] = FreeDev
    BY <1>1 DEF UblkDel, HostTypeOK, mounts
  <1>2. CASE dev[d] # FreeDev
    <2>1. /\ staging' \in [Volume -> Seq(Mount)]
          /\ target' \in [Volume \X Target -> Seq(Mount)]
      BY <1>2, LoseMountsType DEF UblkDel, HostTypeOK
    <2>2. dev' \in [DevId -> Device]
      BY <1>2 DEF UblkDel, HostTypeOK, Device
    <2>3. unit' \in [Volume -> UnitState]
      BY <1>2 DEF UblkDel, HostTypeOK, UnitState
    <2> QED BY <2>1, <2>2, <2>3
  <1> QED BY <1>1, <1>2

\* A live device belongs to a volume.
LEMMA LiveVolume ==
  ASSUME HostTypeOK, NEW v, Live(v)
  PROVE  v \in Volume
  <1>1. PICK d \in DevId : dev[d].vol = v /\ dev[d].state = "live"
    BY DEF Live, DevsOf
  <1>2. dev[d] \in Device
    BY DEF HostTypeOK
  <1> QED BY <1>1, <1>2 DEF Device, FreeDev

\* A fresh node with a fresh plugin is well typed.
LEMMA InitType == ASSUME HostAssumption, NodeAssumption, Init PROVE TypeOK
  <1>1. <<>> \in Seq(Mount)
    BY EmptySeq
  <1>2. HostTypeOK
    BY <1>1 DEF Init, HostInit, HostTypeOK, UnitState, Device, FreeDev
  <1>3. Idle \in Invocation
    BY DEF Idle, Invocation, Pc
  <1> QED BY <1>2, <1>3 DEF Init, TypeOK, Belief

\* The updates that handlers make to their locals keep them well typed.
LEMMA FieldTypes ==
  ASSUME NEW r \in Invocation
  PROVE  /\ \A x \in Pc : [r EXCEPT !.pc = x] \in Invocation
         /\ \A x \in Pc, d \in DevId \cup {NoDev} : [r EXCEPT !.pc = x, !.dev = d] \in Invocation
         /\ \A x \in Pc, f \in FsType \cup {""} : [r EXCEPT !.pc = x, !.fs = f] \in Invocation
         /\ \A x \in Pc, b \in BOOLEAN : [r EXCEPT !.pc = x, !.known = b] \in Invocation
         /\ [r EXCEPT !.waiting = FALSE] \in Invocation
  BY DEF Invocation

\* Moving on within a handler keeps the invocations well typed.
LEMMA GotoType ==
  ASSUME TypeOK, NEW c \in Call, NEW pc \in Pc, Goto(c, pc)
  PROVE  /\ call' \in [Call -> Invocation]
         /\ staged' = staged
         /\ published' = published
  BY FieldTypes DEF Goto, TypeOK, kubeletVars

\* What the kubelet concludes is one of the beliefs it may have.
LEMMA LearnType ==
  ASSUME NEW op, NEW ok
  PROVE  /\ \A b \in {"no", "yes", "maybe"} : op \in OnVolume =>
              Learn(op, ok, b) \in {"no", "yes", "maybe"} /\ Doubt(op, b) \in {"no", "yes", "maybe"}
         /\ \A b \in Belief : op \in OnTarget =>
              Learn(op, ok, b) \in Belief /\ Doubt(op, b) \in Belief
  BY DEF Learn, Doubt, OnVolume, OnTarget, Belief

\* A handler's answer keeps the invocations and the beliefs well typed.
LEMMA ReturnType ==
  ASSUME TypeOK, NEW c \in Call, NEW ok, Return(c, ok)
  PROVE  /\ call' \in [Call -> Invocation]
         /\ staged' \in [Volume -> {"no", "yes", "maybe"}]
         /\ published' \in [Volume \X Target -> Belief]
  <1>1. call' \in [Call -> Invocation]
    BY DEF Return, TypeOK, Invocation, Idle, Pc
  <1>2. staged' \in [Volume -> {"no", "yes", "maybe"}]
    BY LearnType DEF Return, TypeOK
  <1>3. published' \in [Volume \X Target -> Belief]
    BY LearnType DEF Return, TypeOK
  <1> QED BY <1>1, <1>2, <1>3

\* So does going on after DeleteUblkDevice, in stage as in unstage.
LEMMA AfterDeleteType ==
  ASSUME HostAssumption, TypeOK, NEW c \in Call, AfterDelete(c)
  PROVE  /\ call' \in [Call -> Invocation]
         /\ staged' \in [Volume -> {"no", "yes", "maybe"}]
         /\ published' \in [Volume \X Target -> Belief]
  <1>1. CASE call[c].op = "stage"
    BY <1>1, ReturnType DEF AfterDelete
  <1>2. CASE call[c].op # "stage"
    <2>1. "cleanupStaging" \in Pc /\ call[c] \in Invocation
      BY DEF Pc, UnstagePc, TypeOK
    <2>2. [call[c] EXCEPT !.pc = "cleanupStaging", !.dev = NoDev] \in Invocation
      BY <2>1, FieldTypes
    <2>3. call' = [call EXCEPT ![c] = [call[c] EXCEPT !.pc = "cleanupStaging", !.dev = NoDev]]
      BY <1>2 DEF AfterDelete
    <2> QED BY <1>2, <2>2, <2>3 DEF AfterDelete, TypeOK, kubeletVars
  <1> QED BY <1>1, <1>2

\* A new request keeps the types.
LEMMA BeginType ==
  ASSUME TypeOK, NEW c \in Call, NEW op \in OnVolume \cup OnTarget, NEW pc \in Pc,
         NEW v \in Volume, NEW t \in Target \cup {NoTgt}, NEW f \in FsType \cup {""},
         Begin(c, op, pc, v, t, f)
  PROVE  TypeOK'
  <1>1. call' \in [Call -> Invocation]
    BY DEF Begin, TypeOK, Invocation, Idle, OnVolume, OnTarget
  <1> QED BY <1>1 DEF Begin, TypeOK, HostTypeOK, hostVars, kubeletVars

\* The kubelet's steps keep the types.
LEMMA KubeletType ==
  ASSUME HostAssumption, NodeAssumption, TypeOK, NEW c \in Call, Kubelet(c)
  PROVE  TypeOK'
  <1>1. ASSUME NEW v \in Volume, CallStage(c, v) PROVE TypeOK'
    <2>1. "stage" \in OnVolume /\ "stageCheck" \in Pc
      BY DEF OnVolume, Pc, StagePc
    <2>2. PICK f \in FsType \cup {""} : Begin(c, "stage", "stageCheck", v, NoTgt, f)
      BY <1>1 DEF CallStage, NodeAssumption
    <2> QED BY <2>1, <2>2, BeginType
  <1>2. ASSUME NEW v \in Volume, CallUnstage(c, v) PROVE TypeOK'
    <2>1. "unstage" \in OnVolume /\ "unstageCheck" \in Pc
      BY DEF OnVolume, Pc, UnstagePc
    <2> QED BY <1>2, <2>1, BeginType DEF CallUnstage
  <1>3. ASSUME NEW v \in Volume, NEW t \in Target, CallPublish(c, v, t) PROVE TypeOK'
    <2>1. "publish" \in OnTarget /\ "publishCheck" \in Pc
      BY DEF OnTarget, Pc, PublishPc
    <2> QED BY <1>3, <2>1, BeginType DEF CallPublish
  <1>4. ASSUME NEW v \in Volume, NEW t \in Target, CallUnpublish(c, v, t) PROVE TypeOK'
    <2>1. "unpublish" \in OnTarget /\ "unpublishCheck" \in Pc
      BY DEF OnTarget, Pc, UnpublishPc
    <2> QED BY <1>4, <2>1, BeginType DEF CallUnpublish
  <1>5. ASSUME Abandon(c) PROVE TypeOK'
    <2>1. call' = [call EXCEPT ![c] = [call[c] EXCEPT !.waiting = FALSE]]
      BY <1>5 DEF Abandon
    <2>a. call' \in [Call -> Invocation]
      BY <2>1, FieldTypes DEF TypeOK
    <2>2. staged' \in [Volume -> {"no", "yes", "maybe"}]
      BY <1>5, LearnType DEF Abandon, TypeOK
    <2>3. published' \in [Volume \X Target -> Belief]
      BY <1>5, LearnType DEF Abandon, TypeOK
    <2> QED BY <1>5, <2>a, <2>2, <2>3 DEF Abandon, TypeOK, HostTypeOK, hostVars
  <1> QED BY <1>1, <1>2, <1>3, <1>4, <1>5 DEF Kubelet

\* Handler steps that only move on keep the types.
LEMMA QuietGoto ==
  ASSUME TypeOK, NEW c \in Call, NEW pc \in Pc, Goto(c, pc), Quiet
  PROVE  TypeOK'
  BY GotoType DEF Quiet, TypeOK, HostTypeOK, hostVars

\* Handler steps that only answer keep the types.
LEMMA QuietReturn ==
  ASSUME TypeOK, NEW c \in Call, NEW ok, Return(c, ok), Quiet
  PROVE  TypeOK'
  BY ReturnType DEF Quiet, TypeOK, HostTypeOK, hostVars

\* Steps that only skip the rest of DeleteUblkDevice keep the types.
LEMMA QuietAfterDelete ==
  ASSUME HostAssumption, TypeOK, NEW c \in Call, AfterDelete(c), Quiet
  PROVE  TypeOK'
  BY AfterDeleteType DEF Quiet, TypeOK, HostTypeOK, hostVars

\* The second probe finds no device, or what it finds decides.
LEMMA ProbeFinds ==
  ASSUME TypeOK, NEW c \in Call, Probe(c)
  PROVE  \/ Goto(c, "resolve")
         \/ /\ UNCHANGED kubeletVars
            /\ \E existing \in FsType \cup {""} :
                 call' = [call EXCEPT ![c] =
                            IF NeedsFormatting(existing, call[c].fs)
                            THEN [call[c] EXCEPT !.pc = "mkfs"]
                            ELSE [call[c] EXCEPT !.pc = "mountCheck", !.fs = existing]]
  <1>1. Live(call[c].vol) => fs[call[c].vol] \in FsType \cup {""}
    BY LiveVolume DEF TypeOK, HostTypeOK
  <1>2. Blkid(call[c].vol) \subseteq FsType \cup {"", NotFound}
    BY <1>1 DEF Blkid, BlkidFailure
  <1> QED BY <1>2 DEF Probe

\* Every step of NodeStageVolume keeps the types.
LEMMA StageType ==
  ASSUME HostAssumption, NodeAssumption, TypeOK, NEW c \in Call, NodeStageVolume(c)
  PROVE  TypeOK'
  <1> USE DEF At
  <1>0. StagePc \subseteq Pc /\ DeletePc \subseteq Pc /\ call[c] \in Invocation
    BY DEF Pc, TypeOK
  <1>1. ASSUME StageCheck(c) PROVE TypeOK'
    <2>1. "startUnit" \in Pc
      BY <1>0 DEF StagePc
    <2> QED BY <1>1, <2>1, QuietGoto, QuietReturn DEF StageCheck
  <1>2. ASSUME StartOk(c) PROVE TypeOK'
    <2>1. "waitLink" \in Pc
      BY <1>0 DEF StagePc
    <2>2. unit' \in [Volume -> UnitState]
      BY <1>2 DEF StartOk, StartUnit, TypeOK, HostTypeOK, UnitState
    <2> QED BY <1>2, <2>1, <2>2, GotoType DEF StartOk, TypeOK, HostTypeOK, mounts
  <1>3. ASSUME StartRefusedOrFailed(c) PROVE TypeOK'
    BY <1>3, QuietReturn DEF StartRefusedOrFailed
  <1>4. ASSUME StartReportedFailed(c) PROVE TypeOK'
    <2>1. unit' \in [Volume -> UnitState]
      BY <1>4 DEF StartReportedFailed, StartUnit, TypeOK, HostTypeOK, UnitState
    <2> QED BY <1>4, <2>1, ReturnType DEF StartReportedFailed, TypeOK, HostTypeOK, mounts
  <1>5. ASSUME LinkSeen(c) PROVE TypeOK'
    <2>1. (IF call[c].vol \in BlockVol THEN "insert" ELSE "validate") \in Pc
      BY <1>0 DEF StagePc
    <2> QED BY <1>5, <2>1, QuietGoto DEF LinkSeen
  <1>6. ASSUME LinkTimeout(c) PROVE TypeOK'
    <2>1. "stopAfterWait" \in Pc
      BY <1>0 DEF StagePc
    <2> QED BY <1>6, <2>1, QuietGoto DEF LinkTimeout
  <1>7. ASSUME StopAfterWait(c) PROVE TypeOK'
    <2>1. /\ unit' \in [Volume -> UnitState]
          /\ dev' \in [DevId -> Device]
          /\ staging' \in [Volume -> Seq(Mount)]
          /\ target' \in [Volume \X Target -> Seq(Mount)]
      BY <1>7, StopUnitType DEF StopAfterWait, TypeOK, HostTypeOK, mounts
    <2> QED BY <1>7, <2>1, ReturnType DEF StopAfterWait, TypeOK, HostTypeOK
  <1>8. ASSUME Validate(c) PROVE TypeOK'
    <2>1. "probe" \in Pc /\ "resolve" \in Pc
      BY <1>0 DEF StagePc, DeletePc
    <2>2. PICK pc \in Pc : Goto(c, pc)
      BY <1>8, <2>1 DEF Validate
    <2> QED BY <1>8, <2>2, QuietGoto DEF Validate
  <1>9. ASSUME Probe(c) PROVE TypeOK'
    <2>1. "mkfs" \in Pc /\ "mountCheck" \in Pc
      BY <1>0 DEF StagePc
    <2>2. CASE Goto(c, "resolve")
      <3>1. "resolve" \in Pc
        BY <1>0 DEF DeletePc
      <3> QED BY <1>9, <2>2, <3>1, QuietGoto DEF Probe
    <2>3. CASE ~Goto(c, "resolve")
      <3>1. PICK existing \in FsType \cup {""} :
              /\ UNCHANGED kubeletVars
              /\ call' = [call EXCEPT ![c] =
                            IF NeedsFormatting(existing, call[c].fs)
                            THEN [call[c] EXCEPT !.pc = "mkfs"]
                            ELSE [call[c] EXCEPT !.pc = "mountCheck", !.fs = existing]]
        BY <1>9, <2>3, ProbeFinds
      <3>2. (IF NeedsFormatting(existing, call[c].fs)
             THEN [call[c] EXCEPT !.pc = "mkfs"]
             ELSE [call[c] EXCEPT !.pc = "mountCheck", !.fs = existing]) \in Invocation
        BY <1>0, <2>1, FieldTypes
      <3>3. PICK r \in Invocation : call' = [call EXCEPT ![c] = r]
        BY <3>1, <3>2
      <3>4. Quiet /\ UNCHANGED kubeletVars
        BY <1>9, <3>1 DEF Probe
      <3>5. call' \in [Call -> Invocation]
        BY <3>3 DEF TypeOK
      <3> QED BY <3>4, <3>5 DEF Quiet, TypeOK, HostTypeOK, hostVars, kubeletVars
    <2> QED BY <2>2, <2>3
  <1>10. ASSUME MkfsOk(c) PROVE TypeOK'
    <2>1. "mountCheck" \in Pc /\ call[c].fs \in FsType \cup {""}
      BY <1>0 DEF StagePc, Invocation
    <2>2. fs' \in [Volume -> FsType \cup {""}]
      BY <1>10, <2>1 DEF MkfsOk, TypeOK, HostTypeOK
    <2> QED BY <1>10, <2>1, <2>2, GotoType DEF MkfsOk, TypeOK, HostTypeOK, mounts
  <1>11. ASSUME MkfsFails(c) PROVE TypeOK'
    <2>1. "resolve" \in Pc
      BY <1>0 DEF DeletePc
    <2> QED BY <1>11, <2>1, QuietGoto DEF MkfsFails
  <1>12. ASSUME MountCheck(c) PROVE TypeOK'
    <2>1. "insert" \in Pc /\ "stageMount" \in Pc /\ "resolve" \in Pc
      BY <1>0 DEF StagePc, DeletePc
    <2>2. PICK pc \in Pc : Goto(c, pc)
      BY <1>12, <2>1 DEF MountCheck
    <2> QED BY <1>12, <2>2, QuietGoto DEF MountCheck
  <1>13. ASSUME StageMountOk(c) PROVE TypeOK'
    <2>1. "insert" \in Pc /\ "live" \in Mount
      BY <1>0 DEF StagePc, Mount
    <2>2. staging' \in [Volume -> Seq(Mount)]
      BY <1>13, <2>1, MountType DEF StageMountOk, TypeOK, HostTypeOK
    <2> QED BY <1>13, <2>1, <2>2, GotoType DEF StageMountOk, TypeOK, HostTypeOK
  <1>14. ASSUME StageMountFails(c) PROVE TypeOK'
    <2>1. "resolve" \in Pc
      BY <1>0 DEF DeletePc
    <2> QED BY <1>14, <2>1, QuietGoto DEF StageMountFails
  <1>15. ASSUME Insert(c) PROVE TypeOK'
    <2>1. VolMap' \in [Volume -> {"absent", "seeded", "block", "mount"}]
      BY <1>15 DEF Insert, Mode, TypeOK
    <2> QED BY <1>15, <2>1, ReturnType DEF Insert, TypeOK, HostTypeOK, hostVars
  <1> QED BY <1>1, <1>2, <1>3, <1>4, <1>5, <1>6, <1>7, <1>8, <1>9, <1>10, <1>11, <1>12,
             <1>13, <1>14, <1>15 DEF NodeStageVolume

\* Every step of DeleteUblkDevice keeps the types.
LEMMA DeleteType ==
  ASSUME HostAssumption, TypeOK, NEW c \in Call, DeleteUblkDevice(c)
  PROVE  TypeOK'
  <1>0. "stopUnit" \in Pc /\ "ublkDel" \in Pc /\ call[c] \in Invocation
    BY DEF Pc, DeletePc, TypeOK
  <1>1. ASSUME Resolve(c) PROVE TypeOK'
    <2>1. CASE Link(call[c].vol) = {}
      BY <1>1, <2>1, QuietAfterDelete DEF Resolve
    <2>2. CASE Link(call[c].vol) # {}
      <3>1. PICK d \in DevId :
              call' = [call EXCEPT ![c] = [call[c] EXCEPT !.pc = "stopUnit", !.dev = d]]
        BY <1>1, <2>2 DEF Resolve, Link, DevsOf
      <3>2. [call[c] EXCEPT !.pc = "stopUnit", !.dev = d] \in Invocation
        BY <1>0, FieldTypes
      <3>3. UNCHANGED kubeletVars /\ Quiet
        BY <1>1, <2>2 DEF Resolve
      <3> QED BY <3>1, <3>2, <3>3 DEF Quiet, TypeOK, HostTypeOK, hostVars, kubeletVars
    <2> QED BY <2>1, <2>2
  <1>2. ASSUME StopUblkUnit(c) PROVE TypeOK'
    <2>1. /\ unit' \in [Volume -> UnitState]
          /\ dev' \in [DevId -> Device]
          /\ staging' \in [Volume -> Seq(Mount)]
          /\ target' \in [Volume \X Target -> Seq(Mount)]
      BY <1>2, StopUnitType DEF StopUblkUnit, TypeOK
    <2> QED BY <1>0, <1>2, <2>1, GotoType DEF StopUblkUnit, TypeOK, HostTypeOK
  <1>3. ASSUME StopFails(c) PROVE TypeOK'
    <2>1. /\ unit' \in [Volume -> UnitState]
          /\ dev' \in [DevId -> Device]
          /\ staging' \in [Volume -> Seq(Mount)]
          /\ target' \in [Volume \X Target -> Seq(Mount)]
      BY <1>3, StopUnitType DEF StopFails, TypeOK, HostTypeOK, mounts
    <2> QED BY <1>3, <2>1, AfterDeleteType DEF StopFails, TypeOK, HostTypeOK
  <1>4. ASSUME DeleteDevice(c) PROVE TypeOK'
    <2>1. /\ unit' \in [Volume -> UnitState]
          /\ dev' \in [DevId -> Device]
          /\ staging' \in [Volume -> Seq(Mount)]
          /\ target' \in [Volume \X Target -> Seq(Mount)]
      BY <1>4, UblkDelType DEF DeleteDevice, TypeOK
    <2> QED BY <1>4, <2>1, AfterDeleteType DEF DeleteDevice, TypeOK, HostTypeOK
  <1>5. ASSUME DeleteDeviceFails(c) PROVE TypeOK'
    BY <1>5, QuietAfterDelete DEF DeleteDeviceFails
  <1> QED BY <1>1, <1>2, <1>3, <1>4, <1>5 DEF DeleteUblkDevice

\* Every step of NodeUnstageVolume keeps the types.
LEMMA UnstageType ==
  ASSUME HostAssumption, TypeOK, NEW c \in Call, NodeUnstageVolume(c)
  PROVE  TypeOK'
  <1>0. "unmountStaging" \in Pc /\ "resolve" \in Pc /\ "delete" \in Pc
    BY DEF Pc, UnstagePc, DeletePc
  <1>1. ASSUME UnstageCheck(c) PROVE TypeOK'
    BY <1>0, <1>1, QuietGoto, QuietReturn DEF UnstageCheck
  <1>2. ASSUME UnmountStaging(c) PROVE TypeOK'
    <2>1. staging' \in [Volume -> Seq(Mount)]
      BY <1>2, UnmountType DEF UnmountStaging, TypeOK, HostTypeOK
    <2> QED BY <1>0, <1>2, <2>1, GotoType DEF UnmountStaging, TypeOK, HostTypeOK
  <1>3. ASSUME UnmountStagingFails(c) PROVE TypeOK'
    BY <1>3, QuietReturn DEF UnmountStagingFails
  <1>4. ASSUME CleanupStaging(c) PROVE TypeOK'
    <2>1. staging' \in [Volume -> Seq(Mount)]
      <3>1. CASE staging' = [staging EXCEPT ![call[c].vol] = Unmount(@)]
        BY <3>1, UnmountType DEF TypeOK, HostTypeOK
      <3>2. CASE staging' = staging
        BY <3>2 DEF TypeOK, HostTypeOK
      <3> QED BY <1>4, <3>1, <3>2 DEF CleanupStaging
    <2> QED BY <1>0, <1>4, <2>1, GotoType DEF CleanupStaging, TypeOK, HostTypeOK
  <1>5. ASSUME DeleteEntry(c) PROVE TypeOK'
    <2>1. VolMap' \in [Volume -> {"absent", "seeded", "block", "mount"}]
      BY <1>5 DEF DeleteEntry, TypeOK
    <2> QED BY <1>5, <2>1, ReturnType DEF DeleteEntry, TypeOK, HostTypeOK, hostVars
  <1> QED BY <1>1, <1>2, <1>3, <1>4, <1>5 DEF NodeUnstageVolume

\* Every step of NodePublishVolume keeps the types.
LEMMA PublishType ==
  ASSUME TypeOK, NEW c \in Call, NodePublishVolume(c)
  PROVE  TypeOK'
  <1>0. "bindCheck" \in Pc /\ "bind" \in Pc /\ "recordTarget" \in Pc
    BY DEF Pc, PublishPc
  <1>1. ASSUME PublishCheck(c) PROVE TypeOK'
    BY <1>0, <1>1, QuietGoto, QuietReturn DEF PublishCheck
  <1>2. ASSUME BindCheck(c) PROVE TypeOK'
    <2>1. targetPath' \in [Volume \X Target -> {"absent", "file", "dir"}]
      BY <1>2 DEF BindCheck, PathKind, TypeOK, HostTypeOK
    <2>2. Goto(c, "recordTarget") \/ Goto(c, "bind") \/ Return(c, FALSE)
      BY <1>2 DEF BindCheck
    <2>3. /\ call' \in [Call -> Invocation]
          /\ staged' \in [Volume -> {"no", "yes", "maybe"}]
          /\ published' \in [Volume \X Target -> Belief]
      BY <1>0, <2>2, GotoType, ReturnType DEF TypeOK
    <2>4. UNCHANGED <<unit, dev, fs, mounts, VolMap, alive>>
      BY <1>2 DEF BindCheck
    <2> QED BY <2>1, <2>3, <2>4 DEF TypeOK, HostTypeOK, mounts
  <1>3. ASSUME BindOk(c) PROVE TypeOK'
    <2> DEFINE v == call[c].vol
               p == <<v, call[c].tgt>>
    <2>1. PICK m \in BindSource(v) : target' = [target EXCEPT ![p] = <<m>> \o @]
      BY <1>3 DEF BindOk
    <2>2. target' \in [Volume \X Target -> Seq(Mount)]
      <3>1. CASE p \in Volume \X Target
        <4>1. staging[v] \in Seq(Mount) /\ target[p] \in Seq(Mount)
          BY <3>1 DEF TypeOK, HostTypeOK
        <4>2. MountedAt(staging[v]) => Head(staging[v]) \in Mount
          BY <4>1, HeadTailProperties DEF MountedAt
        <4>3. m \in Mount
          BY <2>1, <4>2 DEF BindSource, Mount
        <4> QED BY <2>1, <4>1, <4>3, MountType DEF TypeOK, HostTypeOK
      <3>2. CASE p \notin Volume \X Target
        BY <2>1, <3>2 DEF TypeOK, HostTypeOK
      <3> QED BY <3>1, <3>2
    <2> QED BY <1>0, <1>3, <2>2, GotoType DEF BindOk, TypeOK, HostTypeOK
  <1>4. ASSUME BindFails(c) \/ RecordTarget(c) PROVE TypeOK'
    BY <1>4, QuietReturn DEF BindFails, RecordTarget
  <1> QED BY <1>1, <1>2, <1>3, <1>4 DEF NodePublishVolume

\* Every step of NodeUnpublishVolume keeps the types.
LEMMA UnpublishType ==
  ASSUME TypeOK, NEW c \in Call, NodeUnpublishVolume(c)
  PROVE  TypeOK'
  <1>0. "unmountTarget" \in Pc /\ "removeTarget" \in Pc
    BY DEF Pc, UnpublishPc
  <1>1. ASSUME UnpublishCheck(c) PROVE TypeOK'
    <2>1. PICK b \in BOOLEAN :
            call' = [call EXCEPT ![c] = [call[c] EXCEPT !.pc = "unmountTarget", !.known = b]]
      BY <1>1 DEF UnpublishCheck
    <2>2. [call[c] EXCEPT !.pc = "unmountTarget", !.known = b] \in Invocation
      BY <1>0, FieldTypes DEF TypeOK
    <2>3. UNCHANGED kubeletVars /\ Quiet
      BY <1>1 DEF UnpublishCheck
    <2> QED BY <2>1, <2>2, <2>3 DEF Quiet, TypeOK, HostTypeOK, hostVars, kubeletVars
  <1>2. ASSUME UnmountTarget(c) PROVE TypeOK'
    <2>1. target' \in [Volume \X Target -> Seq(Mount)]
      BY <1>2, UnmountType DEF UnmountTarget, TypeOK, HostTypeOK
    <2>2. Goto(c, "removeTarget") \/ Return(c, TRUE)
      BY <1>2 DEF UnmountTarget
    <2>3. /\ call' \in [Call -> Invocation]
          /\ staged' \in [Volume -> {"no", "yes", "maybe"}]
          /\ published' \in [Volume \X Target -> Belief]
      BY <1>0, <2>2, ReturnType, GotoType DEF TypeOK
    <2>4. UNCHANGED <<unit, dev, fs, staging, targetPath, VolMap, alive>>
      BY <1>2 DEF UnmountTarget
    <2> QED BY <2>1, <2>3, <2>4 DEF TypeOK, HostTypeOK
  <1>3. ASSUME UnmountTargetFails(c) PROVE TypeOK'
    <2>1. Return(c, FALSE) /\ Quiet
      BY <1>3 DEF UnmountTargetFails
    <2> QED BY <2>1, QuietReturn
  <1>4. ASSUME RemoveTarget(c) PROVE TypeOK'
    <2> DEFINE p == <<call[c].vol, call[c].tgt>>
    <2>1. target' \in [Volume \X Target -> Seq(Mount)]
      <3>1. CASE target' = [target EXCEPT ![p] = IF targetPath[p] = "dir" THEN Unmount(@) ELSE @]
        BY <3>1, UnmountType DEF TypeOK, HostTypeOK
      <3>2. CASE target' = target
        BY <3>2 DEF TypeOK, HostTypeOK
      <3> QED BY <1>4, <3>1, <3>2 DEF RemoveTarget
    <2>2. targetPath' \in [Volume \X Target -> {"absent", "file", "dir"}]
      <3>1. CASE targetPath' = [targetPath EXCEPT ![p] = IF MountedAt(target'[p]) THEN @ ELSE "absent"]
        BY <3>1 DEF TypeOK, HostTypeOK
      <3>2. CASE targetPath' = targetPath
        BY <3>2 DEF TypeOK, HostTypeOK
      <3> QED BY <1>4, <3>1, <3>2 DEF RemoveTarget
    <2>3. Return(c, TRUE) /\ UNCHANGED <<unit, dev, fs, staging, VolMap, alive>>
      BY <1>4 DEF RemoveTarget
    <2> QED BY <2>1, <2>2, <2>3, ReturnType DEF TypeOK, HostTypeOK
  <1> QED BY <1>1, <1>2, <1>3, <1>4 DEF NodeUnpublishVolume

\* What the daemons and systemd do by themselves keeps the types.
LEMMA HostType ==
  ASSUME HostAssumption, TypeOK, Host
  PROVE  TypeOK'
  <1>1. PICK v \in Volume : \/ DaemonUp(v) \/ DaemonCrash(v)
                           \/ Respawn(v) \/ StartLimit(v) \/ Collect(v)
    BY DEF Host, HostNext
  <1>2. UNCHANGED <<pluginVars, kubeletVars>>
    BY DEF Host
  <1>3. HostTypeOK
    BY DEF TypeOK
  <1>4. CASE DaemonUp(v)
    <2>1. PICK d \in DevId : dev' = [dev EXCEPT ![d] = [vol |-> v, state |-> "live"]]
      BY <1>4 DEF DaemonUp
    <2>2. dev' \in [DevId -> Device]
      BY <1>3, <2>1 DEF HostTypeOK, Device
    <2>3. UNCHANGED <<unit, fs, mounts, targetPath>>
      BY <1>4 DEF DaemonUp
    <2> QED BY <1>2, <2>2, <2>3 DEF TypeOK, HostTypeOK, mounts, pluginVars, kubeletVars
  <1>5. CASE DaemonCrash(v)
    <2>1. PICK left \in {"quiesced", "dead"} : DetachDaemon(v, left)
      BY <1>5 DEF DaemonCrash
    <2>2. unit' \in [Volume -> UnitState]
      BY <1>3, <1>5 DEF DaemonCrash, HostTypeOK, UnitState
    <2>3. UNCHANGED <<fs, targetPath>>
      BY <1>5 DEF DaemonCrash
    <2>4. /\ dev' \in [DevId -> Device]
          /\ staging' \in [Volume -> Seq(Mount)]
          /\ target' \in [Volume \X Target -> Seq(Mount)]
      BY <1>3, <2>1, DetachType
    <2> QED BY <1>2, <2>2, <2>3, <2>4 DEF TypeOK, HostTypeOK, pluginVars, kubeletVars
  <1>6. CASE Respawn(v) \/ StartLimit(v) \/ Collect(v)
    <2>1. unit' \in [Volume -> UnitState] /\ UNCHANGED <<dev, fs, mounts, targetPath>>
      BY <1>3, <1>6 DEF Respawn, StartLimit, Collect, HostTypeOK, UnitState
    <2> QED BY <1>2, <2>1 DEF TypeOK, HostTypeOK, mounts, pluginVars, kubeletVars
  <1> QED BY <1>1, <1>4, <1>5, <1>6

\* The death of the plugin and the seeding of its map keep the types.
LEMMA PluginType ==
  ASSUME TypeOK, PluginCrash \/ UpdateNodeVolumeMap
  PROVE  TypeOK'
  <1>1. CASE PluginCrash
    <2>1. ASSUME NEW v \in Volume PROVE staged'[v] \in {"no", "yes", "maybe"}
      <3>1. staged[v] \in {"no", "yes", "maybe"}
        BY DEF TypeOK
      <3>2. /\ Doubt("stage", staged[v]) \in {"no", "yes", "maybe"}
            /\ Doubt("unstage", staged[v]) \in {"no", "yes", "maybe"}
        BY <3>1 DEF Doubt
      <3> QED BY <1>1, <3>1, <3>2 DEF PluginCrash
    <2>2. ASSUME NEW p \in Volume \X Target PROVE published'[p] \in Belief
      <3>1. published[p] \in Belief
        BY DEF TypeOK
      <3>2. Doubt("publish", published[p]) \in Belief /\ Doubt("unpublish", published[p]) \in Belief
        BY <3>1 DEF Doubt, Belief
      <3> QED BY <1>1, <3>1, <3>2 DEF PluginCrash
    <2>3. staged' \in [Volume -> {"no", "yes", "maybe"}]
      BY <1>1, <2>1 DEF PluginCrash
    <2>4. published' \in [Volume \X Target -> Belief]
      BY <1>1, <2>2 DEF PluginCrash
    <2>5. call' \in [Call -> Invocation]
      BY <1>1 DEF PluginCrash, Invocation, Idle, Pc
    <2>6. VolMap' \in [Volume -> {"absent", "seeded", "block", "mount"}] /\ alive' \in BOOLEAN
      BY <1>1 DEF PluginCrash
    <2> QED BY <1>1, <2>3, <2>4, <2>5, <2>6 DEF PluginCrash, DaemonsSurvive, TypeOK, HostTypeOK, hostVars
  <1>2. CASE UpdateNodeVolumeMap
    <2>1. VolMap' \in [Volume -> {"absent", "seeded", "block", "mount"}]
      BY <1>2 DEF UpdateNodeVolumeMap, SeededEntry, TypeOK
    <2> QED BY <1>2, <2>1 DEF UpdateNodeVolumeMap, TypeOK, HostTypeOK, hostVars, kubeletVars
  <1> QED BY <1>1, <1>2

\* Every step keeps the types.
LEMMA TypeStep ==
  ASSUME HostAssumption, NodeAssumption, TypeOK, [Next]_vars
  PROVE  TypeOK'
  <1>1. ASSUME NEW c \in Call, Kubelet(c) \/ Handler(c) PROVE TypeOK'
    BY <1>1, KubeletType, StageType, DeleteType, UnstageType, PublishType, UnpublishType
    DEF Handler
  <1>2. CASE UNCHANGED vars
    BY <1>2 DEF vars, hostVars, pluginVars, kubeletVars, TypeOK, HostTypeOK
  <1> QED BY <1>1, <1>2, HostType, PluginType DEF Next

\* The model never leaves its types: in particular no interleaving of the
\* handlers, the daemons and a restart of the plugin makes a handler use a
\* device number it never read, or leaves an ublk device with an owner that is
\* no volume.
THEOREM TypeCorrect == ASSUME HostAssumption, NodeAssumption PROVE Spec => []TypeOK
  <1>1. Init => TypeOK
    BY InitType
  <1>2. TypeOK /\ [Next]_vars => TypeOK'
    BY TypeStep
  <1> QED BY <1>1, <1>2, PTL DEF Spec

-----------------------------------------------------------------------------
(***************************************************************************)
(* HeldIsOwn, when the kubelet gives no call up.  It is not inductive:     *)
(* that the device stays its owner's rests on nobody else working on the   *)
(* volume.                                                                 *)
(***************************************************************************)
Holding == {"stopUnit", "ublkDel"}

\* At most one invocation per volume, and its kubelet is waiting for it.
OneCallPerVolume ==
  /\ \A c \in Call : call[c].vol # NoVol => call[c].waiting
  /\ \A c, o \in Call : c # o /\ call[c].vol # NoVol => call[c].vol # call[o].vol

\* While an invocation holds an id, the device behind it is its volume's.
HoldsOwnDevice ==
  \A c \in Call :
    /\ call[c].pc \in Holding => call[c].dev # NoDev
    /\ call[c].dev # NoDev => call[c].vol # NoVol /\ dev[call[c].dev].vol = call[c].vol

HeldInv == OneCallPerVolume /\ HoldsOwnDevice

SameOwners == \A d \in DevId : dev'[d].vol = dev[d].vol
OthersKeepOwners(v) == \A d \in DevId : dev[d].vol \notin {v, NoVol} => dev'[d].vol = dev[d].vol

\* What a step of one invocation must do to keep HeldInv.
LEMMA HeldFrame ==
  ASSUME TypeOK, TypeOK', HeldInv, NEW c \in Call, NEW r \in Invocation,
         call' = [call EXCEPT ![c] = r],
         OthersKeepOwners(call[c].vol),
         r.vol # NoVol => r.waiting /\ (\A o \in Call : o # c => call[o].vol # r.vol),
         r.pc \in Holding => r.dev # NoDev,
         r.dev # NoDev => r.vol # NoVol /\ dev'[r.dev].vol = r.vol
  PROVE  HeldInv'
  <1>1. call'[c] = r /\ \A o \in Call : o # c => call'[o] = call[o]
    BY DEF TypeOK
  <1>2. OneCallPerVolume'
    BY <1>1 DEF HeldInv, OneCallPerVolume
  <1>3. ASSUME NEW o \in Call, o # c
        PROVE  /\ call[o].pc \in Holding => call[o].dev # NoDev
               /\ call[o].dev # NoDev => call[o].vol # NoVol /\ dev'[call[o].dev].vol = call[o].vol
    <2>1. /\ call[o].pc \in Holding => call[o].dev # NoDev
          /\ call[o].dev # NoDev => call[o].vol # NoVol /\ dev[call[o].dev].vol = call[o].vol
      BY DEF HeldInv, HoldsOwnDevice
    <2>2. call[o].vol # NoVol => call[o].vol # call[c].vol
      BY <1>3 DEF HeldInv, OneCallPerVolume
    <2>3. call[o].dev # NoDev => call[o].dev \in DevId
      BY DEF TypeOK, Invocation
    <2> QED BY <2>1, <2>2, <2>3 DEF OthersKeepOwners
  <1>4. HoldsOwnDevice'
    <2> SUFFICES ASSUME NEW o \in Call
        PROVE  /\ call'[o].pc \in Holding => call'[o].dev # NoDev
               /\ call'[o].dev # NoDev => call'[o].vol # NoVol /\ dev'[call'[o].dev].vol = call'[o].vol
      BY DEF HoldsOwnDevice
    <2>1. CASE o = c
      BY <1>1, <2>1
    <2>2. CASE o # c
      BY <1>1, <1>3, <2>2
    <2> QED BY <2>1, <2>2
  <1> QED BY <1>2, <1>4 DEF HeldInv

\* A handler that answers holds no number any more.
LEMMA HeldReturn ==
  ASSUME TypeOK, TypeOK', HeldInv, NEW c \in Call, NEW ok, Return(c, ok),
         OthersKeepOwners(call[c].vol)
  PROVE  HeldInv'
  <1>1. call' = [call EXCEPT ![c] = Idle]
    BY DEF Return
  <1>2. Idle \in Invocation
    BY DEF Idle, Invocation, Pc
  <1>3. Idle.vol = NoVol /\ Idle.pc \notin Holding /\ Idle.dev = NoDev
    BY DEF Idle, Holding
  <1> QED BY <1>1, <1>2, <1>3, HeldFrame

\* A step that stays in its operation keeps its volume and goes on holding the
\* same id, or gives it up.
LEMMA HeldStay ==
  ASSUME TypeOK, TypeOK', HeldInv, NEW c \in Call, NEW r \in Invocation,
         call' = [call EXCEPT ![c] = r],
         r.vol = call[c].vol, r.waiting = call[c].waiting,
         r.pc \in Holding => call[c].pc \in Holding /\ r.dev = call[c].dev,
         \/ r.dev = NoDev /\ OthersKeepOwners(call[c].vol)
         \/ r.dev = call[c].dev /\ SameOwners
  PROVE  HeldInv'
  <1>1. OthersKeepOwners(call[c].vol)
    BY DEF SameOwners, OthersKeepOwners
  <1>2. r.vol # NoVol => r.waiting /\ (\A o \in Call : o # c => call[o].vol # r.vol)
    BY DEF HeldInv, OneCallPerVolume
  <1>3. /\ call[c].pc \in Holding => call[c].dev # NoDev
        /\ call[c].dev # NoDev => call[c].vol # NoVol /\ dev[call[c].dev].vol = call[c].vol
    BY DEF HeldInv, HoldsOwnDevice
  <1>4. call[c].dev # NoDev => call[c].dev \in DevId
    <2>1. call[c] \in Invocation
      BY DEF TypeOK
    <2> QED BY <2>1 DEF Invocation
  <1>5. r.dev # NoDev => r.vol # NoVol /\ dev'[r.dev].vol = r.vol
    BY <1>3, <1>4 DEF SameOwners
  <1> QED BY <1>1, <1>2, <1>3, <1>5, HeldFrame

\* A handler that moves on without reaching for a number keeps HeldInv.
LEMMA HeldGoto ==
  ASSUME TypeOK, TypeOK', HeldInv, NEW c \in Call, NEW pc \in Pc, Goto(c, pc), SameOwners,
         pc \in Holding => call[c].pc \in Holding
  PROVE  HeldInv'
  <1> DEFINE r == [call[c] EXCEPT !.pc = pc]
  <1>1. call[c] \in Invocation /\ r \in Invocation
    BY FieldTypes DEF TypeOK
  <1>2. /\ r.vol = call[c].vol /\ r.waiting = call[c].waiting
        /\ r.pc = pc /\ r.dev = call[c].dev
    BY <1>1 DEF Invocation
  <1>3. call' = [call EXCEPT ![c] = r]
    BY DEF Goto
  <1> HIDE DEF r
  <1> QED BY <1>1, <1>2, <1>3, HeldStay

\* Leaving DeleteUblkDevice gives the number up.
LEMMA HeldAfterDelete ==
  ASSUME TypeOK, TypeOK', HeldInv, NEW c \in Call, AfterDelete(c), OthersKeepOwners(call[c].vol)
  PROVE  HeldInv'
  <1>1. CASE call[c].op = "stage"
    BY <1>1, HeldReturn DEF AfterDelete
  <1>2. CASE call[c].op # "stage"
    <2> DEFINE r == [call[c] EXCEPT !.pc = "cleanupStaging", !.dev = NoDev]
    <2>1. call[c] \in Invocation /\ "cleanupStaging" \in Pc
      BY DEF TypeOK, Pc, UnstagePc
    <2>2. r \in Invocation
      BY <2>1, FieldTypes
    <2>3. /\ r.vol = call[c].vol /\ r.waiting = call[c].waiting
          /\ r.pc \notin Holding /\ r.dev = NoDev
      BY <2>1 DEF Invocation, Holding
    <2>4. call' = [call EXCEPT ![c] = r]
      BY <1>2 DEF AfterDelete
    <2> HIDE DEF r
    <2> QED BY <2>2, <2>3, <2>4, HeldStay
  <1> QED BY <1>1, <1>2

\* Stopping a unit changes no owner.
LEMMA StopOwners ==
  ASSUME NEW v, HostTypeOK, StopUnit(v)
  PROVE  SameOwners
  <1>1. PICK left : DetachDaemon(v, left)
    BY DEF StopUnit
  <1> QED BY <1>1 DEF DetachDaemon, SameOwners

\* `ublk del` only takes the device from the volume that owned it.
LEMMA UblkDelOwners ==
  ASSUME NEW d \in DevId, HostTypeOK, UblkDel(d)
  PROVE  OthersKeepOwners(dev[d].vol)
  BY DEF UblkDel, OthersKeepOwners, HostTypeOK

\* Steps that leave the devices alone change no owner.
LEMMA QuietOwners ==
  ASSUME Quiet \/ UNCHANGED dev \/ UNCHANGED hostVars
  PROVE  SameOwners /\ (\A v : OthersKeepOwners(v))
  BY DEF Quiet, hostVars, SameOwners, OthersKeepOwners

\* Every step of NodeStageVolume keeps HeldInv: it does not touch the numbers.
LEMMA StageHeld ==
  ASSUME NodeAssumption, TypeOK, TypeOK', HeldInv, NEW c \in Call, NodeStageVolume(c)
  PROVE  HeldInv'
  <1>0. /\ StagePc \ Holding \subseteq Pc \ Holding /\ "resolve" \in Pc \ Holding
        /\ StagePc \cap Holding = {}
    BY DEF Pc, StagePc, DeletePc, Holding
  <1>1. ASSUME NEW pc \in StagePc \cup {"resolve"}, Goto(c, pc), SameOwners PROVE HeldInv'
    BY <1>0, <1>1, HeldGoto
  <1>2. ASSUME NEW ok, Return(c, ok), SameOwners PROVE HeldInv'
    BY <1>2, HeldReturn DEF SameOwners, OthersKeepOwners
  <1>3. ASSUME \/ StageCheck(c) \/ StartOk(c) \/ StartRefusedOrFailed(c)
               \/ StartReportedFailed(c) \/ LinkSeen(c) \/ LinkTimeout(c)
        PROVE  HeldInv'
    <2>1. SameOwners
      BY <1>3, QuietOwners DEF StageCheck, StartOk, StartRefusedOrFailed, StartReportedFailed,
                               LinkSeen, LinkTimeout
    <2>2. \/ \E pc \in StagePc : Goto(c, pc)
          \/ \E ok : Return(c, ok)
      BY <1>3 DEF StageCheck, StartOk, StartRefusedOrFailed, StartReportedFailed, LinkSeen,
                  LinkTimeout, StagePc
    <2> QED BY <1>1, <1>2, <2>1, <2>2
  <1>4. ASSUME StopAfterWait(c) PROVE HeldInv'
    <2>1. SameOwners
      BY <1>4, StopOwners, QuietOwners DEF StopAfterWait, TypeOK
    <2> QED BY <1>2, <1>4, <2>1 DEF StopAfterWait
  <1>5. ASSUME Validate(c) \/ MkfsOk(c) \/ MkfsFails(c) \/ MountCheck(c)
        PROVE  HeldInv'
    <2>1. SameOwners
      BY <1>5, QuietOwners DEF Validate, MkfsOk, MkfsFails, MountCheck
    <2>2. \E pc \in StagePc \cup {"resolve"} : Goto(c, pc)
      BY <1>5 DEF Validate, MkfsOk, MkfsFails, MountCheck, StagePc
    <2> QED BY <1>1, <2>1, <2>2
  <1>6. ASSUME Probe(c) PROVE HeldInv'
    <2>5. SameOwners
      BY <1>6, QuietOwners DEF Probe
    <2> SUFFICES ASSUME ~Goto(c, "resolve") PROVE HeldInv'
      BY <1>1, <2>5
    <2>1. PICK existing \in FsType \cup {""} :
            call' = [call EXCEPT ![c] =
                       IF NeedsFormatting(existing, call[c].fs)
                       THEN [call[c] EXCEPT !.pc = "mkfs"]
                       ELSE [call[c] EXCEPT !.pc = "mountCheck", !.fs = existing]]
      BY <1>6, ProbeFinds
    <2> DEFINE r == IF NeedsFormatting(existing, call[c].fs)
                    THEN [call[c] EXCEPT !.pc = "mkfs"]
                    ELSE [call[c] EXCEPT !.pc = "mountCheck", !.fs = existing]
    <2>2. call[c] \in Invocation /\ "mkfs" \in Pc /\ "mountCheck" \in Pc
      BY DEF TypeOK, Pc, StagePc
    <2>3. r \in Invocation
      BY <2>2, FieldTypes
    <2>4. /\ r.vol = call[c].vol /\ r.waiting = call[c].waiting
          /\ r.pc \notin Holding /\ r.dev = call[c].dev
      BY <2>2 DEF Invocation, Holding
    <2> HIDE DEF r
    <2>6. call' = [call EXCEPT ![c] = r]
      BY <2>1 DEF r
    <2> QED BY <2>3, <2>4, <2>5, <2>6, HeldStay
  <1>7. ASSUME StageMountOk(c) \/ StageMountFails(c) \/ Insert(c) PROVE HeldInv'
    <2>1. SameOwners
      BY <1>7, QuietOwners DEF StageMountOk, StageMountFails, Insert
    <2>2. \/ \E pc \in StagePc \cup {"resolve"} : Goto(c, pc)
          \/ \E ok : Return(c, ok)
      BY <1>7 DEF StageMountOk, StageMountFails, Insert, StagePc
    <2> QED BY <1>1, <1>2, <2>1, <2>2
  <1> QED BY <1>3, <1>4, <1>5, <1>6, <1>7 DEF NodeStageVolume

\* Every step of DeleteUblkDevice keeps HeldInv: it reads a number from its own link and deletes that one.
LEMMA DeleteHeld ==
  ASSUME HostAssumption, TypeOK, TypeOK', HeldInv, NEW c \in Call, DeleteUblkDevice(c)
  PROVE  HeldInv'
  <1>1. CASE Resolve(c)
    <2>1. SameOwners /\ OthersKeepOwners(call[c].vol)
      BY <1>1, QuietOwners DEF Resolve
    <2>2. CASE Link(call[c].vol) = {}
      BY <1>1, <2>1, <2>2, HeldAfterDelete DEF Resolve
    <2>3. CASE Link(call[c].vol) # {}
      <3>1. PICK d \in DevId :
              /\ dev[d].vol = call[c].vol /\ dev[d].state \in {"live", "quiesced"}
              /\ call' = [call EXCEPT ![c] = [call[c] EXCEPT !.pc = "stopUnit", !.dev = d]]
        BY <1>1, <2>3 DEF Resolve, Link, DevsOf
      <3> DEFINE r == [call[c] EXCEPT !.pc = "stopUnit", !.dev = d]
      <3>2. call[c] \in Invocation /\ "stopUnit" \in Pc
        BY DEF TypeOK, Pc, DeletePc
      <3>3. r \in Invocation
        BY <3>2, FieldTypes
      <3>4. /\ r.vol = call[c].vol /\ r.waiting = call[c].waiting /\ r.dev = d /\ r.dev # NoDev
        BY <3>2 DEF Invocation, HostAssumption
      <3>5. call[c].vol # NoVol
        <4>1. dev[d] \in Device
          BY DEF TypeOK, HostTypeOK
        <4> QED BY <3>1, <4>1 DEF Device, FreeDev, HostAssumption
      <3>6. r.vol # NoVol => r.waiting /\ (\A o \in Call : o # c => call[o].vol # r.vol)
        BY <3>4 DEF HeldInv, OneCallPerVolume
      <3>7. dev'[r.dev].vol = r.vol
        BY <2>1, <3>1, <3>4 DEF SameOwners
      <3>8. call' = [call EXCEPT ![c] = r]
        BY <3>1
      <3> HIDE DEF r
      <3> QED BY <2>1, <3>3, <3>4, <3>5, <3>6, <3>7, <3>8, HeldFrame
    <2> QED BY <2>2, <2>3
  <1>2. CASE StopUblkUnit(c)
    <2>1. SameOwners
      BY <1>2, StopOwners DEF StopUblkUnit, TypeOK
    <2>2. "ublkDel" \in Pc /\ call[c].pc \in Holding
      BY <1>2 DEF Pc, DeletePc, Holding, StopUblkUnit, At
    <2> QED BY <1>2, <2>1, <2>2, HeldGoto DEF StopUblkUnit
  <1>3. CASE StopFails(c)
    <2>1. SameOwners
      BY <1>3, StopOwners, QuietOwners DEF StopFails, TypeOK
    <2> QED BY <1>3, <2>1, HeldAfterDelete DEF StopFails, SameOwners, OthersKeepOwners
  <1>3a. CASE DeleteDeviceFails(c)
    BY <1>3a, QuietOwners, HeldAfterDelete DEF DeleteDeviceFails
  <1>4. CASE DeleteDevice(c)
    <2>0. call[c].pc \in Holding
      BY <1>4 DEF DeleteDevice, At, Holding
    <2>1. call[c].dev \in DevId /\ dev[call[c].dev].vol = call[c].vol
      BY <2>0 DEF HeldInv, HoldsOwnDevice, TypeOK, Invocation
    <2>2. OthersKeepOwners(call[c].vol)
      BY <1>4, <2>1, UblkDelOwners DEF DeleteDevice, TypeOK
    <2> QED BY <1>4, <2>2, HeldAfterDelete DEF DeleteDevice
  <1> QED BY <1>1, <1>2, <1>3, <1>3a, <1>4 DEF DeleteUblkDevice

\* Unstage, publish and unpublish leave the owners of the devices alone.
LEMMA OtherHandlersHeld ==
  ASSUME TypeOK, TypeOK', HeldInv, NEW c \in Call,
         NodeUnstageVolume(c) \/ NodePublishVolume(c) \/ NodeUnpublishVolume(c)
  PROVE  HeldInv'
  <1> DEFINE Pcs == {"unmountStaging", "resolve", "delete", "bindCheck", "bind", "recordTarget",
                     "unmountTarget", "removeTarget"}
  <1>0. Pcs \subseteq Pc /\ Pcs \cap Holding = {}
    BY DEF Pc, UnstagePc, DeletePc, PublishPc, UnpublishPc, Holding
  <1>1. ASSUME NEW pc \in Pcs, Goto(c, pc), SameOwners PROVE HeldInv'
    BY <1>0, <1>1, HeldGoto
  <1>2. ASSUME NEW ok, Return(c, ok), SameOwners PROVE HeldInv'
    BY <1>2, HeldReturn DEF SameOwners, OthersKeepOwners
  <1>3. CASE NodeUnstageVolume(c)
    <2>1. SameOwners
      BY <1>3, QuietOwners DEF NodeUnstageVolume, UnstageCheck, UnmountStaging,
         UnmountStagingFails, CleanupStaging, DeleteEntry
    <2>2. \/ \E pc \in Pcs : Goto(c, pc)
          \/ \E ok : Return(c, ok)
      BY <1>3 DEF NodeUnstageVolume, UnstageCheck, UnmountStaging, UnmountStagingFails,
         CleanupStaging, DeleteEntry
    <2> QED BY <1>1, <1>2, <2>1, <2>2
  <1>4. CASE NodePublishVolume(c)
    <2>1. SameOwners
      BY <1>4, QuietOwners DEF NodePublishVolume, PublishCheck, BindCheck, BindOk, BindFails, RecordTarget
    <2>2. \/ \E pc \in Pcs : Goto(c, pc)
          \/ \E ok : Return(c, ok)
      BY <1>4 DEF NodePublishVolume, PublishCheck, BindCheck, BindOk, BindFails, RecordTarget
    <2> QED BY <1>1, <1>2, <2>1, <2>2
  <1>5. CASE UnpublishCheck(c)
    <2>1. PICK b \in BOOLEAN :
            call' = [call EXCEPT ![c] = [call[c] EXCEPT !.pc = "unmountTarget", !.known = b]]
      BY <1>5 DEF UnpublishCheck
    <2> DEFINE r == [call[c] EXCEPT !.pc = "unmountTarget", !.known = b]
    <2>2. call[c] \in Invocation
      BY DEF TypeOK
    <2>3. r \in Invocation
      BY <1>0, <2>2, FieldTypes
    <2>4. /\ r.vol = call[c].vol /\ r.waiting = call[c].waiting
          /\ r.pc \notin Holding /\ r.dev = call[c].dev
      BY <2>2 DEF Invocation, Holding
    <2>5. SameOwners
      BY <1>5, QuietOwners DEF UnpublishCheck
    <2> HIDE DEF r
    <2>6. call' = [call EXCEPT ![c] = r]
      BY <2>1 DEF r
    <2> QED BY <2>3, <2>4, <2>5, <2>6, HeldStay
  <1>6. CASE UnmountTarget(c) \/ UnmountTargetFails(c) \/ RemoveTarget(c)
    <2>1. SameOwners
      BY <1>6, QuietOwners DEF UnmountTarget, UnmountTargetFails, RemoveTarget
    <2>2. \/ \E pc \in Pcs : Goto(c, pc)
          \/ \E ok : Return(c, ok)
      BY <1>6 DEF UnmountTarget, UnmountTargetFails, RemoveTarget
    <2> QED BY <1>1, <1>2, <2>1, <2>2
  <1> QED BY <1>3, <1>4, <1>5, <1>6 DEF NodeUnpublishVolume

\* A new request is the only one of its volume.
LEMMA BeginHeld ==
  ASSUME HostAssumption, TypeOK, TypeOK', HeldInv, NEW c \in Call, NEW v \in Volume,
         NEW op, NEW pc \in Pc \ Holding, NEW t, NEW f, Begin(c, op, pc, v, t, f)
  PROVE  HeldInv'
  <1> DEFINE r == [Idle EXCEPT !.pc = pc, !.op = op, !.vol = v, !.tgt = t, !.fs = f, !.waiting = TRUE]
  <1>1. call' = [call EXCEPT ![c] = r]
    BY DEF Begin
  <1>2. r \in Invocation
    BY <1>1 DEF TypeOK
  <1>3. r.vol = v /\ r.waiting /\ r.pc \notin Holding /\ r.dev = NoDev
    BY DEF Idle
  <1>4. \A o \in Call : o # c => call[o].vol # v
    BY DEF Begin, Busy, HeldInv, OneCallPerVolume, HostAssumption
  <1>5. OthersKeepOwners(call[c].vol)
    BY QuietOwners DEF Begin
  <1> HIDE DEF r
  <1> QED BY <1>1, <1>2, <1>3, <1>4, <1>5, HeldFrame

\* The kubelet's steps keep HeldInv while it gives no call up.
LEMMA KubeletHeld ==
  ASSUME HostAssumption, TypeOK, TypeOK', HeldInv, "clientTimeout" \notin Faults,
         NEW c \in Call, Kubelet(c)
  PROVE  HeldInv'
  <1>0. {"stageCheck", "unstageCheck", "publishCheck", "unpublishCheck"} \subseteq Pc \ Holding
    BY DEF Pc, StagePc, UnstagePc, PublishPc, UnpublishPc, Holding
  <1>1. ~Abandon(c)
    BY DEF Abandon, Can
  <1>2. ASSUME NEW v \in Volume, NEW pc \in Pc \ Holding,
               \E op, t, f : Begin(c, op, pc, v, t, f)
        PROVE  HeldInv'
    BY <1>2, BeginHeld
  <1>3. ASSUME NEW v \in Volume, CallStage(c, v) PROVE HeldInv'
    BY <1>0, <1>2, <1>3 DEF CallStage
  <1>4. ASSUME NEW v \in Volume, CallUnstage(c, v) PROVE HeldInv'
    BY <1>0, <1>2, <1>4 DEF CallUnstage
  <1>5. ASSUME NEW v \in Volume, NEW t \in Target, CallPublish(c, v, t) PROVE HeldInv'
    BY <1>0, <1>2, <1>5 DEF CallPublish
  <1>6. ASSUME NEW v \in Volume, NEW t \in Target, CallUnpublish(c, v, t) PROVE HeldInv'
    BY <1>0, <1>2, <1>6 DEF CallUnpublish
  <1> QED BY <1>1, <1>3, <1>4, <1>5, <1>6 DEF Kubelet

\* The daemons, the plugin's death and its restart.
LEMMA RestHeld ==
  ASSUME HostAssumption, TypeOK, TypeOK', HeldInv,
         Host \/ PluginCrash \/ UpdateNodeVolumeMap \/ UNCHANGED vars
  PROVE  HeldInv'
  <1>1. ASSUME NEW v \in Volume, Host, DaemonUp(v) PROVE HeldInv'
    <2>1. PICK d \in DevId : /\ dev[d].vol \in {v, NoVol}
                             /\ dev' = [dev EXCEPT ![d] = [vol |-> v, state |-> "live"]]
      <3>1. \A d \in FreeIds : dev[d].vol = NoVol
        BY DEF FreeIds, FreeDev
      <3> QED BY <1>1, <3>1 DEF DaemonUp, DevsOf, FreeIds
    <2>2. \A c \in Call : call[c].dev # NoDev =>
            call[c].vol # NoVol /\ dev'[call[c].dev].vol = call[c].vol
      <3> TAKE c \in Call
      <3> HAVE call[c].dev # NoDev
      <3>1. call[c].dev \in DevId /\ call[c].vol # NoVol /\ dev[call[c].dev].vol = call[c].vol
        BY DEF TypeOK, Invocation, HeldInv, HoldsOwnDevice
      <3>2. CASE call[c].dev = d
        BY <2>1, <3>1, <3>2 DEF TypeOK, HostTypeOK
      <3>3. CASE call[c].dev # d
        BY <2>1, <3>1, <3>3 DEF TypeOK, HostTypeOK
      <3> QED BY <3>2, <3>3
    <2>3. call' = call
      BY <1>1 DEF Host, pluginVars
    <2> QED BY <2>2, <2>3 DEF HeldInv, OneCallPerVolume, HoldsOwnDevice
  <1>2. ASSUME call' = call, SameOwners PROVE HeldInv'
    <2>1. \A c \in Call : call[c].dev # NoDev => call[c].dev \in DevId
      BY DEF TypeOK, Invocation
    <2> QED BY <1>2, <2>1 DEF HeldInv, OneCallPerVolume, HoldsOwnDevice, SameOwners
  <1>3. ASSUME NEW v \in Volume, Host, DaemonCrash(v) PROVE HeldInv'
    <2>1. call' = call
      BY <1>3 DEF Host, pluginVars
    <2>2. SameOwners
      BY <1>3 DEF DaemonCrash, DetachDaemon, SameOwners
    <2> QED BY <1>2, <2>1, <2>2
  <1>4. ASSUME NEW v \in Volume, Host, Respawn(v) \/ StartLimit(v) \/ Collect(v) PROVE HeldInv'
    <2>1. call' = call /\ dev' = dev
      BY <1>4 DEF Host, pluginVars, Respawn, StartLimit, Collect
    <2> QED BY <1>2, <2>1 DEF SameOwners
  <1>5. ASSUME PluginCrash PROVE HeldInv'
    <2>1. \A c \in Call : call'[c] = Idle
      BY <1>5 DEF PluginCrash
    <2>2. Idle.vol = NoVol /\ Idle.pc \notin Holding /\ Idle.dev = NoDev
      BY DEF Idle, Holding
    <2> QED BY <2>1, <2>2 DEF HeldInv, OneCallPerVolume, HoldsOwnDevice
  <1>6. ASSUME UpdateNodeVolumeMap \/ UNCHANGED vars PROVE HeldInv'
    <2>1. call' = call /\ dev' = dev
      BY <1>6 DEF UpdateNodeVolumeMap, vars, hostVars, pluginVars
    <2> QED BY <1>2, <2>1 DEF SameOwners
  <1> QED BY <1>1, <1>3, <1>4, <1>5, <1>6 DEF Host, HostNext

\* Every step keeps HeldInv.
LEMMA HeldStep ==
  ASSUME HostAssumption, NodeAssumption, "clientTimeout" \notin Faults,
         TypeOK, HeldInv, [Next]_vars
  PROVE  HeldInv'
  <1>1. TypeOK'
    BY TypeStep
  <1>2. ASSUME NEW c \in Call, Kubelet(c) \/ Handler(c) PROVE HeldInv'
    BY <1>1, <1>2, KubeletHeld, StageHeld, DeleteHeld, OtherHandlersHeld DEF Handler
  <1> QED BY <1>1, <1>2, RestHeld DEF Next

\* While the kubelet gives no call up, the id that DeleteUblkDevice read from
\* the by-uuid link is still its own volume's device, or free, when it reaches
\* `ublk del`: whatever the daemons, the other volumes' handlers, failed steps
\* and restarts of the plugin did in between.  README.md tells what happens when
\* a call is given up.
THEOREM HeldIsOwnHolds ==
  ASSUME HostAssumption, NodeAssumption, "clientTimeout" \notin Faults
  PROVE  Spec => []HeldIsOwn
  <1>1. Init => TypeOK /\ HeldInv
    <2>1. Init => \A c \in Call : call[c] = Idle
      BY DEF Init
    <2>2. Idle.vol = NoVol /\ Idle.pc \notin Holding /\ Idle.dev = NoDev
      BY DEF Idle, Holding
    <2> QED BY <2>1, <2>2, InitType DEF HeldInv, OneCallPerVolume, HoldsOwnDevice
  <1>2. TypeOK /\ HeldInv /\ [Next]_vars => TypeOK' /\ HeldInv'
    BY TypeStep, HeldStep
  <1>3. HeldInv => HeldIsOwn
    BY DEF HeldInv, HoldsOwnDevice, HeldIsOwn
  <1> QED BY <1>1, <1>2, <1>3, PTL DEF Spec
=============================================================================
