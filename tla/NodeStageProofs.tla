--------------------------- MODULE NodeStageProofs ---------------------------
(***************************************************************************)
(* What TLAPS proves about staging: for every number of volumes,           *)
(* invocations and target paths, NodeServer keeps the promise that         *)
(* StagedVolume states, as long as the kubelet gives no call up, daemons   *)
(* do not crash, device numbers suffice and the plugin only goes down      *)
(* while it serves no request.  Host operations may fail at any time.      *)
(***************************************************************************)
EXTENDS NodeServerProofs, FiniteSets, FiniteSetTheorems

\* The faults under which the promise is kept.
Tolerated == {"start", "mkfs", "mount", "umount", "bind", "pluginCrash", "statStaging", "statTarget",
              "removeTarget"}

\* The kernel has a device number for every volume.
EnoughIds ==
  /\ IsFiniteSet(Volume)
  /\ IsFiniteSet(DevId)
  /\ Cardinality(Volume) <= Cardinality(DevId)

(***************************************************************************)
(* The inductive invariant: where an invocation is tells how far its       *)
(* volume is, and a volume that no stage or unstage is at work on is       *)
(* either all there or not there at all.                                   *)
(***************************************************************************)
Work == (StagePc \ {"stageCheck"}) \cup DeletePc \cup (UnstagePc \ {"unstageCheck"})

Empty(v) == \A d \in DevId : dev[d].vol # v
Only(v, d, states) ==
  /\ dev[d].vol = v /\ dev[d].state \in states
  /\ \A e \in DevId : dev[e].vol = v => e = d
Up(v) == unit[v] = "running" /\ \E d \in DevId : Only(v, d, {"live"})
Down(v) == unit[v] = "none" /\ Empty(v)

MountOf(v) == IF v \in BlockVol THEN <<>> ELSE <<"live">>

Clean(v) == Down(v) /\ staging[v] = <<>> /\ VolMap[v] = "absent"
Full(v) == Up(v) /\ staging[v] = MountOf(v) /\ (alive => VolMap[v] # "absent")
RestOK(v) == IF staged[v] = "no" THEN Clean(v) ELSE Full(v)

\* Which operation an invocation that is at pc performs.
OpAt(c) ==
  /\ call[c].pc = "idle" => call[c] = Idle
  /\ call[c].pc # "idle" => call[c].vol \in Volume
  /\ call[c].pc \in StagePc => call[c].op = "stage"
  /\ call[c].pc \in UnstagePc => call[c].op = "unstage"
  /\ call[c].pc \in DeletePc => call[c].op \in {"stage", "unstage"}
  /\ call[c].pc \in PublishPc \cup UnpublishPc => call[c].op \in OnTarget

\* Between validate and stageMount only volumes to be mounted are.
Mounting == {"validate", "probe", "mkfs", "mountCheck", "stageMount"}

WorkOK(c) ==
  LET v == call[c].vol
      pc == call[c].pc
  IN
  /\ IF call[c].op = "stage" THEN staged[v] = "no" /\ VolMap[v] = "absent"
                             ELSE staged[v] # "no" /\ VolMap[v] # "absent"
  /\ staging[v] = IF pc \in {"insert", "unmountStaging"} THEN MountOf(v) ELSE <<>>
  /\ pc # "stopAfterWait"
  /\ pc \in {"startUnit", "cleanupStaging", "delete"} => Down(v)
  /\ pc = "waitLink" => unit[v] = "running" /\ (Empty(v) \/ Up(v))
  /\ pc \in Mounting \cup {"insert", "unmountStaging", "resolve", "stopUnit"} => Up(v)
  /\ pc \in Mounting => v \notin BlockVol
  /\ pc = "ublkDel" => unit[v] = "none" /\ Only(v, call[c].dev, {"quiesced", "dead"})

Good(c) == OpAt(c) /\ (call[c].pc \in Work => WorkOK(c))
AtRest(v) == \A c \in Call : call[c].vol = v => call[c].pc \notin Work

StageInv ==
  /\ \A c \in Call : Good(c)
  /\ \A v \in Volume : AtRest(v) => RestOK(v)
  /\ ~alive => VolMap = [v \in Volume |-> "absent"] /\ \A c \in Call : call[c] = Idle

(***************************************************************************)
(* A step for one volume.                                                  *)
(***************************************************************************)
OthersUntouched(v) ==
  /\ \A w \in Volume : w # v =>
       unit'[w] = unit[w] /\ staging'[w] = staging[w] /\ VolMap'[w] = VolMap[w] /\ staged'[w] = staged[w]
  /\ \A d \in DevId : dev'[d] = dev[d] \/ {dev[d].vol, dev'[d].vol} \subseteq {v, NoVol}

OthersStand(c) == \A o \in Call : o # c => call'[o] = call[o]

\* What is true of a volume stays true while only another one is worked on.
LEMMA OtherVolume ==
  ASSUME HostAssumption, NEW v, NEW w \in Volume, w # v, OthersUntouched(v), alive' = alive
  PROVE  /\ unit'[w] = unit[w] /\ staging'[w] = staging[w] /\ VolMap'[w] = VolMap[w]
         /\ staged'[w] = staged[w]
         /\ Empty(w)' <=> Empty(w)
         /\ \A d \in DevId : dev'[d].vol = w \/ dev[d].vol = w => dev'[d] = dev[d]
         /\ Up(w)' <=> Up(w)
         /\ Down(w)' <=> Down(w)
         /\ RestOK(w)' <=> RestOK(w)
         /\ \A states : DevsOf(w, states)' = DevsOf(w, states)
  <1>1. /\ unit'[w] = unit[w] /\ staging'[w] = staging[w] /\ VolMap'[w] = VolMap[w]
        /\ staged'[w] = staged[w]
    BY DEF OthersUntouched
  <1>2. \A d \in DevId : dev'[d].vol = w \/ dev[d].vol = w => dev'[d] = dev[d]
    BY DEF OthersUntouched, HostAssumption
  <1>3. Empty(w)' <=> Empty(w)
    BY <1>2 DEF Empty
  <1>4. \A d \in DevId : \A states : Only(w, d, states)' <=> Only(w, d, states)
    BY <1>2 DEF Only
  <1>5. (Up(w)' <=> Up(w)) /\ (Down(w)' <=> Down(w))
    BY <1>1, <1>3, <1>4 DEF Up, Down
  <1>6. RestOK(w)' <=> RestOK(w)
    BY <1>1, <1>5 DEF RestOK, Clean, Full, MountOf
  <1>7. \A states : DevsOf(w, states)' = DevsOf(w, states)
    BY <1>2 DEF DevsOf
  <1> QED BY <1>1, <1>2, <1>3, <1>5, <1>6, <1>7

\* What a step of one invocation must do to keep StageInv.
LEMMA StageFrame ==
  ASSUME HostAssumption, TypeOK, TypeOK', HeldInv, StageInv,
         NEW c \in Call, NEW v \in Volume, v = call[c].vol,
         OthersStand(c), OthersUntouched(v), alive' = alive,
         call'[c].vol \in {v, NoVol}, Good(c)',
         call'[c].pc \notin Work => RestOK(v)'
  PROVE  StageInv'
  <1>1. alive /\ alive'
    <2>1. Idle.vol = NoVol
      BY DEF Idle
    <2> QED BY <2>1 DEF StageInv, HostAssumption
  <1>2. ASSUME NEW o \in Call, o # c PROVE Good(o)'
    <2>1. call'[o] = call[o] /\ Good(o)
      BY <1>2 DEF OthersStand, StageInv
    <2>2. OpAt(o)'
      <3>1. OpAt(o)
        BY <2>1 DEF Good
      <3> QED BY <2>1, <3>1 DEF OpAt
    <2>3. ASSUME call[o].pc \in Work PROVE WorkOK(o)'
      <3>1. PICK w \in Volume : w = call[o].vol
        BY <1>2, <2>1, <2>3 DEF Good, OpAt, Work, StagePc, DeletePc, UnstagePc
      <3>2. w # v
        BY <1>2, <3>1 DEF HeldInv, OneCallPerVolume, HostAssumption
      <3>3. call[o].pc = "ublkDel" => call[o].dev \in DevId
        <4>1. call[o].dev \in DevId \cup {NoDev}
          BY <1>2 DEF TypeOK, Invocation
        <4> QED BY <1>2, <4>1 DEF HeldInv, HoldsOwnDevice, Holding
      <3>4. /\ unit'[w] = unit[w] /\ staging'[w] = staging[w] /\ VolMap'[w] = VolMap[w]
            /\ staged'[w] = staged[w]
            /\ Empty(w)' <=> Empty(w)
            /\ \A d \in DevId : dev'[d].vol = w \/ dev[d].vol = w => dev'[d] = dev[d]
            /\ Up(w)' <=> Up(w)
            /\ Down(w)' <=> Down(w)
        BY <3>2, OtherVolume
      <3>5. WorkOK(o)
        BY <2>1, <2>3 DEF Good
      <3>6. call[o].pc = "ublkDel" =>
              (Only(w, call[o].dev, {"quiesced", "dead"}) => Only(w, call[o].dev, {"quiesced", "dead"})')
        BY <2>1, <3>3, <3>4 DEF Only
      <3> QED BY <2>1, <3>1, <3>4, <3>5, <3>6 DEF WorkOK, MountOf
    <2> QED BY <2>1, <2>2, <2>3 DEF Good
  <1>3. ASSUME NEW w \in Volume, AtRest(w)' PROVE RestOK(w)'
    <2>1. CASE w # v
      <3>1. AtRest(w)
        BY <1>3, <2>1 DEF AtRest, OthersStand
      <3> QED BY <2>1, <3>1, OtherVolume DEF StageInv
    <2>2. CASE w = v
      <3>1. call'[c].pc \notin Work
        <4>1. CASE call'[c].vol = v
          BY <1>3, <2>2, <4>1 DEF AtRest
        <4>2. CASE call'[c].vol = NoVol
          BY <4>2 DEF Good, OpAt, HostAssumption, Work, StagePc, DeletePc, UnstagePc
        <4> QED BY <4>1, <4>2
      <3> QED BY <2>2, <3>1 DEF RestOK, Clean, Full, Up, Down, Empty, Only, MountOf
    <2> QED BY <2>1, <2>2
  <1> QED BY <1>1, <1>2, <1>3 DEF StageInv

(***************************************************************************)
(* Moving on within a handler, and answering.                              *)
(***************************************************************************)

\* What an invocation in the middle of its work relies on.
LEMMA InFlight ==
  ASSUME HostAssumption, TypeOK, HeldInv, StageInv, NEW c \in Call, call[c].pc # "idle"
  PROVE  /\ call[c].vol \in Volume /\ call[c].waiting /\ alive
         /\ call[c].pc \in Work => WorkOK(c)
         /\ call[c].pc \notin Work => RestOK(call[c].vol)
  <1>1. OpAt(c) /\ (call[c].pc \in Work => WorkOK(c))
    BY DEF StageInv, Good
  <1>2. PICK v \in Volume : v = call[c].vol
    BY <1>1 DEF OpAt
  <1>3. call[c].waiting /\ \A o \in Call : o # c => call[o].vol # v
    BY <1>2 DEF HeldInv, OneCallPerVolume, HostAssumption
  <1>4. call[c].pc \notin Work => AtRest(v)
    BY <1>2, <1>3 DEF AtRest
  <1>5. alive
    <2>1. Idle.pc = "idle"
      BY DEF Idle
    <2> QED BY <2>1 DEF StageInv
  <1> QED BY <1>1, <1>2, <1>3, <1>4, <1>5 DEF StageInv

\* An invocation that moves on keeps its other locals.
LEMMA GotoFields ==
  ASSUME TypeOK, NEW c \in Call, NEW pc, Goto(c, pc)
  PROVE  /\ OthersStand(c) /\ staged' = staged
         /\ call'[c].pc = pc /\ call'[c].op = call[c].op /\ call'[c].vol = call[c].vol
         /\ call'[c].dev = call[c].dev /\ call'[c].waiting = call[c].waiting
  <1>1. call[c] \in Invocation /\ call' = [call EXCEPT ![c] = [call[c] EXCEPT !.pc = pc]]
    BY DEF TypeOK, Goto
  <1>2. call'[c] = [call[c] EXCEPT !.pc = pc] /\ OthersStand(c)
    BY <1>1 DEF TypeOK, OthersStand
  <1> QED BY <1>1, <1>2 DEF Invocation, Goto, kubeletVars

\* Which pcs belong to which operation.
Fits(pc, op) ==
  /\ pc # "idle"
  /\ pc \in StagePc => op = "stage"
  /\ pc \in UnstagePc => op = "unstage"
  /\ pc \in DeletePc => op \in {"stage", "unstage"}
  /\ pc \in PublishPc \cup UnpublishPc => op \in OnTarget

\* A handler that goes on with the same volume keeps the invariant when the next place is right.
LEMMA GotoKeeps ==
  ASSUME HostAssumption, TypeOK, TypeOK', HeldInv, StageInv,
         NEW c \in Call, NEW v \in Volume, v = call[c].vol, NEW pc, Goto(c, pc),
         OthersUntouched(v), alive' = alive, Fits(pc, call[c].op),
         IF pc \in Work THEN WorkOK(c)' ELSE RestOK(v)'
  PROVE  StageInv'
  <1>1. /\ OthersStand(c)
        /\ call'[c].pc = pc /\ call'[c].op = call[c].op /\ call'[c].vol = v
    BY GotoFields
  <1>2. Good(c)'
    BY <1>1 DEF Good, OpAt, Fits
  <1> QED BY <1>1, <1>2, StageFrame

\* An answer keeps the invariant when it leaves its volume at rest.
LEMMA ReturnKeeps ==
  ASSUME HostAssumption, TypeOK, TypeOK', HeldInv, StageInv,
         NEW c \in Call, NEW v \in Volume, v = call[c].vol, NEW ok, Return(c, ok),
         OthersUntouched(v), alive' = alive, RestOK(v)'
  PROVE  StageInv'
  <1>1. call'[c] = Idle /\ OthersStand(c)
    BY DEF Return, TypeOK, OthersStand
  <1>2. Idle.pc = "idle" /\ Idle.vol = NoVol
    BY DEF Idle
  <1>3. "idle" \notin Work /\ "idle" \notin Pc \ {"idle"}
        /\ "idle" \notin StagePc \cup UnstagePc \cup DeletePc \cup PublishPc \cup UnpublishPc
    BY DEF Work, StagePc, UnstagePc, DeletePc, PublishPc, UnpublishPc
  <1>4. Good(c)'
    BY <1>1, <1>2, <1>3 DEF Good, OpAt
  <1> QED BY <1>1, <1>2, <1>3, <1>4, StageFrame

\* A step that leaves units and devices alone.
LEMMA SameDevices ==
  ASSUME UNCHANGED <<unit, dev>>, NEW v
  PROVE  /\ Up(v)' <=> Up(v)
         /\ Down(v)' <=> Down(v)
         /\ Empty(v)' <=> Empty(v)
         /\ \A d, states : Only(v, d, states)' <=> Only(v, d, states)
  BY DEF Up, Down, Empty, Only

\* A step that changes no host state touches no other volume.
LEMMA QuietUntouched ==
  ASSUME UNCHANGED <<unit, dev, staging, VolMap>>, NEW v,
         \A w \in Volume : w # v => staged'[w] = staged[w]
  PROVE  OthersUntouched(v)
  BY DEF OthersUntouched

\* A quiet step from one place of the work to another keeps the invariant when
\* what is true of the volume at the first place is enough for the second.
LEMMA QuietGotoKeeps ==
  ASSUME HostAssumption, TypeOK, TypeOK', HeldInv, StageInv,
         NEW c \in Call, call[c].pc # "idle", NEW pc, Goto(c, pc), Quiet, Fits(pc, call[c].op),
         IF pc \in Work
         THEN \E from \in Work : call[c].pc = from /\ (call'[c].pc = pc => (WorkOK(c) => WorkOK(c)'))
         ELSE call[c].pc \notin Work
  PROVE  StageInv'
  <1>1. PICK v \in Volume : v = call[c].vol
    BY InFlight
  <1>2. UNCHANGED <<unit, dev, staging, VolMap, staged>> /\ alive' = alive
    BY GotoFields DEF Quiet, hostVars
  <1>3. OthersUntouched(v)
    BY <1>2, QuietUntouched
  <1>4. call'[c].pc = pc
    BY GotoFields
  <1>5. CASE pc \in Work
    BY <1>1, <1>2, <1>3, <1>4, <1>5, InFlight, GotoKeeps
  <1>6. CASE pc \notin Work
    <2>1. RestOK(v)
      BY <1>1, <1>6, InFlight
    <2>2. RestOK(v)'
      BY <1>2, <2>1, SameDevices DEF RestOK, Clean, Full, MountOf
    <2> QED BY <1>1, <1>2, <1>3, <1>6, <2>2, GotoKeeps
  <1> QED BY <1>5, <1>6

(***************************************************************************)
(* Device numbers suffice: no volume has two, so that one is free while a  *)
(* volume has none.                                                        *)
(***************************************************************************)
LEMMA OneDevice ==
  ASSUME HostAssumption, TypeOK, HeldInv, StageInv, NEW v \in Volume
  PROVE  Empty(v) \/ \E d \in DevId : Only(v, d, {"live", "quiesced", "dead"})
  <1>1. CASE AtRest(v)
    BY <1>1 DEF StageInv, RestOK, Clean, Full, Up, Down, Only
  <1>2. CASE ~AtRest(v)
    <2>1. PICK c \in Call : call[c].vol = v /\ call[c].pc \in Work
      BY <1>2 DEF AtRest
    <2>2. WorkOK(c)
      BY <2>1 DEF StageInv, Good
    <2>3. call[c].pc = "ublkDel" => call[c].dev \in DevId
      <3>1. call[c].dev \in DevId \cup {NoDev}
        BY DEF TypeOK, Invocation
      <3> QED BY <3>1 DEF HeldInv, HoldsOwnDevice, Holding
    <2>4. Up(v) \/ Empty(v) \/ call[c].pc = "ublkDel"
      BY <2>1, <2>2 DEF WorkOK, Down, Work, StagePc, UnstagePc, DeletePc, Mounting
    <2> QED BY <2>1, <2>2, <2>3, <2>4 DEF WorkOK, Up, Only
  <1> QED BY <1>1, <1>2

\* A volume without a device leaves a number free.
LEMMA EnoughFree ==
  ASSUME HostAssumption, EnoughIds, TypeOK, HeldInv, StageInv, NEW v \in Volume, Empty(v)
  PROVE  FreeIds # {}
  <1> SUFFICES ASSUME FreeIds = {} PROVE FALSE
    OBVIOUS
  <1> DEFINE owner == [d \in DevId |-> dev[d].vol]
  <1>1. \A d \in DevId : dev[d].vol \in Volume \ {v}
    BY DEF FreeIds, TypeOK, HostTypeOK, Device, Empty
  <1>2. \A d, e \in DevId : dev[d].vol = dev[e].vol => d = e
    BY <1>1, OneDevice DEF Empty, Only
  <1>3. owner \in Injection(DevId, Volume \ {v})
    BY <1>1, <1>2 DEF Injection, IsInjective
  <1>4. IsFiniteSet(Volume \ {v}) /\ Cardinality(Volume \ {v}) = Cardinality(Volume) - 1
    BY FS_RemoveElement DEF EnoughIds
  <1>5. Cardinality(DevId) <= Cardinality(Volume \ {v})
    BY <1>3, <1>4, FS_Injection
  <1>6. Cardinality(DevId) \in Nat /\ Cardinality(Volume) \in Nat
    BY FS_CardinalityType DEF EnoughIds
  <1> QED BY <1>4, <1>5, <1>6 DEF EnoughIds

(***************************************************************************)
(* NodeStageVolume.                                                        *)
(***************************************************************************)
\* What an answer to a stage or an unstage makes of the kubelet's belief.
LEMMA Told ==
  ASSUME TypeOK, NEW c \in Call, call[c].waiting, NEW v \in Volume, v = call[c].vol
  PROVE  /\ call[c].op = "stage" /\ Return(c, TRUE) => staged' = [staged EXCEPT ![v] = "yes"]
         /\ call[c].op = "stage" /\ staged[v] = "no" /\ Return(c, FALSE) => staged' = staged
         /\ call[c].op = "unstage" /\ Return(c, TRUE) => staged' = [staged EXCEPT ![v] = "no"]
         /\ call[c].op = "unstage" /\ Return(c, FALSE) => staged' = [staged EXCEPT ![v] = "maybe"]
  <1>1. staged \in [Volume -> {"no", "yes", "maybe"}]
    BY DEF TypeOK
  <1>2. ASSUME call[c].op = "stage", Return(c, TRUE) PROVE staged' = [staged EXCEPT ![v] = "yes"]
    BY <1>2 DEF Return, Learn, OnVolume
  <1>3. ASSUME call[c].op = "stage", staged[v] = "no", Return(c, FALSE) PROVE staged' = staged
    BY <1>1, <1>3 DEF Return, Learn, OnVolume
  <1>4. ASSUME call[c].op = "unstage", Return(c, TRUE) PROVE staged' = [staged EXCEPT ![v] = "no"]
    BY <1>4 DEF Return, Learn, OnVolume
  <1>5. ASSUME call[c].op = "unstage", Return(c, FALSE) PROVE staged' = [staged EXCEPT ![v] = "maybe"]
    BY <1>5 DEF Return, Learn, Doubt, OnVolume
  <1> QED BY <1>2, <1>3, <1>4, <1>5

\* NodeStageVolume answers for a volume with an entry, and goes on for one without.
LEMMA StageCheckKeeps ==
  ASSUME HostAssumption, TypeOK, TypeOK', HeldInv, StageInv, NEW c \in Call, StageCheck(c)
  PROVE  StageInv'
  <1>0. call[c].pc = "stageCheck" /\ call[c].pc \notin Work /\ call[c].op = "stage"
    BY DEF StageCheck, At, Work, StagePc, DeletePc, UnstagePc, StageInv, Good, OpAt
  <1>1. PICK v \in Volume : v = call[c].vol /\ RestOK(v) /\ alive /\ call[c].waiting
    BY <1>0, InFlight
  <1>2. UNCHANGED <<unit, dev, staging, VolMap>> /\ alive' = alive
    BY DEF StageCheck, Quiet, hostVars
  <1>3. CASE VolMap[v] # "absent"
    <2>1. Return(c, TRUE)
      BY <1>1, <1>3 DEF StageCheck, AlreadyStaged
    <2>2. staged'[v] = "yes" /\ \A w \in Volume : w # v => staged'[w] = staged[w]
      <3>1. staged' = [staged EXCEPT ![v] = "yes"]
        BY <1>0, <1>1, <2>1, Told
      <3> QED BY <3>1 DEF TypeOK
    <2>3. Full(v)
      BY <1>1, <1>3 DEF RestOK, Clean
    <2>4. RestOK(v)'
      BY <1>2, <2>2, <2>3, SameDevices DEF RestOK, Full, MountOf
    <2> QED BY <1>1, <1>2, <2>1, <2>2, <2>4, QuietUntouched, ReturnKeeps
  <1>4. CASE VolMap[v] = "absent"
    <2>1. Goto(c, "startUnit")
      BY <1>1, <1>4 DEF StageCheck, AlreadyStaged
    <2>2. staged[v] = "no" /\ Clean(v)
      BY <1>1, <1>4 DEF RestOK, Full
    <2>3. /\ staged' = staged /\ call'[c].pc = "startUnit" /\ call'[c].vol = v
          /\ call'[c].op = "stage"
      BY <1>0, <1>1, <2>1, GotoFields
    <2>4. WorkOK(c)'
      BY <1>1, <1>2, <1>4, <2>2, <2>3, SameDevices DEF WorkOK, Clean, Mounting
    <2> QED BY <1>0, <1>1, <1>2, <2>1, <2>3, <2>4, QuietUntouched, GotoKeeps
         DEF Fits, Work, StagePc, DeletePc, UnstagePc, PublishPc, UnpublishPc
  <1> QED BY <1>3, <1>4

\* An invocation of NodeStageVolume at work.
LEMMA AtStageWork ==
  ASSUME HostAssumption, TypeOK, HeldInv, StageInv, NEW c \in Call,
         call[c].pc \in StagePc \ {"stageCheck"}
  PROVE  /\ call[c].op = "stage" /\ call[c].waiting /\ alive /\ WorkOK(c)
         /\ call[c].vol \in Volume /\ call[c].pc \in Work /\ call[c].pc # "idle"
         /\ staged[call[c].vol] = "no" /\ VolMap[call[c].vol] = "absent"
  <1>1. call[c].op = "stage" /\ call[c].pc \in Work /\ call[c].pc # "idle"
    BY DEF StageInv, Good, OpAt, Work, StagePc
  <1> QED BY <1>1, InFlight DEF WorkOK

\* The unit is started, or refused with nothing started.
LEMMA StartKeeps ==
  ASSUME HostAssumption, TypeOK, TypeOK', HeldInv, StageInv, Faults \subseteq Tolerated,
         NEW c \in Call, StartOk(c) \/ StartRefusedOrFailed(c) \/ StartReportedFailed(c)
  PROVE  StageInv'
  <1>0. call[c].pc = "startUnit" /\ ~StartReportedFailed(c)
    BY DEF StartOk, StartRefusedOrFailed, StartReportedFailed, At, Can, Tolerated
  <1>1. PICK v \in Volume : /\ v = call[c].vol /\ call[c].op = "stage" /\ call[c].waiting
                            /\ WorkOK(c) /\ staged[v] = "no" /\ VolMap[v] = "absent"
    BY <1>0, AtStageWork DEF StagePc
  <1>2. Down(v) /\ staging[v] = <<>>
    BY <1>0, <1>1 DEF WorkOK
  <1>3. CASE StartOk(c)
    <2>1. /\ Goto(c, "waitLink") /\ unit' = [unit EXCEPT ![v] = "running"]
          /\ UNCHANGED <<dev, staging, VolMap, alive>>
      BY <1>1, <1>3 DEF StartOk, StartUnit, mounts
    <2>2. /\ staged' = staged /\ call'[c].pc = "waitLink" /\ call'[c].vol = v
          /\ call'[c].op = "stage"
      BY <1>1, <2>1, GotoFields
    <2>3. OthersUntouched(v)
      BY <2>1, <2>2 DEF OthersUntouched, TypeOK, HostTypeOK
    <2>4. unit'[v] = "running" /\ Empty(v)'
      BY <1>2, <2>1 DEF Down, Empty, TypeOK, HostTypeOK
    <2>5. WorkOK(c)'
      BY <1>1, <1>2, <2>1, <2>2, <2>4 DEF WorkOK, Mounting
    <2> QED BY <1>1, <2>1, <2>3, <2>5, GotoKeeps
         DEF Fits, Work, StagePc, DeletePc, UnstagePc, PublishPc, UnpublishPc
  <1>4. CASE StartRefusedOrFailed(c)
    <2>1. Return(c, FALSE) /\ UNCHANGED <<unit, dev, staging, VolMap, alive>>
      BY <1>4 DEF StartRefusedOrFailed, Quiet, hostVars
    <2>2. staged' = staged
      BY <1>1, <2>1, Told
    <2>3. RestOK(v)'
      BY <1>1, <1>2, <2>1, <2>2, SameDevices DEF RestOK, Clean
    <2> QED BY <1>1, <2>1, <2>2, <2>3, QuietUntouched, ReturnKeeps
  <1> QED BY <1>0, <1>3, <1>4

\* The device shows up, and numbers suffice, so that the wait never times out.
LEMMA WaitKeeps ==
  ASSUME HostAssumption, EnoughIds, TypeOK, TypeOK', HeldInv, StageInv, Faults \subseteq Tolerated,
         NEW c \in Call, LinkSeen(c) \/ LinkTimeout(c) \/ StopAfterWait(c)
  PROVE  StageInv'
  <1>0. call[c].pc \in {"waitLink", "stopAfterWait"}
    BY DEF LinkSeen, LinkTimeout, StopAfterWait, At
  <1>1. PICK v \in Volume : /\ v = call[c].vol /\ call[c].op = "stage" /\ WorkOK(c)
                            /\ call[c].pc \in Work /\ call[c].pc # "idle"
    BY <1>0, AtStageWork DEF StagePc
  <1>2. call[c].pc = "waitLink" /\ unit[v] = "running" /\ (Empty(v) \/ Up(v))
    BY <1>0, <1>1 DEF WorkOK
  <1>3. ~StopAfterWait(c)
    BY <1>2 DEF StopAfterWait, At
  <1>4. ~LinkTimeout(c)
    <2>1. SUFFICES ASSUME LinkTimeout(c) PROVE FALSE
      OBVIOUS
    <2>2. Link(v) = {} /\ FreeIds = {}
      BY <1>1, <1>2, <2>1 DEF LinkTimeout, Can, Tolerated
    <2>3. Empty(v)
      BY <1>2, <2>2 DEF Up, Only, Link, DevsOf
    <2> QED BY <2>2, <2>3, EnoughFree
  <1>5. LinkSeen(c)
    BY <1>3, <1>4
  <1>6. Up(v)
    BY <1>1, <1>2, <1>5 DEF LinkSeen, Link, DevsOf, Empty
  <1> DEFINE pc == IF v \in BlockVol THEN "insert" ELSE "validate"
  <1>7. Goto(c, pc) /\ Quiet
    BY <1>1, <1>5 DEF LinkSeen
  <1>8. /\ UNCHANGED <<unit, dev, staging, VolMap, staged>>
        /\ call'[c].pc = pc /\ call'[c].vol = v /\ call'[c].op = "stage"
    BY <1>1, <1>7, GotoFields DEF Quiet, hostVars
  <1>9. WorkOK(c)'
    BY <1>1, <1>2, <1>6, <1>8, SameDevices DEF WorkOK, Mounting, MountOf
  <1>10. Fits(pc, "stage") /\ pc \in Work
    BY DEF Fits, Work, StagePc, DeletePc, UnstagePc, PublishPc, UnpublishPc
  <1> HIDE DEF pc
  <1> QED BY <1>1, <1>7, <1>9, <1>10, QuietGotoKeeps

\* The steps of FormatAndMountDevice that touch neither units, devices nor
\* staging mounts.
LEMMA FormatKeeps ==
  ASSUME HostAssumption, TypeOK, TypeOK', HeldInv, StageInv, NEW c \in Call,
         Validate(c) \/ Probe(c) \/ MkfsOk(c) \/ MkfsFails(c) \/ MountCheck(c) \/ StageMountFails(c)
  PROVE  StageInv'
  <1>0. call[c].pc \in Mounting
    BY DEF Validate, Probe, MkfsOk, MkfsFails, MountCheck, StageMountFails, At, Mounting
  <1>1. PICK v \in Volume : /\ v = call[c].vol /\ call[c].op = "stage" /\ WorkOK(c) /\ alive
    BY <1>0, AtStageWork DEF StagePc, Mounting
  <1>2. Up(v) /\ staging[v] = <<>> /\ v \notin BlockVol
    BY <1>0, <1>1 DEF WorkOK, Mounting
  <1>3. /\ OthersStand(c) /\ staged' = staged
        /\ call'[c].vol = v /\ call'[c].op = "stage"
        /\ call'[c].pc \in (Mounting \ {"validate"}) \cup {"resolve"}
    <2>1. CASE Probe(c)
      <3>1. call[c] \in Invocation
        BY DEF TypeOK
      <3>4. CASE Goto(c, "resolve")
        BY <1>1, <3>4, GotoFields
      <3> SUFFICES ASSUME ~Goto(c, "resolve")
                   PROVE  /\ OthersStand(c) /\ staged' = staged
                          /\ call'[c].vol = v /\ call'[c].op = "stage"
                          /\ call'[c].pc \in (Mounting \ {"validate"}) \cup {"resolve"}
        BY <3>4
      <3>2. PICK existing :
              /\ UNCHANGED kubeletVars
              /\ call' = [call EXCEPT ![c] = IF NeedsFormatting(existing, call[c].fs)
                                             THEN [call[c] EXCEPT !.pc = "mkfs"]
                                             ELSE [call[c] EXCEPT !.pc = "mountCheck", !.fs = existing]]
        BY <2>1, ProbeFinds
      <3>3. /\ OthersStand(c)
            /\ \/ call'[c] = [call[c] EXCEPT !.pc = "mkfs"]
               \/ call'[c] = [call[c] EXCEPT !.pc = "mountCheck", !.fs = existing]
        BY <3>2 DEF TypeOK, OthersStand
      <3>5. OthersStand(c) /\ staged' = staged
        BY <3>2, <3>3 DEF kubeletVars
      <3>6. /\ call'[c].vol = call[c].vol /\ call'[c].op = call[c].op
            /\ call'[c].pc \in {"mkfs", "mountCheck"}
        BY <3>1, <3>3 DEF Invocation
      <3> QED BY <1>1, <3>5, <3>6 DEF Mounting
    <2>2. CASE ~Probe(c)
      <3>1. PICK pc \in (Mounting \ {"validate"}) \cup {"resolve"} : Goto(c, pc)
        <4>1. staging[call[c].vol] = <<>>
          BY <1>1, <1>2
        <4> QED BY <2>2, <4>1 DEF Validate, MkfsOk, MkfsFails, MountCheck, StageMountFails, Mounting,
                                  MountedAt
      <3> QED BY <1>1, <3>1, GotoFields
    <2> QED BY <2>1, <2>2
  <1>4. UNCHANGED <<unit, dev, staging, VolMap, alive>>
    BY DEF Validate, Probe, MkfsOk, MkfsFails, MountCheck, StageMountFails, Quiet, hostVars, mounts
  <1>5. OthersUntouched(v)
    BY <1>3, <1>4, QuietUntouched
  <1>6. WorkOK(c)'
    BY <1>0, <1>1, <1>2, <1>3, <1>4, SameDevices DEF WorkOK, Mounting
  <1>7. OpAt(c)' /\ call'[c].pc \in Work
    BY <1>1, <1>3 DEF OpAt, Mounting, Work, StagePc, DeletePc, UnstagePc, PublishPc, UnpublishPc
  <1> QED BY <1>1, <1>3, <1>4, <1>5, <1>6, <1>7, StageFrame DEF Good

\* The file system is mounted, and the volume gets its entry.
LEMMA MountKeeps ==
  ASSUME HostAssumption, TypeOK, TypeOK', HeldInv, StageInv, NEW c \in Call,
         StageMountOk(c) \/ Insert(c)
  PROVE  StageInv'
  <1>0. call[c].pc \in {"stageMount", "insert"}
    BY DEF StageMountOk, Insert, At
  <1>1. PICK v \in Volume : /\ v = call[c].vol /\ call[c].op = "stage" /\ call[c].waiting
                            /\ WorkOK(c) /\ staged[v] = "no" /\ VolMap[v] = "absent" /\ alive
    BY <1>0, AtStageWork DEF StagePc
  <1>2. Up(v)
    BY <1>0, <1>1 DEF WorkOK, Mounting
  <1>3. CASE StageMountOk(c)
    <2>1. staging[v] = <<>> /\ v \notin BlockVol
      BY <1>1, <1>3 DEF WorkOK, Mounting, StageMountOk, At
    <2>2. /\ Goto(c, "insert") /\ staging' = [staging EXCEPT ![v] = <<"live">>]
          /\ UNCHANGED <<unit, dev, VolMap, alive>>
      BY <1>1, <1>3, <2>1 DEF StageMountOk
    <2>3. /\ staged' = staged /\ call'[c].pc = "insert" /\ call'[c].vol = v
          /\ call'[c].op = "stage"
      BY <1>1, <2>2, GotoFields
    <2>4. staging'[v] = MountOf(v) /\ OthersUntouched(v)
      BY <2>1, <2>2, <2>3 DEF MountOf, OthersUntouched, TypeOK, HostTypeOK
    <2>5. WorkOK(c)'
      BY <1>1, <1>2, <2>2, <2>3, <2>4, SameDevices DEF WorkOK, Mounting, MountOf
    <2> QED BY <1>1, <2>2, <2>4, <2>5, GotoKeeps
         DEF Fits, Work, StagePc, DeletePc, UnstagePc, PublishPc, UnpublishPc
  <1>4. CASE Insert(c)
    <2>1. staging[v] = MountOf(v)
      BY <1>1, <1>4 DEF WorkOK, Insert, At
    <2>2. /\ Return(c, TRUE) /\ VolMap' = [VolMap EXCEPT ![v] = Mode(v)]
          /\ UNCHANGED <<unit, dev, staging, alive>>
      BY <1>1, <1>4 DEF Insert, hostVars
    <2>3. staged' = [staged EXCEPT ![v] = "yes"]
      BY <1>1, <2>2, Told
    <2>4. VolMap'[v] # "absent" /\ staged'[v] = "yes" /\ OthersUntouched(v)
      BY <2>2, <2>3 DEF Mode, OthersUntouched, TypeOK
    <2>5. RestOK(v)'
      BY <1>2, <2>1, <2>2, <2>4, SameDevices DEF RestOK, Full, MountOf
    <2> QED BY <1>1, <2>2, <2>4, <2>5, ReturnKeeps
  <1> QED BY <1>3, <1>4

(***************************************************************************)
(* DeleteUblkDevice.                                                       *)
(***************************************************************************)
LEMMA StaleOfNothing == Stale(<<>>) = <<>>
  BY DEF Stale

\* Losing the device of a volume without a staging mount changes no staging path.
LEMMA LoseNothing ==
  ASSUME TypeOK, NEW v \in Volume, staging[v] = <<>>, LoseMounts(v)
  PROVE  staging' = staging
  BY StaleOfNothing DEF LoseMounts, TypeOK, HostTypeOK

\* An invocation of DeleteUblkDevice at work.
LEMMA AtDelete ==
  ASSUME HostAssumption, TypeOK, HeldInv, StageInv, NEW c \in Call, call[c].pc \in DeletePc
  PROVE  /\ call[c].op \in {"stage", "unstage"} /\ call[c].waiting /\ alive /\ WorkOK(c)
         /\ call[c].vol \in Volume /\ call[c].pc \in Work /\ call[c].pc # "idle"
         /\ staging[call[c].vol] = <<>>
  <1>1. call[c].op \in {"stage", "unstage"} /\ call[c].pc \in Work /\ call[c].pc # "idle"
    BY DEF StageInv, Good, OpAt, Work, DeletePc
  <1> QED BY <1>1, InFlight DEF WorkOK, DeletePc

\* The link is resolved to the only device of the volume.
LEMMA ResolveKeeps ==
  ASSUME HostAssumption, TypeOK, TypeOK', HeldInv, StageInv, NEW c \in Call, Resolve(c)
  PROVE  StageInv'
  <1>0. call[c].pc = "resolve"
    BY DEF Resolve, At
  <1>1. PICK v \in Volume : /\ v = call[c].vol /\ WorkOK(c) /\ alive /\ staging[v] = <<>>
                            /\ call[c].op \in {"stage", "unstage"}
    BY <1>0, AtDelete DEF DeletePc
  <1>2. Up(v)
    BY <1>0, <1>1 DEF WorkOK
  <1>3. Link(v) # {}
    BY <1>2 DEF Up, Only, Link, DevsOf
  <1>4. PICK d : call' = [call EXCEPT ![c] = [call[c] EXCEPT !.pc = "stopUnit", !.dev = d]]
    BY <1>1, <1>3 DEF Resolve
  <1>5. call[c] \in Invocation
    BY DEF TypeOK
  <1>6. /\ OthersStand(c)
        /\ call'[c].pc = "stopUnit" /\ call'[c].vol = v /\ call'[c].op = call[c].op
    BY <1>1, <1>4, <1>5 DEF OthersStand, TypeOK, Invocation
  <1>7. UNCHANGED <<unit, dev, staging, VolMap, alive, staged>>
    BY <1>1, <1>3 DEF Resolve, Quiet, hostVars, kubeletVars
  <1>8. WorkOK(c)'
    BY <1>0, <1>1, <1>2, <1>6, <1>7, SameDevices DEF WorkOK, Mounting
  <1>9. OpAt(c)' /\ call'[c].pc \in Work
    BY <1>1, <1>6 DEF OpAt, Work, StagePc, DeletePc, UnstagePc, PublishPc, UnpublishPc
  <1> QED BY <1>1, <1>6, <1>7, <1>8, <1>9, QuietUntouched, StageFrame DEF Good

\* The id read from the link is that of the volume's only device.
LEMMA StopKeeps ==
  ASSUME HostAssumption, TypeOK, TypeOK', HeldInv, StageInv, NEW c \in Call, StopUblkUnit(c)
  PROVE  StageInv'
  <1>0. call[c].pc = "stopUnit"
    BY DEF StopUblkUnit, At
  <1>1. PICK v \in Volume : /\ v = call[c].vol /\ WorkOK(c) /\ alive /\ staging[v] = <<>>
                            /\ call[c].op \in {"stage", "unstage"}
    BY <1>0, AtDelete DEF DeletePc
  <1>2. PICK d \in DevId : Only(v, d, {"live"})
    BY <1>0, <1>1 DEF WorkOK, Up
  <1>3. call[c].dev = d
    <2>1. call[c].dev \in DevId /\ dev[call[c].dev].vol = v
      BY <1>0, <1>1 DEF HeldInv, HoldsOwnDevice, Holding, TypeOK, Invocation
    <2> QED BY <1>2, <2>1 DEF Only
  <1>4. /\ Goto(c, "ublkDel") /\ unit' = [unit EXCEPT ![v] = "none"]
        /\ UNCHANGED <<VolMap, alive>>
    BY <1>1 DEF StopUblkUnit, StopUnit
  <1>5. PICK left \in {"quiesced", "dead"} : DetachDaemon(v, left)
    BY <1>1 DEF StopUblkUnit, StopUnit, LeftByStop
  <1>6. staging' = staging
    BY <1>1, <1>5, LoseNothing DEF DetachDaemon, mounts
  <1>7. /\ OthersStand(c) /\ staged' = staged /\ call'[c].pc = "ublkDel" /\ call'[c].vol = v
        /\ call'[c].op = call[c].op /\ call'[c].dev = d
    BY <1>1, <1>3, <1>4, GotoFields
  <1>8. \A e \in DevId : dev'[e] = IF e = d THEN [vol |-> v, state |-> left] ELSE dev[e]
    BY <1>2, <1>5 DEF DetachDaemon, Only
  <1>9. Only(v, d, {"quiesced", "dead"})' /\ unit'[v] = "none" /\ OthersUntouched(v)
    <2>1. unit'[v] = "none" /\ \A w \in Volume : w # v => unit'[w] = unit[w]
      BY <1>4 DEF TypeOK, HostTypeOK
    <2>2. Only(v, d, {"quiesced", "dead"})'
      BY <1>2, <1>8 DEF Only
    <2> QED BY <1>2, <1>4, <1>6, <1>7, <1>8, <2>1, <2>2 DEF OthersUntouched, Only
  <1>10. WorkOK(c)'
    BY <1>0, <1>1, <1>4, <1>6, <1>7, <1>9 DEF WorkOK, Mounting
  <1> QED BY <1>0, <1>1, <1>4, <1>9, <1>10, GotoKeeps
       DEF Fits, Work, StagePc, DeletePc, UnstagePc, PublishPc, UnpublishPc

\* The device is deleted, which leaves nothing of the volume but, for an
\* unstage, its map entry.
LEMMA DeleteDeviceKeeps ==
  ASSUME HostAssumption, TypeOK, TypeOK', HeldInv, StageInv, NEW c \in Call, DeleteDevice(c)
  PROVE  StageInv'
  <1>0. call[c].pc = "ublkDel"
    BY DEF DeleteDevice, At
  <1>1. PICK v \in Volume : /\ v = call[c].vol /\ WorkOK(c) /\ alive /\ staging[v] = <<>>
                            /\ call[c].op \in {"stage", "unstage"} /\ call[c].waiting
    BY <1>0, AtDelete DEF DeletePc
  <1>2. PICK d \in DevId : d = call[c].dev
    <2>1. call[c].dev \in DevId \cup {NoDev}
      BY DEF TypeOK, Invocation
    <2>2. call[c].dev # NoDev
      BY <1>0 DEF HeldInv, HoldsOwnDevice, Holding
    <2> QED BY <2>1, <2>2
  <1>3. unit[v] = "none" /\ Only(v, d, {"quiesced", "dead"})
    BY <1>0, <1>1, <1>2 DEF WorkOK
  <1>4. dev[d] # FreeDev /\ dev[d].vol = v /\ dev[d].state # "live"
    BY <1>3 DEF Only, FreeDev, HostAssumption
  <1>5. dev' = [dev EXCEPT ![d] = FreeDev] /\ LoseMounts(v) /\ unit' = unit
    BY <1>2, <1>4 DEF DeleteDevice, UblkDel
  <1>6. staging' = staging
    BY <1>1, <1>5, LoseNothing
  <1>7. AfterDelete(c) /\ UNCHANGED <<VolMap, alive>>
    BY DEF DeleteDevice
  <1>8. \A e \in DevId : dev'[e] = IF e = d THEN FreeDev ELSE dev[e]
    BY <1>5 DEF TypeOK, HostTypeOK
  <1>9. Down(v)'
    BY <1>3, <1>5, <1>8 DEF Down, Empty, Only, FreeDev, HostAssumption
  <1>10. ASSUME \A w \in Volume : w # v => staged'[w] = staged[w] PROVE OthersUntouched(v)
    BY <1>4, <1>5, <1>6, <1>7, <1>8, <1>10 DEF OthersUntouched, FreeDev
  <1>11. CASE call[c].op = "stage"
    <2>1. Return(c, FALSE) /\ staged[v] = "no" /\ VolMap[v] = "absent"
      BY <1>1, <1>7, <1>11 DEF AfterDelete, WorkOK
    <2>2. staged' = staged
      BY <1>1, <1>11, <2>1, Told
    <2>3. RestOK(v)'
      BY <1>1, <1>6, <1>7, <1>9, <2>1, <2>2 DEF RestOK, Clean
    <2> QED BY <1>1, <1>7, <1>10, <2>1, <2>2, <2>3, ReturnKeeps
  <1>12. CASE call[c].op = "unstage"
    <2>1. /\ call' = [call EXCEPT ![c] = [call[c] EXCEPT !.pc = "cleanupStaging", !.dev = NoDev]]
          /\ staged' = staged
      BY <1>7, <1>12 DEF AfterDelete, kubeletVars
    <2>2. call[c] \in Invocation
      BY DEF TypeOK
    <2>3. /\ OthersStand(c)
          /\ call'[c].pc = "cleanupStaging" /\ call'[c].vol = v /\ call'[c].op = "unstage"
      BY <1>1, <1>12, <2>1, <2>2 DEF OthersStand, TypeOK, Invocation
    <2>4. WorkOK(c)'
      BY <1>1, <1>6, <1>7, <1>9, <1>12, <2>1, <2>3 DEF WorkOK, Mounting
    <2>5. OpAt(c)' /\ call'[c].pc \in Work
      BY <1>1, <2>3 DEF OpAt, Work, StagePc, DeletePc, UnstagePc, PublishPc, UnpublishPc
    <2> QED BY <1>1, <1>7, <1>10, <2>1, <2>3, <2>4, <2>5, StageFrame DEF Good
  <1> QED BY <1>1, <1>11, <1>12

\* The device is deleted.
LEMMA DeleteKeeps ==
  ASSUME HostAssumption, TypeOK, TypeOK', HeldInv, StageInv, Faults \subseteq Tolerated,
         NEW c \in Call, DeleteUblkDevice(c)
  PROVE  StageInv'
  <1>1. ~StopFails(c) /\ ~DeleteDeviceFails(c)
    BY DEF StopFails, DeleteDeviceFails, Can, Tolerated
  <1> QED BY <1>1, ResolveKeeps, StopKeeps, DeleteDeviceKeeps DEF DeleteUblkDevice

(***************************************************************************)
(* NodeUnstageVolume.                                                      *)
(***************************************************************************)
LEMMA UnmountAll ==
  /\ Unmount(<<>>) = <<>>
  /\ \A v : Unmount(MountOf(v)) = <<>>
  BY DEF Unmount, MountedAt, MountOf

\* NodeUnstageVolume answers for a volume without an entry, and goes on for one with.
LEMMA UnstageCheckKeeps ==
  ASSUME HostAssumption, TypeOK, TypeOK', HeldInv, StageInv, NEW c \in Call, UnstageCheck(c)
  PROVE  StageInv'
  <1>0. call[c].pc = "unstageCheck" /\ call[c].pc \notin Work /\ call[c].op = "unstage"
    BY DEF UnstageCheck, At, Work, StagePc, DeletePc, UnstagePc, StageInv, Good, OpAt
  <1>1. PICK v \in Volume : v = call[c].vol /\ RestOK(v) /\ alive /\ call[c].waiting
    BY <1>0, InFlight
  <1>2. UNCHANGED <<unit, dev, staging, VolMap>> /\ alive' = alive
    BY DEF UnstageCheck, Quiet, hostVars
  <1>3. CASE VolMap[v] = "absent"
    <2>1. Return(c, TRUE)
      BY <1>1, <1>3 DEF UnstageCheck
    <2>2. staged'[v] = "no" /\ \A w \in Volume : w # v => staged'[w] = staged[w]
      <3>1. staged' = [staged EXCEPT ![v] = "no"]
        BY <1>0, <1>1, <2>1, Told
      <3> QED BY <3>1 DEF TypeOK
    <2>3. Clean(v)
      BY <1>1, <1>3 DEF RestOK, Full
    <2>4. RestOK(v)'
      BY <1>2, <2>2, <2>3, SameDevices DEF RestOK, Clean
    <2> QED BY <1>1, <1>2, <2>1, <2>2, <2>4, QuietUntouched, ReturnKeeps
  <1>4. CASE VolMap[v] # "absent"
    <2>1. Goto(c, "unmountStaging")
      BY <1>1, <1>4 DEF UnstageCheck
    <2>2. staged[v] # "no" /\ Full(v)
      BY <1>1, <1>4 DEF RestOK, Clean
    <2>3. /\ staged' = staged /\ call'[c].pc = "unmountStaging" /\ call'[c].vol = v
          /\ call'[c].op = "unstage"
      BY <1>0, <1>1, <2>1, GotoFields
    <2>4. WorkOK(c)'
      BY <1>1, <1>2, <1>4, <2>2, <2>3, SameDevices DEF WorkOK, Full, Mounting, MountOf
    <2> QED BY <1>0, <1>1, <1>2, <2>1, <2>3, <2>4, QuietUntouched, GotoKeeps
         DEF Fits, Work, StagePc, DeletePc, UnstagePc, PublishPc, UnpublishPc
  <1> QED BY <1>3, <1>4

\* An invocation of NodeUnstageVolume at work.
LEMMA AtUnstageWork ==
  ASSUME HostAssumption, TypeOK, HeldInv, StageInv, NEW c \in Call,
         call[c].pc \in UnstagePc \ {"unstageCheck"}
  PROVE  /\ call[c].op = "unstage" /\ call[c].waiting /\ alive /\ WorkOK(c)
         /\ call[c].vol \in Volume /\ call[c].pc \in Work /\ call[c].pc # "idle"
         /\ staged[call[c].vol] # "no" /\ VolMap[call[c].vol] # "absent"
  <1>1. call[c].op = "unstage" /\ call[c].pc \in Work /\ call[c].pc # "idle"
    BY DEF StageInv, Good, OpAt, Work, UnstagePc
  <1> QED BY <1>1, InFlight DEF WorkOK

\* The staging path carries one mount at most, which UnmountStaging takes away;
\* when it cannot, the volume is left as it was.
LEMMA UnmountKeeps ==
  ASSUME HostAssumption, TypeOK, TypeOK', HeldInv, StageInv, NEW c \in Call,
         UnmountStaging(c) \/ UnmountStagingFails(c)
  PROVE  StageInv'
  <1>0. call[c].pc = "unmountStaging"
    BY DEF UnmountStaging, UnmountStagingFails, At
  <1>1. PICK v \in Volume : /\ v = call[c].vol /\ call[c].op = "unstage" /\ call[c].waiting /\ alive
                            /\ WorkOK(c) /\ staged[v] # "no" /\ VolMap[v] # "absent"
    BY <1>0, AtUnstageWork DEF UnstagePc
  <1>2. Up(v) /\ staging[v] = MountOf(v)
    BY <1>0, <1>1 DEF WorkOK
  <1>3. CASE UnmountStaging(c)
    <2>1. /\ Goto(c, "resolve") /\ staging' = [staging EXCEPT ![v] = <<>>]
          /\ UNCHANGED <<unit, dev, VolMap, alive>>
      BY <1>1, <1>2, <1>3, UnmountAll DEF UnmountStaging
    <2>2. /\ staged' = staged /\ call'[c].pc = "resolve" /\ call'[c].vol = v
          /\ call'[c].op = "unstage"
      BY <1>1, <2>1, GotoFields
    <2>3. staging'[v] = <<>> /\ OthersUntouched(v)
      BY <2>1, <2>2 DEF OthersUntouched, TypeOK, HostTypeOK
    <2>4. WorkOK(c)'
      BY <1>1, <1>2, <2>1, <2>2, <2>3, SameDevices DEF WorkOK, Mounting
    <2> QED BY <1>1, <2>1, <2>3, <2>4, GotoKeeps
         DEF Fits, Work, StagePc, DeletePc, UnstagePc, PublishPc, UnpublishPc
  <1>4. CASE UnmountStagingFails(c)
    <2>1. Return(c, FALSE) /\ UNCHANGED <<unit, dev, staging, VolMap, alive>>
      BY <1>4 DEF UnmountStagingFails, Quiet, hostVars
    <2>2. staged'[v] = "maybe" /\ \A w \in Volume : w # v => staged'[w] = staged[w]
      <3>1. staged' = [staged EXCEPT ![v] = "maybe"]
        BY <1>1, <2>1, Told
      <3> QED BY <3>1 DEF TypeOK
    <2>3. RestOK(v)'
      BY <1>1, <1>2, <2>1, <2>2, SameDevices DEF RestOK, Full, MountOf
    <2> QED BY <1>1, <2>1, <2>2, <2>3, QuietUntouched, ReturnKeeps
  <1> QED BY <1>3, <1>4

\* The entry is removed last.
LEMMA EntryKeeps ==
  ASSUME HostAssumption, TypeOK, TypeOK', HeldInv, StageInv, NEW c \in Call,
         CleanupStaging(c) \/ DeleteEntry(c)
  PROVE  StageInv'
  <1>0. call[c].pc \in {"cleanupStaging", "delete"}
    BY DEF CleanupStaging, DeleteEntry, At
  <1>1. PICK v \in Volume : /\ v = call[c].vol /\ call[c].op = "unstage" /\ call[c].waiting /\ alive
                            /\ WorkOK(c) /\ staged[v] # "no" /\ VolMap[v] # "absent"
    BY <1>0, AtUnstageWork DEF UnstagePc
  <1>2. Down(v) /\ staging[v] = <<>>
    BY <1>0, <1>1 DEF WorkOK
  <1>3. CASE CleanupStaging(c)
    <2>1. /\ Goto(c, "delete") /\ staging' = staging
          /\ UNCHANGED <<unit, dev, VolMap, alive>>
      <3>1. staging' = [staging EXCEPT ![v] = <<>>] \/ staging' = staging
        <4>1. staging[call[c].vol] = <<>>
          BY <1>1, <1>2
        <4> QED BY <1>1, <1>3, <4>1, UnmountAll DEF CleanupStaging
      <3>2. staging' = staging
        <4>1. staging = [w \in Volume |-> staging[w]]
          BY DEF TypeOK, HostTypeOK
        <4> QED BY <1>2, <3>1, <4>1
      <3> QED BY <1>3, <3>2 DEF CleanupStaging
    <2>2. /\ staged' = staged /\ call'[c].pc = "delete" /\ call'[c].vol = v
          /\ call'[c].op = "unstage"
      BY <1>1, <2>1, GotoFields
    <2>3. WorkOK(c)'
      BY <1>1, <1>2, <2>1, <2>2, SameDevices DEF WorkOK, Mounting
    <2> QED BY <1>1, <2>1, <2>2, <2>3, QuietUntouched, GotoKeeps
         DEF Fits, Work, StagePc, DeletePc, UnstagePc, PublishPc, UnpublishPc
  <1>4. CASE DeleteEntry(c)
    <2>1. /\ Return(c, TRUE) /\ VolMap' = [VolMap EXCEPT ![v] = "absent"]
          /\ UNCHANGED <<unit, dev, staging, alive>>
      BY <1>1, <1>4 DEF DeleteEntry, hostVars
    <2>2. staged' = [staged EXCEPT ![v] = "no"]
      BY <1>1, <2>1, Told
    <2>3. VolMap'[v] = "absent" /\ staged'[v] = "no" /\ OthersUntouched(v)
      BY <2>1, <2>2 DEF OthersUntouched, TypeOK
    <2>4. RestOK(v)'
      BY <1>2, <2>1, <2>3, SameDevices DEF RestOK, Clean
    <2> QED BY <1>1, <2>1, <2>3, <2>4, ReturnKeeps
  <1> QED BY <1>3, <1>4

(***************************************************************************)
(* NodePublishVolume and NodeUnpublishVolume concern target paths only.    *)
(***************************************************************************)
LEMMA TargetStepKeeps ==
  ASSUME HostAssumption, TypeOK, TypeOK', HeldInv, StageInv, NEW c \in Call,
         NodePublishVolume(c) \/ NodeUnpublishVolume(c)
  PROVE  StageInv'
  <1>0. call[c].pc \in PublishPc \cup UnpublishPc
    BY DEF NodePublishVolume, PublishCheck, BindCheck, BindOk, BindFails, RecordTarget, NodeUnpublishVolume,
           UnpublishCheck, UnmountTarget, UnmountTargetFails, RemoveTarget, At, PublishPc, UnpublishPc
  <1>1. call[c].pc \notin Work /\ call[c].pc # "idle" /\ call[c].op \in OnTarget
    BY <1>0 DEF PublishPc, UnpublishPc, Work, StagePc, DeletePc, UnstagePc, StageInv, Good, OpAt
  <1>2. PICK v \in Volume : v = call[c].vol /\ RestOK(v) /\ alive
    BY <1>1, InFlight
  <1>3. UNCHANGED <<unit, dev, staging, VolMap, alive>>
    BY DEF NodePublishVolume, PublishCheck, BindCheck, BindOk, BindFails, RecordTarget, NodeUnpublishVolume,
           UnpublishCheck, UnmountTarget, UnmountTargetFails, RemoveTarget, Quiet, hostVars, mounts
  <1>4. (\E ok : Return(c, ok)) \/ (\E pc \in PublishPc \cup UnpublishPc : Goto(c, pc)) \/ UnpublishCheck(c)
    BY DEF NodePublishVolume, PublishCheck, BindCheck, BindOk, BindFails, RecordTarget, NodeUnpublishVolume,
           UnmountTarget, UnmountTargetFails, RemoveTarget, PublishPc, UnpublishPc
  <1>5. staged' = staged
    BY <1>1, <1>4 DEF Return, Goto, UnpublishCheck, kubeletVars, OnTarget, OnVolume
  <1>6. RestOK(v)' /\ OthersUntouched(v)
    BY <1>2, <1>3, <1>5, SameDevices, QuietUntouched DEF RestOK, Clean, Full, MountOf
  <1>7. CASE \E ok : Return(c, ok)
    BY <1>2, <1>3, <1>6, <1>7, ReturnKeeps
  <1>8. CASE \E pc \in PublishPc \cup UnpublishPc : Goto(c, pc)
    <2>1. PICK pc \in PublishPc \cup UnpublishPc : Goto(c, pc)
      BY <1>8
    <2>2. pc \notin Work /\ Fits(pc, call[c].op)
      BY <1>1 DEF Fits, PublishPc, UnpublishPc, Work, StagePc, DeletePc, UnstagePc
    <2> QED BY <1>2, <1>3, <1>6, <2>1, <2>2, GotoKeeps
  <1>9. CASE UnpublishCheck(c)
    <2>1. PICK known : call' = [call EXCEPT ![c] = [call[c] EXCEPT !.pc = "unmountTarget", !.known = known]]
      BY <1>9 DEF UnpublishCheck
    <2>2. call[c] \in Invocation
      BY DEF TypeOK
    <2>3. /\ OthersStand(c) /\ call'[c].vol = v
          /\ call'[c].pc = "unmountTarget" /\ call'[c].op = call[c].op
      BY <1>2, <2>1, <2>2 DEF OthersStand, TypeOK, Invocation
    <2>4. Good(c)' /\ call'[c].pc \notin Work
      BY <1>1, <1>2, <2>3 DEF Good, OpAt, Work, StagePc, DeletePc, UnstagePc, PublishPc, UnpublishPc
    <2> QED BY <1>2, <1>3, <1>6, <2>3, <2>4, StageFrame
  <1> QED BY <1>4, <1>7, <1>8, <1>9

(***************************************************************************)
(* The kubelet, the host and the plugin process.                           *)
(***************************************************************************)

\* A request changes nothing yet.
LEMMA BeginKeeps ==
  ASSUME HostAssumption, TypeOK, HeldInv, StageInv, NEW c \in Call, NEW op, NEW pc,
         NEW v \in Volume, NEW t, NEW f, Begin(c, op, pc, v, t, f), pc \notin Work, Fits(pc, op)
  PROVE  StageInv'
  <1>1. /\ alive /\ call[c] = Idle
        /\ UNCHANGED <<unit, dev, staging, VolMap, alive, staged>>
    BY DEF Begin, hostVars, kubeletVars
  <1>2. /\ OthersStand(c)
        /\ call'[c].pc = pc /\ call'[c].op = op /\ call'[c].vol = v
    BY DEF Begin, Idle, OthersStand, TypeOK
  <1>3. Good(c)'
    BY <1>2 DEF Good, OpAt, Fits
  <1>4. ASSUME NEW o \in Call, o # c PROVE Good(o)'
    <2>1. call'[o] = call[o] /\ Good(o)
      BY <1>2, <1>4 DEF OthersStand, StageInv
    <2> QED BY <1>1, <2>1 DEF Good, OpAt, WorkOK, Up, Down, Empty, Only, MountOf
  <1>5. ASSUME NEW w \in Volume, AtRest(w)' PROVE RestOK(w)'
    <2>1. Idle.pc = "idle" /\ "idle" \notin Work
      BY DEF Idle, Work, StagePc, DeletePc, UnstagePc
    <2>2. AtRest(w)
      BY <1>1, <1>2, <1>5, <2>1 DEF AtRest, OthersStand
    <2>3. RestOK(w)
      BY <2>2 DEF StageInv
    <2> QED BY <1>1, <2>3, SameDevices DEF RestOK, Clean, Full, MountOf
  <1> QED BY <1>1, <1>3, <1>4, <1>5 DEF StageInv

\* The kubelet asks for an operation on a volume at rest.
LEMMA KubeletKeeps ==
  ASSUME HostAssumption, TypeOK, HeldInv, StageInv, "clientTimeout" \notin Faults,
         NEW c \in Call, Kubelet(c)
  PROVE  StageInv'
  <1>1. ASSUME NEW op, NEW pc, Fits(pc, op), pc \notin Work,
               NEW v \in Volume, \E t, f : Begin(c, op, pc, v, t, f)
        PROVE  StageInv'
    BY <1>1, BeginKeeps
  <1>2. /\ Fits("stageCheck", "stage") /\ "stageCheck" \notin Work
        /\ Fits("unstageCheck", "unstage") /\ "unstageCheck" \notin Work
        /\ Fits("publishCheck", "publish") /\ "publishCheck" \notin Work
        /\ Fits("unpublishCheck", "unpublish") /\ "unpublishCheck" \notin Work
    BY DEF Fits, Work, StagePc, DeletePc, UnstagePc, PublishPc, UnpublishPc, OnTarget
  <1>3. ASSUME NEW v \in Volume, CallStage(c, v) PROVE StageInv'
    BY <1>1, <1>2, <1>3 DEF CallStage
  <1>4. ASSUME NEW v \in Volume, CallUnstage(c, v) PROVE StageInv'
    BY <1>1, <1>2, <1>4 DEF CallUnstage
  <1>5. ASSUME NEW v \in Volume, NEW t \in Target, CallPublish(c, v, t) PROVE StageInv'
    BY <1>1, <1>2, <1>5 DEF CallPublish
  <1>6. ASSUME NEW v \in Volume, NEW t \in Target, CallUnpublish(c, v, t) PROVE StageInv'
    BY <1>1, <1>2, <1>6 DEF CallUnpublish
  <1>7. ~Abandon(c)
    BY DEF Abandon, Can
  <1> QED BY <1>3, <1>4, <1>5, <1>6, <1>7 DEF Kubelet

\* Units neither fail nor wait for a restart, and a unit that runs without its
\* device is one that an invocation is waiting for.
LEMMA UnitsRun ==
  ASSUME HostAssumption, TypeOK, HeldInv, StageInv, NEW v \in Volume
  PROVE  /\ unit[v] \in {"none", "running"}
         /\ unit[v] = "running" /\ ~Live(v) =>
              Empty(v) /\ \E c \in Call : call[c].vol = v /\ call[c].pc = "waitLink"
  <1>0. Up(v) => Live(v) /\ unit[v] = "running"
    BY DEF Up, Only, Live, DevsOf
  <1>1. CASE AtRest(v)
    BY <1>0, <1>1 DEF StageInv, RestOK, Clean, Full, Down
  <1>2. CASE ~AtRest(v)
    <2>1. PICK c \in Call : call[c].vol = v /\ call[c].pc \in Work
      BY <1>2 DEF AtRest
    <2>2. WorkOK(c)
      BY <2>1 DEF StageInv, Good
    <2>3. \/ Up(v) \/ Down(v)
          \/ call[c].pc = "waitLink" /\ unit[v] = "running" /\ (Empty(v) \/ Up(v))
          \/ unit[v] = "none"
      BY <2>1, <2>2 DEF WorkOK, Work, StagePc, DeletePc, UnstagePc, Mounting
    <2> QED BY <1>0, <2>1, <2>3 DEF Down
  <1> QED BY <1>1, <1>2

\* All that the host does by itself is to bring up the device of a volume that
\* a stage is waiting for.
LEMMA HostStep ==
  ASSUME HostAssumption, TypeOK, HeldInv, StageInv, Faults \subseteq Tolerated, Host
  PROVE  \E v \in Volume, c \in Call :
           /\ call[c].vol = v /\ call[c].pc = "waitLink" /\ unit[v] = "running"
           /\ UNCHANGED <<unit, staging, VolMap, alive, staged, call>>
           /\ Up(v)' /\ OthersUntouched(v)
  <1>1. PICK v \in Volume :
          DaemonUp(v) \/ DaemonCrash(v) \/ Respawn(v) \/ StartLimit(v) \/ Collect(v)
    BY DEF Host, HostNext
  <1>2. DaemonUp(v)
    BY <1>1, UnitsRun DEF DaemonCrash, Respawn, StartLimit, Collect, Can, Tolerated
  <1>3. unit[v] = "running" /\ ~Live(v)
    BY <1>2 DEF DaemonUp
  <1>4. PICK c \in Call : call[c].vol = v /\ call[c].pc = "waitLink"
    BY <1>3, UnitsRun
  <1>5. Empty(v)
    BY <1>3, UnitsRun
  <1>6. PICK d \in DevId : dev[d] = FreeDev /\ dev' = [dev EXCEPT ![d] = [vol |-> v, state |-> "live"]]
    <2>1. ~Quiesced(v)
      BY <1>5 DEF Empty, Quiesced, DevsOf
    <2> QED BY <1>2, <2>1 DEF DaemonUp, FreeIds
  <1>7. UNCHANGED <<unit, staging, VolMap, alive, staged, call>>
    BY <1>2 DEF Host, DaemonUp, mounts, pluginVars, kubeletVars
  <1>8. \A e \in DevId : dev'[e] = IF e = d THEN [vol |-> v, state |-> "live"] ELSE dev[e]
    BY <1>6 DEF TypeOK, HostTypeOK
  <1>9. Up(v)'
    BY <1>3, <1>5, <1>6, <1>7, <1>8 DEF Up, Only, Empty
  <1>10. OthersUntouched(v)
    BY <1>6, <1>7, <1>8 DEF OthersUntouched, FreeDev
  <1> QED BY <1>3, <1>4, <1>7, <1>9, <1>10

\* What the host does by itself keeps the invariant.
LEMMA HostKeeps ==
  ASSUME HostAssumption, TypeOK, TypeOK', HeldInv, StageInv, Faults \subseteq Tolerated, Host
  PROVE  StageInv'
  <1>1. PICK v \in Volume, c \in Call :
           /\ call[c].vol = v /\ call[c].pc = "waitLink" /\ unit[v] = "running"
           /\ UNCHANGED <<unit, staging, VolMap, alive, staged, call>>
           /\ Up(v)' /\ OthersUntouched(v)
    BY HostStep
  <1>2. OpAt(c) /\ WorkOK(c)
    BY <1>1 DEF StageInv, Good, Work, StagePc
  <1>3. WorkOK(c)'
    BY <1>1, <1>2 DEF WorkOK, Mounting
  <1>4. Good(c)' /\ call'[c].pc \in Work /\ OthersStand(c)
    BY <1>1, <1>2, <1>3 DEF Good, OpAt, Work, StagePc, OthersStand
  <1> QED BY <1>1, <1>4, StageFrame

\* Every volume that is there has its link when the map is seeded from the links.
LEMMA SeedKeeps ==
  ASSUME HostAssumption, TypeOK, StageInv, Faults \subseteq Tolerated, UpdateNodeVolumeMap
  PROVE  StageInv'
  <1>1. /\ alive' /\ VolMap' = [v \in Volume |-> SeededEntry(v)]
        /\ UNCHANGED <<unit, dev, staging, staged, call>>
        /\ \A c \in Call : call[c] = Idle
    BY DEF UpdateNodeVolumeMap, Can, Tolerated, hostVars, kubeletVars, StageInv
  <1>2. Idle.pc = "idle" /\ "idle" \notin Work
    BY DEF Idle, Work, StagePc, DeletePc, UnstagePc
  <1>3. \A c \in Call : Good(c)'
    BY <1>1, <1>2 DEF StageInv, Good, OpAt
  <1>4. ASSUME NEW v \in Volume PROVE RestOK(v)'
    <2>1. RestOK(v)
      BY <1>1, <1>2 DEF StageInv, AtRest
    <2>2. VolMap'[v] = IF Link(v) # {} THEN "seeded" ELSE "absent"
      BY <1>1 DEF SeededEntry
    <2>3. (Down(v) => Link(v) = {}) /\ (Up(v) => Link(v) # {})
      BY DEF Down, Empty, Up, Only, Link, DevsOf
    <2> QED BY <1>1, <2>1, <2>2, <2>3, SameDevices DEF RestOK, Clean, Full, MountOf
  <1> QED BY <1>1, <1>3, <1>4 DEF StageInv

\* A process that ends while no request is in flight takes only its map along.
LEMMA CrashKeeps ==
  ASSUME HostAssumption, TypeOK, StageInv, \A c \in Call : call[c] = Idle, PluginCrash
  PROVE  StageInv'
  <1>1. Idle.pc = "idle" /\ ~Idle.waiting /\ "idle" \notin Work
    BY DEF Idle, Work, StagePc, DeletePc, UnstagePc
  <1>2. /\ ~alive' /\ VolMap' = [v \in Volume |-> "absent"]
        /\ UNCHANGED <<unit, dev, staging>> /\ \A c \in Call : call'[c] = Idle
    BY DEF PluginCrash, DaemonsSurvive, hostVars
  <1>3. \A v \in Volume : staged'[v] = staged[v]
    BY <1>1 DEF PluginCrash, Unanswered, TypeOK
  <1>4. \A c \in Call : Good(c)'
    BY <1>1, <1>2 DEF StageInv, Good, OpAt
  <1>5. ASSUME NEW v \in Volume PROVE RestOK(v)'
    <2>1. RestOK(v)
      BY <1>1 DEF StageInv, AtRest
    <2> QED BY <1>2, <1>3, <2>1, SameDevices DEF RestOK, Clean, Full, MountOf
  <1> QED BY <1>2, <1>4, <1>5 DEF StageInv

\* Nothing is staged at first.
LEMMA InitStage ==
  ASSUME HostAssumption, Init
  PROVE  StageInv
  <1>1. Idle.pc = "idle" /\ "idle" \notin Work
    BY DEF Idle, Work, StagePc, DeletePc, UnstagePc
  <1>2. \A c \in Call : Good(c)
    <2>1. "idle" \notin StagePc \cup UnstagePc \cup DeletePc \cup PublishPc \cup UnpublishPc
      BY DEF StagePc, UnstagePc, DeletePc, PublishPc, UnpublishPc
    <2> QED BY <1>1, <2>1 DEF Init, Good, OpAt
  <1>3. \A v \in Volume : RestOK(v)
    BY DEF Init, HostInit, RestOK, Clean, Down, Empty, FreeDev, HostAssumption
  <1> QED BY <1>2, <1>3 DEF StageInv, Init

\* No step breaks the invariant unless the process ends in the middle of one.
LEMMA StageStep ==
  ASSUME HostAssumption, EnoughIds, Faults \subseteq Tolerated,
         TypeOK, TypeOK', HeldInv, StageInv, [Next]_vars,
         alive /\ ~alive' => \A c \in Call : call[c] = Idle
  PROVE  StageInv'
  <1>1. ASSUME NEW c \in Call, Kubelet(c) PROVE StageInv'
    BY <1>1, KubeletKeeps DEF Tolerated
  <1>2. ASSUME NEW c \in Call, NodeStageVolume(c) PROVE StageInv'
    BY <1>2, StageCheckKeeps, StartKeeps, WaitKeeps, FormatKeeps, MountKeeps DEF NodeStageVolume
  <1>3. ASSUME NEW c \in Call, NodeUnstageVolume(c) PROVE StageInv'
    BY <1>3, UnstageCheckKeeps, UnmountKeeps, EntryKeeps DEF NodeUnstageVolume
  <1>4. ASSUME NEW c \in Call, Handler(c) PROVE StageInv'
    BY <1>2, <1>3, <1>4, DeleteKeeps, TargetStepKeeps DEF Handler
  <1>5. CASE PluginCrash
    <2>1. alive /\ ~alive'
      BY <1>5 DEF PluginCrash
    <2> QED BY <1>5, <2>1, CrashKeeps
  <1>6. CASE UNCHANGED vars
    BY <1>6 DEF vars, hostVars, pluginVars, kubeletVars, StageInv, Good, OpAt, WorkOK, AtRest, RestOK,
                Clean, Full, Up, Down, Empty, Only, MountOf
  <1> QED BY <1>1, <1>4, <1>5, <1>6, HostKeeps, SeedKeeps DEF Next
=============================================================================
