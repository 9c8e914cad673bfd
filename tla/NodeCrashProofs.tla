---------------------------- MODULE NodeCrashProofs ----------------------------
(***************************************************************************)
(* What TLAPS proves about volumes whose daemon or whose plugin goes away  *)
(* in the middle of the work.  First: daemons that crash and are recovered *)
(* at any time, in a plugin that stays up.  Then: a plugin that is killed  *)
(* at any time, with block volumes whose daemons do not crash once their   *)
(* device is there.                                                        *)
(***************************************************************************)
EXTENDS NodeMountProofs

(***************************************************************************)
(* Crashing daemons.  A device that outlives its daemon keeps its link and *)
(* its mounts, so what the kubelet may rely on is that the link is there,  *)
(* not that the device is live.                                            *)
(***************************************************************************)

\* What may not go wrong: a unit that systemd does not stop, or says did not
\* start, is forgotten; and a crash takes the device of a volume that is staged
\* unless it can be recovered.
Recovering ==
  /\ \A fault \in {"stop", "startJob", "pluginCrash", "clientTimeout"} : fault \notin Faults
  /\ Can("daemonCrash") => RecoveryVol = Volume

\* Only a running daemon serves a device, and only a recoverable one leaves it.
DaemonOK(v) ==
  /\ Live(v) => unit[v] = "running"
  /\ DevsOf(v, {"quiesced"}) # {} => Recoverable(v)

\* How far the volume is that an invocation works on ...
Labours(c) ==
  LET v == call[c].vol
      pc == call[c].pc
  IN
  /\ IF call[c].op = "stage" THEN staged[v] = "no" /\ VolMap[v] = "absent"
                             ELSE staged[v] # "no" /\ VolMap[v] # "absent"
  /\ staging[v] = IF pc \in {"insert", "unmountStaging"} THEN MountOf(v) ELSE <<>>
  /\ pc \in {"startUnit", "ublkDel", "cleanupStaging", "delete"} => unit[v] = "none"
  /\ pc \in Mounting \cup {"insert", "unmountStaging", "resolve", "stopUnit"} => Link(v) # {}
  /\ pc \in Mounting => v \notin BlockVol

\* ... and one that no stage or unstage is at work on.
Rests(v) ==
  IF staged[v] = "no" THEN unit[v] = "none" /\ VolMap[v] = "absent" /\ staging[v] = <<>>
                      ELSE VolMap[v] # "absent" /\ Link(v) # {} /\ staging[v] = MountOf(v)

RecoverInv ==
  /\ alive
  /\ \A v \in Volume : DaemonOK(v)
  /\ \A v \in Volume : AtRest(v) => Rests(v)
  /\ \A c \in Call : call[c].pc \in Work => Labours(c)

\* What the proofs about a step start from.
Crashing == HostAssumption /\ Recovering /\ TypeOK /\ HeldInv /\ MountInv /\ RecoverInv

\* What a step for one volume must do to keep RecoverInv.
LEMMA RecoverFrame ==
  ASSUME Crashing, MountInv', NEW c \in Call, NEW v \in Volume, v = call[c].vol,
         OthersStand(c), OthersUntouched(v), alive', call'[c].vol \in {v, NoVol}, DaemonOK(v)',
         IF call'[c].pc \in Work THEN Labours(c)' ELSE Rests(v)'
  PROVE  RecoverInv'
  <1>1. alive' = alive /\ HostAssumption
    BY DEF Crashing, RecoverInv
  <1>2. \A o \in Call : o # c => call[o].vol # v /\ call'[o] = call[o]
    BY DEF Crashing, HeldInv, OneCallPerVolume, HostAssumption, OthersStand
  <1>3. ASSUME NEW w \in Volume, w # v
        PROVE  /\ unit'[w] = unit[w] /\ staging'[w] = staging[w] /\ VolMap'[w] = VolMap[w]
               /\ staged'[w] = staged[w]
               /\ Live(w)' = Live(w) /\ Link(w)' = Link(w)
               /\ DevsOf(w, {"quiesced"})' = DevsOf(w, {"quiesced"})
    BY <1>1, <1>3, OtherVolume DEF Live, Link
  <1>4. ASSUME NEW w \in Volume PROVE DaemonOK(w)'
    <2>1. CASE w # v
      <3>1. DaemonOK(w)
        BY DEF Crashing, RecoverInv
      <3> QED BY <1>3, <2>1, <3>1 DEF DaemonOK, Recoverable
    <2>2. CASE w = v
      BY <2>2 DEF DaemonOK, Live, DevsOf, Recoverable
    <2> QED BY <2>1, <2>2
  <1>5. ASSUME NEW o \in Call, o # c, call'[o].pc \in Work PROVE Labours(o)'
    <2>1. call[o].pc \in Work /\ call[o].pc # "idle" /\ Labours(o) /\ call'[o] = call[o]
      BY <1>2, <1>5 DEF Crashing, RecoverInv, Work, StagePc, DeletePc, UnstagePc
    <2>2. PICK w \in Volume : w = call[o].vol /\ w # v
      BY <1>2, <1>5, <2>1, Alone DEF Crashing
    <2> QED BY <1>3, <2>1, <2>2 DEF Labours, MountOf
  <1>6. ASSUME NEW w \in Volume, AtRest(w)' PROVE Rests(w)'
    <2>1. CASE w # v
      <3>1. call[c].vol # w
        BY <2>1
      <3>2. AtRest(w)
        BY <1>2, <1>6, <3>1 DEF AtRest
      <3>3. Rests(w)
        BY <3>2 DEF Crashing, RecoverInv
      <3> QED BY <1>3, <2>1, <3>3 DEF Rests, MountOf
    <2>2. CASE w = v
      <3>1. call'[c].pc \in Work => call'[c].vol = v
        <4>1. call'[c].pc \in Work => call'[c].vol \in Volume
          BY DEF MountInv, OnPathOK, OpAt, Work, StagePc, DeletePc, UnstagePc
        <4> QED BY <1>1, <4>1 DEF HostAssumption
      <3>2. call'[c].pc \notin Work
        BY <1>6, <2>2, <3>1 DEF AtRest
      <3> QED BY <2>2, <3>2 DEF Rests, Link, DevsOf, MountOf
    <2> QED BY <2>1, <2>2
  <1> QED BY <1>4, <1>5, <1>6 DEF RecoverInv

\* An invocation at work is alone with a volume of which it knows how far it is.
LEMMA Labouring ==
  ASSUME Crashing, NEW c \in Call, call[c].pc \in Work
  PROVE  /\ call[c].vol \in Volume /\ call[c].waiting /\ Labours(c) /\ OpAt(c) /\ DaemonOK(call[c].vol)
         /\ call[c].op \in {"stage", "unstage"}
         /\ call[c].pc \in StagePc => call[c].op = "stage"
         /\ call[c].pc \in UnstagePc => call[c].op = "unstage"
  <1>1. call[c].pc # "idle" /\ Labours(c) /\ OpAt(c)
    BY DEF Crashing, RecoverInv, MountInv, OnPathOK, Work, StagePc, DeletePc, UnstagePc
  <1>2. call[c].vol \in Volume /\ call[c].waiting
    BY <1>1, Alone DEF Crashing
  <1>3. DaemonOK(call[c].vol)
    BY <1>2 DEF Crashing, RecoverInv
  <1>4. call[c].op \in {"stage", "unstage"}
    BY <1>1 DEF OpAt, Work
  <1> QED BY <1>1, <1>2, <1>3, <1>4 DEF OpAt

\* An invocation that has not begun to work, or works on target paths only,
\* finds its volume at rest.
LEMMA Resting ==
  ASSUME Crashing, NEW c \in Call, call[c].pc \notin Work, call[c].pc # "idle"
  PROVE  /\ call[c].vol \in Volume /\ call[c].waiting /\ Rests(call[c].vol) /\ OpAt(c)
         /\ DaemonOK(call[c].vol)
  <1>1. call[c].vol \in Volume /\ call[c].waiting /\ \A o \in Call : o # c => call[o].vol # call[c].vol
    BY Alone DEF Crashing
  <1>2. AtRest(call[c].vol)
    BY <1>1 DEF AtRest
  <1> QED BY <1>1, <1>2 DEF Crashing, RecoverInv, MountInv, OnPathOK

\* A step that leaves units and devices alone leaves their state alone.
LEMMA SameDaemons ==
  ASSUME UNCHANGED <<unit, dev>>, NEW v
  PROVE  Link(v)' = Link(v) /\ Live(v)' = Live(v) /\ (DaemonOK(v)' <=> DaemonOK(v))
  <1>1. \A states : DevsOf(v, states)' = DevsOf(v, states)
    BY DEF DevsOf
  <1> QED BY <1>1 DEF Link, Live, DaemonOK, Recoverable

\* An answer is given by an invocation that is gone then.
LEMMA Answers ==
  ASSUME TypeOK, NEW c \in Call, NEW ok, Return(c, ok)
  PROVE  call'[c].pc = "idle" /\ call'[c].pc \notin Work
  BY IdleAt DEF Return, TypeOK, Work, StagePc, DeletePc, UnstagePc

\* What a handler must do to keep RecoverInv.
LEMMA RecoverBy ==
  ASSUME Crashing, MountInv', NEW c \in Call, Handler(c), NEW v \in Volume, v = call[c].vol, DaemonOK(v)',
         IF call'[c].pc \in Work THEN Labours(c)' ELSE Rests(v)'
  PROVE  RecoverInv'
  <1>1. OthersUntouched(v) /\ OthersStand(c) /\ call'[c].vol \in {v, NoVol}
    BY HandlerLocal DEF Crashing
  <1>2. alive'
    BY HandlerRuns DEF Crashing, RecoverInv
  <1> QED BY <1>1, <1>2, RecoverFrame

(***************************************************************************)
(* NodeStageVolume.                                                        *)
(***************************************************************************)

\* It begins when there is no entry, which then means that there is nothing.
LEMMA StageCheckRecovers ==
  ASSUME Crashing, MountInv', NEW c \in Call, StageCheck(c)
  PROVE  RecoverInv'
  <1>1. /\ call[c].pc = "stageCheck" /\ call[c].pc \notin Work /\ call[c].pc # "idle" /\ Handler(c)
        /\ UNCHANGED <<unit, dev, staging, VolMap>>
    BY DEF StageCheck, At, Work, StagePc, DeletePc, UnstagePc, Handler, NodeStageVolume, Quiet, hostVars
  <1>2. PICK v \in Volume : v = call[c].vol /\ call[c].waiting /\ Rests(v) /\ OpAt(c) /\ DaemonOK(v)
    BY <1>1, Resting
  <1>3. call[c].op = "stage" /\ TypeOK
    BY <1>1, <1>2 DEF OpAt, StagePc, Crashing
  <1>4. Link(v)' = Link(v) /\ DaemonOK(v)'
    BY <1>1, <1>2, SameDaemons
  <1>5. CASE VolMap[v] # "absent"
    <2>1. Return(c, TRUE)
      BY <1>2, <1>5 DEF StageCheck, AlreadyStaged
    <2>2. staged' = [staged EXCEPT ![v] = "yes"]
      BY <1>2, <1>3, <2>1, Told
    <2>3. staged'[v] = "yes"
      BY <1>3, <2>2 DEF TypeOK
    <2>4. Rests(v)'
      BY <1>1, <1>2, <1>4, <1>5, <2>3 DEF Rests, MountOf
    <2> QED BY <1>1, <1>2, <1>3, <1>4, <2>1, <2>4, Answers, RecoverBy
  <1>6. CASE VolMap[v] = "absent"
    <2>1. Goto(c, "startUnit")
      BY <1>2, <1>6 DEF StageCheck, AlreadyStaged
    <2>2. staged' = staged /\ call'[c].pc = "startUnit" /\ call'[c].vol = v /\ call'[c].op = "stage"
      BY <1>2, <1>3, <2>1, GotoFields
    <2>3. Labours(c)'
      BY <1>1, <1>2, <1>6, <2>2 DEF Labours, Rests, Mounting
    <2>4. call'[c].pc \in Work
      BY <2>2 DEF Work, StagePc
    <2> QED BY <1>1, <1>2, <1>4, <2>3, <2>4, RecoverBy
  <1> QED BY <1>5, <1>6

\* The unit is started, or refused with nothing started.
LEMMA StartRecovers ==
  ASSUME Crashing, MountInv', NEW c \in Call, StartOk(c) \/ StartRefusedOrFailed(c) \/ StartReportedFailed(c)
  PROVE  RecoverInv'
  <1>0. call[c].pc = "startUnit" /\ call[c].pc \in Work /\ Handler(c) /\ TypeOK
    BY DEF StartOk, StartRefusedOrFailed, StartReportedFailed, At, Work, StagePc, Handler, NodeStageVolume, Crashing
  <1>1. ~StartReportedFailed(c)
    BY DEF StartReportedFailed, Can, Crashing, Recovering
  <1>2. PICK v \in Volume : /\ v = call[c].vol /\ call[c].op = "stage" /\ call[c].waiting
                            /\ Labours(c) /\ DaemonOK(v)
    BY <1>0, Labouring DEF StagePc
  <1>3. staged[v] = "no" /\ VolMap[v] = "absent" /\ unit[v] = "none" /\ staging[v] = <<>>
    BY <1>0, <1>2 DEF Labours
  <1>4. CASE StartOk(c)
    <2>1. /\ Goto(c, "waitLink") /\ unit' = [unit EXCEPT ![v] = "running"]
          /\ UNCHANGED <<dev, staging, VolMap>>
      BY <1>2, <1>4 DEF StartOk, StartUnit, mounts
    <2>2. staged' = staged /\ call'[c].pc = "waitLink" /\ call'[c].vol = v /\ call'[c].op = "stage"
      BY <1>0, <1>2, <2>1, GotoFields
    <2>3. unit'[v] = "running"
      BY <1>0, <2>1 DEF TypeOK, HostTypeOK
    <2>4. DaemonOK(v)'
      BY <1>2, <2>1, <2>3 DEF DaemonOK, DevsOf, Recoverable
    <2>5. Labours(c)' /\ call'[c].pc \in Work
      BY <1>3, <2>1, <2>2 DEF Labours, Mounting, Work, StagePc
    <2> QED BY <1>0, <1>2, <2>4, <2>5, RecoverBy
  <1>5. CASE StartRefusedOrFailed(c)
    <2>1. Return(c, FALSE) /\ UNCHANGED <<unit, dev, staging, VolMap>>
      BY <1>5 DEF StartRefusedOrFailed, Quiet, hostVars
    <2>2. staged' = staged
      BY <1>0, <1>2, <1>3, <2>1, Told
    <2>3. Rests(v)' /\ DaemonOK(v)'
      BY <1>2, <1>3, <2>1, <2>2, SameDaemons DEF Rests
    <2> QED BY <1>0, <1>2, <2>1, <2>3, Answers, RecoverBy
  <1> QED BY <1>1, <1>4, <1>5

\* A unit that did not bring its device up in time is stopped again.
LEMMA WaitRecovers ==
  ASSUME Crashing, MountInv', NEW c \in Call, LinkSeen(c) \/ LinkTimeout(c)
  PROVE  RecoverInv'
  <1>0. /\ call[c].pc = "waitLink" /\ call[c].pc \in Work /\ Handler(c) /\ TypeOK
        /\ UNCHANGED <<unit, dev, staging, VolMap>>
    BY DEF LinkSeen, LinkTimeout, At, Work, StagePc, Handler, NodeStageVolume, Crashing, Quiet, hostVars
  <1>2. PICK v \in Volume : v = call[c].vol /\ call[c].op = "stage" /\ Labours(c) /\ DaemonOK(v)
    BY <1>0, Labouring DEF StagePc
  <1>3. staged[v] = "no" /\ VolMap[v] = "absent" /\ staging[v] = <<>>
    BY <1>0, <1>2 DEF Labours
  <1>4. PICK pc \in {"insert", "validate", "stopAfterWait"} :
          /\ Goto(c, pc)
          /\ pc # "stopAfterWait" => Link(v) # {}
          /\ pc = "insert" => v \in BlockVol
          /\ pc = "validate" => v \notin BlockVol
    BY <1>2 DEF LinkSeen, LinkTimeout
  <1>5. staged' = staged /\ call'[c].pc = pc /\ call'[c].vol = v /\ call'[c].op = "stage"
    BY <1>0, <1>2, <1>4, GotoFields
  <1>6. Link(v)' = Link(v) /\ DaemonOK(v)'
    BY <1>0, <1>2, SameDaemons
  <1>7. Labours(c)' /\ call'[c].pc \in Work
    BY <1>0, <1>3, <1>4, <1>5, <1>6 DEF Labours, Mounting, MountOf, Work, StagePc
  <1> QED BY <1>0, <1>2, <1>6, <1>7, RecoverBy

\* Stopping the unit leaves what DaemonOK says, and no staging mount is lost
\* that is not there.
LEMMA StopDaemon ==
  ASSUME TypeOK, NEW v \in Volume, StopUnit(v), DaemonOK(v)
  PROVE  DaemonOK(v)' /\ unit'[v] = "none" /\ (staging[v] = <<>> => staging' = staging)
  <1>1. PICK left \in LeftByStop(v) : DetachDaemon(v, left)
    BY DEF StopUnit
  <1>2. left \in {"quiesced", "dead"} /\ (left = "quiesced" => Recoverable(v))
    BY DEF LeftByStop
  <1>3. staging[v] = <<>> => staging' = staging
    BY <1>1, LoseNothing DEF DetachDaemon, mounts
  <1>4. unit'[v] = "none"
    BY DEF StopUnit, TypeOK, HostTypeOK
  <1>5. \A d \in DevId : dev'[d] = IF dev[d].vol = v /\ dev[d].state = "live"
                                   THEN [vol |-> v, state |-> left] ELSE dev[d]
    BY <1>1 DEF DetachDaemon
  <1>6. ~Live(v)'
    BY <1>2, <1>5 DEF Live, DevsOf
  <1>7. DevsOf(v, {"quiesced"})' # {} => Recoverable(v)
    BY <1>2, <1>5 DEF DaemonOK, DevsOf
  <1> QED BY <1>3, <1>4, <1>6, <1>7 DEF DaemonOK, Recoverable

\* ... so that the stage fails with nothing left.
LEMMA StopAfterWaitRecovers ==
  ASSUME Crashing, MountInv', NEW c \in Call, StopAfterWait(c)
  PROVE  RecoverInv'
  <1>0. call[c].pc = "stopAfterWait" /\ call[c].pc \in Work /\ Handler(c) /\ TypeOK
    BY DEF StopAfterWait, At, Work, StagePc, Handler, NodeStageVolume, Crashing
  <1>1. PICK v \in Volume : /\ v = call[c].vol /\ call[c].op = "stage" /\ call[c].waiting
                            /\ Labours(c) /\ DaemonOK(v)
    BY <1>0, Labouring DEF StagePc
  <1>2. staged[v] = "no" /\ VolMap[v] = "absent" /\ staging[v] = <<>>
    BY <1>0, <1>1 DEF Labours
  <1>3. Return(c, FALSE) /\ StopUnit(v) /\ VolMap' = VolMap
    BY <1>1 DEF StopAfterWait, Can, Crashing, Recovering
  <1>4. staged' = staged
    BY <1>0, <1>1, <1>2, <1>3, Told
  <1>5. DaemonOK(v)' /\ unit'[v] = "none" /\ staging' = staging
    BY <1>0, <1>1, <1>2, <1>3, StopDaemon
  <1>6. Rests(v)'
    BY <1>2, <1>3, <1>4, <1>5 DEF Rests
  <1> QED BY <1>0, <1>1, <1>3, <1>5, <1>6, Answers, RecoverBy

\* FormatAndMountDevice up to the mount, with the link there all the time.
LEMMA FormatRecovers ==
  ASSUME Crashing, MountInv', NEW c \in Call,
         Validate(c) \/ Probe(c) \/ MkfsOk(c) \/ MkfsFails(c) \/ MountCheck(c) \/ StageMountFails(c)
  PROVE  RecoverInv'
  <1>0. /\ call[c].pc \in Mounting /\ call[c].pc \in Work /\ Handler(c) /\ TypeOK
        /\ UNCHANGED <<unit, dev, staging, VolMap>>
    BY DEF Validate, Probe, MkfsOk, MkfsFails, MountCheck, StageMountFails, At, Mounting, Work, StagePc,
       Handler, NodeStageVolume, Crashing, Quiet, hostVars, mounts
  <1>1. PICK v \in Volume : v = call[c].vol /\ call[c].op = "stage" /\ Labours(c) /\ DaemonOK(v)
    BY <1>0, Labouring DEF StagePc, Mounting
  <1>2. staged[v] = "no" /\ VolMap[v] = "absent" /\ staging[v] = <<>> /\ Link(v) # {} /\ v \notin BlockVol
    BY <1>0, <1>1 DEF Labours, Mounting
  <1>3. /\ staged' = staged /\ call'[c].vol = v /\ call'[c].op = "stage"
        /\ call'[c].pc \in Mounting \cup {"resolve"}
    <2>1. ASSUME NEW pc \in Mounting \cup {"resolve"}, Goto(c, pc)
          PROVE  /\ staged' = staged /\ call'[c].vol = v /\ call'[c].op = "stage"
                 /\ call'[c].pc \in Mounting \cup {"resolve"}
      BY <1>0, <1>1, <2>1, GotoFields
    <2>2. CASE Probe(c) /\ ~Goto(c, "resolve")
      <3>1. call[c] \in Invocation
        BY <1>0 DEF TypeOK
      <3>2. /\ UNCHANGED kubeletVars
            /\ \E existing \in FsType \cup {""} :
                 call' = [call EXCEPT ![c] = IF NeedsFormatting(existing, call[c].fs)
                                             THEN [call[c] EXCEPT !.pc = "mkfs"]
                                             ELSE [call[c] EXCEPT !.pc = "mountCheck", !.fs = existing]]
        BY <1>0, <2>2, ProbeFinds
      <3>3. PICK existing : \/ call'[c] = [call[c] EXCEPT !.pc = "mkfs"]
                            \/ call'[c] = [call[c] EXCEPT !.pc = "mountCheck", !.fs = existing]
        BY <1>0, <3>2 DEF TypeOK
      <3>4. call'[c].vol = call[c].vol /\ call'[c].op = call[c].op /\ call'[c].pc \in {"mkfs", "mountCheck"}
        BY <3>1, <3>3 DEF Invocation
      <3> QED BY <1>1, <3>2, <3>4 DEF Mounting, kubeletVars
    <2>3. CASE ~Probe(c)
      <3>1. staging[call[c].vol] = <<>>
        BY <1>1, <1>2
      <3>2. PICK pc \in Mounting \cup {"resolve"} : Goto(c, pc)
        BY <2>3, <3>1 DEF Validate, MkfsOk, MkfsFails, MountCheck, StageMountFails, Mounting, MountedAt
      <3> QED BY <2>1, <3>2
    <2> QED BY <2>1, <2>2, <2>3
  <1>4. Link(v)' = Link(v) /\ DaemonOK(v)'
    BY <1>0, <1>1, SameDaemons
  <1>5. Labours(c)'
    BY <1>0, <1>2, <1>3, <1>4 DEF Labours, Mounting
  <1>6. call'[c].pc \in Work
    BY <1>3 DEF Mounting, Work, StagePc, DeletePc
  <1> QED BY <1>0, <1>1, <1>4, <1>5, <1>6, RecoverBy

\* The file system is mounted, and the volume gets its entry.
LEMMA InsertRecovers ==
  ASSUME Crashing, MountInv', NEW c \in Call, StageMountOk(c) \/ Insert(c)
  PROVE  RecoverInv'
  <1>0. /\ call[c].pc \in {"stageMount", "insert"} /\ call[c].pc \in Work /\ Handler(c) /\ TypeOK
        /\ UNCHANGED <<unit, dev>>
    BY DEF StageMountOk, Insert, At, Work, StagePc, Handler, NodeStageVolume, Crashing, hostVars
  <1>1. PICK v \in Volume : /\ v = call[c].vol /\ call[c].op = "stage" /\ call[c].waiting
                            /\ Labours(c) /\ DaemonOK(v)
    BY <1>0, Labouring DEF StagePc
  <1>2. staged[v] = "no" /\ VolMap[v] = "absent" /\ Link(v) # {}
    BY <1>0, <1>1 DEF Labours, Mounting
  <1>3. Link(v)' = Link(v) /\ DaemonOK(v)'
    BY <1>0, <1>1, SameDaemons
  <1>4. CASE StageMountOk(c)
    <2>1. staging[v] = <<>> /\ v \notin BlockVol
      BY <1>1, <1>4 DEF Labours, Mounting, StageMountOk, At
    <2>2. /\ Goto(c, "insert") /\ staging' = [staging EXCEPT ![v] = <<"live">>]
          /\ VolMap' = VolMap
      BY <1>1, <1>4, <2>1 DEF StageMountOk
    <2>3. staged' = staged /\ call'[c].pc = "insert" /\ call'[c].vol = v /\ call'[c].op = "stage"
      BY <1>0, <1>1, <2>2, GotoFields
    <2>4. staging'[v] = MountOf(v)
      BY <1>0, <2>1, <2>2 DEF MountOf, TypeOK, HostTypeOK
    <2>5. Labours(c)' /\ call'[c].pc \in Work
      BY <1>2, <1>3, <2>2, <2>3, <2>4 DEF Labours, Mounting, MountOf, Work, StagePc
    <2> QED BY <1>0, <1>1, <1>3, <2>5, RecoverBy
  <1>5. CASE Insert(c)
    <2>1. staging[v] = MountOf(v)
      BY <1>1, <1>5 DEF Labours, Insert, At
    <2>2. /\ Return(c, TRUE) /\ VolMap' = [VolMap EXCEPT ![v] = Mode(v)]
          /\ staging' = staging
      BY <1>1, <1>5 DEF Insert, hostVars
    <2>3. staged' = [staged EXCEPT ![v] = "yes"]
      BY <1>0, <1>1, <2>2, Told
    <2>4. VolMap'[v] # "absent" /\ staged'[v] = "yes"
      BY <1>0, <2>2, <2>3 DEF Mode, TypeOK
    <2>5. Rests(v)'
      BY <1>2, <1>3, <2>1, <2>2, <2>4 DEF Rests, MountOf
    <2> QED BY <1>0, <1>1, <1>3, <2>2, <2>5, Answers, RecoverBy
  <1> QED BY <1>4, <1>5

(***************************************************************************)
(* DeleteUblkDevice.  It finds its link, and the unit it stops stays       *)
(* stopped: nobody else starts it while the device is deleted.             *)
(***************************************************************************)

\* Its end, however the deletion went: a stage has nothing left but perhaps the
\* device number, an unstage its entry as well.
LEMMA DeleteEnds ==
  ASSUME Crashing, MountInv', NEW c \in Call, Handler(c), call[c].pc = "ublkDel", AfterDelete(c),
         NEW v \in Volume, v = call[c].vol, unit'[v] = "none", staging' = staging, VolMap' = VolMap,
         DaemonOK(v)'
  PROVE  RecoverInv'
  <1>0. call[c].pc \in Work /\ TypeOK
    BY DEF Work, DeletePc, Crashing
  <1>1. call[c].op \in {"stage", "unstage"} /\ call[c].waiting /\ Labours(c)
    BY <1>0, Labouring
  <1>2. staging[v] = <<>>
    BY <1>1 DEF Labours
  <1>3. CASE call[c].op = "stage"
    <2>1. Return(c, FALSE) /\ staged[v] = "no" /\ VolMap[v] = "absent"
      BY <1>1, <1>3 DEF AfterDelete, Labours
    <2>2. staged' = staged
      BY <1>0, <1>1, <1>3, <2>1, Told
    <2>3. Rests(v)'
      BY <1>2, <2>1, <2>2 DEF Rests
    <2> QED BY <1>0, <2>1, <2>3, Answers, RecoverBy
  <1>4. CASE call[c].op = "unstage"
    <2>1. /\ call' = [call EXCEPT ![c] = [call[c] EXCEPT !.pc = "cleanupStaging", !.dev = NoDev]]
          /\ staged' = staged
      BY <1>4 DEF AfterDelete, kubeletVars
    <2>2. call[c] \in Invocation
      BY <1>0 DEF TypeOK
    <2>3. call'[c].pc = "cleanupStaging" /\ call'[c].vol = v /\ call'[c].op = "unstage"
      BY <1>0, <1>4, <2>1, <2>2 DEF TypeOK, Invocation
    <2>4. staged[v] # "no" /\ VolMap[v] # "absent"
      BY <1>1, <1>4 DEF Labours
    <2>5. Labours(c)' /\ call'[c].pc \in Work
      BY <1>2, <2>1, <2>3, <2>4 DEF Labours, Mounting, Work, UnstagePc
    <2> QED BY <2>5, RecoverBy
  <1> QED BY <1>1, <1>3, <1>4

\* DeleteUblkDevice keeps the invariant.
LEMMA DeleteRecovers ==
  ASSUME Crashing, MountInv', NEW c \in Call, DeleteUblkDevice(c)
  PROVE  RecoverInv'
  <1>0. call[c].pc \in DeletePc /\ call[c].pc \in Work /\ Handler(c) /\ TypeOK
    BY DEF DeleteUblkDevice, Resolve, StopUblkUnit, StopFails, DeleteDevice, DeleteDeviceFails, At, DeletePc,
       Work, Handler, Crashing
  <1>1. PICK v \in Volume : /\ v = call[c].vol /\ call[c].op \in {"stage", "unstage"} /\ call[c].waiting
                            /\ Labours(c) /\ DaemonOK(v)
    BY <1>0, Labouring
  <1>2. staging[v] = <<>>
    BY <1>0, <1>1 DEF Labours, DeletePc
  <1>3. ~StopFails(c)
    BY DEF StopFails, Can, Crashing, Recovering
  <1>4. CASE Resolve(c)
    <2>1. call[c].pc = "resolve"
      BY <1>4 DEF Resolve, At
    <2>2. Link(v) # {}
      BY <1>1, <2>1 DEF Labours
    <2>3. PICK d : call' = [call EXCEPT ![c] = [call[c] EXCEPT !.pc = "stopUnit", !.dev = d]]
      BY <1>1, <1>4, <2>2 DEF Resolve
    <2>4. call[c] \in Invocation /\ UNCHANGED <<unit, dev, staging, VolMap, staged>>
      BY <1>0, <1>1, <1>4, <2>2 DEF TypeOK, Resolve, Quiet, hostVars, kubeletVars
    <2>5. call'[c].pc = "stopUnit" /\ call'[c].vol = v /\ call'[c].op = call[c].op
      BY <1>0, <1>1, <2>3, <2>4 DEF TypeOK, Invocation
    <2>6. Link(v)' = Link(v) /\ DaemonOK(v)'
      BY <1>1, <2>4, SameDaemons
    <2>7. Labours(c)' /\ call'[c].pc \in Work
      BY <1>1, <1>2, <2>2, <2>4, <2>5, <2>6 DEF Labours, Mounting, Work, DeletePc
    <2> QED BY <1>0, <1>1, <2>6, <2>7, RecoverBy
  <1>5. CASE StopUblkUnit(c)
    <2>1. Goto(c, "ublkDel") /\ StopUnit(v) /\ VolMap' = VolMap
      BY <1>1, <1>5 DEF StopUblkUnit
    <2>2. DaemonOK(v)' /\ unit'[v] = "none" /\ staging' = staging
      BY <1>0, <1>1, <1>2, <2>1, StopDaemon
    <2>3. staged' = staged /\ call'[c].pc = "ublkDel" /\ call'[c].vol = v /\ call'[c].op = call[c].op
      BY <1>0, <1>1, <2>1, GotoFields
    <2>4. Labours(c)' /\ call'[c].pc \in Work
      BY <1>1, <1>2, <2>1, <2>2, <2>3 DEF Labours, Mounting, Work, DeletePc
    <2> QED BY <1>0, <1>1, <2>2, <2>4, RecoverBy
  <1>6. CASE DeleteDevice(c)
    <2>1. call[c].pc = "ublkDel"
      BY <1>6 DEF DeleteDevice, At
    <2>2. PICK d \in DevId : d = call[c].dev /\ dev[d].vol = v
      <3>1. call[c].dev \in DevId \cup {NoDev}
        BY <1>0 DEF TypeOK, Invocation
      <3>2. call[c].dev # NoDev /\ dev[call[c].dev].vol = v
        BY <1>1, <2>1 DEF Crashing, HeldInv, HoldsOwnDevice, Holding
      <3> QED BY <3>1, <3>2
    <2>3. unit[v] = "none"
      BY <1>1, <2>1 DEF Labours
    <2>4. dev[d].state # "live" /\ dev[d] # FreeDev
      <3>1. ~Live(v)
        BY <1>1, <2>3 DEF DaemonOK
      <3> QED BY <2>2, <3>1 DEF Live, DevsOf, FreeDev, Crashing, HostAssumption
    <2>5. dev' = [dev EXCEPT ![d] = FreeDev] /\ LoseMounts(v) /\ unit' = unit
      BY <1>6, <2>2, <2>4 DEF DeleteDevice, UblkDel
    <2>6. staging' = staging
      BY <1>0, <1>2, <2>5, LoseNothing
    <2>7. DaemonOK(v)'
      <3>1. \A e \in DevId : dev'[e].vol = v => dev'[e] = dev[e]
        BY <1>0, <2>5 DEF TypeOK, HostTypeOK, FreeDev, Crashing, HostAssumption
      <3> QED BY <1>1, <2>5, <3>1 DEF DaemonOK, Live, DevsOf, Recoverable
    <2>8. AfterDelete(c) /\ VolMap' = VolMap
      BY <1>6 DEF DeleteDevice
    <2> QED BY <1>0, <1>1, <2>1, <2>3, <2>5, <2>6, <2>7, <2>8, DeleteEnds
  <1>7. CASE DeleteDeviceFails(c)
    <2>1. /\ call[c].pc = "ublkDel" /\ AfterDelete(c)
          /\ UNCHANGED <<unit, dev, staging, VolMap>>
      BY <1>7 DEF DeleteDeviceFails, At, Quiet, hostVars
    <2>2. unit'[v] = "none" /\ DaemonOK(v)'
      BY <1>1, <2>1, SameDaemons DEF Labours
    <2> QED BY <1>0, <1>1, <2>1, <2>2, DeleteEnds
  <1> QED BY <1>3, <1>4, <1>5, <1>6, <1>7 DEF DeleteUblkDevice

(***************************************************************************)
(* NodeUnstageVolume.                                                      *)
(***************************************************************************)

\* It begins when there is an entry, which then means that all is there.
LEMMA UnstageCheckRecovers ==
  ASSUME Crashing, MountInv', NEW c \in Call, UnstageCheck(c)
  PROVE  RecoverInv'
  <1>1. /\ call[c].pc = "unstageCheck" /\ call[c].pc \notin Work /\ call[c].pc # "idle" /\ Handler(c)
        /\ UNCHANGED <<unit, dev, staging, VolMap>>
    BY DEF UnstageCheck, At, Work, StagePc, DeletePc, UnstagePc, Handler, NodeUnstageVolume, Quiet, hostVars
  <1>2. PICK v \in Volume : v = call[c].vol /\ call[c].waiting /\ Rests(v) /\ OpAt(c) /\ DaemonOK(v)
    BY <1>1, Resting
  <1>3. call[c].op = "unstage" /\ TypeOK
    BY <1>1, <1>2 DEF OpAt, UnstagePc, Crashing
  <1>4. Link(v)' = Link(v) /\ DaemonOK(v)'
    BY <1>1, <1>2, SameDaemons
  <1>5. CASE VolMap[v] = "absent"
    <2>1. Return(c, TRUE)
      BY <1>2, <1>5 DEF UnstageCheck
    <2>2. staged' = [staged EXCEPT ![v] = "no"]
      BY <1>2, <1>3, <2>1, Told
    <2>3. staged'[v] = "no"
      BY <1>3, <2>2 DEF TypeOK
    <2>4. Rests(v)'
      BY <1>1, <1>2, <1>5, <2>3 DEF Rests
    <2> QED BY <1>1, <1>2, <1>3, <1>4, <2>1, <2>4, Answers, RecoverBy
  <1>6. CASE VolMap[v] # "absent"
    <2>1. Goto(c, "unmountStaging")
      BY <1>2, <1>6 DEF UnstageCheck
    <2>2. staged' = staged /\ call'[c].pc = "unmountStaging" /\ call'[c].vol = v /\ call'[c].op = "unstage"
      BY <1>2, <1>3, <2>1, GotoFields
    <2>3. Labours(c)'
      BY <1>1, <1>2, <1>4, <1>6, <2>2 DEF Labours, Rests, Mounting, MountOf
    <2>4. call'[c].pc \in Work
      BY <2>2 DEF Work, UnstagePc
    <2> QED BY <1>1, <1>2, <1>4, <2>3, <2>4, RecoverBy
  <1> QED BY <1>5, <1>6

\* The rest of it: the mount goes first, the entry last.
LEMMA UnstageRecovers ==
  ASSUME Crashing, MountInv', NEW c \in Call,
         UnmountStaging(c) \/ UnmountStagingFails(c) \/ CleanupStaging(c) \/ DeleteEntry(c)
  PROVE  RecoverInv'
  <1>0. /\ call[c].pc \in {"unmountStaging", "cleanupStaging", "delete"}
        /\ call[c].pc \in Work /\ Handler(c) /\ TypeOK /\ UNCHANGED <<unit, dev>>
    BY DEF UnmountStaging, UnmountStagingFails, CleanupStaging, DeleteEntry, At, Work, UnstagePc, Handler,
       NodeUnstageVolume, Crashing, Quiet, hostVars
  <1>1. PICK v \in Volume : /\ v = call[c].vol /\ call[c].op = "unstage" /\ call[c].waiting
                            /\ Labours(c) /\ DaemonOK(v)
    BY <1>0, Labouring DEF UnstagePc
  <1>2. staged[v] # "no" /\ VolMap[v] # "absent"
    BY <1>1 DEF Labours
  <1>3. Link(v)' = Link(v) /\ DaemonOK(v)'
    BY <1>0, <1>1, SameDaemons
  <1>4. CASE UnmountStaging(c)
    <2>1. staging[v] = MountOf(v) /\ Link(v) # {}
      BY <1>1, <1>4 DEF Labours, UnmountStaging, At
    <2>2. Goto(c, "resolve") /\ staging' = [staging EXCEPT ![v] = <<>>] /\ VolMap' = VolMap
      BY <1>1, <1>4, <2>1, UnmountAll DEF UnmountStaging
    <2>3. staged' = staged /\ call'[c].pc = "resolve" /\ call'[c].vol = v /\ call'[c].op = "unstage"
      BY <1>0, <1>1, <2>2, GotoFields
    <2>4. staging'[v] = <<>>
      BY <1>0, <2>2 DEF TypeOK, HostTypeOK
    <2>5. Labours(c)' /\ call'[c].pc \in Work
      BY <1>2, <1>3, <2>1, <2>2, <2>3, <2>4 DEF Labours, Mounting, Work, DeletePc
    <2> QED BY <1>0, <1>1, <1>3, <2>5, RecoverBy
  <1>5. CASE UnmountStagingFails(c)
    <2>1. staging[v] = MountOf(v) /\ Link(v) # {}
      BY <1>1, <1>5 DEF Labours, UnmountStagingFails, At
    <2>2. Return(c, FALSE) /\ UNCHANGED <<staging, VolMap>>
      BY <1>5 DEF UnmountStagingFails, Quiet, hostVars
    <2>3. staged' = [staged EXCEPT ![v] = "maybe"]
      BY <1>0, <1>1, <2>2, Told
    <2>4. staged'[v] = "maybe"
      BY <1>0, <2>3 DEF TypeOK
    <2>5. Rests(v)'
      BY <1>2, <1>3, <2>1, <2>2, <2>4 DEF Rests, MountOf
    <2> QED BY <1>0, <1>1, <1>3, <2>2, <2>5, Answers, RecoverBy
  <1>6. CASE CleanupStaging(c)
    <2>1. staging[v] = <<>> /\ unit[v] = "none"
      BY <1>1, <1>6 DEF Labours, CleanupStaging, At
    <2>2. Goto(c, "delete") /\ VolMap' = VolMap
      BY <1>6 DEF CleanupStaging
    <2>3. staging'[v] = <<>>
      <3>1. staging' = [staging EXCEPT ![v] = Unmount(staging[v])] \/ staging' = staging
        BY <1>1, <1>6 DEF CleanupStaging
      <3>2. Unmount(staging[v]) = <<>>
        BY <2>1, UnmountAll
      <3> QED BY <1>0, <2>1, <3>1, <3>2 DEF TypeOK, HostTypeOK
    <2>4. staged' = staged /\ call'[c].pc = "delete" /\ call'[c].vol = v /\ call'[c].op = "unstage"
      BY <1>0, <1>1, <2>2, GotoFields
    <2>5. Labours(c)' /\ call'[c].pc \in Work
      BY <1>0, <1>2, <2>1, <2>2, <2>3, <2>4 DEF Labours, Mounting, Work, UnstagePc
    <2> QED BY <1>0, <1>1, <1>3, <2>5, RecoverBy
  <1>7. CASE DeleteEntry(c)
    <2>1. staging[v] = <<>> /\ unit[v] = "none"
      BY <1>1, <1>7 DEF Labours, DeleteEntry, At
    <2>2. /\ Return(c, TRUE) /\ VolMap' = [VolMap EXCEPT ![v] = "absent"]
          /\ staging' = staging
      BY <1>1, <1>7 DEF DeleteEntry, hostVars
    <2>3. staged' = [staged EXCEPT ![v] = "no"]
      BY <1>0, <1>1, <2>2, Told
    <2>4. VolMap'[v] = "absent" /\ staged'[v] = "no"
      BY <1>0, <2>2, <2>3 DEF TypeOK
    <2>5. Rests(v)'
      BY <1>0, <2>1, <2>2, <2>4 DEF Rests
    <2> QED BY <1>0, <1>1, <1>3, <2>2, <2>5, Answers, RecoverBy
  <1> QED BY <1>4, <1>5, <1>6, <1>7

(***************************************************************************)
(* NodePublishVolume, NodeUnpublishVolume and the kubelet.                 *)
(***************************************************************************)

\* Target paths are no volume's rest.
LEMMA PathRecovers ==
  ASSUME Crashing, MountInv', NEW c \in Call, NodePublishVolume(c) \/ NodeUnpublishVolume(c)
  PROVE  RecoverInv'
  <1>0. /\ call[c].pc \in PublishPc \cup UnpublishPc /\ Handler(c)
        /\ UNCHANGED <<unit, dev, staging, VolMap>>
    BY DEF NodePublishVolume, PublishCheck, BindCheck, BindOk, BindFails, RecordTarget, NodeUnpublishVolume,
           UnpublishCheck, UnmountTarget, UnmountTargetFails, RemoveTarget, At, PublishPc, UnpublishPc,
           Handler, Quiet, hostVars, mounts
  <1>1. call[c].pc \notin Work /\ call[c].pc # "idle"
    BY <1>0 DEF PublishPc, UnpublishPc, Work, StagePc, DeletePc, UnstagePc
  <1>2. PICK v \in Volume : v = call[c].vol /\ Rests(v) /\ OpAt(c) /\ DaemonOK(v)
    BY <1>1, Resting
  <1>3. call[c].op \in OnTarget /\ TypeOK
    BY <1>0, <1>2 DEF OpAt, Crashing
  <1>4. Link(v)' = Link(v) /\ DaemonOK(v)'
    BY <1>0, <1>2, SameDaemons
  <1>5. staged' = staged /\ call'[c].pc \notin Work
    <2>1. CASE Return(c, TRUE) \/ Return(c, FALSE)
      BY <1>3, <2>1, Answers DEF Return, OnVolume, OnTarget
    <2>2. CASE Stays(c)
      <3>1. staged' = staged /\ call'[c].op \in OnTarget
        BY <1>3, <2>2 DEF Stays
      <3>2. OpAt(c)'
        BY DEF MountInv, OnPathOK
      <3>3. call'[c].pc \notin Work
        BY <3>1, <3>2 DEF OpAt, Work, OnTarget
      <3> QED BY <3>1, <3>3
    <2> QED BY <1>0, <1>3, <2>1, <2>2, HandlerSplits
  <1>6. Rests(v)'
    BY <1>0, <1>2, <1>4, <1>5 DEF Rests, MountOf
  <1> QED BY <1>0, <1>2, <1>4, <1>5, <1>6, RecoverBy

\* A request changes nothing yet.
LEMMA AskingRecovers ==
  ASSUME Crashing, NEW c \in Call, Kubelet(c)
  PROVE  RecoverInv'
  <1>1. ~Abandon(c)
    BY DEF Abandon, Can, Crashing, Recovering
  <1>2. PICK op, pc, v, t, f :
          Begin(c, op, pc, v, t, f) /\ pc \in {"stageCheck", "unstageCheck", "publishCheck", "unpublishCheck"}
    BY <1>1 DEF Kubelet, CallStage, CallUnstage, CallPublish, CallUnpublish
  <1>3. /\ UNCHANGED <<unit, dev, staging, VolMap, staged, alive>> /\ OthersStand(c)
        /\ call'[c].pc = pc /\ call[c].vol = NoVol /\ call[c].pc = "idle"
    BY <1>2, IdleAt DEF Begin, OthersStand, Idle, hostVars, kubeletVars, Crashing, TypeOK
  <1>4. pc \notin Work /\ "idle" \notin Work
    BY <1>2 DEF Work, StagePc, DeletePc, UnstagePc
  <1>5. \A w \in Volume : Link(w)' = Link(w) /\ (DaemonOK(w)' <=> DaemonOK(w))
    BY <1>3, SameDaemons
  <1>6. ASSUME NEW w \in Volume, AtRest(w)' PROVE Rests(w)'
    <2>1. AtRest(w)
      BY <1>3, <1>4, <1>6 DEF AtRest, OthersStand
    <2> QED BY <1>3, <1>5, <2>1 DEF Crashing, RecoverInv, Rests, MountOf
  <1>7. ASSUME NEW o \in Call, call'[o].pc \in Work PROVE Labours(o)'
    <2>1. call'[o] = call[o]
      BY <1>3, <1>4, <1>7 DEF OthersStand
    <2>2. Labours(o) /\ call[o].vol \in Volume
      BY <1>7, <2>1, Labouring
    <2>3. PICK w \in Volume : w = call[o].vol
      BY <2>2
    <2>4. Link(w)' = Link(w) /\ w = call'[o].vol
      BY <1>5, <2>1, <2>3
    <2> QED BY <1>3, <2>1, <2>2, <2>3, <2>4 DEF Labours, MountOf
  <1> QED BY <1>3, <1>5, <1>6, <1>7 DEF Crashing, RecoverInv

(***************************************************************************)
(* The host.                                                               *)
(***************************************************************************)

\* When the daemon of v dies, v keeps its link if it has one, and nothing is
\* mounted that would lose its device.
LEMMA CrashLosesNothing ==
  ASSUME Crashing, Doubtless, NEW v \in Volume, DaemonCrash(v)
  PROVE  /\ DaemonOK(v)' /\ (Link(v) # {} => Link(v)' # {})
         /\ staging' = staging /\ target' = target
         /\ \A d \in DevId : dev'[d] = dev[d] \/ (dev[d].vol = v /\ dev'[d].vol = v)
  <1>0. TypeOK /\ HostAssumption /\ HeldInv /\ MountInv /\ DaemonOK(v)
    BY DEF Crashing, RecoverInv
  <1> DEFINE left == IF Recoverable(v) THEN "quiesced" ELSE "dead"
  <1>1. DetachDaemon(v, left) /\ unit[v] = "running" /\ unit' = [unit EXCEPT ![v] = "restarting"]
    BY DEF DaemonCrash
  <1>2. \A d \in DevId : dev'[d] = IF dev[d].vol = v /\ dev[d].state = "live"
                                   THEN [vol |-> v, state |-> left] ELSE dev[d]
    BY <1>1 DEF DetachDaemon
  <1> HIDE DEF left
  <1>3. ~Live(v)'
    BY <1>2 DEF Live, DevsOf, left
  <1>4. Live(v) => Recoverable(v)
    BY DEF DaemonCrash, Crashing, Recovering, Recoverable
  <1>5. DaemonOK(v)'
    <2>1. DevsOf(v, {"quiesced"})' # {} => Recoverable(v)
      BY <1>0, <1>2 DEF DaemonOK, DevsOf, left
    <2> QED BY <1>3, <2>1 DEF DaemonOK, Recoverable
  <1>6. Link(v) # {} => Link(v)' # {}
    BY <1>2, <1>4 DEF Link, Live, DevsOf, left
  <1>7. staging' = staging /\ target' = target
    <2>1. CASE Recoverable(v)
      BY <1>1, <2>1 DEF DetachDaemon, mounts, left
    <2>2. CASE ~Recoverable(v)
      <3>1. LoseMounts(v)
        BY <1>1, <2>2 DEF DetachDaemon, left
      <3>2. Link(v) = {}
        BY <1>0, <1>4, <2>2 DEF DaemonOK, Link, Live, DevsOf
      <3>3. PICK c \in Call : call[c].vol = v /\ call[c].pc \in Work
        BY <1>1, <3>2 DEF Crashing, RecoverInv, Rests, AtRest
      <3>4. Labours(c) /\ call[c].op \in {"stage", "unstage"}
        BY <3>3, Labouring
      <3>5. staging[v] = <<>>
        BY <3>2, <3>3, <3>4 DEF Labours
      <3>6. staged[v] # "yes" \/ call[c].op = "unstage"
        BY <3>3, <3>4 DEF Labours
      <3>7. call[c].pc \in AtWork
        BY <3>3 DEF Work, AtWork
      <3>8. \A u \in Target : target[<<v, u>>] = <<>>
        BY <1>0, <3>3, <3>6, <3>7, WorkUnpublished, DoubtlessNotices
      <3>9. ASSUME NEW p \in Volume \X Target
            PROVE  (IF p[1] = v THEN Stale(target[p]) ELSE target[p]) = target[p]
        <4>1. p = <<p[1], p[2]>> /\ p[2] \in Target
          OBVIOUS
        <4>2. p[1] = v => target[p] = <<>>
          BY <3>8, <4>1
        <4> QED BY <4>2, StaleOfNothing
      <3>10. target' = target
        <4>1. target' = [p \in Volume \X Target |-> target[p]]
          BY <3>1, <3>9 DEF LoseMounts
        <4> QED BY <1>0, <4>1 DEF TypeOK, HostTypeOK
      <3> QED BY <1>0, <3>1, <3>5, <3>10, LoseNothing
    <2> QED BY <2>1, <2>2
  <1> QED BY <1>2, <1>5, <1>6, <1>7

\* What the host does concerns one volume that has a unit, takes no link away
\* and leaves all mounts as they are.
LEMMA HostRecovers ==
  ASSUME Crashing, Doubtless, Host
  PROVE  RecoverInv' /\ UNCHANGED <<staging, target, fs, call>>
  <1>0. TypeOK /\ HostAssumption /\ alive
    BY DEF Crashing, RecoverInv
  <1>1. PICK v \in Volume : DaemonUp(v) \/ DaemonCrash(v) \/ Respawn(v) \/ StartLimit(v) \/ Collect(v)
    BY DEF Host, HostNext
  <1>2. UNCHANGED <<VolMap, call, alive, staged>> /\ DaemonOK(v) /\ fs' = fs
    BY <1>1 DEF Host, pluginVars, kubeletVars, Crashing, RecoverInv, DaemonUp, DaemonCrash, Respawn,
       StartLimit, Collect
  <1>3. unit[v] # "none"
    BY <1>1 DEF DaemonUp, DaemonCrash, Respawn, StartLimit, Collect
  <1>4. /\ DaemonOK(v)' /\ (Link(v) # {} => Link(v)' # {})
        /\ staging' = staging /\ target' = target
        /\ \A d \in DevId : dev'[d] = dev[d] \/ {dev[d].vol, dev'[d].vol} \subseteq {v, NoVol}
    <2>1. CASE DaemonCrash(v)
      <3>1. /\ DaemonOK(v)' /\ (Link(v) # {} => Link(v)' # {})
            /\ staging' = staging /\ target' = target
            /\ \A d \in DevId : dev'[d] = dev[d] \/ (dev[d].vol = v /\ dev'[d].vol = v)
        BY <2>1, CrashLosesNothing
      <3> QED BY <3>1
    <2>2. CASE DaemonUp(v)
      <3>1. unit[v] = "running" /\ UNCHANGED <<unit, staging, target>>
        BY <2>2 DEF DaemonUp, mounts
      <3>2. PICK d \in DevId : /\ dev[d].vol \in {v, NoVol}
                               /\ dev' = [dev EXCEPT ![d] = [vol |-> v, state |-> "live"]]
        <4>1. PICK d \in DevId : /\ d \in DevsOf(v, {"quiesced"}) \/ d \in FreeIds
                                 /\ dev' = [dev EXCEPT ![d] = [vol |-> v, state |-> "live"]]
          BY <2>2 DEF DaemonUp
        <4>2. dev[d].vol \in {v, NoVol}
          BY <4>1 DEF FreeIds, FreeDev, DevsOf
        <4> QED BY <4>1, <4>2
      <3>3. \A e \in DevId : dev'[e] = IF e = d THEN [vol |-> v, state |-> "live"] ELSE dev[e]
        BY <1>0, <3>2 DEF TypeOK, HostTypeOK
      <3>4. DaemonOK(v)'
        BY <1>2, <3>1, <3>3 DEF DaemonOK, DevsOf, Recoverable
      <3>5. Link(v)' # {}
        BY <3>3 DEF Link, DevsOf
      <3> QED BY <3>1, <3>2, <3>3, <3>4, <3>5
    <2>3. CASE Respawn(v) \/ StartLimit(v) \/ Collect(v)
      <3>1. unit[v] # "running" /\ UNCHANGED <<dev, staging, target>>
        BY <2>3 DEF Respawn, StartLimit, Collect, mounts
      <3>2. \A states : DevsOf(v, states)' = DevsOf(v, states)
        BY <3>1 DEF DevsOf
      <3>3. Link(v)' = Link(v) /\ DaemonOK(v)'
        BY <1>2, <3>1, <3>2 DEF DaemonOK, Live, Link, Recoverable
      <3> QED BY <3>1, <3>3
    <2> QED BY <1>1, <2>1, <2>2, <2>3
  <1>5. \A w \in Volume : w # v => unit'[w] = unit[w]
    BY <1>0, <1>1 DEF DaemonUp, DaemonCrash, Respawn, StartLimit, Collect, TypeOK, HostTypeOK
  <1>6. OthersUntouched(v)
    BY <1>2, <1>4, <1>5 DEF OthersUntouched
  <1>7. ASSUME NEW w \in Volume
        PROVE  /\ DaemonOK(w)' /\ (Link(w) # {} => Link(w)' # {})
               /\ unit[w] = "none" => unit'[w] = "none"
    <2>1. CASE w = v
      <3>1. DaemonOK(w)'
        BY <1>4, <2>1 DEF DaemonOK, Live, DevsOf, Recoverable
      <3>2. Link(w) # {} => Link(w)' # {}
        BY <1>4, <2>1 DEF Link, DevsOf
      <3> QED BY <1>3, <2>1, <3>1, <3>2
    <2>2. CASE w # v
      <3>1. \A states : DevsOf(w, states)' = DevsOf(w, states)
        BY <1>0, <1>2, <1>6, <2>2, OtherVolume
      <3>2. unit'[w] = unit[w] /\ DaemonOK(w)
        BY <1>5, <2>2 DEF Crashing, RecoverInv
      <3> QED BY <3>1, <3>2 DEF DaemonOK, Live, Link, Recoverable
    <2> QED BY <2>1, <2>2
  <1>8. ASSUME NEW w \in Volume, AtRest(w)' PROVE Rests(w)'
    <2>1. AtRest(w)
      BY <1>2, <1>8 DEF AtRest
    <2>2. Rests(w)
      BY <2>1 DEF Crashing, RecoverInv
    <2> QED BY <1>2, <1>4, <1>7, <2>2 DEF Rests, MountOf
  <1>9. ASSUME NEW c \in Call, call'[c].pc \in Work PROVE Labours(c)'
    <2>1. PICK w \in Volume : w = call[c].vol /\ Labours(c)
      BY <1>2, <1>9, Labouring
    <2>2. /\ call' = call /\ (unit[w] = "none" => unit'[w] = "none")
          /\ Link(w) # {} => Link(w)' # {}
      BY <1>2, <1>7
    <2> QED BY <1>2, <1>4, <2>1, <2>2 DEF Labours, MountOf
  <1>10. alive'
    BY <1>0, <1>2
  <1> QED BY <1>2, <1>4, <1>7, <1>8, <1>9, <1>10 DEF RecoverInv

(***************************************************************************)
(* All steps together.                                                     *)
(***************************************************************************)

\* No step takes from a volume what the kubelet relies on.
LEMMA RecoverStep ==
  ASSUME Crashing, MountInv', Doubtless, [Next]_vars
  PROVE  RecoverInv'
  <1>1. ASSUME NEW c \in Call, Handler(c) PROVE RecoverInv'
    <2>1. NodeStageVolume(c) => RecoverInv'
      BY StageCheckRecovers, StartRecovers, WaitRecovers, StopAfterWaitRecovers, FormatRecovers, InsertRecovers
         DEF NodeStageVolume
    <2>2. NodeUnstageVolume(c) => RecoverInv'
      BY UnstageCheckRecovers, UnstageRecovers DEF NodeUnstageVolume
    <2> QED BY <1>1, <2>1, <2>2, DeleteRecovers, PathRecovers DEF Handler
  <1>2. ASSUME NEW c \in Call, Kubelet(c) PROVE RecoverInv'
    BY <1>2, AskingRecovers
  <1>3. ~PluginCrash /\ ~UpdateNodeVolumeMap
    BY DEF PluginCrash, UpdateNodeVolumeMap, Can, Crashing, Recovering, RecoverInv
  <1>4. CASE UNCHANGED vars
    <2>1. \A w \in Volume : Link(w)' = Link(w) /\ Live(w)' = Live(w) /\ (DaemonOK(w)' <=> DaemonOK(w))
      BY <1>4, SameDaemons DEF vars, hostVars
    <2>2. UNCHANGED <<unit, dev, staging, VolMap, staged, alive, call>>
      BY <1>4 DEF vars, hostVars, pluginVars, kubeletVars
    <2>3. \A w \in Volume : AtRest(w)' => Rests(w)'
      BY <2>1, <2>2 DEF Crashing, RecoverInv, AtRest, Rests, MountOf
    <2>4. ASSUME NEW c \in Call, call'[c].pc \in Work PROVE Labours(c)'
      <3>1. Labours(c)
        BY <2>2, <2>4 DEF Crashing, RecoverInv
      <3> QED BY <2>2, <3>1 DEF Labours, MountOf, Link, DevsOf
    <2> QED BY <2>1, <2>2, <2>3, <2>4 DEF Crashing, RecoverInv
  <1> QED BY <1>1, <1>2, <1>3, <1>4, HostRecovers DEF Next

\* What is bound is there to be bound, so that target paths show their volumes.
LEMMA ShowsRecovered ==
  ASSUME Crashing, Doubtless, LiveTargets, [Next]_vars
  PROVE  LiveTargets'
  <1>0. HostAssumption /\ TypeOK /\ HeldInv /\ MountInv
    BY DEF Crashing
  <1>1. ASSUME NEW c \in Call, Handler(c) PROVE LiveTargets'
    <2>1. call[c].pc \in {"stopAfterWait", "stopUnit", "ublkDel"} =>
            staged[call[c].vol] # "yes" \/ call[c].op = "unstage"
      <3>1. call[c].pc \in {"stopAfterWait", "stopUnit", "ublkDel"} => call[c].pc \in Work
        BY DEF Work, StagePc, DeletePc
      <3> QED BY <3>1, Labouring DEF Labours
    <2>2. ASSUME call[c].pc = "bind" PROVE BindSource(call[c].vol) = {"live"}
      <3>1. call[c].pc \notin Work /\ call[c].pc # "idle" /\ call[c].pc \in PublishPc
        BY <2>2 DEF PublishPc, Work, StagePc, DeletePc, UnstagePc
      <3>2. PICK v \in Volume : v = call[c].vol /\ Rests(v)
        BY <3>1, Resting
      <3>3. staged[v] = "yes"
        BY <1>0, <3>1, <3>2, AtPath
      <3>4. Link(v) # {} /\ staging[v] = MountOf(v)
        BY <3>2, <3>3 DEF Rests
      <3>5. v \notin BlockVol => MountedAt(staging[v]) /\ Head(staging[v]) = "live"
        BY <3>4 DEF MountOf, MountedAt
      <3>6. CASE v \in BlockVol
        BY <3>2, <3>4, <3>6 DEF BindSource
      <3>7. CASE v \notin BlockVol
        BY <3>2, <3>5, <3>7 DEF BindSource
      <3> QED BY <3>6, <3>7
    <2> QED BY <1>0, <1>1, <2>1, <2>2, HandlerShows, DoubtlessNotices DEF LiveTargets
  <1>2. target' = target => LiveTargets'
    BY DEF LiveTargets, Shown
  <1>3. ASSUME NEW c \in Call, Kubelet(c) PROVE target' = target
    BY <1>3 DEF Kubelet, CallStage, CallUnstage, CallPublish, CallUnpublish, Abandon, Begin, hostVars
  <1>4. CASE Host
    BY <1>2, <1>4, HostRecovers
  <1>5. CASE PluginCrash \/ UpdateNodeVolumeMap \/ UNCHANGED vars
    BY <1>2, <1>5 DEF PluginCrash, DaemonsSurvive, UpdateNodeVolumeMap, vars, hostVars
  <1> QED BY <1>1, <1>2, <1>3, <1>4, <1>5 DEF Next

\* The invariant, with what it rests on.
CrashInv == TypeOK /\ HeldInv /\ MountInv /\ Doubtless /\ RecoverInv /\ LiveTargets

\* It holds while nothing is staged yet ...
LEMMA CrashInit ==
  ASSUME HostAssumption, NodeAssumption, Init
  PROVE  CrashInv
  <1>1. TypeOK /\ MountInv
    BY InitType, InitMounts
  <1>2. HeldInv
    BY IdleAt DEF Init, HeldInv, OneCallPerVolume, HoldsOwnDevice, Holding, Idle
  <1>3. \A v \in Volume, t \in Target : target[<<v, t>>] = <<>>
    BY DEF Init, HostInit
  <1>4. \A v \in Volume : DaemonOK(v) /\ Rests(v)
    BY DEF Init, HostInit, DaemonOK, Live, DevsOf, FreeDev, Rests
  <1>5. \A c \in Call : call[c].pc \notin Work
    BY IdleAt DEF Init, Work, StagePc, DeletePc, UnstagePc
  <1>6. RecoverInv
    BY <1>4, <1>5 DEF RecoverInv, Init
  <1> QED BY <1>1, <1>2, <1>3, <1>6 DEF CrashInv, Doubtless, Known, LiveTargets, Shown

\* ... and every step keeps it.
LEMMA CrashStep ==
  ASSUME HostAssumption, NodeAssumption, Recovering, CrashInv, [Next]_vars
  PROVE  CrashInv'
  <1>1. "clientTimeout" \notin Faults /\ "pluginCrash" \notin Faults
    BY DEF Recovering
  <1>2. TypeOK' /\ HeldInv' /\ MountInv'
    BY <1>1, TypeStep, HeldStep, MountStep DEF CrashInv
  <1>3. Crashing
    BY DEF Crashing, CrashInv
  <1>4. RecoverInv' /\ LiveTargets'
    BY <1>2, <1>3, RecoverStep, ShowsRecovered DEF CrashInv
  <1>5. Doubtless'
    BY <1>1, <1>4, DoubtlessStep DEF CrashInv, RecoverInv
  <1> QED BY <1>2, <1>4, <1>5 DEF CrashInv

\* So it holds of the node service, whichever daemon crashes.
LEMMA CrashCorrect ==
  ASSUME HostAssumption, NodeAssumption, Recovering
  PROVE  Spec => []CrashInv
  BY CrashInit, CrashStep, PTL DEF Spec

\* The kubelet is never left with a volume that it will not unstage while a
\* daemon of it runs: whatever crashes, and whatever else of a stage or an
\* unstage fails, but the stopping of the unit itself.
THEOREM UnstagedHasNoDaemonHolds ==
  ASSUME HostAssumption, NodeAssumption, Recovering
  PROVE  Spec => []UnstagedHasNoDaemon
  <1>1. CrashInv => UnstagedHasNoDaemon
    <2> SUFFICES ASSUME CrashInv, NEW v \in Volume, staged[v] = "no", Settled(v) PROVE unit[v] = "none"
      BY DEF UnstagedHasNoDaemon
    <2>1. AtRest(v)
      BY DEF Settled, AtRest
    <2> QED BY <2>1 DEF CrashInv, RecoverInv, Rests
  <1> QED BY <1>1, CrashCorrect, PTL

\* A pod whose target path the kubelet holds as published sees its volume there,
\* also while the volume's daemon is down and after it was recovered.
THEOREM PublishedOutlivesDaemons ==
  ASSUME HostAssumption, NodeAssumption, Recovering
  PROVE  Spec => []PublishedIsLive
  <1>1. CrashInv => PublishedIsLive
    BY ShownIsLive DEF CrashInv, LiveTargets, PublishedIsLive
  <1> QED BY <1>1, CrashCorrect, PTL

(***************************************************************************)
(* Formatting.  While the device is quiesced the probe waits, and what it  *)
(* then reads of the live device decides; nobody else works on the volume  *)
(* until the mkfs.                                                         *)
(***************************************************************************)
FormatsBlank == \A c \in Call : call[c].pc = "mkfs" => fs[call[c].vol] = ""

\* Only the second probe leads to mkfs.
LEMMA OnlyProbeFormats ==
  ASSUME Crashing, NEW c \in Call, Handler(c), call'[c].pc = "mkfs"
  PROVE  Probe(c)
  <1>0. TypeOK
    BY DEF Crashing
  <1> SUFFICES ASSUME ~Probe(c) PROVE FALSE
    OBVIOUS
  <1>1. ASSUME NEW pc, pc # "mkfs", Goto(c, pc) PROVE FALSE
    BY <1>0, <1>1, GotoFields
  <1>2. ASSUME NEW ok, Return(c, ok) PROVE FALSE
    BY <1>0, <1>2, Answers
  <1>3. ASSUME NEW r, r.pc # "mkfs", call' = [call EXCEPT ![c] = r] PROVE FALSE
    BY <1>0, <1>3 DEF TypeOK
  <1>4. call[c] \in Invocation
    BY <1>0 DEF TypeOK
  <1>5. ASSUME AfterDelete(c) PROVE FALSE
    <2>1. [call[c] EXCEPT !.pc = "cleanupStaging", !.dev = NoDev].pc # "mkfs"
      BY <1>4 DEF Invocation
    <2> QED BY <1>2, <1>3, <1>5, <2>1 DEF AfterDelete
  <1>6. ~NodeStageVolume(c)
    BY <1>1, <1>2 DEF NodeStageVolume, StageCheck, StartOk, StartRefusedOrFailed, StartReportedFailed,
       LinkSeen, LinkTimeout, StopAfterWait, Validate, MkfsOk, MkfsFails, MountCheck, StageMountOk,
       StageMountFails, Insert
  <1>7. ~DeleteUblkDevice(c)
    <2>1. ASSUME Resolve(c) PROVE FALSE
      <3>1. \/ AfterDelete(c)
            \/ \E d : call' = [call EXCEPT ![c] = [call[c] EXCEPT !.pc = "stopUnit", !.dev = d]]
        BY <2>1 DEF Resolve
      <3>2. \A d : [call[c] EXCEPT !.pc = "stopUnit", !.dev = d].pc # "mkfs"
        BY <1>4 DEF Invocation
      <3> QED BY <1>3, <1>5, <3>1, <3>2
    <2> QED BY <1>1, <1>5, <2>1 DEF DeleteUblkDevice, StopUblkUnit, StopFails, DeleteDevice, DeleteDeviceFails
  <1>8. ~NodeUnstageVolume(c) /\ ~NodePublishVolume(c)
    BY <1>1, <1>2 DEF NodeUnstageVolume, UnstageCheck, UnmountStaging, UnmountStagingFails, CleanupStaging,
       DeleteEntry, NodePublishVolume, PublishCheck, BindCheck, BindOk, BindFails, RecordTarget
  <1>9. ~NodeUnpublishVolume(c)
    <2>1. ~UnpublishCheck(c)
      <3>1. \A known : [call[c] EXCEPT !.pc = "unmountTarget", !.known = known].pc # "mkfs"
        BY <1>4 DEF Invocation
      <3> QED BY <1>3, <3>1 DEF UnpublishCheck
    <2> QED BY <1>1, <1>2, <2>1 DEF NodeUnpublishVolume, UnmountTarget, UnmountTargetFails, RemoveTarget
  <1> QED BY <1>6, <1>7, <1>8, <1>9 DEF Handler

\* Whoever comes to mkfs has read that the volume is blank, and it stays so.
LEMMA FormatsStep ==
  ASSUME NodeAssumption, Crashing, Doubtless, "blkid" \notin Faults, FormatsBlank, [Next]_vars
  PROVE  FormatsBlank'
  <1>0. HostAssumption /\ TypeOK /\ HeldInv /\ MountInv
    BY DEF Crashing
  <1>1. ASSUME UNCHANGED <<fs, call>> PROVE FormatsBlank'
    BY <1>1 DEF FormatsBlank
  <1>2. ASSUME NEW c \in Call, Handler(c) PROVE FormatsBlank'
    <2>1. call[c].pc # "idle" /\ OthersStand(c)
      <3>1. call[c].pc # "idle"
        BY <1>2 DEF Handler, At,
           NodeStageVolume, StageCheck, StartOk, StartRefusedOrFailed, StartReportedFailed, LinkSeen,
           LinkTimeout, StopAfterWait, Validate, Probe, MkfsOk, MkfsFails, MountCheck, StageMountOk,
           StageMountFails, Insert, DeleteUblkDevice, Resolve, StopUblkUnit, StopFails, DeleteDevice,
           DeleteDeviceFails, NodeUnstageVolume, UnstageCheck, UnmountStaging, UnmountStagingFails,
           CleanupStaging, DeleteEntry, NodePublishVolume, PublishCheck, BindCheck, BindOk, BindFails,
           RecordTarget, NodeUnpublishVolume, UnpublishCheck, UnmountTarget, UnmountTargetFails, RemoveTarget
      <3>2. call[c].vol \in Volume
        BY <1>0, <3>1, Alone
      <3> QED BY <1>0, <1>2, <3>1, <3>2, HandlerLocal
    <2>2. PICK v \in Volume : v = call[c].vol /\ \A o \in Call : o # c => call[o].vol # v
      BY <1>0, <2>1, Alone
    <2>3. \A w \in Volume : w # v => fs'[w] = fs[w]
      BY <1>0, <1>2, <2>2 DEF Handler, Quiet, hostVars, TypeOK, HostTypeOK,
         NodeStageVolume, StageCheck, StartOk, StartRefusedOrFailed, StartReportedFailed, LinkSeen,
         LinkTimeout, StopAfterWait, Validate, Probe, MkfsOk, MkfsFails, MountCheck, StageMountOk,
         StageMountFails, Insert, DeleteUblkDevice, Resolve, StopUblkUnit, StopFails, DeleteDevice,
         DeleteDeviceFails, NodeUnstageVolume, UnstageCheck, UnmountStaging, UnmountStagingFails,
         CleanupStaging, DeleteEntry, NodePublishVolume, PublishCheck, BindCheck, BindOk, BindFails,
         RecordTarget, NodeUnpublishVolume, UnpublishCheck, UnmountTarget, UnmountTargetFails, RemoveTarget
    <2>4. ASSUME NEW o \in Call, o # c, call'[o].pc = "mkfs" PROVE fs'[call'[o].vol] = ""
      <3>1. call'[o] = call[o] /\ fs[call[o].vol] = ""
        BY <2>1, <2>4 DEF OthersStand, FormatsBlank
      <3>2. call[o].vol \in Volume
        BY <1>0, <2>4, <3>1, Alone
      <3> QED BY <2>2, <2>3, <2>4, <3>1, <3>2
    <2>5. ASSUME call'[c].pc = "mkfs" PROVE fs'[call'[c].vol] = ""
      <3>1. Probe(c)
        BY <1>2, <2>5, OnlyProbeFormats
      <3>2. call[c].pc = "probe" /\ call[c].pc \in Work /\ ~Quiesced(v) /\ fs' = fs
        BY <2>2, <3>1 DEF Probe, At, Work, StagePc, Quiet, hostVars
      <3>3. Link(v) # {}
        BY <2>2, <3>2, Labouring DEF Labours, Mounting
      <3>4. Live(v)
        BY <3>2, <3>3 DEF Quiesced, Link, Live, DevsOf
      <3>5. Blkid(v) = {fs[v]}
        BY <3>4 DEF Blkid, Can
      <3>6. fs[v] # NotFound
        BY <1>0 DEF TypeOK, HostTypeOK, NodeAssumption, NotFound
      <3>7. \/ call' = [call EXCEPT ![c] = [call[c] EXCEPT !.pc = "mkfs"]] /\ fs[v] = ""
            \/ call' = [call EXCEPT ![c] = [call[c] EXCEPT !.pc = "mountCheck", !.fs = fs[v]]]
        BY <2>2, <3>1, <3>5, <3>6 DEF Probe, NeedsFormatting
      <3>8. call[c] \in Invocation
        BY <1>0 DEF TypeOK
      <3>9. call'[c].pc = "mkfs" => fs[v] = ""
        <4>1. CASE call' = [call EXCEPT ![c] = [call[c] EXCEPT !.pc = "mountCheck", !.fs = fs[v]]]
          <5>1. call'[c] = [call[c] EXCEPT !.pc = "mountCheck", !.fs = fs[v]]
            BY <1>0, <4>1 DEF TypeOK
          <5> QED BY <3>8, <5>1 DEF Invocation
        <4> QED BY <3>7, <4>1
      <3>10. call'[c].vol = v
        <4>1. \/ call'[c] = [call[c] EXCEPT !.pc = "mkfs"]
              \/ call'[c] = [call[c] EXCEPT !.pc = "mountCheck", !.fs = fs[v]]
          BY <1>0, <3>7 DEF TypeOK
        <4> QED BY <2>2, <3>8, <4>1 DEF Invocation
      <3> QED BY <2>5, <3>2, <3>9, <3>10
    <2> QED BY <2>4, <2>5 DEF FormatsBlank
  <1>3. ASSUME NEW c \in Call, Kubelet(c) PROVE FormatsBlank'
    <2>1. ~Abandon(c)
      BY DEF Abandon, Can, Crashing, Recovering
    <2>2. PICK op, pc, v, t, f :
            Begin(c, op, pc, v, t, f) /\ pc \in {"stageCheck", "unstageCheck", "publishCheck", "unpublishCheck"}
      BY <1>3, <2>1 DEF Kubelet, CallStage, CallUnstage, CallPublish, CallUnpublish
    <2>3. fs' = fs /\ OthersStand(c) /\ call'[c].pc = pc
      BY <1>0, <2>2 DEF Begin, OthersStand, Idle, hostVars, TypeOK
    <2> QED BY <2>2, <2>3 DEF FormatsBlank, OthersStand
  <1>4. CASE Host
    BY <1>1, <1>4, HostRecovers
  <1>5. ~PluginCrash /\ ~UpdateNodeVolumeMap
    BY DEF PluginCrash, UpdateNodeVolumeMap, Can, Crashing, Recovering, RecoverInv
  <1>6. CASE UNCHANGED vars
    BY <1>1, <1>6 DEF vars, hostVars, pluginVars
  <1> QED BY <1>2, <1>3, <1>4, <1>5, <1>6 DEF Next

\* No file system is formatted over, also when the daemon crashes while
\* FormatAndMountDevice is at work, as long as blkid tells what it reads.
THEOREM FormatOnlyBlankOverCrashes ==
  ASSUME HostAssumption, NodeAssumption, Recovering, "blkid" \notin Faults
  PROVE  Spec => []FormatOnlyBlank
  <1>1. Init => FormatsBlank
    BY IdleAt DEF Init, FormatsBlank
  <1>2. CrashInv /\ FormatsBlank /\ [Next]_vars => FormatsBlank'
    BY FormatsStep DEF CrashInv, Crashing
  <1>3. FormatsBlank => FormatOnlyBlank
    BY DEF FormatsBlank, FormatOnlyBlank, At
  <1> QED BY <1>1, <1>2, <1>3, CrashCorrect, PTL DEF Spec

(***************************************************************************)
(* Killed plugins.  The process may end at any point of any request, and   *)
(* come back with or without its map.  What a volume then is, its device   *)
(* and its unit tell, not the map: so that the links, from which the map   *)
(* is made anew, say what the kubelet was told.                            *)
(***************************************************************************)

\* What may not go wrong: a plugin that is killed while it formats or mounts
\* leaves a device, from which the next one concludes that the volume is staged,
\* and so does the device of a recoverable daemon that was stopped; and a volume
\* whose device is lost to a crash is not usable.
Killable ==
  /\ BlockVol = Volume /\ RecoveryVol = {}
  /\ \A fault \in {"daemonCrash", "clientTimeout"} : fault \notin Faults

\* An unstage that has stopped the unit still has to delete the entry.
Late == {"ublkDel", "cleanupStaging", "delete"}
Ending(v) == \E c \in Call : call[c].pc \in Late /\ call[c].vol = v

\* What is staged, or has an entry, has its device, and the other way round when
\* the map was seeded.
Stands(v) ==
  /\ staged[v] = "yes" \/ VolMap[v] # "absent" => Live(v)
  /\ seeded /\ alive /\ staged[v] = "yes" => VolMap[v] # "absent"

\* What an invocation has found out about its volume: without an entry it may
\* still have been told to be staged, but then its unit runs and is not started.
OnWay(c) ==
  LET v == call[c].vol
      pc == call[c].pc
  IN
  /\ pc \notin Mounting
  /\ pc \in DeletePc => call[c].op = "unstage"
  /\ pc \in {"startUnit", "waitLink", "stopAfterWait", "insert"} => VolMap[v] = "absent"
  /\ pc \in {"waitLink", "stopAfterWait"} => staged[v] # "yes"
  /\ pc = "insert" => Live(v)
  /\ pc = "ublkDel" => unit[v] = "none"

KillInv ==
  /\ \A v \in Volume : DaemonOK(v)
  /\ \A v \in Volume : Ending(v) \/ Stands(v)
  /\ \A c \in Call : OnWay(c)

\* What the proofs about a step start from.
Killing == HostAssumption /\ Killable /\ TypeOK /\ HeldInv /\ MountInv /\ KillInv

\* An invocation knows its own volume, which is ending or stands.
LEMMA KillFacts ==
  ASSUME Killing, NEW c \in Call, call[c].pc # "idle"
  PROVE  /\ call[c].vol \in Volume /\ call[c].vol \in BlockVol /\ call[c].waiting /\ alive
         /\ \A o \in Call : o # c => call[o].vol # call[c].vol
         /\ OpAt(c) /\ OnWay(c) /\ DaemonOK(call[c].vol)
         /\ call[c].pc \in Late \/ Stands(call[c].vol)
         /\ TypeOK
  <1>1. PICK v \in Volume : v = call[c].vol /\ call[c].waiting /\ alive /\ \A o \in Call : o # c => call[o].vol # v
    BY Alone DEF Killing
  <1>2. call[c].pc \in Late \/ Stands(v)
    BY <1>1 DEF Killing, KillInv, Ending
  <1> QED BY <1>1, <1>2 DEF Killing, Killable, KillInv, MountInv, OnPathOK

\* A device of a volume here is live or dead.
LEMMA LinkIsLive ==
  ASSUME Killing, NEW v \in Volume
  PROVE  Link(v) # {} <=> Live(v)
  <1>1. DevsOf(v, {"quiesced"}) = {}
    BY DEF Killing, KillInv, Killable, DaemonOK, Recoverable
  <1> QED BY <1>1 DEF Link, Live, DevsOf

\* What a handler must do to keep KillInv.
LEMMA KillBy ==
  ASSUME Killing, MountInv', seeded' = seeded, NEW c \in Call, Handler(c), call[c].pc # "idle",
         NEW v \in Volume, v = call[c].vol,
         DaemonOK(v)', call'[c].pc \in Late \/ Stands(v)', OnWay(c)'
  PROVE  KillInv'
  <1>1. OthersUntouched(v) /\ OthersStand(c) /\ call'[c].vol \in {v, NoVol} /\ alive' = alive /\ HostAssumption
    BY HandlerLocal, HandlerRuns DEF Killing
  <1>2. \A o \in Call : o # c => call[o].vol # v /\ call'[o] = call[o]
    BY <1>1, KillFacts DEF OthersStand
  <1>3. ASSUME NEW w \in Volume, w # v
        PROVE  /\ unit'[w] = unit[w] /\ VolMap'[w] = VolMap[w] /\ staged'[w] = staged[w]
               /\ Live(w)' = Live(w) /\ DevsOf(w, {"quiesced"})' = DevsOf(w, {"quiesced"})
    BY <1>1, <1>3, OtherVolume DEF Live
  <1>4. ASSUME NEW w \in Volume PROVE DaemonOK(w)'
    <2>1. CASE w # v
      <3>1. DaemonOK(w)
        BY DEF Killing, KillInv
      <3> QED BY <1>3, <2>1, <3>1 DEF DaemonOK, Recoverable
    <2>2. CASE w = v
      BY <2>2 DEF DaemonOK, Live, DevsOf, Recoverable
    <2> QED BY <2>1, <2>2
  <1>5. ASSUME NEW w \in Volume PROVE Ending(w)' \/ Stands(w)'
    <2>1. CASE w # v
      <3>1. Ending(w) => Ending(w)'
        BY <1>2, <2>1 DEF Ending
      <3>2. Ending(w) \/ Stands(w)
        BY DEF Killing, KillInv
      <3> QED BY <1>1, <1>3, <2>1, <3>1, <3>2 DEF Stands
    <2>2. CASE w = v
      <3>1. call'[c].pc \in Late => call'[c].vol \in Volume
        BY DEF MountInv, OnPathOK, OpAt, Late
      <3>2. call'[c].pc \in Late => Ending(v)'
        BY <1>1, <3>1 DEF HostAssumption, Ending
      <3> QED BY <2>2, <3>2 DEF Stands, Live, DevsOf
    <2> QED BY <2>1, <2>2
  <1>6. ASSUME NEW o \in Call, o # c PROVE OnWay(o)'
    <2>1. call'[o] = call[o] /\ OnWay(o) /\ OpAt(o)
      BY <1>2, <1>6 DEF Killing, KillInv, MountInv, OnPathOK
    <2>2. CASE call[o].pc = "idle"
      BY <2>1, <2>2 DEF OnWay, Mounting, DeletePc
    <2>3. CASE call[o].pc # "idle"
      <3>1. PICK w \in Volume : w = call[o].vol /\ w # v
        BY <1>2, <1>6, <2>1, <2>3 DEF OpAt
      <3> QED BY <1>3, <2>1, <3>1 DEF OnWay
    <2> QED BY <2>2, <2>3
  <1> QED BY <1>4, <1>5, <1>6 DEF KillInv

\* An answer leaves the volume standing, and nobody on the way.
LEMMA KillAnswers ==
  ASSUME Killing, MountInv', seeded' = seeded, NEW c \in Call, Handler(c), call[c].pc # "idle",
         NEW v \in Volume, v = call[c].vol, NEW ok, Return(c, ok), DaemonOK(v)', Stands(v)'
  PROVE  KillInv'
  <1>1. call'[c].pc = "idle"
    BY Answers DEF Killing
  <1>2. OnWay(c)'
    BY <1>1 DEF OnWay, Mounting, DeletePc
  <1> QED BY <1>2, KillBy

\* Going on leaves to show what the next place relies on.
LEMMA KillGoto ==
  ASSUME Killing, MountInv', seeded' = seeded, NEW c \in Call, Handler(c), call[c].pc # "idle",
         NEW v \in Volume, v = call[c].vol, NEW pc, Goto(c, pc), UNCHANGED <<unit, dev, VolMap>>,
         pc \notin Mounting,
         pc \in DeletePc => pc # "ublkDel" /\ call[c].op = "unstage",
         pc \in {"startUnit", "waitLink", "stopAfterWait", "insert"} => VolMap[v] = "absent",
         pc \in {"waitLink", "stopAfterWait"} => staged[v] # "yes",
         pc = "insert" => Live(v),
         pc \in Late \/ call[c].pc \notin Late
  PROVE  KillInv'
  <1>1. /\ staged' = staged /\ call'[c].pc = pc /\ call'[c].op = call[c].op /\ call'[c].vol = v
        /\ alive' = alive
    BY GotoFields, HandlerRuns DEF Killing
  <1>2. Live(v)' = Live(v) /\ DaemonOK(v)' /\ (call[c].pc \in Late \/ Stands(v))
    BY KillFacts, SameDaemons
  <1>3. pc \in Late \/ Stands(v)'
    BY <1>1, <1>2 DEF Stands
  <1>4. OnWay(c)'
    BY <1>1, <1>2 DEF OnWay, DeletePc
  <1> QED BY <1>1, <1>2, <1>3, <1>4, KillBy

\* A stage that fails tells the kubelet nothing, one that succeeds that it is staged.
LEMMA StageTells ==
  ASSUME Killing, NEW c \in Call, call[c].pc # "idle", call[c].op = "stage", NEW v \in Volume, v = call[c].vol
  PROVE  /\ Return(c, FALSE) /\ staged'[v] = "yes" => staged[v] = "yes"
         /\ Return(c, TRUE) => staged'[v] = "yes"
  <1>1. call[c].waiting /\ TypeOK
    BY KillFacts
  <1>2. ASSUME NEW ok \in {TRUE, FALSE}, Return(c, ok)
        PROVE  staged'[v] = IF ok \/ staged[v] = "yes" THEN "yes" ELSE "no"
    BY <1>1, <1>2 DEF Return, Learn, OnVolume, TypeOK
  <1> QED BY <1>2

\* NodeStageVolume: a unit is started only for a volume that is not staged.
LEMMA StageKills ==
  ASSUME Killing, MountInv', seeded' = seeded, NEW c \in Call, NodeStageVolume(c)
  PROVE  KillInv'
  <1>0. call[c].pc \in StagePc /\ call[c].pc # "idle" /\ call[c].pc \notin Late /\ Handler(c)
    BY DEF NodeStageVolume, StageCheck, StartOk, StartRefusedOrFailed, StartReportedFailed, LinkSeen,
       LinkTimeout, StopAfterWait, Validate, Probe, MkfsOk, MkfsFails, MountCheck, StageMountOk,
       StageMountFails, Insert, At, StagePc, Late, Handler
  <1>1. PICK v \in Volume : /\ v = call[c].vol /\ v \in BlockVol /\ alive /\ alive' /\ TypeOK /\ call[c].op = "stage"
                            /\ OnWay(c) /\ DaemonOK(v) /\ Stands(v)
    BY <1>0, KillFacts, HandlerRuns DEF OpAt
  <1>2. ASSUME NEW ok \in {TRUE, FALSE}, Return(c, ok), UNCHANGED <<unit, dev, VolMap>>,
               ok => VolMap[v] # "absent"
        PROVE  KillInv'
    <2>1. Live(v)' = Live(v) /\ DaemonOK(v)'
      BY <1>1, <1>2, SameDaemons
    <2>2. staged'[v] = "yes" => staged[v] = "yes" \/ VolMap[v] # "absent"
      BY <1>0, <1>1, <1>2, StageTells
    <2>3. Stands(v)'
      BY <1>1, <1>2, <2>1, <2>2 DEF Stands
    <2> QED BY <1>0, <1>1, <1>2, <2>1, <2>3, KillAnswers
  <1>3. CASE StageCheck(c)
    <2>1. UNCHANGED <<unit, dev, VolMap>>
      BY <1>3 DEF StageCheck, Quiet, hostVars
    <2>2. CASE VolMap[v] # "absent"
      BY <1>1, <1>2, <1>3, <2>1, <2>2 DEF StageCheck, AlreadyStaged
    <2>3. CASE VolMap[v] = "absent"
      <3>1. Goto(c, "startUnit")
        BY <1>1, <1>3, <2>3 DEF StageCheck, AlreadyStaged
      <3> QED BY <1>0, <1>1, <2>1, <2>3, <3>1, KillGoto DEF Mounting, DeletePc
    <2> QED BY <2>2, <2>3
  <1>4. CASE StartOk(c) \/ StartReportedFailed(c)
    <2>1. /\ call[c].pc = "startUnit" /\ unit[v] # "running" /\ unit' = [unit EXCEPT ![v] = "running"]
          /\ UNCHANGED <<dev, VolMap>> /\ (Goto(c, "waitLink") \/ Return(c, FALSE))
      BY <1>1, <1>4 DEF StartOk, StartReportedFailed, At, StartUnit, StartRefused
    <2>2. ~Live(v) /\ staged[v] # "yes" /\ VolMap[v] = "absent"
      BY <1>1, <2>1 DEF DaemonOK, Stands, OnWay
    <2>3. unit'[v] = "running"
      BY <1>1, <2>1 DEF TypeOK, HostTypeOK
    <2>4. DaemonOK(v)'
      BY <1>1, <2>1, <2>3 DEF DaemonOK, DevsOf, Recoverable
    <2>5. CASE Goto(c, "waitLink")
      <3>1. staged' = staged /\ call'[c].pc = "waitLink" /\ call'[c].vol = v
        BY <1>1, <2>5, GotoFields
      <3>2. Stands(v)'
        BY <2>1, <2>2, <3>1 DEF Stands
      <3>3. OnWay(c)'
        BY <2>1, <2>2, <3>1 DEF OnWay, Mounting, DeletePc
      <3> QED BY <1>0, <1>1, <2>4, <3>2, <3>3, KillBy
    <2>6. CASE Return(c, FALSE)
      <3>1. staged'[v] # "yes"
        BY <1>0, <1>1, <2>2, <2>6, StageTells
      <3>2. Stands(v)'
        BY <2>1, <2>2, <3>1 DEF Stands
      <3> QED BY <1>0, <1>1, <2>4, <2>6, <3>2, KillAnswers
    <2> QED BY <2>1, <2>5, <2>6
  <1>5. CASE StartRefusedOrFailed(c)
    BY <1>2, <1>5 DEF StartRefusedOrFailed, Quiet, hostVars
  <1>6. CASE LinkSeen(c)
    <2>1. UNCHANGED <<unit, dev, VolMap>> /\ call[c].pc = "waitLink" /\ Link(v) # {} /\ Goto(c, "insert")
      BY <1>1, <1>6 DEF LinkSeen, At, Quiet, hostVars
    <2>2. VolMap[v] = "absent" /\ Live(v)
      BY <1>1, <2>1, LinkIsLive DEF OnWay
    <2> QED BY <1>0, <1>1, <2>1, <2>2, KillGoto DEF Mounting, DeletePc
  <1>7. CASE LinkTimeout(c)
    <2>1. UNCHANGED <<unit, dev, VolMap>> /\ call[c].pc = "waitLink" /\ Goto(c, "stopAfterWait")
      BY <1>7 DEF LinkTimeout, At, Quiet, hostVars
    <2>2. VolMap[v] = "absent" /\ staged[v] # "yes"
      BY <1>1, <2>1 DEF OnWay
    <2> QED BY <1>0, <1>1, <2>1, <2>2, KillGoto DEF Mounting, DeletePc
  <1>8. CASE StopAfterWait(c)
    <2>1. /\ call[c].pc = "stopAfterWait" /\ Return(c, FALSE) /\ VolMap' = VolMap
          /\ StopUnit(v) \/ UNCHANGED <<unit, dev>>
      BY <1>1, <1>8 DEF StopAfterWait, At
    <2>2. VolMap[v] = "absent" /\ staged[v] # "yes"
      BY <1>1, <2>1 DEF OnWay
    <2>3. DaemonOK(v)'
      BY <1>1, <2>1, StopDaemon, SameDaemons
    <2>4. staged'[v] # "yes"
      BY <1>0, <1>1, <2>1, <2>2, StageTells
    <2>5. Stands(v)'
      BY <2>1, <2>2, <2>4 DEF Stands
    <2> QED BY <1>0, <1>1, <2>1, <2>3, <2>5, KillAnswers
  <1>9. CASE Validate(c) \/ Probe(c) \/ MkfsOk(c) \/ MkfsFails(c) \/ MountCheck(c) \/ StageMountOk(c) \/ StageMountFails(c)
    <2>1. call[c].pc \in Mounting
      BY <1>9 DEF Validate, Probe, MkfsOk, MkfsFails, MountCheck, StageMountOk, StageMountFails, At, Mounting
    <2> QED BY <1>1, <2>1 DEF OnWay
  <1>10. CASE Insert(c)
    <2>1. /\ call[c].pc = "insert" /\ Return(c, TRUE) /\ UNCHANGED <<unit, dev>>
          /\ VolMap' = [VolMap EXCEPT ![v] = Mode(v)]
      BY <1>1, <1>10 DEF Insert, At, hostVars
    <2>2. Live(v) /\ Live(v)' = Live(v) /\ DaemonOK(v)' /\ VolMap'[v] # "absent"
      BY <1>1, <2>1, SameDaemons DEF OnWay, Mode, TypeOK
    <2>3. Stands(v)'
      BY <2>2 DEF Stands
    <2> QED BY <1>0, <1>1, <2>1, <2>2, <2>3, KillAnswers
  <1> QED BY <1>3, <1>4, <1>5, <1>6, <1>7, <1>8, <1>9, <1>10 DEF NodeStageVolume

\* DeleteUblkDevice, which only unstages come to: whatever it achieves, the entry
\* is deleted next.
LEMMA DeleteKills ==
  ASSUME Killing, MountInv', seeded' = seeded, NEW c \in Call, DeleteUblkDevice(c)
  PROVE  KillInv'
  <1>0. call[c].pc \in DeletePc /\ call[c].pc # "idle" /\ Handler(c)
    BY DEF DeleteUblkDevice, Resolve, StopUblkUnit, StopFails, DeleteDevice, DeleteDeviceFails, At, DeletePc, Handler
  <1>1. PICK v \in Volume : /\ v = call[c].vol /\ alive /\ TypeOK /\ call[c].op = "unstage"
                            /\ OnWay(c) /\ DaemonOK(v) /\ (call[c].pc \in Late \/ Stands(v))
    BY <1>0, KillFacts DEF OnWay
  <1>2. call[c] \in Invocation
    BY <1>1 DEF TypeOK
  <1>3. ASSUME AfterDelete(c), DaemonOK(v)' PROVE KillInv'
    <2>1. call' = [call EXCEPT ![c] = [call[c] EXCEPT !.pc = "cleanupStaging", !.dev = NoDev]]
      BY <1>1, <1>3 DEF AfterDelete
    <2>2. call'[c].pc = "cleanupStaging"
      BY <1>1, <1>2, <2>1 DEF TypeOK, Invocation
    <2>3. OnWay(c)' /\ call'[c].pc \in Late
      BY <2>2 DEF OnWay, Mounting, DeletePc, Late
    <2> QED BY <1>0, <1>1, <1>3, <2>3, KillBy
  <1>4. CASE Resolve(c)
    <2>1. call[c].pc = "resolve" /\ UNCHANGED <<unit, dev, VolMap>> /\ alive' = alive
      BY <1>4 DEF Resolve, At, Quiet, hostVars
    <2>2. Live(v)' = Live(v) /\ DaemonOK(v)'
      BY <1>1, <2>1, SameDaemons
    <2>3. CASE Link(v) = {}
      <3>1. AfterDelete(c)
        BY <1>1, <1>4, <2>3 DEF Resolve
      <3> QED BY <1>3, <2>2, <3>1
    <2>4. CASE Link(v) # {}
      <3>1. PICK d : call' = [call EXCEPT ![c] = [call[c] EXCEPT !.pc = "stopUnit", !.dev = d]]
        BY <1>1, <1>4, <2>4 DEF Resolve
      <3>2. call'[c].pc = "stopUnit" /\ call'[c].op = "unstage" /\ staged' = staged
        BY <1>1, <1>2, <1>4, <2>4, <3>1 DEF TypeOK, Invocation, Resolve, kubeletVars
      <3>3. Stands(v)'
        BY <1>1, <2>1, <2>2, <3>2 DEF Late, Stands
      <3>4. OnWay(c)'
        BY <3>2 DEF OnWay, Mounting, DeletePc
      <3> QED BY <1>0, <1>1, <2>2, <3>3, <3>4, KillBy
    <2> QED BY <2>3, <2>4
  <1>5. CASE StopUblkUnit(c)
    <2>1. Goto(c, "ublkDel") /\ StopUnit(v)
      BY <1>1, <1>5 DEF StopUblkUnit
    <2>2. DaemonOK(v)' /\ unit'[v] = "none"
      BY <1>1, <2>1, StopDaemon
    <2>3. call'[c].pc = "ublkDel" /\ call'[c].vol = v /\ call'[c].op = "unstage"
      BY <1>1, <2>1, GotoFields
    <2>4. OnWay(c)' /\ call'[c].pc \in Late
      BY <2>2, <2>3 DEF OnWay, Mounting, Late
    <2> QED BY <1>0, <1>1, <2>2, <2>4, KillBy
  <1>6. CASE StopFails(c)
    <2>1. AfterDelete(c) /\ (StopUnit(v) \/ UNCHANGED <<unit, dev>>)
      BY <1>1, <1>6 DEF StopFails
    <2>2. DaemonOK(v)'
      BY <1>1, <2>1, StopDaemon, SameDaemons
    <2> QED BY <1>3, <2>1, <2>2
  <1>7. CASE DeleteDevice(c)
    <2>1. call[c].pc = "ublkDel" /\ unit[v] = "none" /\ AfterDelete(c)
      BY <1>1, <1>7 DEF DeleteDevice, At, OnWay
    <2>2. PICK d \in DevId : d = call[c].dev /\ dev[d].vol = v
      <3>1. call[c].dev \in DevId \cup {NoDev}
        BY <1>1 DEF TypeOK, Invocation
      <3>2. call[c].dev # NoDev /\ dev[call[c].dev].vol = v
        BY <1>1, <2>1 DEF Killing, HeldInv, HoldsOwnDevice, Holding
      <3> QED BY <3>1, <3>2
    <2>3. dev[d].state # "live" /\ dev[d] # FreeDev
      <3>1. ~Live(v)
        BY <1>1, <2>1 DEF DaemonOK
      <3> QED BY <2>2, <3>1 DEF Live, DevsOf, FreeDev, Killing, HostAssumption
    <2>4. dev' = [dev EXCEPT ![d] = FreeDev] /\ unit' = unit
      BY <1>7, <2>2, <2>3 DEF DeleteDevice, UblkDel
    <2>5. \A e \in DevId : dev'[e].vol = v => dev'[e] = dev[e]
      BY <1>1, <2>4 DEF TypeOK, HostTypeOK, FreeDev, Killing, HostAssumption
    <2>6. DaemonOK(v)'
      BY <1>1, <2>4, <2>5 DEF DaemonOK, Live, DevsOf, Recoverable
    <2> QED BY <1>3, <2>1, <2>6
  <1>8. CASE DeleteDeviceFails(c)
    <2>1. AfterDelete(c) /\ UNCHANGED <<unit, dev>>
      BY <1>8 DEF DeleteDeviceFails, Quiet, hostVars
    <2> QED BY <1>1, <1>3, <2>1, SameDaemons
  <1> QED BY <1>4, <1>5, <1>6, <1>7, <1>8 DEF DeleteUblkDevice

\* NodeUnstageVolume: what it leaves when it fails still stands, and when it is
\* done the volume is not staged.
LEMMA UnstageKills ==
  ASSUME Killing, MountInv', seeded' = seeded, NEW c \in Call, NodeUnstageVolume(c)
  PROVE  KillInv'
  <1>0. /\ call[c].pc \in UnstagePc /\ call[c].pc # "idle" /\ Handler(c) /\ UNCHANGED <<unit, dev>>
    BY DEF NodeUnstageVolume, UnstageCheck, UnmountStaging, UnmountStagingFails, CleanupStaging, DeleteEntry, At,
       UnstagePc, Handler, Quiet, hostVars
  <1>1. PICK v \in Volume : /\ v = call[c].vol /\ alive /\ TypeOK /\ call[c].op = "unstage" /\ call[c].waiting
                            /\ OnWay(c) /\ DaemonOK(v) /\ (call[c].pc \in Late \/ Stands(v))
    BY <1>0, KillFacts DEF OpAt
  <1>2. Live(v)' = Live(v) /\ DaemonOK(v)'
    BY <1>0, <1>1, SameDaemons
  <1>3. CASE UnstageCheck(c)
    <2>1. call[c].pc = "unstageCheck" /\ VolMap' = VolMap
      BY <1>3 DEF UnstageCheck, At, Quiet
    <2>2. CASE VolMap[v] = "absent"
      <3>1. Return(c, TRUE)
        BY <1>1, <1>3, <2>2 DEF UnstageCheck
      <3>2. staged' = [staged EXCEPT ![v] = "no"]
        BY <1>1, <3>1, Told
      <3>3. Stands(v)'
        BY <1>1, <2>1, <2>2, <3>2 DEF Stands, TypeOK
      <3> QED BY <1>0, <1>1, <1>2, <3>1, <3>3, KillAnswers
    <2>3. CASE VolMap[v] # "absent"
      <3>1. Goto(c, "unmountStaging")
        BY <1>1, <1>3, <2>3 DEF UnstageCheck
      <3> QED BY <1>0, <1>1, <2>1, <3>1, KillGoto DEF Mounting, DeletePc, Late
    <2> QED BY <2>2, <2>3
  <1>4. CASE UnmountStaging(c)
    <2>1. call[c].pc = "unmountStaging" /\ VolMap' = VolMap /\ Goto(c, "resolve")
      BY <1>4 DEF UnmountStaging, At
    <2> QED BY <1>0, <1>1, <2>1, KillGoto DEF Mounting, DeletePc, Late
  <1>5. CASE UnmountStagingFails(c)
    <2>1. call[c].pc = "unmountStaging" /\ VolMap' = VolMap /\ Return(c, FALSE)
      BY <1>5 DEF UnmountStagingFails, At, Quiet
    <2>2. staged' = [staged EXCEPT ![v] = "maybe"]
      BY <1>1, <2>1, Told
    <2>3. Stands(v)'
      BY <1>1, <1>2, <2>1, <2>2 DEF Stands, Late, TypeOK
    <2> QED BY <1>0, <1>1, <1>2, <2>1, <2>3, KillAnswers
  <1>6. CASE CleanupStaging(c)
    <2>1. VolMap' = VolMap /\ Goto(c, "delete")
      BY <1>6 DEF CleanupStaging
    <2> QED BY <1>0, <1>1, <2>1, KillGoto DEF Mounting, DeletePc, Late
  <1>7. CASE DeleteEntry(c)
    <2>1. VolMap' = [VolMap EXCEPT ![v] = "absent"] /\ Return(c, TRUE)
      BY <1>1, <1>7 DEF DeleteEntry
    <2>2. staged' = [staged EXCEPT ![v] = "no"]
      BY <1>1, <2>1, Told
    <2>3. Stands(v)'
      BY <1>1, <2>1, <2>2 DEF Stands, TypeOK
    <2> QED BY <1>0, <1>1, <1>2, <2>1, <2>3, KillAnswers
  <1> QED BY <1>3, <1>4, <1>5, <1>6, <1>7 DEF NodeUnstageVolume

\* NodePublishVolume and NodeUnpublishVolume.
LEMMA PathKills ==
  ASSUME Killing, TypeOK', MountInv', seeded' = seeded, NEW c \in Call, NodePublishVolume(c) \/ NodeUnpublishVolume(c)
  PROVE  KillInv'
  <1>0. /\ call[c].pc \in PublishPc \cup UnpublishPc /\ call[c].pc \notin Late /\ call[c].pc # "idle"
        /\ Handler(c) /\ UNCHANGED <<unit, dev, VolMap>>
    BY DEF NodePublishVolume, PublishCheck, BindCheck, BindOk, BindFails, RecordTarget, NodeUnpublishVolume,
           UnpublishCheck, UnmountTarget, UnmountTargetFails, RemoveTarget, At, PublishPc, UnpublishPc, Late,
           Handler, Quiet, hostVars, mounts
  <1>1. PICK v \in Volume : /\ v = call[c].vol /\ alive /\ alive' /\ TypeOK /\ call[c].op \in OnTarget
                            /\ DaemonOK(v) /\ Stands(v)
    BY <1>0, KillFacts, HandlerRuns DEF OpAt
  <1>2. Live(v)' = Live(v) /\ DaemonOK(v)'
    BY <1>0, <1>1, SameDaemons
  <1>3. staged' = staged /\ call'[c].pc \in PublishPc \cup UnpublishPc \cup {"idle"}
    <2>1. CASE Return(c, TRUE) \/ Return(c, FALSE)
      BY <1>1, <2>1, Answers DEF Return, OnVolume, OnTarget
    <2>2. CASE Stays(c)
      <3>1. staged' = staged /\ call'[c].op \in OnTarget
        BY <1>1, <2>2 DEF Stays
      <3>2. OpAt(c)' /\ call'[c].pc \in Pc
        BY DEF MountInv, OnPathOK, TypeOK, Invocation
      <3> QED BY <3>1, <3>2 DEF OpAt, Pc, OnTarget, StagePc, DeletePc, UnstagePc
    <2> QED BY <1>0, <1>1, <2>1, <2>2, HandlerSplits
  <1>4. Stands(v)'
    BY <1>0, <1>1, <1>2, <1>3 DEF Stands
  <1>5. OnWay(c)'
    BY <1>3 DEF OnWay, Mounting, DeletePc, PublishPc, UnpublishPc
  <1> QED BY <1>0, <1>1, <1>2, <1>4, <1>5, KillBy

(***************************************************************************)
(* The kubelet, the host and the process.                                  *)
(***************************************************************************)

\* An invocation that performs nothing, or has only begun, is on no way yet.
LEMMA NotOnWay ==
  ASSUME NEW c \in Call, call'[c].pc \in {"idle", "stageCheck", "unstageCheck", "publishCheck", "unpublishCheck"}
  PROVE  OnWay(c)'
  BY DEF OnWay, Mounting, DeletePc

\* A request changes nothing yet.
LEMMA AskingKills ==
  ASSUME Killing, seeded' = seeded, NEW c \in Call, Kubelet(c)
  PROVE  KillInv'
  <1>1. ~Abandon(c)
    BY DEF Abandon, Can, Killing, Killable
  <1>2. PICK op, pc, v, t, f :
          Begin(c, op, pc, v, t, f) /\ pc \in {"stageCheck", "unstageCheck", "publishCheck", "unpublishCheck"}
    BY <1>1 DEF Kubelet, CallStage, CallUnstage, CallPublish, CallUnpublish
  <1>3. /\ UNCHANGED <<unit, dev, VolMap, staged, alive>> /\ OthersStand(c)
        /\ call'[c].pc = pc /\ call[c].pc = "idle"
    BY <1>2, IdleAt DEF Begin, OthersStand, Idle, hostVars, kubeletVars, Killing, TypeOK
  <1>4. \A w \in Volume : Live(w)' = Live(w) /\ (DaemonOK(w)' <=> DaemonOK(w))
    BY <1>3, SameDaemons
  <1>5. ASSUME NEW w \in Volume PROVE Ending(w)' \/ Stands(w)'
    <2>1. Ending(w) => Ending(w)'
      BY <1>3 DEF Ending, Late, OthersStand
    <2> QED BY <1>3, <1>4, <2>1 DEF Killing, KillInv, Stands
  <1>6. ASSUME NEW o \in Call PROVE OnWay(o)'
    <2>1. CASE o = c
      BY <1>2, <1>3, <2>1, NotOnWay
    <2>2. CASE o # c
      <3>1. call'[o] = call[o] /\ OnWay(o)
        BY <1>3, <2>2 DEF OthersStand, Killing, KillInv
      <3> QED BY <1>3, <3>1 DEF OnWay, Live, DevsOf
    <2> QED BY <2>1, <2>2
  <1> QED BY <1>4, <1>5, <1>6 DEF Killing, KillInv

\* A daemon comes up on a device of its own, or goes before it has one.
LEMMA DaemonKills ==
  ASSUME Killing, Host, NEW w \in Volume
  PROVE  DaemonOK(w)' /\ (Live(w) => Live(w)') /\ (unit[w] = "none" => unit'[w] = "none")
  <1>0. TypeOK /\ DaemonOK(w) /\ DevsOf(w, {"quiesced"}) = {} /\ ~Recoverable(w)
    BY DEF Killing, KillInv, Killable, DaemonOK, Recoverable
  <1>1. PICK v \in Volume : DaemonUp(v) \/ DaemonCrash(v) \/ Respawn(v) \/ StartLimit(v) \/ Collect(v)
    BY DEF Host, HostNext
  <1>2. CASE DaemonUp(v)
    <2>1. ~Recoverable(v) /\ unit[v] = "running" /\ unit' = unit
      BY <1>2 DEF DaemonUp, Killing, Killable, Recoverable
    <2>2. PICK d \in DevId : dev[d] = FreeDev /\ dev' = [dev EXCEPT ![d] = [vol |-> v, state |-> "live"]]
      BY <1>2, <2>1 DEF DaemonUp, FreeIds
    <2>3. \A e \in DevId : dev'[e] = IF e = d THEN [vol |-> v, state |-> "live"] ELSE dev[e]
      BY <1>0, <2>2 DEF TypeOK, HostTypeOK
    <2>4. dev[d].state = "free"
      BY <2>2 DEF FreeDev
    <2>5. Live(w) => Live(w)'
      BY <2>3, <2>4 DEF Live, DevsOf
    <2>6. Live(w)' => w = v \/ Live(w)
      BY <2>3 DEF Live, DevsOf
    <2>7. DevsOf(w, {"quiesced"})' = {}
      BY <1>0, <2>3 DEF DevsOf
    <2> QED BY <1>0, <2>1, <2>5, <2>6, <2>7 DEF DaemonOK
  <1>3. CASE DaemonCrash(v)
    <2>1. /\ ~Live(v) /\ unit' = [unit EXCEPT ![v] = "restarting"] /\ unit[v] = "running"
          /\ DetachDaemon(v, "dead")
      BY <1>3 DEF DaemonCrash, Can, Killing, Killable, Recoverable
    <2>2. \A d \in DevId : dev'[d] = dev[d]
      BY <2>1 DEF DetachDaemon, Live, DevsOf
    <2>3. \A states : DevsOf(w, states)' = DevsOf(w, states)
      BY <2>2 DEF DevsOf
    <2>4. Live(w)' = Live(w) /\ DevsOf(w, {"quiesced"})' = {}
      BY <1>0, <2>3 DEF Live
    <2>5. unit'[w] = IF w = v THEN "restarting" ELSE unit[w]
      BY <1>0, <2>1 DEF TypeOK, HostTypeOK
    <2> QED BY <1>0, <2>1, <2>4, <2>5 DEF DaemonOK
  <1>4. CASE Respawn(v) \/ StartLimit(v) \/ Collect(v)
    <2>1. /\ unit[v] \notin {"running", "none"} /\ dev' = dev
          /\ \A u \in Volume : u # v => unit'[u] = unit[u]
      BY <1>0, <1>4 DEF Respawn, StartLimit, Collect, TypeOK, HostTypeOK
    <2>2. \A states : DevsOf(w, states)' = DevsOf(w, states)
      BY <2>1 DEF DevsOf
    <2>3. Live(w)' = Live(w) /\ DevsOf(w, {"quiesced"})' = {}
      BY <1>0, <2>2 DEF Live
    <2>4. Live(w) => w # v
      BY <1>0, <2>1 DEF DaemonOK
    <2> QED BY <1>0, <2>1, <2>3, <2>4 DEF DaemonOK
  <1> QED BY <1>1, <1>2, <1>3, <1>4

\* ... which takes no device of a volume that stands.
LEMMA HostKills ==
  ASSUME Killing, seeded' = seeded, Host
  PROVE  KillInv'
  <1>1. UNCHANGED <<VolMap, call, alive, staged>>
    BY DEF Host, pluginVars, kubeletVars
  <1>2. ASSUME NEW w \in Volume PROVE Ending(w)' \/ Stands(w)'
    <2>1. Live(w) => Live(w)'
      BY DaemonKills
    <2>2. Ending(w) \/ Stands(w)
      BY DEF Killing, KillInv
    <2> QED BY <1>1, <2>1, <2>2 DEF Stands, Ending
  <1>3. ASSUME NEW c \in Call PROVE OnWay(c)'
    <2>1. CASE call[c].pc = "idle"
      BY <1>1, <2>1, NotOnWay
    <2>2. CASE call[c].pc # "idle"
      <3>1. PICK w \in Volume : w = call[c].vol /\ OnWay(c)
        BY <2>2, KillFacts
      <3>2. (Live(w) => Live(w)') /\ (unit[w] = "none" => unit'[w] = "none")
        BY DaemonKills
      <3> QED BY <1>1, <3>1, <3>2 DEF OnWay
    <2> QED BY <2>1, <2>2
  <1> QED BY <1>2, <1>3, DaemonKills DEF KillInv

\* A process that is killed in the middle of a request leaves the volume standing,
\* or the kubelet in doubt of it.
LEMMA PluginCrashKills ==
  ASSUME Killing, seeded' = seeded, PluginCrash
  PROVE  KillInv'
  <1>1. /\ UNCHANGED <<unit, dev>> /\ ~alive' /\ \A c \in Call : call'[c] = Idle
        /\ \A v \in Volume : VolMap'[v] = "absent"
    BY DEF PluginCrash, DaemonsSurvive, hostVars
  <1>2. \A w \in Volume : Live(w)' = Live(w) /\ (DaemonOK(w)' <=> DaemonOK(w))
    BY <1>1, SameDaemons
  <1>3. ASSUME NEW v \in Volume, staged'[v] = "yes" PROVE Live(v)
    <2>1. staged'[v] = CASE Unanswered("stage", v) -> Doubt("stage", staged[v])
                         [] Unanswered("unstage", v) -> Doubt("unstage", staged[v])
                         [] OTHER -> staged[v]
      BY DEF PluginCrash
    <2>2. staged[v] = "yes"
      BY <1>3, <2>1 DEF Doubt
    <2>3. ASSUME Ending(v) PROVE FALSE
      <3>1. PICK c \in Call : call[c].pc \in Late /\ call[c].vol = v
        BY <2>3 DEF Ending
      <3>2. call[c].op = "unstage" /\ call[c].waiting /\ \A o \in Call : o # c => call[o].vol # v
        BY <3>1, KillFacts DEF Late, OnWay, OpAt, DeletePc, UnstagePc
      <3>3. Unanswered("unstage", v) /\ ~Unanswered("stage", v)
        BY <3>1, <3>2 DEF Unanswered
      <3>4. staged'[v] = "maybe"
        BY <2>1, <3>3 DEF Doubt
      <3> QED BY <1>3, <3>4
    <2> QED BY <2>2, <2>3 DEF Killing, KillInv, Stands
  <1>4. \A v \in Volume : Stands(v)'
    BY <1>1, <1>2, <1>3 DEF Stands
  <1>5. \A c \in Call : OnWay(c)'
    BY <1>1, IdleAt, NotOnWay
  <1> QED BY <1>2, <1>4, <1>5 DEF Killing, KillInv

\* The links say which volumes are staged.
LEMMA SeedKills ==
  ASSUME Killing, Seed
  PROVE  KillInv'
  <1>1. /\ ~alive /\ UNCHANGED <<unit, dev, call, staged>>
        /\ VolMap' = [v \in Volume |-> SeededEntry(v)] \/ (VolMap' = VolMap /\ ~seeded')
    BY DEF Seed, UpdateNodeVolumeMap, hostVars, kubeletVars
  <1>2. \A c \in Call : call[c].pc = "idle"
    BY <1>1, IdleAt DEF Killing, MountInv
  <1>3. ASSUME NEW v \in Volume PROVE Stands(v)'
    <2>1. Stands(v) /\ Live(v)' = Live(v) /\ (Link(v) # {} <=> Live(v))
      BY <1>1, <1>2, SameDaemons, LinkIsLive DEF Killing, KillInv, Ending, Late
    <2>2. CASE VolMap' = [u \in Volume |-> SeededEntry(u)]
      <3>1. VolMap'[v] # "absent" <=> Live(v)
        BY <2>1, <2>2 DEF SeededEntry
      <3> QED BY <1>1, <2>1, <3>1 DEF Stands
    <2>3. CASE VolMap' = VolMap /\ ~seeded'
      BY <1>1, <2>1, <2>3 DEF Stands
    <2> QED BY <1>1, <2>2, <2>3
  <1>4. \A v \in Volume : DaemonOK(v)'
    BY <1>1, SameDaemons DEF Killing, KillInv
  <1>5. \A c \in Call : OnWay(c)'
    BY <1>1, <1>2, NotOnWay
  <1> QED BY <1>3, <1>4, <1>5 DEF KillInv

(***************************************************************************)
(* All steps together.                                                     *)
(***************************************************************************)

\* Every step of the node program keeps it.
LEMMA KillStep ==
  ASSUME NodeAssumption, Killing, MountInv', [PluginNext]_programVars
  PROVE  KillInv'
  <1>0. TypeOK'
    BY StepMaps, TypeStep DEF Killing
  <1>1. ASSUME NEW c \in Call, Requests(c) PROVE KillInv'
    <2>1. seeded' = seeded /\ Kubelet(c)
      BY <1>1 DEF Requests, Inside, lifeVars, Kubelet
    <2> QED BY <2>1, AskingKills
  <1>2. ASSUME NEW c \in Call, Inside(Handler(c)) PROVE KillInv'
    <2>1. seeded' = seeded /\ Handler(c)
      BY <1>2 DEF Inside, lifeVars
    <2> QED BY <1>0, <2>1, StageKills, DeleteKills, UnstageKills, PathKills DEF Handler
  <1>3. CASE Inside(Host)
    BY <1>3, HostKills DEF Inside, lifeVars
  <1>4. ASSUME UNCHANGED <<vars, seeded>> PROVE KillInv'
    <2>1. UNCHANGED <<unit, dev, VolMap, call, alive, staged, seeded>>
      BY <1>4 DEF vars, hostVars, pluginVars, kubeletVars
    <2>2. \A w \in Volume : Live(w)' = Live(w) /\ (DaemonOK(w)' <=> DaemonOK(w))
      BY <2>1, SameDaemons
    <2>3. \A w \in Volume : Ending(w)' \/ Stands(w)'
      BY <2>1, <2>2 DEF Killing, KillInv, Ending, Stands
    <2>4. ASSUME NEW c \in Call PROVE OnWay(c)'
      <3>1. OnWay(c)
        BY DEF Killing, KillInv
      <3> QED BY <2>1, <3>1 DEF OnWay, Live, DevsOf
    <2> QED BY <2>2, <2>3, <2>4 DEF Killing, KillInv
  <1>5. CASE Seed
    BY <1>5, SeedKills
  <1>6. CASE End
    BY <1>4, <1>6, PluginCrashKills DEF End
  <1> QED BY <1>1, <1>2, <1>3, <1>4, <1>5, <1>6 DEF PluginNext, Outside, programVars, lifeVars

\* The invariant, with what it rests on.
KilledInv == TypeOK /\ HeldInv /\ MountInv /\ KillInv

\* It holds when the program is first started ...
LEMMA KilledInit ==
  ASSUME HostAssumption, NodeAssumption, PluginInit
  PROVE  KilledInv
  <1>1. TypeOK /\ MountInv /\ HeldInv
    BY InitType, InitMounts, PluginInit0 DEF PluginInit, PluginInv
  <1>2. \A v \in Volume : DaemonOK(v) /\ Stands(v)
    BY DEF PluginInit, Init, HostInit, DaemonOK, Live, DevsOf, FreeDev, Stands
  <1>3. ASSUME NEW c \in Call PROVE OnWay(c)
    <2>1. call[c].pc = "idle"
      BY IdleAt DEF PluginInit, Init
    <2> QED BY <2>1 DEF OnWay, Mounting, DeletePc
  <1> QED BY <1>1, <1>2, <1>3 DEF KilledInv, KillInv

\* ... every step of the program keeps it, a kill and a start too ...
LEMMA KilledStep ==
  ASSUME HostAssumption, NodeAssumption, Killable, KilledInv, [PluginNext]_programVars
  PROVE  KilledInv'
  <1>1. [Next]_vars /\ "clientTimeout" \notin Faults
    BY StepMaps DEF Killable
  <1>2. TypeOK' /\ HeldInv' /\ MountInv'
    BY <1>1, TypeStep, HeldStep, MountStep DEF KilledInv
  <1>3. Killing
    BY DEF Killing, KilledInv
  <1> QED BY <1>2, <1>3, KillStep DEF KilledInv

\* ... and so it holds of the program.
LEMMA KilledCorrect ==
  ASSUME HostAssumption, NodeAssumption, Killable
  PROVE  PluginSpec => []KilledInv
  BY KilledInit, KilledStep, PTL DEF PluginSpec

\* A block volume that the kubelet was told to be staged is usable whenever the
\* process serves, wherever in a request earlier ones were killed: as long as the
\* last start found out about all volumes.
THEOREM SeededIsBackedHolds ==
  ASSUME HostAssumption, NodeAssumption, Killable
  PROVE  PluginSpec => []SeededIsBacked
  <1>1. KilledInv => SeededIsBacked
    <2> SUFFICES ASSUME KilledInv, seeded, NEW v \in Volume, alive, staged[v] = "yes", Settled(v)
                 PROVE  Usable(v)
      BY DEF SeededIsBacked, StagedIsBacked
    <2>1. Stands(v) /\ DaemonOK(v)
      BY DEF KilledInv, KillInv, Ending, Settled
    <2>2. VolMap[v] # "absent" /\ Live(v) /\ unit[v] = "running"
      BY <2>1 DEF Stands, DaemonOK
    <2> QED BY <2>2 DEF Usable, Killable
  <1> QED BY <1>1, KilledCorrect, PTL

(***************************************************************************)
(* What a pod sees, when the plugin is killed.  A mount that was made      *)
(* before the kill is at a path that may be published, so it is known of   *)
(* until the kubelet is told that it is not there: forgotten, by name.     *)
(***************************************************************************)
Remembered(v, t) == Shown(v, t) /\ Noticed(v, t)

RememberInv == \A v \in Volume, t \in Target : <<v, t>> \notin forgotten => Remembered(v, t)

\* Nothing but forgotten mounts is at a target path of a volume without a device.
LEMMA DeadUnpublished ==
  ASSUME Killing, NEW v \in Volume, ~Live(v), NEW u \in Target, Noticed(v, u)
  PROVE  target[<<v, u>>] = <<>>
  <1>1. CASE Ending(v)
    <2>1. PICK c \in Call : call[c].pc \in Late /\ call[c].vol = v
      BY <1>1 DEF Ending
    <2>2. call[c].op = "unstage" /\ call[c].pc \in AtWork
      BY <2>1, KillFacts DEF Late, OnWay, OpAt, DeletePc, UnstagePc, AtWork
    <2> QED BY <2>1, <2>2, WorkUnpublished DEF Killing
  <1>2. CASE ~Ending(v)
    <2>1. staged[v] # "yes"
      BY <1>2 DEF Killing, KillInv, Stands
    <2>2. published[<<v, u>>] = "no"
      BY <2>1 DEF Killing, MountInv, PathOK
    <2>3. ~Recording(v, u)
      <3>1. ASSUME NEW c \in Call, call[c].pc = "recordTarget", call[c].vol = v PROVE FALSE
        BY <2>1, <3>1, AtPath DEF Killing, OnPathOK, PublishPc, OnTarget
      <3> QED BY <3>1 DEF Recording
    <2> QED BY <2>2, <2>3 DEF Noticed
  <1> QED BY <1>1, <1>2

\* A handler binds what is there, and takes no device of a volume that is published.
LEMMA HandlerShowsKilled ==
  ASSUME Killing, NEW c \in Call, Handler(c), NEW w \in Volume, NEW u \in Target, Remembered(w, u)
  PROVE  Shown(w, u)'
  <1>1. call[c].pc \in {"stopAfterWait", "stopUnit", "ublkDel"} =>
          staged[call[c].vol] # "yes" \/ call[c].op = "unstage"
    BY KillFacts DEF OnWay, DeletePc
  <1>2. ASSUME call[c].pc = "bind" PROVE BindSource(call[c].vol) = {"live"}
    <2>1. PICK v \in Volume : v = call[c].vol /\ v \in BlockVol /\ Stands(v)
      BY <1>2, KillFacts DEF Late
    <2>2. staged[v] = "yes"
      BY <1>2, <2>1, AtPath DEF Killing, OnPathOK, PublishPc, OnTarget
    <2>3. Link(v) # {}
      BY <2>1, <2>2, LinkIsLive DEF Stands
    <2> QED BY <2>1, <2>3 DEF BindSource
  <1> QED BY <1>1, <1>2, HandlerShows DEF Killing, Remembered

\* A daemon that comes or goes has no mount to take.
LEMMA HostShowsKilled ==
  ASSUME Killing, Host, NEW w \in Volume, NEW u \in Target, Remembered(w, u)
  PROVE  Shown(w, u)'
  <1>1. PICK v \in Volume : DaemonUp(v) \/ DaemonCrash(v) \/ Respawn(v) \/ StartLimit(v) \/ Collect(v)
    BY DEF Host, HostNext
  <1>2. CASE DaemonCrash(v)
    <2>1. ~Live(v) /\ LoseMounts(v)
      BY <1>2 DEF DaemonCrash, DetachDaemon, Can, Killing, Killable, Recoverable
    <2>2. CASE w # v
      <3>1. target'[<<w, u>>] = target[<<w, u>>]
        BY <2>1, <2>2, LoseFades DEF Killing
      <3> QED BY <3>1 DEF Shown, Remembered
    <2>3. CASE w = v
      <3>1. target[<<w, u>>] = <<>>
        BY <2>1, <2>3, DeadUnpublished DEF Remembered
      <3>2. Fades(target[<<w, u>>], target'[<<w, u>>])
        BY <2>1, LoseFades DEF Killing
      <3> QED BY <3>1, <3>2 DEF Fades, Shown
    <2> QED BY <2>2, <2>3
  <1>3. CASE DaemonUp(v) \/ Respawn(v) \/ StartLimit(v) \/ Collect(v)
    BY <1>3 DEF DaemonUp, Respawn, StartLimit, Collect, mounts, Shown, Remembered
  <1> QED BY <1>1, <1>2, <1>3

\* What a path without a mount, of which the kubelet does not know, comes to: a
\* publish that has mounted there still has to answer.
LEMMA MountIsNoticed ==
  ASSUME Killing, NEW c \in Call, Handler(c), NEW w \in Volume, NEW u \in Target,
         Noticed(w, u), published[<<w, u>>] = "no", published'[<<w, u>>] = "no"
  PROVE  Noticed(w, u)'
  <1> SUFFICES ASSUME target'[<<w, u>>] # <<>> PROVE Recording(w, u)'
    BY DEF Noticed
  <1>0. TypeOK /\ HostAssumption /\ HeldInv /\ MountInv
    BY DEF Killing
  <1>1. call[c].pc # "idle"
    BY <1>0, IdleAt, HandlerRuns DEF MountInv, OnPathOK, OpAt
  <1>2. OthersStand(c)
    BY <1>0, <1>1, Alone, HandlerLocal
  <1>3. CASE \E o \in Call : o # c /\ call[o].pc = "recordTarget" /\ call[o].vol = w /\ call[o].tgt = u
    BY <1>2, <1>3 DEF Recording, OthersStand
  <1>4. CASE call[c].pc = "recordTarget" /\ call[c].vol = w /\ call[c].tgt = u
    <2>1. RecordTarget(c)
      BY <1>4 DEF Handler, At,
         NodeStageVolume, StageCheck, StartOk, StartRefusedOrFailed, StartReportedFailed, LinkSeen,
         LinkTimeout, StopAfterWait, Validate, Probe, MkfsOk, MkfsFails, MountCheck, StageMountOk,
         StageMountFails, Insert, DeleteUblkDevice, Resolve, StopUblkUnit, StopFails, DeleteDevice,
         DeleteDeviceFails, NodeUnstageVolume, UnstageCheck, UnmountStaging, UnmountStagingFails,
         CleanupStaging, DeleteEntry, NodePublishVolume, PublishCheck, BindCheck, BindOk, BindFails,
         NodeUnpublishVolume, UnpublishCheck, UnmountTarget, UnmountTargetFails, RemoveTarget
    <2>2. call[c].waiting /\ call[c].op = "publish" /\ Return(c, TRUE)
      BY <1>0, <1>4, <2>1, AtPath DEF PublishPc, RecordTarget
    <2>3. call[c].waiting /\ call[c].op \in OnTarget /\ w = call[c].vol /\ u = call[c].tgt
      BY <1>4, <2>2 DEF OnTarget
    <2>4. published'[<<w, u>>] = Learn(call[c].op, TRUE, published[<<w, u>>])
      BY <1>0, <2>2, <2>3, ToldOfPath
    <2>5. published'[<<w, u>>] = "yes"
      BY <2>2, <2>4 DEF Learn
    <2> QED BY <2>5
  <1>5. CASE ~Recording(w, u)
    <2>1. target[<<w, u>>] = <<>>
      BY <1>5 DEF Noticed
    <2>2. CASE KeepsMounts \/ LosesDevice(c) \/ Stages(c) \/ Unstages(c)
      <3>1. Fades(target[<<w, u>>], target'[<<w, u>>])
        BY <1>0, <2>2, LoseFades, SameFades DEF KeepsMounts, LosesDevice, Stages, Unstages
      <3> QED BY <2>1, <3>1 DEF Fades
    <2>3. CASE Binds(c)
      <3>1. call[c].pc \in PublishPc /\ Goto(c, "recordTarget")
        BY <2>3 DEF Binds, PublishPc
      <3>2. PICK v \in Volume, t \in Target : v = call[c].vol /\ t = call[c].tgt
        BY <1>0, <3>1, AtPath
      <3>3. v = w /\ t = u
        <4>1. PICK m : target' = [target EXCEPT ![<<v, t>>] = <<m>> \o @]
          BY <2>3, <3>2 DEF Binds
        <4>2. <<w, u>> # <<v, t>> => target'[<<w, u>>] = target[<<w, u>>]
          BY <1>0, <4>1 DEF TypeOK, HostTypeOK
        <4> QED BY <2>1, <4>2
      <3>4. call'[c].pc = "recordTarget" /\ call'[c].vol = v /\ call'[c].tgt = t
        <4>1. call[c] \in Invocation /\ call'[c] = [call[c] EXCEPT !.pc = "recordTarget"]
          BY <1>0, <3>1 DEF TypeOK, Goto
        <4> QED BY <3>2, <4>1 DEF Invocation
      <3> QED BY <3>3, <3>4 DEF Recording
    <2>4. CASE Unbinds(c)
      <3>1. call[c].pc \in UnpublishPc
        BY <2>4 DEF Unbinds, UnpublishPc
      <3>2. PICK v \in Volume, t \in Target : v = call[c].vol /\ t = call[c].tgt /\ PathOK(v, t)
        BY <1>0, <3>1, AtPath
      <3>3. target' = [target EXCEPT ![<<v, t>>] = <<>>]
        BY <2>4, <3>2, OneMount DEF Unbinds, PathOK
      <3> QED BY <1>0, <2>1, <3>3 DEF TypeOK, HostTypeOK
    <2> QED BY <1>0, <2>2, <2>3, <2>4, HandlerMounts
  <1> QED BY <1>3, <1>4, <1>5 DEF Recording

\* A killed process leaves its mounts to a kubelet that doubts.
LEMMA CrashLeavesDoubt ==
  ASSUME Killing, PluginCrash, NEW v \in Volume, NEW t \in Target, Noticed(v, t)
  PROVE  Noticed(v, t)'
  <1> SUFFICES ASSUME target'[<<v, t>>] # <<>> PROVE published'[<<v, t>>] # "no"
    BY DEF Noticed
  <1>1. target[<<v, t>>] # <<>>
    BY DEF PluginCrash, DaemonsSurvive, hostVars
  <1>2. published'[<<v, t>>] =
          CASE UnansweredAt("publish", v, t) -> Doubt("publish", published[<<v, t>>])
            [] UnansweredAt("unpublish", v, t) -> Doubt("unpublish", published[<<v, t>>])
            [] OTHER -> published[<<v, t>>]
    BY DEF PluginCrash
  <1>3. CASE published[<<v, t>>] # "no"
    BY <1>2, <1>3 DEF Doubt
  <1>4. CASE Recording(v, t)
    <2>1. PICK c \in Call : call[c].pc = "recordTarget" /\ call[c].vol = v /\ call[c].tgt = t
      BY <1>4 DEF Recording
    <2>2. call[c].op = "publish" /\ call[c].waiting /\ \A o \in Call : o # c => call[o].vol # v
      BY <2>1, AtPath DEF PublishPc, Killing
    <2>3. UnansweredAt("publish", v, t) /\ ~UnansweredAt("unpublish", v, t)
      BY <2>1, <2>2 DEF UnansweredAt
    <2> QED BY <1>2, <2>3 DEF Doubt
  <1> QED BY <1>1, <1>3, <1>4 DEF Noticed

\* What a step of the node service does to a path that is not, and has not just
\* been, forgotten.
LEMMA ServiceRemembers ==
  ASSUME NodeAssumption, Killing, NEW v \in Volume, NEW t \in Target, Remembered(v, t),
         target'[<<v, t>>] # <<>>, published[<<v, t>>] # "no" => published'[<<v, t>>] # "no",
         (\E c \in Call : Kubelet(c) \/ Handler(c)) \/ Host
  PROVE  Remembered(v, t)'
  <1>1. CASE \E c \in Call : Kubelet(c)
    <2>1. PICK c \in Call : Kubelet(c)
      BY <1>1
    <2>2. \E op, pc, w, u, f : Begin(c, op, pc, w, u, f)
      BY <2>1 DEF Kubelet, CallStage, CallUnstage, CallPublish, CallUnpublish, Abandon, Can, Killing, Killable
    <2>3. OthersStand(c) /\ UNCHANGED <<published, target>> /\ call[c].pc # "recordTarget"
      BY <2>2, IdleAt DEF Begin, OthersStand, TypeOK, hostVars, kubeletVars, Killing
    <2>4. Recording(v, t) => Recording(v, t)'
      BY <2>3 DEF Recording, OthersStand
    <2> QED BY <2>3, <2>4 DEF Remembered, Shown, Noticed
  <1>2. ASSUME NEW c \in Call, Handler(c) PROVE Remembered(v, t)'
    <2>1. Shown(v, t)'
      BY <1>2, HandlerShowsKilled
    <2>2. Noticed(v, t)'
      <3>1. CASE published'[<<v, t>>] # "no"
        BY <3>1 DEF Noticed
      <3>2. CASE published'[<<v, t>>] = "no"
        BY <1>2, <3>2, MountIsNoticed DEF Remembered
      <3> QED BY <3>1, <3>2
    <2> QED BY <2>1, <2>2 DEF Remembered
  <1>3. CASE Host
    <2>1. Shown(v, t)'
      BY <1>3, HostShowsKilled
    <2>2. UNCHANGED <<published, call>> /\ Fades(target[<<v, t>>], target'[<<v, t>>])
      BY <1>3, HostFades DEF Host, pluginVars, kubeletVars, Killing
    <2>3. Noticed(v, t)'
      BY <2>2 DEF Noticed, Remembered, Recording, Fades
    <2> QED BY <2>1, <2>3 DEF Remembered
  <1> QED BY <1>1, <1>2, <1>3

\* Every step of the program keeps that.
LEMMA RememberStep ==
  ASSUME NodeAssumption, Killing, RememberInv, [PluginNext]_programVars
  PROVE  RememberInv'
  <1> SUFFICES ASSUME NEW v \in Volume, NEW t \in Target, <<v, t>> \notin forgotten', target'[<<v, t>>] # <<>>
               PROVE  Remembered(v, t)'
    BY DEF RememberInv, Remembered, Shown, Noticed
  <1>1. ASSUME NoteForgotten, (\E c \in Call : Kubelet(c) \/ Handler(c)) \/ Host
        PROVE  Remembered(v, t)'
    <2>1. <<v, t>> \notin forgotten /\ (published[<<v, t>>] # "no" => published'[<<v, t>>] # "no")
      BY <1>1 DEF NoteForgotten
    <2> QED BY <1>1, <2>1, ServiceRemembers DEF RememberInv
  <1>2. CASE \E c \in Call : Requests(c) \/ Inside(Handler(c))
    BY <1>1, <1>2 DEF Requests, Inside, Kubelet
  <1>3. CASE Inside(Host)
    BY <1>1, <1>3 DEF Inside
  <1>4. ASSUME UNCHANGED <<target, published, call, forgotten>> PROVE Remembered(v, t)'
    <2>1. Remembered(v, t)
      BY <1>4 DEF RememberInv
    <2> QED BY <1>4, <2>1 DEF Remembered, Shown, Noticed, Recording
  <1>5. CASE Outside(Driver!Proceed) \/ Seed \/ UNCHANGED programVars
    BY <1>4, <1>5 DEF Outside, Seed, UpdateNodeVolumeMap, programVars, vars, hostVars, pluginVars, kubeletVars
  <1>6. CASE End
    <2>1. forgotten' = forgotten /\ (PluginCrash \/ UNCHANGED vars)
      BY <1>6 DEF End
    <2>2. CASE PluginCrash
      <3>1. Remembered(v, t) /\ target' = target
        BY <2>1, <2>2 DEF RememberInv, PluginCrash, DaemonsSurvive, hostVars
      <3>2. Noticed(v, t)'
        BY <2>2, <3>1, CrashLeavesDoubt DEF Remembered
      <3> QED BY <3>1, <3>2 DEF Remembered, Shown
    <2> QED BY <1>4, <2>1, <2>2 DEF vars, hostVars, pluginVars, kubeletVars
  <1> QED BY <1>2, <1>3, <1>5, <1>6 DEF PluginNext

\* What is published is a live mount of the volume, also when the plugin was
\* killed anywhere in its requests and came back with or without its map, unless
\* a mount is left there that the kubelet has been told is not there.
THEOREM RememberedIsLiveHolds ==
  ASSUME HostAssumption, NodeAssumption, Killable
  PROVE  PluginSpec => []RememberedIsLive
  <1>1. PluginInit => RememberInv
    <2> SUFFICES ASSUME PluginInit PROVE RememberInv
      OBVIOUS
    <2>1. \A v \in Volume, t \in Target : target[<<v, t>>] = <<>>
      BY DEF PluginInit, Init, HostInit
    <2> QED BY <2>1 DEF RememberInv, Remembered, Shown, Noticed
  <1>2. KilledInv /\ RememberInv /\ [PluginNext]_programVars => RememberInv'
    BY RememberStep DEF Killing, KilledInv
  <1>3. KilledInv /\ RememberInv => RememberedIsLive
    BY ShownIsLive DEF KilledInv, RememberInv, Remembered, RememberedIsLive
  <1> QED BY <1>1, <1>2, <1>3, KilledCorrect, PTL DEF PluginSpec
=============================================================================
