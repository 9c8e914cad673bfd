-------------------------- MODULE NodePromiseProofs --------------------------
(***************************************************************************)
(* What TLAPS proves of the node program (NodePlugin).  It implements      *)
(* NodeServer, so that what is proved of NodeServer holds of it.  With     *)
(* StageInv, under the faults of NodeStageProofs, and while the process is *)
(* stopped gracefully or dies between two requests, it keeps               *)
(* StagedIsBacked and UnstagedIsClean, and it implements StagedVolume.     *)
(***************************************************************************)
EXTENDS NodePlugin, NodeStageProofs

\* The process' own steps leave the node service alone.
LEMMA StepMaps == ASSUME [PluginNext]_programVars PROVE [Next]_vars
  <1>1. ASSUME NEW c \in Call, Requests(c) \/ Inside(Handler(c)) PROVE Next
    BY <1>1 DEF Requests, Inside, Next, Kubelet
  <1>2. CASE Inside(Host) \/ Seed
    BY <1>2 DEF Inside, Seed, Next
  <1>3. CASE Outside(Driver!Proceed) \/ End
    BY <1>3 DEF Outside, End, Next
  <1>4. CASE UNCHANGED programVars
    BY <1>4 DEF programVars
  <1> QED BY <1>1, <1>2, <1>3, <1>4 DEF PluginNext

\* The node program, with its starts, stops and socket, is a node service as
\* NodeServer describes it: its process never does to VolMap, the invocations
\* or the host what NodeServer does not allow.
THEOREM ImplementsNodeServer == PluginSpec => Spec
  BY StepMaps, PTL DEF PluginSpec, PluginInit, Spec

\* However the program is stopped, killed and started, the id that a handler
\* will pass to `ublk del` is of no other volume.
THEOREM PluginHeldIsOwn ==
  ASSUME HostAssumption, NodeAssumption, "clientTimeout" \notin Faults
  PROVE  PluginSpec => []HeldIsOwn
  BY ImplementsNodeServer, HeldIsOwnHolds, PTL

\* The program's state stays well formed: main and Run go through their phases,
\* and the service through its steps, whatever fails and whoever stops it.
THEOREM PluginTypeCorrect ==
  ASSUME HostAssumption, NodeAssumption
  PROVE  PluginSpec => []PluginTypeOK
  <1>1. PluginInit => PluginTypeOK
    BY InitType DEF PluginInit, PluginTypeOK, Driver!DriverInit, Driver!DriverTypeOK, Driver!Phase,
       Driver!Running
  <1>2. PluginTypeOK /\ [PluginNext]_programVars => PluginTypeOK'
    <2> SUFFICES ASSUME PluginTypeOK, [PluginNext]_programVars PROVE PluginTypeOK'
      OBVIOUS
    <2>1. TypeOK'
      BY StepMaps, TypeStep DEF PluginTypeOK
    <2>2. /\ phase \in Driver!Phase
          /\ signal \in {"none", "queued", "cancelled"}
          /\ socket \in {"absent", "bound", "stale"}
          /\ seeded \in BOOLEAN
      BY DEF PluginTypeOK, Driver!DriverTypeOK
    <2>3. /\ phase' \in Driver!Phase
          /\ signal' \in {"none", "queued", "cancelled"}
          /\ socket' \in {"absent", "bound", "stale"}
          /\ seeded' \in BOOLEAN
      <3>1. CASE UNCHANGED lifeVars
        BY <2>2, <3>1 DEF lifeVars
      <3>2. ASSUME NEW c \in Call, Requests(c) \/ Inside(Handler(c)) PROVE UNCHANGED lifeVars
        BY <3>2 DEF Requests, Inside
      <3>3. Inside(Host) \/ UNCHANGED programVars => UNCHANGED lifeVars
        BY DEF Inside, programVars
      <3>4. CASE Outside(Driver!Proceed)
        BY <2>2, <3>4 DEF Outside, Driver!Phase, Driver!Running, Driver!Proceed, Driver!Start,
           Driver!Connect, Driver!RemoveSocket, Driver!Listen, Driver!Serve, Driver!Signal,
           Driver!Cancel, Driver!GracefulStop, Driver!Goto
      <3>5. CASE Seed
        BY <2>2, <3>5 DEF Seed, Driver!Phase, Driver!Running, Driver!Seed, Driver!Goto
      <3>6. CASE End
        BY <2>2, <3>6 DEF End, Driver!Phase, Driver!Exit, Driver!Fail, Driver!Kill,
           Driver!ConnectFails, Driver!RemoveFails, Driver!ListenFails, Driver!StopEarly,
           Driver!SignalKills, Driver!Gone
      <3> QED BY <3>1, <3>2, <3>3, <3>4, <3>5, <3>6 DEF PluginNext
    <2>4. forgotten' \subseteq Volume \X Target
      <3>1. NoteForgotten \/ forgotten' = forgotten
        BY DEF PluginNext, Requests, Inside, Outside, Seed, End, programVars
      <3> QED BY <3>1 DEF NoteForgotten, PluginTypeOK
    <2> QED BY <2>1, <2>3, <2>4 DEF PluginTypeOK, Driver!DriverTypeOK
  <1> QED BY <1>1, <1>2, PTL DEF PluginSpec

-----------------------------------------------------------------------------
(***************************************************************************)
(* What StagedVolume sees of each volume.                                  *)
(***************************************************************************)
Asked == [v \in Volume |-> RequestOn(v)]
Seen == [v \in Volume |-> StateOf(v)]

\* A volume at rest is clean or usable, as the kubelet holds; so it is after
\* a step.
SeenOK ==
  \A v \in Volume : RestOK(v) =>
    /\ staged[v] = "no" => Untouched(v) /\ StateOf(v) = "clean"
    /\ staged[v] # "no" => Usable(v) /\ StateOf(v) = "usable"

\* That is so in every state.
LEMMA SeenAtRest == SeenOK /\ SeenOK'
  <1>1. SeenOK
    <2> SUFFICES ASSUME NEW v \in Volume, RestOK(v)
                 PROVE  /\ staged[v] = "no" => Untouched(v) /\ StateOf(v) = "clean"
                        /\ staged[v] # "no" => Usable(v) /\ StateOf(v) = "usable"
      BY DEF SeenOK
    <2>1. ASSUME staged[v] = "no" PROVE Untouched(v)
      BY <2>1 DEF RestOK, Clean, Down, Empty, Untouched, DevsOf
    <2>2. ASSUME staged[v] # "no" PROVE Usable(v) /\ unit[v] = "running"
      <3>1. Full(v)
        BY <2>2 DEF RestOK
      <3>2. v \in BlockVol \/ LiveAt(staging[v])
        BY <3>1 DEF Full, MountOf, LiveAt, MountedAt
      <3> QED BY <3>1, <3>2 DEF Full, Up, Only, Usable, Live, DevsOf
    <2> QED BY <2>1, <2>2 DEF StateOf, Untouched
  <1> QED BY <1>1, PTL

\* The only invocation for a volume makes the request on it.
AskedOK ==
  HostAssumption /\ HeldInv => \A v \in Volume :
    /\ (\A c \in Call : call[c].vol # v) => RequestOn(v) = "none"
    /\ \A c \in Call : call[c].vol = v =>
         RequestOn(v) = IF call[c].op \in OnVolume THEN call[c].op ELSE "none"

\* That is so in every state.
LEMMA AskedByOne == AskedOK /\ AskedOK'
  <1>1. AskedOK
    <2> SUFFICES ASSUME HostAssumption, HeldInv, NEW v \in Volume
                 PROVE  /\ (\A c \in Call : call[c].vol # v) => RequestOn(v) = "none"
                        /\ \A c \in Call : call[c].vol = v =>
                             RequestOn(v) = IF call[c].op \in OnVolume THEN call[c].op ELSE "none"
      BY DEF AskedOK
    <2>1. ASSUME NEW c \in Call, call[c].vol = v
          PROVE  /\ call[c].waiting
                 /\ \A op : Unanswered(op, v) <=> call[c].op = op
      BY <2>1 DEF HeldInv, OneCallPerVolume, HostAssumption, Unanswered
    <2>2. ASSUME \A c \in Call : call[c].vol # v PROVE \A op : ~Unanswered(op, v)
      BY <2>2 DEF Unanswered
    <2> QED BY <2>1, <2>2 DEF RequestOn, OnVolume
  <1> QED BY <1>1, PTL

(***************************************************************************)
(* StagedIsBacked and UnstagedIsClean.                                     *)
(***************************************************************************)
LEMMA SettledIsRight ==
  ASSUME StageInv
  PROVE  StagedIsBacked /\ UnstagedIsClean
  <1>1. \A v \in Volume : Settled(v) => RestOK(v)
    BY DEF Settled, AtRest, StageInv
  <1> QED BY <1>1, SeenAtRest DEF SeenOK, StagedIsBacked, UnstagedIsClean

(***************************************************************************)
(* The process ends in the middle of a request only when it is killed.     *)
(***************************************************************************)
GracefulLife ==
  /\ alive <=> phase \in Driver!Running
  /\ phase \notin {"serve", "drain"} => NoneInFlight

\* Handlers run within a process, and only for requests that are in flight.
LEMMA HandlerRuns ==
  ASSUME NEW c \in Call, Handler(c)
  PROVE  alive' = alive /\ call[c] # Idle
  <1>1. Idle.pc = "idle"
    BY DEF Idle
  <1> QED BY <1>1 DEF Handler, At, Quiet,
       NodeStageVolume, StageCheck, StartOk, StartRefusedOrFailed, StartReportedFailed, LinkSeen,
       LinkTimeout, StopAfterWait, Validate, Probe, MkfsOk, MkfsFails, MountCheck, StageMountOk,
       StageMountFails, Insert, DeleteUblkDevice, Resolve, StopUblkUnit, StopFails, DeleteDevice,
       DeleteDeviceFails, NodeUnstageVolume, UnstageCheck, UnmountStaging, UnmountStagingFails,
       CleanupStaging, DeleteEntry, NodePublishVolume, PublishCheck, BindCheck, BindOk, BindFails, RecordTarget,
       NodeUnpublishVolume, UnpublishCheck, UnmountTarget, UnmountTargetFails, RemoveTarget

\* A graceful stop waits for the requests in flight, and the map is there as
\* long as the process may serve.
LEMMA LifeStep ==
  ASSUME "kill" \notin Upsets, GracefulLife, [PluginNext]_programVars
  PROVE  GracefulLife' /\ (alive /\ ~alive' => NoneInFlight)
  <1>1. ASSUME NEW c \in Call, Requests(c) PROVE GracefulLife' /\ alive' = alive
    <2>1. phase' = phase
      BY <1>1 DEF Requests, Inside, lifeVars
    <2>2. alive' = alive
      BY <1>1 DEF Requests, Inside, Kubelet, CallStage, CallUnstage, CallPublish, CallUnpublish, Begin, Abandon
    <2>3. call[c] # Idle \/ phase = "serve"
      <3>1. ~Idle.waiting
        BY DEF Idle
      <3> QED BY <1>1, <3>1 DEF Requests, Inside, Abandon
    <2> QED BY <2>1, <2>2, <2>3 DEF GracefulLife, NoneInFlight
  <1>2. ASSUME NEW c \in Call, Inside(Handler(c)) PROVE GracefulLife' /\ alive' = alive
    <2>1. phase' = phase
      BY <1>2 DEF Inside, lifeVars
    <2>2. alive' = alive /\ call[c] # Idle
      BY <1>2, HandlerRuns DEF Inside
    <2> QED BY <2>1, <2>2 DEF GracefulLife, NoneInFlight
  <1>3. CASE Inside(Host) \/ UNCHANGED programVars
    BY <1>3 DEF Inside, lifeVars, Host, pluginVars, programVars, vars, GracefulLife, NoneInFlight
  <1>4. CASE Outside(Driver!Proceed)
    <2>1. alive' = alive /\ call' = call
      BY <1>4 DEF Outside, vars, pluginVars
    <2>2. /\ phase' \in Driver!Running <=> phase \in Driver!Running
          /\ phase \in {"serve", "drain"} => phase' \in {"serve", "drain"}
      BY <1>4 DEF Outside, Driver!Proceed, Driver!Start, Driver!Connect, Driver!RemoveSocket,
         Driver!Listen, Driver!Serve, Driver!Signal, Driver!Cancel, Driver!GracefulStop, Driver!Goto,
         Driver!Running
    <2> QED BY <2>1, <2>2 DEF GracefulLife, NoneInFlight
  <1>5. CASE Seed
    BY <1>5 DEF Seed, UpdateNodeVolumeMap, Driver!Seed, Driver!Goto, Driver!Running, GracefulLife, NoneInFlight
  <1>6. CASE End
    <2>1. phase' = "down" /\ NoneInFlight
      BY <1>6 DEF End, Driver!Exit, Driver!Fail, Driver!Kill, Driver!ConnectFails, Driver!RemoveFails,
         Driver!ListenFails, Driver!StopEarly, Driver!SignalKills, Driver!Gone, GracefulLife
    <2>2. ~alive' /\ \A c \in Call : call'[c] = Idle
      BY <1>6, <2>1 DEF End, PluginCrash, vars, pluginVars, NoneInFlight
    <2> QED BY <2>1, <2>2 DEF GracefulLife, NoneInFlight, Driver!Running
  <1> QED BY <1>1, <1>2, <1>3, <1>4, <1>5, <1>6 DEF PluginNext

PluginInv == TypeOK /\ HeldInv /\ StageInv /\ GracefulLife

\* The invariant of the node program holds when it is first started.
LEMMA PluginInit0 ==
  ASSUME HostAssumption, NodeAssumption, PluginInit
  PROVE  PluginInv
  <1>1. TypeOK /\ StageInv
    BY InitType, InitStage DEF PluginInit
  <1>2. HeldInv
    <2>1. Idle.vol = NoVol /\ Idle.pc \notin Holding /\ Idle.dev = NoDev
      BY DEF Idle, Holding
    <2> QED BY <2>1 DEF PluginInit, Init, HeldInv, OneCallPerVolume, HoldsOwnDevice
  <1>3. GracefulLife
    BY DEF PluginInit, Init, Driver!DriverInit, Driver!Running, GracefulLife
  <1> QED BY <1>1, <1>2, <1>3 DEF PluginInv

\* Every step of the node program keeps it, and is a step of NodeServer that kills no request in flight.
LEMMA PluginStep ==
  ASSUME HostAssumption, NodeAssumption, EnoughIds, Faults \subseteq Tolerated, "kill" \notin Upsets,
         PluginInv, [PluginNext]_programVars
  PROVE  PluginInv' /\ [Next]_vars /\ (alive /\ ~alive' => NoneInFlight)
  <1>1. [Next]_vars /\ "clientTimeout" \notin Faults
    BY StepMaps DEF Tolerated
  <1>2. TypeOK' /\ HeldInv'
    BY <1>1, TypeStep, HeldStep DEF PluginInv
  <1>3. GracefulLife' /\ (alive /\ ~alive' => NoneInFlight)
    BY LifeStep DEF PluginInv
  <1>4. StageInv'
    BY <1>1, <1>2, <1>3, StageStep DEF PluginInv, NoneInFlight
  <1> QED BY <1>1, <1>2, <1>3, <1>4 DEF PluginInv

\* The invariant holds of the node program.
LEMMA PluginCorrect ==
  ASSUME HostAssumption, NodeAssumption, EnoughIds, Faults \subseteq Tolerated, "kill" \notin Upsets
  PROVE  PluginSpec => []PluginInv
  BY PluginInit0, PluginStep, PTL DEF PluginSpec

\* A volume that the kubelet was told to be staged can be published from: it has
\* its device, its staging mount and its map entry, over any failed operations
\* of other volumes and any number of graceful restarts.
THEOREM StagedIsBackedHolds ==
  ASSUME HostAssumption, NodeAssumption, EnoughIds, Faults \subseteq Tolerated, "kill" \notin Upsets
  PROVE  PluginSpec => []StagedIsBacked
  <1>1. PluginInv => StagedIsBacked
    BY SettledIsRight DEF PluginInv
  <1> QED BY <1>1, PluginCorrect, PTL

\* A volume that was unstaged, or whose stage failed, has given back unit, ublk
\* device, staging mount and map entry.
THEOREM UnstagedIsCleanHolds ==
  ASSUME HostAssumption, NodeAssumption, EnoughIds, Faults \subseteq Tolerated, "kill" \notin Upsets
  PROVE  PluginSpec => []UnstagedIsClean
  <1>1. PluginInv => UnstagedIsClean
    BY SettledIsRight DEF PluginInv
  <1> QED BY <1>1, PluginCorrect, PTL

(***************************************************************************)
(* The refinement of StagedVolume.                                         *)
(***************************************************************************)
SameView(v) ==
  staged'[v] = staged[v] /\ RequestOn(v)' = RequestOn(v) /\ StateOf(v)' = StateOf(v)

ViewBegins(v) ==
  /\ RequestOn(v) = "none" /\ RequestOn(v)' \in {"stage", "unstage"}
  /\ RequestOn(v)' = "unstage" => staged[v] # "no"
  /\ staged'[v] = staged[v] /\ StateOf(v)' = StateOf(v)

ViewWorks(v) ==
  /\ staged'[v] = staged[v] /\ RequestOn(v)' = RequestOn(v)
  /\ StateOf(v)' \in Staged!Moves(v)

ViewAnswers(v) ==
  /\ RequestOn(v)' = "none"
  /\ StateOf(v)' \in Staged!Moves(v)
  /\ staged'[v] \in Staged!Answers(v, StateOf(v)')

\* A step that the kubelet can see on one volume at most, and there as a step
\* of StagedVolume, is one of StagedVolume.
LEMMA ViewStep ==
  ASSUME TypeOK, TypeOK', NEW v \in Volume, \A w \in Volume : w # v => SameView(w),
         SameView(v) \/ ViewBegins(v) \/ ViewWorks(v) \/ ViewAnswers(v)
  PROVE  [Staged!Next]_(Staged!stagedVars)
  <1>1. staged' = [staged EXCEPT ![v] = staged'[v]]
    BY DEF TypeOK, SameView
  <1>2. Asked' = [Asked EXCEPT ![v] = RequestOn(v)'] /\ Asked[v] = RequestOn(v)
    BY DEF Asked, SameView
  <1>3. Seen' = [Seen EXCEPT ![v] = StateOf(v)'] /\ Seen[v] = StateOf(v)
    BY DEF Seen, SameView
  <1>4. staged = [staged EXCEPT ![v] = staged[v]] /\ Asked = [Asked EXCEPT ![v] = Asked[v]]
        /\ Seen = [Seen EXCEPT ![v] = Seen[v]]
    BY DEF TypeOK, Asked, Seen
  <1>5. CASE SameView(v)
    BY <1>1, <1>2, <1>3, <1>4, <1>5 DEF SameView, Staged!stagedVars, Asked, Seen
  <1>6. CASE ViewBegins(v)
    <2>1. Staged!Begin(v)
      BY <1>1, <1>2, <1>3, <1>4, <1>6 DEF ViewBegins, Staged!Begin, Asked, Seen
    <2> QED BY <2>1 DEF Staged!Next
  <1>7. CASE ViewWorks(v)
    <2>1. Staged!Work(v)
      BY <1>1, <1>2, <1>3, <1>4, <1>7 DEF ViewWorks, Staged!Work, Asked, Seen
    <2> QED BY <2>1 DEF Staged!Next
  <1>8. CASE ViewAnswers(v)
    <2>1. Staged!Answer(v)
      BY <1>1, <1>2, <1>3, <1>4, <1>8 DEF ViewAnswers, Staged!Answer, Asked, Seen
    <2> QED BY <2>1 DEF Staged!Next
  <1> QED BY <1>5, <1>6, <1>7, <1>8

\* A step of a handler answers its request, or goes on with it.
Stays(c) ==
  /\ OthersStand(c) /\ staged' = staged
  /\ call'[c].op = call[c].op /\ call'[c].vol = call[c].vol /\ call'[c].waiting = call[c].waiting

\* That is so of every handler.
LEMMA HandlerSplits ==
  ASSUME TypeOK, NEW c \in Call, Handler(c)
  PROVE  Return(c, TRUE) \/ Return(c, FALSE) \/ Stays(c)
  <1> DEFINE Split == Return(c, TRUE) \/ Return(c, FALSE) \/ Stays(c)
  <1>1. ASSUME NEW r, call' = [call EXCEPT ![c] = r], UNCHANGED kubeletVars,
               r.op = call[c].op, r.vol = call[c].vol, r.waiting = call[c].waiting
        PROVE  Split
    BY <1>1 DEF Stays, OthersStand, TypeOK, kubeletVars
  <1>2. call[c] \in Invocation
    BY DEF TypeOK
  <1>3. ASSUME NEW pc, Goto(c, pc) PROVE Split
    BY <1>3, GotoFields DEF Stays
  <1>4. ASSUME AfterDelete(c) PROVE Split
    <2> DEFINE r == [call[c] EXCEPT !.pc = "cleanupStaging", !.dev = NoDev]
    <2>1. r.op = call[c].op /\ r.vol = call[c].vol /\ r.waiting = call[c].waiting
      BY <1>2 DEF Invocation
    <2>2. Return(c, FALSE) \/ (call' = [call EXCEPT ![c] = r] /\ UNCHANGED kubeletVars)
      BY <1>4 DEF AfterDelete
    <2> HIDE DEF r
    <2> QED BY <1>1, <2>1, <2>2
  <1>5. CASE NodeStageVolume(c)
    <2>1. CASE Probe(c)
      <3> SUFFICES ASSUME ~Goto(c, "resolve") PROVE Split
        BY <1>3
      <3>1. PICK existing :
              /\ UNCHANGED kubeletVars
              /\ \/ call' = [call EXCEPT ![c] = [call[c] EXCEPT !.pc = "mkfs"]]
                 \/ call' = [call EXCEPT ![c] = [call[c] EXCEPT !.pc = "mountCheck", !.fs = existing]]
        BY <2>1, ProbeFinds
      <3>2. /\ [call[c] EXCEPT !.pc = "mkfs"].op = call[c].op
            /\ [call[c] EXCEPT !.pc = "mkfs"].vol = call[c].vol
            /\ [call[c] EXCEPT !.pc = "mkfs"].waiting = call[c].waiting
            /\ [call[c] EXCEPT !.pc = "mountCheck", !.fs = existing].op = call[c].op
            /\ [call[c] EXCEPT !.pc = "mountCheck", !.fs = existing].vol = call[c].vol
            /\ [call[c] EXCEPT !.pc = "mountCheck", !.fs = existing].waiting = call[c].waiting
        BY <1>2 DEF Invocation
      <3> QED BY <1>1, <3>1, <3>2
    <2>2. CASE ~Probe(c)
      BY <1>3, <1>5, <2>2 DEF NodeStageVolume, StageCheck, StartOk, StartRefusedOrFailed, StartReportedFailed,
         LinkSeen, LinkTimeout, StopAfterWait, Validate, MkfsOk, MkfsFails, MountCheck, StageMountOk,
         StageMountFails, Insert
    <2> QED BY <2>1, <2>2
  <1>6. CASE DeleteUblkDevice(c)
    <2>1. CASE Resolve(c)
      <3>1. \/ AfterDelete(c)
            \/ \E d : call' = [call EXCEPT ![c] = [call[c] EXCEPT !.pc = "stopUnit", !.dev = d]] /\ UNCHANGED kubeletVars
        BY <2>1 DEF Resolve
      <3>2. ASSUME NEW d, call' = [call EXCEPT ![c] = [call[c] EXCEPT !.pc = "stopUnit", !.dev = d]],
                   UNCHANGED kubeletVars
            PROVE  Split
        <4>1. /\ [call[c] EXCEPT !.pc = "stopUnit", !.dev = d].op = call[c].op
              /\ [call[c] EXCEPT !.pc = "stopUnit", !.dev = d].vol = call[c].vol
              /\ [call[c] EXCEPT !.pc = "stopUnit", !.dev = d].waiting = call[c].waiting
          BY <1>2 DEF Invocation
        <4> QED BY <1>1, <3>2, <4>1
      <3> QED BY <1>4, <3>1, <3>2
    <2> QED BY <1>3, <1>4, <1>6, <2>1 DEF DeleteUblkDevice, StopUblkUnit, StopFails, DeleteDevice, DeleteDeviceFails
  <1>7. CASE NodeUnstageVolume(c) \/ NodePublishVolume(c)
    BY <1>3, <1>7 DEF NodeUnstageVolume, UnstageCheck, UnmountStaging, UnmountStagingFails, CleanupStaging,
       DeleteEntry, NodePublishVolume, PublishCheck, BindCheck, BindOk, BindFails, RecordTarget
  <1>8. CASE NodeUnpublishVolume(c)
    <2>1. CASE UnpublishCheck(c)
      <3>1. PICK known : call' = [call EXCEPT ![c] = [call[c] EXCEPT !.pc = "unmountTarget", !.known = known]]
        BY <2>1 DEF UnpublishCheck
      <3>2. /\ [call[c] EXCEPT !.pc = "unmountTarget", !.known = known].op = call[c].op
            /\ [call[c] EXCEPT !.pc = "unmountTarget", !.known = known].vol = call[c].vol
            /\ [call[c] EXCEPT !.pc = "unmountTarget", !.known = known].waiting = call[c].waiting
        BY <1>2 DEF Invocation
      <3> QED BY <1>1, <2>1, <3>1, <3>2 DEF UnpublishCheck
    <2> QED BY <1>3, <1>8, <2>1 DEF NodeUnpublishVolume, UnmountTarget, UnmountTargetFails, RemoveTarget
  <1> QED BY <1>5, <1>6, <1>7, <1>8 DEF Handler

\* A handler touches nothing of another volume.
LEMMA HandlerLocal ==
  ASSUME HostAssumption, TypeOK, HeldInv, NEW c \in Call, Handler(c),
         NEW v \in Volume, v = call[c].vol
  PROVE  OthersUntouched(v) /\ OthersStand(c) /\ call'[c].vol \in {v, NoVol}
  <1>1. /\ OthersStand(c) /\ call'[c].vol \in {v, NoVol}
        /\ \A w \in Volume : w # v => staged'[w] = staged[w]
    <2>1. Idle.vol = NoVol
      BY DEF Idle
    <2> QED BY <2>1, HandlerSplits DEF Return, Stays, OthersStand, TypeOK
  <1>2. \A w \in Volume : w # v => VolMap'[w] = VolMap[w]
    BY DEF Handler, Quiet, TypeOK,
       NodeStageVolume, StageCheck, StartOk, StartRefusedOrFailed, StartReportedFailed, LinkSeen,
       LinkTimeout, StopAfterWait, Validate, Probe, MkfsOk, MkfsFails, MountCheck, StageMountOk,
       StageMountFails, Insert, DeleteUblkDevice, Resolve, StopUblkUnit, StopFails, DeleteDevice,
       DeleteDeviceFails, NodeUnstageVolume, UnstageCheck, UnmountStaging, UnmountStagingFails,
       CleanupStaging, DeleteEntry, NodePublishVolume, PublishCheck, BindCheck, BindOk, BindFails, RecordTarget,
       NodeUnpublishVolume, UnpublishCheck, UnmountTarget, UnmountTargetFails, RemoveTarget
  <1> DEFINE Elsewhere ==
        /\ \A w \in Volume : w # v => unit'[w] = unit[w] /\ staging'[w] = staging[w]
        /\ \A d \in DevId : dev'[d] = dev[d] \/ {dev[d].vol, dev'[d].vol} \subseteq {v, NoVol}
  <1>3. ASSUME UNCHANGED <<unit, dev, mounts>> PROVE Elsewhere
    BY <1>3 DEF mounts
  <1>4. ASSUME LoseMounts(v) PROVE \A w \in Volume : w # v => staging'[w] = staging[w]
    BY <1>4 DEF LoseMounts, TypeOK, HostTypeOK
  <1>5. ASSUME StopUnit(v) PROVE Elsewhere
    <2>1. PICK left : DetachDaemon(v, left)
      BY <1>5 DEF StopUnit
    <2>2. \A w \in Volume : w # v => staging'[w] = staging[w]
      BY <1>4, <2>1 DEF DetachDaemon, mounts
    <2>3. \A d \in DevId : dev'[d] = dev[d] \/ {dev[d].vol, dev'[d].vol} \subseteq {v, NoVol}
      BY <2>1 DEF DetachDaemon
    <2> QED BY <1>5, <2>2, <2>3 DEF StopUnit, TypeOK, HostTypeOK
  <1>6. Elsewhere
    <2>1. CASE NodeStageVolume(c)
      <3>1. CASE StopAfterWait(c)
        BY <1>3, <1>5, <3>1 DEF StopAfterWait, mounts
      <3> QED BY <1>3, <2>1, <3>1 DEF NodeStageVolume, StageCheck, StartOk, StartUnit, StartRefusedOrFailed,
           StartReportedFailed, LinkSeen, LinkTimeout, Validate, Probe, MkfsOk, MkfsFails, MountCheck,
           StageMountOk, StageMountFails, Insert, Quiet, hostVars, mounts, TypeOK, HostTypeOK
    <2>2. CASE DeleteUblkDevice(c)
      <3>1. CASE StopUblkUnit(c) \/ StopFails(c)
        BY <1>3, <1>5, <3>1 DEF StopUblkUnit, StopFails
      <3>2. CASE DeleteDevice(c)
        <4>1. call[c].pc = "ublkDel"
          BY <3>2 DEF DeleteDevice, At
        <4>2. call[c].dev # NoDev /\ dev[call[c].dev].vol = v
          BY <4>1 DEF HeldInv, HoldsOwnDevice, Holding
        <4>3. PICK d \in DevId : d = call[c].dev
          <5>1. call[c].dev \in DevId \cup {NoDev}
            BY DEF TypeOK, Invocation
          <5> QED BY <4>2, <5>1
        <4>4. /\ dev' = [dev EXCEPT ![d] = FreeDev]
              /\ LoseMounts(v)
              /\ unit' = unit \/ \E s : unit' = [unit EXCEPT ![v] = s]
          BY <3>2, <4>2, <4>3 DEF DeleteDevice, UblkDel, FreeDev, HostAssumption
        <4> QED BY <1>4, <4>2, <4>3, <4>4 DEF FreeDev, TypeOK, HostTypeOK
      <3> QED BY <1>3, <2>2, <3>1, <3>2 DEF DeleteUblkDevice, Resolve, DeleteDeviceFails, Quiet, hostVars, mounts
    <2>3. CASE NodeUnstageVolume(c)
      BY <2>3 DEF NodeUnstageVolume, UnstageCheck, UnmountStaging, UnmountStagingFails, CleanupStaging,
         DeleteEntry, Quiet, hostVars, mounts, TypeOK, HostTypeOK
    <2>4. CASE NodePublishVolume(c) \/ NodeUnpublishVolume(c)
      BY <2>4 DEF NodePublishVolume, PublishCheck, BindCheck, BindOk, BindFails, RecordTarget,
         NodeUnpublishVolume, UnpublishCheck, UnmountTarget, UnmountTargetFails, RemoveTarget,
         Quiet, hostVars, mounts
    <2> QED BY <2>1, <2>2, <2>3, <2>4 DEF Handler
  <1> QED BY <1>1, <1>2, <1>6 DEF OthersUntouched

\* What a step for one volume does to what is seen of another one.
LEMMA OthersSame ==
  ASSUME HostAssumption, HeldInv, NEW c \in Call, NEW v, NEW w \in Volume, w # v,
         OthersUntouched(v), OthersStand(c), alive' = alive,
         call[c].vol \in {v, NoVol}, call'[c].vol \in {v, NoVol}
  PROVE  SameView(w)
  <1>1. /\ unit'[w] = unit[w] /\ staging'[w] = staging[w] /\ VolMap'[w] = VolMap[w]
        /\ staged'[w] = staged[w]
        /\ \A states : DevsOf(w, states)' = DevsOf(w, states)
    BY OtherVolume
  <1>2. \A op : Unanswered(op, w)' <=> Unanswered(op, w)
    BY DEF Unanswered, OthersStand, HostAssumption
  <1>3. RequestOn(w)' = RequestOn(w)
    BY <1>2 DEF RequestOn
  <1>4. StateOf(w)' = StateOf(w)
    BY <1>1 DEF StateOf, Untouched, Usable, Live
  <1> QED BY <1>1, <1>3, <1>4 DEF SameView

\* The request on a volume is that of its invocation, until it is answered.
LEMMA AskedAfter ==
  ASSUME HostAssumption, TypeOK, HeldInv, HeldInv', NEW c \in Call, NEW v \in Volume, v = call[c].vol
  PROVE  /\ RequestOn(v) = IF call[c].op \in OnVolume THEN call[c].op ELSE "none"
         /\ Stays(c) => RequestOn(v)' = RequestOn(v)
         /\ \A ok : Return(c, ok) => RequestOn(v)' = "none"
  <1>1. RequestOn(v) = IF call[c].op \in OnVolume THEN call[c].op ELSE "none"
    BY AskedByOne DEF AskedOK
  <1>2. ASSUME Stays(c) PROVE RequestOn(v)' = RequestOn(v)
    <2>1. call'[c].vol = v /\ call'[c].op = call[c].op
      BY <1>2 DEF Stays
    <2> QED BY <1>1, <2>1, AskedByOne DEF AskedOK
  <1>3. ASSUME NEW ok, Return(c, ok) PROVE RequestOn(v)' = "none"
    <2>1. call'[c].vol = NoVol /\ \A o \in Call : o # c => call'[o] = call[o]
      BY <1>3 DEF Return, Idle, TypeOK
    <2>2. \A o \in Call : call'[o].vol # v
      BY <2>1 DEF HeldInv, OneCallPerVolume, HostAssumption
    <2> QED BY <2>2, AskedByOne DEF AskedOK
  <1> QED BY <1>1, <1>2, <1>3

\* Publishing and unpublishing do nothing to the staged volume.
LEMMA TargetView ==
  ASSUME HostAssumption, TypeOK, HeldInv, HeldInv', StageInv, NEW c \in Call,
         NodePublishVolume(c) \/ NodeUnpublishVolume(c), NEW v \in Volume, v = call[c].vol
  PROVE  SameView(v)
  <1>1. call[c].op \in OnTarget
    BY DEF NodePublishVolume, PublishCheck, BindCheck, BindOk, BindFails, RecordTarget, NodeUnpublishVolume,
           UnpublishCheck, UnmountTarget, UnmountTargetFails, RemoveTarget, At, PublishPc, UnpublishPc,
           StageInv, Good, OpAt
  <1>2. UNCHANGED <<unit, dev, staging, VolMap, alive>>
    BY DEF NodePublishVolume, PublishCheck, BindCheck, BindOk, BindFails, RecordTarget, NodeUnpublishVolume,
           UnpublishCheck, UnmountTarget, UnmountTargetFails, RemoveTarget, Quiet, hostVars, mounts
  <1>3. Return(c, TRUE) \/ Return(c, FALSE) \/ Stays(c)
    BY HandlerSplits DEF Handler
  <1>4. staged' = staged
    BY <1>1, <1>3 DEF Return, Stays, OnTarget, OnVolume
  <1>5. RequestOn(v)' = RequestOn(v)
    BY <1>1, <1>3, AskedAfter DEF OnTarget, OnVolume
  <1>6. StateOf(v)' = StateOf(v)
    BY <1>2 DEF StateOf, Untouched, Usable, Live, DevsOf
  <1> QED BY <1>4, <1>5, <1>6 DEF SameView

\* Once its only invocation has answered, a volume is at rest.
LEMMA ReturnRests ==
  ASSUME HostAssumption, TypeOK, HeldInv, StageInv', NEW c \in Call, NEW v \in Volume, v = call[c].vol,
         NEW ok, Return(c, ok)
  PROVE  RestOK(v)' /\ \A o \in Call : call'[o].vol # v
  <1>1. call'[c].vol = NoVol /\ \A o \in Call : o # c => call'[o] = call[o]
    BY DEF Return, Idle, TypeOK
  <1>2. \A o \in Call : call'[o].vol # v
    BY <1>1 DEF HeldInv, OneCallPerVolume, HostAssumption
  <1> QED BY <1>2 DEF StageInv, AtRest

\* A stage answers "done" with the volume usable and "failed" with nothing left.
LEMMA StageView ==
  ASSUME HostAssumption, TypeOK, TypeOK', HeldInv, HeldInv', StageInv, StageInv', NEW c \in Call,
         NodeStageVolume(c) \/ (DeleteUblkDevice(c) /\ call[c].op = "stage"),
         NEW v \in Volume, v = call[c].vol
  PROVE  SameView(v) \/ ViewWorks(v) \/ ViewAnswers(v)
  <1>1. /\ call[c].op = "stage" /\ call[c].pc \in (StagePc \cup DeletePc) /\ call[c].pc # "idle"
    <2>1. CASE NodeStageVolume(c)
      <3>1. call[c].pc \in StagePc
        BY <2>1 DEF NodeStageVolume, StageCheck, StartOk, StartRefusedOrFailed,
           StartReportedFailed, LinkSeen, LinkTimeout, StopAfterWait, Validate, Probe, MkfsOk, MkfsFails,
           MountCheck, StageMountOk, StageMountFails, Insert, At, StagePc
      <3> QED BY <3>1 DEF StageInv, Good, OpAt, StagePc
    <2>2. CASE DeleteUblkDevice(c) /\ call[c].op = "stage"
      BY <2>2 DEF DeleteUblkDevice, Resolve, StopUblkUnit, StopFails, DeleteDevice, DeleteDeviceFails,
         At, DeletePc
    <2> QED BY <2>1, <2>2
  <1>2. RequestOn(v) = "stage" /\ call[c].waiting /\ alive /\ alive'
    <2>1. call[c].waiting /\ alive
      BY <1>1, InFlight
    <2> QED BY <1>1, <2>1, AskedAfter, HandlerRuns DEF OnVolume, Handler
  <1>3. Return(c, TRUE) \/ Return(c, FALSE) \/ Stays(c)
    BY HandlerSplits DEF Handler
  <1>4. ASSUME NEW ok, Return(c, ok) PROVE RestOK(v)'
    BY <1>4, ReturnRests
  <1>5. CASE StageCheck(c)
    <2>1. call[c].pc = "stageCheck" /\ UNCHANGED <<unit, dev, staging, VolMap, alive>>
      BY <1>5 DEF StageCheck, At, Quiet, hostVars
    <2>2. StateOf(v)' = StateOf(v)
      BY <2>1 DEF StateOf, Untouched, Usable, Live, DevsOf
    <2>3. CASE Return(c, TRUE)
      <3>1. staged'[v] = "yes"
        <4>1. staged' = [staged EXCEPT ![v] = "yes"]
          BY <1>1, <1>2, <2>3, Told
        <4> QED BY <4>1 DEF TypeOK
      <3>2. StateOf(v)' = "usable"
        BY <1>4, <2>3, <3>1, SeenAtRest DEF SeenOK
      <3> QED BY <1>2, <2>2, <2>3, <3>1, <3>2, AskedAfter
           DEF ViewAnswers, Staged!Moves, Staged!Answers
    <2>4. CASE Goto(c, "startUnit")
      <3>1. Stays(c)
        BY <2>4, GotoFields DEF Stays
      <3> QED BY <2>2, <3>1, AskedAfter DEF SameView, Stays
    <2> QED BY <1>5, <2>3, <2>4 DEF StageCheck
  <1>6. CASE ~StageCheck(c)
    <2>1. call[c].pc \in Work
      BY <1>1, <1>6 DEF NodeStageVolume, StartOk, StartRefusedOrFailed,
           StartReportedFailed, LinkSeen, LinkTimeout, StopAfterWait, Validate, Probe, MkfsOk, MkfsFails,
           MountCheck, StageMountOk, StageMountFails, Insert, DeleteUblkDevice, Resolve, StopUblkUnit,
           StopFails, DeleteDevice, DeleteDeviceFails, At, StagePc, Work, DeletePc
    <2>2. staged[v] = "no" /\ VolMap[v] = "absent"
      BY <1>1, <2>1, InFlight DEF WorkOK
    <2>3. StateOf(v) # "usable"
      BY <1>2, <2>2 DEF StateOf, Usable
    <2>4. StateOf(v)' \in Staged!Moves(v)
      BY <1>2, <2>3 DEF StateOf, Staged!Moves
    <2>5. CASE Stays(c)
      BY <1>2, <2>4, <2>5, AskedAfter DEF ViewWorks, Stays
    <2>6. CASE Return(c, TRUE) \/ Return(c, FALSE)
      <3>1. staged'[v] \in {"yes", "no"}
        <4>1. staged' = [staged EXCEPT ![v] = "yes"] \/ staged' = staged
          BY <1>1, <1>2, <2>2, <2>6, Told
        <4> QED BY <2>2, <4>1 DEF TypeOK
      <3>2. RestOK(v)'
        BY <1>4, <2>6
      <3>3. /\ staged'[v] = "no" => StateOf(v)' = "clean"
            /\ staged'[v] # "no" => StateOf(v)' = "usable"
        BY <3>2, SeenAtRest DEF SeenOK
      <3> QED BY <1>2, <2>4, <2>6, <3>1, <3>3, AskedAfter DEF ViewAnswers, Staged!Answers
    <2> QED BY <1>3, <2>5, <2>6
  <1> QED BY <1>5, <1>6

\* An unstage never completes a volume, and leaves nothing when it succeeds.
LEMMA UnstageView ==
  ASSUME HostAssumption, Faults \subseteq Tolerated,
         TypeOK, TypeOK', HeldInv, HeldInv', StageInv, StageInv', NEW c \in Call,
         NodeUnstageVolume(c) \/ (DeleteUblkDevice(c) /\ call[c].op = "unstage"),
         NEW v \in Volume, v = call[c].vol
  PROVE  SameView(v) \/ ViewWorks(v) \/ ViewAnswers(v)
  <1>1. /\ call[c].op = "unstage" /\ call[c].pc # "idle"
        /\ call[c].pc \in Work <=> ~UnstageCheck(c)
    <2>1. CASE NodeUnstageVolume(c)
      <3>1. /\ call[c].pc \in UnstagePc
            /\ call[c].pc = "unstageCheck" <=> UnstageCheck(c)
        BY <2>1 DEF NodeUnstageVolume, UnstageCheck, UnmountStaging, UnmountStagingFails, CleanupStaging,
           DeleteEntry, At, UnstagePc
      <3> QED BY <3>1 DEF StageInv, Good, OpAt, UnstagePc, Work, StagePc, DeletePc
    <2>2. CASE DeleteUblkDevice(c) /\ call[c].op = "unstage"
      BY <2>2 DEF DeleteUblkDevice, Resolve, StopUblkUnit, StopFails, DeleteDevice, DeleteDeviceFails,
         UnstageCheck, At, DeletePc, Work
    <2> QED BY <2>1, <2>2
  <1>2. RequestOn(v) = "unstage" /\ call[c].waiting /\ alive /\ alive'
    <2>1. call[c].waiting /\ alive
      BY <1>1, InFlight
    <2> QED BY <1>1, <2>1, AskedAfter, HandlerRuns DEF OnVolume, Handler
  <1>3. Return(c, TRUE) \/ Return(c, FALSE) \/ Stays(c)
    BY HandlerSplits DEF Handler
  <1>4. /\ StateOf(v)' \in {"clean", "partial", "usable"} /\ StateOf(v) \in {"clean", "partial", "usable"}
        /\ Staged!Moves(v) = IF StateOf(v) = "usable" THEN {"usable", "partial"} ELSE {"partial", "clean"}
    BY <1>2 DEF StateOf, Staged!Moves
  <1>5. call[c].pc \in Work => WorkOK(c) /\ staged[v] # "no" /\ VolMap[v] # "absent"
    <2>1. call[c].pc \in Work => WorkOK(c)
      BY <1>1, InFlight
    <2> QED BY <1>1, <2>1 DEF WorkOK
  <1>6. StateOf(v)' \in Staged!Moves(v)
    <2>1. CASE UnstageCheck(c) \/ Resolve(c) \/ UnmountStagingFails(c)
      <3>1. UNCHANGED <<unit, dev, staging, VolMap, alive>>
        BY <2>1 DEF UnstageCheck, Resolve, UnmountStagingFails, Quiet, hostVars
      <3>2. StateOf(v)' = StateOf(v)
        BY <3>1 DEF StateOf, Untouched, Usable, Live, DevsOf
      <3> QED BY <1>4, <3>2
    <2>2. CASE UnmountStaging(c)
      <3>1. call[c].pc = "unmountStaging" /\ UNCHANGED <<unit, VolMap>>
        BY <2>2 DEF UnmountStaging, At
      <3>2. Up(v) /\ staging[v] = MountOf(v) /\ VolMap[v] # "absent"
        BY <1>5, <3>1 DEF WorkOK, Work, UnstagePc, DeletePc
      <3>3. Full(v)
        BY <3>2 DEF Full
      <3>4. RestOK(v)
        BY <1>5, <3>1, <3>3 DEF RestOK, Work, UnstagePc
      <3>5. StateOf(v) = "usable"
        BY <1>5, <3>1, <3>4, SeenAtRest DEF SeenOK, Work, UnstagePc
      <3>6. StateOf(v)' # "clean"
        BY <3>1, <3>2 DEF StateOf, Untouched
      <3> QED BY <1>4, <3>5, <3>6
    <2>3. CASE StopUblkUnit(c) \/ DeleteDevice(c) \/ CleanupStaging(c)
      <3>1. call'[c].pc \in {"ublkDel", "cleanupStaging", "delete"} /\ call'[c].op = "unstage"
            /\ call'[c].vol = v
        <4>1. CASE DeleteDevice(c)
          <5>1. call' = [call EXCEPT ![c] = [call[c] EXCEPT !.pc = "cleanupStaging", !.dev = NoDev]]
            BY <1>1, <4>1 DEF DeleteDevice, AfterDelete
          <5>2. call[c] \in Invocation
            BY DEF TypeOK
          <5> QED BY <1>1, <5>1, <5>2 DEF TypeOK, Invocation
        <4>2. CASE StopUblkUnit(c) \/ CleanupStaging(c)
          BY <1>1, <4>2, GotoFields DEF StopUblkUnit, CleanupStaging
        <4> QED BY <2>3, <4>1, <4>2
      <3>2. WorkOK(c)'
        BY <3>1 DEF StageInv, Good, Work, DeletePc, UnstagePc
      <3>3. unit'[v] = "none" /\ VolMap'[v] # "absent"
        BY <3>1, <3>2 DEF WorkOK, Down
      <3> QED BY <1>4, <3>3 DEF StateOf, Untouched, Usable
    <2>4. CASE DeleteEntry(c)
      <3>1. call[c].pc = "delete" /\ UNCHANGED unit
        BY <2>4 DEF DeleteEntry, At, hostVars
      <3>2. unit[v] = "none"
        BY <1>5, <3>1 DEF WorkOK, Work, UnstagePc, Down
      <3> QED BY <1>4, <3>1, <3>2 DEF StateOf, Usable
    <2>5. ~StopFails(c) /\ ~DeleteDeviceFails(c)
      BY DEF StopFails, DeleteDeviceFails, Can, Tolerated
    <2> QED BY <2>1, <2>2, <2>3, <2>4, <2>5 DEF NodeUnstageVolume, DeleteUblkDevice
  <1>7. CASE Stays(c)
    BY <1>6, <1>7, AskedAfter DEF ViewWorks, Stays
  <1>8. CASE Return(c, TRUE) \/ Return(c, FALSE)
    <2>1. staged'[v] \in {"no", "maybe"}
      <3>1. staged' = [staged EXCEPT ![v] = "no"] \/ staged' = [staged EXCEPT ![v] = "maybe"]
        BY <1>1, <1>2, <1>8, Told
      <3> QED BY <3>1 DEF TypeOK
    <2>2. RestOK(v)'
      BY <1>8, ReturnRests
    <2>3. staged'[v] = "no" => StateOf(v)' = "clean"
      BY <2>2, SeenAtRest DEF SeenOK
    <2> QED BY <1>2, <1>6, <1>8, <2>1, <2>3, AskedAfter DEF ViewAnswers, Staged!Answers
  <1> QED BY <1>3, <1>7, <1>8

\* What a handler does, seen from the kubelet.
LEMMA HandlerView ==
  ASSUME HostAssumption, Faults \subseteq Tolerated,
         TypeOK, TypeOK', HeldInv, HeldInv', StageInv, StageInv', NEW c \in Call, Handler(c)
  PROVE  [Staged!Next]_(Staged!stagedVars)
  <1>1. call[c].pc # "idle"
    BY HandlerRuns DEF StageInv, Good, OpAt
  <1>2. PICK v \in Volume : v = call[c].vol
    BY <1>1, InFlight
  <1>3. SameView(v) \/ ViewWorks(v) \/ ViewAnswers(v)
    <2>1. CASE DeleteUblkDevice(c)
      <3>1. call[c].op \in {"stage", "unstage"}
        BY <2>1 DEF DeleteUblkDevice, Resolve, StopUblkUnit, StopFails, DeleteDevice, DeleteDeviceFails,
           At, DeletePc, StageInv, Good, OpAt
      <3> QED BY <1>2, <2>1, <3>1, StageView, UnstageView
    <2> QED BY <1>2, <2>1, StageView, UnstageView, TargetView DEF Handler
  <1>4. \A w \in Volume : w # v => SameView(w)
    BY <1>2, HandlerRuns, HandlerLocal, OthersSame
  <1> QED BY <1>3, <1>4, ViewStep

\* A request begins; a volume is unstaged only while it may be staged.
LEMMA KubeletView ==
  ASSUME HostAssumption, NodeAssumption, "clientTimeout" \notin Faults,
         TypeOK, TypeOK', HeldInv, HeldInv', StageInv, NEW c \in Call, Kubelet(c)
  PROVE  [Staged!Next]_(Staged!stagedVars)
  <1>1. ~Abandon(c)
    BY DEF Abandon, Can
  <1> DEFINE Requested(v) == \E op \in Ops : \E pc, t, f :
                              Begin(c, op, pc, v, t, f) /\ (op = "unstage" => staged[v] # "no")
  <1>2. PICK v \in Volume : Requested(v)
    <2>1. ASSUME NEW v, NEW op, NEW pc, NEW t, NEW f, Begin(c, op, pc, v, t, f),
                 op = "unstage" => staged[v] # "no"
          PROVE  Requested(v)
      <3>1. op \in Ops
        BY <2>1 DEF Begin
      <3> QED BY <2>1, <3>1
    <2> HIDE DEF Requested
    <2>2. ASSUME NEW v \in Volume, CallStage(c, v) PROVE Requested(v)
      <3>1. PICK f : Begin(c, "stage", "stageCheck", v, NoTgt, f)
        BY <2>2 DEF CallStage
      <3> QED BY <2>1, <3>1
    <2>3. ASSUME NEW v \in Volume, CallUnstage(c, v) PROVE Requested(v)
      BY <2>1, <2>3 DEF CallUnstage
    <2>4. ASSUME NEW v \in Volume, NEW t \in Target, CallPublish(c, v, t) PROVE Requested(v)
      <3>1. Begin(c, "publish", "publishCheck", v, t, "")
        BY <2>4 DEF CallPublish
      <3> QED BY <2>1, <3>1
    <2>5. ASSUME NEW v \in Volume, NEW t \in Target, CallUnpublish(c, v, t) PROVE Requested(v)
      <3>1. Begin(c, "unpublish", "unpublishCheck", v, t, "")
        BY <2>5 DEF CallUnpublish
      <3> QED BY <2>1, <3>1
    <2> QED BY <1>1, <2>2, <2>3, <2>4, <2>5 DEF Kubelet
  <1>3. PICK op \in Ops : \E pc, t, f :
               Begin(c, op, pc, v, t, f) /\ (op = "unstage" => staged[v] # "no")
    BY <1>2
  <1>3a. PICK pc, t, f : Begin(c, op, pc, v, t, f) /\ (op = "unstage" => staged[v] # "no")
    BY <1>3
  <1>4. /\ call[c] = Idle /\ call'[c].op = op /\ call'[c].vol = v /\ OthersStand(c)
        /\ UNCHANGED <<unit, dev, staging, VolMap, alive, staged>>
    BY <1>3a DEF Begin, Idle, OthersStand, TypeOK, hostVars, kubeletVars
  <1>5. RequestOn(v) = "none"
    <2>1. \A o \in Call : call[o].vol # v
      BY <1>3a DEF Begin, Busy, HeldInv, OneCallPerVolume, HostAssumption
    <2> QED BY <2>1, AskedByOne DEF AskedOK
  <1>6. RequestOn(v)' = IF op \in OnVolume THEN op ELSE "none"
    BY <1>4, AskedByOne DEF AskedOK
  <1>7. StateOf(v)' = StateOf(v)
    BY <1>4 DEF StateOf, Untouched, Usable, Live, DevsOf
  <1>8. SameView(v) \/ ViewBegins(v)
    BY <1>3a, <1>4, <1>5, <1>6, <1>7 DEF SameView, ViewBegins, OnVolume
  <1>9. \A w \in Volume : w # v => SameView(w)
    <2>1. OthersUntouched(v)
      BY <1>4, QuietUntouched
    <2>2. call[c].vol = NoVol
      <3>1. Idle.vol = NoVol
        BY DEF Idle
      <3> QED BY <1>4, <3>1
    <2> QED BY <1>4, <2>1, <2>2, OthersSame
  <1> QED BY <1>8, <1>9, ViewStep

\* The device shows up in the middle of a stage.
LEMMA HostView ==
  ASSUME HostAssumption, Faults \subseteq Tolerated,
         TypeOK, TypeOK', HeldInv, HeldInv', StageInv, Host
  PROVE  [Staged!Next]_(Staged!stagedVars)
  <1>1. PICK v \in Volume, c \in Call :
          /\ call[c].vol = v /\ call[c].pc = "waitLink"
          /\ UNCHANGED <<unit, staging, VolMap, alive, staged, call>> /\ OthersUntouched(v)
    BY HostStep
  <1>2. call[c].op = "stage" /\ alive /\ VolMap[v] = "absent"
    BY <1>1, AtStageWork DEF StagePc
  <1>3. RequestOn(v) = "stage" /\ RequestOn(v)' = "stage"
    BY <1>1, <1>2, AskedByOne DEF AskedOK, OnVolume
  <1>4. StateOf(v)' \in Staged!Moves(v)
    BY <1>2, <1>3 DEF StateOf, Usable, Staged!Moves
  <1>5. ViewWorks(v)
    BY <1>1, <1>3, <1>4 DEF ViewWorks
  <1>6. \A w \in Volume : w # v => SameView(w)
    BY <1>1, OthersSame DEF OthersStand
  <1> QED BY <1>5, <1>6, ViewStep

\* Between two requests the process can end, and come back, unseen.
LEMMA RestView ==
  ASSUME HostAssumption, HeldInv, HeldInv', StageInv, StageInv', staged' = staged,
         \A c \in Call : call[c] = Idle /\ call'[c] = Idle
  PROVE  UNCHANGED Staged!stagedVars
  <1>1. Idle.vol = NoVol /\ Idle.pc \notin Work
    BY DEF Idle, Work, StagePc, DeletePc, UnstagePc
  <1>2. ASSUME NEW v \in Volume PROVE RequestOn(v) = "none" /\ RequestOn(v)' = "none"
    BY <1>1, AskedByOne DEF AskedOK, HostAssumption
  <1>3. ASSUME NEW v \in Volume PROVE StateOf(v)' = StateOf(v)
    <2>1. RestOK(v) /\ RestOK(v)'
      BY <1>1 DEF StageInv, AtRest
    <2> QED BY <2>1, SeenAtRest DEF SeenOK
  <1> QED BY <1>2, <1>3 DEF Staged!stagedVars

\* Every step of NodeServer is a step of StagedVolume, or none.
LEMMA StepView ==
  ASSUME HostAssumption, NodeAssumption, EnoughIds, Faults \subseteq Tolerated, "kill" \notin Upsets,
         PluginInv, [PluginNext]_programVars
  PROVE  [Staged!Next]_(Staged!stagedVars)
  <1>1. PluginInv' /\ [Next]_vars /\ (alive /\ ~alive' => NoneInFlight) /\ "clientTimeout" \notin Faults
    BY PluginStep DEF Tolerated
  <1>2. CASE \E c \in Call : Kubelet(c) \/ Handler(c)
    BY <1>1, <1>2, KubeletView, HandlerView DEF PluginInv
  <1>3. CASE Host
    BY <1>1, <1>3, HostView DEF PluginInv
  <1>4. CASE PluginCrash
    <2>1. \A c \in Call : call[c] = Idle /\ call'[c] = Idle
      BY <1>1, <1>4 DEF PluginCrash, NoneInFlight
    <2>2. staged' = staged
      <3>1. ~Idle.waiting
        BY DEF Idle
      <3>2. staged' = [v \in Volume |-> staged[v]]
        BY <1>4, <2>1, <3>1 DEF PluginCrash, Unanswered
      <3> QED BY <3>2 DEF PluginInv, TypeOK
    <2> QED BY <1>1, <2>1, <2>2, RestView DEF PluginInv
  <1>5. CASE UpdateNodeVolumeMap
    <2>1. /\ \A c \in Call : call[c] = Idle /\ call'[c] = Idle
          /\ staged' = staged
      BY <1>5 DEF UpdateNodeVolumeMap, kubeletVars, PluginInv, StageInv
    <2> QED BY <1>1, <2>1, RestView DEF PluginInv
  <1>6. CASE UNCHANGED vars
    <2>1. UNCHANGED <<unit, dev, staging, VolMap, call, staged, alive>>
      BY <1>6 DEF vars, hostVars, pluginVars, kubeletVars
    <2>2. \A v : StateOf(v)' = StateOf(v)
      BY <2>1 DEF StateOf, Untouched, Usable, Live, DevsOf
    <2>3. \A v : RequestOn(v)' = RequestOn(v)
      BY <2>1 DEF RequestOn, Unanswered
    <2> QED BY <2>1, <2>2, <2>3 DEF Staged!stagedVars
  <1> QED BY <1>1, <1>2, <1>3, <1>4, <1>5, <1>6 DEF Next

\* Seen from the kubelet, the node program is StagedVolume.
THEOREM PluginKeepsStagePromise ==
  ASSUME HostAssumption, NodeAssumption, EnoughIds, Faults \subseteq Tolerated, "kill" \notin Upsets
  PROVE  PluginSpec => KeepsStagePromise
  <1>1. PluginInit => PluginInv
    BY PluginInit0
  <1>2. PluginInit => Staged!Init
    <2> SUFFICES ASSUME PluginInit PROVE Staged!Init
      OBVIOUS
    <2>1. Idle.vol = NoVol /\ Idle.pc \notin Work
      BY DEF Idle, Work, StagePc, DeletePc, UnstagePc
    <2>2. \A c \in Call : call[c] = Idle
      BY DEF PluginInit, Init
    <2>3. PluginInv /\ staged = [v \in Volume |-> "no"]
      BY <1>1 DEF PluginInit, Init
    <2>4. ASSUME NEW v \in Volume PROVE RequestOn(v) = "none"
      BY <2>1, <2>2, <2>3, AskedByOne DEF AskedOK, HostAssumption, PluginInv
    <2>5. ASSUME NEW v \in Volume PROVE StateOf(v) = "clean"
      <3>1. RestOK(v)
        BY <2>1, <2>2, <2>3 DEF PluginInv, StageInv, AtRest
      <3> QED BY <2>3, <3>1, SeenAtRest DEF SeenOK
    <2> QED BY <2>3, <2>4, <2>5 DEF Staged!Init
  <1>3. PluginInv /\ [PluginNext]_programVars => PluginInv' /\ [Staged!Next]_(Staged!stagedVars)
    BY PluginStep, StepView
  <1> QED BY <1>1, <1>2, <1>3, PTL DEF PluginSpec, KeepsStagePromise, Staged!Spec
=============================================================================
