----------------------------- MODULE NodePlugin -----------------------------
(***************************************************************************)
(* The node program as a whole: the node service (NodeServer) inside the   *)
(* life of its process (DriverServer).  VolMap is seeded before the socket *)
(* is served, requests come in while it is, a graceful stop lets those in  *)
(* flight run to their end, and everything the process held dies with it.  *)
(* Each step of the program is a step of NodeServer, of DriverServer, or   *)
(* of both; "alive" is that the process has its map.  Faults must contain  *)
(* "pluginCrash"; how the process may end, Upsets says.                    *)
(***************************************************************************)
EXTENDS NodeServer

CONSTANT Upsets

VARIABLES
  phase, signal, socket,   \* of DriverServer
  seeded,      \* history: at the last start the map had what the links said
  forgotten    \* history: target paths with a mount left that the kubelet was
               \* told is not there

Driver == INSTANCE DriverServer

ASSUME PluginAssumption == Upsets \subseteq Driver!UpsetKind

lifeVars == <<phase, signal, socket, seeded>>
programVars == <<vars, lifeVars, forgotten>>

PluginTypeOK ==
  /\ TypeOK
  /\ Driver!DriverTypeOK
  /\ seeded \in BOOLEAN
  /\ forgotten \subseteq Volume \X Target

PluginInit ==
  /\ Init
  /\ Driver!DriverInit
  /\ seeded = TRUE
  /\ forgotten = {}

\* An answer by which the kubelet holds a path as not published any more, though
\* something is mounted there, until that is unmounted.
NoteForgotten ==
  forgotten' = {p \in Volume \X Target :
                  /\ target'[p] # <<>>
                  /\ p \in forgotten \/ (published[p] # "no" /\ published'[p] = "no")}

\* A step of the node service that its process takes no part in, and the other
\* way round.
Inside(A) == A /\ UNCHANGED lifeVars /\ NoteForgotten
Outside(A) == A /\ UNCHANGED <<vars, seeded, forgotten>>

\* Only a process that serves gets requests; the kubelet may give one up later.
Requests(c) == Inside((phase = "serve" /\ Kubelet(c)) \/ Abandon(c))

\* Mutant: the map is not seeded.
StartsEmpty ==
  /\ Driver!Seed
  /\ alive' = TRUE
  /\ UNCHANGED <<hostVars, VolMap, call, kubeletVars, seeded, forgotten>>

\* UpdateNodeVolumeMap, with the whole map or, when the control plane cannot be
\* listed, without an entry.
Seed ==
  /\ Driver!Seed
  /\ UpdateNodeVolumeMap
  /\ seeded' = (VolMap' = [v \in Volume |-> SeededEntry(v)])
  /\ UNCHANGED forgotten

NoneInFlight == \A c \in Call : call[c] = Idle

\* However the process ends, its map and its invocations end with it.
End ==
  /\ Driver!Exit(NoneInFlight) \/ Driver!Fail \/ Driver!Kill(NoneInFlight)
  /\ IF alive THEN PluginCrash ELSE UNCHANGED vars
  /\ UNCHANGED <<seeded, forgotten>>

PluginNext ==
  \/ \E c \in Call : Requests(c) \/ Inside(Handler(c))
  \/ Inside(Host)
  \/ Outside(Driver!Proceed)
  \/ Seed
  \/ End

PluginSpec == PluginInit /\ [][PluginNext]_programVars

-----------------------------------------------------------------------------
(***************************************************************************)
(* Properties.  The runs also check those of NodeServer that this program  *)
(* is meant to keep through stops and starts.                              *)
(***************************************************************************)

\* A volume the kubelet was told is staged is usable whenever requests may come
\* in, after any number of restarts too: the map is seeded before the socket is
\* served.  Not when the control plane could not be listed: main only logs that.
SeededIsBacked == seeded => StagedIsBacked

\* What a pod sees at a published path is its volume, whatever the process was
\* doing when it was killed and whether or not it came back with its map, unless
\* the path carries a mount that the kubelet has forgotten.  It forgets one when
\* a publish was killed between the bind mount and its answer and the retry is
\* refused or fails before it looks for a mount; a publish after the next stage
\* would take that mount, whose device has gone, for its own.
RememberedIsLive ==
  \A v \in Volume, t \in Target :
    published[<<v, t>>] = "yes" /\ Settled(v) /\ <<v, t>> \notin forgotten =>
      LiveAt(target[<<v, t>>])

(***************************************************************************)
(* Fairness.  A handler's goroutine runs on, and blocked I/O goes on once  *)
(* the device is live, so a handler that can step again and again does.  A *)
(* daemon that is started again and again comes up some time; systemd      *)
(* respawns or gives up the units that wait for it, and collects those it  *)
(* gave up.  Kubernetes starts the program again and again, a start that   *)
(* is tried again and again gets through, goroutines run on and Run        *)
(* returns when the last request is answered.                              *)
(***************************************************************************)
OnHost(A) == Inside(A /\ UNCHANGED <<pluginVars, kubeletVars>>)

Fairness ==
  /\ \A c \in Call : SF_programVars(Inside(Handler(c)))
  /\ \A v \in Volume : /\ SF_programVars(OnHost(DaemonUp(v)))
                       /\ WF_programVars(OnHost(Respawn(v))) /\ WF_programVars(OnHost(Collect(v)))
  /\ WF_programVars(Outside(Driver!Start)) /\ SF_programVars(Outside(Driver!Connect))
  /\ SF_programVars(Seed)
  /\ SF_programVars(Outside(Driver!RemoveSocket)) /\ SF_programVars(Outside(Driver!Listen))
  /\ SF_programVars(Outside(Driver!Serve))
  /\ WF_programVars(Outside(Driver!Cancel)) /\ WF_programVars(Outside(Driver!GracefulStop))
  /\ WF_programVars(End /\ Driver!Exit(NoneInFlight))

\* The kubelet stages every volume again and again, and a host operation that
\* is tried again and again succeeds some time.
RetrySpec ==
  /\ PluginSpec
  /\ Fairness
  /\ \A v \in Volume : SF_programVars(Inside(phase = "serve" /\ \E c \in Call : CallStage(c, v)))
  /\ \A c \in Call : /\ SF_programVars(Inside(StartOk(c)))
                     /\ SF_programVars(Inside(MkfsOk(c)))
                     /\ SF_programVars(Inside(StageMountOk(c)))

\* blkid, mkfs, mount or umount waits for the quiesced device of c's volume, and
\* systemd has given the daemon that could serve it up: nothing ends the wait,
\* the commands get no context, and GracefulStop waits for the handler.
Stuck(c) ==
  LET k == call[c] IN
  /\ Quiesced(k.vol)
  /\ unit[k.vol] \in {"failed", "none"}
  /\ \/ k.pc \in {"validate", "probe", "mkfs", "stageMount"}
     \/ k.pc \in {"unmountStaging", "cleanupStaging"} /\ LiveAt(staging[k.vol])

SomeoneStuck == \E c \in Call : Stuck(c)

\* Every handler invocation comes to an end, over daemons that crash under it,
\* and also when the server is drained, unless systemd gives the daemon up that
\* it is waiting for.
CallsTerminate == \A c \in Call : ~At(c, "idle") ~> At(c, "idle") \/ Stuck(c)

\* Neither a failed stage, an unstage, a graceful stop in the middle of one nor
\* a kill between requests leaves anything behind that makes NodeStageVolume
\* fail forever.
EventuallyStaged == \A v \in Volume : []<>(staged[v] = "yes" \/ SomeoneStuck)

\* The plugin comes back after every stop, kill or failed start: no socket file
\* that a dead process left keeps Run from binding its endpoint.
EventuallyServes == []<>(phase = "serve" \/ SomeoneStuck)

\* A process that got a signal ends, whether it came before net.Listen, between
\* that and Serve, or while requests were in flight.
StopsWhenTold == signal # "none" ~> phase = "down" \/ SomeoneStuck
=============================================================================
