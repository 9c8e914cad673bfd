-------------------------- MODULE NodeStartupProofs --------------------------
(***************************************************************************)
(* What TLAPS proves about stage requests that overlap: for every number   *)
(* of volumes and invocations, with calls given up and repeated at any     *)
(* time, failures of systemd and of the start, restarts of the plugin, and *)
(* no lock in NodeStageVolume, only one invocation prepares a volume, and  *)
(* what it formats is blank.  The node only stages and publishes, daemons  *)
(* run without recovery and do not crash, and blkid can be run: the runs   *)
(* node_recovery and node_format_race show what the last two are for.      *)
(***************************************************************************)
EXTENDS NodeStageProofs

OnlyStartup ==
  /\ RecoveryVol = {}
  /\ "unstage" \notin Ops
  /\ Faults \cap {"daemonCrash", "earlyCrash", "blkid"} = {}

(***************************************************************************)
(* The inductive invariant.  From its start of the unit until it stops it  *)
(* or answers an invocation owns the unit, which runs and so refuses every *)
(* other start; a device that it is about to delete has no daemon.         *)
(***************************************************************************)
Owning == (StagePc \ {"stageCheck", "startUnit", "insert"}) \cup {"resolve", "stopUnit"}

Owner(c) == call[c].pc \in Owning

UnitsOK ==
  /\ \A v \in Volume : unit[v] \in {"none", "running"}
  /\ \A d \in DevId : dev[d].state # "quiesced"

CallOK(c) ==
  LET v == call[c].vol
      pc == call[c].pc
  IN
  /\ pc # "idle" => v \in Volume
  /\ pc \notin UnstagePc
  /\ pc \in StagePc \cup DeletePc => call[c].op = "stage"
  /\ Owner(c) => unit[v] = "running"
  /\ pc \in Mounting => Live(v)
  /\ pc = "mkfs" => fs[v] = ""
  /\ pc = "stopUnit" => \E d \in DevId : call[c].dev = d /\ dev[d] = [vol |-> v, state |-> "live"]
  /\ pc = "ublkDel" => \E d \in DevId : call[c].dev = d /\ dev[d] = [vol |-> v, state |-> "dead"]

Apart(c, o) ==
  /\ Owner(c) /\ Owner(o) => call[c].vol # call[o].vol
  /\ call[c].pc = "ublkDel" /\ call[o].pc = "ublkDel" => call[c].dev # call[o].dev

StartupInv ==
  /\ UnitsOK
  /\ \A c \in Call : CallOK(c)
  /\ \A c, o \in Call : c # o => Apart(c, o)

\* An owner is preparing, and whoever formats found nothing.
LEMMA OwnersPrepare == ASSUME StartupInv PROVE OneFormatter /\ FormatOnlyBlank
  <1>1. Preparing \subseteq Owning
    BY DEF Preparing, Owning, StagePc
  <1>2. OneFormatter
    BY <1>1 DEF StartupInv, Apart, Owner, OneFormatter
  <1>3. FormatOnlyBlank
    BY DEF StartupInv, CallOK, FormatOnlyBlank, At
  <1> QED BY <1>2, <1>3

(***************************************************************************)
(* Steps of one invocation.                                                *)
(***************************************************************************)
LEMMA StartupFrame ==
  ASSUME StartupInv, NEW c \in Call, OthersStand(c), UnitsOK', CallOK(c)',
         \A o \in Call : o # c => CallOK(o)' /\ Apart(c, o)'
  PROVE  StartupInv'
  <1>1. \A o \in Call : o # c => Apart(o, c)'
    BY DEF Apart
  <1>2. ASSUME NEW o \in Call, NEW p \in Call, o # p, o # c, p # c PROVE Apart(o, p)'
    <2>1. Apart(o, p) /\ call'[o] = call[o] /\ call'[p] = call[p]
      BY <1>2 DEF StartupInv, OthersStand
    <2> QED BY <2>1 DEF Apart, Owner
  <1> QED BY <1>1, <1>2 DEF StartupInv

\* The invocation answers, or goes where it owns nothing.
LEMMA NotOwning ==
  ASSUME StartupInv, NEW c \in Call, OthersStand(c), UnitsOK', CallOK(c)',
         \A o \in Call : o # c => CallOK(o)', ~Owner(c)', call'[c].pc # "ublkDel"
  PROVE  StartupInv'
  <1>1. \A o \in Call : o # c => Apart(c, o)'
    BY DEF Apart
  <1> QED BY <1>1, StartupFrame

\* An idle invocation relies on nothing.
LEMMA IdleIsOK ==
  ASSUME NEW c \in Call, call'[c] = Idle
  PROVE  CallOK(c)' /\ ~Owner(c)' /\ call'[c].pc # "ublkDel"
  <1>1. Idle.pc = "idle"
    BY DEF Idle
  <1>2. "idle" \notin Owning \cup UnstagePc \cup StagePc \cup DeletePc \cup Mounting
    BY DEF Owning, UnstagePc, StagePc, DeletePc, Mounting
  <1> QED BY <1>1, <1>2 DEF CallOK, Owner

\* An invocation that answers gives up what it owned.
LEMMA AnswerKeeps ==
  ASSUME TypeOK, StartupInv, NEW c \in Call, NEW ok, Return(c, ok), UnitsOK',
         \A o \in Call : o # c => CallOK(o)'
  PROVE  StartupInv'
  <1>1. call'[c] = Idle /\ OthersStand(c)
    BY DEF Return, TypeOK, OthersStand
  <1> QED BY <1>1, IdleIsOK, NotOwning

\* Units, devices and file systems as they were.
SameHost == UNCHANGED <<unit, dev, fs>>

\* What an invocation relies on stays while the host stands still.
LEMMA SameHostKeeps ==
  ASSUME StartupInv, SameHost
  PROVE  /\ UnitsOK'
         /\ \A c \in Call : call'[c] = call[c] => CallOK(c)'
         /\ \A v : Live(v)' <=> Live(v)
  <1>1. \A v : Live(v)' <=> Live(v)
    BY DEF SameHost, Live, DevsOf
  <1>2. ASSUME NEW c \in Call, call'[c] = call[c] PROVE CallOK(c)'
    <2>1. CallOK(c)
      BY DEF StartupInv
    <2> QED BY <1>1, <1>2, <2>1 DEF CallOK, Owner, SameHost
  <1> QED BY <1>1, <1>2 DEF StartupInv, UnitsOK, SameHost

\* An owner that moves on to where it is still one.
LEMMA OwnerMoves ==
  ASSUME StartupInv, NEW c \in Call, OthersStand(c), UnitsOK', CallOK(c)',
         \A o \in Call : o # c => CallOK(o)',
         Owner(c), call'[c].vol = call[c].vol, call'[c].pc # "ublkDel"
  PROVE  StartupInv'
  <1>1. ASSUME NEW o \in Call, o # c PROVE Apart(c, o)'
    <2>1. Apart(c, o) /\ call'[o] = call[o]
      BY <1>1 DEF StartupInv, OthersStand
    <2> QED BY <2>1 DEF Apart, Owner
  <1> QED BY <1>1, StartupFrame

\* A quiet step within the preparation.
LEMMA QuietMove ==
  ASSUME TypeOK, StartupInv, NEW c \in Call, Owner(c), SameHost, NEW pc, Goto(c, pc),
         pc \in Owning \ {"stopUnit"}, pc \in Mounting => Live(call[c].vol),
         pc = "mkfs" => fs[call[c].vol] = ""
  PROVE  StartupInv'
  <1>1. /\ OthersStand(c) /\ call'[c].pc = pc /\ call'[c].op = call[c].op /\ call'[c].vol = call[c].vol
    BY GotoFields
  <1>2. /\ call[c].vol \in Volume /\ call[c].op = "stage" /\ unit[call[c].vol] = "running"
    BY DEF StartupInv, CallOK, Owner, Owning, StagePc, DeletePc
  <1>3. UnitsOK' /\ (\A o \in Call : o # c => CallOK(o)') /\ \A v : Live(v)' <=> Live(v)
    BY <1>1, SameHostKeeps DEF OthersStand
  <1>4. pc \notin UnstagePc /\ pc # "ublkDel" /\ pc # "stopUnit" /\ pc # "idle"
    BY DEF Owning, StagePc, UnstagePc
  <1>5. CallOK(c)'
    BY <1>1, <1>2, <1>3, <1>4 DEF CallOK, Owner, SameHost
  <1> QED BY <1>1, <1>3, <1>4, <1>5, OwnerMoves

(***************************************************************************)
(* The start of the unit: while one invocation owns it no other gets it.   *)
(***************************************************************************)
LEMMA StartupStart ==
  ASSUME TypeOK, StartupInv, NEW c \in Call, StartOk(c) \/ StartReportedFailed(c)
  PROVE  StartupInv'
  <1>1. PICK v \in Volume : v = call[c].vol /\ call[c].op = "stage" /\ call[c].pc = "startUnit"
    BY DEF StartOk, StartReportedFailed, At, StartupInv, CallOK, StagePc
  <1>2. /\ unit[v] # "running" /\ unit' = [unit EXCEPT ![v] = "running"] /\ UNCHANGED <<dev, fs>>
    BY <1>1 DEF StartOk, StartReportedFailed, StartUnit, StartRefused
  <1>3. UnitsOK' /\ \A w : Live(w)' <=> Live(w)
    BY <1>2 DEF StartupInv, UnitsOK, TypeOK, HostTypeOK, Live, DevsOf
  <1>4. unit'[v] = "running" /\ \A w \in Volume : w # v => unit'[w] = unit[w]
    BY <1>2 DEF TypeOK, HostTypeOK
  <1>5. ASSUME NEW o \in Call, o # c, call'[o] = call[o]
        PROVE  CallOK(o)' /\ (Owner(o) => call[o].vol # v)
    <2>1. CallOK(o)
      BY DEF StartupInv
    <2>2. Owner(o) => unit[call[o].vol] = "running" /\ call[o].vol \in Volume
      BY <2>1 DEF CallOK, Owner, Owning, StagePc
    <2> QED BY <1>2, <1>3, <1>4, <1>5, <2>1, <2>2 DEF CallOK, Owner
  <1>6. CASE StartOk(c)
    <2>1. /\ OthersStand(c) /\ call'[c].pc = "waitLink" /\ call'[c].op = "stage" /\ call'[c].vol = v
      BY <1>1, <1>6, GotoFields DEF StartOk
    <2>2. CallOK(c)'
      BY <1>4, <2>1 DEF CallOK, UnstagePc, Mounting
    <2>3. ASSUME NEW o \in Call, o # c PROVE CallOK(o)' /\ Apart(c, o)'
      <3>1. call'[o] = call[o]
        BY <2>1, <2>3 DEF OthersStand
      <3> QED BY <1>5, <2>1, <2>3, <3>1 DEF Apart, Owner
    <2> QED BY <1>3, <2>1, <2>2, <2>3, StartupFrame
  <1>7. CASE StartReportedFailed(c)
    <2>1. Return(c, FALSE) /\ OthersStand(c)
      BY <1>7 DEF StartReportedFailed, Return, TypeOK, OthersStand
    <2> QED BY <1>3, <1>5, <2>1, AnswerKeeps DEF OthersStand
  <1> QED BY <1>6, <1>7

(***************************************************************************)
(* Stopping the unit: only its owner does, so nobody else's device goes.   *)
(***************************************************************************)
LEMMA StopOwn ==
  ASSUME OnlyStartup, TypeOK, StartupInv, NEW c \in Call, Owner(c),
         NEW v \in Volume, v = call[c].vol, StopUnit(v), fs' = fs, OthersStand(c)
  PROVE  /\ UnitsOK' /\ \A o \in Call : o # c => CallOK(o)'
         /\ \A d \in DevId : dev[d] = [vol |-> v, state |-> "live"] => dev'[d] = [vol |-> v, state |-> "dead"]
         /\ \A d \in DevId : dev[d].state = "dead" => dev'[d] = dev[d]
  <1>1. /\ unit' = [unit EXCEPT ![v] = "none"]
        /\ dev' = [d \in DevId |-> IF dev[d].vol = v /\ dev[d].state = "live"
                                   THEN [vol |-> v, state |-> "dead"] ELSE dev[d]]
    BY DEF OnlyStartup, StopUnit, LeftByStop, Recoverable, DetachDaemon
  <1>2. UnitsOK'
    BY <1>1 DEF StartupInv, UnitsOK, TypeOK, HostTypeOK
  <1>3. ASSUME NEW o \in Call, o # c PROVE CallOK(o)'
    <2>1. CallOK(o) /\ call'[o] = call[o] /\ Apart(c, o)
      BY <1>3 DEF StartupInv, OthersStand
    <2>2. /\ Owner(o) => call[o].vol \in Volume /\ call[o].vol # v
          /\ call[o].pc \in Mounting \cup {"stopUnit"} => Owner(o)
      BY <2>1 DEF CallOK, Apart, Owner, Owning, StagePc, Mounting
    <2>3. Owner(o) => unit'[call[o].vol] = unit[call[o].vol]
      BY <1>1, <2>2 DEF TypeOK, HostTypeOK
    <2>4. \A w : w # v => (Live(w)' <=> Live(w))
      BY <1>1 DEF Live, DevsOf
    <2>5. ASSUME NEW d \in DevId, dev[d].vol # v \/ dev[d].state # "live" PROVE dev'[d] = dev[d]
      BY <1>1, <2>5
    <2>6. call[o].pc = "stopUnit" =>
            (\E d \in DevId : call[o].dev = d /\ dev[d] = [vol |-> call[o].vol, state |-> "live"])'
      BY <2>1, <2>2, <2>5 DEF CallOK
    <2>7. call[o].pc = "ublkDel" =>
            (\E d \in DevId : call[o].dev = d /\ dev[d] = [vol |-> call[o].vol, state |-> "dead"])'
      BY <2>1, <2>5 DEF CallOK
    <2> QED BY <2>1, <2>2, <2>3, <2>4, <2>6, <2>7 DEF CallOK, Owner
  <1> QED BY <1>1, <1>2, <1>3

\* The owner stops the unit whose device did not show up.
LEMMA StartupStop ==
  ASSUME OnlyStartup, TypeOK, StartupInv, NEW c \in Call, StopAfterWait(c) \/ StopUblkUnit(c) \/ StopFails(c)
  PROVE  StartupInv'
  <1>1. Owner(c) /\ call[c].pc \in {"stopAfterWait", "stopUnit"}
    BY DEF StopAfterWait, StopUblkUnit, StopFails, At, Owner, Owning, StagePc
  <1>2. PICK v \in Volume : v = call[c].vol /\ call[c].op = "stage"
    BY <1>1 DEF StartupInv, CallOK, StagePc, DeletePc
  <1>3. CASE StopAfterWait(c) \/ StopFails(c)
    <2>1. Return(c, FALSE)
      BY <1>2, <1>3 DEF StopAfterWait, StopFails, AfterDelete
    <2>2. OthersStand(c) /\ fs' = fs
      BY <1>3, <2>1 DEF StopAfterWait, StopFails, Return, TypeOK, OthersStand
    <2>3. CASE StopUnit(v)
      BY <1>1, <1>2, <2>1, <2>2, <2>3, StopOwn, AnswerKeeps
    <2>4. CASE ~StopUnit(v)
      <3>1. SameHost
        BY <1>2, <1>3, <2>2, <2>4 DEF StopAfterWait, StopFails, SameHost
      <3> QED BY <2>1, <2>2, <3>1, SameHostKeeps, AnswerKeeps DEF OthersStand
    <2> QED BY <2>3, <2>4
  <1>4. CASE StopUblkUnit(c)
    <2>1. /\ OthersStand(c) /\ fs' = fs /\ StopUnit(v) /\ call[c].pc = "stopUnit"
          /\ call'[c].pc = "ublkDel" /\ call'[c].op = "stage" /\ call'[c].vol = v
          /\ call'[c].dev = call[c].dev
      BY <1>2, <1>4, GotoFields DEF StopUblkUnit, At
    <2>2. PICK d \in DevId : call[c].dev = d /\ dev[d] = [vol |-> v, state |-> "live"]
      BY <1>2, <2>1 DEF StartupInv, CallOK
    <2>3. /\ UnitsOK' /\ \A o \in Call : o # c => CallOK(o)'
          /\ dev'[d] = [vol |-> v, state |-> "dead"]
      BY <1>1, <1>2, <2>1, <2>2, StopOwn
    <2>4. "ublkDel" \notin Owning \cup UnstagePc \cup Mounting
      BY DEF Owning, StagePc, UnstagePc, Mounting
    <2>5. CallOK(c)'
      BY <2>1, <2>2, <2>3, <2>4 DEF CallOK, Owner
    <2>6. ASSUME NEW o \in Call, o # c PROVE Apart(c, o)'
      <3>1. call'[o] = call[o] /\ CallOK(o)
        BY <2>1, <2>6 DEF OthersStand, StartupInv
      <3>2. call[o].pc = "ublkDel" => call[o].dev # d
        BY <2>2, <3>1 DEF CallOK
      <3> QED BY <2>1, <2>2, <2>4, <3>1, <3>2 DEF Apart, Owner
    <2> QED BY <2>1, <2>3, <2>5, <2>6, StartupFrame
  <1> QED BY <1>3, <1>4

(***************************************************************************)
(* The steps of a stage in between.                                        *)
(***************************************************************************)
LEMMA StartupPrepare ==
  ASSUME OnlyStartup, TypeOK, StartupInv, NEW c \in Call,
         LinkSeen(c) \/ LinkTimeout(c) \/ Validate(c) \/ MkfsFails(c) \/ MountCheck(c)
         \/ StageMountOk(c) \/ StageMountFails(c)
  PROVE  StartupInv'
  <1>1. SameHost /\ Owner(c) /\ call[c].pc \in StagePc
    BY DEF LinkSeen, LinkTimeout, Validate, MkfsFails, MountCheck, StageMountOk, StageMountFails,
           At, Quiet, hostVars, SameHost, Owner, Owning, StagePc
  <1>2. PICK v \in Volume : v = call[c].vol /\ call[c].op = "stage"
    BY <1>1 DEF StartupInv, CallOK, StagePc
  <1>3. ASSUME Goto(c, "insert") PROVE StartupInv'
    <2>1. /\ OthersStand(c) /\ call'[c].pc = "insert" /\ call'[c].op = "stage" /\ call'[c].vol = v
      BY <1>2, <1>3, GotoFields
    <2>2. "insert" \notin Owning \cup UnstagePc \cup Mounting
      BY DEF Owning, StagePc, UnstagePc, Mounting
    <2>3. CallOK(c)' /\ ~Owner(c)' /\ call'[c].pc # "ublkDel"
      BY <2>1, <2>2 DEF CallOK, Owner
    <2> QED BY <1>1, <2>1, <2>3, SameHostKeeps, NotOwning DEF OthersStand
  <1>4. ASSUME NEW pc \in Mounting \cup {"stopAfterWait", "resolve"}, pc # "mkfs", Goto(c, pc),
               pc \in Mounting => Live(v)
        PROVE  StartupInv'
    <2>1. pc \in Owning \ {"stopUnit"}
      BY <1>4 DEF Owning, StagePc, Mounting
    <2> QED BY <1>1, <1>2, <1>4, <2>1, QuietMove
  <1>5. call[c].pc \in Mounting => Live(v)
    BY <1>2 DEF StartupInv, CallOK
  <1>6. CASE LinkSeen(c)
    <2>1. Live(v)
      <3>1. Link(v) # {}
        BY <1>2, <1>6 DEF LinkSeen
      <3>2. \A d \in DevId : dev[d].state # "quiesced"
        BY DEF StartupInv, UnitsOK
      <3> QED BY <3>1, <3>2 DEF Link, Live, DevsOf
    <2> QED BY <1>3, <1>4, <1>6, <2>1 DEF LinkSeen, Mounting
  <1>7. CASE LinkTimeout(c)
    BY <1>4, <1>7 DEF LinkTimeout, Mounting
  <1>8. CASE Validate(c) \/ MkfsFails(c) \/ MountCheck(c) \/ StageMountOk(c) \/ StageMountFails(c)
    <2>1. Live(v)
      BY <1>5, <1>8 DEF Validate, MkfsFails, MountCheck, StageMountOk, StageMountFails, At, Mounting
    <2> QED BY <1>3, <1>4, <1>8, <2>1
         DEF Validate, MkfsFails, MountCheck, StageMountOk, StageMountFails, Mounting
  <1> QED BY <1>6, <1>7, <1>8

\* What the probe calls blank is blank: the device is live, and blkid can be run.
LEMMA StartupProbe ==
  ASSUME NodeAssumption, OnlyStartup, TypeOK, StartupInv, NEW c \in Call, Probe(c)
  PROVE  StartupInv'
  <1>1. SameHost /\ Owner(c) /\ call[c].pc = "probe"
    BY DEF Probe, At, Quiet, hostVars, SameHost, Owner, Owning, StagePc
  <1>2. PICK v \in Volume : v = call[c].vol /\ call[c].op = "stage" /\ unit[v] = "running" /\ Live(v)
    BY <1>1 DEF StartupInv, CallOK, StagePc, Mounting
  <1>3. Blkid(v) = {fs[v]}
    BY <1>2 DEF Blkid, Can, OnlyStartup
  <1>4. PICK r \in {[call[c] EXCEPT !.pc = "mkfs"], [call[c] EXCEPT !.pc = "mountCheck", !.fs = fs[v]]} :
          call' = [call EXCEPT ![c] = r] /\ (r.pc = "mkfs" => fs[v] = "")
    <2>1. call[c] \in Invocation
      BY DEF TypeOK
    <2> DEFINE r == IF NeedsFormatting(fs[v], call[c].fs) THEN [call[c] EXCEPT !.pc = "mkfs"]
                    ELSE [call[c] EXCEPT !.pc = "mountCheck", !.fs = fs[v]]
    <2>2. call' = [call EXCEPT ![c] = r]
      <3>1. fs[v] # NotFound
        BY DEF TypeOK, HostTypeOK, NodeAssumption, NotFound
      <3> QED BY <1>2, <1>3, <3>1 DEF Probe
    <2>3. r.pc = "mkfs" => fs[v] = ""
      BY <2>1 DEF NeedsFormatting, Invocation
    <2>4. r \in {[call[c] EXCEPT !.pc = "mkfs"], [call[c] EXCEPT !.pc = "mountCheck", !.fs = fs[v]]}
      OBVIOUS
    <2> HIDE DEF r
    <2> QED BY <2>2, <2>3, <2>4
  <1>5. /\ OthersStand(c) /\ call'[c].pc \in {"mkfs", "mountCheck"}
        /\ call'[c].pc = "mkfs" => fs[v] = ""
        /\ call'[c].op = "stage" /\ call'[c].vol = v
    <2>1. call[c] \in Invocation
      BY DEF TypeOK
    <2>2. r.op = "stage" /\ r.vol = v /\ r.pc \in {"mkfs", "mountCheck"}
      BY <1>2, <1>4, <2>1 DEF Invocation
    <2> QED BY <1>4, <2>2 DEF OthersStand, TypeOK
  <1>6. UnitsOK' /\ (\A o \in Call : o # c => CallOK(o)') /\ Live(v)' /\ unit' = unit /\ fs' = fs
    BY <1>1, <1>2, <1>5, SameHostKeeps DEF OthersStand, SameHost
  <1>7. CallOK(c)'
    BY <1>2, <1>5, <1>6 DEF CallOK, Owner, UnstagePc
  <1> QED BY <1>1, <1>2, <1>5, <1>6, <1>7, OwnerMoves

\* The owner formats, once.
LEMMA StartupMkfs ==
  ASSUME TypeOK, StartupInv, NEW c \in Call, MkfsOk(c)
  PROVE  StartupInv'
  <1>1. Owner(c) /\ call[c].pc = "mkfs" /\ UNCHANGED <<unit, dev>>
    BY DEF MkfsOk, At, Owner, Owning, StagePc
  <1>2. PICK v \in Volume : v = call[c].vol /\ call[c].op = "stage" /\ unit[v] = "running" /\ Live(v)
    BY <1>1 DEF StartupInv, CallOK, StagePc, Mounting
  <1>3. /\ OthersStand(c) /\ call'[c].pc = "mountCheck" /\ call'[c].op = "stage" /\ call'[c].vol = v
    BY <1>2, GotoFields DEF MkfsOk
  <1>4. \A w \in Volume : w # v => fs'[w] = fs[w]
    BY <1>2 DEF MkfsOk, TypeOK, HostTypeOK
  <1>5. UnitsOK' /\ \A w : Live(w)' <=> Live(w)
    BY <1>1 DEF StartupInv, UnitsOK, Live, DevsOf
  <1>6. ASSUME NEW o \in Call, o # c PROVE CallOK(o)'
    <2>1. CallOK(o) /\ Apart(c, o) /\ call'[o] = call[o]
      BY <1>3, <1>6 DEF StartupInv, OthersStand
    <2>2. call[o].pc = "mkfs" => Owner(o) /\ call[o].vol \in Volume
      BY <2>1 DEF CallOK, Owner, Owning, StagePc
    <2>3. call[o].pc = "mkfs" => fs'[call[o].vol] = ""
      BY <1>1, <1>2, <1>4, <2>1, <2>2 DEF CallOK, Apart
    <2> QED BY <1>1, <1>5, <2>1, <2>3 DEF CallOK, Owner
  <1>7. CallOK(c)'
    BY <1>1, <1>2, <1>3, <1>5 DEF CallOK, Owner, UnstagePc
  <1> QED BY <1>1, <1>2, <1>3, <1>5, <1>6, <1>7, OwnerMoves

(***************************************************************************)
(* DeleteUblkDevice after a stage that failed.                             *)
(***************************************************************************)
LEMMA StartupResolve ==
  ASSUME TypeOK, StartupInv, NEW c \in Call, Resolve(c)
  PROVE  StartupInv'
  <1>1. SameHost /\ Owner(c) /\ call[c].pc = "resolve"
    BY DEF Resolve, At, Quiet, hostVars, SameHost, Owner, Owning, StagePc
  <1>2. PICK v \in Volume : v = call[c].vol /\ call[c].op = "stage" /\ unit[v] = "running"
    BY <1>1 DEF StartupInv, CallOK, StagePc, DeletePc
  <1>3. CASE Return(c, FALSE)
    <2>1. OthersStand(c)
      BY <1>3 DEF Return, TypeOK, OthersStand
    <2> QED BY <1>1, <1>3, <2>1, SameHostKeeps, AnswerKeeps DEF OthersStand
  <1>4. CASE ~Return(c, FALSE)
    <2>1. PICK d \in Link(v) : call' = [call EXCEPT ![c] = [call[c] EXCEPT !.pc = "stopUnit", !.dev = d]]
      BY <1>2, <1>4 DEF Resolve, AfterDelete
    <2>2. d \in DevId /\ dev[d] = [vol |-> v, state |-> "live"]
      <3>1. d \in DevId /\ dev[d].vol = v /\ dev[d].state = "live"
        BY DEF Link, DevsOf, StartupInv, UnitsOK
      <3>2. dev[d] \in Device
        BY <3>1 DEF TypeOK, HostTypeOK
      <3> QED BY <3>1, <3>2 DEF Device, FreeDev
    <2>3. /\ OthersStand(c) /\ call'[c].pc = "stopUnit" /\ call'[c].op = "stage" /\ call'[c].vol = v
          /\ call'[c].dev = d
      <3>1. call[c] \in Invocation
        BY DEF TypeOK
      <3>2. call'[c] = [call[c] EXCEPT !.pc = "stopUnit", !.dev = d] /\ OthersStand(c)
        BY <2>1 DEF TypeOK, OthersStand
      <3> QED BY <1>2, <3>1, <3>2 DEF Invocation
    <2>4. UnitsOK' /\ (\A o \in Call : o # c => CallOK(o)') /\ unit' = unit /\ dev' = dev
      BY <1>1, <2>3, SameHostKeeps DEF OthersStand, SameHost
    <2>5. CallOK(c)'
      BY <1>2, <2>2, <2>3, <2>4 DEF CallOK, Owner, UnstagePc, Mounting
    <2> QED BY <1>1, <1>2, <2>3, <2>4, <2>5, OwnerMoves
  <1> QED BY <1>3, <1>4

\* The device that is deleted has no daemon, and is nobody else's to delete.
LEMMA StartupDelete ==
  ASSUME TypeOK, StartupInv, NEW c \in Call, DeleteDevice(c) \/ DeleteDeviceFails(c)
  PROVE  StartupInv'
  <1>1. call[c].pc = "ublkDel"
    BY DEF DeleteDevice, DeleteDeviceFails, At
  <1>2. /\ call[c].vol \in Volume /\ call[c].op = "stage"
        /\ \E d \in DevId : call[c].dev = d /\ dev[d] = [vol |-> call[c].vol, state |-> "dead"]
    BY <1>1 DEF StartupInv, CallOK, DeletePc
  <1>3. Return(c, FALSE) /\ OthersStand(c)
    BY <1>2 DEF DeleteDevice, DeleteDeviceFails, AfterDelete, Return, TypeOK, OthersStand
  <1>4. CASE DeleteDeviceFails(c)
    <2>1. SameHost
      BY <1>4 DEF DeleteDeviceFails, Quiet, hostVars, SameHost
    <2> QED BY <1>3, <2>1, SameHostKeeps, AnswerKeeps DEF OthersStand
  <1>5. CASE DeleteDevice(c)
    <2>1. PICK d \in DevId : call[c].dev = d /\ dev[d] = [vol |-> call[c].vol, state |-> "dead"]
      BY <1>2
    <2>2. dev' = [dev EXCEPT ![d] = FreeDev] /\ unit' = unit /\ fs' = fs
      <3>1. dev[d] # FreeDev /\ dev[d].state # "live"
        BY <2>1 DEF FreeDev
      <3> QED BY <1>5, <2>1, <3>1 DEF DeleteDevice, UblkDel
    <2>3. FreeDev.state = "free"
      BY DEF FreeDev
    <2>4. UnitsOK'
      BY <2>2, <2>3 DEF StartupInv, UnitsOK, TypeOK, HostTypeOK
    <2>5. \A e \in DevId : e # d => dev'[e] = dev[e]
      BY <2>2 DEF TypeOK, HostTypeOK
    <2>6. \A v : Live(v) => Live(v)'
      BY <2>1, <2>5 DEF Live, DevsOf
    <2>7. ASSUME NEW o \in Call, o # c PROVE CallOK(o)'
      <3>1. CallOK(o) /\ Apart(c, o) /\ call'[o] = call[o]
        BY <1>3, <2>7 DEF StartupInv, OthersStand
      <3>2. call[o].pc \in {"stopUnit", "ublkDel"} => call[o].dev # d
        <4>1. CASE call[o].pc = "stopUnit"
          BY <2>1, <3>1, <4>1 DEF CallOK
        <4>2. CASE call[o].pc = "ublkDel"
          BY <1>1, <2>1, <3>1, <4>2 DEF Apart
        <4> QED BY <4>1, <4>2
      <3>3. call[o].pc = "stopUnit" =>
              (\E e \in DevId : call[o].dev = e /\ dev[e] = [vol |-> call[o].vol, state |-> "live"])'
        BY <2>5, <3>1, <3>2 DEF CallOK
      <3>4. call[o].pc = "ublkDel" =>
              (\E e \in DevId : call[o].dev = e /\ dev[e] = [vol |-> call[o].vol, state |-> "dead"])'
        BY <2>5, <3>1, <3>2 DEF CallOK
      <3> QED BY <2>2, <2>6, <3>1, <3>3, <3>4 DEF CallOK, Owner
    <2> QED BY <1>3, <2>4, <2>7, AnswerKeeps
  <1> QED BY <1>4, <1>5

(***************************************************************************)
(* Whatever else invocations do.                                           *)
(***************************************************************************)
Bystanding == {"stageCheck", "startUnit"} \cup PublishPc \cup UnpublishPc

\* An invocation that is neither owner nor about to delete disturbs nobody.
LEMMA Bystander ==
  ASSUME StartupInv, NEW c \in Call, SameHost, OthersStand(c),
         call'[c].pc \in Bystanding, call'[c].vol \in Volume,
         call'[c].pc \in {"stageCheck", "startUnit"} => call'[c].op = "stage"
  PROVE  StartupInv'
  <1>1. Bystanding \cap (Owning \cup Mounting \cup UnstagePc \cup DeletePc \cup {"idle"}) = {}
    BY DEF Bystanding, PublishPc, UnpublishPc, Owning, StagePc, Mounting, UnstagePc, DeletePc
  <1>2. Bystanding \cap StagePc = {"stageCheck", "startUnit"} /\ "ublkDel" \in DeletePc /\ "stopUnit" \in DeletePc
        /\ "mkfs" \in Mounting
    BY DEF Bystanding, PublishPc, UnpublishPc, StagePc, DeletePc, Mounting
  <1>3. CallOK(c)' /\ ~Owner(c)' /\ call'[c].pc # "ublkDel"
    BY <1>1, <1>2 DEF CallOK, Owner
  <1> QED BY <1>3, SameHostKeeps, NotOwning DEF OthersStand

\* StageCheck, publish and unpublish.
LEMMA StartupRest ==
  ASSUME TypeOK, StartupInv, NEW c \in Call,
         StageCheck(c) \/ StartRefusedOrFailed(c) \/ Insert(c) \/ NodePublishVolume(c) \/ NodeUnpublishVolume(c)
  PROVE  StartupInv'
  <1>1. SameHost /\ call[c].pc # "idle"
    BY DEF StageCheck, StartRefusedOrFailed, Insert, NodePublishVolume, PublishCheck, BindCheck, BindOk,
           BindFails, RecordTarget, NodeUnpublishVolume, UnpublishCheck, UnmountTarget, UnmountTargetFails, RemoveTarget,
           At, Quiet, hostVars, mounts, SameHost
  <1>2. call[c].vol \in Volume
    BY <1>1 DEF StartupInv, CallOK
  <1>3. ASSUME NEW ok, Return(c, ok) PROVE StartupInv'
    <2>1. OthersStand(c)
      BY <1>3 DEF Return, TypeOK, OthersStand
    <2> QED BY <1>1, <1>3, <2>1, SameHostKeeps, AnswerKeeps DEF OthersStand
  <1>4. ASSUME NEW pc \in Bystanding, Goto(c, pc), pc \in {"stageCheck", "startUnit"} => call[c].op = "stage"
        PROVE  StartupInv'
    BY <1>1, <1>2, <1>4, GotoFields, Bystander
  <1>5. CASE StageCheck(c)
    <2>1. call[c].op = "stage"
      BY <1>5 DEF StageCheck, At, StartupInv, CallOK, StagePc
    <2> QED BY <1>3, <1>4, <1>5, <2>1 DEF StageCheck, Bystanding
  <1>6. CASE StartRefusedOrFailed(c) \/ Insert(c)
    BY <1>3, <1>6 DEF StartRefusedOrFailed, Insert
  <1>7. CASE NodePublishVolume(c)
    BY <1>3, <1>4, <1>7 DEF NodePublishVolume, PublishCheck, BindCheck, BindOk, BindFails, RecordTarget, Bystanding, PublishPc
  <1>8. CASE UnpublishCheck(c)
    <2> DEFINE r == [call[c] EXCEPT !.pc = "unmountTarget", !.known = (VolMap[call[c].vol] # "absent")]
    <2>1. r.vol = call[c].vol /\ r.pc = "unmountTarget"
      <3>1. call[c] \in Invocation
        BY DEF TypeOK
      <3> QED BY <3>1 DEF Invocation
    <2>2. call' = [call EXCEPT ![c] = r]
      BY <1>8 DEF UnpublishCheck
    <2> HIDE DEF r
    <2>3. call'[c] = r /\ OthersStand(c)
      BY <2>2 DEF TypeOK, OthersStand
    <2> QED BY <1>1, <1>2, <2>1, <2>3, Bystander DEF Bystanding, UnpublishPc
  <1>9. CASE UnmountTarget(c) \/ UnmountTargetFails(c) \/ RemoveTarget(c)
    BY <1>3, <1>4, <1>9 DEF UnmountTarget, UnmountTargetFails, RemoveTarget, Bystanding, UnpublishPc
  <1> QED BY <1>5, <1>6, <1>7, <1>8, <1>9 DEF NodeUnpublishVolume

\* Every step of a handler keeps the invariant.
LEMMA StartupHandler ==
  ASSUME NodeAssumption, OnlyStartup, TypeOK, StartupInv, NEW c \in Call, Handler(c)
  PROVE  StartupInv'
  <1>1. ~NodeUnstageVolume(c)
    <2>1. call[c].pc \notin UnstagePc
      BY DEF StartupInv, CallOK
    <2> QED BY <2>1 DEF NodeUnstageVolume, UnstageCheck, UnmountStaging, UnmountStagingFails, CleanupStaging,
         DeleteEntry, At, UnstagePc
  <1>2. CASE NodeStageVolume(c)
    BY <1>2, StartupStart, StartupStop, StartupPrepare, StartupProbe, StartupMkfs, StartupRest DEF NodeStageVolume
  <1>3. CASE DeleteUblkDevice(c)
    BY <1>3, StartupResolve, StartupStop, StartupDelete DEF DeleteUblkDevice
  <1> QED BY <1>1, <1>2, <1>3, StartupRest DEF Handler

\* A request begins, or is given up and goes on.
LEMMA StartupKubelet ==
  ASSUME OnlyStartup, TypeOK, StartupInv, NEW c \in Call, Kubelet(c)
  PROVE  StartupInv'
  <1>1. ASSUME NEW v \in Volume, NEW op, NEW t, NEW f, NEW pc \in Bystanding, Begin(c, op, pc, v, t, f),
               pc \in {"stageCheck", "startUnit"} => op = "stage"
        PROVE  StartupInv'
    <2>1. /\ OthersStand(c) /\ SameHost
          /\ call'[c].pc = pc /\ call'[c].op = op /\ call'[c].vol = v
      BY <1>1 DEF Begin, Idle, OthersStand, TypeOK, SameHost, hostVars
    <2> QED BY <1>1, <2>1, Bystander
  <1>2. ASSUME NEW v \in Volume, CallStage(c, v) PROVE StartupInv'
    <2>1. PICK f : Begin(c, "stage", "stageCheck", v, NoTgt, f)
      BY <1>2 DEF CallStage
    <2> QED BY <1>1, <2>1 DEF Bystanding
  <1>3. ASSUME NEW v \in Volume PROVE ~CallUnstage(c, v)
    BY DEF CallUnstage, Begin, OnlyStartup
  <1>4. ASSUME NEW v \in Volume, NEW t \in Target, CallPublish(c, v, t) \/ CallUnpublish(c, v, t)
        PROVE  StartupInv'
    BY <1>1, <1>4 DEF CallPublish, CallUnpublish, Bystanding, PublishPc, UnpublishPc
  <1>5. CASE Abandon(c)
    <2>1. /\ OthersStand(c) /\ SameHost
          /\ call'[c].pc = call[c].pc /\ call'[c].op = call[c].op /\ call'[c].vol = call[c].vol
          /\ call'[c].dev = call[c].dev
      <3>1. call[c] \in Invocation
        BY DEF TypeOK
      <3>2. call'[c] = [call[c] EXCEPT !.waiting = FALSE] /\ OthersStand(c) /\ SameHost
        BY <1>5 DEF Abandon, TypeOK, OthersStand, SameHost, hostVars
      <3> QED BY <3>1, <3>2 DEF Invocation
    <2>2. UnitsOK' /\ (\A o \in Call : o # c => CallOK(o)') /\ (\A v : Live(v)' <=> Live(v))
      BY <2>1, SameHostKeeps DEF OthersStand
    <2>3. CallOK(c)'
      <3>1. CallOK(c)
        BY DEF StartupInv
      <3> QED BY <2>1, <2>2, <3>1 DEF CallOK, Owner, SameHost
    <2>4. ASSUME NEW o \in Call, o # c PROVE Apart(c, o)'
      <3>1. Apart(c, o) /\ call'[o] = call[o]
        BY <2>1, <2>4 DEF StartupInv, OthersStand
      <3> QED BY <2>1, <3>1 DEF Apart, Owner
    <2> QED BY <2>1, <2>2, <2>3, <2>4, StartupFrame
  <1> QED BY <1>2, <1>3, <1>4, <1>5 DEF Kubelet

(***************************************************************************)
(* The host and the process.                                               *)
(***************************************************************************)
LEMMA StartupHost ==
  ASSUME OnlyStartup, TypeOK, StartupInv, Host
  PROVE  StartupInv'
  <1>1. PICK v \in Volume :
          DaemonUp(v) \/ DaemonCrash(v) \/ Respawn(v) \/ StartLimit(v) \/ Collect(v)
    BY DEF Host, HostNext
  <1>2. unit[v] \in {"none", "running"}
    BY DEF StartupInv, UnitsOK
  <1>3. DaemonUp(v) /\ call' = call
    <2>1. ~DaemonCrash(v)
      BY DEF DaemonCrash, Can, OnlyStartup
    <2> QED BY <1>1, <1>2, <2>1 DEF Respawn, StartLimit, Collect, Host, pluginVars
  <1>4. PICK d \in FreeIds : dev' = [dev EXCEPT ![d] = [vol |-> v, state |-> "live"]]
    BY <1>3 DEF DaemonUp, Recoverable, OnlyStartup
  <1>5. /\ unit' = unit /\ fs' = fs /\ d \in DevId /\ dev[d] = FreeDev /\ FreeDev.state = "free"
        /\ dev'[d] = [vol |-> v, state |-> "live"] /\ \A e \in DevId : e # d => dev'[e] = dev[e]
    BY <1>3, <1>4 DEF DaemonUp, FreeIds, FreeDev, TypeOK, HostTypeOK
  <1>6. UnitsOK' /\ \A w : Live(w) => Live(w)'
    BY <1>5 DEF StartupInv, UnitsOK, Live, DevsOf
  <1>7. ASSUME NEW c \in Call PROVE CallOK(c)'
    <2>1. CallOK(c) /\ call'[c] = call[c]
      BY <1>3 DEF StartupInv
    <2>2. call[c].pc = "stopUnit" =>
            (\E e \in DevId : call[c].dev = e /\ dev[e] = [vol |-> call[c].vol, state |-> "live"])'
      BY <1>5, <2>1 DEF CallOK
    <2>3. call[c].pc = "ublkDel" =>
            (\E e \in DevId : call[c].dev = e /\ dev[e] = [vol |-> call[c].vol, state |-> "dead"])'
      BY <1>5, <2>1 DEF CallOK
    <2> QED BY <1>5, <1>6, <2>1, <2>2, <2>3 DEF CallOK, Owner
  <1>8. \A c, o \in Call : c # o => Apart(c, o)'
    BY <1>3 DEF StartupInv, Apart, Owner
  <1> QED BY <1>6, <1>7, <1>8 DEF StartupInv

\* Every step keeps the invariant.
LEMMA StartupStep ==
  ASSUME NodeAssumption, OnlyStartup, TypeOK, StartupInv, [Next]_vars
  PROVE  StartupInv'
  <1>1. ASSUME SameHost, call' = call PROVE StartupInv'
    <2>1. UnitsOK' /\ \A c \in Call : CallOK(c)'
      BY <1>1, SameHostKeeps
    <2>2. \A c, o \in Call : c # o => Apart(c, o)'
      BY <1>1 DEF StartupInv, Apart, Owner
    <2> QED BY <2>1, <2>2 DEF StartupInv
  <1>2. CASE UpdateNodeVolumeMap \/ UNCHANGED vars
    BY <1>1, <1>2 DEF UpdateNodeVolumeMap, vars, hostVars, pluginVars, SameHost
  <1>3. CASE PluginCrash
    <2>1. SameHost /\ \A c \in Call : call'[c] = Idle
      BY <1>3 DEF PluginCrash, DaemonsSurvive, hostVars, SameHost
    <2>2. UnitsOK'
      BY <2>1, SameHostKeeps
    <2>3. \A c \in Call : CallOK(c)' /\ ~Owner(c)' /\ call'[c].pc # "ublkDel"
      BY <2>1, IdleIsOK
    <2> QED BY <2>2, <2>3 DEF StartupInv, Apart
  <1> QED BY <1>2, <1>3, StartupHandler, StartupKubelet, StartupHost DEF Next

\* The invariant holds, and with it what it is for.
LEMMA StartupCorrect ==
  ASSUME HostAssumption, NodeAssumption, OnlyStartup
  PROVE  Spec => [](OneFormatter /\ FormatOnlyBlank)
  <1>1. Init => StartupInv
    <2> SUFFICES ASSUME Init PROVE StartupInv
      OBVIOUS
    <2>1. UnitsOK
      <3>1. FreeDev.state = "free"
        BY DEF FreeDev
      <3> QED BY <3>1 DEF Init, HostInit, UnitsOK
    <2>2. \A c \in Call : CallOK(c) /\ ~Owner(c) /\ call[c].pc # "ublkDel"
      <3>1. \A c \in Call : call[c].pc = "idle"
        BY DEF Init, Idle
      <3>2. "idle" \notin Owning \cup UnstagePc \cup StagePc \cup DeletePc \cup Mounting
        BY DEF Owning, UnstagePc, StagePc, DeletePc, Mounting
      <3> QED BY <3>1, <3>2 DEF CallOK, Owner
    <2> QED BY <2>1, <2>2 DEF StartupInv, Apart
  <1>2. TypeOK /\ StartupInv /\ [Next]_vars => StartupInv'
    BY StartupStep
  <1> QED BY <1>1, <1>2, TypeCorrect, OwnersPrepare, PTL DEF Spec

\* However many stage requests of a volume overlap, given up and repeated, and
\* however the start of its unit fails, one invocation at a time starts it,
\* waits for its device, probes, formats and mounts it.
THEOREM OneFormatterHolds ==
  ASSUME HostAssumption, NodeAssumption, OnlyStartup
  PROVE  Spec => []OneFormatter
  BY StartupCorrect, PTL

\* None of them formats a volume that carries a file system.
THEOREM FormatOnlyBlankHolds ==
  ASSUME HostAssumption, NodeAssumption, OnlyStartup
  PROVE  Spec => []FormatOnlyBlank
  BY StartupCorrect, PTL
=============================================================================
