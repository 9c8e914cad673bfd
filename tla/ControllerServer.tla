-------------------------- MODULE ControllerServer --------------------------
(***************************************************************************)
(* The controller service of the plugin (pkg/controller/controller.go):    *)
(* CreateVolume, DeleteVolume and the handlers that only look a volume up, *)
(* each a goroutine of its own.  The plugin keeps no volumes: the control  *)
(* plane does, and a request to it takes effect at most once and may fail  *)
(* either way (RemoteCall).  ConfigManager.Mutex is the only lock.         *)
(*                                                                         *)
(* The provisioner that calls the handlers, and what it was told, and the  *)
(* control plane's vdevs are external.                                     *)
(***************************************************************************)
EXTENDS Naturals

CONSTANTS
  Claim,          \* volume names, one per claim of a user
  Vdev,           \* bound: ids the control plane may give to vdevs
  Call,           \* handler invocations that can be in flight together
  Size,           \* sizes a claim may require, 0 for none
  DefaultSize,    \* what CreateVolume makes of no required size
  RecoveryClaim,  \* claims whose storage class says ublkrecovery: "true"
  Faults,         \* what the environment of a run may do wrong
  MaxUpsets,      \* bound: crashes of the controller and calls given up
  NoVdev, NoClaim, NoCall

FaultKind == {"lookup", "alloc", "allocLost", "remove", "removeLost", "crash",
              "otherSize", "clientTimeout"}

ASSUME ControllerAssumption ==
  /\ Size \subseteq Nat
  /\ DefaultSize \in Nat \ {0}
  /\ RecoveryClaim \subseteq Claim
  /\ Faults \subseteq FaultKind
  /\ MaxUpsets \in Nat
  /\ NoVdev \notin Vdev
  /\ NoClaim \notin Claim
  /\ NoCall \notin Call

Can(fault) == fault \in Faults

VARIABLES
  vdev,      \* vdev[i]: the control plane's vdev i
  call,      \* call[c]: the program counter and locals of one invocation
  writer,    \* the invocation that holds Mutex for writing
  readers,   \* those that hold it for reading
  claim,     \* claim[n]: what the provisioner wants and was told about n
  upsets,    \* crashes and calls given up so far
  slipped    \* history: claims for which a look-up failed or a create was given up

ghosts == <<upsets, slipped>>
vars == <<vdev, call, writer, readers, claim, ghosts>>

Unused == [state |-> "unused", name |-> NoClaim, size |-> 0]
Idle == [pc |-> "idle", vol |-> NoClaim, id |-> NoVdev, size |-> 0, waiting |-> FALSE]

Creating == {"findByName", "rlock", "alloc"}
Deleting == {"lock", "find", "remove"}
Inspecting == {"inspectLock", "inspect"}

\* Mutant: no required size is passed on as it is.
NoDefaultSize(size) == size

Required(size) == IF size = 0 THEN DefaultSize ELSE size
Sizes == (Size \ {0}) \cup {DefaultSize}

\* A create knows its claim and a real size, the other handlers an id.
Invocation ==
  {Idle}
  \cup [pc : Creating, vol : Claim, id : {NoVdev}, size : Sizes, waiting : BOOLEAN]
  \cup [pc : Deleting \cup Inspecting, vol : Claim, id : Vdev \cup {NoVdev},
        size : {0}, waiting : BOOLEAN]

Exists(i) == i \in Vdev /\ vdev[i].state = "exists"

TypeOK ==
  /\ vdev \in [Vdev -> [state : {"unused", "exists", "deleted"}, name : Claim \cup {NoClaim},
                        size : Sizes \cup {0}]]
  /\ \A i \in Vdev : Exists(i) => vdev[i].name \in Claim /\ vdev[i].size \in Sizes
  /\ call \in [Call -> Invocation]
  /\ writer \in Call \cup {NoCall}
  /\ readers \in SUBSET Call
  /\ claim \in [Claim -> [phase : {"wanted", "bound", "releasing", "gone"}, want : Size,
                          id : Vdev \cup {NoVdev}, size : Sizes \cup {0}, recovery : BOOLEAN]]
  /\ upsets \in 0 .. MaxUpsets
  /\ slipped \in SUBSET Claim

Init ==
  /\ vdev = [i \in Vdev |-> Unused]
  /\ call = [c \in Call |-> Idle]
  /\ writer = NoCall
  /\ readers = {}
  /\ \E want \in [Claim -> Size] :
       claim = [n \in Claim |-> [phase |-> "wanted", want |-> want[n], id |-> NoVdev,
                                 size |-> 0, recovery |-> FALSE]]
  /\ upsets = 0
  /\ slipped = {}

Named(n) == {i \in Vdev : Exists(i) /\ vdev[i].name = n}

(***************************************************************************)
(* The provisioner: it repeats CreateVolume with the claim's name until it *)
(* has an id, and DeleteVolume with that id until it succeeds.  A call it  *)
(* gives up goes on beside the next one.                                   *)
(***************************************************************************)
Busy(n) == \E c \in Call : call[c].vol = n /\ call[c].waiting

Begin(c, pc, n, i, s) ==
  /\ call[c] = Idle
  /\ ~Busy(n)
  /\ call' = [call EXCEPT ![c] = [pc |-> pc, vol |-> n, id |-> i, size |-> s, waiting |-> TRUE]]
  /\ UNCHANGED <<vdev, writer, readers, ghosts>>

CallCreate(c, n, s) ==
  /\ claim[n].phase = "wanted"
  /\ s = claim[n].want \/ Can("otherSize")
  /\ claim' = [claim EXCEPT ![n].want = s]
  /\ Begin(c, "findByName", n, NoVdev, Required(s))

CallDelete(c, n) ==
  /\ claim[n].phase \in {"bound", "releasing"}
  /\ claim' = [claim EXCEPT ![n].phase = "releasing"]
  /\ Begin(c, "lock", n, claim[n].id, 0)

\* ControllerPublishVolume, ControllerUnpublishVolume, ValidateVolumeCapabilities.
CallInspect(c, n) ==
  /\ claim[n].phase = "bound"
  /\ Begin(c, "inspectLock", n, claim[n].id, 0)
  /\ UNCHANGED claim

\* The controller or the network lets the provisioner down; a claim slips.
Upset == upsets < MaxUpsets /\ upsets' = upsets + 1
Slip(c) == slipped' = slipped \cup {call[c].vol} /\ UNCHANGED upsets

Abandon(c) ==
  /\ call[c].waiting
  /\ Can("clientTimeout")
  /\ Upset
  /\ call' = [call EXCEPT ![c].waiting = FALSE]
  /\ slipped' = IF call[c].pc \in Creating THEN slipped \cup {call[c].vol} ELSE slipped
  /\ UNCHANGED <<vdev, writer, readers, claim>>

\* The vdev was removed, or was not there.
ReleaseClaim(n) == claim' = [claim EXCEPT ![n].phase = "gone"]

At(c, pc) == call[c].pc = pc
Goto(c, pc) == call' = [call EXCEPT ![c].pc = pc]
End(c) == call' = [call EXCEPT ![c] = Idle]

\* CreateVolume succeeds with vdev i of size s; recovery is what the answer's
\* VolumeContext says.
Bind(c, i, s, recovery) ==
  /\ End(c)
  /\ claim' = IF call[c].waiting
              THEN LET n == call[c].vol IN
                   [claim EXCEPT ![n].phase = "bound", ![n].id = i,
                                 ![n].size = s, ![n].recovery = recovery]
              ELSE claim

Deleted(c) ==
  /\ End(c)
  /\ IF call[c].waiting THEN ReleaseClaim(call[c].vol) ELSE UNCHANGED claim

Failed(c) == End(c) /\ UNCHANGED claim

(***************************************************************************)
(* Mutex.  The handlers that lock it for writing keep it over their        *)
(* requests; AllocVdev takes it for reading.                               *)
(***************************************************************************)
\* Mutant: the mutex is not taken.
NoLock(c) == UNCHANGED writer

Lock(c) ==
  /\ writer = NoCall
  /\ readers = {}
  /\ writer' = c

Unlock(c) == writer' = IF writer = c THEN NoCall ELSE writer

(***************************************************************************)
(* CreateVolume.                                                           *)
(***************************************************************************)

\* Mutant: an existing vdev is returned whatever its size.
ReturnsAnySize(c) ==
  /\ At(c, "findByName")
  /\ IF Named(call[c].vol) # {}
     THEN \E i \in Named(call[c].vol) : Bind(c, i, vdev[i].size, FALSE)
     ELSE Goto(c, "rlock") /\ UNCHANGED claim
  /\ UNCHANGED <<vdev, writer, readers, ghosts>>

\* Mutant: there is no look-up by name.
NeverFinds(c) ==
  /\ At(c, "findByName")
  /\ Goto(c, "rlock")
  /\ UNCHANGED <<vdev, writer, readers, claim, ghosts>>

\* GetVolumeByName: an existing vdev is returned as it is, without the volume
\* context; another size is an error.
FindByName(c) ==
  /\ At(c, "findByName")
  /\ IF Named(call[c].vol) # {}
     THEN \E i \in Named(call[c].vol) :
            IF vdev[i].size = call[c].size THEN Bind(c, i, vdev[i].size, FALSE) ELSE Failed(c)
     ELSE Goto(c, "rlock") /\ UNCHANGED claim
  /\ UNCHANGED <<vdev, writer, readers, ghosts>>

\* Any error of the look-up is taken for "no such volume".
FindByNameFails(c) ==
  /\ At(c, "findByName")
  /\ Can("lookup")
  /\ Goto(c, "rlock")
  /\ Slip(c)
  /\ UNCHANGED <<vdev, writer, readers, claim>>

\* AllocVdev.
RLock(c) ==
  /\ At(c, "rlock")
  /\ writer = NoCall
  /\ readers' = readers \cup {c}
  /\ Goto(c, "alloc")
  /\ UNCHANGED <<vdev, writer, claim, ghosts>>

\* The control plane makes a vdev of this name; it does not look for others.
Create(c, i) ==
  /\ vdev[i] = Unused
  /\ vdev' = [vdev EXCEPT ![i] = [state |-> "exists", name |-> call[c].vol, size |-> call[c].size]]

AllocOk(c) ==
  /\ At(c, "alloc")
  /\ readers' = readers \ {c}
  /\ \E i \in Vdev :
       Create(c, i) /\ Bind(c, i, call[c].size, call[c].vol \in RecoveryClaim)
  /\ UNCHANGED <<writer, ghosts>>

AllocFails(c) ==
  /\ At(c, "alloc")
  /\ readers' = readers \ {c}
  /\ \/ Can("allocLost") /\ \E i \in Vdev : Create(c, i)
     \/ (Can("alloc") \/ \A i \in Vdev : vdev[i] # Unused) /\ UNCHANGED vdev
  /\ Failed(c)
  /\ UNCHANGED <<writer, ghosts>>

(***************************************************************************)
(* DeleteVolume.                                                           *)
(***************************************************************************)
LockForDelete(c) ==
  /\ At(c, "lock")
  /\ Lock(c)
  /\ Goto(c, "find")
  /\ UNCHANGED <<vdev, readers, claim, ghosts>>

\* Mutant: a volume that is not found is an error.
NotFoundIsError(c) ==
  /\ At(c, "find")
  /\ IF Exists(call[c].id)
     THEN Goto(c, "remove") /\ UNCHANGED <<claim, writer>>
     ELSE Failed(c) /\ Unlock(c)
  /\ UNCHANGED <<vdev, readers, ghosts>>

\* GetVolume: what cannot be found counts as deleted.
Find(c) ==
  /\ At(c, "find")
  /\ IF Exists(call[c].id)
     THEN Goto(c, "remove") /\ UNCHANGED <<claim, writer>>
     ELSE Deleted(c) /\ Unlock(c)
  /\ UNCHANGED <<vdev, readers, ghosts>>

FindFails(c) ==
  /\ At(c, "find")
  /\ Can("lookup")
  /\ Deleted(c)
  /\ Unlock(c)
  /\ Slip(c)
  /\ UNCHANGED <<vdev, readers>>

\* RemoveVolume.
Remove(i) == vdev' = [vdev EXCEPT ![i].state = "deleted"]

RemoveOk(c) ==
  /\ At(c, "remove")
  /\ Remove(call[c].id)
  /\ Deleted(c)
  /\ Unlock(c)
  /\ UNCHANGED <<readers, ghosts>>

\* Mutant: a failed removal is only logged.
RemoveErrorIgnored(c) ==
  /\ At(c, "remove")
  /\ \/ Can("removeLost") /\ Remove(call[c].id)
     \/ Can("remove") /\ UNCHANGED vdev
  /\ Deleted(c)
  /\ Unlock(c)
  /\ UNCHANGED <<readers, ghosts>>

RemoveFails(c) ==
  /\ At(c, "remove")
  /\ \/ Can("removeLost") /\ Remove(call[c].id)
     \/ Can("remove") /\ UNCHANGED vdev
  /\ Failed(c)
  /\ Unlock(c)
  /\ UNCHANGED <<readers, ghosts>>

(***************************************************************************)
(* The handlers that look a volume up and change nothing.                  *)
(***************************************************************************)
LockForInspect(c) ==
  /\ At(c, "inspectLock")
  /\ Lock(c)
  /\ Goto(c, "inspect")
  /\ UNCHANGED <<vdev, readers, claim, ghosts>>

\* Mutant: the path for a volume that is not found forgets to unlock.
StaysLocked(c) ==
  /\ At(c, "inspect")
  /\ Failed(c)
  /\ writer' = IF Exists(call[c].id) THEN NoCall ELSE writer
  /\ UNCHANGED <<vdev, readers, ghosts>>

Inspect(c) ==
  /\ At(c, "inspect")
  /\ Failed(c)
  /\ Unlock(c)
  /\ UNCHANGED <<vdev, readers, ghosts>>

\* The controller dies and is started again: it had nothing but its calls.
Crash ==
  /\ Can("crash")
  /\ Upset
  /\ call' = [c \in Call |-> Idle]
  /\ writer' = NoCall
  /\ readers' = {}
  /\ UNCHANGED <<vdev, claim, slipped>>

-----------------------------------------------------------------------------
Provisioner(c) ==
  \/ \E n \in Claim : CallDelete(c, n) \/ CallInspect(c, n) \/ \E s \in Size : CallCreate(c, n, s)
  \/ Abandon(c)

CreateVolume(c) == FindByName(c) \/ FindByNameFails(c) \/ RLock(c) \/ AllocOk(c) \/ AllocFails(c)
DeleteVolume(c) == LockForDelete(c) \/ Find(c) \/ FindFails(c) \/ RemoveOk(c) \/ RemoveFails(c)

Handler(c) == CreateVolume(c) \/ DeleteVolume(c) \/ LockForInspect(c) \/ Inspect(c)

Next == (\E c \in Call : Provisioner(c) \/ Handler(c)) \/ Crash

Spec == Init /\ [][Next]_vars

-----------------------------------------------------------------------------
(***************************************************************************)
(* Properties.                                                             *)
(***************************************************************************)

\* However often CreateVolume is repeated for a claim, after errors, lost
\* answers and crashes, the control plane holds one vdev for it; only a look-up
\* that failed, or a create that was given up and runs on, makes another.
OneVdevPerClaim == \A n \in Claim \ slipped : \A i, j \in Named(n) : i = j

\* A claim that was given a vdev has one, its own, of the size it asked for,
\* until DeleteVolume is called.
BoundIsBacked ==
  \A n \in Claim : claim[n].phase = "bound" =>
    /\ claim[n].id \in Named(n)
    /\ vdev[claim[n].id].size = claim[n].size
    /\ claim[n].size = Required(claim[n].want)

\* When DeleteVolume has succeeded no vdev of the claim is left, so that no
\* space is lost to a vdev nobody knows; again unless the look-up failed, which
\* DeleteVolume takes for success.
GoneIsDeleted == \A n \in Claim \ slipped : claim[n].phase = "gone" => Named(n) = {}

\* RemoveVolume is only asked for a vdev that exists, although a DeleteVolume
\* that was given up may run beside its repetition: the mutex covers the
\* look-up and the removal.
RemoveFindsVdev == \A c \in Call : At(c, "remove") => Exists(call[c].id)

\* A claim whose class asks for recovery is bound with a volume context that
\* says so, which is where NodeStageVolume takes it from.
RecoveryKept ==
  \A n \in Claim : claim[n].phase = "bound" => claim[n].recovery = (n \in RecoveryClaim)

\* Handlers run on, and sync.RWMutex lets everyone in who waits for it.  The
\* provisioner repeats DeleteVolume, and a removal that is tried again and again
\* succeeds some time.
Fairness ==
  /\ \A c \in Call : SF_vars(Handler(c)) /\ SF_vars(RemoveOk(c))
  /\ \A n \in Claim : SF_vars(\E c \in Call : CallDelete(c, n))

FairSpec == Spec /\ Fairness

\* Every invocation ends: none waits forever for the mutex.
CallsEnd == \A c \in Call : ~At(c, "idle") ~> At(c, "idle")

\* A claim that is being released is released some time, also when a removal
\* took effect and its answer was lost.
ReleasedIsGone == \A n \in Claim : claim[n].phase = "releasing" ~> claim[n].phase = "gone"
=============================================================================
