----------------------- MODULE ControllerServerProofs -----------------------
(***************************************************************************)
(* Proofs about ControllerServer for any claims, vdevs, invocations, sizes *)
(* and faults.  Beside the types the inductive invariant has three parts:  *)
(* Requests says what the invocations in flight know of their claims,      *)
(* Owned what a claim that was given a vdev has, and Single, of the claims *)
(* that have not slipped, why a second vdev is never made for them.  What  *)
(* the mutex gives is proved apart, from an invariant of its own.          *)
(***************************************************************************)
EXTENDS ControllerServer, TLAPS

NewVolume == [pc : Creating, vol : Claim, id : {NoVdev}, size : Sizes, waiting : BOOLEAN]
Other == [pc : Deleting \cup Inspecting, vol : Claim, id : Vdev \cup {NoVdev},
          size : {0}, waiting : BOOLEAN]
VdevType == [state : {"unused", "exists", "deleted"}, name : Claim \cup {NoClaim}, size : Sizes \cup {0}]
ClaimType == [phase : {"wanted", "bound", "releasing", "gone"}, want : Size,
              id : Vdev \cup {NoVdev}, size : Sizes \cup {0}, recovery : BOOLEAN]

\* An invocation's place tells which locals it has.
LEMMA CallFacts ==
  ASSUME TypeOK, NEW c \in Call
  PROVE  /\ call[c].pc \in Creating => call[c] \in NewVolume
         /\ call[c].pc \in Deleting \cup Inspecting => call[c] \in Other
         /\ call[c].pc = "idle" => call[c] = Idle
<1>1. call[c] \in {Idle} \cup NewVolume \cup Other
  BY DEF TypeOK, Invocation, NewVolume, Other
<1>2. Idle.pc = "idle"
  BY DEF Idle
<1>3. \A r \in NewVolume : r.pc \in Creating
  BY DEF NewVolume
<1>4. \A r \in Other : r.pc \in Deleting \cup Inspecting
  BY DEF Other
<1> QED BY <1>1, <1>2, <1>3, <1>4 DEF Creating, Deleting, Inspecting

\* Ending an invocation, and moving it within its handler, keeps it well typed.
LEMMA EndType ==
  ASSUME TypeOK, NEW c \in Call, End(c)
  PROVE  call' \in [Call -> Invocation]
BY DEF TypeOK, End, Invocation

\* An invocation that moves within its handler stays well typed.
LEMMA MoveType ==
  ASSUME TypeOK, NEW c \in Call, NEW pc, Goto(c, pc),
         \/ call[c].pc \in Creating /\ pc \in Creating
         \/ call[c].pc \in Deleting \cup Inspecting /\ pc \in Deleting \cup Inspecting
  PROVE  call' \in [Call -> Invocation]
<1>1. call' = [call EXCEPT ![c] = [call[c] EXCEPT !.pc = pc]]
  BY DEF Goto, TypeOK
<1>2. [call[c] EXCEPT !.pc = pc] \in NewVolume \cup Other
  <2>1. CASE call[c] \in NewVolume /\ pc \in Creating
    BY <2>1 DEF NewVolume
  <2>2. CASE call[c] \in Other /\ pc \in Deleting \cup Inspecting
    BY <2>2 DEF Other
  <2> QED BY <2>1, <2>2, CallFacts
<1> QED BY <1>1, <1>2 DEF TypeOK, Invocation, NewVolume, Other

\* So does beginning one.
LEMMA BeginType ==
  ASSUME ControllerAssumption, TypeOK, NEW c \in Call, NEW pc, NEW n \in Claim, NEW i, NEW s,
         Begin(c, pc, n, i, s),
         \/ pc \in Creating /\ i = NoVdev /\ s \in Sizes
         \/ pc \in Deleting \cup Inspecting /\ i \in Vdev \cup {NoVdev} /\ s = 0
  PROVE  call' \in [Call -> Invocation]
BY DEF TypeOK, Begin, Invocation

\* The size of a request is one that a vdev can have.
LEMMA RequiredType == ASSUME ControllerAssumption, NEW s \in Size PROVE Required(s) \in Sizes
BY DEF ControllerAssumption, Required, Sizes

\* A claim stays well typed when it is bound and when it is released.
LEMMA BindType ==
  ASSUME TypeOK, NEW c \in Call, call[c].vol \in Claim, NEW i \in Vdev,
         NEW s \in Sizes, NEW r \in BOOLEAN, Bind(c, i, s, r)
  PROVE  claim' \in [Claim -> ClaimType]
<1> DEFINE n == call[c].vol
           told == [claim[n] EXCEPT !.phase = "bound", !.id = i, !.size = s, !.recovery = r]
<1>1. claim \in [Claim -> ClaimType]
  BY DEF TypeOK, ClaimType
<1>2. told \in ClaimType
  BY <1>1 DEF ClaimType
<1>3. claim' = claim \/ claim' = [claim EXCEPT ![n] = told]
  <2>1. [claim EXCEPT ![n].phase = "bound", ![n].id = i, ![n].size = s, ![n].recovery = r]
          = [claim EXCEPT ![n] = told]
    BY <1>1
  <2> QED BY <2>1 DEF Bind
<1> QED BY <1>1, <1>2, <1>3

\* ... and when its deletion is answered.
LEMMA DeletedType ==
  ASSUME TypeOK, NEW c \in Call, call[c].vol \in Claim, Deleted(c)
  PROVE  claim' \in [Claim -> ClaimType]
<1> DEFINE n == call[c].vol
<1>1. claim \in [Claim -> ClaimType]
  BY DEF TypeOK, ClaimType
<1>2. [claim[n] EXCEPT !.phase = "gone"] \in ClaimType
  BY <1>1 DEF ClaimType
<1>3. claim' = claim \/ claim' = [claim EXCEPT ![n] = [claim[n] EXCEPT !.phase = "gone"]]
  BY DEF Deleted, ReleaseClaim
<1> QED BY <1>1, <1>2, <1>3

\* The control plane's vdevs stay well typed.
VdevsOK == /\ vdev \in [Vdev -> VdevType]
           /\ \A i \in Vdev : Exists(i) => vdev[i].name \in Claim /\ vdev[i].size \in Sizes

\* Allocating keeps the types of the vdevs.
LEMMA CreateType ==
  ASSUME TypeOK, NEW c \in Call, call[c] \in NewVolume, NEW i \in Vdev, Create(c, i)
  PROVE  VdevsOK'
BY DEF TypeOK, Create, VdevsOK, VdevType, NewVolume, Exists

\* Removing keeps the types of the vdevs.
LEMMA RemoveType ==
  ASSUME TypeOK, NEW i, Remove(i)
  PROVE  VdevsOK'
<1>1. vdev \in [Vdev -> VdevType]
  BY DEF TypeOK, VdevType
<1>2. \A j \in Vdev : [vdev[j] EXCEPT !.state = "deleted"] \in VdevType
  BY <1>1 DEF VdevType
<1>3. vdev' = [j \in Vdev |-> IF j = i THEN [vdev[j] EXCEPT !.state = "deleted"] ELSE vdev[j]]
  BY <1>1 DEF Remove
<1>4. vdev' \in [Vdev -> VdevType]
  BY <1>1, <1>2, <1>3
<1>5. ASSUME NEW j \in Vdev, Exists(j)' PROVE vdev'[j].name \in Claim /\ vdev'[j].size \in Sizes
  <2>1. j # i
    BY <1>5, <1>1, <1>3 DEF Exists, VdevType
  <2>2. vdev'[j] = vdev[j] /\ Exists(j)
    BY <2>1, <1>5, <1>3 DEF Exists
  <2> QED BY <2>2 DEF TypeOK
<1> QED BY <1>4, <1>5 DEF VdevsOK

\* Every step keeps the types.
LEMMA NextTypeOK ==
  ASSUME ControllerAssumption, TypeOK, [Next]_vars
  PROVE  TypeOK'
<1> DEFINE Rest == /\ writer \in Call \cup {NoCall} /\ readers \in SUBSET Call
                   /\ upsets \in 0 .. MaxUpsets /\ slipped \in SUBSET Claim
           Claims == claim \in [Claim -> ClaimType]
           Calls == call \in [Call -> Invocation]
<1>0. TypeOK <=> VdevsOK /\ Calls /\ Claims /\ Rest
  BY DEF TypeOK, VdevsOK, VdevType, ClaimType
<1>0p. TypeOK' <=> VdevsOK' /\ Calls' /\ Claims' /\ Rest'
  BY DEF TypeOK, VdevsOK, VdevType, ClaimType, Exists
<1>s. UNCHANGED vdev => VdevsOK'
  BY <1>0 DEF VdevsOK, Exists
<1>c. \A c \in Call : call[c].pc # "idle" => call[c].vol \in Claim
  BY CallFacts DEF TypeOK, Invocation, NewVolume, Other, Idle
<1>1. ASSUME NEW c \in Call, NEW n \in Claim, NEW s \in Size, CallCreate(c, n, s) PROVE TypeOK'
  <2>1. Calls'
    BY <1>1, RequiredType, BeginType, ControllerAssumption DEF CallCreate, Creating
  <2>2. Claims'
    BY <1>1, <1>0 DEF CallCreate, ClaimType
  <2> QED BY <1>0, <1>0p, <1>s, <1>1, <2>1, <2>2 DEF CallCreate, Begin, ghosts
<1>2. ASSUME NEW c \in Call, NEW n \in Claim, CallDelete(c, n) PROVE TypeOK'
  <2>1. claim[n].id \in Vdev \cup {NoVdev}
    BY DEF TypeOK
  <2>2. Calls'
    BY <1>2, <2>1, BeginType, ControllerAssumption DEF CallDelete, Deleting
  <2>3. Claims'
    BY <1>2, <1>0 DEF CallDelete, ClaimType
  <2> QED BY <1>0, <1>0p, <1>s, <1>2, <2>2, <2>3 DEF CallDelete, Begin, ghosts
<1>3. ASSUME NEW c \in Call, NEW n \in Claim, CallInspect(c, n) PROVE TypeOK'
  <2>1. claim[n].id \in Vdev \cup {NoVdev}
    BY DEF TypeOK
  <2>2. Calls'
    BY <1>3, <2>1, BeginType, ControllerAssumption DEF CallInspect, Inspecting
  <2> QED BY <1>0, <1>0p, <1>s, <1>3, <2>2 DEF CallInspect, Begin, ghosts
<1>4. ASSUME NEW c \in Call, Abandon(c) PROVE TypeOK'
  <2>1. call[c] \in NewVolume \cup Other
    BY <1>4, CallFacts DEF Abandon, TypeOK, Invocation, Idle, NewVolume, Other
  <2>2. [call[c] EXCEPT !.waiting = FALSE] \in NewVolume \cup Other
    BY <2>1 DEF NewVolume, Other
  <2>3. Calls'
    BY <1>0, <1>4, <2>2 DEF Abandon, Invocation, NewVolume, Other
  <2>4. call[c].vol \in Claim
    BY <2>1 DEF NewVolume, Other
  <2>5. Rest'
    BY <1>0, <1>4, <2>4, ControllerAssumption DEF ControllerAssumption, Abandon, Upset
  <2> QED BY <1>0, <1>0p, <1>s, <1>4, <2>3, <2>5 DEF Abandon
<1>5. ASSUME NEW c \in Call, FindByName(c) PROVE TypeOK'
  <2>1. call[c] \in NewVolume
    BY <1>5, CallFacts DEF FindByName, At, Creating
  <2>2. UNCHANGED <<vdev, writer, readers, upsets, slipped>>
    BY <1>5 DEF FindByName, ghosts
  <2>3. Calls' /\ Claims'
    <3>1. ASSUME NEW i \in Named(call[c].vol), Bind(c, i, vdev[i].size, FALSE) PROVE Calls' /\ Claims'
      <4>1. i \in Vdev /\ vdev[i].size \in Sizes /\ call[c].vol \in Claim
        BY <2>1 DEF Named, TypeOK, NewVolume
      <4> QED BY <3>1, <4>1, BindType, EndType DEF Bind
    <3>2. CASE Failed(c)
      BY <1>0, <3>2, EndType DEF Failed
    <3>3. CASE Goto(c, "rlock") /\ UNCHANGED claim
      BY <1>0, <1>5, <3>3, MoveType DEF FindByName, At, Creating
    <3> QED BY <1>5, <3>1, <3>2, <3>3 DEF FindByName
  <2> QED BY <1>0, <1>0p, <1>s, <2>2, <2>3
<1>6. ASSUME NEW c \in Call, FindByNameFails(c) PROVE TypeOK'
  <2>1. call[c].vol \in Claim
    BY <1>6, <1>c DEF FindByNameFails, At
  <2>2. Calls'
    BY <1>6, MoveType DEF FindByNameFails, At, Creating
  <2> QED BY <1>0, <1>0p, <1>s, <1>6, <2>1, <2>2 DEF FindByNameFails, Slip
<1>7. ASSUME NEW c \in Call, RLock(c) PROVE TypeOK'
  <2>1. Calls'
    BY <1>7, MoveType DEF RLock, At, Creating
  <2> QED BY <1>0, <1>0p, <1>s, <1>7, <2>1 DEF RLock, ghosts
<1>8. ASSUME NEW c \in Call, AllocOk(c) PROVE TypeOK'
  <2>1. call[c] \in NewVolume
    BY <1>8, CallFacts DEF AllocOk, At, Creating
  <2>2. PICK i \in Vdev : Create(c, i) /\ Bind(c, i, call[c].size, call[c].vol \in RecoveryClaim)
    BY <1>8 DEF AllocOk
  <2>3. VdevsOK'
    BY <2>1, <2>2, CreateType
  <2>4. call[c].vol \in Claim /\ call[c].size \in Sizes /\ (call[c].vol \in RecoveryClaim) \in BOOLEAN
    BY <2>1 DEF NewVolume
  <2>5. Claims'
    BY <2>2, <2>4, BindType
  <2>6. Calls'
    BY <2>2, EndType DEF Bind
  <2> QED BY <1>0, <1>0p, <1>8, <2>3, <2>5, <2>6 DEF AllocOk, ghosts
<1>9. ASSUME NEW c \in Call, AllocFails(c) PROVE TypeOK'
  <2>1. call[c] \in NewVolume
    BY <1>9, CallFacts DEF AllocFails, At, Creating
  <2>2. VdevsOK'
    BY <1>9, <1>s, <2>1, CreateType DEF AllocFails
  <2>3. Calls' /\ UNCHANGED claim
    BY <1>9, EndType DEF AllocFails, Failed
  <2> QED BY <1>0, <1>0p, <1>9, <2>2, <2>3 DEF AllocFails, ghosts
<1>10. ASSUME NEW c \in Call, LockForDelete(c) \/ LockForInspect(c) PROVE TypeOK'
  <2>1. Calls'
    BY <1>10, MoveType DEF LockForDelete, LockForInspect, At, Deleting, Inspecting
  <2> QED BY <1>0, <1>0p, <1>s, <1>10, <2>1 DEF LockForDelete, LockForInspect, Lock, ghosts
<1>11. ASSUME NEW c \in Call, Find(c) \/ FindFails(c) PROVE TypeOK'
  <2>1. call[c].vol \in Claim
    BY <1>11, <1>c DEF Find, FindFails, At
  <2>2. \/ Deleted(c) /\ Unlock(c)
        \/ Goto(c, "remove") /\ UNCHANGED <<claim, writer>>
    BY <1>11 DEF Find, FindFails
  <2>3. Calls'
    BY <1>11, <2>2, EndType, MoveType DEF Find, FindFails, At, Deleting, Deleted
  <2>4. Claims'
    BY <1>0, <2>1, <2>2, DeletedType
  <2>5. Rest'
    BY <1>0, <1>11, <2>1, <2>2 DEF Find, FindFails, Unlock, Slip, ghosts
  <2>6. VdevsOK'
    BY <1>11, <1>s DEF Find, FindFails
  <2> QED BY <1>0p, <2>3, <2>4, <2>5, <2>6
<1>12. ASSUME NEW c \in Call, RemoveOk(c) \/ RemoveFails(c) PROVE TypeOK'
  <2>1. call[c].vol \in Claim
    BY <1>12, <1>c DEF RemoveOk, RemoveFails, At
  <2>2. VdevsOK'
    BY <1>12, <1>s, RemoveType DEF RemoveOk, RemoveFails
  <2>3. Calls' /\ Claims'
    BY <1>0, <1>12, <2>1, EndType, DeletedType DEF RemoveOk, RemoveFails, Failed, Deleted
  <2> QED BY <1>0, <1>0p, <1>12, <2>2, <2>3 DEF RemoveOk, RemoveFails, Unlock, ghosts
<1>13. ASSUME NEW c \in Call, Inspect(c) PROVE TypeOK'
  <2>1. Calls' /\ UNCHANGED claim
    BY <1>13, EndType DEF Inspect, Failed
  <2> QED BY <1>0, <1>0p, <1>s, <1>13, <2>1 DEF Inspect, Unlock, ghosts
<1>14. ASSUME Crash PROVE TypeOK'
  <2>1. Calls'
    BY <1>14 DEF Crash, Invocation
  <2>2. Rest'
    BY <1>0, <1>14, ControllerAssumption DEF ControllerAssumption, Crash, Upset
  <2> QED BY <1>0, <1>0p, <1>s, <1>14, <2>1, <2>2 DEF Crash
<1>15. ASSUME UNCHANGED vars PROVE TypeOK'
  BY <1>15, <1>0, <1>0p, <1>s DEF vars, ghosts
<1> QED
  BY <1>1, <1>2, <1>3, <1>4, <1>5, <1>6, <1>7, <1>8, <1>9, <1>10, <1>11, <1>12, <1>13, <1>14, <1>15
  DEF Next, Provisioner, Handler, CreateVolume, DeleteVolume

\* The type invariant: invocations, claims, vdevs and the mutex of the
\* controller service only ever hold what its handlers put there.
THEOREM TypeCorrect == Spec => []TypeOK
<1>1. Init => TypeOK
  BY ControllerAssumption DEF ControllerAssumption, Init, TypeOK, Unused, Idle, Invocation, Exists
<1>2. TypeOK /\ [Next]_vars => TypeOK'
  BY ControllerAssumption, NextTypeOK
<1> QED BY <1>1, <1>2, PTL DEF Spec

(***************************************************************************)
(* The vdevs of a claim.                                                   *)
(***************************************************************************)
\* An invocation somebody waits for is the only one of its claim; a create that
\* is waited for belongs to a claim that has no vdev yet, a delete to one that
\* is given back.
Requests ==
  \A c \in Call :
    /\ call[c].waiting =>
         \A d \in Call : call[d].waiting /\ call[d].vol = call[c].vol => d = c
    /\ call[c].pc \in Creating /\ call[c].waiting =>
         /\ claim[call[c].vol].phase = "wanted"
         /\ call[c].size = Required(claim[call[c].vol].want)
    /\ call[c].pc \in Deleting =>
         /\ claim[call[c].vol].phase \in {"releasing", "gone"}
         /\ call[c].id = claim[call[c].vol].id

\* What a claim was told is a vdev of its own.
Owned ==
  \A n \in Claim : claim[n].phase # "wanted" =>
    /\ claim[n].id \in Vdev
    /\ vdev[claim[n].id].state # "unused"
    /\ vdev[claim[n].id].name = n
    /\ claim[n].phase = "bound" =>
         /\ vdev[claim[n].id].state = "exists"
         /\ vdev[claim[n].id].size = claim[n].size
         /\ claim[n].size = Required(claim[n].want)

\* Until a claim slips, its creates are waited for, one of them past the look-up
\* proves that there is no vdev, and a vdev there is is the one it was told.
SingleOf(n) ==
  /\ \A c \in Call : call[c].vol = n /\ call[c].pc \in Creating => call[c].waiting
  /\ \A c \in Call : call[c].vol = n /\ call[c].pc \in {"rlock", "alloc"} => Named(n) = {}
  /\ \A i, j \in Named(n) : i = j
  /\ claim[n].phase \in {"bound", "releasing"} => Named(n) \subseteq {claim[n].id}
  /\ claim[n].phase = "gone" => Named(n) = {}

Single == \A n \in Claim \ slipped : SingleOf(n)

IInv == TypeOK /\ Requests /\ Owned /\ Single

\* What an invocation keeps when it moves on, and what is left when it ends.
SameLocals(d) ==
  /\ call'[d].vol = call[d].vol
  /\ call'[d].id = call[d].id
  /\ call'[d].size = call[d].size
  /\ call'[d].waiting = call[d].waiting

\* Only the place of one invocation moves.
LEMMA GotoFacts ==
  ASSUME TypeOK, NEW c \in Call, NEW pc, Goto(c, pc)
  PROVE  /\ \A d \in Call : SameLocals(d)
         /\ \A d \in Call \ {c} : call'[d] = call[d]
         /\ call'[c].pc = pc
<1>1. call[c] \in {Idle} \cup NewVolume \cup Other
  BY DEF TypeOK, Invocation, NewVolume, Other
<1>2. \A r \in {Idle} \cup NewVolume \cup Other : /\ [r EXCEPT !.pc = pc].pc = pc
                                                  /\ [r EXCEPT !.pc = pc].vol = r.vol
                                                  /\ [r EXCEPT !.pc = pc].id = r.id
                                                  /\ [r EXCEPT !.pc = pc].size = r.size
                                                  /\ [r EXCEPT !.pc = pc].waiting = r.waiting
  BY DEF Idle, NewVolume, Other
<1>3. call' = [call EXCEPT ![c] = [call[c] EXCEPT !.pc = pc]]
  BY DEF Goto, TypeOK
<1>4. \A d \in Call : call'[d] = IF d = c THEN [call[c] EXCEPT !.pc = pc] ELSE call[d]
  BY <1>3 DEF TypeOK
<1>5. \A d \in Call \ {c} : call'[d] = call[d]
  BY <1>4
<1>6. call'[c] = [call[c] EXCEPT !.pc = pc]
  BY <1>4
<1>7. SameLocals(c) /\ call'[c].pc = pc
  BY <1>1, <1>2, <1>6 DEF SameLocals
<1>8. \A d \in Call : SameLocals(d)
  BY <1>5, <1>7 DEF SameLocals
<1> QED BY <1>5, <1>7, <1>8

\* An invocation that ends is idle, the others go on.
LEMMA EndFacts ==
  ASSUME TypeOK, NEW c \in Call, End(c)
  PROVE  /\ call'[c] = Idle
         /\ \A d \in Call \ {c} : call'[d] = call[d]
BY DEF TypeOK, End

\* An invocation begins when nobody waits for another one of its claim.
LEMMA BeginFacts ==
  ASSUME TypeOK, NEW c \in Call, NEW pc, NEW n, NEW i, NEW s, Begin(c, pc, n, i, s)
  PROVE  /\ call'[c] = [pc |-> pc, vol |-> n, id |-> i, size |-> s, waiting |-> TRUE]
         /\ \A d \in Call \ {c} : call'[d] = call[d]
         /\ \A d \in Call : ~(call[d].vol = n /\ call[d].waiting)
         /\ UNCHANGED <<vdev, slipped>>
BY DEF TypeOK, Begin, Busy, ghosts

\* What the answers to the provisioner do to its claims.
LEMMA BindFacts ==
  ASSUME TypeOK, NEW c \in Call, call[c].vol \in Claim, NEW i, NEW s, NEW r, Bind(c, i, s, r)
  PROVE  /\ \A m \in Claim \ {call[c].vol} : claim'[m] = claim[m]
         /\ ~call[c].waiting => claim' = claim
         /\ call[c].waiting =>
              /\ claim'[call[c].vol].phase = "bound"
              /\ claim'[call[c].vol].id = i
              /\ claim'[call[c].vol].size = s
              /\ claim'[call[c].vol].want = claim[call[c].vol].want
<1> DEFINE n == call[c].vol
<1>1. CASE ~call[c].waiting
  BY <1>1 DEF Bind
<1>2. CASE call[c].waiting
  <2> DEFINE told == [claim[n] EXCEPT !.phase = "bound", !.id = i, !.size = s, !.recovery = r]
  <2>1. claim \in [Claim -> ClaimType]
    BY DEF TypeOK, ClaimType
  <2>2. claim' = [claim EXCEPT ![n] = told]
    <3>1. claim' = [claim EXCEPT ![n].phase = "bound", ![n].id = i, ![n].size = s, ![n].recovery = r]
      BY <1>2 DEF Bind
    <3> QED BY <2>1, <3>1
  <2>3. told.phase = "bound" /\ told.id = i /\ told.size = s /\ told.want = claim[n].want
    BY <2>1 DEF ClaimType
  <2> HIDE DEF told
  <2>4. claim'[n] = told /\ \A m \in Claim \ {n} : claim'[m] = claim[m]
    BY <2>1, <2>2
  <2> QED BY <1>2, <2>3, <2>4
<1> QED BY <1>1, <1>2

\* ... and that its vdev is deleted.
LEMMA DeletedFacts ==
  ASSUME TypeOK, NEW c \in Call, call[c].vol \in Claim, Deleted(c)
  PROVE  /\ \A m \in Claim \ {call[c].vol} : claim'[m] = claim[m]
         /\ ~call[c].waiting => claim' = claim
         /\ call[c].waiting =>
              /\ claim'[call[c].vol].phase = "gone"
              /\ claim'[call[c].vol].id = claim[call[c].vol].id
<1> DEFINE n == call[c].vol
<1>1. CASE ~call[c].waiting
  BY <1>1 DEF Deleted
<1>2. CASE call[c].waiting
  <2>1. claim' = [claim EXCEPT ![n].phase = "gone"]
    BY <1>2 DEF Deleted, ReleaseClaim
  <2>2. claim \in [Claim -> ClaimType]
    BY DEF TypeOK, ClaimType
  <2>3. \A m \in Claim \ {n} : claim'[m] = claim[m]
    BY <2>1, <2>2
  <2>4. claim'[n].phase = "gone" /\ claim'[n].id = claim[n].id
    BY <2>1, <2>2 DEF ClaimType
  <2> QED BY <1>2, <2>3, <2>4
<1> QED BY <1>1, <1>2

\* What the control plane does to the vdevs of the names.
LEMMA CreateFacts ==
  ASSUME TypeOK, NEW c \in Call, NEW i \in Vdev, Create(c, i)
  PROVE  /\ vdev[i].state = "unused"
         /\ vdev'[i] = [state |-> "exists", name |-> call[c].vol, size |-> call[c].size]
         /\ \A j \in Vdev \ {i} : vdev'[j] = vdev[j]
BY DEF TypeOK, Create, Unused

\* A removal deletes one vdev and no other.
LEMMA RemoveFacts ==
  ASSUME TypeOK, NEW i \in Vdev, Remove(i)
  PROVE  /\ vdev'[i].state = "deleted"
         /\ vdev'[i].name = vdev[i].name
         /\ \A j \in Vdev \ {i} : vdev'[j] = vdev[j]
         /\ \A m : Named(m)' = Named(m) \ {i}
<1>1. /\ vdev'[i].state = "deleted"
      /\ vdev'[i].name = vdev[i].name
      /\ \A j \in Vdev \ {i} : vdev'[j] = vdev[j]
  BY DEF TypeOK, Remove
<1> QED BY <1>1 DEF Named, Exists

\* Invocations that only end, move within their handler or are given up keep
\* Requests, when no claim changes under those that stay.
Onward(d) ==
  \/ call'[d] = Idle
  \/ /\ call'[d].vol = call[d].vol
     /\ call'[d].id = call[d].id
     /\ call'[d].size = call[d].size
     /\ call'[d].waiting => call[d].waiting
     /\ call'[d].pc \in Creating => call[d].pc \in Creating
     /\ call'[d].pc \in Deleting => call[d].pc \in Deleting

SameTold(n) ==
  /\ claim'[n].phase = claim[n].phase
  /\ claim'[n].want = claim[n].want
  /\ claim'[n].id = claim[n].id

\* What must be true of a step for Requests to survive it.
LEMMA RequestsKept ==
  ASSUME TypeOK, TypeOK', Requests,
         \A d \in Call : Onward(d),
         \A d \in Call : call'[d].pc \in Creating /\ call'[d].waiting => SameTold(call[d].vol),
         \A d \in Call : call'[d].pc \in Deleting =>
            /\ claim'[call[d].vol].phase \in {"releasing", "gone"}
            /\ claim'[call[d].vol].id = claim[call[d].vol].id
  PROVE  Requests'
<1> SUFFICES ASSUME NEW c \in Call
             PROVE  /\ call'[c].waiting =>
                         \A d \in Call : call'[d].waiting /\ call'[d].vol = call'[c].vol => d = c
                    /\ call'[c].pc \in Creating /\ call'[c].waiting =>
                         /\ claim'[call'[c].vol].phase = "wanted"
                         /\ call'[c].size = Required(claim'[call'[c].vol].want)
                    /\ call'[c].pc \in Deleting =>
                         /\ claim'[call'[c].vol].phase \in {"releasing", "gone"}
                         /\ call'[c].id = claim'[call'[c].vol].id
  BY DEF Requests, Required
<1>1. Idle.pc = "idle" /\ Idle.waiting = FALSE
  BY DEF Idle
<1>2. call'[c].waiting => \A d \in Call : call'[d].waiting /\ call'[d].vol = call'[c].vol => d = c
  <2>1. \A d \in Call : call'[d].waiting => call[d].waiting /\ call'[d].vol = call[d].vol
    BY <1>1 DEF Onward
  <2> QED BY <2>1 DEF Requests
<1>3. CASE call'[c] = Idle
  BY <1>1, <1>2, <1>3 DEF Creating, Deleting
<1>4. CASE call'[c] # Idle
  <2>1. /\ call'[c].vol = call[c].vol
        /\ call'[c].id = call[c].id
        /\ call'[c].size = call[c].size
        /\ call'[c].waiting => call[c].waiting
        /\ call'[c].pc \in Creating => call[c].pc \in Creating
        /\ call'[c].pc \in Deleting => call[c].pc \in Deleting
    BY <1>4 DEF Onward
  <2>2. call'[c].pc \in Creating /\ call'[c].waiting =>
          /\ claim'[call'[c].vol].phase = "wanted"
          /\ call'[c].size = Required(claim'[call'[c].vol].want)
    BY <2>1 DEF Requests, SameTold
  <2>3. call'[c].pc \in Deleting =>
          /\ claim'[call'[c].vol].phase \in {"releasing", "gone"}
          /\ call'[c].id = claim'[call'[c].vol].id
    BY <2>1 DEF Requests
  <2> QED BY <1>2, <2>2, <2>3
<1> QED BY <1>3, <1>4

\* A step of one invocation that ends it or moves it on, and leaves the claims.
LEMMA QuietRequests ==
  ASSUME TypeOK, TypeOK', Requests, NEW c \in Call, UNCHANGED claim,
         \/ End(c)
         \/ \E pc : /\ Goto(c, pc)
                    /\ pc \in Creating => call[c].pc \in Creating
                    /\ pc \in Deleting => call[c].pc \in Deleting
  PROVE  Requests'
<1>1. \A d \in Call : Onward(d)
  BY EndFacts, GotoFacts DEF Onward, SameLocals
<1>2. \A d \in Call : call'[d].pc \in Deleting => call[d].pc \in Deleting
  BY <1>1 DEF Onward, Idle, Deleting
<1> QED BY <1>1, <1>2, RequestsKept DEF SameTold, Requests

\* An answered CreateVolume keeps Requests.
LEMMA BindRequests ==
  ASSUME TypeOK, TypeOK', Requests, NEW c \in Call, call[c].vol \in Claim, call[c].pc \in Creating,
         NEW i, NEW s, NEW r, Bind(c, i, s, r)
  PROVE  Requests'
<1>1. End(c)
  BY DEF Bind
<1>2. \A d \in Call : Onward(d)
  BY <1>1, EndFacts DEF Onward
<1>3. \A d \in Call : call'[d].pc # "idle" => d # c /\ call'[d] = call[d]
  BY <1>1, EndFacts DEF Idle
<1>4. CASE ~call[c].waiting
  BY <1>1, <1>4, BindFacts, QuietRequests
<1>5. CASE call[c].waiting
  <2>1. ASSUME NEW d \in Call, call'[d].pc \in Creating, call'[d].waiting PROVE SameTold(call[d].vol)
    <3>1. d # c /\ call[d].waiting /\ call[d].vol \in Claim
      BY <1>3, <2>1, CallFacts DEF Creating, NewVolume
    <3>2. call[d].vol # call[c].vol
      BY <3>1, <1>5 DEF Requests
    <3> QED BY <3>1, <3>2, BindFacts DEF SameTold
  <2>2. ASSUME NEW d \in Call, call'[d].pc \in Deleting
        PROVE  /\ claim'[call[d].vol].phase \in {"releasing", "gone"}
               /\ claim'[call[d].vol].id = claim[call[d].vol].id
    <3>1. call[d].pc \in Deleting /\ call[d].vol \in Claim
      BY <1>3, <2>2, CallFacts DEF Deleting, Other
    <3>2. claim[call[d].vol].phase \in {"releasing", "gone"} /\ claim[call[c].vol].phase = "wanted"
      BY <3>1, <1>5 DEF Requests
    <3>3. call[d].vol # call[c].vol
      BY <3>2
    <3> QED BY <3>1, <3>2, <3>3, BindFacts
  <2> QED BY <1>2, <2>1, <2>2, RequestsKept
<1> QED BY <1>4, <1>5

\* An answered DeleteVolume keeps Requests.
LEMMA DeletedRequests ==
  ASSUME TypeOK, TypeOK', Requests, NEW c \in Call, call[c].vol \in Claim, call[c].pc \in Deleting,
         Deleted(c)
  PROVE  Requests'
<1>1. End(c)
  BY DEF Deleted
<1>2. \A d \in Call : Onward(d)
  BY <1>1, EndFacts DEF Onward
<1>3. \A d \in Call : call'[d].pc # "idle" => d # c /\ call'[d] = call[d]
  BY <1>1, EndFacts DEF Idle
<1>4. CASE ~call[c].waiting
  BY <1>1, <1>4, DeletedFacts, QuietRequests
<1>5. CASE call[c].waiting
  <2>1. ASSUME NEW d \in Call, call'[d].pc \in Creating, call'[d].waiting PROVE SameTold(call[d].vol)
    <3>1. d # c /\ call[d].waiting /\ call[d].vol \in Claim
      BY <1>3, <2>1, CallFacts DEF Creating, NewVolume
    <3>2. call[d].vol # call[c].vol
      BY <3>1, <1>5 DEF Requests
    <3> QED BY <3>1, <3>2, DeletedFacts DEF SameTold
  <2>2. ASSUME NEW d \in Call, call'[d].pc \in Deleting
        PROVE  /\ claim'[call[d].vol].phase \in {"releasing", "gone"}
               /\ claim'[call[d].vol].id = claim[call[d].vol].id
    <3>1. call[d].pc \in Deleting /\ call[d].vol \in Claim
      BY <1>3, <2>2, CallFacts DEF Deleting, Other
    <3>2. claim[call[d].vol].phase \in {"releasing", "gone"}
      BY <3>1 DEF Requests
    <3> QED BY <3>1, <3>2, <1>5, DeletedFacts
  <2> QED BY <1>2, <2>1, <2>2, RequestsKept
<1> QED BY <1>4, <1>5

\* A call of the provisioner keeps Requests if the claim is as its handler
\* expects, the claims of the other invocations being left as they are.
LEMMA BeginRequests ==
  ASSUME TypeOK, Requests, NEW c \in Call, NEW pc, NEW n \in Claim, NEW i, NEW s,
         Begin(c, pc, n, i, s),
         \A d \in Call : call[d].pc \in Creating /\ call[d].waiting => SameTold(call[d].vol),
         \A d \in Call : call[d].pc \in Deleting =>
            /\ claim'[call[d].vol].phase \in {"releasing", "gone"}
            /\ claim'[call[d].vol].id = claim[call[d].vol].id,
         pc \in Creating => claim'[n].phase = "wanted" /\ s = Required(claim'[n].want),
         pc \in Deleting => claim'[n].phase \in {"releasing", "gone"} /\ i = claim'[n].id
  PROVE  Requests'
<1>1. /\ call'[c] = [pc |-> pc, vol |-> n, id |-> i, size |-> s, waiting |-> TRUE]
      /\ \A d \in Call \ {c} : call'[d] = call[d]
      /\ \A d \in Call : ~(call[d].vol = n /\ call[d].waiting)
  BY BeginFacts
<1>2. ASSUME NEW d \in Call, NEW e \in Call, call'[d].waiting, call'[e].waiting, call'[e].vol = call'[d].vol
      PROVE  e = d
  BY <1>1, <1>2 DEF Requests
<1>3. ASSUME NEW d \in Call, call'[d].pc \in Creating, call'[d].waiting
      PROVE  /\ claim'[call'[d].vol].phase = "wanted"
             /\ call'[d].size = Required(claim'[call'[d].vol].want)
  <2>1. CASE d = c
    BY <1>1, <1>3, <2>1
  <2>2. CASE d # c
    BY <1>1, <1>3, <2>2 DEF Requests, SameTold
  <2> QED BY <2>1, <2>2
<1>4. ASSUME NEW d \in Call, call'[d].pc \in Deleting
      PROVE  /\ claim'[call'[d].vol].phase \in {"releasing", "gone"}
             /\ call'[d].id = claim'[call'[d].vol].id
  <2>1. CASE d = c
    BY <1>1, <1>4, <2>1
  <2>2. CASE d # c
    BY <1>1, <1>4, <2>2 DEF Requests
  <2> QED BY <2>1, <2>2
<1> QED BY <1>2, <1>3, <1>4 DEF Requests, Required

\* Every step keeps Requests.
LEMMA NextRequests ==
  ASSUME TypeOK, TypeOK', Requests, [Next]_vars
  PROVE  Requests'
<1>c. \A d \in Call : call[d].pc \in Creating \cup Deleting => call[d].vol \in Claim
  BY CallFacts DEF NewVolume, Other
<1>1. ASSUME NEW c \in Call, NEW n \in Claim, NEW s \in Size, CallCreate(c, n, s) PROVE Requests'
  <2>1. /\ claim[n].phase = "wanted" /\ claim'[n].phase = "wanted" /\ claim'[n].want = s
        /\ claim'[n].id = claim[n].id
        /\ \A m \in Claim \ {n} : claim'[m] = claim[m]
    BY <1>1 DEF CallCreate, TypeOK
  <2>2. Begin(c, "findByName", n, NoVdev, Required(s))
    BY <1>1 DEF CallCreate
  <2>3. \A d \in Call : call[d].pc \in Creating /\ call[d].waiting => SameTold(call[d].vol)
    <3>1. \A d \in Call : ~(call[d].vol = n /\ call[d].waiting)
      BY <2>2 DEF Begin, Busy
    <3> QED BY <1>c, <2>1, <3>1 DEF SameTold
  <2>4. \A d \in Call : call[d].pc \in Deleting =>
            /\ claim'[call[d].vol].phase \in {"releasing", "gone"}
            /\ claim'[call[d].vol].id = claim[call[d].vol].id
    BY <1>c, <2>1 DEF Requests
  <2> QED BY <2>1, <2>2, <2>3, <2>4, BeginRequests DEF Creating, Deleting
<1>2. ASSUME NEW c \in Call, NEW n \in Claim, CallDelete(c, n) PROVE Requests'
  <2>1. /\ claim[n].phase \in {"bound", "releasing"} /\ claim'[n].phase = "releasing"
        /\ claim'[n].id = claim[n].id
        /\ \A m \in Claim \ {n} : claim'[m] = claim[m]
    BY <1>2 DEF CallDelete, TypeOK
  <2>2. Begin(c, "lock", n, claim[n].id, 0)
    BY <1>2 DEF CallDelete
  <2>3. \A d \in Call : call[d].pc \in Creating /\ call[d].waiting => SameTold(call[d].vol)
    <3>1. \A d \in Call : ~(call[d].vol = n /\ call[d].waiting)
      BY <2>2 DEF Begin, Busy
    <3> QED BY <1>c, <2>1, <3>1 DEF SameTold
  <2>4. \A d \in Call : call[d].pc \in Deleting =>
            /\ claim'[call[d].vol].phase \in {"releasing", "gone"}
            /\ claim'[call[d].vol].id = claim[call[d].vol].id
    BY <1>c, <2>1 DEF Requests
  <2> QED BY <2>1, <2>2, <2>3, <2>4, BeginRequests DEF Creating, Deleting
<1>3. ASSUME NEW c \in Call, NEW n \in Claim, CallInspect(c, n) PROVE Requests'
  <2>1. Begin(c, "inspectLock", n, claim[n].id, 0) /\ UNCHANGED claim
    BY <1>3 DEF CallInspect
  <2> QED BY <2>1, BeginRequests DEF Creating, Deleting, SameTold, Requests
<1>4. ASSUME NEW c \in Call, Abandon(c) PROVE Requests'
  <2>1. \A d \in Call : Onward(d) /\ call'[d].pc = call[d].pc
    <3>1. call' = [call EXCEPT ![c].waiting = FALSE] /\ call[c] \in {Idle} \cup NewVolume \cup Other
      BY <1>4 DEF Abandon, TypeOK, Invocation, NewVolume, Other
    <3>2. \A r \in {Idle} \cup NewVolume \cup Other : /\ [r EXCEPT !.waiting = FALSE].pc = r.pc
                                                      /\ [r EXCEPT !.waiting = FALSE].vol = r.vol
                                                      /\ [r EXCEPT !.waiting = FALSE].id = r.id
                                                      /\ [r EXCEPT !.waiting = FALSE].size = r.size
                                                      /\ [r EXCEPT !.waiting = FALSE].waiting = FALSE
      BY DEF Idle, NewVolume, Other
    <3>3. \A d \in Call : call'[d] = IF d = c THEN [call[c] EXCEPT !.waiting = FALSE] ELSE call[d]
      BY <3>1 DEF TypeOK
    <3> QED BY <3>1, <3>2, <3>3 DEF Onward
  <2>2. UNCHANGED claim
    BY <1>4 DEF Abandon
  <2> QED BY <2>1, <2>2, RequestsKept DEF SameTold, Requests
<1>5. ASSUME NEW c \in Call, FindByName(c) PROVE Requests'
  <2>1. call[c].pc \in Creating /\ call[c].vol \in Claim
    BY <1>5, <1>c DEF FindByName, At, Creating
  <2>2. CASE \E i : Bind(c, i, vdev[i].size, FALSE)
    BY <2>1, <2>2, BindRequests
  <2>3. CASE UNCHANGED claim /\ (End(c) \/ Goto(c, "rlock"))
    BY <2>1, <2>3, QuietRequests DEF Deleting
  <2> QED BY <1>5, <2>2, <2>3 DEF FindByName, Failed
<1>6. ASSUME NEW c \in Call, FindByNameFails(c) \/ RLock(c) PROVE Requests'
  <2>1. UNCHANGED claim /\ call[c].pc \in Creating /\ (Goto(c, "rlock") \/ Goto(c, "alloc"))
    BY <1>6 DEF FindByNameFails, RLock, At, Creating
  <2> QED BY <2>1, QuietRequests DEF Deleting
<1>7. ASSUME NEW c \in Call, AllocOk(c) PROVE Requests'
  <2>1. call[c].pc \in Creating /\ call[c].vol \in Claim
    BY <1>7, <1>c DEF AllocOk, At, Creating
  <2> QED BY <1>7, <2>1, BindRequests DEF AllocOk
<1>8. ASSUME NEW c \in Call, AllocFails(c) \/ RemoveFails(c) \/ Inspect(c) PROVE Requests'
  BY <1>8, QuietRequests DEF AllocFails, RemoveFails, Inspect, Failed
<1>9. ASSUME NEW c \in Call, LockForDelete(c) PROVE Requests'
  BY <1>9, QuietRequests DEF LockForDelete, At, Creating, Deleting
<1>10. ASSUME NEW c \in Call, LockForInspect(c) PROVE Requests'
  BY <1>10, QuietRequests DEF LockForInspect, At, Creating, Deleting
<1>11. ASSUME NEW c \in Call, Find(c) \/ FindFails(c) \/ RemoveOk(c) PROVE Requests'
  <2>1. call[c].pc \in Deleting /\ call[c].vol \in Claim
    BY <1>11, <1>c DEF Find, FindFails, RemoveOk, At, Deleting
  <2>2. CASE Deleted(c)
    BY <2>1, <2>2, DeletedRequests
  <2>3. CASE Goto(c, "remove") /\ UNCHANGED claim
    BY <2>1, <2>3, QuietRequests DEF Creating
  <2> QED BY <1>11, <2>2, <2>3 DEF Find, FindFails, RemoveOk
<1>12. ASSUME Crash PROVE Requests'
  <2>1. UNCHANGED claim /\ \A d \in Call : call'[d] = Idle
    BY <1>12 DEF Crash
  <2>2. \A d \in Call : Onward(d) /\ call'[d].pc \notin Creating \cup Deleting
    <3>1. Idle.pc = "idle"
      BY DEF Idle
    <3> QED BY <2>1, <3>1 DEF Onward, Creating, Deleting
  <2> QED BY <2>2, RequestsKept
<1>13. ASSUME UNCHANGED vars PROVE Requests'
  BY <1>13, RequestsKept DEF vars, Onward, SameTold, Requests
<1> QED
  BY <1>1, <1>2, <1>3, <1>4, <1>5, <1>6, <1>7, <1>8, <1>9, <1>10, <1>11, <1>12, <1>13
  DEF Next, Provisioner, Handler, CreateVolume, DeleteVolume

\* Owned stays when no vdev changes, except where a claim is bound.
LEMMA OwnedKept ==
  ASSUME Owned, UNCHANGED vdev,
         \A m \in Claim : \/ claim'[m] = claim[m]
                          \/ claim'[m].phase = "wanted"
                          \/ /\ claim[m].phase # "wanted"
                             /\ claim'[m].phase \in {"releasing", "gone"}
                             /\ claim'[m].id = claim[m].id
                          \/ /\ claim'[m].phase = "bound"
                             /\ claim'[m].id \in Named(m)
                             /\ claim'[m].size = vdev[claim'[m].id].size
                             /\ claim'[m].size = Required(claim'[m].want)
  PROVE  Owned'
BY DEF Owned, Named, Exists, Required

\* A delete asks for the vdev of its claim.
LEMMA DeletesItsOwn ==
  ASSUME TypeOK, Requests, Owned, NEW c \in Call, call[c].pc \in Deleting
  PROVE  /\ call[c].vol \in Claim
         /\ call[c].id \in Vdev
         /\ call[c].id = claim[call[c].vol].id
         /\ vdev[call[c].id].name = call[c].vol
         /\ claim[call[c].vol].phase \in {"releasing", "gone"}
<1>1. call[c].vol \in Claim
  BY CallFacts DEF Other
<1> QED BY <1>1 DEF Requests, Owned

\* The removal of its vdev leaves the vdevs of the other claims.
LEMMA RemoveOwned ==
  ASSUME TypeOK, Requests, Owned, NEW c \in Call, call[c].pc \in Deleting, Remove(call[c].id),
         \A m \in Claim \ {call[c].vol} : claim'[m] = claim[m],
         claim'[call[c].vol].phase \in {"releasing", "gone"},
         claim'[call[c].vol].id = claim[call[c].vol].id
  PROVE  Owned'
<1> DEFINE n == call[c].vol
<1>1. /\ n \in Claim /\ call[c].id \in Vdev /\ call[c].id = claim[n].id
      /\ vdev[call[c].id].name = n /\ claim[n].phase \in {"releasing", "gone"}
  BY DeletesItsOwn
<1>2. /\ vdev'[call[c].id].state = "deleted"
      /\ vdev'[call[c].id].name = vdev[call[c].id].name
      /\ \A j \in Vdev \ {call[c].id} : vdev'[j] = vdev[j]
  BY <1>1, RemoveFacts
<1>3. ASSUME NEW m \in Claim, m # n, claim'[m].phase # "wanted"
      PROVE  /\ claim'[m] = claim[m]
             /\ claim[m].id \in Vdev
             /\ vdev'[claim[m].id] = vdev[claim[m].id]
  <2>1. claim'[m] = claim[m]
    BY <1>3
  <2>2. claim[m].id \in Vdev /\ vdev[claim[m].id].name = m
    BY <1>3, <2>1 DEF Owned
  <2>3. claim[m].id # call[c].id
    BY <1>1, <1>3, <2>2
  <2> QED BY <1>2, <2>1, <2>2, <2>3
<1>4. ASSUME NEW m \in Claim, claim'[m].phase # "wanted"
      PROVE  /\ claim'[m].id \in Vdev
             /\ vdev'[claim'[m].id].state # "unused"
             /\ vdev'[claim'[m].id].name = m
             /\ claim'[m].phase = "bound" =>
                  /\ vdev'[claim'[m].id].state = "exists"
                  /\ vdev'[claim'[m].id].size = claim'[m].size
                  /\ claim'[m].size = Required(claim'[m].want)
  <2>1. CASE m = n
    BY <1>1, <1>2, <2>1
  <2>2. CASE m # n
    BY <1>3, <1>4, <2>2 DEF Owned
  <2> QED BY <2>1, <2>2
<1> QED BY <1>4 DEF Owned, Required

\* So does the creation of a vdev, which may be told to its claim.
LEMMA CreateOwned ==
  ASSUME TypeOK, Owned, NEW c \in Call, NEW i \in Vdev, Create(c, i),
         \A m \in Claim : \/ claim'[m] = claim[m]
                          \/ /\ m = call[c].vol
                             /\ claim'[m].phase = "bound"
                             /\ claim'[m].id = i
                             /\ claim'[m].size = call[c].size
                             /\ claim'[m].size = Required(claim'[m].want)
  PROVE  Owned'
<1>1. /\ vdev[i].state = "unused"
      /\ vdev'[i] = [state |-> "exists", name |-> call[c].vol, size |-> call[c].size]
      /\ \A j \in Vdev \ {i} : vdev'[j] = vdev[j]
  BY CreateFacts
<1>2. ASSUME NEW m \in Claim, claim'[m] = claim[m], claim[m].phase # "wanted"
      PROVE  claim[m].id \in Vdev /\ vdev'[claim[m].id] = vdev[claim[m].id]
  BY <1>1, <1>2 DEF Owned
<1> QED BY <1>1, <1>2 DEF Owned, Required

\* Every step keeps Owned.
LEMMA NextOwned ==
  ASSUME TypeOK, Requests, Owned, [Next]_vars
  PROVE  Owned'
<1>1. ASSUME UNCHANGED <<vdev, claim>> PROVE Owned'
  BY <1>1, OwnedKept
<1>2. ASSUME NEW c \in Call, NEW n \in Claim, NEW s \in Size, CallCreate(c, n, s) PROVE Owned'
  <2>1. \A m \in Claim : claim'[m] = claim[m] \/ claim'[m].phase = "wanted"
    BY <1>2 DEF CallCreate, TypeOK
  <2> QED BY <1>2, <2>1, OwnedKept DEF CallCreate, Begin
<1>3. ASSUME NEW c \in Call, NEW n \in Claim, CallDelete(c, n) PROVE Owned'
  <2>1. \A m \in Claim : \/ claim'[m] = claim[m]
                         \/ /\ claim[m].phase # "wanted"
                            /\ claim'[m].phase \in {"releasing", "gone"}
                            /\ claim'[m].id = claim[m].id
    BY <1>3 DEF CallDelete, TypeOK
  <2> QED BY <1>3, <2>1, OwnedKept DEF CallDelete, Begin
<1>4. ASSUME NEW c \in Call, FindByName(c) PROVE Owned'
  <2>1. call[c].pc \in Creating /\ call[c] \in NewVolume
    BY <1>4, CallFacts DEF FindByName, At, Creating
  <2>2. CASE \E i \in Named(call[c].vol) :
               vdev[i].size = call[c].size /\ Bind(c, i, vdev[i].size, FALSE)
    <3>1. PICK i \in Named(call[c].vol) :
            vdev[i].size = call[c].size /\ Bind(c, i, vdev[i].size, FALSE)
      BY <2>2
    <3>2. call[c].vol \in Claim
      BY <2>1 DEF NewVolume
    <3>3. /\ \A m \in Claim \ {call[c].vol} : claim'[m] = claim[m]
          /\ ~call[c].waiting => claim' = claim
          /\ call[c].waiting => /\ claim'[call[c].vol].phase = "bound"
                                /\ claim'[call[c].vol].id = i
                                /\ claim'[call[c].vol].size = vdev[i].size
                                /\ claim'[call[c].vol].want = claim[call[c].vol].want
      BY <3>1, <3>2, BindFacts
    <3>4. call[c].waiting => call[c].size = Required(claim[call[c].vol].want)
      BY <2>1 DEF Requests
    <3>5. \A m \in Claim : \/ claim'[m] = claim[m]
                           \/ /\ claim'[m].phase = "bound"
                              /\ claim'[m].id \in Named(m)
                              /\ claim'[m].size = vdev[claim'[m].id].size
                              /\ claim'[m].size = Required(claim'[m].want)
      BY <3>1, <3>2, <3>3, <3>4
    <3>6. UNCHANGED vdev
      BY <1>4 DEF FindByName
    <3> QED BY <3>5, <3>6, OwnedKept
  <2> QED BY <1>1, <1>4, <2>2 DEF FindByName, Failed
<1>5. ASSUME NEW c \in Call, AllocOk(c) PROVE Owned'
  <2>1. PICK i \in Vdev : Create(c, i) /\ Bind(c, i, call[c].size, call[c].vol \in RecoveryClaim)
    BY <1>5 DEF AllocOk
  <2>2. call[c].pc \in Creating /\ call[c].vol \in Claim
    BY <1>5, CallFacts DEF AllocOk, At, Creating, NewVolume
  <2>3. /\ \A m \in Claim \ {call[c].vol} : claim'[m] = claim[m]
        /\ ~call[c].waiting => claim' = claim
        /\ call[c].waiting => /\ claim'[call[c].vol].phase = "bound"
                              /\ claim'[call[c].vol].id = i
                              /\ claim'[call[c].vol].size = call[c].size
                              /\ claim'[call[c].vol].want = claim[call[c].vol].want
    BY <2>1, <2>2, BindFacts
  <2>4. call[c].waiting => call[c].size = Required(claim[call[c].vol].want)
    BY <2>2 DEF Requests
  <2>5. \A m \in Claim : \/ claim'[m] = claim[m]
                         \/ /\ m = call[c].vol
                            /\ claim'[m].phase = "bound"
                            /\ claim'[m].id = i
                            /\ claim'[m].size = call[c].size
                            /\ claim'[m].size = Required(claim'[m].want)
    BY <2>2, <2>3, <2>4
  <2> QED BY <2>1, <2>5, CreateOwned
<1>6. ASSUME NEW c \in Call, AllocFails(c) PROVE Owned'
  BY <1>1, <1>6, CreateOwned DEF AllocFails, Failed
<1>7. ASSUME NEW c \in Call, Find(c) \/ FindFails(c) PROVE Owned'
  <2>1. UNCHANGED vdev /\ call[c].pc \in Deleting /\ (Deleted(c) \/ UNCHANGED claim)
    BY <1>7 DEF Find, FindFails, At, Deleting
  <2>2. CASE Deleted(c)
    <3>1. call[c].vol \in Claim /\ claim[call[c].vol].phase \in {"releasing", "gone"}
      BY <2>1, DeletesItsOwn
    <3> QED BY <2>1, <2>2, <3>1, DeletedFacts, OwnedKept
  <2> QED BY <1>1, <2>1, <2>2
<1>8. ASSUME NEW c \in Call, RemoveOk(c) PROVE Owned'
  <2>1. call[c].pc \in Deleting /\ Remove(call[c].id) /\ Deleted(c)
    BY <1>8 DEF RemoveOk, At, Deleting
  <2>2. call[c].vol \in Claim /\ claim[call[c].vol].phase \in {"releasing", "gone"}
    BY <2>1, DeletesItsOwn
  <2> QED BY <2>1, <2>2, DeletedFacts, RemoveOwned
<1>9. ASSUME NEW c \in Call, RemoveFails(c) PROVE Owned'
  <2>1. call[c].pc \in Deleting /\ UNCHANGED claim /\ (Remove(call[c].id) \/ UNCHANGED vdev)
    BY <1>9 DEF RemoveFails, Failed, At, Deleting
  <2>2. call[c].vol \in Claim /\ claim[call[c].vol].phase \in {"releasing", "gone"}
    BY <2>1, DeletesItsOwn
  <2> QED BY <1>1, <2>1, <2>2, RemoveOwned
<1> QED
  BY <1>1, <1>2, <1>3, <1>4, <1>5, <1>6, <1>7, <1>8, <1>9
  DEF Next, vars, Provisioner, Handler, CreateVolume, DeleteVolume, CallInspect, Abandon, Begin,
      FindByNameFails, RLock, LockForDelete, LockForInspect, Inspect, Failed, Crash

\* Single stays for a claim that gets no new vdev.
LEMMA SingleKept ==
  ASSUME Single, NEW n \in Claim \ slipped,
         Named(n)' \subseteq Named(n),
         \A d \in Call : call'[d].vol = n /\ call'[d].pc \in Creating =>
            \/ call'[d].waiting
            \/ call[d].vol = n /\ call[d].pc \in Creating /\ call'[d].waiting = call[d].waiting,
         \A d \in Call : call'[d].vol = n /\ call'[d].pc \in {"rlock", "alloc"} =>
            \/ call[d].vol = n /\ call[d].pc \in {"rlock", "alloc"}
            \/ Named(n) = {},
         claim'[n].phase \in {"bound", "releasing"} =>
            \/ claim[n].phase \in {"bound", "releasing"} /\ claim'[n].id = claim[n].id
            \/ claim'[n].id \in Named(n),
         claim'[n].phase = "gone" => claim[n].phase = "gone" \/ Named(n)' = {}
  PROVE  SingleOf(n)'
<1>1. SingleOf(n)
  BY DEF Single
<1>2. \A c \in Call : call'[c].vol = n /\ call'[c].pc \in Creating => call'[c].waiting
  BY <1>1 DEF SingleOf
<1>3. \A c \in Call : call'[c].vol = n /\ call'[c].pc \in {"rlock", "alloc"} => Named(n)' = {}
  BY <1>1 DEF SingleOf
<1>4. \A i, j \in Named(n)' : i = j
  BY <1>1 DEF SingleOf
<1>5. claim'[n].phase \in {"bound", "releasing"} => Named(n)' \subseteq {claim'[n].id}
  BY <1>1 DEF SingleOf
<1>6. claim'[n].phase = "gone" => Named(n)' = {}
  BY <1>1 DEF SingleOf
<1> QED BY <1>2, <1>3, <1>4, <1>5, <1>6 DEF SingleOf

\* Invocations that end, or move on within the same part of their handler, and
\* claims that change only under the one that does.
Steady(d) ==
  \/ call'[d] = Idle
  \/ /\ call'[d].vol = call[d].vol
     /\ call'[d].waiting = call[d].waiting
     /\ call'[d].pc \in Creating => call[d].pc \in Creating
     /\ call'[d].pc \in {"rlock", "alloc"} => call[d].pc \in {"rlock", "alloc"}

\* A step that makes no vdev for a claim, and answers it what is there, keeps its Single.
LEMMA SteadySingle ==
  ASSUME Single, NEW n \in Claim \ slipped,
         Named(n)' \subseteq Named(n),
         \A d \in Call : Steady(d),
         claim'[n].phase \in {"bound", "releasing"} =>
            \/ claim[n].phase \in {"bound", "releasing"} /\ claim'[n].id = claim[n].id
            \/ claim'[n].id \in Named(n),
         claim'[n].phase = "gone" => claim[n].phase = "gone" \/ Named(n)' = {}
  PROVE  SingleOf(n)'
<1>1. Idle.pc = "idle"
  BY DEF Idle
<1>2. \A d \in Call : call'[d].vol = n /\ call'[d].pc \in Creating =>
         call[d].vol = n /\ call[d].pc \in Creating /\ call'[d].waiting = call[d].waiting
  BY <1>1 DEF Steady, Creating
<1>3. \A d \in Call : call'[d].vol = n /\ call'[d].pc \in {"rlock", "alloc"} =>
         call[d].vol = n /\ call[d].pc \in {"rlock", "alloc"}
  BY <1>1 DEF Steady
<1> QED BY <1>2, <1>3, SingleKept

\* A call of the provisioner keeps Single.
LEMMA BeginSingle ==
  ASSUME TypeOK, Single, NEW n \in Claim \ slipped, NEW c \in Call, NEW pc, NEW m, NEW i, NEW s,
         Begin(c, pc, m, i, s), pc \notin {"rlock", "alloc"},
         claim'[n].phase \in {"bound", "releasing"} =>
            claim[n].phase \in {"bound", "releasing"} /\ claim'[n].id = claim[n].id,
         claim'[n].phase = "gone" => claim[n].phase = "gone"
  PROVE  SingleOf(n)'
<1>1. /\ call'[c] = [pc |-> pc, vol |-> m, id |-> i, size |-> s, waiting |-> TRUE]
      /\ \A d \in Call \ {c} : call'[d] = call[d]
      /\ UNCHANGED vdev
  BY BeginFacts
<1>2. Named(n)' = Named(n)
  BY <1>1 DEF Named, Exists
<1>3. \A d \in Call : call'[d].waiting \/ call'[d] = call[d]
  BY <1>1
<1>4. \A d \in Call : call'[d].pc \in {"rlock", "alloc"} => call'[d] = call[d]
  BY <1>1
<1> QED BY <1>2, <1>3, <1>4, SingleKept

\* The answer to a delete that found nothing, or removed what it found.
LEMMA DeletedSingle ==
  ASSUME TypeOK, Requests, Owned, Single, NEW n \in Claim \ slipped,
         NEW c \in Call, call[c].pc \in Deleting, Deleted(c),
         \/ UNCHANGED vdev /\ (call[c].vol = n => call[c].id \notin Named(n))
         \/ Remove(call[c].id)
  PROVE  SingleOf(n)'
<1>1. /\ call[c].vol \in Claim /\ call[c].id \in Vdev /\ call[c].id = claim[call[c].vol].id
      /\ claim[call[c].vol].phase \in {"releasing", "gone"}
  BY DeletesItsOwn
<1>2. Named(n)' \subseteq Named(n) /\ (call[c].vol = n => call[c].id \notin Named(n)')
  <2>1. CASE UNCHANGED vdev /\ (call[c].vol = n => call[c].id \notin Named(n))
    BY <2>1 DEF Named, Exists
  <2>2. CASE Remove(call[c].id)
    BY <1>1, <2>2, RemoveFacts
  <2> QED BY <2>1, <2>2
<1>3. call'[c] = Idle /\ \A d \in Call \ {c} : call'[d] = call[d]
  BY EndFacts DEF Deleted
<1>4. \A d \in Call : Steady(d)
  BY <1>3 DEF Steady
<1>5. /\ \A m \in Claim \ {call[c].vol} : claim'[m] = claim[m]
      /\ ~call[c].waiting => claim' = claim
      /\ call[c].waiting => /\ claim'[call[c].vol].phase = "gone"
                            /\ claim'[call[c].vol].id = claim[call[c].vol].id
  BY <1>1, DeletedFacts
<1>6. call[c].vol = n => Named(n)' = {}
  <2>1. call[c].vol = n => Named(n) \subseteq {call[c].id}
    BY <1>1 DEF Single, SingleOf
  <2> QED BY <1>2, <2>1
<1>7. claim'[n].phase \in {"bound", "releasing"} =>
         claim[n].phase \in {"bound", "releasing"} /\ claim'[n].id = claim[n].id
  BY <1>5
<1>8. claim'[n].phase = "gone" => claim[n].phase = "gone" \/ Named(n)' = {}
  BY <1>5, <1>6
<1> QED BY <1>2, <1>4, <1>7, <1>8, SteadySingle

\* The creation of a vdev: for its claim it is the first, and another create
\* that could make a second is not under way.
LEMMA CreateSingle ==
  ASSUME TypeOK, Requests, Single, NEW n \in Claim \ slipped,
         NEW c \in Call, call[c].pc = "alloc", call[c].vol \in Claim, End(c),
         NEW i \in Vdev, Create(c, i),
         \/ UNCHANGED claim
         \/ \E s, r : Bind(c, i, s, r)
  PROVE  SingleOf(n)'
<1>1. Named(n)' = IF n = call[c].vol THEN Named(n) \cup {i} ELSE Named(n)
  <2>1. /\ vdev[i].state = "unused"
        /\ vdev'[i] = [state |-> "exists", name |-> call[c].vol, size |-> call[c].size]
        /\ \A j \in Vdev \ {i} : vdev'[j] = vdev[j]
    BY CreateFacts
  <2> QED BY <2>1 DEF Named, Exists
<1>2. call'[c] = Idle /\ \A d \in Call \ {c} : call'[d] = call[d]
  BY EndFacts
<1>3. /\ \A m \in Claim \ {call[c].vol} : claim'[m] = claim[m]
      /\ \/ claim'[call[c].vol] = claim[call[c].vol]
         \/ /\ claim'[call[c].vol].phase = "bound"
            /\ claim'[call[c].vol].id = i
  <2>1. CASE UNCHANGED claim
    BY <2>1
  <2>2. CASE \E s, r : Bind(c, i, s, r)
    BY <2>2, BindFacts
  <2> QED BY <2>1, <2>2
<1>4. CASE n # call[c].vol
  <2>1. \A d \in Call : Steady(d)
    BY <1>2 DEF Steady
  <2> QED BY <1>1, <1>3, <1>4, <2>1, SteadySingle
<1>5. CASE n = call[c].vol
  <2>1. call[c].waiting /\ Named(n) = {} /\ claim[n].phase = "wanted"
    BY <1>5 DEF Single, SingleOf, Requests, Creating
  <2>2. Named(n)' = {i}
    BY <1>1, <1>5, <2>1
  <2>3. \A d \in Call : call'[d].vol = n => call'[d].pc \notin Creating
    <3>1. ASSUME NEW d \in Call, d # c, call[d].vol = n, call[d].pc \in Creating PROVE FALSE
      BY <1>5, <2>1, <3>1 DEF Single, SingleOf, Requests
    <3>2. Idle.pc = "idle"
      BY DEF Idle
    <3> QED BY <1>2, <3>1, <3>2 DEF Creating
  <2>4. \A d \in Call : call'[d].vol = n /\ call'[d].pc \in Creating => call'[d].waiting
    BY <2>3
  <2>5. \A d \in Call : call'[d].vol = n /\ call'[d].pc \in {"rlock", "alloc"} => Named(n)' = {}
    BY <2>3 DEF Creating
  <2>6. claim'[n].phase \in {"bound", "releasing"} => claim'[n].id = i
    BY <1>3, <1>5, <2>1
  <2>7. claim'[n].phase # "gone"
    BY <1>3, <1>5, <2>1
  <2> QED BY <2>2, <2>4, <2>5, <2>6, <2>7 DEF SingleOf
<1> QED BY <1>4, <1>5

\* Every step keeps Single.
LEMMA NextSingle ==
  ASSUME TypeOK, Requests, Owned, Single, [Next]_vars
  PROVE  Single'
<1> SUFFICES ASSUME NEW n \in Claim, n \notin slipped' PROVE SingleOf(n)'
  BY DEF Single, SingleOf
<1>s. slipped \subseteq slipped' => n \in Claim \ slipped
  OBVIOUS
<1>n. UNCHANGED vdev => Named(n)' = Named(n)
  BY DEF Named, Exists
<1>1. ASSUME UNCHANGED <<vdev, claim, slipped>>, \A d \in Call : Steady(d) PROVE SingleOf(n)'
  BY <1>1, <1>s, <1>n, SteadySingle
<1>2. ASSUME NEW c \in Call, NEW m \in Claim, NEW s \in Size, CallCreate(c, m, s) PROVE SingleOf(n)'
  <2>1. \A k \in Claim : claim'[k].phase = claim[k].phase /\ claim'[k].id = claim[k].id
    BY <1>2 DEF CallCreate, TypeOK
  <2>2. Begin(c, "findByName", m, NoVdev, Required(s)) /\ UNCHANGED slipped
    BY <1>2 DEF CallCreate, Begin, ghosts
  <2> QED BY <1>s, <2>1, <2>2, BeginSingle
<1>3. ASSUME NEW c \in Call, NEW m \in Claim, CallDelete(c, m) PROVE SingleOf(n)'
  <2>1. /\ claim[m].phase \in {"bound", "releasing"} /\ claim'[m].phase = "releasing"
        /\ claim'[m].id = claim[m].id
        /\ \A k \in Claim \ {m} : claim'[k] = claim[k]
    BY <1>3 DEF CallDelete, TypeOK
  <2>2. Begin(c, "lock", m, claim[m].id, 0) /\ UNCHANGED slipped
    BY <1>3 DEF CallDelete, Begin, ghosts
  <2> QED BY <1>s, <2>1, <2>2, BeginSingle
<1>4. ASSUME NEW c \in Call, NEW m \in Claim, CallInspect(c, m) PROVE SingleOf(n)'
  <2>1. Begin(c, "inspectLock", m, claim[m].id, 0) /\ UNCHANGED <<claim, slipped>>
    BY <1>4 DEF CallInspect, Begin, ghosts
  <2> QED BY <1>s, <2>1, BeginSingle
<1>5. ASSUME NEW c \in Call, Abandon(c) PROVE SingleOf(n)'
  <2>1. call' = [call EXCEPT ![c].waiting = FALSE] /\ call[c].waiting /\ UNCHANGED <<vdev, claim>>
    BY <1>5 DEF Abandon
  <2>2. slipped \subseteq slipped' /\ (call[c].pc \in Creating => call[c].vol # n)
    BY <1>5 DEF Abandon
  <2>3. /\ \A d \in Call \ {c} : call'[d] = call[d]
        /\ call'[c].pc = call[c].pc
        /\ call'[c].vol = call[c].vol
    <3>1. call[c] \in {Idle} \cup NewVolume \cup Other
      BY DEF TypeOK, Invocation, NewVolume, Other
    <3>2. \A r \in {Idle} \cup NewVolume \cup Other : /\ [r EXCEPT !.waiting = FALSE].pc = r.pc
                                                      /\ [r EXCEPT !.waiting = FALSE].vol = r.vol
      BY DEF Idle, NewVolume, Other
    <3>3. \A d \in Call : call'[d] = IF d = c THEN [call[c] EXCEPT !.waiting = FALSE] ELSE call[d]
      BY <2>1 DEF TypeOK
    <3> QED BY <3>1, <3>2, <3>3
  <2>4. \A d \in Call : call'[d].vol = n /\ call'[d].pc \in Creating => call'[d] = call[d]
    BY <2>2, <2>3
  <2>5. \A d \in Call : call'[d].pc = call[d].pc /\ call'[d].vol = call[d].vol
    BY <2>3
  <2> QED BY <1>s, <1>n, <2>1, <2>2, <2>4, <2>5, SingleKept
<1>6. ASSUME NEW c \in Call, End(c) PROVE \A d \in Call : Steady(d)
  BY <1>6, EndFacts DEF Steady
<1>7. ASSUME NEW c \in Call, NEW pc, Goto(c, pc),
             pc \in Creating => call[c].pc \in Creating,
             pc \in {"rlock", "alloc"} => call[c].pc \in {"rlock", "alloc"}
      PROVE  \A d \in Call : Steady(d)
  BY <1>7, GotoFacts DEF Steady, SameLocals
<1>8. ASSUME NEW c \in Call, FindByName(c) PROVE SingleOf(n)'
  <2>1. call[c].pc = "findByName" /\ call[c].vol \in Claim /\ UNCHANGED <<vdev, slipped>>
    BY <1>8, CallFacts DEF FindByName, At, Creating, NewVolume, ghosts
  <2>2. CASE Failed(c)
    BY <1>1, <1>6, <1>8, <2>1, <2>2 DEF Failed
  <2>3. CASE Named(call[c].vol) = {} /\ Goto(c, "rlock") /\ UNCHANGED claim
    <3>1. /\ \A d \in Call : SameLocals(d)
          /\ \A d \in Call \ {c} : call'[d] = call[d]
      BY <1>8, <2>3, GotoFacts
    <3>2. \A d \in Call : call'[d].vol = n /\ call'[d].pc \in Creating =>
             call[d].vol = n /\ call[d].pc \in Creating /\ call'[d].waiting = call[d].waiting
      BY <2>1, <3>1 DEF SameLocals, Creating
    <3>3. \A d \in Call : call'[d].vol = n /\ call'[d].pc \in {"rlock", "alloc"} =>
             \/ call[d].vol = n /\ call[d].pc \in {"rlock", "alloc"}
             \/ Named(n) = {}
      BY <2>3, <3>1 DEF SameLocals
    <3> QED BY <1>s, <1>n, <2>1, <2>3, <3>2, <3>3, SingleKept
  <2>4. CASE \E i \in Named(call[c].vol) : Bind(c, i, vdev[i].size, FALSE)
    <3>1. PICK i \in Named(call[c].vol) : Bind(c, i, vdev[i].size, FALSE)
      BY <2>4
    <3>2. \A d \in Call : Steady(d)
      BY <1>6, <1>8, <3>1 DEF Bind
    <3>3. \/ claim'[n] = claim[n]
          \/ n = call[c].vol /\ claim'[n].phase = "bound" /\ claim'[n].id \in Named(n)
      <4>1. /\ \A m \in Claim \ {call[c].vol} : claim'[m] = claim[m]
            /\ ~call[c].waiting => claim' = claim
            /\ call[c].waiting => /\ claim'[call[c].vol].phase = "bound"
                                  /\ claim'[call[c].vol].id = i
        BY <1>8, <2>1, <3>1, BindFacts
      <4> QED BY <3>1, <4>1
    <3> QED BY <1>s, <1>n, <2>1, <3>2, <3>3, SteadySingle
  <2> QED BY <1>8, <2>2, <2>3, <2>4 DEF FindByName
<1>9. ASSUME NEW c \in Call, FindByNameFails(c) PROVE SingleOf(n)'
  <2>1. /\ call[c].pc = "findByName" /\ Goto(c, "rlock") /\ UNCHANGED <<vdev, claim>>
        /\ slipped \subseteq slipped' /\ call[c].vol # n
    BY <1>9 DEF FindByNameFails, At, Slip
  <2>2. /\ \A d \in Call : SameLocals(d)
        /\ \A d \in Call \ {c} : call'[d] = call[d]
    BY <1>9, <2>1, GotoFacts
  <2>3. \A d \in Call : call'[d].vol = n => call'[d] = call[d]
    BY <2>1, <2>2 DEF SameLocals
  <2>4. \A d \in Call : call'[d].vol = n => call[d].vol = n
    BY <2>2 DEF SameLocals
  <2> QED BY <1>s, <1>n, <2>1, <2>3, <2>4, SingleKept
<1>10. ASSUME NEW c \in Call, RLock(c) PROVE SingleOf(n)'
  <2>1. call[c].pc = "rlock" /\ Goto(c, "alloc") /\ UNCHANGED <<vdev, claim, slipped>>
    BY <1>10 DEF RLock, At, ghosts
  <2> QED BY <1>1, <1>7, <1>10, <2>1 DEF Creating
<1>11. ASSUME NEW c \in Call, AllocOk(c) PROVE SingleOf(n)'
  <2>1. PICK i \in Vdev : Create(c, i) /\ Bind(c, i, call[c].size, call[c].vol \in RecoveryClaim)
    BY <1>11 DEF AllocOk
  <2>2. call[c].pc = "alloc" /\ call[c].vol \in Claim /\ UNCHANGED slipped /\ End(c)
    BY <1>11, <2>1, CallFacts DEF AllocOk, At, Creating, NewVolume, ghosts, Bind
  <2> QED BY <1>s, <1>11, <2>1, <2>2, CreateSingle
<1>12. ASSUME NEW c \in Call, AllocFails(c) PROVE SingleOf(n)'
  <2>1. /\ call[c].pc = "alloc" /\ call[c].vol \in Claim /\ UNCHANGED <<slipped, claim>> /\ End(c)
        /\ UNCHANGED vdev \/ \E i \in Vdev : Create(c, i)
    BY <1>12, CallFacts DEF AllocFails, At, Creating, NewVolume, ghosts, Failed
  <2>2. CASE UNCHANGED vdev
    BY <1>1, <1>6, <1>12, <2>1, <2>2
  <2>3. CASE \E i \in Vdev : Create(c, i)
    BY <1>s, <1>12, <2>1, <2>3, CreateSingle
  <2> QED BY <2>1, <2>2, <2>3
<1>13. ASSUME NEW c \in Call, LockForDelete(c) \/ LockForInspect(c) PROVE SingleOf(n)'
  <2>1. UNCHANGED <<vdev, claim, slipped>> /\ (Goto(c, "find") \/ Goto(c, "inspect"))
    BY <1>13 DEF LockForDelete, LockForInspect, ghosts
  <2> QED BY <1>1, <1>7, <1>13, <2>1 DEF Creating
<1>14. ASSUME NEW c \in Call, Find(c) PROVE SingleOf(n)'
  <2>1. call[c].pc \in Deleting /\ UNCHANGED <<vdev, slipped>>
    BY <1>14 DEF Find, At, Deleting, ghosts
  <2>2. CASE Exists(call[c].id)
    <3>1. Goto(c, "remove") /\ UNCHANGED claim
      BY <1>14, <2>2 DEF Find
    <3> QED BY <1>1, <1>7, <1>14, <2>1, <3>1 DEF Creating
  <2>3. CASE ~Exists(call[c].id)
    <3>1. Deleted(c) /\ call[c].id \notin Named(n)
      BY <1>14, <2>3 DEF Find, Named
    <3> QED BY <1>s, <1>14, <2>1, <3>1, DeletedSingle
  <2> QED BY <2>2, <2>3
<1>15. ASSUME NEW c \in Call, FindFails(c) PROVE SingleOf(n)'
  <2>1. /\ call[c].pc \in Deleting /\ UNCHANGED vdev /\ Deleted(c)
        /\ slipped \subseteq slipped' /\ call[c].vol # n
    BY <1>15 DEF FindFails, At, Deleting, Slip
  <2> QED BY <1>s, <1>15, <2>1, DeletedSingle
<1>16. ASSUME NEW c \in Call, RemoveOk(c) PROVE SingleOf(n)'
  <2>1. call[c].pc \in Deleting /\ Remove(call[c].id) /\ Deleted(c) /\ UNCHANGED slipped
    BY <1>16 DEF RemoveOk, At, Deleting, ghosts
  <2> QED BY <1>s, <1>16, <2>1, DeletedSingle
<1>17. ASSUME NEW c \in Call, RemoveFails(c) PROVE SingleOf(n)'
  <2>1. /\ call[c].pc \in Deleting /\ UNCHANGED <<claim, slipped>> /\ End(c)
        /\ Remove(call[c].id) \/ UNCHANGED vdev
    BY <1>17 DEF RemoveFails, Failed, At, Deleting, ghosts
  <2>2. Named(n)' \subseteq Named(n)
    <3>1. call[c].id \in Vdev
      BY <1>17, <2>1, DeletesItsOwn
    <3> QED BY <1>n, <2>1, <3>1, RemoveFacts
  <2> QED BY <1>s, <1>6, <1>17, <2>1, <2>2, SteadySingle
<1>18. ASSUME NEW c \in Call, Inspect(c) PROVE SingleOf(n)'
  BY <1>1, <1>6, <1>18 DEF Inspect, Failed, ghosts
<1>19. ASSUME Crash PROVE SingleOf(n)'
  BY <1>1, <1>19 DEF Crash, Steady
<1>20. ASSUME UNCHANGED vars PROVE SingleOf(n)'
  BY <1>1, <1>20 DEF vars, ghosts, Steady
<1> QED
  BY <1>2, <1>3, <1>4, <1>5, <1>8, <1>9, <1>10, <1>11, <1>12, <1>13, <1>14, <1>15, <1>16, <1>17,
     <1>18, <1>19, <1>20
  DEF Next, Provisioner, Handler, CreateVolume, DeleteVolume

\* The inductive invariant.
LEMMA Invariant == Spec => []IInv
<1>1. Init => IInv
  <2> SUFFICES ASSUME Init PROVE IInv
    OBVIOUS
  <2>1. TypeOK
    BY ControllerAssumption DEF ControllerAssumption, Init, TypeOK, Unused, Idle, Invocation, Exists
  <2>2. \A c \in Call : call[c].pc = "idle" /\ ~call[c].waiting
    BY DEF Init, Idle
  <2>3. \A n \in Claim : claim[n].phase = "wanted"
    <3>1. PICK want \in [Claim -> Size] :
            claim = [n \in Claim |-> [phase |-> "wanted", want |-> want[n], id |-> NoVdev,
                                      size |-> 0, recovery |-> FALSE]]
      BY DEF Init
    <3> QED BY <3>1
  <2>4. \A n : Named(n) = {}
    BY DEF Init, Named, Exists, Unused
  <2>5. Requests
    BY <2>2 DEF Requests, Creating, Deleting
  <2>6. Owned
    BY <2>3 DEF Owned
  <2>7. Single
    BY <2>2, <2>3, <2>4 DEF Single, SingleOf, Creating
  <2> QED BY <2>1, <2>5, <2>6, <2>7 DEF IInv
<1>2. IInv /\ [Next]_vars => IInv'
  <2> SUFFICES ASSUME IInv, [Next]_vars PROVE IInv'
    OBVIOUS
  <2>1. TypeOK'
    BY ControllerAssumption, NextTypeOK DEF IInv
  <2>2. Requests'
    BY <2>1, NextRequests DEF IInv
  <2>3. Owned'
    BY NextOwned DEF IInv
  <2>4. Single'
    BY NextSingle DEF IInv
  <2> QED BY <2>1, <2>2, <2>3, <2>4 DEF IInv
<1> QED BY <1>1, <1>2, PTL DEF Spec

\* The repetition of CreateVolume after errors, lost answers and crashes makes
\* one vdev for a claim: controller.go looks the name up before it creates.
THEOREM OneVdevPerClaimHolds == Spec => []OneVdevPerClaim
<1>1. IInv => OneVdevPerClaim
  BY DEF IInv, Single, SingleOf, OneVdevPerClaim
<1> QED BY <1>1, Invariant, PTL

\* What a provisioner was told by CreateVolume is there, whoever else was told
\* what, until it calls DeleteVolume itself.
THEOREM BoundIsBackedHolds == Spec => []BoundIsBacked
<1>1. IInv => BoundIsBacked
  BY DEF IInv, Owned, BoundIsBacked, Named, Exists
<1> QED BY <1>1, Invariant, PTL

\* A DeleteVolume that succeeds leaves no vdev of the claim.
THEOREM GoneIsDeletedHolds == Spec => []GoneIsDeleted
<1>1. IInv => GoneIsDeleted
  BY DEF IInv, Single, SingleOf, GoneIsDeleted
<1> QED BY <1>1, Invariant, PTL

-----------------------------------------------------------------------------
(***************************************************************************)
(* The mutex: who looks a vdev up, and removes it, holds it alone.         *)
(***************************************************************************)
Locked == {"find", "remove", "inspect"}

Exclusive ==
  /\ \A c \in Call : call[c].pc \in Locked => writer = c
  /\ RemoveFindsVdev

\* Steps that neither lock nor unlock keep Exclusive, as long as no vdev goes
\* and only who has found its vdev moves on to the removal.
LEMMA ExclusiveKept ==
  ASSUME Exclusive, UNCHANGED writer,
         \A i : Exists(i) => Exists(i)',
         \A d \in Call : \/ call'[d].pc \notin Locked
                         \/ call'[d].pc = call[d].pc /\ call'[d].id = call[d].id
                         \/ /\ call'[d].pc = "remove" /\ call[d].pc = "find"
                            /\ call'[d].id = call[d].id /\ Exists(call[d].id)
  PROVE  Exclusive'
BY DEF Exclusive, RemoveFindsVdev, At, Locked

\* One that leaves the mutex was alone, so whatever it did to the vdevs is seen
\* by none that holds it.
LEMMA ExclusiveLeft ==
  ASSUME ControllerAssumption, TypeOK, Exclusive, NEW c \in Call, call[c].pc \in Locked, End(c)
  PROVE  Exclusive'
<1>1. \A d \in Call : call'[d].pc \notin Locked
  <2>1. Idle.pc = "idle"
    BY DEF Idle
  <2>2. \A d \in Call \ {c} : call[d].pc \notin Locked
    BY DEF Exclusive
  <2> QED BY <2>1, <2>2, EndFacts DEF Locked
<1> QED BY <1>1 DEF Exclusive, RemoveFindsVdev, At, Locked

\* One that takes it finds nobody there.
LEMMA ExclusiveTaken ==
  ASSUME ControllerAssumption, TypeOK, Exclusive, NEW c \in Call, NEW pc \in {"find", "inspect"},
         Lock(c), Goto(c, pc)
  PROVE  Exclusive'
<1>1. \A d \in Call : call[d].pc \notin Locked
  BY DEF Lock, Exclusive, ControllerAssumption
<1>2. \A d \in Call \ {c} : call'[d].pc \notin Locked
  BY <1>1, GotoFacts
<1>3. call'[c].pc = pc /\ writer' = c
  BY GotoFacts DEF Lock
<1> QED BY <1>2, <1>3 DEF Exclusive, RemoveFindsVdev, At, Locked

\* Every step keeps Exclusive.
LEMMA NextExclusive ==
  ASSUME ControllerAssumption, TypeOK, Exclusive, [Next]_vars
  PROVE  Exclusive'
<1>0. Idle.pc = "idle"
  BY DEF Idle
<1>1. UNCHANGED vdev => \A i : Exists(i) => Exists(i)'
  BY DEF Exists
<1>2. ASSUME NEW c \in Call, NEW pc, Goto(c, pc), pc \notin Locked, UNCHANGED <<vdev, writer>>
      PROVE  Exclusive'
  <2>1. \A d \in Call : call'[d] = call[d] \/ call'[d].pc \notin Locked
    BY <1>2, GotoFacts
  <2> QED BY <1>1, <1>2, <2>1, ExclusiveKept
<1>3. ASSUME NEW c \in Call, End(c), UNCHANGED writer, \A i : Exists(i) => Exists(i)' PROVE Exclusive'
  <2>1. \A d \in Call : call'[d] = call[d] \/ call'[d].pc \notin Locked
    BY <1>0, <1>3, EndFacts DEF Locked
  <2> QED BY <1>3, <2>1, ExclusiveKept
<1>4. ASSUME NEW c \in Call, NEW pc \in {"findByName", "lock", "inspectLock"}, NEW n, NEW i, NEW s,
             Begin(c, pc, n, i, s)
      PROVE  Exclusive'
  <2>1. \A d \in Call : call'[d] = call[d] \/ call'[d].pc = pc
    BY <1>4 DEF Begin, TypeOK
  <2>2. UNCHANGED <<vdev, writer>>
    BY <1>4 DEF Begin
  <2> QED BY <1>1, <1>4, <2>1, <2>2, ExclusiveKept DEF Locked
<1>5. ASSUME NEW c \in Call, NEW n \in Claim, CallDelete(c, n) \/ CallInspect(c, n) PROVE Exclusive'
  BY <1>4, <1>5 DEF CallDelete, CallInspect
<1>6. ASSUME NEW c \in Call, NEW n \in Claim, NEW s \in Size, CallCreate(c, n, s) PROVE Exclusive'
  BY <1>4, <1>6 DEF CallCreate
<1>7. ASSUME NEW c \in Call, Abandon(c) PROVE Exclusive'
  <2>1. \A d \in Call : call'[d].pc = call[d].pc /\ call'[d].id = call[d].id
    <3>1. call[c] \in {Idle} \cup NewVolume \cup Other
      BY <1>7 DEF TypeOK, Invocation, NewVolume, Other
    <3>2. \A r \in {Idle} \cup NewVolume \cup Other : /\ [r EXCEPT !.waiting = FALSE].pc = r.pc
                                                      /\ [r EXCEPT !.waiting = FALSE].id = r.id
      BY DEF Idle, NewVolume, Other
    <3>3. \A d \in Call : call'[d] = IF d = c THEN [call[c] EXCEPT !.waiting = FALSE] ELSE call[d]
      BY <1>7 DEF Abandon, TypeOK
    <3> QED BY <3>1, <3>2, <3>3
  <2> QED BY <1>1, <1>7, <2>1, ExclusiveKept DEF Abandon
<1>8. ASSUME NEW c \in Call, FindByName(c) \/ FindByNameFails(c) \/ RLock(c) PROVE Exclusive'
  <2>1. /\ UNCHANGED <<vdev, writer>>
        /\ End(c) \/ Goto(c, "rlock") \/ Goto(c, "alloc")
    BY <1>8 DEF FindByName, FindByNameFails, RLock, Failed, Bind
  <2> QED BY <1>1, <1>2, <1>3, <1>8, <2>1 DEF Locked
<1>9. ASSUME NEW c \in Call, AllocOk(c) \/ AllocFails(c) PROVE Exclusive'
  <2>1. /\ UNCHANGED writer /\ End(c)
        /\ UNCHANGED vdev \/ \E i \in Vdev : Create(c, i)
    BY <1>9 DEF AllocOk, AllocFails, Failed, Bind
  <2>2. \A i : Exists(i) => Exists(i)'
    BY <1>1, <1>9, <2>1, CreateFacts DEF Exists
  <2> QED BY <1>3, <1>9, <2>1, <2>2
<1>10. ASSUME NEW c \in Call, LockForDelete(c) \/ LockForInspect(c) PROVE Exclusive'
  BY <1>10, ExclusiveTaken DEF LockForDelete, LockForInspect
<1>11. ASSUME NEW c \in Call, Find(c), Exists(call[c].id) PROVE Exclusive'
  <2>1. call[c].pc = "find" /\ Goto(c, "remove") /\ UNCHANGED <<vdev, writer>>
    BY <1>11 DEF Find, At
  <2>2. /\ \A d \in Call \ {c} : call'[d] = call[d]
        /\ call'[c].pc = "remove" /\ call'[c].id = call[c].id
    BY <1>11, <2>1, GotoFacts DEF SameLocals
  <2> QED BY <1>1, <1>11, <2>1, <2>2, ExclusiveKept
<1>12. ASSUME NEW c \in Call,
              \/ Find(c) /\ ~Exists(call[c].id)
              \/ FindFails(c) \/ RemoveOk(c) \/ RemoveFails(c) \/ Inspect(c)
       PROVE  Exclusive'
  <2>1. call[c].pc \in Locked /\ End(c)
    BY <1>12 DEF Find, FindFails, RemoveOk, RemoveFails, Inspect, Deleted, Failed, At, Locked
  <2> QED BY <1>12, <2>1, ExclusiveLeft
<1>13. ASSUME Crash PROVE Exclusive'
  <2>1. \A d \in Call : call'[d].pc = "idle"
    BY <1>0, <1>13 DEF Crash
  <2> QED BY <2>1 DEF Exclusive, RemoveFindsVdev, At, Locked
<1>14. ASSUME UNCHANGED vars PROVE Exclusive'
  BY <1>1, <1>14, ExclusiveKept DEF vars
<1> QED
  BY <1>5, <1>6, <1>7, <1>8, <1>9, <1>10, <1>11, <1>12, <1>13, <1>14
  DEF Next, Provisioner, Handler, CreateVolume, DeleteVolume

\* DeleteVolume asks for the removal of a vdev that exists: Mutex covers its
\* look-up and its removal, also when two deletes of a claim overlap.
THEOREM RemoveFindsVdevHolds == Spec => []RemoveFindsVdev
<1>1. Init => Exclusive
  BY DEF Init, Idle, Exclusive, RemoveFindsVdev, At, Locked
<1>2. TypeOK /\ Exclusive /\ [Next]_vars => Exclusive'
  BY ControllerAssumption, NextExclusive
<1>3. Exclusive => RemoveFindsVdev
  BY DEF Exclusive
<1> QED BY <1>1, <1>2, <1>3, TypeCorrect, PTL DEF Spec
=============================================================================
