---------------------------- MODULE StagedVolume ----------------------------
(***************************************************************************)
(* What the node service promises the kubelet about the volumes of one     *)
(* node, whatever host operations fail: the abstract specification that    *)
(* NodeServer implements while daemons do not crash and the plugin is      *)
(* stopped gracefully.  A volume only changes while a stage or an unstage  *)
(* of it is unanswered; a stage that succeeds leaves it usable, one that   *)
(* fails gives back whatever it took, and an unstage that succeeds leaves  *)
(* nothing.                                                                *)
(***************************************************************************)
CONSTANT Volume

VARIABLES
  told,       \* told[v]: may the kubelet rely on v being staged
  request,    \* request[v]: the unanswered request, "none", "stage" or "unstage"
  state       \* state[v]: "clean", "usable", or "partial" in between

stagedVars == <<told, request, state>>

Init ==
  /\ told = [v \in Volume |-> "no"]
  /\ request = [v \in Volume |-> "none"]
  /\ state = [v \in Volume |-> "clean"]

\* Only what may be staged is unstaged.
Begin(v) ==
  /\ request[v] = "none"
  /\ \E op \in IF told[v] = "no" THEN {"stage"} ELSE {"stage", "unstage"} :
       request' = [request EXCEPT ![v] = op]
  /\ UNCHANGED <<told, state>>

\* A stage never takes a usable volume apart, an unstage never completes one.
Moves(v) ==
  CASE request[v] = "none" -> {}
    [] request[v] = "stage" -> IF state[v] = "usable" THEN {"usable"}
                               ELSE {"clean", "partial", "usable"}
    [] request[v] = "unstage" -> IF state[v] = "usable" THEN {"usable", "partial"}
                                 ELSE {"partial", "clean"}

Work(v) ==
  /\ \E s \in Moves(v) : state' = [state EXCEPT ![v] = s]
  /\ UNCHANGED <<told, request>>

\* What a request may answer, given the state that it leaves v in.
Answers(v, s) ==
  IF request[v] = "stage"
  THEN CASE s = "usable" -> {"yes"} [] s = "clean" -> {"no"} [] OTHER -> {}
  ELSE {"maybe"} \cup (IF s = "clean" THEN {"no"} ELSE {})

\* An answer may come with the last of the work.
Answer(v) ==
  /\ \E s \in Moves(v) : \E a \in Answers(v, s) :
       /\ state' = [state EXCEPT ![v] = s]
       /\ told' = [told EXCEPT ![v] = a]
  /\ request' = [request EXCEPT ![v] = "none"]

Next == \E v \in Volume : Begin(v) \/ Work(v) \/ Answer(v)

Spec == Init /\ [][Next]_stagedVars
=============================================================================
