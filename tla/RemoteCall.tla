----------------------------- MODULE RemoteCall -----------------------------
(***************************************************************************)
(* What a request to the control plane promises the code that makes it,    *)
(* through ConfigManager.RetryAuth: AllocVdev, RemoveVolume, GetVolume and *)
(* ListVolumes rely on nothing else.  However often the request is sent,   *)
(* the control plane executes it at most once; a success means that it     *)
(* did, an error leaves that open, and running out of retries means that   *)
(* it did not.                                                             *)
(***************************************************************************)
EXTENDS Naturals

CONSTANT Caller

VARIABLES
  executed,    \* executed[k]: how often k's current request took effect
  answer       \* answer[k]: what k was told, "pending" while it waits

remoteVars == <<executed, answer>>

Init ==
  /\ executed = [k \in Caller |-> 0]
  /\ answer = [k \in Caller |-> "none"]

Begin(k) ==
  /\ answer[k] # "pending"
  /\ answer' = [answer EXCEPT ![k] = "pending"]
  /\ executed' = [executed EXCEPT ![k] = 0]

Execute(k) ==
  /\ answer[k] = "pending"
  /\ executed[k] = 0
  /\ executed' = [executed EXCEPT ![k] = 1]
  /\ UNCHANGED answer

\* The answers that are honest, given how often the request took effect.
Honest(times) ==
  {"error"} \cup (IF times = 0 THEN {"exhausted"} ELSE {"ok"})

Answer(k) ==
  /\ answer[k] = "pending"
  /\ \E a \in Honest(executed[k]) : answer' = [answer EXCEPT ![k] = a]
  /\ UNCHANGED executed

Next == \E k \in Caller : Begin(k) \/ Execute(k) \/ Answer(k)

Spec == Init /\ [][Next]_remoteVars
=============================================================================
