------------------------------ MODULE RetryAuth ------------------------------
(***************************************************************************)
(* ConfigManager.RetryAuth and the access token that all its callers share *)
(* (pkg/config/config.go).  Every request to the control plane carries the *)
(* token of the client; a request whose token has expired is refused, the  *)
(* caller logs in again and installs the token it got, unsynchronised with *)
(* the other callers, which may be doing the same.  The control plane and  *)
(* its user service are external.                                          *)
(***************************************************************************)
EXTENDS Naturals, FiniteSets

CONSTANTS
  Caller,       \* handler goroutines that call the control plane
  MAX_RETRY,    \* attempts of one request
  MaxExpiries   \* bound: tokens that expire in a run

ASSUME RetryAssumption ==
  /\ MAX_RETRY \in Nat \ {0}
  /\ MaxExpiries \in Nat
  /\ IsFiniteSet(Caller)

VARIABLES
  token,       \* the token in the control plane client (Cpclient)
  issued,      \* tokens 0 .. issued have been handed out
  valid,       \* those the control plane still accepts
  call,        \* call[k]: the program counter and locals of one RetryAuth
  executed,    \* executed[k]: how often k's request took effect
  answer       \* answer[k]: what RetryAuth returned to k

vars == <<token, issued, valid, call, executed, answer>>

\* sent: the token of the request in flight; fresh: the one login returned;
\* met: the tokens this call was refused with.
Idle == [pc |-> "idle", sent |-> 0, fresh |-> 0, tries |-> 0, met |-> {}]

Pc == {"idle", "send", "wait", "ok", "error", "expired", "setToken"}

\* The locals of a RetryAuth when tokens 0 .. n have been handed out.
Locals(n) == [pc : Pc, sent : 0 .. n, fresh : 0 .. n, tries : 0 .. MAX_RETRY - 1,
              met : SUBSET (0 .. n)]

TypeOK ==
  /\ issued \in Nat
  /\ token \in 0 .. issued
  /\ valid \in SUBSET (0 .. issued)
  /\ call \in [Caller -> Locals(issued)]
  /\ executed \in [Caller -> Nat]
  /\ answer \in [Caller -> {"none", "pending", "ok", "error", "exhausted"}]

\* Both programs log in before they serve.
Init ==
  /\ token = 0
  /\ issued = 0
  /\ valid = {0}
  /\ call = [k \in Caller |-> Idle]
  /\ executed = [k \in Caller |-> 0]
  /\ answer = [k \in Caller |-> "none"]

At(k, pc) == call[k].pc = pc
Goto(k, pc) == call' = [call EXCEPT ![k].pc = pc]

\* RetryAuth returns a to k; what k met stays on record until its next call.
Finish(k, a) ==
  /\ answer' = [answer EXCEPT ![k] = a]
  /\ Goto(k, "idle")

Begin(k) ==
  /\ At(k, "idle")
  /\ call' = [call EXCEPT ![k] = [Idle EXCEPT !.pc = "send"]]
  /\ executed' = [executed EXCEPT ![k] = 0]
  /\ answer' = [answer EXCEPT ![k] = "pending"]
  /\ UNCHANGED <<token, issued, valid>>

\* fn() takes the client's token along.
Send(k) ==
  /\ At(k, "send")
  /\ call' = [call EXCEPT ![k].pc = "wait", ![k].sent = token]
  /\ UNCHANGED <<token, issued, valid, executed, answer>>

(***************************************************************************)
(* The control plane.                                                      *)
(***************************************************************************)

\* The request takes effect; the answer arrives, or is lost on the way.
Serve(k) ==
  /\ At(k, "wait")
  /\ call[k].sent \in valid
  /\ executed' = [executed EXCEPT ![k] = @ + 1]
  /\ \E reply \in {"ok", "error"} : Goto(k, reply)
  /\ UNCHANGED <<token, issued, valid, answer>>

\* The request does not arrive, or fails for a reason of its own.
Fail(k) ==
  /\ At(k, "wait")
  /\ Goto(k, "error")
  /\ UNCHANGED <<token, issued, valid, executed, answer>>

Refuse(k) ==
  /\ At(k, "wait")
  /\ call[k].sent \notin valid
  /\ call' = [call EXCEPT ![k].pc = "expired", ![k].met = @ \cup {call[k].sent}]
  /\ UNCHANGED <<token, issued, valid, executed, answer>>

Expire ==
  /\ Cardinality((0 .. issued) \ valid) < MaxExpiries
  /\ \E t \in valid : valid' = valid \ {t}
  /\ UNCHANGED <<token, issued, call, executed, answer>>

(***************************************************************************)
(* What RetryAuth makes of the result of fn().                             *)
(***************************************************************************)
Succeed(k) ==
  /\ At(k, "ok")
  /\ Finish(k, "ok")
  /\ UNCHANGED <<token, issued, valid, executed>>

\* Mutant: every error is worth a retry, not only an expired token.
RetriesAnyError(k) ==
  /\ At(k, "error")
  /\ Goto(k, "expired")
  /\ UNCHANGED <<token, issued, valid, executed, answer>>

\* VerifyTokenExpiryAndReLogin: an error that names no token is final.
OtherError(k) ==
  /\ At(k, "error")
  /\ Finish(k, "error")
  /\ UNCHANGED <<token, issued, valid, executed>>

\* Mutant: a login is answered with the token it has handed out before.
CachedLogin(k) ==
  /\ At(k, "expired")
  /\ call' = [call EXCEPT ![k].pc = "setToken", ![k].fresh = call[k].sent]
  /\ UNCHANGED <<token, issued, valid, executed, answer>>

\* UserLogin, first half: the user service hands out a token.
LoginOk(k) ==
  /\ At(k, "expired")
  /\ issued' = issued + 1
  /\ valid' = valid \cup {issued + 1}
  /\ call' = [call EXCEPT ![k].pc = "setToken", ![k].fresh = issued + 1]
  /\ UNCHANGED <<token, executed, answer>>

LoginFails(k) ==
  /\ At(k, "expired")
  /\ Finish(k, "error")
  /\ UNCHANGED <<token, issued, valid, executed>>

\* Mutant: the attempts are counted one short.
RetriesOnceMore(k) ==
  IF call[k].tries < MAX_RETRY
  THEN /\ call' = [call EXCEPT ![k].pc = "send", ![k].tries = @ + 1]
       /\ UNCHANGED answer
  ELSE Finish(k, "exhausted")

\* The attempt is used up: RetryAuth tries again or gives up.
Retry(k) ==
  IF call[k].tries + 1 < MAX_RETRY
  THEN /\ call' = [call EXCEPT ![k].pc = "send", ![k].tries = @ + 1]
       /\ UNCHANGED answer
  ELSE Finish(k, "exhausted")

\* Mutant: the new token is only kept in Controller.Usertoken.
TokenNotInstalled(k) ==
  /\ At(k, "setToken")
  /\ Retry(k)
  /\ UNCHANGED <<token, issued, valid, executed>>

\* UserLogin, second half: Cpclient.SetToken, in whatever order callers get here.
SetToken(k) ==
  /\ At(k, "setToken")
  /\ token' = call[k].fresh
  /\ Retry(k)
  /\ UNCHANGED <<issued, valid, executed>>

-----------------------------------------------------------------------------
UserLogin(k) == LoginOk(k) \/ LoginFails(k) \/ SetToken(k)

Request(k) ==
  \/ Begin(k) \/ Send(k)
  \/ Serve(k) \/ Fail(k) \/ Refuse(k)
  \/ Succeed(k) \/ OtherError(k) \/ UserLogin(k)

Next == (\E k \in Caller : Request(k)) \/ Expire

Spec == Init /\ [][Next]_vars

-----------------------------------------------------------------------------
(***************************************************************************)
(* Properties.                                                             *)
(***************************************************************************)

\* RetryAuth keeps the promise of RemoteCall: although a request may be sent
\* MAX_RETRY times, it takes effect at most once, and the answer is honest.
Remote == INSTANCE RemoteCall
KeepsPromise == Remote!Spec

\* "operation failed after N retries" is never the fault of a token that was
\* refused twice, or of another caller's login: the control plane had expired
\* MAX_RETRY different tokens under this one call.
ExhaustedByExpiry ==
  \A k \in Caller : answer[k] = "exhausted" =>
    /\ Cardinality(call[k].met) = MAX_RETRY
    /\ call[k].met \cap valid = {}

\* Callers that find the same token expired each log in, but once: a token
\* costs at most one login per caller, however their steps interleave.
LoginsAreBounded ==
  issued <= Cardinality(Caller) * Cardinality((0 .. issued) \ valid)

\* Every call returns, callers keep calling, a refusal and a login get through
\* some time.
Fairness ==
  \A k \in Caller :
    /\ WF_vars(Request(k))
    /\ SF_vars(Refuse(k))
    /\ SF_vars(LoginOk(k))

FairSpec == Spec /\ Fairness

\* Once tokens stop expiring the client ends up with a valid one, although a
\* slow caller may still install an older one over it.
Recovers == <>[](token \in valid)
=============================================================================
