--------------------------- MODULE RetryAuthProofs ---------------------------
(***************************************************************************)
(* Proofs about RetryAuth for any number of callers, any MAX_RETRY and any *)
(* number of expiries.  TypeCorrect comes first; Promise relates where a   *)
(* caller is to what its request has done, which makes every step a step   *)
(* of RemoteCall or a stutter; Tokens says why a call never meets a token  *)
(* twice, from which the answer "exhausted" gets its meaning.              *)
(***************************************************************************)
EXTENDS RetryAuth, FiniteSetTheorems, TLAPS

\* Handing out another token leaves every type in place.
LEMMA MoreTokens ==
  ASSUME RetryAssumption, NEW n \in Nat
  PROVE  /\ 0 .. n \subseteq 0 .. (n + 1)
         /\ Locals(n) \subseteq Locals(n + 1)
<1>1. 0 .. n \subseteq 0 .. (n + 1)
  OBVIOUS
<1>2. ASSUME NEW l \in Locals(n) PROVE l \in Locals(n + 1)
  <2>1. l.sent \in 0 .. (n + 1) /\ l.fresh \in 0 .. (n + 1) /\ l.met \subseteq 0 .. (n + 1)
    BY <1>1, <1>2 DEF Locals
  <2> QED BY <2>1, <1>2 DEF Locals
<1> QED BY <1>1, <1>2

\* A caller that only moves its program counter stays well typed.
LEMMA GotoType ==
  ASSUME RetryAssumption, TypeOK, NEW k \in Caller, NEW pc \in Pc, Goto(k, pc)
  PROVE  call' \in [Caller -> Locals(issued)]
BY DEF TypeOK, Goto, Locals

\* Every step keeps the types.
LEMMA NextTypeOK ==
  ASSUME RetryAssumption, TypeOK, [Next]_vars
  PROVE  TypeOK'
<1> USE RetryAssumption DEF RetryAssumption
<1>1. ASSUME NEW k \in Caller, Begin(k) PROVE TypeOK'
  BY <1>1 DEF Begin, TypeOK, Locals, Idle, Pc
<1>2. ASSUME NEW k \in Caller, Send(k) PROVE TypeOK'
  <2>1. [call[k] EXCEPT !.pc = "wait", !.sent = token] \in Locals(issued)
    BY DEF TypeOK, Locals, Pc
  <2>2. call' \in [Caller -> Locals(issued)]
    BY <1>2, <2>1 DEF Send, TypeOK
  <2> QED BY <1>2, <2>2 DEF Send, TypeOK
<1>3. ASSUME NEW k \in Caller, Serve(k) PROVE TypeOK'
  <2>1. PICK reply \in {"ok", "error"} : Goto(k, reply)
    BY <1>3 DEF Serve
  <2>2. call' \in [Caller -> Locals(issued)]
    BY <2>1, GotoType DEF Pc
  <2>3. executed' \in [Caller -> Nat]
    BY <1>3 DEF Serve, TypeOK
  <2>4. UNCHANGED <<token, issued, valid, answer>>
    BY <1>3 DEF Serve
  <2> QED BY <2>2, <2>3, <2>4 DEF TypeOK
<1>4. ASSUME NEW k \in Caller, Fail(k) PROVE TypeOK'
  <2>1. call' \in [Caller -> Locals(issued)]
    BY <1>4, GotoType DEF Fail, Pc
  <2> QED BY <1>4, <2>1 DEF Fail, TypeOK
<1>5. ASSUME NEW k \in Caller, Refuse(k) PROVE TypeOK'
  <2> DEFINE m == call[k].met \cup {call[k].sent}
  <2>1. m \in SUBSET (0 .. issued)
    BY DEF TypeOK, Locals
  <2>2. call' = [call EXCEPT ![k].pc = "expired", ![k].met = m]
    BY <1>5 DEF Refuse
  <2> HIDE DEF m
  <2>3. ASSUME NEW j \in Caller PROVE call'[j] \in Locals(issued)
    <3>1. call[j] \in Locals(issued)
      BY DEF TypeOK
    <3>2. CASE j = k
      <4>1. call'[k] = [call[k] EXCEPT !.pc = "expired", !.met = m]
        BY <2>2 DEF TypeOK
      <4> QED BY <2>1, <3>1, <3>2, <4>1 DEF Locals, Pc
    <3>3. CASE j # k
      BY <2>2, <3>1, <3>3 DEF TypeOK
    <3> QED BY <3>2, <3>3
  <2>4. call' \in [Caller -> Locals(issued)]
    BY <2>2, <2>3 DEF TypeOK
  <2> QED BY <1>5, <2>4 DEF Refuse, TypeOK
<1>6. ASSUME NEW k \in Caller, Succeed(k) \/ OtherError(k) \/ LoginFails(k) PROVE TypeOK'
  <2>1. Goto(k, "idle") /\ issued' = issued
    BY <1>6 DEF Succeed, OtherError, LoginFails, Finish
  <2>2. call' \in [Caller -> Locals(issued)]
    BY <2>1, GotoType DEF Pc
  <2> QED BY <1>6, <2>2 DEF Succeed, OtherError, LoginFails, Finish, TypeOK
<1>7. ASSUME NEW k \in Caller, LoginOk(k) PROVE TypeOK'
  <2>1. call \in [Caller -> Locals(issued + 1)]
    BY MoreTokens DEF TypeOK
  <2>2. issued + 1 \in 0 .. (issued + 1)
    BY DEF TypeOK
  <2>3. call' \in [Caller -> Locals(issued + 1)]
    BY <1>7, <2>1, <2>2 DEF LoginOk, Locals, Pc
  <2>4. token' \in 0 .. (issued + 1) /\ valid' \subseteq 0 .. (issued + 1)
    BY <1>7, <2>2, MoreTokens DEF LoginOk, TypeOK
  <2> QED BY <1>7, <2>3, <2>4 DEF LoginOk, TypeOK
<1>8. ASSUME NEW k \in Caller, SetToken(k) PROVE TypeOK'
  <2>1. token' \in 0 .. issued
    BY <1>8 DEF SetToken, TypeOK, Locals
  <2>2. CASE call[k].tries + 1 < MAX_RETRY
    <3>1. call[k].tries + 1 \in 0 .. MAX_RETRY - 1
      BY <2>2 DEF TypeOK, Locals
    <3>2. call' = [call EXCEPT ![k].pc = "send", ![k].tries = @ + 1]
      BY <1>8, <2>2 DEF SetToken, Retry
    <3>3. call' \in [Caller -> Locals(issued)]
      BY <3>1, <3>2 DEF TypeOK, Locals, Pc
    <3>4. UNCHANGED <<issued, valid, executed, answer>>
      BY <1>8, <2>2 DEF SetToken, Retry
    <3> QED BY <2>1, <3>3, <3>4 DEF TypeOK
  <2>3. CASE ~(call[k].tries + 1 < MAX_RETRY)
    <3>1. Finish(k, "exhausted")
      BY <1>8, <2>3 DEF SetToken, Retry
    <3>2. call' \in [Caller -> Locals(issued)]
      BY <3>1, GotoType DEF Finish, Pc
    <3> QED BY <1>8, <2>1, <3>1, <3>2 DEF SetToken, Finish, TypeOK
  <2> QED BY <2>2, <2>3
<1>9. ASSUME Expire PROVE TypeOK'
  BY <1>9 DEF Expire, TypeOK
<1>10. ASSUME UNCHANGED vars PROVE TypeOK'
  BY <1>10 DEF vars, TypeOK
<1> QED BY <1>1, <1>2, <1>3, <1>4, <1>5, <1>6, <1>7, <1>8, <1>9, <1>10 DEF Next, Request, UserLogin

\* The types are invariant: tokens in use have been handed out, and a call never
\* makes more attempts than RetryAuth's loop.
THEOREM TypeCorrect ==
  ASSUME RetryAssumption
  PROVE  Spec => []TypeOK
<1>1. Init => TypeOK
  BY RetryAssumption DEF RetryAssumption, Init, TypeOK, Locals, Idle, Pc
<1>2. TypeOK /\ [Next]_vars => TypeOK'
  BY NextTypeOK, RetryAssumption
<1> QED BY <1>1, <1>2, PTL DEF Spec

-----------------------------------------------------------------------------
(***************************************************************************)
(* A request that has taken effect has been answered: its caller is past   *)
(* every point from which RetryAuth sends it again.                        *)
(***************************************************************************)
Unserved == {"send", "wait", "expired", "setToken"}

Promise ==
  \A k \in Caller :
    /\ answer[k] = "pending" <=> ~At(k, "idle")
    /\ call[k].pc \in Unserved => executed[k] = 0
    /\ At(k, "ok") => executed[k] = 1
    /\ At(k, "error") => executed[k] \in {0, 1}

\* A step of k keeps what Promise says of the others, and is a step of
\* RemoteCall or leaves what RemoteCall sees alone.
LEMMA RequestKeepsPromise ==
  ASSUME RetryAssumption, TypeOK, Promise, NEW k \in Caller, Request(k)
  PROVE  Promise' /\ [Remote!Next]_<<executed, answer>>
<1> USE DEF TypeOK, Promise, Unserved, Locals, Pc, At, Goto, Finish
<1>1. CASE Begin(k)
  <2>1. Promise'
    BY <1>1 DEF Begin, Idle
  <2>2. Remote!Begin(k)
    BY <1>1 DEF Begin, Remote!Begin
  <2> QED BY <2>1, <2>2 DEF Remote!Next
<1>2. CASE Serve(k)
  <2>1. Promise'
    BY <1>2 DEF Serve
  <2>2. executed[k] = 0 /\ answer[k] = "pending" /\ UNCHANGED answer
    BY <1>2 DEF Serve
  <2>3. executed' = [executed EXCEPT ![k] = 1]
    BY <1>2, <2>2 DEF Serve
  <2>4. Remote!Execute(k)
    BY <2>2, <2>3 DEF Remote!Execute
  <2> QED BY <2>1, <2>4 DEF Remote!Next
<1>3. CASE Send(k) \/ Fail(k) \/ Refuse(k) \/ LoginOk(k)
  <2>1. Promise'
    BY <1>3 DEF Send, Fail, Refuse, LoginOk
  <2>2. UNCHANGED <<executed, answer>>
    BY <1>3 DEF Send, Fail, Refuse, LoginOk
  <2> QED BY <2>1, <2>2
<1>4. CASE Succeed(k) \/ OtherError(k) \/ LoginFails(k)
  <2>1. Promise'
    BY <1>4 DEF Succeed, OtherError, LoginFails
  <2>2. Remote!Answer(k)
    BY <1>4 DEF Succeed, OtherError, LoginFails, Remote!Answer, Remote!Honest
  <2> QED BY <2>1, <2>2 DEF Remote!Next
<1>5. CASE SetToken(k) /\ call[k].tries + 1 < MAX_RETRY
  <2>1. Promise'
    BY <1>5 DEF SetToken, Retry
  <2>2. UNCHANGED <<executed, answer>>
    BY <1>5 DEF SetToken, Retry
  <2> QED BY <2>1, <2>2
<1>6. CASE SetToken(k) /\ ~(call[k].tries + 1 < MAX_RETRY)
  <2>1. Promise'
    BY <1>6 DEF SetToken, Retry
  <2>2. Remote!Answer(k)
    BY <1>6 DEF SetToken, Retry, Remote!Answer, Remote!Honest
  <2> QED BY <2>1, <2>2 DEF Remote!Next
<1> QED BY <1>1, <1>2, <1>3, <1>4, <1>5, <1>6 DEF Request, UserLogin

\* RetryAuth implements RemoteCall: however often it sends a request and
\* whoever else logs in meanwhile, the control plane executes the request at
\* most once, "ok" is only answered when it did and "exhausted" only when not.
THEOREM PromiseIsKept ==
  ASSUME RetryAssumption
  PROVE  Spec => KeepsPromise
<1>1. Init => Promise /\ Remote!Init
  BY DEF Init, Promise, Unserved, At, Idle, Remote!Init
<1>2. TypeOK /\ Promise /\ [Next]_vars => Promise' /\ [Remote!Next]_<<executed, answer>>
  <2> SUFFICES ASSUME TypeOK, Promise, [Next]_vars
               PROVE  Promise' /\ [Remote!Next]_<<executed, answer>>
    OBVIOUS
  <2>1. ASSUME NEW k \in Caller, Request(k)
        PROVE  Promise' /\ [Remote!Next]_<<executed, answer>>
    BY <2>1, RequestKeepsPromise, RetryAssumption
  <2>2. CASE Expire
    BY <2>2 DEF Expire, Promise, At
  <2>3. CASE UNCHANGED vars
    BY <2>3 DEF vars, Promise, At
  <2> QED BY <2>1, <2>2, <2>3 DEF Next
<1>3. Spec => []TypeOK
  BY TypeCorrect, RetryAssumption
<1> QED BY <1>1, <1>2, <1>3, PTL DEF Spec, KeepsPromise, Remote!Spec, Remote!remoteVars

-----------------------------------------------------------------------------
(***************************************************************************)
(* A token that a login returned and nobody has installed yet is new to    *)
(* everyone: it is not the client's, no request carried it, no call met    *)
(* it, no other caller holds it.  Hence the client's token, whoever        *)
(* installed it, is not one that a call about to send has met.             *)
(***************************************************************************)
Held(k) == At(k, "setToken")

HeldIsNew ==
  \A k \in Caller : Held(k) =>
    /\ call[k].fresh # 0
    /\ call[k].fresh # token
    /\ \A j \in Caller : /\ call[j].sent # call[k].fresh
                         /\ call[k].fresh \notin call[j].met
                         /\ j # k /\ Held(j) => call[j].fresh # call[k].fresh

MeetsNewTokens ==
  \A k \in Caller :
    /\ At(k, "send") => token \notin call[k].met
    /\ At(k, "wait") => call[k].sent \notin call[k].met

MetHasExpired == \A k \in Caller : call[k].met \cap valid = {}

Tokens == HeldIsNew /\ MeetsNewTokens /\ MetHasExpired

\* What a caller has met, and holds, after k has moved to another point without
\* a login, a refusal or an installation.
LEMMA TokensUntouched ==
  ASSUME TypeOK, Tokens, NEW k \in Caller, NEW pc \in Pc \ {"send", "wait", "setToken"},
         Goto(k, pc), UNCHANGED <<token, valid>>
  PROVE  Tokens'
BY DEF TypeOK, Locals, Tokens, HeldIsNew, MeetsNewTokens, MetHasExpired, Held, At, Goto

\* Every step of a caller keeps Tokens.
LEMMA RequestKeepsTokens ==
  ASSUME RetryAssumption, TypeOK, Tokens, NEW k \in Caller, Request(k)
  PROVE  Tokens'
<1> USE DEF TypeOK, Locals, Tokens, HeldIsNew, MeetsNewTokens, MetHasExpired, Held, At
<1>1. CASE Begin(k)
  BY <1>1 DEF Begin, Idle
<1>2. CASE Send(k)
  BY <1>2 DEF Send
<1>3. CASE Serve(k) \/ Fail(k) \/ Succeed(k) \/ OtherError(k) \/ LoginFails(k)
  <2>1. UNCHANGED <<token, valid>> /\ \E pc \in {"ok", "error", "idle"} : Goto(k, pc)
    BY <1>3 DEF Serve, Fail, Succeed, OtherError, LoginFails, Finish
  <2> QED BY <2>1, TokensUntouched DEF Pc
<1>4. CASE Refuse(k)
  <2> DEFINE m == call[k].met \cup {call[k].sent}
  <2>1. /\ UNCHANGED <<token, valid>>
        /\ \A j \in Caller :
             /\ call'[j].fresh = call[j].fresh
             /\ call'[j].sent = call[j].sent
             /\ call'[j].met = IF j = k THEN m ELSE call[j].met
             /\ call'[j].pc = IF j = k THEN "expired" ELSE call[j].pc
    BY <1>4 DEF Refuse
  <2>2. HeldIsNew'
    BY <2>1
  <2>3. MeetsNewTokens'
    BY <2>1
  <2>4. MetHasExpired'
    BY <1>4, <2>1 DEF Refuse
  <2> QED BY <2>2, <2>3, <2>4
<1>5. CASE LoginOk(k)
  <2>1. /\ token' = token
        /\ valid' = valid \cup {issued + 1}
        /\ \A j \in Caller :
             /\ call'[j].fresh = IF j = k THEN issued + 1 ELSE call[j].fresh
             /\ call'[j].sent = call[j].sent
             /\ call'[j].met = call[j].met
             /\ call'[j].pc = IF j = k THEN "setToken" ELSE call[j].pc
    BY <1>5 DEF LoginOk
  <2>2. /\ issued + 1 # 0 /\ issued + 1 # token
        /\ \A j \in Caller : /\ call[j].sent # issued + 1
                             /\ issued + 1 \notin call[j].met
                             /\ call[j].fresh # issued + 1
    OBVIOUS
  <2>3. HeldIsNew'
    BY <2>1, <2>2
  <2>4. MeetsNewTokens' /\ MetHasExpired'
    BY <2>1, <2>2
  <2> QED BY <2>3, <2>4
<1>6. CASE SetToken(k)
  <2>1. /\ token' = call[k].fresh
        /\ valid' = valid
        /\ \A j \in Caller :
             /\ call'[j].fresh = call[j].fresh
             /\ call'[j].sent = call[j].sent
             /\ call'[j].met = call[j].met
             /\ j # k => call'[j].pc = call[j].pc
        /\ call'[k].pc \in {"send", "idle"}
    BY <1>6 DEF SetToken, Retry, Finish, Goto
  <2>2. Held(k)
    BY <1>6 DEF SetToken
  <2>3. HeldIsNew'
    BY <2>1, <2>2
  <2>4. MeetsNewTokens' /\ MetHasExpired'
    BY <2>1, <2>2
  <2> QED BY <2>3, <2>4
<1> QED BY <1>1, <1>2, <1>3, <1>4, <1>5, <1>6 DEF Request, UserLogin

-----------------------------------------------------------------------------
(***************************************************************************)
(* Each refusal met another token, so the attempts used up are the tokens  *)
(* met.                                                                    *)
(***************************************************************************)
Count ==
  \A k \in Caller :
    /\ IsFiniteSet(call[k].met)
    /\ call[k].pc \in {"send", "wait"} => Cardinality(call[k].met) = call[k].tries
    /\ call[k].pc \in {"expired", "setToken"} => Cardinality(call[k].met) = call[k].tries + 1
    /\ answer[k] = "exhausted" => At(k, "idle") /\ Cardinality(call[k].met) = MAX_RETRY

\* Every step of a caller keeps Count.
LEMMA RequestKeepsCount ==
  ASSUME RetryAssumption, TypeOK, Promise, Tokens, Count, NEW k \in Caller, Request(k)
  PROVE  Count'
<1> USE DEF TypeOK, Locals, Count, At
<1>1. CASE Begin(k)
  <2>1. IsFiniteSet({}) /\ Cardinality({}) = 0
    BY FS_EmptySet
  <2> QED BY <1>1, <2>1 DEF Begin, Idle
<1>2. CASE Send(k)
  BY <1>2 DEF Send
<1>3. CASE Serve(k) \/ Fail(k)
  BY <1>3 DEF Serve, Fail, Goto
<1>4. CASE Succeed(k) \/ OtherError(k) \/ LoginFails(k)
  BY <1>4 DEF Succeed, OtherError, LoginFails, Finish, Goto
<1>5. CASE Refuse(k)
  <2> DEFINE m == call[k].met \cup {call[k].sent}
  <2>1. call[k].sent \notin call[k].met
    BY <1>5 DEF Refuse, Tokens, MeetsNewTokens
  <2>2. IsFiniteSet(m) /\ Cardinality(m) = call[k].tries + 1
    BY <1>5, <2>1, FS_AddElement DEF Refuse
  <2>3. /\ answer' = answer
        /\ \A j \in Caller :
             /\ call'[j].tries = call[j].tries
             /\ call'[j].met = IF j = k THEN m ELSE call[j].met
             /\ call'[j].pc = IF j = k THEN "expired" ELSE call[j].pc
    BY <1>5 DEF Refuse
  <2>4. answer[k] # "exhausted"
    BY <1>5 DEF Refuse
  <2> HIDE DEF m
  <2> QED BY <2>2, <2>3, <2>4
<1>6. CASE LoginOk(k)
  BY <1>6 DEF LoginOk
<1>7. CASE SetToken(k) /\ call[k].tries + 1 < MAX_RETRY
  <2>1. /\ answer' = answer
        /\ \A j \in Caller :
             /\ call'[j].tries = IF j = k THEN call[j].tries + 1 ELSE call[j].tries
             /\ call'[j].met = call[j].met
             /\ call'[j].pc = IF j = k THEN "send" ELSE call[j].pc
    BY <1>7 DEF SetToken, Retry
  <2>2. answer[k] # "exhausted" /\ Cardinality(call[k].met) = call[k].tries + 1
    BY <1>7 DEF SetToken
  <2> QED BY <2>1, <2>2
<1>8. CASE SetToken(k) /\ ~(call[k].tries + 1 < MAX_RETRY)
  <2>1. call[k].tries + 1 = MAX_RETRY
    BY <1>8, RetryAssumption DEF RetryAssumption
  <2>2. /\ \A j \in Caller : j # k => answer'[j] = answer[j]
        /\ \A j \in Caller :
             /\ call'[j].tries = call[j].tries
             /\ call'[j].met = call[j].met
             /\ call'[j].pc = IF j = k THEN "idle" ELSE call[j].pc
    BY <1>8 DEF SetToken, Retry, Finish, Goto
  <2>3. Cardinality(call[k].met) = MAX_RETRY
    BY <1>8, <2>1 DEF SetToken
  <2> QED BY <2>2, <2>3
<1> QED BY <1>1, <1>2, <1>3, <1>4, <1>5, <1>6, <1>7, <1>8 DEF Request, UserLogin

\* RetryAuth only answers "operation failed after N retries" when N different
\* tokens were refused and have expired, whatever the other callers' logins
\* did to the client's token meanwhile.
THEOREM ExhaustedByExpiryHolds ==
  ASSUME RetryAssumption
  PROVE  Spec => []ExhaustedByExpiry
<1> DEFINE IInv == Promise /\ Tokens /\ Count
<1>1. Init => IInv
  <2>1. IsFiniteSet({}) /\ Cardinality({}) = 0
    BY FS_EmptySet
  <2> QED BY <2>1 DEF Init, Idle, At, Promise, Unserved, Count,
                      Tokens, HeldIsNew, MeetsNewTokens, MetHasExpired, Held
<1>2. TypeOK /\ IInv /\ [Next]_vars => IInv'
  <2> SUFFICES ASSUME TypeOK, IInv, [Next]_vars PROVE IInv'
    OBVIOUS
  <2>1. ASSUME NEW k \in Caller, Request(k) PROVE IInv'
    BY <2>1, RequestKeepsPromise, RequestKeepsTokens, RequestKeepsCount, RetryAssumption
  <2>2. CASE Expire
    BY <2>2 DEF Expire, At, Promise, Count, Tokens, HeldIsNew, MeetsNewTokens, MetHasExpired, Held
  <2>3. CASE UNCHANGED vars
    BY <2>3 DEF vars, At, Promise, Count, Tokens, HeldIsNew, MeetsNewTokens, MetHasExpired, Held
  <2> QED BY <2>1, <2>2, <2>3 DEF Next
<1>3. IInv => ExhaustedByExpiry
  BY DEF Count, Tokens, MetHasExpired, ExhaustedByExpiry
<1>4. Spec => []TypeOK
  BY TypeCorrect, RetryAssumption
<1> QED BY <1>1, <1>2, <1>3, <1>4, PTL DEF Spec

-----------------------------------------------------------------------------
(***************************************************************************)
(* Logins.  An expired token is open to a caller while it could still cost *)
(* that caller a login: the caller's request in flight carries it, it is   *)
(* the client's, or somebody is about to install it.  A token that is no   *)
(* longer the client's is never installed again, so that once closed it    *)
(* stays closed, and each login closes a token to its caller: there are at *)
(* least as many such pairs as there were logins.                          *)
(***************************************************************************)
Open(k, t) ==
  \/ call[k].pc \in {"wait", "expired"} /\ call[k].sent = t
  \/ t = token /\ ~(Held(k) /\ call[k].sent = t)
  \/ \E j \in Caller : Held(j) /\ call[j].fresh = t

Expired == (0 .. issued) \ valid

Spent == {p \in Caller \X Expired : ~Open(p[1], p[2])}

RefusedHasExpired == \A k \in Caller : At(k, "expired") => call[k].sent \notin valid

Logins == RefusedHasExpired /\ issued <= Cardinality(Spent)

\* There are finitely many pairs, and not more than callers times expired tokens.
LEMMA SpentIsBounded ==
  ASSUME RetryAssumption, TypeOK
  PROVE  /\ IsFiniteSet(Spent)
         /\ Cardinality(Spent) <= Cardinality(Caller) * Cardinality(Expired)
<1>1. IsFiniteSet(0 .. issued)
  BY FS_Interval DEF TypeOK
<1>2. IsFiniteSet(Expired)
  BY <1>1, FS_Subset DEF Expired
<1>3. /\ IsFiniteSet(Caller \X Expired)
      /\ Cardinality(Caller \X Expired) = Cardinality(Caller) * Cardinality(Expired)
  BY <1>2, FS_Product DEF RetryAssumption
<1>4. Spent \in SUBSET (Caller \X Expired)
  BY DEF Spent
<1> QED BY <1>3, <1>4, FS_Subset

\* No step but a login opens anything, or takes an expired token back.
LEMMA RequestOpensNothing ==
  ASSUME RetryAssumption, TypeOK, Tokens, NEW k \in Caller, Request(k), ~LoginOk(k)
  PROVE  /\ issued' = issued /\ valid' = valid
         /\ \A j \in Caller, t \in Nat : Open(j, t)' => Open(j, t)
<1> USE DEF TypeOK, Locals, Open, Held, At
<1>1. CASE Begin(k)
  BY <1>1 DEF Begin, Idle
<1>2. CASE Send(k)
  BY <1>2 DEF Send
<1>3. CASE Serve(k) \/ Fail(k) \/ Refuse(k) \/ Succeed(k) \/ OtherError(k) \/ LoginFails(k)
  <2>1. /\ UNCHANGED <<token, issued, valid>>
        /\ \A j \in Caller :
             /\ call'[j].sent = call[j].sent
             /\ call'[j].fresh = call[j].fresh
             /\ j # k => call'[j].pc = call[j].pc
        /\ call'[k].pc \in {"ok", "error", "expired", "idle"}
        /\ call'[k].pc = "expired" => call[k].pc = "wait"
        /\ call[k].pc # "setToken"
    BY <1>3 DEF Serve, Fail, Refuse, Succeed, OtherError, LoginFails, Finish, Goto
  <2> QED BY <2>1
<1>4. CASE SetToken(k)
  <2>1. /\ token' = call[k].fresh
        /\ UNCHANGED <<issued, valid>>
        /\ \A j \in Caller :
             /\ call'[j].sent = call[j].sent
             /\ call'[j].fresh = call[j].fresh
             /\ j # k => call'[j].pc = call[j].pc
        /\ call'[k].pc \in {"send", "idle"}
        /\ call[k].pc = "setToken"
    BY <1>4 DEF SetToken, Retry, Finish, Goto
  <2> QED BY <2>1
<1> QED BY <1>1, <1>2, <1>3, <1>4 DEF Request, UserLogin

\* A login closes the refused token to its caller, and opens only its own.
LEMMA LoginCloses ==
  ASSUME TypeOK, Tokens, NEW k \in Caller, LoginOk(k)
  PROVE  /\ issued' = issued + 1 /\ valid' = valid \cup {issued + 1}
         /\ \A t : t = call[k].sent => Open(k, t) /\ ~Open(k, t)'
         /\ \A j \in Caller, t \in 0 .. issued : Open(j, t)' => Open(j, t)
<1>1. /\ token' = token /\ issued' = issued + 1 /\ valid' = valid \cup {issued + 1}
      /\ call[k].pc = "expired"
      /\ \A j \in Caller :
           /\ call'[j].fresh = IF j = k THEN issued + 1 ELSE call[j].fresh
           /\ call'[j].sent = call[j].sent
           /\ call'[j].pc = IF j = k THEN "setToken" ELSE call[j].pc
  BY DEF LoginOk, TypeOK, At
<1>2. call[k].sent \in 0 .. issued /\ token \in 0 .. issued /\ issued \in Nat
  BY DEF TypeOK, Locals
<1>3. \A j \in Caller : Held(j) => call[j].fresh # call[k].sent
  BY DEF Tokens, HeldIsNew
<1>4. ASSUME NEW t, t = call[k].sent PROVE Open(k, t) /\ ~Open(k, t)'
  <2>1. Open(k, t)
    BY <1>1, <1>4 DEF Open
  <2>2. ~Open(k, t)'
    BY <1>1, <1>2, <1>3, <1>4 DEF Open, Held, At
  <2> QED BY <2>1, <2>2
<1>5. \A j \in Caller, t \in 0 .. issued : Open(j, t)' => Open(j, t)
  BY <1>1, <1>2 DEF Open, Held, At
<1> QED BY <1>1, <1>4, <1>5

\* Every step of a caller keeps Logins.
LEMMA RequestKeepsLogins ==
  ASSUME RetryAssumption, TypeOK, TypeOK', Tokens, Logins, NEW k \in Caller, Request(k)
  PROVE  Logins'
<1>1. RefusedHasExpired'
  <2> USE DEF Logins, RefusedHasExpired, TypeOK, Locals, At
  <2>1. CASE LoginOk(k)
    BY <2>1 DEF LoginOk
  <2>2. CASE ~LoginOk(k)
    <3>1. valid' = valid
      BY <2>2, RequestOpensNothing
    <3>2. \A j \in Caller : /\ At(j, "expired")' => At(j, "expired") \/ Refuse(j)
                            /\ At(j, "expired")' => call'[j].sent = call[j].sent
      BY <2>2 DEF Request, UserLogin, Begin, Idle, Send, Serve, Fail, Refuse, Succeed, OtherError,
                  LoginFails, SetToken, Retry, Finish, Goto
    <3> QED BY <3>1, <3>2 DEF Refuse
  <2> QED BY <2>1, <2>2
<1>2. /\ IsFiniteSet(Spent) /\ Cardinality(Spent) \in Nat
      /\ IsFiniteSet(Spent') /\ Cardinality(Spent)' \in Nat
  <2>1. IsFiniteSet(Spent)
    BY SpentIsBounded
  <2>2. IsFiniteSet(Spent')
    <3>1. IsFiniteSet((0 .. issued)')
      BY FS_Interval DEF TypeOK
    <3>2. IsFiniteSet(Expired')
      BY <3>1, FS_Subset DEF Expired
    <3>3. IsFiniteSet(Caller \X Expired')
      BY <3>2, FS_Product DEF RetryAssumption
    <3>4. Spent' \in SUBSET (Caller \X Expired')
      BY DEF Spent
    <3> QED BY <3>3, <3>4, FS_Subset
  <2> QED BY <2>1, <2>2, FS_CardinalityType
<1>3. CASE ~LoginOk(k)
  <2>1. Expired' = Expired /\ issued' = issued /\ Expired \subseteq Nat
    BY <1>3, RequestOpensNothing DEF Expired, TypeOK
  <2>2. Spent \in SUBSET Spent'
    BY <1>3, <2>1, RequestOpensNothing DEF Spent
  <2>3. Cardinality(Spent) <= Cardinality(Spent')
    BY <1>2, <2>2, FS_Subset
  <2> QED BY <1>1, <1>2, <2>1, <2>3 DEF Logins, TypeOK
<1>4. CASE LoginOk(k)
  <2> DEFINE p == <<k, call[k].sent>>
  <2>1. /\ issued' = issued + 1 /\ valid' = valid \cup {issued + 1} /\ issued \in Nat
        /\ \A t : t = call[k].sent => Open(k, t) /\ ~Open(k, t)'
        /\ \A j \in Caller, t \in 0 .. issued : Open(j, t)' => Open(j, t)
    BY <1>4, LoginCloses DEF TypeOK
  <2>2. call[k].sent \in 0 .. issued /\ call[k].sent \notin valid
    BY <1>4 DEF LoginOk, Logins, RefusedHasExpired, TypeOK, Locals
  <2>3. call[k].sent \in Expired /\ Expired \subseteq 0 .. issued /\ Expired \subseteq Expired'
    BY <2>1, <2>2 DEF Expired
  <2>4. p \notin Spent /\ p \in Spent'
    BY <2>1, <2>3 DEF Spent
  <2>5. Spent \subseteq Spent'
    BY <2>1, <2>3 DEF Spent
  <2>6. Cardinality(Spent \cup {p}) = Cardinality(Spent) + 1
    BY <1>2, <2>4, FS_AddElement
  <2>7. Cardinality(Spent \cup {p}) <= Cardinality(Spent')
    BY <1>2, <2>4, <2>5, FS_Subset
  <2>8. issued' = issued + 1 /\ issued <= Cardinality(Spent) /\ issued \in Nat
    BY <1>4, LoginCloses DEF Logins, TypeOK
  <2> QED BY <1>1, <1>2, <2>6, <2>7, <2>8 DEF Logins
<1> QED BY <1>3, <1>4

\* Expiries only close.
LEMMA ExpireKeepsLogins ==
  ASSUME RetryAssumption, TypeOK, TypeOK', Logins, Expire \/ UNCHANGED vars
  PROVE  Logins'
<1>1. /\ issued' = issued /\ valid' \subseteq valid /\ call' = call /\ token' = token
  BY DEF Expire, vars
<1>2. RefusedHasExpired'
  BY <1>1 DEF Logins, RefusedHasExpired, At
<1>3. \A j \in Caller : \A t : Open(j, t)' <=> Open(j, t)
  BY <1>1 DEF Open, Held, At
<1>4. Expired \subseteq Expired'
  BY <1>1 DEF Expired
<1>5. Spent \in SUBSET Spent'
  BY <1>3, <1>4 DEF Spent
<1>6. IsFiniteSet(Spent')
  <2>1. IsFiniteSet((0 .. issued)')
    BY FS_Interval DEF TypeOK
  <2>2. IsFiniteSet(Expired')
    BY <2>1, FS_Subset DEF Expired
  <2>3. IsFiniteSet(Caller \X Expired')
    BY <2>2, FS_Product DEF RetryAssumption
  <2>4. Spent' \in SUBSET (Caller \X Expired')
    BY DEF Spent
  <2> QED BY <2>3, <2>4, FS_Subset
<1>7. Cardinality(Spent) <= Cardinality(Spent') /\ Cardinality(Spent) \in Nat /\ Cardinality(Spent') \in Nat
  BY <1>5, <1>6, FS_Subset, FS_CardinalityType
<1> QED BY <1>1, <1>2, <1>7 DEF Logins, TypeOK

\* Callers that find a token expired log in once each: the logins of a run are
\* at most the callers times the tokens that have expired in it.
THEOREM LoginsAreBoundedHolds ==
  ASSUME RetryAssumption
  PROVE  Spec => []LoginsAreBounded
<1> DEFINE IInv == TypeOK /\ Tokens /\ Logins
<1>1. Init => IInv
  <2> SUFFICES ASSUME Init PROVE IInv
    OBVIOUS
  <2>1. TypeOK
    BY RetryAssumption DEF RetryAssumption, Init, Idle, TypeOK, Locals, Pc
  <2>2. Tokens
    BY DEF Init, Idle, At, Tokens, HeldIsNew, MeetsNewTokens, MetHasExpired, Held
  <2>3. Cardinality(Spent) \in Nat
    BY <2>1, SpentIsBounded, FS_CardinalityType
  <2>4. Logins
    BY <2>3 DEF Init, Idle, At, Logins, RefusedHasExpired
  <2> QED BY <2>1, <2>2, <2>4
<1>2. IInv /\ [Next]_vars => IInv'
  <2> SUFFICES ASSUME IInv, [Next]_vars PROVE IInv'
    OBVIOUS
  <2>1. TypeOK'
    BY NextTypeOK, RetryAssumption
  <2>2. ASSUME NEW k \in Caller, Request(k) PROVE IInv'
    BY <2>1, <2>2, RequestKeepsTokens, RequestKeepsLogins, RetryAssumption
  <2>3. CASE Expire \/ UNCHANGED vars
    <3>1. Tokens'
      BY <2>3 DEF Expire, vars, At, Tokens, HeldIsNew, MeetsNewTokens, MetHasExpired, Held
    <3> QED BY <2>1, <2>3, <3>1, ExpireKeepsLogins, RetryAssumption
  <2> QED BY <2>2, <2>3 DEF Next
<1>3. IInv => LoginsAreBounded
  <2> SUFFICES ASSUME IInv PROVE LoginsAreBounded
    OBVIOUS
  <2>1. /\ Cardinality(Spent) <= Cardinality(Caller) * Cardinality(Expired)
        /\ Cardinality(Spent) \in Nat
    BY SpentIsBounded, FS_CardinalityType, RetryAssumption
  <2>2. Cardinality(Caller) \in Nat /\ Cardinality(Expired) \in Nat
    <3>1. IsFiniteSet(0 .. issued)
      BY FS_Interval DEF TypeOK
    <3>2. IsFiniteSet(Expired)
      BY <3>1, FS_Subset DEF Expired
    <3> QED BY <3>2, FS_CardinalityType, RetryAssumption DEF RetryAssumption
  <2>3. Cardinality(Caller) * Cardinality(Expired) \in Nat
    BY <2>2
  <2>4. issued <= Cardinality(Caller) * Cardinality(Expired)
    BY <2>1, <2>3 DEF Logins, TypeOK
  <2> QED BY <2>4 DEF LoginsAreBounded, Expired
<1> QED BY <1>1, <1>2, <1>3, PTL DEF Spec
=============================================================================
