-------------------------- MODULE LifecycleProofs --------------------------
(***************************************************************************)
(* HttpClient implements the safety part of RequestLifecycle under the    *)
(* refinement mapping of HttpClient (LPhase, the promise's verdict,        *)
(* LCancelled), for every value of the constants.  The argument rests on  *)
(* LInv: IInv, plus that no call sends a signal before its run to fetch   *)
(* (CtrlAfterIssue) and that a promise has settled exactly when its call   *)
(* is done (SettledIffDone).  The fairness part is checked by TLC only.    *)
(***************************************************************************)
EXTENDS HttpClientProofs

\* The run to fetch leaves every other call's signal alone and gives c a
\* signal that is not aborted: the registered one (live by
\* RegisteredSignalLive) or c's own new controller.
LEMMA IssueSignal ==
    ASSUME IInv, CtrlAfterIssue,
           NEW c \in Calls, pc[c] \in {"idle", "securing"},
           NEW a \in AllArgs, Issue(c, a)
    PROVE  /\ \/ /\ pc' = [pc EXCEPT ![c] = "done"]
                 /\ result' = [result EXCEPT ![c] = Thrown("encodeError")]
              \/ /\ pc' = [pc EXCEPT ![c] = "fetching"]
                 /\ result' = result
           /\ \A d \in Calls \ {c} : ctrl'[d] = ctrl[d]
           /\ ctrl'[c] \in Ctrls \ aborted
           /\ ctrl[c] = None
<1>. USE DEF IInv, TypeOK
<1>1. \/ /\ pc' = [pc EXCEPT ![c] = "done"]
         /\ result' = [result EXCEPT ![c] = Thrown("encodeError")]
      \/ /\ pc' = [pc EXCEPT ![c] = "fetching"]
         /\ result' = result
  BY DEF Issue, Finish
<1>2. ctrl[c] = None
  BY DEF CtrlAfterIssue
<1>3. c \notin aborted /\ None \notin aborted
  BY HttpClientAssumption DEF AbortedWereIssued
<1>4. a.cancelToken \in Tokens \cup {Unset}
  BY ArgShape
<1>5. CASE UNCHANGED ctrl
  BY <1>1, <1>2, <1>3, <1>5 DEF Ctrls
<1>6. CASE /\ HasToken(a)
           /\ ctrl' = [ctrl EXCEPT ![c] = CreateAbortSignal(a.cancelToken, c)]
  <2>1. a.cancelToken \in Tokens
    BY <1>4, <1>6 DEF HasToken
  <2>2. CreateAbortSignal(a.cancelToken, c) \in Ctrls \ aborted
    BY <1>3, <2>1 DEF CreateAbortSignal, RegisteredSignalLive, Ctrls
  <2>. QED
    BY <1>1, <1>2, <1>6, <2>2
<1>. QED
  BY <1>5, <1>6 DEF Issue

\* A step that changes no call's signal except c's, from none to one not
\* aborted, and aborts nothing, cancels no call.
LEMMA SameCancelled ==
    ASSUME ctrl \in [Calls -> Ctrls], NEW c \in Calls,
           ctrl' \in [Calls -> Ctrls],
           \A d \in Calls \ {c} : ctrl'[d] = ctrl[d],
           \/ ctrl'[c] = ctrl[c]
           \/ ctrl[c] \notin aborted /\ ctrl'[c] \notin aborted,
           UNCHANGED aborted
    PROVE  LCancelled' = LCancelled
BY DEF LCancelled

\* A call starting: idle to pending in the lifecycle.
LEMMA MapStart ==
    ASSUME pc \in [Calls -> Phases], NEW c \in Calls, pc[c] = "idle",
           NEW p \in {"securing", "fetching"},
           pc' = [pc EXCEPT ![c] = p],
           result' = result,
           LCancelled' = LCancelled
    PROVE  Lifecycle!Start(c)
BY DEF Lifecycle!Start, LPhase, Phases

\* A call settling with a verdict: Settle in the lifecycle.
LEMMA MapSettle ==
    ASSUME pc \in [Calls -> Phases], result \in [Calls -> Outcomes],
           NEW c \in Calls, pc[c] # "done",
           NEW r \in Outcomes, r.how \in {"resolved", "rejected"},
           pc' = [pc EXCEPT ![c] = "done"],
           result' = [result EXCEPT ![c] = r],
           LCancelled' = LCancelled
    PROVE  Lifecycle!Settle(c)
BY DEF Lifecycle!Settle, Lifecycle!Verdicts, LPhase, Phases

\* A call moving between suspension points: a stutter of the lifecycle.
LEMMA MapStutter ==
    ASSUME pc \in [Calls -> Phases], NEW c \in Calls,
           pc[c] \in {"securing", "fetching", "parsing"},
           NEW p \in {"fetching", "parsing"},
           pc' = [pc EXCEPT ![c] = p],
           result' = result,
           LCancelled' = LCancelled
    PROVE  UNCHANGED Lifecycle!lvars
BY DEF Lifecycle!lvars, LPhase, Phases

LEMMA InitLInv == Init => LInv /\ Lifecycle!LInit
<1> SUFFICES ASSUME Init PROVE LInv /\ Lifecycle!LInit
  OBVIOUS
<1>1. IInv
  BY InitIInv
<1>2. CtrlAfterIssue /\ SettledIffDone
  BY DEF Init, CtrlAfterIssue, SettledIffDone, Pending
<1>3. Lifecycle!LInit
  BY HttpClientAssumption DEF Init, Lifecycle!LInit, LPhase, LCancelled, Pending
<1>. QED
  BY <1>1, <1>2, <1>3 DEF LInv

\* A call settling keeps the two new conjuncts.
LEMMA SettleLInv ==
    ASSUME pc \in [Calls -> Phases], result \in [Calls -> Outcomes],
           CtrlAfterIssue, SettledIffDone,
           NEW c \in Calls,
           NEW r \in Outcomes, r.how \in {"resolved", "rejected"},
           pc' = [pc EXCEPT ![c] = "done"],
           result' = [result EXCEPT ![c] = r],
           \A d \in Calls \ {c} : ctrl'[d] = ctrl[d]
    PROVE  CtrlAfterIssue' /\ SettledIffDone'
BY DEF CtrlAfterIssue, SettledIffDone

\* A call moving on without settling keeps them too; it only reaches
\* securing from idle, with no signal yet.
LEMMA MoveLInv ==
    ASSUME pc \in [Calls -> Phases], CtrlAfterIssue, SettledIffDone,
           NEW c \in Calls, pc[c] # "done",
           NEW p \in {"securing", "fetching", "parsing"},
           pc' = [pc EXCEPT ![c] = p],
           result' = result,
           \A d \in Calls \ {c} : ctrl'[d] = ctrl[d],
           p = "securing" => pc[c] = "idle" /\ ctrl'[c] = ctrl[c]
    PROVE  CtrlAfterIssue' /\ SettledIffDone'
BY DEF CtrlAfterIssue, SettledIffDone

\* Every step of HttpClient keeps the new conjuncts and is a step or a
\* stutter of RequestLifecycle under the mapping.
LEMMA NextLifecycle ==
    ASSUME LInv, [Next]_vars
    PROVE  /\ CtrlAfterIssue' /\ SettledIffDone'
           /\ [Lifecycle!LNext]_(Lifecycle!lvars)
<1>0. /\ IInv /\ TypeOK /\ CtrlAfterIssue /\ SettledIffDone
      /\ IInv' /\ TypeOK'
  BY NextIInv DEF LInv, IInv
<1>. DEFINE Goal == /\ CtrlAfterIssue' /\ SettledIffDone'
                    /\ [Lifecycle!LNext]_(Lifecycle!lvars)
<1>. USE DEF Goal
\* The lifecycle steps, as disjuncts of LNext.
<1>a. ASSUME NEW c \in Calls, Lifecycle!Start(c) PROVE Lifecycle!LNext
  BY <1>a DEF Lifecycle!LNext
<1>b. ASSUME NEW c \in Calls, Lifecycle!Settle(c) PROVE Lifecycle!LNext
  BY <1>b DEF Lifecycle!LNext
\* Shared by the actions that only settle c and touch no signal.
<1>s. ASSUME NEW c \in Calls, pc[c] \in InFlight,
             NEW r \in Outcomes, r.how \in {"resolved", "rejected"},
             pc' = [pc EXCEPT ![c] = "done"],
             result' = [result EXCEPT ![c] = r],
             UNCHANGED <<ctrl, aborted>>
      PROVE  Goal
  <2>1. LCancelled' = LCancelled
    BY <1>s DEF LCancelled
  <2>2. pc[c] # "done"
    BY <1>s DEF InFlight
  <2>3. /\ pc \in [Calls -> Phases] /\ result \in [Calls -> Outcomes]
        /\ CtrlAfterIssue /\ SettledIffDone
    BY <1>0 DEF TypeOK
  <2>4. /\ pc' = [pc EXCEPT ![c] = "done"]
        /\ result' = [result EXCEPT ![c] = r]
        /\ r.how \in {"resolved", "rejected"}
        /\ UNCHANGED ctrl
    BY <1>s
  <2>5. CtrlAfterIssue' /\ SettledIffDone'
    BY <2>3, <2>4 DEF CtrlAfterIssue, SettledIffDone
  <2>6. Lifecycle!Settle(c)
    <3>1. LPhase[c] # "settled" /\ LPhase' = [LPhase EXCEPT ![c] = "settled"]
      BY <2>2, <2>3, <2>4 DEF LPhase, Phases
    <3>2. [x \in Calls |-> result'[x].how]
            = [[x \in Calls |-> result[x].how] EXCEPT ![c] = r.how]
      BY <2>3, <2>4
    <3>. QED
      BY <2>1, <2>4, <3>1, <3>2 DEF Lifecycle!Settle, Lifecycle!Verdicts
  <2>. QED
    BY <1>b, <2>5, <2>6
\* Shared by the two actions that run Issue.
<1>i. ASSUME NEW c \in Calls, pc[c] \in {"idle", "securing"},
             NEW a \in AllArgs, Issue(c, a), UNCHANGED aborted
      PROVE  Goal
  <2>1. /\ \/ /\ pc' = [pc EXCEPT ![c] = "done"]
              /\ result' = [result EXCEPT ![c] = Thrown("encodeError")]
           \/ /\ pc' = [pc EXCEPT ![c] = "fetching"]
              /\ result' = result
        /\ \A d \in Calls \ {c} : ctrl'[d] = ctrl[d]
        /\ ctrl'[c] \in Ctrls \ aborted
        /\ ctrl[c] = None
    BY <1>0, <1>i, IssueSignal
  <2>2. LCancelled' = LCancelled
    <3>1. None \notin aborted
      BY <1>0, HttpClientAssumption DEF TypeOK
    <3>. QED
      BY <1>0, <1>i, <2>1, <3>1, SameCancelled DEF TypeOK
  <2>3. CASE pc' = [pc EXCEPT ![c] = "done"]
             /\ result' = [result EXCEPT ![c] = Thrown("encodeError")]
    <3>1. /\ Thrown("encodeError").how \in {"resolved", "rejected"}
          /\ Thrown("encodeError") \in Outcomes
      BY OutcomeShape DEF Thrown
    <3>2. pc[c] # "done"
      BY <1>i
    <3>3. CtrlAfterIssue' /\ SettledIffDone'
      BY <1>0, <2>1, <2>3, <3>1, SettleLInv DEF TypeOK
    <3>4. Lifecycle!Settle(c)
      BY <1>0, <2>2, <2>3, <3>1, <3>2, MapSettle DEF TypeOK
    <3>. QED
      BY <1>b, <3>3, <3>4
  <2>4. CASE pc' = [pc EXCEPT ![c] = "fetching"] /\ result' = result
    <3>1. CtrlAfterIssue' /\ SettledIffDone'
      BY <1>0, <1>i, <2>1, <2>4, MoveLInv DEF TypeOK
    <3>2. CASE pc[c] = "idle"
      <4>1. Lifecycle!Start(c)
        BY <1>0, <2>2, <2>4, <3>2, MapStart DEF TypeOK
      <4>. QED
        BY <1>a, <3>1, <4>1
    <3>3. CASE pc[c] = "securing"
      <4>1. UNCHANGED Lifecycle!lvars
        BY <1>0, <2>2, <2>4, <3>3, MapStutter DEF TypeOK
      <4>. QED
        BY <3>1, <4>1
    <3>. QED
      BY <1>i, <3>2, <3>3
  <2>. QED
    BY <2>1, <2>3, <2>4
<1>1. ASSUME NEW c \in Calls, Request(c) PROVE Goal
  <2>1. PICK a \in AllArgs :
            /\ arg' = [arg EXCEPT ![c] = a]
            /\ IF UsesWorker(a)
                 THEN /\ pc' = [pc EXCEPT ![c] = "securing"]
                      /\ cred' = [cred EXCEPT ![c] = securityData]
                      /\ UNCHANGED <<abortControllers, ctrl, result>>
                 ELSE /\ Issue(c, a)
                      /\ UNCHANGED cred
    BY <1>1 DEF Request
  <2>2. pc[c] = "idle" /\ UNCHANGED aborted
    BY <1>1 DEF Request
  <2>3. CASE UsesWorker(a)
    <3>1. pc' = [pc EXCEPT ![c] = "securing"] /\ UNCHANGED <<ctrl, result>>
      BY <2>1, <2>3
    <3>2. LCancelled' = LCancelled
      BY <2>2, <3>1 DEF LCancelled
    <3>3. CtrlAfterIssue' /\ SettledIffDone'
      BY <1>0, <2>2, <3>1, MoveLInv DEF TypeOK
    <3>4. Lifecycle!Start(c)
      BY <1>0, <2>2, <3>1, <3>2, MapStart DEF TypeOK
    <3>. QED
      BY <1>a, <3>3, <3>4
  <2>4. CASE ~UsesWorker(a)
    BY <1>i, <2>1, <2>2, <2>4
  <2>. QED
    BY <2>3, <2>4
<1>2. ASSUME NEW c \in Calls, SecurityWorkerResolve(c) PROVE Goal
  <2>1. arg[c] \in AllArgs
    BY <1>0, <1>2 DEF SecurityWorkerResolve, IInv, StartedHaveArgs
  <2>. QED
    BY <1>2, <1>i, <2>1 DEF SecurityWorkerResolve
<1>3. ASSUME NEW c \in Calls, SecurityWorkerReject(c) PROVE Goal
  <2>1. /\ pc[c] \in InFlight
        /\ pc' = [pc EXCEPT ![c] = "done"]
        /\ result' = [result EXCEPT ![c] = Thrown("composeError")]
        /\ UNCHANGED <<ctrl, aborted>>
    BY <1>3 DEF SecurityWorkerReject, Finish, InFlight
  <2>2. /\ Thrown("composeError").how \in {"resolved", "rejected"}
        /\ Thrown("composeError") \in Outcomes
    BY OutcomeShape DEF Thrown
  <2>. QED
    BY <2>1, <2>2, <1>s
<1>4. ASSUME NEW c \in Calls, NEW o \in BOOLEAN, FetchResolve(c, o)
      PROVE Goal
  <2>1. CASE ResponseFormat(arg[c]) # None
    <3>1. /\ pc' = [pc EXCEPT ![c] = "parsing"] /\ pc[c] = "fetching"
          /\ UNCHANGED <<ctrl, aborted, result>>
      BY <1>4, <2>1 DEF FetchResolve
    <3>2. LCancelled' = LCancelled
      BY <3>1 DEF LCancelled
    <3>3. CtrlAfterIssue' /\ SettledIffDone'
      BY <1>0, <3>1, MoveLInv DEF TypeOK
    <3>4. UNCHANGED Lifecycle!lvars
      BY <1>0, <3>1, <3>2, MapStutter DEF TypeOK
    <3>. QED
      BY <3>3, <3>4
  <2>2. CASE ResponseFormat(arg[c]) = None
    <3>1. /\ pc[c] \in InFlight
          /\ pc' = [pc EXCEPT ![c] = "done"]
          /\ result' = [result EXCEPT ![c] = Envelope(o, None, None)]
          /\ UNCHANGED <<ctrl, aborted>>
      BY <1>4, <2>2 DEF FetchResolve, Finish, InFlight
    <3>2. /\ Envelope(o, None, None).how \in {"resolved", "rejected"}
          /\ Envelope(o, None, None) \in Outcomes
      BY OutcomeShape DEF Envelope
    <3>. QED
      BY <3>1, <3>2, <1>s
  <2>. QED
    BY <2>1, <2>2
<1>5. ASSUME NEW c \in Calls, FetchReject(c) PROVE Goal
  <2>1. /\ pc[c] \in InFlight
        /\ pc' = [pc EXCEPT ![c] = "done"]
        /\ result' = [result EXCEPT ![c] = Thrown("networkError")]
        /\ UNCHANGED <<ctrl, aborted>>
    BY <1>5 DEF FetchReject, Finish, InFlight
  <2>2. /\ (Thrown("networkError")).how \in {"resolved", "rejected"}
        /\ Thrown("networkError") \in Outcomes
    BY OutcomeShape DEF Thrown
  <2>. QED
    BY <2>1, <2>2, <1>s
<1>6. ASSUME NEW c \in Calls, FetchAbort(c) PROVE Goal
  <2>1. /\ pc[c] \in InFlight
        /\ pc' = [pc EXCEPT ![c] = "done"]
        /\ result' = [result EXCEPT ![c] = Thrown("abortError")]
        /\ UNCHANGED <<ctrl, aborted>>
    BY <1>6 DEF FetchAbort, Finish, InFlight
  <2>2. /\ (Thrown("abortError")).how \in {"resolved", "rejected"}
        /\ Thrown("abortError") \in Outcomes
    BY OutcomeShape DEF Thrown
  <2>. QED
    BY <2>1, <2>2, <1>s
<1>7. ASSUME NEW c \in Calls, ParseResolve(c) PROVE Goal
  <2>1. PICK r \in Outcomes :
            /\ r.how \in {"resolved", "rejected"}
            /\ pc[c] \in InFlight
            /\ pc' = [pc EXCEPT ![c] = "done"]
            /\ result' = [result EXCEPT ![c] = r]
            /\ UNCHANGED <<ctrl, aborted>>
    <3>1. /\ Envelope(TRUE, "body", None) \in Outcomes
          /\ Envelope(FALSE, None, "body") \in Outcomes
      BY OutcomeShape
    <3>. QED
      BY <1>7, <3>1 DEF ParseResolve, Finish, InFlight, Envelope
  <2>. QED
    BY <2>1, <1>s
<1>8. ASSUME NEW c \in Calls, ParseReject(c) PROVE Goal
  <2>1. PICK r \in Outcomes :
            /\ r.how \in {"resolved", "rejected"}
            /\ pc[c] \in InFlight
            /\ pc' = [pc EXCEPT ![c] = "done"]
            /\ result' = [result EXCEPT ![c] = r]
            /\ UNCHANGED <<ctrl, aborted>>
    <3>1. /\ Envelope(status[c], None, "abortError") \in Outcomes
          /\ Envelope(status[c], None, "parseError") \in Outcomes
      BY OutcomeShape
    <3>. QED
      BY <1>8, <3>1 DEF ParseReject, Finish, InFlight, Envelope
  <2>. QED
    BY <2>1, <1>s
<1>9. ASSUME NEW t \in Tokens, AbortRequest(t) PROVE Goal
  <2>1. /\ aborted' = IF abortControllers[t] # None
                        THEN aborted \cup {abortControllers[t]} ELSE aborted
        /\ UNCHANGED <<pc, ctrl, result>>
    BY <1>9 DEF AbortRequest
  <2>2. CtrlAfterIssue' /\ SettledIffDone'
    BY <1>0, <2>1 DEF CtrlAfterIssue, SettledIffDone
  \* A call newly cancelled sent the controller just aborted, so it has
  \* run to fetch.
  <2>3. ASSUME NEW c \in Calls, c \in LCancelled', c \notin LCancelled
        PROVE  LPhase[c] # "idle"
    <3>1. ctrl[c] = abortControllers[t] /\ abortControllers[t] # None
      BY <2>1, <2>3 DEF LCancelled
    <3>2. pc[c] \notin {"idle", "securing"}
      BY <1>0, <3>1 DEF CtrlAfterIssue
    <3>. QED
      BY <3>2 DEF LPhase
  <2>4. Lifecycle!Cancel
    <3>1. LCancelled \subseteq LCancelled' /\ LCancelled' \subseteq Calls
      BY <2>1 DEF LCancelled
    <3>2. LPhase' = LPhase /\ [c \in Calls |-> result'[c].how]
                               = [c \in Calls |-> result[c].how]
      BY <2>1 DEF LPhase
    <3>. QED
      BY <2>3, <3>1, <3>2 DEF Lifecycle!Cancel
  <2>. QED
    BY <2>2, <2>4 DEF Lifecycle!LNext
<1>10. ASSUME NEW v \in SecValues, SetSecurityData(v) PROVE Goal
  <2>1. UNCHANGED <<pc, ctrl, aborted, result>>
    BY <1>10 DEF SetSecurityData
  <2>. QED
    BY <1>0, <2>1 DEF CtrlAfterIssue, SettledIffDone, Lifecycle!lvars,
                      LPhase, LCancelled
<1>11. CASE UNCHANGED vars
  BY <1>0, <1>11 DEF vars, CtrlAfterIssue, SettledIffDone, Lifecycle!lvars,
                     LPhase, LCancelled
<1>. QED
  BY <1>1, <1>2, <1>3, <1>4, <1>5, <1>6, <1>7, <1>8, <1>9, <1>10, <1>11
  DEF Next

-----------------------------------------------------------------------------

\* LInv holds in every reachable state.
LEMMA LInvalways == Spec => []LInv
<1>1. LInv /\ [Next]_vars => LInv'
  BY NextIInv, NextLifecycle DEF LInv
<1>. QED
  BY InitLInv, <1>1, PTL DEF Spec

\* request (spec 4.5, 5): every behaviour of HttpClient is, under the
\* refinement mapping, a behaviour of RequestLifecycle's safety part: a
\* call settles at most once and its verdict never changes, it is never
\* already cancelled when it starts, and only started calls are cancelled,
\* for any number of calls and tokens.
THEOREM ImplementsLifecycleSafety == Spec => Lifecycle!LSafeSpec
<1>1. Init => Lifecycle!LInit
  BY InitLInv
<1>2. LInv /\ [Next]_vars => [Lifecycle!LNext]_(Lifecycle!lvars)
  BY NextLifecycle
<1>. QED
  BY <1>1, <1>2, LInvalways, PTL DEF Spec, Lifecycle!LSafeSpec

====
