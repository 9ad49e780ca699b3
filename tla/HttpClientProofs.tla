-------------------------- MODULE HttpClientProofs --------------------------
(***************************************************************************)
(* Proofs about HttpClient for every value of its constants: the type     *)
(* invariant, and that abortControllers never holds an aborted controller *)
(* (RegisteredSignalLive).  Both follow from the inductive invariant IInv  *)
(* of HttpClient.                                                          *)
(***************************************************************************)
EXTENDS HttpClient, TLAPS

\* What a request argument holds, whichever wrapper built it.
LEMMA ArgShape ==
    ASSUME NEW a \in AllArgs
    PROVE  /\ a.cancelToken \in Tokens \cup {Unset}
           /\ a.query \in Payloads \cup {None}
           /\ a.body \in Payloads \cup {None}
<1>1. PICK d \in Descriptors : a \in Args(d)
  BY DEF AllArgs
<1>2. QED
  BY <1>1 DEF Args

\* The outcomes the actions settle a call with are outcomes.
LEMMA OutcomeShape ==
    /\ Pending \in Outcomes
    /\ \A e \in {"composeError", "encodeError", "networkError", "abortError"} :
          Thrown(e) \in Outcomes
    /\ \A ok : \A d \in {None, "body"},
                  e \in {None, "body", "parseError", "abortError"} :
          Envelope(ok, d, e) \in Outcomes
  BY DEF Pending, Thrown, Envelope, Outcomes

LEMMA InitIInv == Init => IInv
  BY HttpClientAssumption
  DEF Init, IInv, TypeOK, StartedHaveArgs, RegisteredByOwner,
      AbortedWereIssued, RegisteredSignalLive, Pending, Outcomes, Ctrls,
      Phases

\* The synchronous run to fetch keeps IInv, whether it is reached from
\* request() directly or after the securityWorker.
LEMMA IssueIInv ==
    ASSUME IInv,
           NEW c \in Calls, pc[c] \in {"idle", "securing"},
           NEW a \in AllArgs,
           Issue(c, a),
           arg' = [arg EXCEPT ![c] = a],
           cred' \in [Calls -> SecValues],
           UNCHANGED <<aborted, securityData, status, abortAsked>>
    PROVE  IInv'
<1>. USE DEF IInv, TypeOK
<1>1. a.cancelToken \in Tokens \cup {Unset}
  BY ArgShape
<1>2. PICK p \in {"done", "fetching"} : pc' = [pc EXCEPT ![c] = p]
  BY DEF Issue, Finish
<1>3. result' \in [Calls -> Outcomes]
  BY OutcomeShape DEF Issue, Finish
<1>4. \/ UNCHANGED <<abortControllers, ctrl>>
      \/ /\ HasToken(a)
         /\ abortControllers' = [abortControllers EXCEPT
                                   ![a.cancelToken] =
                                       CreateAbortSignal(a.cancelToken, c)]
         /\ ctrl' = [ctrl EXCEPT ![c] = CreateAbortSignal(a.cancelToken, c)]
  BY DEF Issue
\* c itself is neither registered nor aborted yet.
<1>5. /\ \A t \in Tokens : abortControllers[t] # c
      /\ c \notin aborted
  BY HttpClientAssumption DEF RegisteredByOwner, AbortedWereIssued
<1>6. StartedHaveArgs'
  BY <1>2 DEF StartedHaveArgs
<1>7. CASE UNCHANGED <<abortControllers, ctrl>>
  <2>1. TypeOK'
    BY <1>2, <1>3, <1>7 DEF Phases
  <2>2. RegisteredByOwner'
    BY <1>2, <1>5, <1>7 DEF RegisteredByOwner
  <2>3. AbortedWereIssued'
    BY <1>2, <1>5 DEF AbortedWereIssued
  <2>4. RegisteredSignalLive'
    BY <1>7 DEF RegisteredSignalLive
  <2>. QED
    BY <1>6, <2>1, <2>2, <2>3, <2>4
<1>8. CASE /\ HasToken(a)
           /\ abortControllers' = [abortControllers EXCEPT
                                     ![a.cancelToken] =
                                         CreateAbortSignal(a.cancelToken, c)]
           /\ ctrl' = [ctrl EXCEPT ![c] = CreateAbortSignal(a.cancelToken, c)]
  <2>. DEFINE t == a.cancelToken
              k == CreateAbortSignal(t, c)
  <2>1. t \in Tokens
    BY <1>1, <1>8 DEF HasToken
  \* The controller sent is the registered one, or c's own fresh one.
  <2>2. /\ k \in Calls
        /\ k \notin aborted
        /\ k # c => pc[k] \notin {"idle", "securing"} /\ arg[k].cancelToken = t
    BY <2>1, <1>5, HttpClientAssumption
    DEF CreateAbortSignal, Ctrls, RegisteredByOwner, RegisteredSignalLive
  <2>3. TypeOK'
    BY <1>2, <1>3, <1>8, <2>1, <2>2 DEF Phases, Ctrls
  <2>4. RegisteredByOwner'
    <3> SUFFICES ASSUME NEW u \in Tokens, abortControllers'[u] # None
                 PROVE  /\ pc'[abortControllers'[u]] \notin {"idle", "securing"}
                        /\ arg'[abortControllers'[u]].cancelToken = u
      BY DEF RegisteredByOwner
    <3>1. CASE u = t
      BY <3>1, <1>2, <1>8, <2>1, <2>2
    <3>2. CASE u # t
      BY <3>2, <1>2, <1>5, <1>8 DEF RegisteredByOwner
    <3>. QED
      BY <3>1, <3>2
  <2>5. AbortedWereIssued'
    BY <1>2, <1>5 DEF AbortedWereIssued
  <2>6. RegisteredSignalLive'
    BY <1>8, <2>1, <2>2 DEF RegisteredSignalLive
  <2>. QED
    BY <1>6, <2>3, <2>4, <2>5, <2>6
<1>. QED
  BY <1>4, <1>7, <1>8

\* Cleanup(c) only ever removes an entry.
LEMMA CleanupShrinks ==
    ASSUME TypeOK, NEW c \in Calls, arg[c] \in AllArgs, Cleanup(c)
    PROVE  /\ abortControllers' \in [Tokens -> Ctrls]
           /\ \A t \in Tokens : abortControllers'[t] \in {None, abortControllers[t]}
<1>1. arg[c].cancelToken \in Tokens \cup {Unset}
  BY ArgShape
<1>. QED
  BY <1>1, HttpClientAssumption DEF Cleanup, HasToken, TypeOK, Ctrls

\* A step that moves a started call on to parsing or done, settles or
\* records its response, and at most removes entries of the registry.
LEMMA ProgressIInv ==
    ASSUME IInv,
           NEW c \in Calls, pc[c] \in InFlight,
           NEW p \in {"parsing", "done"},
           pc' = [pc EXCEPT ![c] = p],
           result' \in [Calls -> Outcomes],
           status' \in [Calls -> BOOLEAN \cup {None}],
           abortControllers' \in [Tokens -> Ctrls],
           \A t \in Tokens : abortControllers'[t] \in {None, abortControllers[t]},
           UNCHANGED <<aborted, securityData, arg, ctrl, cred, abortAsked>>
    PROVE  IInv'
<1>. USE DEF IInv, TypeOK
<1>1. TypeOK'
  BY DEF Phases, InFlight
<1>2. StartedHaveArgs'
  BY DEF StartedHaveArgs, InFlight
<1>3. RegisteredByOwner'
  BY DEF RegisteredByOwner
<1>4. AbortedWereIssued'
  BY DEF AbortedWereIssued
<1>5. RegisteredSignalLive'
  BY DEF RegisteredSignalLive
<1>. QED
  BY <1>1, <1>2, <1>3, <1>4, <1>5

LEMMA NextIInv == IInv /\ [Next]_vars => IInv'
<1> SUFFICES ASSUME IInv, [Next]_vars PROVE IInv'
  OBVIOUS
<1>0. TypeOK
  BY DEF IInv
<1>1. ASSUME NEW c \in Calls, Request(c) PROVE IInv'
  <2>1. PICK a \in AllArgs :
            /\ arg' = [arg EXCEPT ![c] = a]
            /\ IF UsesWorker(a)
                 THEN /\ pc' = [pc EXCEPT ![c] = "securing"]
                      /\ cred' = [cred EXCEPT ![c] = securityData]
                      /\ UNCHANGED <<abortControllers, ctrl, result>>
                 ELSE /\ Issue(c, a)
                      /\ UNCHANGED cred
    BY <1>1 DEF Request
  <2>2. UNCHANGED <<aborted, securityData, status, abortAsked>>
    BY <1>1 DEF Request
  <2>3. pc[c] = "idle"
    BY <1>1 DEF Request
  <2>4. CASE UsesWorker(a)
    <3>1. /\ pc' = [pc EXCEPT ![c] = "securing"]
          /\ cred' = [cred EXCEPT ![c] = securityData]
          /\ UNCHANGED <<abortControllers, ctrl, result>>
      BY <2>1, <2>4
    <3>2. /\ \A t \in Tokens : abortControllers[t] # c
          /\ c \notin aborted
      BY <2>3, HttpClientAssumption
      DEF IInv, RegisteredByOwner, AbortedWereIssued
    <3>3. TypeOK'
      BY <1>0, <2>1, <2>2, <3>1 DEF TypeOK, Phases
    <3>4. StartedHaveArgs'
      BY <1>0, <2>1, <3>1 DEF IInv, StartedHaveArgs, TypeOK
    <3>5. RegisteredByOwner'
      BY <2>1, <3>1, <3>2 DEF IInv, RegisteredByOwner
    <3>6. AbortedWereIssued'
      BY <2>2, <3>1, <3>2 DEF IInv, AbortedWereIssued
    <3>7. RegisteredSignalLive'
      BY <2>2, <3>1 DEF IInv, RegisteredSignalLive
    <3>. QED
      BY <3>3, <3>4, <3>5, <3>6, <3>7 DEF IInv
  <2>5. CASE ~UsesWorker(a)
    BY <2>1, <2>2, <2>3, <2>5, <1>0, IssueIInv DEF TypeOK
  <2>. QED
    BY <2>4, <2>5
<1>2. ASSUME NEW c \in Calls, SecurityWorkerResolve(c) PROVE IInv'
  <2>1. arg[c] \in AllArgs
    BY <1>2 DEF SecurityWorkerResolve, IInv, StartedHaveArgs
  <2>2. arg' = [arg EXCEPT ![c] = arg[c]]
    BY <1>0, <1>2 DEF SecurityWorkerResolve, TypeOK
  <2>. QED
    BY <1>0, <1>2, <2>1, <2>2, IssueIInv DEF SecurityWorkerResolve, TypeOK
<1>3. ASSUME NEW c \in Calls, SecurityWorkerReject(c) PROVE IInv'
  BY <1>0, <1>3, OutcomeShape, ProgressIInv
  DEF SecurityWorkerReject, Finish, TypeOK, InFlight
<1>4. ASSUME NEW c \in Calls, NEW o \in BOOLEAN, FetchResolve(c, o)
      PROVE IInv'
  <2>1. arg[c] \in AllArgs
    BY <1>4 DEF FetchResolve, IInv, StartedHaveArgs
  <2>2. status' \in [Calls -> BOOLEAN \cup {None}]
    BY <1>0, <1>4 DEF FetchResolve, TypeOK
  <2>3. CASE ResponseFormat(arg[c]) # None
    BY <1>0, <1>4, <2>2, <2>3, ProgressIInv DEF FetchResolve, TypeOK, InFlight
  <2>4. CASE ResponseFormat(arg[c]) = None
    <3>1. /\ pc' = [pc EXCEPT ![c] = "done"]
          /\ result' = [result EXCEPT ![c] = Envelope(o, None, None)]
          /\ Cleanup(c)
      BY <1>4, <2>4 DEF FetchResolve, Finish
    <3>2. result' \in [Calls -> Outcomes]
      BY <1>0, <3>1, OutcomeShape DEF TypeOK
    <3>3. /\ abortControllers' \in [Tokens -> Ctrls]
          /\ \A t \in Tokens : abortControllers'[t] \in {None, abortControllers[t]}
      BY <1>0, <2>1, <3>1, CleanupShrinks
    <3>. QED
      BY <1>4, <2>2, <3>1, <3>2, <3>3, ProgressIInv DEF FetchResolve, InFlight
  <2>. QED
    BY <2>3, <2>4
<1>5. ASSUME NEW c \in Calls, FetchReject(c) PROVE IInv'
  BY <1>0, <1>5, OutcomeShape, ProgressIInv
  DEF FetchReject, Finish, TypeOK, InFlight
<1>6. ASSUME NEW c \in Calls, FetchAbort(c) PROVE IInv'
  BY <1>0, <1>6, OutcomeShape, ProgressIInv
  DEF FetchAbort, Finish, TypeOK, InFlight
<1>7. ASSUME NEW c \in Calls, ParseResolve(c) PROVE IInv'
  <2>1. arg[c] \in AllArgs
    BY <1>7 DEF ParseResolve, IInv, StartedHaveArgs
  <2>2. /\ pc' = [pc EXCEPT ![c] = "done"]
        /\ result' = [result EXCEPT ![c] = IF status[c] THEN Envelope(TRUE, "body", None)
                                         ELSE Envelope(FALSE, None, "body")]
        /\ Cleanup(c)
    BY <1>7 DEF ParseResolve, Finish
  <2>3. result' \in [Calls -> Outcomes]
    BY <1>0, <2>2, OutcomeShape DEF TypeOK
  <2>4. /\ abortControllers' \in [Tokens -> Ctrls]
        /\ \A t \in Tokens : abortControllers'[t] \in {None, abortControllers[t]}
    BY <1>0, <2>1, <2>2, CleanupShrinks
  <2>. QED
    BY <1>0, <1>7, <2>2, <2>3, <2>4, ProgressIInv DEF ParseResolve, TypeOK, InFlight
<1>8. ASSUME NEW c \in Calls, ParseReject(c) PROVE IInv'
  <2>1. arg[c] \in AllArgs
    BY <1>8 DEF ParseReject, IInv, StartedHaveArgs
  <2>2. /\ pc' = [pc EXCEPT ![c] = "done"]
        /\ result' = [result EXCEPT ![c] = Envelope(status[c], None,
                                         IF ctrl[c] \in aborted THEN "abortError"
                                                                ELSE "parseError")]
        /\ Cleanup(c)
    BY <1>8 DEF ParseReject, Finish
  <2>3. result' \in [Calls -> Outcomes]
    BY <1>0, <2>2, OutcomeShape DEF TypeOK
  <2>4. /\ abortControllers' \in [Tokens -> Ctrls]
        /\ \A t \in Tokens : abortControllers'[t] \in {None, abortControllers[t]}
    BY <1>0, <2>1, <2>2, CleanupShrinks
  <2>. QED
    BY <1>0, <1>8, <2>2, <2>3, <2>4, ProgressIInv DEF ParseReject, TypeOK, InFlight
<1>9. ASSUME NEW t \in Tokens, AbortRequest(t) PROVE IInv'
  <2>1. /\ abortControllers' = [abortControllers EXCEPT ![t] = None]
        /\ aborted' = IF abortControllers[t] # None
                        THEN aborted \cup {abortControllers[t]} ELSE aborted
        /\ abortAsked' \subseteq Calls
        /\ UNCHANGED <<securityData, pc, arg, ctrl, cred, status, result>>
    BY <1>0, <1>9 DEF AbortRequest, TypeOK
  <2>2. TypeOK'
    <3>1. abortControllers[t] # None => abortControllers[t] \in Calls
      BY <1>0 DEF TypeOK, Ctrls
    <3>2. aborted' \subseteq Calls
      BY <1>0, <2>1, <3>1 DEF TypeOK
    <3>3. abortControllers' \in [Tokens -> Ctrls]
      BY <1>0, <2>1 DEF TypeOK, Ctrls
    <3>. QED
      BY <1>0, <2>1, <3>2, <3>3 DEF TypeOK
  <2>3. StartedHaveArgs'
    BY <2>1 DEF IInv, StartedHaveArgs
  <2>4. RegisteredByOwner'
    BY <1>0, <2>1 DEF IInv, RegisteredByOwner, TypeOK
  <2>5. AbortedWereIssued'
    BY <2>1 DEF IInv, AbortedWereIssued, RegisteredByOwner
  \* Another token cannot map to the controller just aborted: it is
  \* registered only under its owner's token, which is t.
  <2>6. RegisteredSignalLive'
    <3> SUFFICES ASSUME NEW u \in Tokens, abortControllers'[u] # None
                 PROVE  abortControllers'[u] \notin aborted'
      BY DEF RegisteredSignalLive
    <3>1. u # t /\ abortControllers'[u] = abortControllers[u]
      BY <1>0, <2>1 DEF TypeOK
    <3>2. abortControllers[u] # abortControllers[t]
      BY <3>1 DEF IInv, RegisteredByOwner
    <3>. QED
      BY <2>1, <3>1, <3>2 DEF IInv, RegisteredSignalLive
  <2>. QED
    BY <2>2, <2>3, <2>4, <2>5, <2>6 DEF IInv
<1>10. ASSUME NEW v \in SecValues, SetSecurityData(v) PROVE IInv'
  BY <1>10 DEF SetSecurityData, IInv, TypeOK, StartedHaveArgs,
               RegisteredByOwner, AbortedWereIssued, RegisteredSignalLive
<1>11. CASE UNCHANGED vars
  BY <1>11 DEF vars, IInv, TypeOK, StartedHaveArgs, RegisteredByOwner,
               AbortedWereIssued, RegisteredSignalLive
<1>. QED
  BY <1>1, <1>2, <1>3, <1>4, <1>5, <1>6, <1>7, <1>8, <1>9, <1>10, <1>11
  DEF Next

-----------------------------------------------------------------------------

\* The type invariant holds in every reachable state of the client.
THEOREM TypeCorrect == Spec => []TypeOK
<1>1. IInv => TypeOK
  BY DEF IInv
<1>. QED
  BY InitIInv, NextIInv, <1>1, PTL DEF Spec

\* createAbortSignal and abortRequest never leave an aborted controller in
\* abortControllers: a request that reuses a token never inherits a
\* signal that was already aborted, for any number of calls and tokens.
THEOREM RegistryHoldsLiveSignals == Spec => []RegisteredSignalLive
<1>1. IInv => RegisteredSignalLive
  BY DEF IInv
<1>. QED
  BY InitIInv, NextIInv, <1>1, PTL DEF Spec

\* IInv, the invariant the run registry_envelope checks alongside the
\* registry property, holds in every reachable state of the client.
THEOREM RegistryInvariant == Spec => []IInv
  BY InitIInv, NextIInv, PTL DEF Spec

(***************************************************************************)
(* The registry step.  Only the run to fetch can give a token an entry,   *)
(* and createAbortSignal reuses a registered controller, so an entry that *)
(* changes to a controller was empty and now holds the fresh controller   *)
(* of the issuing call, which nothing has aborted.  Every other step only *)
(* deletes entries.                                                        *)
(***************************************************************************)

\* The run to fetch changes an entry only from none to c's own controller.
LEMMA IssueRegistry ==
    ASSUME IInv,
           NEW c \in Calls, pc[c] \in {"idle", "securing"},
           NEW a \in AllArgs, Issue(c, a), UNCHANGED aborted,
           NEW t \in Tokens,
           abortControllers'[t] # abortControllers[t]
    PROVE  /\ abortControllers[t] = None
           /\ abortControllers'[t] = c
<1>. USE DEF IInv, TypeOK
<1>1. /\ HasToken(a)
      /\ abortControllers' = [abortControllers EXCEPT
                                ![a.cancelToken] =
                                    CreateAbortSignal(a.cancelToken, c)]
  BY DEF Issue
<1>2. t = a.cancelToken
  BY <1>1
<1>. QED
  BY <1>1, <1>2 DEF CreateAbortSignal

\* A step that changes a token's entry to a controller registers the fresh,
\* unaborted controller of a call that had not yet issued, where there was
\* none.
LEMMA RegistryStepOK ==
    ASSUME IInv, [Next]_vars,
           NEW t \in Tokens,
           abortControllers'[t] # abortControllers[t],
           abortControllers'[t] # None
    PROVE  /\ abortControllers[t] = None
           /\ pc[abortControllers'[t]] \in {"idle", "securing"}
           /\ abortControllers'[t] \notin aborted'
<1>. USE DEF IInv, TypeOK
\* Steps that at most delete entries cannot change one to a controller.
<1>1. SUFFICES ASSUME NEW c \in Calls, pc[c] \in {"idle", "securing"},
                      NEW a \in AllArgs, Issue(c, a), UNCHANGED aborted
               PROVE  /\ abortControllers[t] = None
                      /\ pc[abortControllers'[t]] \in {"idle", "securing"}
                      /\ abortControllers'[t] \notin aborted'
  <2>1. ASSUME NEW c \in Calls, Request(c), ~\E a \in AllArgs : Issue(c, a)
        PROVE  FALSE
    BY <2>1 DEF Request
  <2>2. ASSUME NEW c \in Calls,
               \/ SecurityWorkerReject(c) \/ FetchReject(c) \/ FetchAbort(c)
               \/ \E o \in BOOLEAN : FetchResolve(c, o)
               \/ ParseResolve(c) \/ ParseReject(c)
        PROVE  FALSE
    <3>1. CASE ResponseFormat(arg[c]) = None /\ \E o \in BOOLEAN : FetchResolve(c, o)
      BY <3>1, CleanupShrinks DEF FetchResolve, Finish, StartedHaveArgs
    <3>2. CASE ParseResolve(c) \/ ParseReject(c)
      BY <3>2, CleanupShrinks DEF ParseResolve, ParseReject, StartedHaveArgs
    <3>. QED
      BY <2>2, <3>1, <3>2
      DEF SecurityWorkerReject, FetchReject, FetchAbort, FetchResolve
  <2>3. ASSUME NEW u \in Tokens, AbortRequest(u) PROVE FALSE
    BY <2>3 DEF AbortRequest
  <2>4. ASSUME NEW c \in Calls, Request(c), NEW a \in AllArgs, Issue(c, a)
        PROVE  /\ pc[c] \in {"idle", "securing"} /\ UNCHANGED aborted
    BY <2>4 DEF Request
  <2>5. ASSUME NEW c \in Calls, SecurityWorkerResolve(c)
        PROVE  /\ pc[c] \in {"idle", "securing"} /\ arg[c] \in AllArgs
               /\ Issue(c, arg[c]) /\ UNCHANGED aborted
    BY <2>5 DEF SecurityWorkerResolve, StartedHaveArgs
  <2>. QED
    BY <2>1, <2>2, <2>3, <2>4, <2>5
    DEF Next, vars, SetSecurityData
<1>2. abortControllers[t] = None /\ abortControllers'[t] = c
  BY <1>1, IssueRegistry
<1>3. c \notin aborted
  BY <1>1, HttpClientAssumption DEF AbortedWereIssued
<1>. QED
  BY <1>1, <1>2, <1>3

\* createAbortSignal, abortRequest and request's cleanup never overwrite
\* a live controller: an entry changes only by deletion, or from none to
\* the fresh controller of the call issuing in that step, never aborted.
THEOREM RegistryOverwritesNothing == Spec => RegistryEntryFresh
<1>1. IInv /\ [Next]_vars =>
        [\A t \in Tokens : abortControllers'[t] # abortControllers[t] =>
           \/ abortControllers'[t] = None
           \/ /\ abortControllers[t] = None
              /\ pc[abortControllers'[t]] \in {"idle", "securing"}
              /\ abortControllers'[t] \notin aborted']_vars
  BY RegistryStepOK
<1>. QED
  BY InitIInv, NextIInv, <1>1, PTL DEF Spec, RegistryEntryFresh

====
