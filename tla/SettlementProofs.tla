------------------------- MODULE SettlementProofs --------------------------
(***************************************************************************)
(* Proofs that a settled call has unregistered its token                 *)
(* (SettledCallUnregistered) and that the envelope of a settled call      *)
(* agrees with response.ok (EnvelopeMatchesStatus), for every value of the *)
(* constants.  Neither is inductive alone; both follow from SInv of       *)
(* HttpClient, which adds to IInv that a controller a call sent belongs   *)
(* to a call that has issued (CtrlOwned), that a call with a truthy token *)
(* past fetch holds one (TokenCallsHoldCtrl), that outcomes stay Pending  *)
(* until done (PendingUntilDone) and that a call waiting on its body has  *)
(* an ok flag and a format (ParsingShape).                                 *)
(***************************************************************************)
EXTENDS HttpClientProofs

\* The envelope r of call c agrees with the ok flag s.
EnvOK(c, r, s) ==
    /\ r.how = "resolved" <=> s = TRUE
    /\ r.data = "body" => s = TRUE
    /\ IF ResponseFormat(arg[c]) # None
         THEN (r.data = None) # (r.error = None)
         ELSE r.data = None /\ r.error = None

LEMMA InitSInv == Init => SInv
<1> SUFFICES ASSUME Init PROVE SInv
  OBVIOUS
<1>1. IInv
  BY InitIInv
<1>2. CtrlOwned /\ PendingUntilDone /\ ParsingShape
  BY DEF Init, CtrlOwned, PendingUntilDone, ParsingShape
<1>3. \A c \in Calls : result[c].what # "response"
  BY HttpClientAssumption DEF Init, Pending
<1>4. TokenCallsHoldCtrl /\ SettledCallUnregistered /\ EnvelopeMatchesStatus
  BY <1>3 DEF Init, TokenCallsHoldCtrl, SettledCallUnregistered,
              EnvelopeMatchesStatus
<1>. QED
  BY <1>1, <1>2, <1>4 DEF SInv

(***************************************************************************)
(* A step that moves a call c waiting on the worker, the network or the   *)
(* body on to parsing or done, with outcome r and ok flag s, while the    *)
(* registry only loses entries.  It keeps SInv when c enters parsing only *)
(* from fetch with a flag and a format, and when c settles on a response  *)
(* only from fetch or parsing, with its token unregistered and an         *)
(* envelope that agrees with s.                                            *)
(***************************************************************************)
LEMMA SettleSInv ==
    ASSUME SInv, IInv',
           NEW c \in Calls, pc[c] \in InFlight,
           NEW p \in {"parsing", "done"}, NEW r \in Outcomes,
           NEW s \in BOOLEAN \cup {None},
           pc' = [pc EXCEPT ![c] = p],
           result' = [result EXCEPT ![c] = r],
           status' = [status EXCEPT ![c] = s],
           \A t \in Tokens : abortControllers'[t] \in {None, abortControllers[t]},
           UNCHANGED <<arg, ctrl>>,
           p = "parsing" => /\ pc[c] = "fetching"
                            /\ r = Pending
                            /\ s \in BOOLEAN
                            /\ ResponseFormat(arg[c]) # None,
           r.what = "response" =>
               /\ pc[c] \in {"fetching", "parsing"}
               /\ HasToken(arg[c]) => abortControllers'[arg[c].cancelToken] = None
               /\ EnvOK(c, r, s)
    PROVE  SInv'
<1>. USE DEF SInv, IInv, TypeOK
<1>1. CtrlOwned'
  BY DEF CtrlOwned, InFlight
<1>2. TokenCallsHoldCtrl'
  BY DEF TokenCallsHoldCtrl
<1>3. PendingUntilDone'
  BY DEF PendingUntilDone
<1>4. ParsingShape'
  BY DEF ParsingShape
<1>5. SettledCallUnregistered'
  <2> SUFFICES ASSUME NEW d \in Calls, result'[d].what = "response",
                      HasToken(arg[d])
               PROVE  abortControllers'[arg[d].cancelToken] # ctrl[d]
    BY DEF SettledCallUnregistered
  <2>0. pc[d] # "idle"
    <3>1. CASE d = c
      BY <3>1 DEF InFlight
    <3>2. CASE d # c
      BY <3>2, HttpClientAssumption DEF PendingUntilDone, Pending
    <3>. QED
      BY <3>1, <3>2
  <2>1. arg[d] \in AllArgs
    BY <2>0 DEF StartedHaveArgs
  <2>2. arg[d].cancelToken \in Tokens
    BY <2>1, ArgShape DEF HasToken
  <2>3. ctrl[d] # None
    BY HttpClientAssumption
    DEF TokenCallsHoldCtrl, PendingUntilDone, Pending, InFlight
  <2>4. CASE d = c
    BY <2>3, <2>4
  <2>5. CASE d # c
    BY <2>2, <2>3, <2>5 DEF SettledCallUnregistered
  <2>. QED
    BY <2>4, <2>5
<1>6. EnvelopeMatchesStatus'
  BY DEF EnvelopeMatchesStatus, EnvOK
<1>. QED
  BY <1>1, <1>2, <1>3, <1>4, <1>5, <1>6

(***************************************************************************)
(* The synchronous run to fetch keeps SInv.  The only registry entry it   *)
(* can set is that of the call's token, to the controller registered      *)
(* there or to a fresh one named c; no call sends c's controller yet      *)
(* (CtrlOwned), so no settled call's token comes to map to the controller *)
(* that call sent.                                                        *)
(***************************************************************************)
LEMMA IssueSInv ==
    ASSUME SInv, IInv',
           NEW c \in Calls, pc[c] \in {"idle", "securing"},
           NEW a \in AllArgs,
           Issue(c, a),
           arg' = [arg EXCEPT ![c] = a],
           UNCHANGED status
    PROVE  SInv'
<1>. USE DEF SInv, IInv, TypeOK
<1>1. a.cancelToken \in Tokens \cup {Unset}
  BY ArgShape
<1>2. \/ /\ pc' = [pc EXCEPT ![c] = "done"]
         /\ result' = [result EXCEPT ![c] = Thrown("encodeError")]
      \/ /\ pc' = [pc EXCEPT ![c] = "fetching"]
         /\ result' = result
  BY DEF Issue, Finish
<1>3. \/ UNCHANGED <<abortControllers, ctrl>>
      \/ /\ HasToken(a)
         /\ abortControllers' = [abortControllers EXCEPT
                                   ![a.cancelToken] =
                                       CreateAbortSignal(a.cancelToken, c)]
         /\ ctrl' = [ctrl EXCEPT ![c] = CreateAbortSignal(a.cancelToken, c)]
  BY DEF Issue
<1>4. pc'[c] = "fetching" /\ HasToken(a)
        => ctrl' = [ctrl EXCEPT ![c] = CreateAbortSignal(a.cancelToken, c)]
  BY DEF Issue, Finish
\* No call sends c's controller and no token maps to it yet.
<1>5. /\ \A d \in Calls : ctrl[d] # c
      /\ \A t \in Tokens : abortControllers[t] # c
  BY HttpClientAssumption DEF CtrlOwned, RegisteredByOwner
<1>6. result[c] = Pending /\ result'[c].what # "response"
  BY <1>2, HttpClientAssumption DEF PendingUntilDone, Pending, Thrown
\* The controller c ends up with, when it gets one, is a call's that has
\* issued or is issuing now.
<1>7. HasToken(a) =>
        LET k == CreateAbortSignal(a.cancelToken, c)
        IN  /\ k \in Calls
            /\ k # c => pc[k] \notin {"idle", "securing"}
            /\ abortControllers[a.cancelToken] # None => k = abortControllers[a.cancelToken]
            /\ abortControllers[a.cancelToken] = None => k = c
  BY <1>1, HttpClientAssumption DEF HasToken, CreateAbortSignal, Ctrls, RegisteredByOwner
<1>8. \A d \in Calls \ {c} : /\ pc'[d] = pc[d] /\ result'[d] = result[d]
                             /\ arg'[d] = arg[d] /\ ctrl'[d] = ctrl[d]
  BY <1>2, <1>3
<1>9. CtrlOwned'
  <2> SUFFICES ASSUME NEW d \in Calls, ctrl'[d] # None
               PROVE  pc'[ctrl'[d]] \notin {"idle", "securing"}
    BY DEF CtrlOwned
  <2>1. pc'[c] \notin {"idle", "securing"}
    BY <1>2
  <2>2. CASE ctrl'[d] = ctrl[d]
    BY <2>2, <1>2, <1>5 DEF CtrlOwned, Ctrls
  <2>3. CASE ctrl'[d] # ctrl[d]
    <3>1. d = c /\ HasToken(a) /\ ctrl'[c] = CreateAbortSignal(a.cancelToken, c)
      BY <2>3, <1>3
    <3>. QED
      BY <3>1, <1>7, <1>2, <2>1
  <2>. QED
    BY <2>2, <2>3
<1>10. TokenCallsHoldCtrl'
  <2> SUFFICES ASSUME NEW d \in Calls,
                      pc'[d] \in {"fetching", "parsing"} \/ result'[d].what = "response",
                      HasToken(arg'[d])
               PROVE  ctrl'[d] # None
    BY DEF TokenCallsHoldCtrl
  <2>1. CASE d = c
    <3>1. pc'[c] = "fetching" /\ HasToken(a)
      BY <2>1, <1>2, <1>6
    <3>2. ctrl'[c] = CreateAbortSignal(a.cancelToken, c)
      BY <3>1, <1>4
    <3>3. CreateAbortSignal(a.cancelToken, c) \in Calls
      BY <3>1, <1>7
    <3>. QED
      BY <2>1, <3>2, <3>3, HttpClientAssumption
  <2>2. CASE d # c
    <3>1. /\ pc'[d] = pc[d] /\ result'[d] = result[d]
          /\ arg'[d] = arg[d] /\ ctrl'[d] = ctrl[d]
      BY <2>2, <1>8
    <3>. QED
      BY <3>1 DEF TokenCallsHoldCtrl
  <2>. QED
    BY <2>1, <2>2
<1>11. PendingUntilDone'
  BY <1>2, <1>6 DEF PendingUntilDone
<1>12. ParsingShape'
  BY <1>2 DEF ParsingShape
<1>13. SettledCallUnregistered'
  <2> SUFFICES ASSUME NEW d \in Calls, result'[d].what = "response",
                      HasToken(arg'[d])
               PROVE  abortControllers'[arg'[d].cancelToken] # ctrl'[d]
    BY DEF SettledCallUnregistered
  <2>1. d # c
    BY <1>6
  <2>2. /\ arg[d] \in AllArgs
        /\ ctrl[d] # None
        /\ abortControllers[arg[d].cancelToken] # ctrl[d]
    BY <2>1, <1>8, HttpClientAssumption
    DEF StartedHaveArgs, PendingUntilDone, Pending, TokenCallsHoldCtrl,
        SettledCallUnregistered
  <2>3. arg[d].cancelToken \in Tokens
    BY <2>1, <2>2, <1>8, ArgShape DEF HasToken
  <2>4. CASE UNCHANGED <<abortControllers, ctrl>>
    BY <2>1, <2>2, <1>8, <2>4
  <2>5. CASE /\ HasToken(a)
             /\ abortControllers' = [abortControllers EXCEPT
                                       ![a.cancelToken] =
                                           CreateAbortSignal(a.cancelToken, c)]
             /\ ctrl' = [ctrl EXCEPT ![c] = CreateAbortSignal(a.cancelToken, c)]
    <3>1. CASE arg[d].cancelToken # a.cancelToken
      BY <3>1, <2>1, <2>2, <2>3, <2>5, <1>8
    <3>2. CASE arg[d].cancelToken = a.cancelToken
      <4>1. abortControllers'[a.cancelToken] = CreateAbortSignal(a.cancelToken, c)
        BY <2>3, <3>2, <2>5
      <4>. QED
        BY <4>1, <3>2, <2>1, <2>2, <2>5, <1>5, <1>7, <1>8
    <3>. QED
      BY <3>1, <3>2
  <2>. QED
    BY <1>3, <2>4, <2>5
<1>14. EnvelopeMatchesStatus'
  <2> SUFFICES ASSUME NEW d \in Calls, result'[d].what = "response"
               PROVE  /\ result'[d].how = "resolved" <=> status'[d] = TRUE
                      /\ result'[d].data = "body" => status'[d] = TRUE
                      /\ IF ResponseFormat(arg'[d]) # None
                           THEN (result'[d].data = None) # (result'[d].error = None)
                           ELSE result'[d].data = None /\ result'[d].error = None
    BY DEF EnvelopeMatchesStatus
  <2>1. d # c
    BY <1>6
  <2>2. result'[d] = result[d] /\ arg'[d] = arg[d] /\ status'[d] = status[d]
    BY <2>1, <1>8
  <2>. QED
    BY <2>2 DEF EnvelopeMatchesStatus
<1>. QED
  BY <1>9, <1>10, <1>11, <1>12, <1>13, <1>14

\* Cleanup(c) unregisters the token of c when it is truthy.
LEMMA CleanupUnregisters ==
    ASSUME TypeOK, NEW c \in Calls, arg[c] \in AllArgs, Cleanup(c),
           HasToken(arg[c])
    PROVE  abortControllers'[arg[c].cancelToken] = None
<1>1. arg[c].cancelToken \in Tokens
  BY ArgShape DEF HasToken
<1>. QED
  BY <1>1 DEF Cleanup, TypeOK

\* A call settling on a response from fetch or from its body, with the
\* outcome the code gives it, meets the premises of SettleSInv.
LEMMA EnvelopeShapes ==
    ASSUME NEW c \in Calls, NEW o \in BOOLEAN,
           NEW e \in {"body", "parseError", "abortError"}
    PROVE  /\ ResponseFormat(arg[c]) = None => EnvOK(c, Envelope(o, None, None), o)
           /\ ResponseFormat(arg[c]) # None =>
                /\ EnvOK(c, IF o THEN Envelope(TRUE, "body", None)
                                 ELSE Envelope(FALSE, None, "body"), o)
                /\ EnvOK(c, Envelope(o, None, e), o)
<1>1. ResponseFormat(arg[c]) = None => EnvOK(c, Envelope(o, None, None), o)
  BY HttpClientAssumption DEF EnvOK, Envelope
<1>2. ResponseFormat(arg[c]) # None =>
        EnvOK(c, IF o THEN Envelope(TRUE, "body", None)
                      ELSE Envelope(FALSE, None, "body"), o)
  <2>1. CASE o = TRUE
    BY <2>1, HttpClientAssumption DEF EnvOK, Envelope
  <2>2. CASE o = FALSE
    BY <2>2, HttpClientAssumption DEF EnvOK, Envelope
  <2>. QED
    BY <2>1, <2>2
<1>3. ResponseFormat(arg[c]) # None => EnvOK(c, Envelope(o, None, e), o)
  BY HttpClientAssumption DEF EnvOK, Envelope
<1>. QED
  BY <1>1, <1>2, <1>3

LEMMA NextSInv == SInv /\ [Next]_vars => SInv'
<1> SUFFICES ASSUME SInv, [Next]_vars PROVE SInv'
  OBVIOUS
<1>0. /\ IInv /\ TypeOK /\ IInv'
  BY NextIInv DEF SInv, IInv
<1>1. ASSUME NEW c \in Calls, Request(c) PROVE SInv'
  <2>1. PICK a \in AllArgs :
            /\ arg' = [arg EXCEPT ![c] = a]
            /\ IF UsesWorker(a)
                 THEN /\ pc' = [pc EXCEPT ![c] = "securing"]
                      /\ cred' = [cred EXCEPT ![c] = securityData]
                      /\ UNCHANGED <<abortControllers, ctrl, result>>
                 ELSE /\ Issue(c, a)
                      /\ UNCHANGED cred
    BY <1>1 DEF Request
  <2>2. pc[c] = "idle" /\ UNCHANGED status
    BY <1>1 DEF Request
  <2>3. CASE UsesWorker(a)
    \* The call only suspends: nothing it holds is read by the invariant.
    <3>1. /\ pc' = [pc EXCEPT ![c] = "securing"]
          /\ UNCHANGED <<abortControllers, ctrl, result>>
      BY <2>1, <2>3
    <3>2. /\ \A d \in Calls : ctrl[d] # c
          /\ result[c] = Pending
      BY <2>2, <1>0, HttpClientAssumption
      DEF SInv, CtrlOwned, PendingUntilDone, TypeOK
    <3>3. result[c].what # "response"
      BY <3>2, HttpClientAssumption DEF Pending
    <3>4. \A d \in Calls \ {c} : pc'[d] = pc[d] /\ arg'[d] = arg[d]
      BY <2>1, <3>1
    <3>5. CtrlOwned'
      BY <3>1, <3>2, <1>0 DEF SInv, CtrlOwned, TypeOK, Ctrls
    <3>6. TokenCallsHoldCtrl'
      BY <3>1, <3>3, <3>4, <1>0 DEF TokenCallsHoldCtrl, SInv, TypeOK
    <3>7. PendingUntilDone' /\ ParsingShape'
      BY <2>2, <3>1, <3>2, <3>4, <1>0 DEF PendingUntilDone, ParsingShape, SInv, TypeOK
    <3>8. SettledCallUnregistered'
      BY <3>1, <3>3, <3>4 DEF SettledCallUnregistered, SInv
    <3>9. EnvelopeMatchesStatus'
      BY <2>2, <3>1, <3>3, <3>4 DEF EnvelopeMatchesStatus, SInv
    <3>. QED
      BY <1>0, <3>5, <3>6, <3>7, <3>8, <3>9 DEF SInv
  <2>4. CASE ~UsesWorker(a)
    BY <1>0, <2>1, <2>2, <2>4, IssueSInv
  <2>. QED
    BY <2>3, <2>4
<1>2. ASSUME NEW c \in Calls, SecurityWorkerResolve(c) PROVE SInv'
  <2>1. arg[c] \in AllArgs
    BY <1>2 DEF SecurityWorkerResolve, IInv, StartedHaveArgs, SInv
  <2>2. arg' = [arg EXCEPT ![c] = arg[c]]
    BY <1>0, <1>2 DEF SecurityWorkerResolve, TypeOK
  <2>. QED
    BY <1>0, <1>2, <2>1, <2>2, IssueSInv DEF SecurityWorkerResolve
<1>3. ASSUME NEW c \in Calls, SecurityWorkerReject(c) PROVE SInv'
  <2>1. /\ pc[c] \in InFlight
        /\ pc' = [pc EXCEPT ![c] = "done"]
        /\ result' = [result EXCEPT ![c] = Thrown("composeError")]
        /\ status' = [status EXCEPT ![c] = status[c]]
        /\ UNCHANGED <<abortControllers, arg, ctrl>>
    BY <1>0, <1>3 DEF SecurityWorkerReject, Finish, InFlight, TypeOK
  <2>2. /\ Thrown("composeError") \in Outcomes
        /\ Thrown("composeError").what # "response"
        /\ status[c] \in BOOLEAN \cup {None}
    BY <1>0, OutcomeShape DEF Thrown, TypeOK
  <2>. QED
    BY <1>0, <2>1, <2>2, SettleSInv
<1>4. ASSUME NEW c \in Calls, NEW o \in BOOLEAN, FetchResolve(c, o)
      PROVE SInv'
  <2>1. /\ pc[c] = "fetching"
        /\ status' = [status EXCEPT ![c] = o]
        /\ UNCHANGED <<arg, ctrl>>
        /\ arg[c] \in AllArgs
        /\ result[c] = Pending
    BY <1>4 DEF FetchResolve, SInv, IInv, StartedHaveArgs, PendingUntilDone
  <2>2. CASE ResponseFormat(arg[c]) # None
    <3>1. /\ pc' = [pc EXCEPT ![c] = "parsing"]
          /\ result' = [result EXCEPT ![c] = Pending]
          /\ UNCHANGED abortControllers
      BY <1>0, <1>4, <2>1, <2>2 DEF FetchResolve, TypeOK
    <3>. QED
      BY <1>0, <2>1, <2>2, <3>1, OutcomeShape, HttpClientAssumption, SettleSInv
      DEF InFlight, Pending
  <2>3. CASE ResponseFormat(arg[c]) = None
    <3>1. /\ pc' = [pc EXCEPT ![c] = "done"]
          /\ result' = [result EXCEPT ![c] = Envelope(o, None, None)]
          /\ Cleanup(c)
      BY <1>4, <2>3 DEF FetchResolve, Finish
    <3>2. /\ \A t \in Tokens : abortControllers'[t] \in {None, abortControllers[t]}
          /\ HasToken(arg[c]) => abortControllers'[arg[c].cancelToken] = None
      BY <1>0, <2>1, <3>1, CleanupShrinks, CleanupUnregisters
    <3>3. /\ Envelope(o, None, None) \in Outcomes
          /\ EnvOK(c, Envelope(o, None, None), o)
      BY <2>3, OutcomeShape, EnvelopeShapes
    <3>. QED
      BY <1>0, <2>1, <3>1, <3>2, <3>3, SettleSInv DEF InFlight
  <2>. QED
    BY <2>2, <2>3
<1>5. ASSUME NEW c \in Calls, FetchReject(c) \/ FetchAbort(c) PROVE SInv'
  <2>1. PICK e \in {"networkError", "abortError"} :
          /\ pc[c] \in InFlight
          /\ pc' = [pc EXCEPT ![c] = "done"]
          /\ result' = [result EXCEPT ![c] = Thrown(e)]
          /\ status' = [status EXCEPT ![c] = status[c]]
          /\ UNCHANGED <<abortControllers, arg, ctrl>>
    BY <1>0, <1>5 DEF FetchReject, FetchAbort, Finish, InFlight, TypeOK
  <2>2. /\ Thrown(e) \in Outcomes
        /\ Thrown(e).what # "response"
        /\ status[c] \in BOOLEAN \cup {None}
    BY <1>0, OutcomeShape DEF Thrown, TypeOK
  <2>. QED
    BY <1>0, <2>1, <2>2, SettleSInv
<1>6. ASSUME NEW c \in Calls, ParseResolve(c) \/ ParseReject(c) PROVE SInv'
  <2>1. /\ pc[c] = "parsing"
        /\ status[c] \in BOOLEAN
        /\ ResponseFormat(arg[c]) # None
        /\ arg[c] \in AllArgs
        /\ UNCHANGED <<arg, ctrl, status>>
        /\ Cleanup(c)
    BY <1>6 DEF ParseResolve, ParseReject, SInv, ParsingShape, IInv, StartedHaveArgs
  <2>2. status' = [status EXCEPT ![c] = status[c]]
    BY <1>0, <2>1 DEF TypeOK
  <2>3. /\ \A t \in Tokens : abortControllers'[t] \in {None, abortControllers[t]}
        /\ HasToken(arg[c]) => abortControllers'[arg[c].cancelToken] = None
    BY <1>0, <2>1, CleanupShrinks, CleanupUnregisters
  <2>4. PICK r \in Outcomes :
          /\ pc' = [pc EXCEPT ![c] = "done"]
          /\ result' = [result EXCEPT ![c] = r]
          /\ EnvOK(c, r, status[c])
    <3>1. CASE ParseResolve(c)
      <4>1. /\ pc' = [pc EXCEPT ![c] = "done"]
            /\ result' = [result EXCEPT ![c] = IF status[c] THEN Envelope(TRUE, "body", None)
                                               ELSE Envelope(FALSE, None, "body")]
        BY <3>1 DEF ParseResolve, Finish
      <4>. QED
        BY <2>1, <4>1, OutcomeShape, EnvelopeShapes
    <3>2. CASE ParseReject(c)
      <4>1. PICK e \in {"parseError", "abortError"} :
              /\ pc' = [pc EXCEPT ![c] = "done"]
              /\ result' = [result EXCEPT ![c] = Envelope(status[c], None, e)]
        BY <3>2 DEF ParseReject, Finish
      <4>. QED
        BY <2>1, <4>1, OutcomeShape, EnvelopeShapes
    <3>. QED
      BY <1>6, <3>1, <3>2
  <2>. QED
    BY <1>0, <2>1, <2>2, <2>3, <2>4, SettleSInv DEF InFlight
<1>7. ASSUME NEW t \in Tokens, AbortRequest(t) PROVE SInv'
  \* An entry set to None never equals a controller a call holds.
  <2>1. /\ abortControllers' = [abortControllers EXCEPT ![t] = None]
        /\ UNCHANGED <<pc, arg, ctrl, status, result>>
    BY <1>7 DEF AbortRequest
  <2>2. CtrlOwned' /\ TokenCallsHoldCtrl' /\ PendingUntilDone' /\ ParsingShape'
        /\ EnvelopeMatchesStatus'
    BY <2>1 DEF SInv, CtrlOwned, TokenCallsHoldCtrl, PendingUntilDone,
                ParsingShape, EnvelopeMatchesStatus
  <2>3. SettledCallUnregistered'
    <3> SUFFICES ASSUME NEW d \in Calls, result[d].what = "response",
                        HasToken(arg[d])
                 PROVE  abortControllers'[arg[d].cancelToken] # ctrl[d]
      BY <2>1 DEF SettledCallUnregistered
    <3>1. ctrl[d] # None
      BY DEF SInv, TokenCallsHoldCtrl
    <3>. QED
      BY <1>0, <2>1, <3>1 DEF SInv, SettledCallUnregistered, TypeOK
  <2>. QED
    BY <1>0, <2>2, <2>3 DEF SInv
<1>8. ASSUME NEW v \in SecValues, SetSecurityData(v) PROVE SInv'
  BY <1>0, <1>8 DEF SetSecurityData, SInv, CtrlOwned, TokenCallsHoldCtrl,
                    PendingUntilDone, ParsingShape, SettledCallUnregistered,
                    EnvelopeMatchesStatus
<1>9. CASE UNCHANGED vars
  BY <1>0, <1>9 DEF vars, SInv, CtrlOwned, TokenCallsHoldCtrl,
                    PendingUntilDone, ParsingShape, SettledCallUnregistered,
                    EnvelopeMatchesStatus
<1>. QED
  BY <1>1, <1>2, <1>3, <1>4, <1>5, <1>6, <1>7, <1>8, <1>9 DEF Next

-----------------------------------------------------------------------------

\* SInv holds in every reachable state: it is the inductive invariant the
\* two theorems below rest on, and the run registry_envelope checks it.
THEOREM SettlementInvariant == Spec => []SInv
  BY InitSInv, NextSInv, PTL DEF Spec

\* request's then-callback and createAbortSignal: once a call has settled
\* on a response, its token never maps to the controller it sent, whatever
\* other calls with the same token, aborts and cleanups have done since;
\* a request reusing the token never shares a finished call's signal.
THEOREM SettledCallsUnregistered == Spec => []SettledCallUnregistered
<1>1. SInv => SettledCallUnregistered
  BY DEF SInv
<1>. QED
  BY SettlementInvariant, <1>1, PTL

\* Classification in request's then-callback: a call settled on a response
\* resolves exactly when response.ok, sets data only for an ok response,
\* and with a responseFormat sets exactly one of data and error.
THEOREM EnvelopeClassification == Spec => []EnvelopeMatchesStatus
<1>1. SInv => EnvelopeMatchesStatus
  BY DEF SInv
<1>. QED
  BY SettlementInvariant, <1>1, PTL

====
