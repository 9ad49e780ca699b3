----------------------------- MODULE HttpClient -----------------------------
(***************************************************************************)
(* The request core of class HttpClient (src/swag_docs/Api.ts 462-663).   *)
(*                                                                         *)
(* Every invocation of request() is a cooperative task of its own.  A task *)
(* runs synchronously up to its first await, so a step of this model is    *)
(* the code between two suspension points:                                 *)
(*   idle      -> request() called                                         *)
(*   securing  -> suspended on await securityWorker(securityData)          *)
(*   fetching  -> suspended on customFetch(...)                             *)
(*   parsing   -> suspended on responseToParse[responseFormat]()           *)
(*   done      -> the returned promise has settled                         *)
(* Tasks share the abortControllers map and the securityData slot; the     *)
(* callers of abortRequest and setSecurityData act at any time.            *)
(*                                                                         *)
(* An AbortController is named by the call whose createAbortSignal made    *)
(* it, so ctrl[c] = d means call c sends the signal of d's controller.    *)
(***************************************************************************)
EXTENDS Endpoints

CONSTANTS
    Calls,        \* invocations of request() (model values)
    Tokens,       \* cancel tokens callers pass (Symbol | string | number)
    FalsyTokens,  \* the tokens JavaScript treats as false (0, "")
    SecValues,    \* values setSecurityData may store
    Payloads,     \* kinds of query / body value: "plain", "unserialisable"
    HasWorker,    \* TRUE when the ApiConfig supplied a securityWorker
    BaseSecure,   \* baseApiParams.secure: TRUE, FALSE or Unset
    BaseFormat,   \* baseApiParams.format: "json" or None
    ParamSecure,  \* values of params.secure the callers pass (or Unset)
    ParamFormat,  \* values of params.format the callers pass (or Unset)
    None,         \* null / undefined / no controller
    Unset         \* a key the caller did not put in its params

ASSUME HttpClientAssumption ==
    /\ FalsyTokens \subseteq Tokens
    /\ None \notin Calls \cup Tokens \cup {Unset}
    /\ None \notin {"response", "body", "parseError", "abortError"}
    /\ Unset \notin Tokens
    /\ None \in SecValues
    /\ Payloads \subseteq {"plain", "unserialisable", None}
    /\ HasWorker \in BOOLEAN
    /\ BaseSecure \in BOOLEAN \cup {Unset}
    /\ BaseFormat \in {"json", None}
    /\ ParamSecure \subseteq BOOLEAN \cup {Unset}
    /\ ParamFormat \subseteq {"json", None, Unset}

VARIABLES
    abortControllers, \* Map<CancelToken, AbortController>: token -> controller or None
    aborted,          \* controllers whose abort() has run
    securityData,     \* the client's security-data slot
    pc,               \* phase of each call
    arg,              \* the FullRequestParams each call was invoked with
    ctrl,             \* the controller whose signal the call passed to fetch
    cred,             \* the securityData value the call handed its securityWorker
    status,           \* response.ok of the call's response (None before one)
    result,           \* how the call's promise settled
    abortAsked        \* history: calls whose token was aborted while they ran

vars == <<abortControllers, aborted, securityData, pc, arg, ctrl, cred,
          status, result, abortAsked>>

Phases == {"idle", "securing", "fetching", "parsing", "done"}
InFlight == {"securing", "fetching", "parsing"}
\* The AbortControllers the Map holds (466), named by the call that
\* creates them; None when there is none.
Ctrls == Calls \cup {None}

(***************************************************************************)
(* The request argument a wrapper of shape d builds from the caller's     *)
(* params: the params' format and secure keys are spread over the         *)
(* wrapper's literals; a cancel token may be passed or not.                *)
(***************************************************************************)
Args(d) == [query       : IF d.query THEN Payloads ELSE {None},
            body        : IF d.body THEN Payloads ELSE {None},
            format      : {Spread(d.format, f, Unset) : f \in ParamFormat},
            secure      : ParamSecure,
            cancelToken : Tokens \cup {Unset}]

AllArgs == UNION {Args(d) : d \in Descriptors}

Outcomes == [how   : {"pending", "resolved", "rejected"},
             what  : {None, "response", "composeError", "encodeError",
                      "networkError", "abortError"},
             data  : {None, "body"},
             error : {None, "body", "parseError", "abortError"}]

Pending == [how |-> "pending", what |-> None, data |-> None, error |-> None]

\* A promise rejected with a thrown error rather than with an envelope.
Thrown(e) == [how |-> "rejected", what |-> e, data |-> None, error |-> None]

\* Mutant: a response that is not ok is returned instead of thrown.
EnvelopeNoThrow(ok, d, e) ==
    [how |-> "resolved", what |-> "response", data |-> d, error |-> e]

\* The response r settles the call: returned when r.ok, thrown otherwise.
Envelope(ok, d, e) == [how |-> IF ok THEN "resolved" ELSE "rejected",
                       what |-> "response", data |-> d, error |-> e]

\* (typeof secure === "boolean" ? secure : this.baseApiParams.secure)
Secure(a) == IF a.secure \in BOOLEAN THEN a.secure ELSE BaseSecure = TRUE

\* The securityWorker is awaited only when the call is secure and one exists.
UsesWorker(a) == Secure(a) /\ HasWorker

\* format || requestParams.format
ResponseFormat(a) == IF a.format # None THEN a.format ELSE BaseFormat

\* cancelToken ? createAbortSignal(cancelToken) : requestParams.signal
HasToken(a) == a.cancelToken \notin FalsyTokens \cup {Unset}

-----------------------------------------------------------------------------

Init ==
    /\ abortControllers = [t \in Tokens |-> None]
    /\ aborted = {}
    /\ securityData = None
    /\ pc = [c \in Calls |-> "idle"]
    /\ arg = [c \in Calls |-> None]
    /\ ctrl = [c \in Calls |-> None]
    /\ cred = [c \in Calls |-> None]
    /\ status = [c \in Calls |-> None]
    /\ result = [c \in Calls |-> Pending]
    /\ abortAsked = {}

\* setSecurityData: overwrite the slot; calls already past their read of
\* it keep the value they read.
SetSecurityData(v) ==
    /\ securityData' = v
    /\ UNCHANGED <<abortControllers, aborted, pc, arg, ctrl, cred, status,
                   result, abortAsked>>

\* Mutant: a new controller every time, overwriting the registered one.
CreateAbortSignalFresh(t, c) == c

\* createAbortSignal(t) called by call c: the controller registered for t,
\* or a new one (named c) that it registers.
CreateAbortSignal(t, c) ==
    IF abortControllers[t] # None THEN abortControllers[t] ELSE c

\* The call settles with outcome r.
Finish(c, r) ==
    /\ pc' = [pc EXCEPT ![c] = "done"]
    /\ result' = [result EXCEPT ![c] = r]

(***************************************************************************)
(* The synchronous run from mergeRequestParams to the customFetch call:   *)
(* toQueryString may throw before any signal exists; the fetch options    *)
(* literal evaluates signal (createAbortSignal) before body               *)
(* (payloadFormatter), so a body that fails to serialise rejects the call *)
(* after its controller is registered.                                    *)
(***************************************************************************)
Issue(c, a) ==
    \/ /\ a.query = "unserialisable"
       /\ Finish(c, Thrown("encodeError"))
       /\ UNCHANGED <<abortControllers, ctrl>>
    \/ /\ a.query # "unserialisable"
       /\ IF HasToken(a)
            THEN LET k == CreateAbortSignal(a.cancelToken, c)
                 IN  /\ abortControllers' =
                            [abortControllers EXCEPT ![a.cancelToken] = k]
                     /\ ctrl' = [ctrl EXCEPT ![c] = k]
            ELSE UNCHANGED <<abortControllers, ctrl>>
       /\ IF a.body = "unserialisable"
            THEN Finish(c, Thrown("encodeError"))
            ELSE /\ pc' = [pc EXCEPT ![c] = "fetching"]
                 /\ UNCHANGED result

\* request() called by a wrapper with argument a: either suspend on the
\* securityWorker (reading securityData now) or run straight to fetch.
Request(c) ==
    /\ pc[c] = "idle"
    /\ \E a \in AllArgs :
        /\ arg' = [arg EXCEPT ![c] = a]
        /\ IF UsesWorker(a)
             THEN /\ pc' = [pc EXCEPT ![c] = "securing"]
                  /\ cred' = [cred EXCEPT ![c] = securityData]
                  /\ UNCHANGED <<abortControllers, ctrl, result>>
             ELSE /\ Issue(c, a)
                  /\ UNCHANGED cred
    /\ UNCHANGED <<aborted, securityData, status, abortAsked>>

\* The securityWorker's promise resolves: the call continues to fetch.
SecurityWorkerResolve(c) ==
    /\ pc[c] = "securing"
    /\ Issue(c, arg[c])
    /\ UNCHANGED <<aborted, securityData, arg, cred, status, abortAsked>>

\* The securityWorker throws or rejects: the rejection propagates.
SecurityWorkerReject(c) ==
    /\ pc[c] = "securing"
    /\ Finish(c, Thrown("composeError"))
    /\ UNCHANGED <<abortControllers, aborted, securityData, arg, ctrl, cred,
                   status, abortAsked>>

\* Mutant: the cleanup is left out.
CleanupSkipped(c) == abortControllers' = abortControllers

\* if (cancelToken) this.abortControllers.delete(cancelToken): removes
\* whatever controller the token maps to now.
Cleanup(c) ==
    abortControllers' =
        IF HasToken(arg[c])
          THEN [abortControllers EXCEPT ![arg[c].cancelToken] = None]
          ELSE abortControllers

\* Mutant: abortRequest aborts the controller but keeps it registered.
AbortRequestNoDelete(t) ==
    /\ aborted' = IF abortControllers[t] # None
                    THEN aborted \cup {abortControllers[t]} ELSE aborted
    /\ abortAsked' = abortAsked \cup
                       {c \in Calls : pc[c] \in InFlight /\ arg[c] # None
                                      /\ arg[c].cancelToken = t}
    /\ UNCHANGED <<abortControllers, securityData, pc, arg, ctrl, cred,
                   status, result>>

\* customFetch resolves with a response whose ok flag is o.  Without a
\* responseFormat the then-callback runs to its end without suspending.
FetchResolve(c, o) ==
    /\ pc[c] = "fetching"
    /\ ctrl[c] \notin aborted
    /\ status' = [status EXCEPT ![c] = o]
    /\ IF ResponseFormat(arg[c]) # None
         THEN /\ pc' = [pc EXCEPT ![c] = "parsing"]
              /\ UNCHANGED <<abortControllers, result>>
         ELSE /\ Finish(c, Envelope(o, None, None))
              /\ Cleanup(c)
    /\ UNCHANGED <<aborted, securityData, arg, ctrl, cred, abortAsked>>

\* customFetch rejects (network failure): the then-callback never runs.
FetchReject(c) ==
    /\ pc[c] = "fetching"
    /\ ctrl[c] \notin aborted
    /\ Finish(c, Thrown("networkError"))
    /\ UNCHANGED <<abortControllers, aborted, securityData, arg, ctrl, cred,
                   status, abortAsked>>

\* The call's signal was aborted: customFetch rejects with an AbortError.
FetchAbort(c) ==
    /\ pc[c] = "fetching"
    /\ ctrl[c] \in aborted
    /\ Finish(c, Thrown("abortError"))
    /\ UNCHANGED <<abortControllers, aborted, securityData, arg, ctrl, cred,
                   status, abortAsked>>

\* The clone's body parses: it goes to data when ok, to error otherwise.
ParseResolve(c) ==
    /\ pc[c] = "parsing"
    /\ ctrl[c] \notin aborted
    /\ Finish(c, IF status[c] THEN Envelope(TRUE, "body", None)
                              ELSE Envelope(FALSE, None, "body"))
    /\ Cleanup(c)
    /\ UNCHANGED <<aborted, securityData, arg, ctrl, cred, status, abortAsked>>

\* The clone's body fails to parse, or its stream errors because the
\* signal was aborted: .catch stores the error and the call goes on.
ParseReject(c) ==
    /\ pc[c] = "parsing"
    /\ Finish(c, Envelope(status[c], None,
                          IF ctrl[c] \in aborted THEN "abortError"
                                                 ELSE "parseError"))
    /\ Cleanup(c)
    /\ UNCHANGED <<aborted, securityData, arg, ctrl, cred, status, abortAsked>>

\* abortRequest(t): abort and unregister t's controller if there is one.
\* abortAsked records the calls running with token t at that moment.
AbortRequest(t) ==
    /\ aborted' = IF abortControllers[t] # None
                    THEN aborted \cup {abortControllers[t]} ELSE aborted
    /\ abortControllers' = [abortControllers EXCEPT ![t] = None]
    /\ abortAsked' = abortAsked \cup
                       {c \in Calls : pc[c] \in InFlight /\ arg[c] # None
                                      /\ arg[c].cancelToken = t}
    /\ UNCHANGED <<securityData, pc, arg, ctrl, cred, status, result>>

Next ==
    \/ \E c \in Calls :
        \/ Request(c)
        \/ SecurityWorkerResolve(c)
        \/ SecurityWorkerReject(c)
        \/ \E o \in BOOLEAN : FetchResolve(c, o)
        \/ FetchReject(c)
        \/ FetchAbort(c)
        \/ ParseResolve(c)
        \/ ParseReject(c)
    \/ \E t \in Tokens : AbortRequest(t)
    \/ \E v \in SecValues : SetSecurityData(v)

Spec == Init /\ [][Next]_vars

\* The clone's body read errors because the call's signal was aborted.
ParseAbort(c) == ctrl[c] \in aborted /\ ParseReject(c)

(***************************************************************************)
(* Fairness.  Only what the platform guarantees: fetch rejects once its   *)
(* signal is aborted, an aborted body stream errors its pending read, and *)
(* the event loop then runs the continuation.  Whether the network or the *)
(* securityWorker ever answers is not up to the client, which has no      *)
(* timeout: those steps get no fairness.                                   *)
(***************************************************************************)
Fairness == \A c \in Calls : WF_vars(FetchAbort(c)) /\ WF_vars(ParseAbort(c))

FairSpec == Spec /\ Fairness

(***************************************************************************)
(* The refinement mapping onto RequestLifecycle: a call is pending from   *)
(* request() to its settlement, its verdict is how its promise settled,   *)
(* and it is cancelled once the controller whose signal it sent has been  *)
(* aborted.                                                                *)
(***************************************************************************)
LPhase == [c \in Calls |-> IF pc[c] = "idle" THEN "idle"
                           ELSE IF pc[c] = "done" THEN "settled"
                           ELSE "pending"]

LCancelled == {c \in Calls : ctrl[c] \in aborted}

Lifecycle == INSTANCE RequestLifecycle
                 WITH phase <- LPhase,
                      verdict <- [c \in Calls |-> result[c].how],
                      cancelled <- LCancelled

-----------------------------------------------------------------------------
(***************************************************************************)
(* Properties.                                                             *)
(***************************************************************************)

\* Every variable holds a value of its intended kind.
TypeOK ==
    /\ abortControllers \in [Tokens -> Ctrls]
    /\ aborted \subseteq Calls
    /\ securityData \in SecValues
    /\ pc \in [Calls -> Phases]
    /\ arg \in [Calls -> AllArgs \cup {None}]
    /\ ctrl \in [Calls -> Ctrls]
    /\ cred \in [Calls -> SecValues]
    /\ status \in [Calls -> BOOLEAN \cup {None}]
    /\ result \in [Calls -> Outcomes]
    /\ abortAsked \subseteq Calls

\* createAbortSignal and abortRequest: no controller that has been aborted
\* stays in abortControllers, so a later request reusing the token never
\* starts with a signal that is already aborted.
RegisteredSignalLive ==
    \A t \in Tokens :
        abortControllers[t] # None => abortControllers[t] \notin aborted

\* The then-callback of request: once a call has settled on a response,
\* the token it used no longer maps to the controller it sent.
SettledCallUnregistered ==
    \A c \in Calls :
        (result[c].what = "response" /\ HasToken(arg[c]))
            => abortControllers[arg[c].cancelToken] # ctrl[c]

\* Classification in request's then-callback (spec 3, 4.5, 8.6, 8.7): a
\* call settled on a response resolves exactly when response.ok; with a
\* responseFormat exactly one of data and error is set, and data only for
\* an ok response; without one neither is set.
EnvelopeMatchesStatus ==
    \A c \in Calls : result[c].what = "response" =>
        /\ result[c].how = "resolved" <=> status[c] = TRUE
        /\ result[c].data = "body" => status[c] = TRUE
        /\ IF ResponseFormat(arg[c]) # None
             THEN (result[c].data = None) # (result[c].error = None)
             ELSE result[c].data = None /\ result[c].error = None

\* abortRequest (spec 3, 4.3, 5): aborting a token cancels every request
\* currently using it, so a call whose token was aborted while it ran is
\* never waiting on the network with a signal that was not aborted.
AbortReachesEveryCall ==
    \A c \in abortAsked :
        pc[c] \in {"fetching", "parsing"} => ctrl[c] \in aborted

\* The completion cleanup (spec 3, 4.3, 8.4): a token's handle is removed
\* only by an abort of the token or by the completion of a call that uses
\* that handle; a call that completes never removes the brand-new handle
\* a later getSignal of its token created for another call.
HandleRemovedByItsCall ==
    [][\A t \in Tokens :
         abortControllers[t] # None /\ abortControllers'[t] = None =>
           \/ abortControllers[t] \in aborted'
           \/ \E c \in Calls : /\ pc[c] # "done" /\ pc'[c] = "done"
                             /\ ctrl[c] = abortControllers[t]]_vars

\* Cancellation (spec 5): a call whose signal is aborted before it settles
\* settles as a failure.
AbortedCallFails ==
    \A c \in Calls :
        (pc[c] = "done" /\ ctrl[c] \in aborted) => result[c].how = "rejected"

\* request (spec 4.5, 5, 7): HttpClient implements RequestLifecycle.  Every
\* call settles at most once and for good, no call starts with a signal
\* that is already aborted, and a call whose signal is aborted while it
\* waits on fetch or on the body eventually settles.
ImplementsLifecycle == Lifecycle!LSpec

\* abortRequest (spec 5) with no timeout in the client: a call whose token
\* is aborted while it runs eventually settles.
AbortedRequestSettles ==
    \A c \in Calls : c \in abortAsked ~> pc[c] = "done"

\* Cleanup on every exit path (spec 3, 4.3, 7): a token stays in
\* abortControllers only while a call that sent its controller's signal is
\* still waiting on the network or on the body.
NoLeakedHandle ==
    \A t \in Tokens : abortControllers[t] # None =>
        \E c \in Calls : pc[c] \in {"fetching", "parsing"}
                         /\ ctrl[c] = abortControllers[t]

\* createAbortSignal, abortRequest and the cleanup of request: a step
\* changes a token's entry only by deleting it, or by registering, where
\* there was none, a controller not yet aborted that the call issuing in
\* that step creates.  A live controller is never overwritten, so calls
\* sharing a token share one signal and one abortRequest reaches them all.
RegistryEntryFresh ==
    [][\A t \in Tokens : abortControllers'[t] # abortControllers[t] =>
         \/ abortControllers'[t] = None
         \/ /\ abortControllers[t] = None
            /\ pc[abortControllers'[t]] \in {"idle", "securing"}
            /\ abortControllers'[t] \notin aborted']_vars

-----------------------------------------------------------------------------
(***************************************************************************)
(* The inductive strengthening of RegisteredSignalLive.  A controller is  *)
(* registered only under the token of the call that created it, and only  *)
(* once that call has reached fetch; only registered controllers are      *)
(* aborted.  So abortRequest(t) can never abort a controller that another *)
(* token still maps to, and createAbortSignal never registers one that is *)
(* already aborted.                                                        *)
(***************************************************************************)

\* A call past idle holds the argument it was invoked with.
StartedHaveArgs ==
    \A c \in Calls : pc[c] # "idle" => arg[c] \in AllArgs

\* A registered controller belongs to a call that reached fetch with that
\* token.
RegisteredByOwner ==
    \A t \in Tokens : abortControllers[t] # None =>
        /\ pc[abortControllers[t]] \notin {"idle", "securing"}
        /\ arg[abortControllers[t]].cancelToken = t

\* Only a controller some call has already created can have been aborted.
AbortedWereIssued ==
    \A k \in aborted : pc[k] \notin {"idle", "securing"}

\* The inductive invariant: true initially and kept by every step.
IInv ==
    /\ TypeOK
    /\ StartedHaveArgs
    /\ RegisteredByOwner
    /\ AbortedWereIssued
    /\ RegisteredSignalLive

\* A call sends no signal before its synchronous run to fetch.
CtrlAfterIssue ==
    \A c \in Calls : pc[c] \in {"idle", "securing"} => ctrl[c] = None

\* A call's promise has settled exactly when the call is done.
SettledIffDone ==
    \A c \in Calls : (pc[c] = "done") <=> (result[c].how # "pending")

\* The invariant the refinement onto RequestLifecycle rests on.
LInv == IInv /\ CtrlAfterIssue /\ SettledIffDone

-----------------------------------------------------------------------------
(***************************************************************************)
(* The inductive strengthening of SettledCallUnregistered and             *)
(* EnvelopeMatchesStatus.  A settled call's token could be mapped back to *)
(* the controller it sent only if createAbortSignal registered that       *)
(* controller anew; but a fresh controller is named by a call that is     *)
(* issuing just now, while the controller a call sent belongs to a call   *)
(* that issued before.  The envelope is fixed when the call settles, from *)
(* the ok flag the call keeps.                                             *)
(***************************************************************************)

\* The controller a call sent was created by a call that has issued.
CtrlOwned ==
    \A c \in Calls : ctrl[c] # None => pc[ctrl[c]] \notin {"idle", "securing"}

\* A call with a truthy token that is waiting on the network, or has
\* settled on a response, sent a controller.
TokenCallsHoldCtrl ==
    \A c \in Calls :
        (pc[c] \in {"fetching", "parsing"} \/ result[c].what = "response")
        /\ HasToken(arg[c]) => ctrl[c] # None

\* A call's outcome stays Pending until the call is done.
PendingUntilDone ==
    \A c \in Calls : pc[c] # "done" => result[c] = Pending

\* A call waiting on its body has its response's ok flag and a format.
ParsingShape ==
    \A c \in Calls : pc[c] = "parsing" =>
        status[c] \in BOOLEAN /\ ResponseFormat(arg[c]) # None

\* The inductive invariant of the settlement proofs.
SInv ==
    /\ IInv
    /\ CtrlOwned
    /\ TokenCallsHoldCtrl
    /\ PendingUntilDone
    /\ ParsingShape
    /\ SettledCallUnregistered
    /\ EnvelopeMatchesStatus

====
