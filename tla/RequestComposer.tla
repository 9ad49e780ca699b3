-------------------------- MODULE RequestComposer --------------------------
(***************************************************************************)
(* What one call of HttpClient.request hands to customFetch               *)
(* (src/swag_docs/Api.ts 552-566, 593-632): the three parameter layers    *)
(* (baseApiParams, the call's rest params, the securityWorker's answer)   *)
(* merged by mergeRequestParams, the Content-Type derived from type, the  *)
(* response format, the origin of the URL and the body payloadFormatter   *)
(* produces (the BodyCodec, 518-549).                                      *)
(*                                                                         *)
(* A layer is a record of two functions: headers, from header names to    *)
(* values, and opts, from the other option names to values, with Unset   *)
(* where the object has no such key.  An object spread {...a, ...b} keeps *)
(* every key of a that b does not have.                                    *)
(***************************************************************************)
EXTENDS Endpoints, Naturals

CONSTANTS
    HeaderKeys,   \* header names a layer may set; includes "Content-Type"
    HeaderVals,   \* header values
    OptKeys,      \* option names: a subset of {"credentials", "format", "baseUrl"}
    OptVals,      \* option values (a credentials policy, a format, an origin)
    ParamTypes,   \* values of params.type callers spread over the wrapper's
    ParamFormats, \* values of params.format callers spread over "json"
    ParamSecures, \* values of params.secure the callers pass (or Unset)
    ParamBaseUrls,\* values of params.baseUrl the callers pass (or Unset)
    BodyKinds,    \* kinds of body value the callers pass
    ClientBaseUrl,\* this.baseUrl
    HasWorker,    \* TRUE when the ApiConfig supplied a securityWorker
    None,         \* undefined / null / a void answer
    Unset         \* no such key in the object

\* The kinds of body payloadFormatter produces.
BodyPayloads == {"none", "jsonText", "raw", "formData", "queryString"}

\* The options literal customFetch receives: headers, the format and
\* origin options, and the formatted body.
SentOptions ==
    [headers : [HeaderKeys -> HeaderVals \cup ContentTypes \cup {Unset}],
     opts    : [OptKeys -> OptVals \cup {"json", None, Unset}],
     body    : BodyPayloads]

ASSUME RequestComposerAssumption ==
    /\ "Content-Type" \in HeaderKeys
    /\ OptKeys \subseteq {"credentials", "format", "baseUrl"}
    /\ ParamTypes \subseteq ContentTypes \cup {None, Unset}
    /\ ParamFormats \subseteq OptVals \cup {None, Unset}
    /\ ParamSecures \subseteq BOOLEAN \cup {Unset}
    /\ ParamBaseUrls \subseteq OptVals \cup {Unset}
    /\ BodyKinds \subseteq {"undefined", "null", "object", "string", "number",
                            "formData"}
    /\ ClientBaseUrl \in OptVals \cup {None}
    /\ HasWorker \in BOOLEAN
    /\ {None, Unset} \cap (HeaderVals \cup OptVals) = {}
    /\ Unset \notin SentOptions

VARIABLES
    base,   \* this.baseApiParams (set by the ApiConfig)
    arg,    \* the FullRequestParams of the call, Unset before request()
    stage,  \* "idle", "securing", "sent" or "rejected"
    secure, \* the securityWorker's answer, None when void or not called
    sent    \* the options customFetch receives, Unset before

cvars == <<base, arg, stage, secure, sent>>

FormData == "multipart/form-data"
Json == "application/json"

\* Layers whose keys lie in the given option names.
Layers(keys) ==
    [headers : [HeaderKeys -> HeaderVals \cup {Unset}],
     opts    : {o \in [OptKeys -> OptVals \cup {Unset}] :
                  \A k \in OptKeys \ keys : o[k] = Unset}]

\* baseApiParams: Omit<RequestParams, "baseUrl" | "cancelToken" | "signal">.
BaseLayers == {[secure |-> s, headers |-> l.headers, opts |-> l.opts] :
                 s \in BOOLEAN \cup {Unset}, l \in Layers({"credentials", "format"})}

\* The rest params of the call: format, baseUrl, type and secure are
\* destructured out of it.
ParamLayers == Layers({"credentials"})

\* The securityWorker may answer any RequestParams, or nothing.
SecureLayers == Layers(OptKeys) \cup {None}

\* The argument a wrapper of shape d builds: { ..., type: Json,
\* format: "json", ...params }.  The caller's params also carry its own
\* headers and options (the rest layer).
Args(d) ==
    [type   : {Spread(d.type, t, Unset) : t \in ParamTypes},
     format : {Spread("json", f, Unset) : f \in ParamFormats},
     secure : ParamSecures,
     baseUrl : ParamBaseUrls,
     body   : IF d.body THEN BodyKinds ELSE {"undefined"},
     params : ParamLayers]

AllArgs == UNION {Args(d) : d \in Descriptors}

EmptyLayer == [headers |-> [k \in HeaderKeys |-> Unset],
               opts    |-> [k \in OptKeys |-> Unset]]

\* { ...a, ...b } over one function of keys.
Over(a, b) == [k \in DOMAIN a |-> IF b[k] # Unset THEN b[k] ELSE a[k]]

\* JavaScript truthiness of the values that occur here.
Truthy(v) == v \notin {None, Unset}

\* Mutant: the security layer is spread before the call's params.
MergeRequestParamsSwapped(p1, p2) ==
    LET l2 == IF p2 = None THEN EmptyLayer ELSE p2
    IN  [opts    |-> Over(Over(base.opts, l2.opts), p1.opts),
         headers |-> Over(Over(base.headers, l2.headers), p1.headers)]

\* mergeRequestParams(params1, params2): base, then params1, then
\* (params2 || {}); headers merged key by key in the same order.
MergeRequestParams(p1, p2) ==
    LET l2 == IF p2 = None THEN EmptyLayer ELSE p2
    IN  [opts    |-> Over(Over(base.opts, p1.opts), l2.opts),
         headers |-> Over(Over(base.headers, p1.headers), l2.headers)]

\* contentFormatters[type || ContentType.Json](body), after the check that
\* body is neither undefined nor null: the kind of payload sent.
PayloadFormatter(type, body) ==
    LET ft == IF Truthy(type) THEN type ELSE Json
    IN  CASE body \in {"undefined", "null"} -> "none"
          [] ft \in {Json, "application/vnd.api+json"} ->
                IF body \in {"object", "string", "formData"}
                  THEN "jsonText" ELSE "raw"
          [] ft = "text/plain" ->
                IF body # "string" THEN "jsonText" ELSE "raw"
          [] ft = FormData -> "formData"
          [] ft = "application/x-www-form-urlencoded" -> "queryString"

\* { "Content-Type": type } when type is truthy and not FormData.
TypeHeader(type) ==
    [k \in HeaderKeys |-> IF k = "Content-Type" /\ Truthy(type) /\ type # FormData
                            THEN type ELSE Unset]

\* The options literal of customFetch: ...requestParams, then headers with
\* the type's Content-Type spread last, the body; the response format is
\* format || requestParams.format and the origin baseUrl || this.baseUrl.
Compose(a, p2) ==
    LET rp == MergeRequestParams(a.params, p2)
    IN  [headers |-> Over(rp.headers, TypeHeader(a.type)),
         opts    |-> [k \in OptKeys |->
                        CASE k = "format" ->
                               IF Truthy(a.format) THEN a.format ELSE rp.opts[k]
                          [] k = "baseUrl" ->
                               IF Truthy(a.baseUrl) THEN a.baseUrl ELSE ClientBaseUrl
                          [] OTHER -> rp.opts[k]],
         body    |-> PayloadFormatter(a.type, a.body)]

\* (typeof secure === "boolean" ? secure : this.baseApiParams.secure)
\* && this.securityWorker
UsesWorker(a) ==
    /\ IF a.secure \in BOOLEAN THEN a.secure ELSE base.secure = TRUE
    /\ HasWorker

-----------------------------------------------------------------------------

Init ==
    /\ base \in BaseLayers
    /\ arg = Unset
    /\ stage = "idle"
    /\ secure = None
    /\ sent = Unset

\* request() is called: when UsesWorker the call awaits the worker (the
\* secureParams line); otherwise it composes
\* with an empty security layer straight away.
Request ==
    /\ stage = "idle"
    /\ \E a \in AllArgs :
         /\ arg' = a
         /\ IF UsesWorker(a)
              THEN /\ stage' = "securing"
                   /\ UNCHANGED sent
              ELSE /\ stage' = "sent"
                   /\ sent' = Compose(a, None)
    /\ UNCHANGED <<base, secure>>

\* The worker's promise resolves with a RequestParams or nothing.
SecurityWorkerResolve ==
    /\ stage = "securing"
    /\ \E s \in SecureLayers :
         /\ secure' = s
         /\ sent' = Compose(arg, s)
    /\ stage' = "sent"
    /\ UNCHANGED <<base, arg>>

\* The worker throws: nothing is sent.
SecurityWorkerReject ==
    /\ stage = "securing"
    /\ stage' = "rejected"
    /\ UNCHANGED <<base, arg, secure, sent>>

CNext == Request \/ SecurityWorkerResolve \/ SecurityWorkerReject

CSpec == Init /\ [][CNext]_cvars

-----------------------------------------------------------------------------

TypeOK ==
    /\ base \in BaseLayers
    /\ arg \in AllArgs \cup {Unset}
    /\ stage \in {"idle", "securing", "sent", "rejected"}
    /\ secure \in SecureLayers
    /\ sent \in SentOptions \cup {Unset}
    /\ (stage = "sent") <=> (sent # Unset)

\* The three layers of spec 4.4 in rising precedence; a void answer of the
\* securityWorker is an empty layer.
LayerSeq == <<base, arg.params, IF secure = None THEN EmptyLayer ELSE secure>>

\* Reference: the value of key k of part f ("headers" or "opts") in the
\* highest layer that sets it.
LastSet(f, k) ==
    LET setters == {i \in 1..3 : LayerSeq[i][f][k] # Unset}
    IN  IF setters = {} THEN Unset
        ELSE LayerSeq[CHOOSE i \in setters : \A j \in setters : j <= i][f][k]

\* The Content-Type spec 4.5 asks for: that of the effective content type
\* (type, defaulting to JSON), and none for FormData.
EffectiveType == IF Truthy(arg.type) THEN arg.type ELSE Json

\* mergeRequestParams and the fetch options literal (spec 4.4, 8.5): every
\* header the call sends is the one of the highest layer (base < params <
\* securityWorker) that sets it, except that a truthy non-FormData type
\* replaces Content-Type; the credentials policy follows the same
\* precedence.
LastLayerWins ==
    stage = "sent" =>
      /\ \A k \in HeaderKeys :
           sent.headers[k] =
             IF k = "Content-Type" /\ Truthy(arg.type) /\ arg.type # FormData
               THEN arg.type ELSE LastSet("headers", k)
      /\ \A k \in OptKeys \cap {"credentials"} :
           sent.opts[k] = LastSet("opts", k)

\* request (spec 3, 4.2, 4.5): a call that sends a body sends it with the
\* Content-Type of the content type it was encoded with, the JSON default
\* included, and without one for FormData, whose boundary the browser adds.
ContentTypeDescribesBody ==
    stage = "sent" /\ sent.body # "none" =>
      sent.headers["Content-Type"] =
        IF EffectiveType = FormData THEN Unset ELSE EffectiveType

-----------------------------------------------------------------------------
(***************************************************************************)
(* The inductive invariant of the precedence proof: what customFetch      *)
(* received is what Compose makes of the call's argument and the worker's *)
(* answer, which stays None until the worker has answered.                 *)
(***************************************************************************)
CInv ==
    /\ base \in BaseLayers
    /\ stage \in {"idle", "securing", "sent", "rejected"}
    /\ secure \in SecureLayers
    /\ stage # "idle" => arg \in AllArgs
    /\ stage \in {"idle", "securing"} => secure = None
    /\ stage = "sent" => sent = Compose(arg, secure)

====
