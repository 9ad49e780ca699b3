-------------------------- MODULE ComposerProofs --------------------------
(***************************************************************************)
(* Proof that request() hands customFetch the headers and credentials of  *)
(* the highest parameter layer that sets them (LastLayerWins), for every  *)
(* value of the constants of RequestComposer: any header names, option    *)
(* values, caller params and securityWorker answers.  The argument: what  *)
(* customFetch received is Compose of the call's argument and the         *)
(* worker's answer (CInv); mergeRequestParams spreads base, params and    *)
(* the answer in that order, so a key's value is that of the last layer  *)
(* that sets it, which is what LastSet picks (LastSetTop); the literal    *)
(* Content-Type of a truthy type is spread after all of them.              *)
(***************************************************************************)
EXTENDS RequestComposer, TLAPS

\* A key of the merged object {...a, ...b}: b's value when b sets it.
LEMMA OverAt ==
    ASSUME NEW a, NEW b, NEW k \in DOMAIN a
    PROVE  Over(a, b)[k] = IF b[k] # Unset THEN b[k] ELSE a[k]
  BY DEF Over

\* LastSet picks the value of the highest of the three layers that sets
\* the key, and Unset when none does.
LEMMA LastSetTop ==
    ASSUME NEW f, NEW k
    PROVE  LastSet(f, k) =
             IF LayerSeq[3][f][k] # Unset THEN LayerSeq[3][f][k]
             ELSE IF LayerSeq[2][f][k] # Unset THEN LayerSeq[2][f][k]
             ELSE LayerSeq[1][f][k]
<1>. DEFINE v(i) == LayerSeq[i][f][k]
            S == {i \in 1..3 : v(i) # Unset}
            top == CHOOSE i \in S : \A j \in S : j <= i
<1>1. LastSet(f, k) = IF S = {} THEN Unset ELSE v(top)
  BY DEF LastSet
\* A non-empty set of layers has a highest member, which top names.
<1>2. S # {} => top \in S /\ \A j \in S : j <= top
  <2>1. S # {} => \E i \in S : \A j \in S : j <= i
    <3>1. CASE 3 \in S
      BY <3>1
    <3>2. CASE 3 \notin S /\ 2 \in S
      BY <3>2
    <3>3. CASE 3 \notin S /\ 2 \notin S
      BY <3>3
    <3>. QED
      BY <3>1, <3>2, <3>3
  <2>. QED
    BY <2>1
<1>3. CASE v(3) # Unset
  <2>1. 3 \in S /\ top \in 1..3 /\ 3 <= top
    BY <1>2, <1>3
  <2>. QED
    BY <1>1, <1>3, <2>1
<1>4. CASE v(3) = Unset /\ v(2) # Unset
  <2>1. 2 \in S /\ 3 \notin S /\ top \in S /\ 2 <= top
    BY <1>2, <1>4
  <2>2. top = 2
    BY <2>1
  <2>. QED
    BY <1>1, <1>4, <2>1, <2>2
<1>5. CASE v(3) = Unset /\ v(2) = Unset /\ v(1) # Unset
  <2>1. S = {1}
    BY <1>5
  <2>2. top = 1
    BY <1>2, <2>1
  <2>. QED
    BY <1>1, <1>5, <2>1, <2>2
<1>6. CASE v(3) = Unset /\ v(2) = Unset /\ v(1) = Unset
  <2>1. S = {}
    BY <1>6
  <2>. QED
    BY <1>1, <1>6, <2>1
<1>. QED
  BY <1>3, <1>4, <1>5, <1>6

\* Every layer the call merges has a header for every header name and an
\* option for every option name, possibly Unset.
LayerTyped(l) ==
    /\ l.headers \in [HeaderKeys -> HeaderVals \cup {Unset}]
    /\ l.opts \in [OptKeys -> OptVals \cup {Unset}]

LEMMA LayersTyped ==
    ASSUME CInv, stage = "sent"
    PROVE  /\ arg \in AllArgs
           /\ LayerTyped(LayerSeq[1])
           /\ LayerTyped(LayerSeq[2])
           /\ LayerTyped(LayerSeq[3])
<1>1. arg \in AllArgs
  BY DEF CInv
<1>2. LayerTyped(base)
  BY DEF CInv, BaseLayers, Layers, LayerTyped
<1>3. LayerTyped(arg.params)
  <2>1. PICK d \in Descriptors : arg \in Args(d)
    BY <1>1 DEF AllArgs
  <2>. QED
    BY <2>1 DEF Args, ParamLayers, Layers, LayerTyped
<1>4. LayerTyped(IF secure = None THEN EmptyLayer ELSE secure)
  BY DEF CInv, SecureLayers, Layers, EmptyLayer, LayerTyped
<1>. QED
  BY <1>1, <1>2, <1>3, <1>4 DEF LayerSeq

LEMMA InitCInv == Init => CInv
  BY DEF Init, CInv, SecureLayers

LEMMA NextCInv == CInv /\ [CNext]_cvars => CInv'
<1> SUFFICES ASSUME CInv, [CNext]_cvars PROVE CInv'
  OBVIOUS
<1>1. CASE Request
  <2>1. PICK a \in AllArgs :
          /\ arg' = a
          /\ IF UsesWorker(a)
               THEN stage' = "securing" /\ UNCHANGED sent
               ELSE stage' = "sent" /\ sent' = Compose(a, None)
    BY <1>1 DEF Request
  <2>2. stage = "idle" /\ secure = None /\ UNCHANGED <<base, secure>>
    BY <1>1 DEF Request, CInv
  <2>. QED
    BY <2>1, <2>2 DEF CInv, Compose, MergeRequestParams
<1>2. CASE SecurityWorkerResolve
  <2>1. PICK s \in SecureLayers : secure' = s /\ sent' = Compose(arg, s)
    BY <1>2 DEF SecurityWorkerResolve
  <2>2. stage = "securing" /\ stage' = "sent" /\ UNCHANGED <<base, arg>>
    BY <1>2 DEF SecurityWorkerResolve
  <2>. QED
    BY <2>1, <2>2 DEF CInv, Compose, MergeRequestParams
<1>3. CASE SecurityWorkerReject
  BY <1>3 DEF SecurityWorkerReject, CInv
<1>4. CASE UNCHANGED cvars
  BY <1>4 DEF cvars, CInv, Compose, MergeRequestParams
<1>. QED
  BY <1>1, <1>2, <1>3, <1>4 DEF CNext

\* What customFetch received, when it is Compose of the argument and the
\* answer, puts each key where LastLayerWins says.
LEMMA CInvLastLayerWins == CInv => LastLayerWins
<1> SUFFICES ASSUME CInv, stage = "sent"
             PROVE  /\ \A k \in HeaderKeys :
                          sent.headers[k] =
                            IF k = "Content-Type" /\ Truthy(arg.type) /\ arg.type # FormData
                              THEN arg.type ELSE LastSet("headers", k)
                    /\ \A k \in OptKeys \cap {"credentials"} :
                          sent.opts[k] = LastSet("opts", k)
  BY DEF LastLayerWins
<1>. DEFINE L3 == IF secure = None THEN EmptyLayer ELSE secure
            rp == MergeRequestParams(arg.params, secure)
<1>1. /\ arg \in AllArgs
      /\ LayerTyped(base) /\ LayerTyped(arg.params) /\ LayerTyped(L3)
  BY LayersTyped DEF LayerSeq
<1>2. sent = Compose(arg, secure)
  BY DEF CInv
\* mergeRequestParams: the answer's key, else the params', else the base's.
<1>3. rp = [opts    |-> Over(Over(base.opts, arg.params.opts), L3.opts),
            headers |-> Over(Over(base.headers, arg.params.headers), L3.headers)]
  BY DEF MergeRequestParams
<1>4. ASSUME NEW f \in {"headers", "opts"},
             NEW k \in DOMAIN base[f]
      PROVE  rp[f][k] = LastSet(f, k)
  <2>1. DOMAIN base[f] = DOMAIN arg.params[f] /\ DOMAIN base[f] = DOMAIN L3[f]
    BY <1>1 DEF LayerTyped
  <2>2. rp[f] = Over(Over(base[f], arg.params[f]), L3[f])
    BY <1>3
  <2>3. rp[f][k] = IF L3[f][k] # Unset THEN L3[f][k]
                   ELSE IF arg.params[f][k] # Unset THEN arg.params[f][k]
                   ELSE base[f][k]
    BY <2>1, <2>2 DEF Over
  <2>. QED
    BY <2>3, LastSetTop DEF LayerSeq
<1>5. ASSUME NEW k \in HeaderKeys
      PROVE  sent.headers[k] =
               IF k = "Content-Type" /\ Truthy(arg.type) /\ arg.type # FormData
                 THEN arg.type ELSE LastSet("headers", k)
  <2>0. k \in DOMAIN base["headers"]
    BY <1>1 DEF LayerTyped
  <2>1. k \in DOMAIN rp.headers /\ rp.headers[k] = LastSet("headers", k)
    <3>1. rp["headers"][k] = LastSet("headers", k)
      BY <2>0, <1>4
    <3>2. DOMAIN rp.headers = DOMAIN base.headers
      BY <1>3 DEF Over
    <3>. QED
      BY <2>0, <3>1, <3>2
  <2>2. sent.headers = Over(rp.headers, TypeHeader(arg.type))
    BY <1>2 DEF Compose
  <2>. QED
    BY <2>1, <2>2 DEF Over, TypeHeader, Truthy
<1>6. ASSUME NEW k \in OptKeys \cap {"credentials"}
      PROVE  sent.opts[k] = LastSet("opts", k)
  <2>1. rp.opts[k] = LastSet("opts", k)
    BY <1>1, <1>4 DEF LayerTyped
  <2>2. sent.opts[k] = rp.opts[k]
    BY <1>2 DEF Compose
  <2>. QED
    BY <2>1, <2>2
<1>. QED
  BY <1>5, <1>6

\* mergeRequestParams and the fetch options literal of request: for any
\* header names, values, caller params and securityWorker answers, every
\* header sent is that of the highest layer (base < params < worker) that
\* sets it, except a truthy non-FormData type's Content-Type, and the
\* credentials policy follows the same precedence.
THEOREM ComposerPrecedence == CSpec => []LastLayerWins
  BY InitCInv, NextCInv, CInvLastLayerWins, PTL DEF CSpec

-----------------------------------------------------------------------------
(***************************************************************************)
(* Type correctness of RequestComposer: what customFetch receives is an   *)
(* options literal of SentOptions, exactly once the call has sent.  The   *)
(* argument is CInv again, with ComposeTyped: Compose of a well-formed    *)
(* argument and answer is such a literal, the CASE of payloadFormatter     *)
(* covering every content type a call can carry.                           *)
(***************************************************************************)

\* Every generated wrapper sends JSON and passes a body or not.
LEMMA DescriptorShape ==
    ASSUME NEW d \in Descriptors
    PROVE  d.type = "application/json" /\ d.body \in BOOLEAN
<1>1. \A q, b \in BOOLEAN : Shape(q, b).type = "application/json"
                           /\ Shape(q, b).body \in BOOLEAN
  BY DEF Shape
<1>. QED
  BY <1>1, Zenon DEF Descriptors, AccountEndpoints, AdminEndpoints,
                     ApiEndpoints, AuthEndpoints, MeEndpoints,
                     PasswordEndpoints, SignupEndpoints, VerifyEndpoints

\* What a request argument holds, whichever wrapper built it.
LEMMA ArgFields ==
    ASSUME NEW a \in AllArgs
    PROVE  /\ a.type \in ContentTypes \cup {None, Unset}
           /\ a.format \in OptVals \cup {"json", None, Unset}
           /\ a.baseUrl \in OptVals \cup {Unset}
           /\ a.params \in ParamLayers
<1>1. PICK d \in Descriptors : a \in Args(d)
  BY DEF AllArgs
<1>2. d.type = "application/json"
  BY DescriptorShape
<1>. QED
  BY <1>1, <1>2, RequestComposerAssumption DEF Args, Spread, ContentTypes

\* payloadFormatter yields one of the body kinds for every type a call
\* carries: the CASE has an arm for each content type.
LEMMA PayloadTyped ==
    ASSUME NEW type \in ContentTypes \cup {None, Unset}, NEW body
    PROVE  PayloadFormatter(type, body) \in BodyPayloads
<1>. DEFINE ft == IF Truthy(type) THEN type ELSE Json
<1>1. ft \in ContentTypes
  BY DEF Truthy, Json, ContentTypes
<1>. QED
  BY <1>1 DEF PayloadFormatter, BodyPayloads, ContentTypes, Json, FormData

LEMMA ComposeTyped ==
    ASSUME base \in BaseLayers, NEW a \in AllArgs, NEW p2 \in SecureLayers
    PROVE  Compose(a, p2) \in SentOptions
<1>. DEFINE l2 == IF p2 = None THEN EmptyLayer ELSE p2
            rp == MergeRequestParams(a.params, p2)
<1>1. /\ a.type \in ContentTypes \cup {None, Unset}
      /\ a.format \in OptVals \cup {"json", None, Unset}
      /\ a.baseUrl \in OptVals \cup {Unset}
      /\ LayerTyped(a.params)
  BY ArgFields DEF ParamLayers, Layers, LayerTyped
<1>2. LayerTyped(base) /\ LayerTyped(l2)
  BY DEF BaseLayers, Layers, LayerTyped, SecureLayers, EmptyLayer
<1>3. /\ rp.headers \in [HeaderKeys -> HeaderVals \cup {Unset}]
      /\ rp.opts \in [OptKeys -> OptVals \cup {Unset}]
  BY <1>1, <1>2 DEF MergeRequestParams, Over, LayerTyped
<1>4. Over(rp.headers, TypeHeader(a.type))
        \in [HeaderKeys -> HeaderVals \cup ContentTypes \cup {Unset}]
  BY <1>1, <1>3 DEF Over, TypeHeader, Truthy
<1>5. [k \in OptKeys |->
         CASE k = "format" ->
                IF Truthy(a.format) THEN a.format ELSE rp.opts[k]
           [] k = "baseUrl" ->
                IF Truthy(a.baseUrl) THEN a.baseUrl ELSE ClientBaseUrl
           [] OTHER -> rp.opts[k]]
        \in [OptKeys -> OptVals \cup {"json", None, Unset}]
  BY <1>1, <1>3, RequestComposerAssumption DEF Truthy
<1>6. PayloadFormatter(a.type, a.body) \in BodyPayloads
  BY <1>1, PayloadTyped
<1>. QED
  BY <1>4, <1>5, <1>6 DEF Compose, SentOptions

LEMMA InitTypeOK == Init => TypeOK
  BY DEF Init, TypeOK, SecureLayers

LEMMA NextTypeOK == TypeOK /\ CInv /\ [CNext]_cvars => TypeOK'
<1> SUFFICES ASSUME TypeOK, CInv, [CNext]_cvars PROVE TypeOK'
  OBVIOUS
<1>0. Unset \notin SentOptions
  BY RequestComposerAssumption
<1>1. CASE Request
  <2>1. PICK a \in AllArgs :
          /\ arg' = a
          /\ IF UsesWorker(a)
               THEN stage' = "securing" /\ UNCHANGED sent
               ELSE stage' = "sent" /\ sent' = Compose(a, None)
    BY <1>1 DEF Request
  <2>2. stage = "idle" /\ sent = Unset /\ UNCHANGED <<base, secure>>
    BY <1>1 DEF Request, TypeOK
  <2>3. Compose(a, None) \in SentOptions
    BY <2>2, ComposeTyped DEF TypeOK, SecureLayers
  <2>. QED
    BY <1>0, <2>1, <2>2, <2>3 DEF TypeOK
<1>2. CASE SecurityWorkerResolve
  <2>1. PICK s \in SecureLayers : secure' = s /\ sent' = Compose(arg, s)
    BY <1>2 DEF SecurityWorkerResolve
  <2>2. stage' = "sent" /\ UNCHANGED <<base, arg>> /\ arg \in AllArgs
    BY <1>2 DEF SecurityWorkerResolve, CInv
  <2>3. Compose(arg, s) \in SentOptions
    BY <2>2, ComposeTyped DEF TypeOK
  <2>. QED
    BY <1>0, <2>1, <2>2, <2>3 DEF TypeOK
<1>3. CASE SecurityWorkerReject
  BY <1>3 DEF SecurityWorkerReject, TypeOK
<1>4. CASE UNCHANGED cvars
  BY <1>4 DEF cvars, TypeOK
<1>. QED
  BY <1>1, <1>2, <1>3, <1>4 DEF CNext

\* request's composition: in every reachable state the options customFetch
\* received are a well-formed literal (headers, format and origin options,
\* a formatted body), present exactly once the call has sent, for every
\* value of the constants.
THEOREM ComposerTypeCorrect == CSpec => []TypeOK
<1>1. Init => TypeOK /\ CInv
  BY InitTypeOK, InitCInv
<1>2. TypeOK /\ CInv /\ [CNext]_cvars => TypeOK' /\ CInv'
  BY NextTypeOK, NextCInv
<1>. QED
  BY <1>1, <1>2, PTL DEF CSpec

====
