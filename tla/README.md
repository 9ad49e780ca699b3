# Verification project: the generated HTTP client (`src/swag_docs/Api.ts`)

The repository's TypeScript source is one generated file. It holds the resource
schemas (lines 13-408, types only), the request types (409-460), the generic
client `HttpClient` (462-663) and the class `Api` of generated per-endpoint
wrappers (665-1391). This directory holds TLA+ modules that model the client,
TLC configurations that check them, and TLAPS proofs.

## 1. Inventory

### Components and their state

| Component | Code | State | Operations |
|---|---|---|---|
| Client (`request`) | 593-662 | per call: its argument, phase, signal, response status, outcome | `request` |
| CancellationRegistry | 466, 568-591, 655-657 | `abortControllers: Map<CancelToken, AbortController>` | `createAbortSignal`, `abortRequest`, delete-on-completion |
| Security-data slot | 464-465, 481-483, 604-608 | `securityData`, `securityWorker` | `setSecurityData`; read by `request` |
| RequestComposer | 470-475, 552-566, 617-627 | `baseApiParams` (config only) | `mergeRequestParams`, Content-Type, signal choice |
| QueryCodec | 485-516 | none | `toQueryString` and its helpers |
| BodyCodec | 518-550 | none | `contentFormatters[type]` |
| Endpoint wrappers (`Api`) | 669-1391 | none | 30 wrappers, each a literal call of `request` |
| Transport, securityWorker | external | - | `customFetch`, the security callback |

### How they interact

A wrapper calls `request({path, method, query?, body?, type, format, ...params})`.
`request` is an `async` function. It runs synchronously up to its first
`await`, so several calls interleave only at three suspension points:

1. `await this.securityWorker(this.securityData)` runs only when the call is
   secure and a worker is configured (604-608). `securityData` is read when the
   worker is called. A later `setSecurityData` does not reach a call that has
   read it; spec 5 and 9 make this snapshot at read time the contract, so
   the project states no property about it.
2. `customFetch(...)` (614). The options literal is evaluated in order: the
   headers, then `signal` (`createAbortSignal(cancelToken)`, which registers a
   controller), then `body` (`payloadFormatter(body)`, which may throw).
3. `await responseToParse[responseFormat]()` (641) parses a clone of the
   response. Only calls that have a response format reach it.

Shared state: all calls share `abortControllers` and `securityData`. Other
callers can run `abortRequest(token)` and `setSecurityData(v)` at any point.

### What is hard

- Stale delete on the registry. Tokens are deleted by key, not by controller,
  after the fetch and body awaits (656). Calls that share a token share one
  controller, and spec 4.3 accepts that completing one removes it. But a
  call can also remove the brand-new controller that a later call of the
  same token registered in the meantime.
- Evaluation order and partial failure. A controller is registered before
  the body is encoded. A failed fetch skips the cleanup, because the cleanup
  sits inside `.then`.
- A cancellation that races the three suspension points:
  - during compose, the controller does not exist yet;
  - during fetch, fetch rejects;
  - during parse, the failure is caught into `r.error`.
- JavaScript truthiness. `cancelToken ?` ignores the legal tokens `0` and `""`.
- Classification. A response that is not ok is thrown with its envelope. An ok
  one is returned. `data`/`error` are set only when a format is requested.

### What makes each component correct

- Registry:
  - it never holds an aborted controller;
  - an abort reaches every call using the token;
  - no controller outlives the calls that use it.
- Client:
  - the outcome agrees with `response.ok`;
  - exactly one of `data` and `error` is set when a format is requested;
  - an aborted call fails.
- Codecs and composer: these are pure functions, correct against a reference
  definition (round trip for the query string, last-layer-wins for headers).

## 2. Modules

| Module | Models | Notes |
|---|---|---|
| `Endpoints` | class `Api` | Each wrapper is reduced to its shape: whether it passes a query, whether it passes a body, its content type and its format. `Spread` is the `...params` that wrappers put last. |
| `HttpClient` | `HttpClient` core | The request lifecycle, the registry, the security slot, the properties, the inductive invariant `IInv`, fairness and the refinement mapping to `RequestLifecycle`. |
| `RequestLifecycle` | spec 4.5, 5 | The abstract specification: what `request` promises its caller, with no mechanism. |
| `RequestComposer` | 518-566, 593-632 | What one call hands to `customFetch`: layers merged by `mergeRequestParams`, Content-Type, response format, origin, and the kind of body `contentFormatters` produce. |
| `QueryCodec` | 485-516 | `toQueryString` and its helpers over strings of a small alphabet, with a URLSearchParams decoder as reference. Recursive, so used by TLC only. |
| `MC_HttpClient`, `MC_RequestComposer`, `MC_QueryCodec` | - | TLC instance definitions. |
| `HttpClientProofs` | - | TLAPS proofs of `TypeOK`, `IInv`, `RegisteredSignalLive` and the action property `RegistryEntryFresh`. |
| `LifecycleProofs` | - | TLAPS proof that `HttpClient` implements the safety part of `RequestLifecycle`. |
| `SettlementProofs` | - | TLAPS proofs of `SettledCallUnregistered` and `EnvelopeMatchesStatus`. |
| `ComposerProofs` | - | TLAPS proof of `LastLayerWins` for every value of `RequestComposer`'s constants. |

### `HttpClient`: state and actions

Variables and the code they stand for:

| Variable | Code |
|---|---|
| `abortControllers` | the Map, with `None` where there is no entry |
| `aborted` | the controllers whose `abort()` has run |
| `securityData` | the security-data slot |
| `pc[c]` | the suspension point of call `c`: `idle`, `securing`, `fetching`, `parsing` or `done` |
| `arg[c]` | the argument of call `c` |
| `ctrl[c]` | the controller whose signal call `c` sent |
| `cred[c]` | the `securityData` value call `c` handed to its worker |
| `status[c]` | `response.ok` of call `c`'s response |
| `result[c]` | how the promise of call `c` settled |
| `abortAsked` | history variable only: the calls whose token was aborted while they ran |

A controller is named by the call that created it.

Actions, one per segment of code between suspension points:

| Action | Code |
|---|---|
| `Request` | 593-608; goes on through `Issue` (609-632) when no worker is awaited |
| `SecurityWorkerResolve` / `SecurityWorkerReject` | the worker's promise settles |
| `FetchResolve` | the then-callback, up to the parse or, with no format, to the end |
| `FetchReject` | a network failure |
| `FetchAbort` | the signal was aborted |
| `ParseResolve` / `ParseReject` | 638-660; `ParseAbort` is the rejection of an aborted body read |
| `AbortRequest` | 584-591 |
| `SetSecurityData` | 481-483 |

Modelling choices:

- Query and body values are reduced to `plain` or `unserialisable`. That is
  all the control flow distinguishes: whether `toQueryString` or
  `payloadFormatter` throws.
- A caller-supplied `params.signal` is not modelled: the model takes `None`
  when no token is passed.
- The environment actions (fetch answering, body parsing) take no fairness:
  the code has no timeout, and the network may never answer.

### Fairness (`FairSpec`)

`Fairness` puts weak fairness on two steps only:

- `FetchAbort(c)`: fetch rejects once the signal it holds is aborted;
- `ParseAbort(c)`: the body read rejects once the call's signal is aborted.

The platform guarantees both: an aborted signal rejects the pending fetch or
body promise, and the event loop then runs the continuation. No other step
gets fairness. The network may never answer, the securityWorker may never
settle, and nobody is obliged to call `request` or `abortRequest`. The code
has no timeout (spec 5), so nothing else is guaranteed to happen.

### `RequestLifecycle` and the refinement mapping

`RequestLifecycle` has one phase per call (`idle`, `pending`, `settled`), a
verdict and the set of cancelled calls. It has four actions:

- `Start`;
- `Settle`, once, possibly straight from idle for a call that throws before
  its first await;
- `Cancel`, which only adds started calls;
- the fair `SettleCancelled`: a cancelled pending call eventually settles.

`HttpClient` maps to it by:

- `LPhase`: `idle`/`done` go to `idle`/`settled`; the three in-flight phases
  go to `pending`;
- the verdict: `result[c].how`;
- `LCancelled`: the calls whose sent signal is aborted.

A call whose token was aborted before its controller existed is *not*
cancelled under this mapping. That is the abort the code loses.

### `RequestComposer`: state and actions

A layer is a record of `headers` and `opts`, each a function from names to
values, with `Unset` for a missing key. `Over(a, b)` is the object spread
`{...a, ...b}`. The state holds:

- `base`: `baseApiParams`, chosen once;
- `arg`: the call's argument;
- `secure`: the securityWorker's answer;
- `sent`: the options `customFetch` receives.

The actions are:

- `Request`: the secure decision, then either suspending on the worker or
  composing at once;
- `SecurityWorkerResolve`, with any `RequestParams` or nothing;
- `SecurityWorkerReject`.

`Compose` is lines 609-632: the merge, then the type's Content-Type spread
last, `format || requestParams.format`, `baseUrl || this.baseUrl`, and
`PayloadFormatter`, which is `contentFormatters[type || Json]` applied to a
body that is neither undefined nor null.

### `QueryCodec`

A string is a sequence of one-character strings.

- `EncodeURIComponent` escapes space, `&`, `=`, `+` and `%` and leaves
  letters and digits alone.
- `Decimal` writes a number's digits.
- `StringForm` is `${value}`.
- `ToQueryString` filters undefined values, expands arrays, and joins with
  `&`.

The reference decoder (`Split`, `PercentDecode`, `DecodePair`, `Decode`)
follows the URLSearchParams parser.

## 3. Runs

| Run | Module | cfg | Expect | Checks |
|---|---|---|---|---|
| registry_envelope | `MC_HttpClient` | `MC_HttpClient.cfg` | pass | `RegisteredSignalLive`, `SettledCallUnregistered`, `EnvelopeMatchesStatus`, `IInv`, `RegistryEntryFresh` (action property) |
| lifecycle_refinement | `MC_HttpClient` | `MC_Lifecycle.cfg` | pass | `ImplementsLifecycle` (refinement and liveness under `FairSpec`) |
| composer_precedence | `MC_RequestComposer` | `MC_RequestComposer.cfg` | pass | `LastLayerWins` |
| query_round_trip | `MC_QueryCodec` | `MC_QueryCodec.cfg` | pass | `RoundTrip` |
| cleanup_foreign_handle | `MC_HttpClient` | `MC_CleanupForeignHandle.cfg` | violation | `HandleRemovedByItsCall` (action property) |
| abort_falsy_token | `MC_HttpClient` | `MC_AbortFalsyToken.cfg` | violation | `AbortReachesEveryCall` |
| abort_during_parse | `MC_HttpClient` | `MC_AbortDuringParse.cfg` | violation | `AbortedCallFails` |
| leak_network_error | `MC_HttpClient` | `MC_LeakOnNetworkError.cfg` | violation | `NoLeakedHandle` |
| leak_encode_error | `MC_HttpClient` | `MC_LeakOnEncodeError.cfg` | violation | `NoLeakedHandle` |
| abort_lost_hangs | `MC_HttpClient` | `MC_AbortLostHangs.cfg` | violation | `AbortedRequestSettles` (under `FairSpec`) |
| content_type_default | `MC_RequestComposer` | `MC_ContentTypeDefault.cfg` | violation | `ContentTypeDescribesBody` |
| query_empty_array | `MC_QueryCodec` | `MC_QueryEmptyArray.cfg` | violation | `NoEmptySegment` |

The runs of `RequestComposer` and `QueryCodec` compute one request each and
then stop, so they say `CHECK_DEADLOCK FALSE`.

### Bounds of the passing runs

The passing run explores about 2.6 million distinct states in about a minute.
Its bounds:

- two calls (`c1`, `c2`);
- one truthy token (`t1`), the smallest instance in which two calls share a
  controller;
- two security values (`None`, `s1`);
- a configured worker;
- `params.secure` may be unset, true or false;
- `params.format` may be unset, or `undefined` over a base format of `None`, so
  both the parsing and the non-parsing branch occur;
- query and body values may be plain or unserialisable.

Every action and every branch of `Issue` fires. More calls add only
permutations of the same interleavings on one token.

The refinement run `lifecycle_refinement` keeps two calls and one token.
It fixes the security data and the format, and lets `params.secure` be true,
so that the worker is awaited. That is about 600,000 states, and it checks
the temporal property in about 40 seconds.

The composer run enumerates every layer over two headers (one of them
Content-Type, with two values that are content types) and the credentials
option. The type is JSON, undefined or FormData. The body is an object or
null. The base's `secure` flag is unset, true or false, and
`params.secure` is unset or false, so the worker is called or not. Every
precedence case among the three layers and the type occurs.

The codec run takes every query of up to two keys. The two keys are `k`
and `&=`. The values are:

- the strings `+`, `% ` and the empty string;
- the numbers 0 and 12;
- null and undefined;
- arrays of up to two items, the empty array included.

This reaches every escape, a two-digit number, a key that needs escaping,
and the filtered and the array paths.

### Violation runs and what they show

Each violation run checks one claim of the spec against what the code does.
The details are in `PROJECT.json` "findings".

- Foreign handle (spec §3, §8.4). Call A is parsing its body when
  `abortRequest(t1)` aborts and unregisters its controller. Call B then
  starts with `t1` and gets a brand-new controller. A's parse fails with the
  AbortError, and A's cleanup deletes `t1`, which is B's controller. From then
  on `abortRequest(t1)` cannot cancel B. Two calls sharing one controller,
  where completing one removes it, is the coupling spec 4.3 accepts; it is
  not what this run flags.
- Falsy token. A call with token `0` never gets a controller.
- Abort during parse (spec §5). The response is ok and the parse fails with an
  AbortError. The call resolves as a success with `error` set.
- Leaks (spec §7). A rejected fetch leaves the token registered. So does a body
  that fails to serialise after the signal was created.
- Compose-time abort (spec §5), checked under `FairSpec`. `abortRequest`
  issued while the call awaits the worker finds no controller yet. The call
  then registers a fresh one and goes out un-aborted. With no timeout, it may
  wait on the network forever.
- Content-Type default (spec §3, §4.5). `params.type = undefined` gives a
  JSON-encoded body with no Content-Type header.
- Empty array (spec §4.1). `{k: null, x: []}` encodes as `k=null&`.

## 4. Proofs (TLAPS)

### `HttpClientProofs`

Four theorems are proved for every value of the constants:

- `TypeCorrect`: `Spec => []TypeOK`.
- `RegistryInvariant`: `Spec => []IInv`.
- `RegistryHoldsLiveSignals`: `Spec => []RegisteredSignalLive`.
- `RegistryOverwritesNothing`: `Spec => RegistryEntryFresh`. This is an
  action property: a step changes a token's entry only by deleting it, or by
  registering, where there was none, the fresh and unaborted controller of
  the call issuing in that step. So `createAbortSignal` never overwrites a
  live controller (Api.ts 571-580).

They rest on the named assumption `HttpClientAssumption`. It says that
`None` differs from every call, token and `Unset`, and from the strings
`"response"`, `"body"`, `"parseError"` and `"abortError"` (`undefined` is not
a string). It also says the parameters lie in their sets.

`RegisteredSignalLive` is not inductive by itself. `AbortRequest(t)` adds
`abortControllers[t]` to `aborted`, and another token could still map to that
controller. `IInv` strengthens it with three conjuncts:

- `RegisteredByOwner`: a registered controller belongs to a call past the
  compose phase, registered under that call's own token. This is why aborting
  `t` cannot touch another token's controller.
- `AbortedWereIssued`: only such calls' controllers are aborted. This is why
  the fresh controller `createAbortSignal` creates is never already aborted.
- `StartedHaveArgs`: a started call holds a well-formed argument.

The proof is arranged as follows:

- `InitIInv` proves `Init => IInv`.
- `NextIInv` proves `IInv /\ [Next]_vars => IInv'`, one step per action.
- `IssueIInv` covers the synchronous run to fetch, which two actions share.
- `ProgressIInv` covers every step that moves a call forward and only removes
  registry entries.
- `CleanupShrinks`, `ArgShape` and `OutcomeShape` are lemmas about the helpers.

The action property follows from `IInv`:

- `IssueRegistry`: the run to fetch changes an entry only from none to the
  issuing call's own controller.
- `RegistryStepOK`: every other step at most deletes entries.

TLC also checks `IInv` and `RegistryEntryFresh` in the run
`registry_envelope`.

### `SettlementProofs`

There are two theorems, and the invariant they rest on:

- `SettledCallsUnregistered`: `Spec => []SettledCallUnregistered`.
- `EnvelopeClassification`: `Spec => []EnvelopeMatchesStatus`.
- `SettlementInvariant`: `Spec => []SInv`, the inductive invariant of both.

Neither property is inductive alone. A later `createAbortSignal` by another
call on the same token could register a controller. The proof has to show
that this controller is never the one a settled call sent. `SInv` adds four
conjuncts to `IInv`:

- `CtrlOwned`: a controller a call sent was created by a call past
  `securing`. An issuing call is still at `idle` or `securing`, so the fresh
  controller it registers differs from every controller already sent.
- `TokenCallsHoldCtrl`: a call with a truthy token that is waiting on the
  network or the body, or has settled on a response, holds a controller.
  So the entry its cleanup sets to none differs from that controller.
- `PendingUntilDone`: a call's outcome is `Pending` until it is done. So a
  settled call's argument, controller and outcome never change again.
- `ParsingShape`: a call waiting on its body has a Boolean `status` and a
  format. So the envelope fixed when the body settles agrees with
  `response.ok`.

The proof is arranged as follows:

- `InitSInv` proves `Init => SInv`.
- `NextSInv` proves `SInv /\ [Next]_vars => SInv'`, one step per action. It
  reuses `NextIInv` for the `IInv` part.
- `IssueSInv` covers the run to fetch.
- `SettleSInv` covers every step that moves a call to parsing or done and
  only removes registry entries.
- `CleanupUnregisters` and `EnvelopeShapes` are lemmas about `Cleanup` and
  the envelopes the code builds.

TLC checked `SInv` on the instance of `registry_envelope` (2,625,330
distinct states) before the proof relied on it. `SInv` is a proof device,
not a claim about the code beyond its two properties, so no run checks it
any more.

### `ComposerProofs`

There are two theorems.

`ComposerPrecedence`: `CSpec => []LastLayerWins`, for any header names, values,
option values, caller params and securityWorker answers.

The inductive invariant is `CInv` (in `RequestComposer`). It says what
`customFetch` received is `Compose(arg, secure)`, and `secure` stays `None`
until the worker answers. TLC checked `CInv` on the instance of
`composer_precedence` (229,716 states) before the proof relied on it.

The proof uses these lemmas:

- `OverAt`: a key of `{...a, ...b}` is `b`'s when `b` sets it.
- `LastSetTop`: the reference `LastSet`, defined with `CHOOSE` of the highest
  setter, is the value of layer 3, else layer 2, else layer 1.
- `LayersTyped`: every layer has every key.
- `CInvLastLayerWins`: `mergeRequestParams`' spread order, followed by the
  type's Content-Type, gives what `LastLayerWins` states.

`ComposerTypeCorrect`: `CSpec => []TypeOK`. What `customFetch` receives is
an options literal of `SentOptions`:

- headers over the header names;
- the `credentials`, `format` and `baseUrl` options;
- a body of one of payloadFormatter's kinds.

It is present exactly once the call has sent. The inductive invariant is
`TypeOK /\ CInv`. The proof uses these lemmas:

- `DescriptorShape`: every generated wrapper sends JSON.
- `ArgFields`: what a wrapper's argument holds after the caller's spread.
- `PayloadTyped`: payloadFormatter's `CASE` has an arm for every content
  type a call can carry, so it never falls off its arms.
- `ComposeTyped`: `Compose` of a well-formed argument and worker answer lies
  in `SentOptions`.

`RequestComposerAssumption` gained `Unset \notin SentOptions`. `Unset` stands
for "no such key", never for an options object, so no options literal is
`Unset`. This is what lets `sent # Unset` mark the calls that have sent.
TLC evaluates the assumption on every run of `MC_RequestComposer`, and it
checked `TypeOK /\ CInv` on the instance of `composer_precedence`
(229,716 states) before the proof relied on it.

### `LifecycleProofs`

`ImplementsLifecycleSafety`: `Spec => Lifecycle!LSafeSpec`. The argument has
two parts. Initial states map to `LInit`. Every `Next` step maps to a
`LNext` step or to a stutter of the mapped variables.

The step needs a stronger invariant, `LInv`. It is `IInv` plus:

- `CtrlAfterIssue`: a call that has not issued its fetch holds no
  controller. So the call is not already cancelled when it starts.
- `SettledIffDone`: a call's result is pending exactly until it is done. So
  a settle step is a `Settle` from a non-settled phase, and other steps
  leave the verdict alone.

The proof has one lemma per kind of step:

- `MapStart`: the call goes to securing or fetching;
- `MapSettle`: the call goes to done;
- `MapStutter`;
- for `AbortRequest`, a `Cancel` that adds only calls past issue.

`NextLifecycle` combines these lemmas. `LInvalways` gives `Spec => []LInv`.

### What stays with TLC

- Liveness: `ImplementsLifecycle` with its fairness, and
  `AbortedRequestSettles`. Also anything about `ENABLED`. The installed
  provers do not reason about fairness.
- `QueryCodec`. Its operators are `RECURSIVE`, and a module that reaches one
  loses the SMT backend. Induction over strings would also need the
  library's operator-parameter theorems, which no installed prover can
  instantiate. `RoundTrip` is checked over the bounded inputs only.
- The violation runs, whose properties do not hold by design. Among them is
  `ContentTypeDescribesBody`.

## 5. Plan

Done:

- `Endpoints` and `HttpClient`, with proofs of `TypeOK`, `IInv`,
  `RegisteredSignalLive`, `RegistryEntryFresh`,
  `SettledCallUnregistered` and `EnvelopeMatchesStatus`;
- fairness, liveness and the abstract `RequestLifecycle`, with a TLC-checked
  refinement and a TLAPS proof of its safety part;
- `RequestComposer`, which includes the BodyCodec, with proofs of
  `TypeOK` and `LastLayerWins`, and `QueryCodec`.

Next:

1. Compose `RequestComposer` into `HttpClient`, so that the security
   credentials a call sends (`cred` and the worker's answer) become one
   state. Then a property can relate a `setSecurityData` to the headers of
   the calls that read it.
2. Check spec 4.4's "the security layer wins for every field" against
   `format || requestParams.format` (612) and `baseUrl || this.baseUrl`
   (615). `Compose` already models both: the worker's `format` and `baseUrl`
   lose.
3. Model a caller-supplied `params.signal` (line 626) next to the token path.

## 6. Not modelled

- The resource schemas: they are types only.
- Paths, methods and URLs: no state depends on them.
- The transport and security-worker internals: they are external; only their
  answers are modelled.
- Header values that are `undefined`: a key present with the value
  undefined overrides a lower layer and reaches fetch as the text
  "undefined". The layers carry only defined values.
- Object.keys order: integer-like keys come first. The round trip compares
  multisets, so the order of the entry sequence is taken as given.
- The FormData and JSON texts themselves: `PayloadFormatter` gives the kind of
  payload, not its bytes.
