\* The registry and envelope invariants over two calls sharing one token,
\* with a securityWorker and secure calls possible.
CONSTANTS
    Calls = {c1, c2}
    Tokens = {t1}
    FalsyTokens <- MCNoFalsy
    SecValues = {None, s1}
    Payloads <- MCPayloads
    HasWorker = TRUE
    BaseSecure = Unset
    BaseFormat = None
    ParamSecure <- MCParamSecure
    ParamFormat <- MCParamFormat
    None = None
    Unset = Unset

SPECIFICATION Spec

INVARIANT RegisteredSignalLive
INVARIANT SettledCallUnregistered
INVARIANT EnvelopeMatchesStatus
INVARIANT IInv
PROPERTY RegistryEntryFresh
