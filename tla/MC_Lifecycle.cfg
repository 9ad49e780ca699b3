\* HttpClient under the platform's fairness implements RequestLifecycle:
\* two calls sharing one token, a securityWorker, all payload kinds.
CONSTANTS
    Calls = {c1, c2}
    Tokens = {t1}
    FalsyTokens <- MCNoFalsy
    SecValues = {None}
    Payloads <- MCPayloads
    HasWorker = TRUE
    BaseSecure = Unset
    BaseFormat = None
    ParamSecure <- MCParamSecure
    ParamFormat <- MCParamFormat
    None = None
    Unset = Unset

SPECIFICATION FairSpec

PROPERTY ImplementsLifecycle
