\* One call passes the cancel token 0 (falsy).
CONSTANTS
    Calls = {c1}
    Tokens = {t0}
    FalsyTokens = {t0}
    SecValues = {None}
    Payloads = {"plain"}
    HasWorker = FALSE
    BaseSecure = Unset
    BaseFormat = None
    ParamSecure = {Unset}
    ParamFormat = {Unset}
    None = None
    Unset = Unset

SPECIFICATION Spec

INVARIANT AbortReachesEveryCall
