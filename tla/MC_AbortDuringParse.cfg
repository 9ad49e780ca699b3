\* One call, one token, aborted while its response body is parsed.
CONSTANTS
    Calls = {c1}
    Tokens = {t1}
    FalsyTokens = {}
    SecValues = {None}
    Payloads = {"plain"}
    HasWorker = FALSE
    BaseSecure = Unset
    BaseFormat = None
    ParamSecure = {Unset}
    ParamFormat = {Unset}
    None = None
    Unset = Unset

SPECIFICATION Spec

INVARIANT AbortedCallFails
