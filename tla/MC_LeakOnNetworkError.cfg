\* One call with a token whose fetch fails; every value serialises.
CONSTANTS
    Calls = {c1}
    Tokens = {t1}
    FalsyTokens = {}
    SecValues = {None}
    Payloads = {"plain"}
    HasWorker = FALSE
    BaseSecure = Unset
    BaseFormat = None
    ParamSecure = {Unset}
    ParamFormat = {Unset}
    None = None
    Unset = Unset

SPECIFICATION Spec


INVARIANT NoLeakedHandle
