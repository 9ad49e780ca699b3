\* One call with a token whose body fails to serialise.
CONSTANTS
    Calls = {c1}
    Tokens = {t1}
    FalsyTokens = {}
    SecValues = {None}
    Payloads = {"unserialisable"}
    HasWorker = FALSE
    BaseSecure = Unset
    BaseFormat = None
    ParamSecure = {Unset}
    ParamFormat = {Unset}
    None = None
    Unset = Unset

SPECIFICATION Spec


INVARIANT NoLeakedHandle
