\* Two calls use one token, one after the other; no securityWorker.
CONSTANTS
    Calls = {c1, c2}
    Tokens = {t1}
    FalsyTokens = {}
    SecValues = {None}
    Payloads = {"plain"}
    HasWorker = FALSE
    BaseSecure = Unset
    BaseFormat = None
    ParamSecure = {Unset}
    ParamFormat = {Unset}
    None = None
    Unset = Unset

SPECIFICATION Spec

PROPERTY HandleRemovedByItsCall
