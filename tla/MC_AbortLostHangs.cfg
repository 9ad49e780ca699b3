\* Liveness of abortRequest under the platform fairness: an abort issued
\* while the call awaits its securityWorker is lost, and with no timeout
\* the call can then wait on the network forever.
CONSTANTS
    Calls = {c1}
    Tokens = {t1}
    FalsyTokens = {}
    SecValues = {None}
    Payloads = {"plain"}
    HasWorker = TRUE
    BaseSecure = Unset
    BaseFormat = None
    ParamSecure = {TRUE}
    ParamFormat = {Unset}
    None = None
    Unset = Unset

SPECIFICATION FairSpec

PROPERTY AbortedRequestSettles
