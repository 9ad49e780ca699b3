\* Header precedence over every combination of base, params and
\* securityWorker layers, for two header names and the credentials option.
CONSTANTS
    HeaderKeys = {"Authorization", "Content-Type"}
    HeaderVals <- MCHeaderVals
    OptKeys = {"credentials"}
    OptVals = {o1, o2}
    ParamTypes <- MCParamTypes
    ParamFormats = {Unset}
    ParamSecures = {Unset, FALSE}
    ParamBaseUrls = {Unset}
    BodyKinds = {"object", "null"}
    ClientBaseUrl = None
    HasWorker = TRUE
    None = None
    Unset = Unset
INIT Init
NEXT CNext
INVARIANT LastLayerWins
CHECK_DEADLOCK FALSE
