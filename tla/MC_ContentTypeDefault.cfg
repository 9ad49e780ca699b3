\* Spec 3 and 4.5: does a sent body always carry the Content-Type of the
\* content type it was encoded with?
CONSTANTS
    HeaderKeys = {"Authorization", "Content-Type"}
    HeaderVals <- MCHeaderVals
    OptKeys = {"credentials"}
    OptVals = {o1, o2}
    ParamTypes <- MCParamTypes
    ParamFormats = {Unset}
    ParamSecures = {Unset, FALSE}
    ParamBaseUrls = {Unset}
    BodyKinds = {"object", "null"}
    ClientBaseUrl = None
    HasWorker = TRUE
    None = None
    Unset = Unset
INIT Init
NEXT CNext
INVARIANT ContentTypeDescribesBody
CHECK_DEADLOCK FALSE
