\* Spec 4.1: is the query string always the pairs joined by "&", with no
\* empty segment?
CONSTANTS
    Keys <- MCKeys
    Strings <- MCStrings
    Numbers <- MCNumbers
    MaxItems = 2
INIT Init
NEXT Encode
INVARIANT NoEmptySegment
CHECK_DEADLOCK FALSE
