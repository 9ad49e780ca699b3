\* toQueryString over every query of up to two keys: round trip through the
\* URLSearchParams decoder.
CONSTANTS
    Keys <- MCKeys
    Strings <- MCStrings
    Numbers <- MCNumbers
    MaxItems = 2
INIT Init
NEXT Encode
INVARIANT RoundTrip
CHECK_DEADLOCK FALSE
