--------------------------- MODULE MC_QueryCodec ---------------------------
(***************************************************************************)
(* A small instance of QueryCodec for TLC: keys and values that hold the   *)
(* characters the encoding must escape ("&", "=", "+", "%", space), the    *)
(* empty string, a one- and a two-digit number, null, undefined, and      *)
(* arrays of up to two items (the empty one included).                     *)
(***************************************************************************)
EXTENDS QueryCodec

MCKeys == {<<"k">>, <<"&", "=">>}

MCStrings == {<<"+">>, <<"%", " ">>, <<>>}

MCNumbers == {0, 12}

====
