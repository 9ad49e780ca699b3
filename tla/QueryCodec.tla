----------------------------- MODULE QueryCodec -----------------------------
(***************************************************************************)
(* toQueryString and its helpers (src/swag_docs/Api.ts 485-516), and the  *)
(* query part of the URL request() builds (614).                           *)
(*                                                                         *)
(* A string is a sequence of one-character strings.  encodeURIComponent  *)
(* is modelled by what it does on a small alphabet: letters and digits    *)
(* pass, every other character becomes %XY.  A query object is a         *)
(* sequence of [key, val] entries, in the order Object.keys returns them. *)
(* A value is a record tagged with its JavaScript type.                   *)
(*                                                                         *)
(* The reference is the application/x-www-form-urlencoded parser of      *)
(* URLSearchParams: split on "&", skip empty segments, split at the first *)
(* "=", turn "+" into a space and percent-decode.                          *)
(*                                                                         *)
(* Only TLC uses this module: its operators are recursive.                *)
(***************************************************************************)
EXTENDS Naturals, Sequences, SequencesExt

CONSTANTS
    Keys,     \* key strings
    Strings,  \* string values
    Numbers,  \* number values (naturals)
    MaxItems  \* longest array value

VARIABLES
    query,    \* the rawQuery object passed to toQueryString
    out       \* the string it returns, <<"?">> before the call

qvars == <<query, out>>

Digits == <<"0", "1", "2", "3", "4", "5", "6", "7", "8", "9">>

\* The characters encodeURIComponent leaves alone (the ones used here).
Unreserved == {"a", "b", "k", "n", "u", "l", "d", "e", "f", "i"} \cup ToSet(Digits)

\* The percent-encoding of the reserved characters used here.
Escapes == [c \in {" ", "&", "=", "+", "%"} |->
              CASE c = " " -> <<"%", "2", "0">>
                [] c = "&" -> <<"%", "2", "6">>
                [] c = "=" -> <<"%", "3", "D">>
                [] c = "+" -> <<"%", "2", "B">>
                [] c = "%" -> <<"%", "2", "5">>]

\* encodeURIComponent
EncodeURIComponent(s) ==
    FlattenSeq([i \in DOMAIN s |-> IF s[i] \in Unreserved THEN <<s[i]>>
                                   ELSE Escapes[s[i]]])

\* The decimal digits of a number, as String(n) writes them.
RECURSIVE Decimal(_)
Decimal(n) == IF n < 10 THEN <<Digits[n + 1]>>
              ELSE Decimal(n \div 10) \o <<Digits[(n % 10) + 1]>>

Str(s) == [type |-> "string", s |-> s]
Num(n) == [type |-> "number", n |-> n]
Null == [type |-> "null"]
Undefined == [type |-> "undefined"]

Scalars == {Str(s) : s \in Strings} \cup {Num(n) : n \in Numbers}
           \cup {Null, Undefined}

\* Array values: items of a string, a number and undefined.
ArrayVals == {[type |-> "array", items |-> s] :
                s \in BoundedSeq({Str(CHOOSE s \in Strings : TRUE),
                                  Num(CHOOSE n \in Numbers : TRUE),
                                  Undefined}, MaxItems)}

Values == Scalars \cup ArrayVals

\* The template literal `${value}` (and String(number)).
StringForm(v) ==
    CASE v.type = "string" -> v.s
      [] v.type = "number" -> Decimal(v.n)
      [] v.type = "null" -> <<"n", "u", "l", "l">>
      [] v.type = "undefined" -> <<"u", "n", "d", "e", "f", "i", "n", "e", "d">>

\* [a, b, c].join(sep)
Join(ss, sep) ==
    FlattenSeq([i \in DOMAIN ss |-> IF i = 1 THEN ss[i] ELSE sep \o ss[i]])

\* Mutant: the value is put into the string without encodeURIComponent.
EncodeQueryParamRaw(key, v) ==
    EncodeURIComponent(key) \o <<"=">> \o StringForm(v)

\* encodeQueryParam(key, value)
EncodeQueryParam(key, v) ==
    EncodeURIComponent(key) \o <<"=">> \o EncodeURIComponent(StringForm(v))

\* addArrayQueryParam: one pair per item, joined by "&".
AddArrayQueryParam(key, v) ==
    Join([i \in DOMAIN v.items |-> EncodeQueryParam(key, v.items[i])], <<"&">>)

\* toQueryString(rawQuery): drop the keys whose value is undefined, map
\* each other key to its pair(s) and join them with "&".
ToQueryString(q) ==
    LET keys == SelectSeq(q, LAMBDA e : e.val.type # "undefined")
    IN  Join([i \in DOMAIN keys |->
                IF keys[i].val.type = "array"
                  THEN AddArrayQueryParam(keys[i].key, keys[i].val)
                  ELSE EncodeQueryParam(keys[i].key, keys[i].val)], <<"&">>)

\* Query objects: up to two distinct keys.
Queries ==
    {<<>>} \cup {<<[key |-> k, val |-> v]>> : k \in Keys, v \in Values}
    \cup {q \in {<<[key |-> k1, val |-> v1], [key |-> k2, val |-> v2]>> :
                   k1, k2 \in Keys, v1, v2 \in Values} : q[1].key # q[2].key}

-----------------------------------------------------------------------------

Init == query \in Queries /\ out = <<"?">>

\* toQueryString runs (via request's query && toQueryString(query), or
\* the UrlEncoded body formatter).
Encode == out = <<"?">> /\ out' = ToQueryString(query) /\ UNCHANGED query

QSpec == Init /\ [][Encode]_qvars

-----------------------------------------------------------------------------
(* The reference decoder.                                                  *)

\* s.split(sep)
RECURSIVE Split(_, _)
Split(s, sep) ==
    IF \A i \in DOMAIN s : s[i] # sep THEN <<s>>
    ELSE LET j == CHOOSE i \in DOMAIN s :
                    s[i] = sep /\ \A h \in 1..(i - 1) : s[h] # sep
         IN  <<SubSeq(s, 1, j - 1)>> \o Split(SubSeq(s, j + 1, Len(s)), sep)

\* "+" to space, then %XY to its character.
RECURSIVE PercentDecode(_)
PercentDecode(s) ==
    CASE s = <<>> -> <<>>
      [] Head(s) = "%" /\ Len(s) >= 3 /\ \E c \in DOMAIN Escapes : Escapes[c] = SubSeq(s, 1, 3) ->
           <<CHOOSE c \in DOMAIN Escapes : Escapes[c] = SubSeq(s, 1, 3)>>
           \o PercentDecode(SubSeq(s, 4, Len(s)))
      [] Head(s) = "+" -> <<" ">> \o PercentDecode(Tail(s))
      [] OTHER -> <<Head(s)>> \o PercentDecode(Tail(s))

\* One name=value segment, split at its first "=".
DecodePair(seg) ==
    LET parts == Split(seg, "=")
        rest == IF Len(parts) = 1 THEN <<>>
                ELSE Join(SubSeq(parts, 2, Len(parts)), <<"=">>)
    IN  <<PercentDecode(parts[1]), PercentDecode(rest)>>

\* new URLSearchParams(s): the name/value pairs.
Decode(s) ==
    LET segs == SelectSeq(Split(s, "&"), LAMBDA g : g # <<>>)
    IN  [i \in DOMAIN segs |-> DecodePair(segs[i])]

\* What spec 4.1 says the query carries: a pair per defined scalar, a pair
\* per item of an array, each value in its string form.
Expected(q) ==
    LET defined == SelectSeq(q, LAMBDA e : e.val.type # "undefined")
        pairs(e) == IF e.val.type = "array"
                      THEN [i \in DOMAIN e.val.items |-> <<e.key, StringForm(e.val.items[i])>>]
                      ELSE <<<<e.key, StringForm(e.val)>>>>
    IN  FlattenSeq([i \in DOMAIN defined |-> pairs(defined[i])])

-----------------------------------------------------------------------------

\* toQueryString (spec 4.1, 8.1): URL-decoding the query string gives back
\* exactly the multiset of (key, string form of value) pairs of the
\* defined values, one per array item, whatever characters keys and
\* values hold; keys whose value is undefined never appear.
RoundTrip ==
    out # <<"?">> => ToBag(Decode(out)) = ToBag(Expected(query))

\* toQueryString (spec 4.1): the string is the pairs joined by "&", so it
\* has no empty segment: it neither starts nor ends with "&" and holds no
\* "&&".
NoEmptySegment ==
    out # <<"?">> => \A g \in ToSet(Split(out, "&")) : g # <<>> \/ out = <<>>

====
