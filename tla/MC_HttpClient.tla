--------------------------- MODULE MC_HttpClient ---------------------------
(***************************************************************************)
(* Small instances of HttpClient for TLC.  Two calls are enough for two    *)
(* requests to share one cancel token; the constants below pick which      *)
(* configuration knobs of the client a run explores.                       *)
(***************************************************************************)
EXTENDS HttpClient

\* Callers may leave params.secure out or set it either way.
MCParamSecure == {Unset, TRUE, FALSE}

\* Callers may keep the wrapper's "json", or override it with undefined.
MCParamFormat == {Unset, None}

\* Query and body values: serialisable, or not (a cycle, a BigInt).
MCPayloads == {"plain", "unserialisable"}

\* Only the truthy tokens.
MCNoFalsy == {}

====
