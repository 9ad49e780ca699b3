------------------------- MODULE MC_RequestComposer -------------------------
(***************************************************************************)
(* Small instances of RequestComposer for TLC.                             *)
(***************************************************************************)
EXTENDS RequestComposer

\* Callers keep the wrapper's JSON type, pass undefined, or FormData.
MCParamTypes == {Unset, None, "multipart/form-data"}

\* Two header values that are also content types, so that a layer's
\* Content-Type can differ from the call's type.
MCHeaderVals == {"application/json", "text/plain"}

====
