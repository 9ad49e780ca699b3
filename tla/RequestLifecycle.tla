-------------------------- MODULE RequestLifecycle --------------------------
(***************************************************************************)
(* What HttpClient.request promises its callers, with the mechanism left  *)
(* out (spec 4.5, 5).  Each call is started once, settles at most once    *)
(* with a verdict that never changes afterwards, and may be cancelled at  *)
(* any time after it started.  A call is never already cancelled when it  *)
(* starts; and a call that is cancelled while it is pending eventually   *)
(* settles, because the platform rejects an aborted fetch or body read.   *)
(* The verdict of a cancelled call is left open: the client may resolve   *)
(* it (an ok response whose parse was aborted).                            *)
(***************************************************************************)
CONSTANTS Calls

VARIABLES
    phase,     \* "idle", "pending" or "settled"
    verdict,   \* "pending" until settled, then "resolved" or "rejected"
    cancelled  \* calls whose signal has been aborted

lvars == <<phase, verdict, cancelled>>

Verdicts == {"resolved", "rejected"}

LInit ==
    /\ phase = [c \in Calls |-> "idle"]
    /\ verdict = [c \in Calls |-> "pending"]
    /\ cancelled = {}

\* A caller invokes request(); its promise is pending.
Start(c) ==
    /\ phase[c] = "idle"
    /\ phase' = [phase EXCEPT ![c] = "pending"]
    /\ UNCHANGED <<verdict, cancelled>>

\* The promise settles, once.  A call that throws before its first await
\* settles straight from idle.
Settle(c) ==
    /\ phase[c] # "settled"
    /\ phase' = [phase EXCEPT ![c] = "settled"]
    /\ \E v \in Verdicts : verdict' = [verdict EXCEPT ![c] = v]
    /\ UNCHANGED cancelled

\* An abort reaches some calls that have started (settled ones included:
\* aborting a finished call's signal is harmless).
Cancel ==
    /\ cancelled \subseteq cancelled'
    /\ cancelled' \subseteq Calls
    /\ \A c \in cancelled' \ cancelled : phase[c] # "idle"
    /\ UNCHANGED <<phase, verdict>>

LNext == \/ \E c \in Calls : Start(c) \/ Settle(c)
         \/ Cancel

\* A cancelled pending call settles.
SettleCancelled(c) == c \in cancelled /\ phase[c] = "pending" /\ Settle(c)

LSpec == LInit /\ [][LNext]_lvars /\ \A c \in Calls : WF_lvars(SettleCancelled(c))

\* The safety part alone, for the refinement proof.
LSafeSpec == LInit /\ [][LNext]_lvars

====
