------------------------------ MODULE KeptAlive -----------------------------
(***************************************************************************)
(* What a connection promises, whatever is said over it: it is answered a   *)
(* bounded number of times, the last answer tells the client that it is the  *)
(* last one, and it comes to its end even if the client falls silent.        *)
(***************************************************************************)
EXTENDS Naturals

CONSTANT MaxRequests \* keep_alive_max_count_, CPPHTTPLIB_KEEPALIVE_MAX_COUNT

VARIABLES
    phase, \* "idle" between requests, "busy" with one, "ended"
    left,  \* how many requests may still come
    said   \* whether the last answer announced the end

vars == <<phase, left, said>>

Init == phase = "idle" /\ left = MaxRequests /\ said = FALSE

Begin ==
    /\ phase = "idle" /\ left > 0
    /\ phase' = "busy"
    /\ UNCHANGED <<left, said>>

\* An answer may announce the end earlier; only the last one has to.
Answer ==
    /\ phase = "busy"
    /\ left' = left - 1
    /\ said' \in {TRUE, left = 1}
    /\ phase' = IF left = 1 THEN "ended" ELSE "idle"

\* The client has been silent for too long, has gone, or cannot be answered.
GiveUp ==
    /\ phase \in {"idle", "busy"}
    /\ phase' = "ended"
    /\ UNCHANGED <<left, said>>

Next == Begin \/ Answer \/ GiveUp

Spec == Init /\ [][Next]_vars /\ WF_vars(Next)
=============================================================================
