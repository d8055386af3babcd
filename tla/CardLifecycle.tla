--------------------------- MODULE CardLifecycle ---------------------------
(***************************************************************************)
(* What class carte of src/scripts/sat_base.py promises its caller about   *)
(* one card, without pid files, polling or signals.  A call is start(),    *)
(* stop() or restart() (a stop phase followed by a start phase).  The card *)
(* streams or it does not:                                                 *)
(*   - a stream begins only inside a start phase and only when none runs;  *)
(*   - a stream may end at any time (tuning failure, no data, a kill);     *)
(*   - stop() returns normally only when the card is silent;               *)
(*   - every call returns.                                                 *)
(* The last promise holds only when every stream runs detached from its    *)
(* caller; Fairness is stated apart so that a refinement can claim it      *)
(* only then.                                                              *)
(* start() may report success or failure whatever happened: its result    *)
(* is not part of this contract, since a bare carte(i) returns silently.   *)
(***************************************************************************)
EXTENDS Naturals

CONSTANT Failures   \* the exceptions a call may raise

VARIABLES
    phase,     \* "idle", "start" or "stop"
    restart,   \* the call is restart(): its stop phase is followed by start
    streams,   \* number of streams of the card (0 or 1)
    result     \* "none" while a call runs, then "ok" or an exception

vars == <<phase, restart, streams, result>>

Init ==
    /\ phase = "idle"
    /\ restart = FALSE
    /\ streams = 0
    /\ result = "ok"

Invoke ==
    /\ phase = "idle"
    /\ \E o \in {"start", "stop", "restart"} :
          /\ phase' = IF o = "start" THEN "start" ELSE "stop"
          /\ restart' = (o = "restart")
    /\ result' = "none"
    /\ UNCHANGED streams

Begin ==
    /\ phase = "start" /\ streams = 0
    /\ streams' = 1
    /\ UNCHANGED <<phase, restart, result>>

End ==
    /\ streams = 1
    /\ streams' = 0
    /\ UNCHANGED <<phase, restart, result>>

\* The stop phase of restart() hands over to its start phase.
Handover ==
    /\ phase = "stop" /\ restart /\ streams = 0
    /\ phase' = "start"
    /\ UNCHANGED <<restart, streams, result>>

\* A call returns, possibly ending the stream as it does (a forceful kill).
\* A normal return of stop() leaves the card silent.
Finish ==
    /\ phase # "idle"
    /\ streams' \in {streams, 0}
    /\ \E r \in {"ok"} \cup Failures :
          /\ phase = "stop" /\ r = "ok" => streams' = 0 /\ ~restart
          /\ result' = r
    /\ phase' = "idle"
    /\ UNCHANGED restart

Next == Invoke \/ Begin \/ End \/ Handover \/ Finish

Safety == Init /\ [][Next]_vars

\* A call in progress is always able to end (by an exception if need be).
Fairness == WF_vars(Handover \/ Finish)

Spec == Safety /\ Fairness

====
