----------------------------- MODULE SystemEvents -----------------------------
(***************************************************************************)
(* AssessmentService with the system events that DispatchEvent only traces:*)
(* hibernation, the end of hibernation and shutdown take the lock, publish *)
(* a trace event and leave the session and the device as they are.         *)
(***************************************************************************)
EXTENDS AssessmentService

VARIABLE
    system      \* the last of these events the service was told of

SystemInit == Init /\ system = "up"

\* DispatchEvent of one of the three events.
TraceSystemEvent(from, to) ==
    /\ LockFree
    /\ system = from /\ system' = to
    /\ UNCHANGED vars

SystemNext ==
    \/ TraceSystemEvent("up", "hibernating")
    \/ TraceSystemEvent("hibernating", "up")
    \/ TraceSystemEvent("up", "shutdown")
    \/ Next /\ UNCHANGED system

SystemSpec == SystemInit /\ [][SystemNext]_<<vars, system>>

\* README_en.md:146 says: when the service receives suspend or shutdown events,
\* it "exits assessment mode".
SystemEventsEndSession ==
    [][system = "up" /\ system' \in {"hibernating", "shutdown"} /\ isActive
         => step' = "exitPower"]_<<vars, system>>
=============================================================================
