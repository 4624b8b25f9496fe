---------------------------- MODULE CallerProtocol ----------------------------
(***************************************************************************)
(* What the service promises the applications that call it, seen from      *)
(* their callbacks alone.  A session is one accepted Begin.  It is answered*)
(* by one onBegin; if that says OK it runs until one onEnd or one          *)
(* onInterrupted; one session runs at a time and no Begin displaces it.    *)
(* A session may be dropped without a word only when its caller is dead or *)
(* when the service process itself goes away.                              *)
(***************************************************************************)
EXTENDS Naturals

CONSTANT MaxSessions

VARIABLES
    phase,      \* what each session's caller was told
    excused,    \* the sessions whose caller can hear no more
    serving     \* the service process is there

protocolVars == <<phase, excused, serving>>

Session == 1..MaxSessions
Waiting == {"asked", "running"}
Phases == {"unused", "refused", "ended", "interrupted", "dropped"} \cup Waiting

ProtocolInit ==
    /\ phase = [s \in Session |-> "unused"]
    /\ excused = {}
    /\ serving = TRUE

Becomes(s, from, to) ==
    /\ phase[s] \in from
    /\ phase' = [phase EXCEPT ![s] = to]

MayDrop(s) == s \in excused \/ ~serving'

\* A new session takes the place of one that still waits for its answer; that
\* one is refused, or dropped if its caller is dead.
Ask(s) ==
    /\ phase[s] = "unused" /\ serving
    /\ \A o \in Session : phase[o] # "running"
    /\ \E word \in [Session -> {"refused", "dropped"}] :
         /\ \A o \in Session : word[o] = "dropped" => MayDrop(o)
         /\ phase' = [o \in Session |->
                        CASE o = s               -> "asked"
                          [] phase[o] = "asked"  -> word[o]
                          [] OTHER               -> phase[o]]

Accept(s) == Becomes(s, {"asked"}, "running") /\ \A o \in Session : phase[o] # "running"
Refuse(s) == Becomes(s, {"asked"}, "refused")
Finish(s) == Becomes(s, {"running"}, "ended") \/ Becomes(s, {"running"}, "interrupted")
Drop(s) == MayDrop(s) /\ Becomes(s, Waiting, "dropped")

ProtocolNext ==
    \/ \E s \in Session : Ask(s) \/ Accept(s) \/ Refuse(s) \/ Finish(s) \/ Drop(s)
    \/ UNCHANGED phase

ProtocolSpec == ProtocolInit /\ [][ProtocolNext]_protocolVars
=============================================================================
