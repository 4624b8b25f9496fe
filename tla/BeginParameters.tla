--------------------------- MODULE BeginParameters ---------------------------
(***************************************************************************)
(* What becomes of the parameters an application hands to begin: the check *)
(* and the rewriting by the bridge it calls (NAPI for dynamic ArkTS, ANI   *)
(* for static ArkTS), and what the service makes of the result.            *)
(*                                                                         *)
(* A bundle name is the sequence of its dot-separated segments; a segment  *)
(* is "word", "9word" (does not start with a letter), "word_" (ends with   *)
(* an underscore), "" or "w-d" (a character no bundle name has).  Lengths  *)
(* are counted in segments.                                                *)
(***************************************************************************)
EXTENDS Integers, SequencesExt

CONSTANTS
    Own,            \* the bundle name of the calling application
    NotAString,     \* an element of the list that is no string
    NotAList,       \* the list is missing
    NotANumber,     \* the duration is missing
    Requests,       \* the requests an application may make
    MaxDuration,    \* DEFAULT_MAX_DURATION, 8 hours
    UintRange,      \* 2^32, the range of a duration
    NapiMaxApps,    \* MAX_ALLOWED_APPS_COUNT of assessment_napi.cpp
    AniMaxApps,     \* MAX_ALLOWED_APPS_COUNT of ani_assessment.cpp
    MaxNamesLength  \* MAX_BUNDLENAME_ACC_LENGTH

\* A list is one of anything, a number is an integer.
ASSUME ParametersAssumption ==
    /\ MaxDuration \in Nat \ {0} /\ UintRange \in Nat \ {0}
    /\ \A r \in Requests :
         /\ r.apps = NotAList \/ r.apps \in Seq(ToSet(r.apps))
         /\ r.duration = NotANumber \/ r.duration \in Int

Bridges == {"napi", "ani"}
Callbacks == {"onBegin", "onInterrupted", "onEnd"}
BUNDLE_MAX_DOT_NUM == 2

IsValidBundleName(name) ==
    /\ Len(name) > BUNDLE_MAX_DOT_NUM
    /\ \A i \in 1..Len(name) : name[i] \notin {"", "w-d"}
    /\ name[1] # "9word"
    /\ Last(name) # "word_"

\* The items of a list that are in a set, in their order.
Selected(list, set) ==
    LET upTo[n \in 0..Len(list)] ==
          IF n = 0 THEN <<>>
          ELSE IF list[n] \in set THEN Append(upTo[n - 1], list[n]) ELSE upTo[n - 1]
    IN  upTo[Len(list)]

\* The strings of a list; no list has none.
Strings(apps) == IF apps = NotAList THEN {} ELSE ToSet(apps) \ {NotAString}

\* GetStringArrayFromJs: what is no string is passed over; no list is an empty one.
GetStringArrayFromJs(apps) == IF apps = NotAList THEN <<>> ELSE Selected(apps, Strings(apps))

\* The number is cut to 32 bits, a negative one wraps round.
GetUint32FromJs(duration) == IF duration = NotANumber THEN 0 ELSE duration % UintRange

NapiApps(apps) == SetToSeq(ToSet(GetStringArrayFromJs(apps)) \ {Own}) \o <<Own>>

NapiChecks(apps) ==
    /\ Len(apps) <= NapiMaxApps
    /\ \A i \in 1..Len(apps) : IsValidBundleName(apps[i])
    /\ Len(FlattenSeq(apps)) <= MaxNamesLength

\* Mutant: the application's own name is added only if the list lacks it.
AniAppsMutant(apps) ==
    LET given == GetStringArrayFromJs(apps)
    IN  IF Own \in ToSet(given) THEN given ELSE given \o <<Own>>

\* Only the first occurrence of the own name is moved; nothing else is checked.
AniApps(apps) == RemoveFirst(GetStringArrayFromJs(apps), Own) \o <<Own>>

\* Begin of a bridge: the list and the duration go to the client library.
Handed(bridge, request) ==
    [apps     |-> IF bridge = "napi" THEN NapiApps(request.apps) ELSE AniApps(request.apps),
     duration |-> GetUint32FromJs(request.duration)]

\* NAPI leaves a context without a token to the service; both want all three callbacks.
Accepted(bridge, request) ==
    /\ request.callbacks = Callbacks
    /\ IF bridge = "napi"
         THEN request.context # "none" /\ NapiChecks(Handed(bridge, request).apps)
         ELSE /\ request.context = "token"
              /\ Len(Handed(bridge, request).apps) <= AniMaxApps

\* CheckBeginPreconditions of the service.
Preconditions(request, handed) == request.context = "token" /\ handed.apps # <<>>

\* ConfigCurrentSession of the service: bundleName_ is taken to be the caller's.
SessionDuration(handed) ==
    IF handed.duration = 0 \/ handed.duration > MaxDuration THEN MaxDuration ELSE handed.duration
SessionBundle(handed) == Last(handed.apps)

\* The requests a session may be made of.
SessionsOf(bridge, requests) ==
    {r \in requests : Accepted(bridge, r) /\ Preconditions(r, Handed(bridge, r))}

NapiRequests == SessionsOf("napi", Requests)
AniRequests == SessionsOf("ani", Requests)
SessionRequests(bridge) == IF bridge = "napi" THEN NapiRequests ELSE AniRequests
=============================================================================
