--------------------------- MODULE MCCallbackBridge ---------------------------
(***************************************************************************)
(* Instances of CallbackBridge for TLC.                                    *)
(***************************************************************************)
EXTENDS CallbackBridge

OwnName == <<"word", "word", "word">>
Companion == <<"word", "word", "word", "word">>
Broken == {<<"word", "word">>, <<"9word", "word", "word">>, <<"word", "word", "word_">>,
           <<"word", "", "word">>, <<"word", "w-d", "word">>}

Items == {OwnName, Companion, NotAString} \cup Broken
Lists == {NotAList} \cup UNION {[1..n -> Items] : n \in 0..2} \cup [1..3 -> {OwnName, Companion}]

\* Every list with every duration, once with all that begin wants and once with
\* each of the things it may lack.
Ask0(list, duration) ==
    [context |-> "token", callbacks |-> Callbacks, apps |-> list, duration |-> duration]
SomeRequests ==
    {Ask0(list, duration) : list \in Lists, duration \in {NotANumber, -1, 0, 3, 5, 17}}
      \cup {[Ask0(<<>>, 3) EXCEPT !.context = c] : c \in {"none", "noToken"}}
      \cup {[Ask0(<<>>, 3) EXCEPT !.callbacks = Callbacks \ {c}] : c \in Callbacks}
=============================================================================
