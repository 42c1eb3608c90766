--------------------------- MODULE CommandLaunch ----------------------------
(***************************************************************************)
(* What a hazmat launch promises about the command it was asked to run,    *)
(* whichever way it runs it: the command is started once, the launch       *)
(* returns a result only when that start has ended and an error only when  *)
(* there was none, and nothing is started once the launch has released     *)
(* what it prepared.  A caller that has lost touch with whoever it asked   *)
(* is in doubt, and may be served twice; one that was killed may be served *)
(* after its death.                                                        *)
(***************************************************************************)
EXTENDS Naturals

CONSTANTS Caller, Place

VARIABLES
    life,    \* life[c]: open, returned a result, failed, released or abandoned
    starts,  \* starts[c]: how often its command was started
    places,  \* places[c]: where it is running
    doubt    \* doubt[c]: an answer to the caller was lost

Init ==
    /\ life \in [Caller -> {"open", "released"}]
    /\ starts = [c \in Caller |-> IF life[c] = "released" THEN 1 ELSE 0]
    /\ places = [c \in Caller |-> {}]
    /\ doubt = [c \in Caller |-> FALSE]

\* Without doubt there is one start, before the launch has an outcome.
Start(c, p) ==
    /\ life[c] # "released"
    /\ ~doubt[c] => starts[c] = 0 /\ life[c] \in {"open", "abandoned"}
    /\ starts' = [starts EXCEPT ![c] = @ + 1]
    /\ places' = [places EXCEPT ![c] = @ \cup {p}]
    /\ UNCHANGED <<life, doubt>>

\* Commands end, by themselves or with the broker that ran them.
End ==
    /\ places' \in [Caller -> SUBSET Place]
    /\ \A c \in Caller : places'[c] \subseteq places[c]
    /\ UNCHANGED <<life, starts, doubt>>

LoseTouch(c) ==
    /\ life[c] = "open"
    /\ doubt' = [doubt EXCEPT ![c] = TRUE]
    /\ \E outcome \in {"open", "failed"} : life' = [life EXCEPT ![c] = outcome]
    /\ UNCHANGED <<starts, places>>

\* The outcome tells what happened to the command, as far as it is known.
Decide(c, outcome) ==
    /\ life[c] = "open"
    /\ ~doubt[c] => /\ places[c] = {}
                    /\ starts[c] = IF outcome = "returned" THEN 1 ELSE 0
    /\ life' = [life EXCEPT ![c] = outcome]
    /\ UNCHANGED <<starts, places, doubt>>

Release(c) ==
    /\ life[c] \in {"returned", "failed"}
    /\ life' = [life EXCEPT ![c] = "released"]
    /\ UNCHANGED <<starts, places, doubt>>

Abandon(c) ==
    /\ life[c] \in {"open", "returned", "failed"}
    /\ life' = [life EXCEPT ![c] = "abandoned"]
    /\ UNCHANGED <<starts, places, doubt>>

Next ==
    \/ End
    \/ \E c \in Caller :
         \/ \E p \in Place : Start(c, p)
         \/ \E outcome \in {"returned", "failed"} : Decide(c, outcome)
         \/ LoseTouch(c) \/ Release(c) \/ Abandon(c)

Spec == Init /\ [][Next]_<<life, starts, places, doubt>>
=============================================================================
