--------------------------- MODULE ResourceStack ----------------------------
(***************************************************************************)
(* What a hazmat launch promises about the things it creates on the host:  *)
(* they are acquired one at a time, nothing is acquired once releasing has *)
(* begun, each is released once and in the reverse of the order it was     *)
(* acquired, and the launch only returns with nothing held.  A process     *)
(* that is killed keeps what it held.                                      *)
(***************************************************************************)
EXTENDS Naturals, Sequences

CONSTANT Resource

VARIABLES held, phase

Init == held = <<>> /\ phase = "acquiring"

Acquire(r) ==
    /\ phase = "acquiring"
    /\ \A i \in DOMAIN held : held[i] # r
    /\ held' = Append(held, r) /\ UNCHANGED phase

Release ==
    /\ phase \in {"acquiring", "releasing"} /\ held # <<>>
    /\ held' = SubSeq(held, 1, Len(held) - 1) /\ phase' = "releasing"

StartReleasing == phase = "acquiring" /\ phase' = "releasing" /\ UNCHANGED held

Return ==
    /\ phase \in {"acquiring", "releasing"} /\ held = <<>>
    /\ phase' = "returned" /\ UNCHANGED held

Die == phase \in {"acquiring", "releasing"} /\ phase' = "dead" /\ UNCHANGED held

Next == (\E r \in Resource : Acquire(r)) \/ Release \/ StartReleasing
        \/ Return \/ Die

Spec == Init /\ [][Next]_<<held, phase>>
=============================================================================
