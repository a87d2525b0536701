------------------------------ MODULE Debounce ------------------------------
(***************************************************************************)
(* What the target detector promises about presence: the indication changes *)
(* only when the last two polls agree, and then it does change.             *)
(***************************************************************************)

VARIABLES seen,     \* outcomes of the last two polls, the older one first
          present   \* the debounced indication

vars == <<seen, present>>

Verdicts == {"hit", "miss"}

Init ==
    /\ seen = <<"none", "none">>
    /\ present = FALSE

Observe(verdict) ==
    /\ seen' = <<seen[2], verdict>>
    /\ present' = \/ present /\ ~(seen' = <<"miss", "miss">>)
                  \/ seen' = <<"hit", "hit">>

Next == \E verdict \in Verdicts : Observe(verdict)

Spec == Init /\ [][Next]_vars
=============================================================================
