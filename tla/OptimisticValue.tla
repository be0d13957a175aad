--------------------------- MODULE OptimisticValue ---------------------------
(* What a setting's entity promises, whatever the device: it shows a value the *)
(* device reported (or none, before the first report) or a choice of the user  *)
(* whose write is still being followed up; and a choice that is taken back     *)
(* gives way to a reported value, never to an older choice.                    *)
CONSTANTS Values, Unset

VARIABLES
    shown,     \* the value the entity shows
    choice,    \* shown is a choice no report has confirmed or replaced
    told,      \* the values the device has reported
    followed,  \* a write of this setting is being followed up
    stopped    \* the entity is unloaded and promises nothing more

vars == <<shown, choice, told, followed, stopped>>

Known == told \cup {Unset}

Init == shown = Unset /\ ~choice /\ told = {} /\ ~followed /\ ~stopped

Report ==
    /\ \E v \in Values : told' = told \cup {v} /\ shown' = v
    /\ choice' = FALSE
    /\ UNCHANGED followed

\* A write begins to be followed up, and its choice is shown.
Begin == ~followed /\ followed' = TRUE /\ UNCHANGED <<shown, choice, told>>
Choose == followed /\ shown' \in Values /\ choice' /\ UNCHANGED <<told, followed>>

TakeBack ==
    /\ followed /\ shown' \in Known /\ ~choice'
    /\ UNCHANGED told /\ followed' \in BOOLEAN

\* The follow-up ends only when no choice is left open.
End == followed /\ ~choice /\ followed' = FALSE /\ UNCHANGED <<shown, choice, told>>

Next ==
    \/ ~stopped /\ UNCHANGED stopped /\ (Report \/ Begin \/ Choose \/ TakeBack \/ End)
    \/ stopped'

Spec == Init /\ [][Next]_vars
=============================================================================
