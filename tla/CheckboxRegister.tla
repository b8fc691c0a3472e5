-------------------------- MODULE CheckboxRegister --------------------------
(***************************************************************************)
(* What the Control Plane dashboard promises to the people who tick its    *)
(* boxes: between two of their edits a sync takes effect at once.  It      *)
(* brings the rows of a registry, and a row that stays keeps its box       *)
(* unless the sync resets them all.  What it keeps is the state of some    *)
(* moment since it began, not always of the last one.                      *)
(* Dashboard implements it.                                                *)
(***************************************************************************)
CONSTANT Registries   \* states of the registries: rows with their defaults

VARIABLES
    present,  \* whether there is a dashboard
    boxes,    \* its rows, each ticked or not
    task,     \* the sync under way: at most one
    seen      \* states of the boxes it may start from

vars == <<present, boxes, task, seen>>

Brought(t, old) ==
    [i \in DOMAIN t.rows |-> IF i \in DOMAIN old /\ ~t.reset THEN old[i] ELSE t.rows[i]]

Init ==
    /\ present = FALSE
    /\ boxes = [i \in {} |-> FALSE]
    /\ task = {} /\ seen = {}

\* Without a sync under way nothing old is remembered; one under way may
\* forget what it saw, never the newest state.
Tick(new) ==
    /\ present
    /\ boxes' = new
    /\ IF task = {} THEN seen' = {}
       ELSE seen' \subseteq seen \union {new} /\ new \in seen'
    /\ UNCHANGED <<present, task>>

Begin(rows, reset) ==
    /\ task = {}
    /\ task' = {[rows |-> rows, reset |-> reset]}
    /\ seen' = {boxes}
    /\ UNCHANGED <<present, boxes>>

Bring(t, old) ==
    /\ present' = TRUE
    /\ boxes' = Brought(t, old)
    /\ task' = {} /\ seen' = {}

GiveUp ==
    /\ task' = {} /\ seen' = {}
    /\ UNCHANGED <<present, boxes>>

Next ==
    \/ \E new \in [DOMAIN boxes -> BOOLEAN] : Tick(new)
    \/ \E rows \in Registries, reset \in BOOLEAN : Begin(rows, reset)
    \/ \E t \in task, old \in seen : Bring(t, old)
    \/ GiveUp

Spec == Init /\ [][Next]_vars
=============================================================================
