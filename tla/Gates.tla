------------------------------- MODULE Gates --------------------------------
(***************************************************************************)
(* The gates of a consumer repository's routes.  An event starts an        *)
(* orchestrator of one org, pinned to main or to the release; its prelude  *)
(* reads the dashboard and then evaluates the basenames it lists against   *)
(* the registries of main, whatever commit the orchestrator itself is of.  *)
(* Meanwhile maintainers opt orgs in and out, promote and roll back, the   *)
(* sync rewrites the rows and people toggle them.                          *)
(*                                                                         *)
(* A service stands for the basename of its route; the registries of main  *)
(* are valid (their conflicts are refused by CI).                          *)
(***************************************************************************)
EXTENDS Naturals, FiniteSets

CONSTANTS
    Services,   \* routes, those of sub-features included
    Parent,     \* Parent[s]: the service s is a sub-feature of, or s itself
    Defaults,   \* services that are enabled by default
    Orgs,       \* the orgs of the repository
    Owner,      \* the org whose prefix the basenames carry
    Lowest,     \* the org that sorts first
    Keyless,    \* whether the first release's prelude passes no org-key
    Untidy,     \* whether an opt-out may leave the orchestrator's list alone
    MaxChanges  \* bound: changes by people and maintainers

Ids == Orgs \X Services

ASSUME GatesAssumption ==
    /\ Parent \in [Services -> Services]
    /\ \A s \in Services : Parent[Parent[s]] = Parent[s]
    /\ {Owner, Lowest} \subseteq Orgs /\ Defaults \subseteq Services
    /\ {Keyless, Untidy} \subseteq BOOLEAN
    /\ MaxChanges \in Nat

VARIABLES
    registry,  \* registry[o]: the services main's registry of o lists
    wired,     \* wired[o]: what main's orchestrator of o passes to its prelude
    releases,  \* the releases so far and which is current
    issue,     \* the dashboard: its rows and those checked
    run,       \* the orchestrator run under way
    changes,
    (* history *)
    consent,   \* ids checked at some moment of the run
    kept,      \* ids checked at every moment of the run
    blind,     \* the run read something else than the dashboard
    left       \* orgs that ever opted out of a service

vars == <<registry, wired, releases, issue, run, changes, consent,
          kept, blind, left>>
history == <<consent, kept, blind, left>>

-----------------------------------------------------------------------------
Rows == {id \in Ids : id[2] \in registry[id[1]]}
Release == [wired : [Orgs -> SUBSET Services], keyed : BOOLEAN]
Tip == [wired |-> wired, keyed |-> TRUE]

RunRecord == [phase : {"idle", "read", "gates", "done", "failed"}, org : Orgs,
              list : SUBSET Services, keyed : BOOLEAN,
              ids : SUBSET Ids, proceed : SUBSET Services]
NoRun == [phase |-> "idle", org |-> Owner, list |-> {}, keyed |-> TRUE,
          ids |-> {}, proceed |-> {}]

Init ==
    /\ registry \in [Orgs -> {{s \in Services : Parent[s] \in A} :
                                A \in SUBSET {Parent[s] : s \in Services}}]
    /\ wired = registry
    /\ releases = [current |-> [wired |-> wired, keyed |-> ~Keyless],
                   previous |-> [wired |-> wired, keyed |-> ~Keyless]]
    /\ issue \in [rows : {Rows}, checked : SUBSET Rows]
    /\ run = NoRun
    /\ changes = 0
    /\ consent = {} /\ kept = {} /\ blind = FALSE /\ left = {}

-----------------------------------------------------------------------------
(* Maintainers and people *)

Change == changes < MaxChanges /\ changes' = changes + 1

Family(s) == {t \in Services : Parent[t] = Parent[s]}

\* Mutant: the orchestrator lists the route before the registry does.
OptInWiredFirst(o, s) ==
    /\ Change /\ s \notin registry[o]
    /\ wired' = [wired EXCEPT ![o] = @ \union Family(s)]
    /\ UNCHANGED <<registry, releases, issue, run, history>>

\* Registry, orchestrator and triggers in one pull request, as CI requires.
OptIn(o, s) ==
    /\ Change /\ s \notin registry[o]
    /\ registry' = [registry EXCEPT ![o] = @ \union Family(s)]
    /\ wired' = [wired EXCEPT ![o] = @ \union Family(s)]
    /\ UNCHANGED <<releases, issue, run, history>>

\* CI does not require that the orchestrator's list is cleaned up as well.
OptOut(o, s) ==
    /\ Change /\ s \in registry[o]
    /\ registry' = [registry EXCEPT ![o] = @ \ Family(s)]
    /\ \/ wired' = [wired EXCEPT ![o] = @ \ Family(s)]
       \/ Untidy /\ UNCHANGED wired
    /\ left' = left \union {o}
    /\ UNCHANGED <<releases, issue, run, consent, kept, blind>>

Promote ==
    /\ Change
    /\ releases' = [current |-> Tip, previous |-> releases.current]
    /\ UNCHANGED <<registry, wired, issue, run, history>>

Rollback ==
    /\ Change
    /\ releases' = [current |-> releases.previous, previous |-> releases.current]
    /\ UNCHANGED <<registry, wired, issue, run, history>>

Seen ==
    /\ consent' = consent \union issue'.checked
    /\ kept' = kept \intersect issue'.checked
    /\ UNCHANGED <<blind, left>>

Toggle(id) ==
    /\ Change /\ id \in issue.rows
    /\ issue' = [issue EXCEPT !.checked = (@ \ {id}) \union ({id} \ @)]
    /\ Seen
    /\ UNCHANGED <<registry, wired, releases, run>>

NewDefaults == {id \in Rows \ issue.rows : id[2] \in Defaults}

\* Mutant: boxes of rows that are gone stay checked.
SyncKeepsChecked ==
    /\ issue' = [rows |-> Rows, checked |-> issue.checked \union NewDefaults]
    /\ UNCHANGED <<registry, wired, releases, run, changes, history>>

\* Rows of the registry, kept as they are or new and at their default.
Sync ==
    /\ issue' = [rows |-> Rows,
                  checked |-> (issue.checked \intersect Rows) \union NewDefaults]
    /\ Seen
    /\ UNCHANGED <<registry, wired, releases, run, changes>>

-----------------------------------------------------------------------------
(* aw-prelude.yml *)

StartRun(o, pinned) ==
    /\ run.phase \in {"idle", "done", "failed"}
    /\ LET of == IF pinned THEN releases.current ELSE Tip
       IN  /\ of.wired[o] # {}
           /\ run' = [NoRun EXCEPT !.phase = "read", !.org = o,
                                   !.list = of.wired[o], !.keyed = of.keyed]
    /\ consent' = issue.checked /\ kept' = issue.checked /\ blind' = FALSE
    /\ UNCHANGED <<registry, wired, releases, issue, changes, left>>

\* Body of the first open item with the label.  A labelled pull request newer
\* than the dashboard, a failing gh and a missing issue read like a dashboard
\* with nothing checked.
ReadDashboard ==
    /\ run.phase = "read"
    /\ blind' \in BOOLEAN
    /\ run' = [run EXCEPT !.phase = "gates",
                          !.ids = IF blind' THEN {} ELSE issue.checked]
    /\ UNCHANGED <<registry, wired, releases, issue, changes, consent,
                   kept, left>>

OrgsListing(s) == {o \in Orgs : s \in registry[o]}
prefer_index_entry(s) ==
    IF Owner \in OrgsListing(s) THEN Owner
    ELSE IF Lowest \in OrgsListing(s) THEN Lowest
    ELSE CHOOSE o \in OrgsListing(s) : TRUE

\* Mutant: a route proceeds for any org's checkbox.
AnyEntry(s) == OrgsListing(s)
OrgEntries(s) ==
    IF run.keyed THEN OrgsListing(s) \intersect {run.org}
    ELSE IF OrgsListing(s) = {} THEN {} ELSE {prefer_index_entry(s)}

\* Mutant: only rows of workflows are looked up.
ProceedsAsWorkflow(o, s) == s = Parent[s] /\ <<o, s>> \in run.ids
Proceeds(o, s) == {<<o, s>>, <<o, Parent[s]>>} \subseteq run.ids

\* One basename main does not list fails the prelude, hence every route.
EvaluateGates ==
    /\ run.phase = "gates"
    /\ run' = IF \E s \in run.list : OrgEntries(s) = {}
              THEN [run EXCEPT !.phase = "failed"]
              ELSE [run EXCEPT !.phase = "done",
                      !.proceed = {s \in run.list :
                                     \E o \in OrgEntries(s) : Proceeds(o, s)}]
    /\ UNCHANGED <<registry, wired, releases, issue, changes, history>>

-----------------------------------------------------------------------------
Next ==
    \/ \E o \in Orgs, s \in Services : OptIn(o, s) \/ OptOut(o, s)
    \/ Promote \/ Rollback \/ Sync
    \/ \E id \in Ids : Toggle(id)
    \/ \E o \in Orgs, pinned \in BOOLEAN : StartRun(o, pinned)
    \/ ReadDashboard \/ EvaluateGates

Spec == Init /\ [][Next]_vars

-----------------------------------------------------------------------------
(* Properties *)

\* Every variable has the shape its comment gives; a checked box has a row and
\* an orchestrator lists whatever its org's registry does
\* (validate_common_service_opt_in.py).
TypeOK ==
    /\ registry \in [Orgs -> SUBSET Services] /\ wired \in [Orgs -> SUBSET Services]
    /\ \A o \in Orgs : registry[o] \subseteq wired[o]
    /\ releases \in [current : Release, previous : Release]
    /\ issue \in [rows : SUBSET Ids, checked : SUBSET Ids]
    /\ issue.checked \subseteq issue.rows
    /\ run \in RunRecord /\ run.proceed \subseteq run.list
    /\ changes \in 0 .. MaxChanges
    /\ kept \subseteq consent /\ consent \subseteq Ids
    /\ blind \in BOOLEAN /\ left \subseteq Orgs

\* A route proceeds only if the box of the invoking org, and that of the
\* parent of a sub-feature, were checked at some moment of the run, although
\* several orgs list the same basename and rows, boxes and registries change
\* under the run (evaluate_gates, _proceed_for_compound_id).
OptInRespected ==
    run.phase = "done" /\ run.keyed =>
       \A s \in run.proceed :
          {<<run.org, s>>, <<run.org, Parent[s]>>} \subseteq consent

\* "... the invoking org's registry-resolved compound id is in
\* enabled-workflows" (docs/workflows/aw-prelude.md): a route whose boxes stay
\* checked all through the run proceeds, unless the run could not read the
\* dashboard or read a labelled pull request instead.
CheckedRouteProceeds ==
    run.phase = "done" /\ run.keyed /\ ~blind =>
       \A s \in run.list :
          {<<run.org, s>>, <<run.org, Parent[s]>>} \subseteq kept
             => s \in run.proceed

\* An org that only opts in never meets a failing prelude, whichever release
\* or tip it is pinned to, whether that passes an org-key, and whatever the
\* other orgs do (prefer_index_entry).
PreludeSucceeds == run.phase = "failed" => run.org \in left

\* An org's opted-out ids are inert: they withhold no other route of the org
\* (docs/admin-guide/opt-in-common-services.md).
RetiredIdsAreInert ==
    run.phase = "failed" =>
       \A s \in run.list \intersect registry[run.org] :
          ~ {<<run.org, s>>, <<run.org, Parent[s]>>} \subseteq run.ids
=============================================================================
