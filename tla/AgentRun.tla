------------------------------ MODULE AgentRun ------------------------------
(***************************************************************************)
(* An agent run of a consumer repository meets several commits of          *)
(* elastic/oblt-aw: the consumer's client workflow was distributed from    *)
(* one, the workflows it calls are of the commit it is pinned to (main or  *)
(* the current release), and the prelude and every resolution of assets    *)
(* read the registries, fragments and scripts of main at that moment.      *)
(* Meanwhile maintainers commit, promote, roll back and distribute, and    *)
(* the consumer edits its apm.yml.                                         *)
(*                                                                         *)
(* A tree is a commit: services, registry, maps and bodies as in           *)
(* AssetResolution; wrappers[f] the wrapper of the basename f, whose steps *)
(* are its agents with what it passes to the resolution before each;       *)
(* routes[o] the wrappers the orchestrator of o calls; flows and           *)
(* templates[o] as in PermissionCeilings.                                  *)
(***************************************************************************)
EXTENDS AssetResolution, PermissionCeilings

CONSTANTS
    Trees,      \* what a pull request may propose for main
    First,      \* main and the release at the start
    Consumers,  \* the states of the consumer's checkout
    MaxChanges  \* bound: changes by maintainers and by the consumer

VARIABLES
    main,      \* tip of main
    release,   \* the commits of the current and the previous release
    client,    \* the commit the client workflows were distributed from
    class,     \* pin-class of the consumer
    consumer,  \* its default branch
    run,       \* the run under way
    changes,
    (* history *)
    retired,   \* <<o, f, p>>: a commit took p from the fragments of f in o
    moved,     \* a commit changed what the registries say of the run's route
    edited     \* main changed since the previous resolution of the run

vars == <<main, release, client, class, consumer, run, changes,
          retired, moved, edited>>

-----------------------------------------------------------------------------
(* CI of a pull request *)

Registered(t) == {e.file : e \in Entries(t)}

\* Registries and wrappers name each other.
validate_registry_against_workflows(t) ==
    /\ RegistriesParse(t)
    /\ Registered(t) = DOMAIN t.wrappers
    /\ \A f \in DOMAIN t.wrappers : t.wrappers[f].basename = f

\* Mutant: the permissions of the client templates are not checked.
PassesTreeOnly(t) ==
    /\ validate_registry_against_workflows(t)
    /\ AlignedInTree(t.flows, {t.templates[o] : o \in Orgs})

Passes(t) ==
    /\ validate_registry_against_workflows(t)
    /\ PermissionsAligned(t.flows, {t.templates[o] : o \in Orgs})

Mergeable == {t \in Trees : Passes(t)}

\* A wrapper that passes no org-key is called only by the org of its prefix.
OrgKeyPassed(t) ==
    \A o \in Orgs : \A f \in t.routes[o] :
        f \in DOMAIN t.wrappers /\ (~t.wrappers[f].keyed => o = Prefix[f])

\* The shape of a tree: optional maps, wrappers with agents, whole workflows.
Tree(t) ==
    /\ \A o \in Orgs : Optional(t.maps[o])
    /\ \A f \in DOMAIN t.wrappers : Len(t.wrappers[f].steps) \in Nat \ {0}
    /\ \A v \in DOMAIN t.flows : Workflow(t.flows, t.flows[v])
    /\ \A o \in Orgs : Workflow(t.flows, t.templates[o])

ASSUME AgentRunAssumption ==
    /\ First \in Mergeable
    /\ \A t \in Trees : Tree(t) /\ OrgKeyPassed(t)
    /\ \A c \in Consumers : Checkout(c)
    /\ Consumers # {} /\ Orgs # {}
    /\ MaxChanges \in Nat

-----------------------------------------------------------------------------
(* Data *)

EntryFor(t, o, f) == CompoundIds(t, f, {o})

\* What the fragments of t say to the wrapper f run for o, at every grain
\* (docs/architecture/instruction-fragments.md:59-61).
FragmentsFor(t, o, f) ==
    UNION {m.common
           \union UNION {m.workflows[id].fragments
                         \union UNION {m.workflows[id].inner[g] :
                                        g \in {f} \intersect DOMAIN m.workflows[id].inner} :
                         id \in {e.id : e \in EntryFor(t, o, f)}
                                \intersect DOMAIN m.workflows} :
           m \in IF EntryFor(t, o, f) = {} THEN {} ELSE t.maps[o]}

\* Whether the run's route is registered differently in t and u.
Reregistered(t, u, r) == EntryFor(t, r.org, r.file) # EntryFor(u, r.org, r.file)

Files == DOMAIN Prefix
Idle == [phase |-> "idle", org |-> CHOOSE o \in Orgs : TRUE, file |-> "",
         pinned |-> First, checkout |-> CHOOSE c \in Consumers : TRUE,
         gate |-> {}, step |-> 1, results |-> <<>>]

\* The org key the wrapper passes on.
Key(r) == IF r.pinned.wrappers[r.file].keyed THEN {r.org} ELSE {}
Call(r) == r.pinned.wrappers[r.file].steps[r.step]
\* Mutant: each resolution reads the consumer's branch instead of the commit
\* of the run.
ResolvesBranch(r) == Resolution(main, consumer, r.file, Key(r), Call(r))

Resolves(r) == Resolution(main, r.checkout, r.file, Key(r), Call(r))

Init ==
    /\ main = First
    /\ release = [current |-> First, previous |-> First]
    /\ client = First
    /\ class \in {"production", "development"}
    /\ consumer \in Consumers
    /\ run = Idle
    /\ changes = 0
    /\ retired = {} /\ moved = FALSE /\ edited = FALSE

-----------------------------------------------------------------------------
(* Maintainers and the consumer *)

Change == changes < MaxChanges /\ changes' = changes + 1

Commit(t) ==
    /\ Change /\ t # main
    /\ main' = t
    /\ retired' = retired \union
         UNION {{<<x[1], x[2], p>> : p \in FragmentsFor(main, x[1], x[2])
                                            \ FragmentsFor(t, x[1], x[2])} :
                  x \in Orgs \X Files}
    /\ moved' = (moved \/ (run.phase # "idle" /\ Reregistered(main, t, run)))
    /\ edited' = TRUE
    /\ UNCHANGED <<release, client, class, consumer, run>>

Promote ==
    /\ Change /\ release.current # main
    /\ release' = [current |-> main, previous |-> release.current]
    /\ UNCHANGED <<main, client, class, consumer, run, retired, moved, edited>>

Rollback ==
    /\ Change /\ release.current # release.previous
    /\ release' = [current |-> release.previous, previous |-> release.current]
    /\ UNCHANGED <<main, client, class, consumer, run, retired, moved, edited>>

\* A distribution pull request is merged; Distribution has the details.
MergeClient ==
    /\ Change /\ client # main
    /\ client' = main
    /\ UNCHANGED <<main, release, class, consumer, run, retired, moved, edited>>

EditConsumer(c) ==
    /\ Change /\ c # consumer
    /\ consumer' = c
    /\ UNCHANGED <<main, release, client, class, run, retired, moved, edited>>

-----------------------------------------------------------------------------
(* The run *)

Pinned == IF class = "production" THEN release.current ELSE main

\* An event of the consumer that the client workflow of org o forwards.
Start(o, f) ==
    /\ run.phase \in {"idle", "rejected", "failed", "done"}
    /\ f \in Pinned.routes[o]
    /\ run' = [Idle EXCEPT
                 !.phase = IF StartAccepted(Pinned.flows, client.templates[o])
                           THEN "prelude" ELSE "rejected",
                 !.org = o, !.file = f, !.pinned = Pinned, !.checkout = consumer]
    /\ moved' = FALSE /\ edited' = FALSE
    /\ UNCHANGED <<main, release, client, class, consumer, changes, retired>>

\* The gate of the route; its box is taken to be checked.
Prelude ==
    /\ run.phase = "prelude"
    /\ LET gate == EntryFor(main, run.org, run.file) IN
         run' = [run EXCEPT !.phase = IF gate = {} THEN "failed" ELSE "resolve",
                            !.gate = gate]
    /\ moved' = FALSE
    /\ UNCHANGED <<main, release, client, class, consumer, changes, retired, edited>>

\* resolve-agentic-assets: the agent it is for is skipped when it fails.
Resolve ==
    /\ run.phase = "resolve"
    /\ run' = IF Resolves(run) = {} THEN [run EXCEPT !.phase = "failed"]
              ELSE [run EXCEPT !.phase = "agent",
                               !.results = Append(@, Only(Resolves(run)))]
    /\ edited' = FALSE
    /\ UNCHANGED <<main, release, client, class, consumer, changes, retired, moved>>

\* Mutant: the second agent goes by the assets of the first.
AgentGoesOn ==
    /\ run.phase = "agent"
    /\ \/ /\ run.step < Len(run.pinned.wrappers[run.file].steps)
          /\ run' = [run EXCEPT !.step = @ + 1]
       \/ run' = [run EXCEPT !.phase = "done"]
    /\ UNCHANGED <<main, release, client, class, consumer, changes,
                   retired, moved, edited>>

\* The agent acts on its instructions; the next one runs if this one left it
\* something to do.
Agent ==
    /\ run.phase = "agent"
    /\ \/ /\ run.step < Len(run.pinned.wrappers[run.file].steps)
          /\ run' = [run EXCEPT !.phase = "resolve", !.step = @ + 1]
       \/ run' = [run EXCEPT !.phase = "done"]
    /\ UNCHANGED <<main, release, client, class, consumer, changes,
                   retired, moved, edited>>

Next ==
    \/ \E t \in Mergeable : Commit(t)
    \/ Promote
    \/ Rollback
    \/ MergeClient
    \/ \E c \in Consumers : EditConsumer(c)
    \/ \E o \in Orgs, f \in Files : Start(o, f)
    \/ Prelude
    \/ Resolve
    \/ Agent

Spec == Init /\ [][Next]_vars

-----------------------------------------------------------------------------
(* Properties *)

\* Shape of the state; main, releases and clients passed CI, and every agent
\* that acts does so on a resolution of its own (aw-resolve-agentic-assets.yml
\* is called once per agent, validate_aw_workflow_resolve_agentic_assets.py).
TypeOK ==
    /\ {main, release.current, release.previous, client, run.pinned} \subseteq Mergeable
    /\ class \in {"production", "development"}
    /\ {consumer, run.checkout} \subseteq Consumers
    /\ run.phase \in {"idle", "rejected", "prelude", "resolve", "agent", "failed", "done"}
    /\ changes \in 0..MaxChanges
    /\ run.phase # "idle" =>
        /\ run.org \in Orgs /\ run.file \in run.pinned.routes[run.org]
        /\ run.step \in 1..Len(run.pinned.wrappers[run.file].steps)
    /\ Len(run.results) = IF run.phase \in {"agent", "done"} THEN run.step
                          ELSE run.step - 1

Results == {run.results[i] : i \in 1..Len(run.results)}

\* The assets of an agent are those of the very id whose gate the run passed,
\* for basenames shared by orgs and for wrappers of old releases that pass no
\* org-key, unless main registered the route anew in between
\* (resolve_compound_id, prefer_index_entry).
AssetsMatchGate == moved \/ \A r \in Results : {r.entry} = run.gate

Said(r) == UNION {r.layers[l] : l \in PlatformLayers}
Stated(i) ==
    run.pinned.wrappers[run.file].steps[i].inline
        \union FragmentsFor(run.pinned, run.org, run.file)

\* What the tree a run is pinned to says to its agent, inline or in fragments,
\* is in the prompt, though the fragments come from main: a policy that moves
\* from the wrappers into a fragment is never lost in between, whichever
\* release is current (compose_control_plane_fragments).  Only a commit that
\* takes it out of the fragments withdraws it.
PolicyReachesAgent ==
    \A i \in 1..Len(run.results) :
        \A p \in Stated(i) : \/ <<run.org, run.file, p>> \in retired
                             \/ p \in Said(run.results[i])

Fineness == [g \in {"none", "common", "workflow", "inner-workflow"} |->
               CASE g = "none" -> 0 [] g = "common" -> 1
                 [] g = "workflow" -> 2 [] g = "inner-workflow" -> 3]

\* The blocks of the consumer that apply to a wrapper, by grain.
Applicable(c, e) ==
    {[grain |-> "none", block |-> EmptyBlock]}
    \union UNION {
        {[grain |-> "common", block |-> b] : b \in x.common}
        \union (IF e.id \notin DOMAIN x.workflows THEN {}
                ELSE {[grain |-> "workflow", block |-> x.workflows[e.id].block]}
                     \union {[grain |-> "inner-workflow", block |-> x.workflows[e.id].inner[f]] :
                               f \in {e.file} \intersect DOMAIN x.workflows[e.id].inner}) :
        x \in OrgExtension(c, e.org)}

Overridden(b) == {b.inputs[i].key : i \in 1..Len(b.inputs)} \ {Instructions}

\* What block b gives for the input k: its last entry with that key counts.
Given(c, b, k) ==
    LET about == {i \in 1..Len(b.inputs) : b.inputs[i].key = k}
    IN  {IF b.inputs[i].file THEN c.files[b.inputs[i].value] ELSE b.inputs[i].value :
            i \in {j \in about : \A n \in about : n <= j}}

\* The setup commands, fragments, inline instructions and input overrides of
\* the result r for e are those of block b, on top of what the platform passes.
OnlyFrom(c, e, b, platform, r) ==
    /\ r.setup = extract_setup_commands(c, b)
    /\ r.layers["consumer-fragments"] =
         {c.files[x.fragments[i]] : x \in OrgExtension(c, e.org), i \in b.fragments}
    /\ r.layers["consumer-inline"] = Given(c, b, Instructions)
    /\ DOMAIN r.inputs = DOMAIN platform \union Overridden(b)
    /\ \A k \in DOMAIN r.inputs :
        {r.inputs[k]} = IF k \in Overridden(b) THEN Given(c, b, k) ELSE {platform[k]}

\* What the manifest of the consumer adds to each agent of a run is all of the
\* finest block that applies and nothing of a coarser one: its setup commands,
\* its fragments, its instructions and its inputs; every other input is what
\* the agent's own call passes (docs/architecture/apm-agentic-assets.md:45,
\* select_asset_block, resolve_apm_assets).
OneBlockPerAgent ==
    \A i \in 1..Len(run.results) :
        LET r == run.results[i]
            platform == run.pinned.wrappers[run.file].steps[i].inputs
        IN  \E a \in Applicable(run.checkout, r.entry) :
                /\ \A b \in Applicable(run.checkout, r.entry) :
                    Fineness[b.grain] <= Fineness[a.grain]
                /\ r.source = a.grain
                /\ OnlyFrom(run.checkout, r.entry, a.block, platform, r)

\* What does not depend on the agent a result is for.
SharedPart(r) ==
    [entry |-> r.entry, source |-> r.source, setup |-> r.setup,
     layers |-> [l \in Layers \ {"platform-inline"} |-> r.layers[l]]]

\* Once the first agent of a route acted, the assets of the next one differ
\* from its own, or fail to resolve, only because main changed in between:
\* never because the consumer edited its apm.yml meanwhile
\* (obs-aw-autodoc.yml, the audit and the fix).
LaterAgentsAgree ==
    [][(run.phase = "resolve" /\ run.step > 1 /\ run' # run /\ ~edited) =>
        /\ run'.phase = "agent"
        /\ SharedPart(run'.results[run.step]) = SharedPart(run.results[run.step - 1])]_vars

\* GitHub refuses to start a run only while the consumer's client workflows
\* and the workflows they call are of different commits
\* (validate_aw_workflow_permissions.py).
StartsWhenAligned ==
    [][(run' # run /\ run'.phase = "rejected") => client # run'.pinned]_vars
=============================================================================
