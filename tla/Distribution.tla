---------------------------- MODULE Distribution ----------------------------
(***************************************************************************)
(* distribute-client-workflow.yml and scripts/build_target_operations.py:  *)
(* a push to main that touches the repository lists, the client templates  *)
(* or the release pointers opens a pull request in every consumer, and     *)
(* another kind of pull request in every repository that left the lists.   *)
(*                                                                         *)
(* A commit of main is its position in `main'; 0 stands for the empty      *)
(* BASE_REF of a dispatched run.  The content of a client file is told     *)
(* apart by the control-plane pin written into it.                         *)
(***************************************************************************)
EXTENDS Naturals, Sequences, FiniteSets

CONSTANTS
    Repos,       \* consumer repositories
    Orgs,        \* directories under config/ and under the template tree
    Paths,       \* client files, named by their destination
    Trigger,     \* trigger-obs-aw-workflow-run.yml, one of Paths
    Pins,        \* refs written after uses: elastic/oblt-aw/...@
    Configs,     \* the states of the repository a push may produce
    MaxPushes,   \* bound: length of main
    MaxReruns    \* bound: re-runs of finished workflow runs

Config == [orgs : [Repos -> SUBSET Orgs],        \* active-repositories.json
           tree : [Orgs -> SUBSET Paths],        \* remote-workflow-template
           detective : SUBSET Repos,             \* non-empty workflow allowlist
           pin : [Repos -> Pins]]                \* pin-class with the pointers

ASSUME DistributionAssumption ==
    /\ Configs \subseteq Config
    /\ Trigger \in Paths
    /\ MaxPushes \in Nat
    /\ MaxReruns \in Nat

VARIABLES
    main,     \* the relevant commits of main
    waiting,  \* the run the concurrency group keeps waiting, or NoRun
    active,   \* the runs in progress
    finished, \* runs that ended or were replaced while waiting
    reruns,   \* how often a run was re-run
    target,   \* target[r]: the client files on r's default branch
    sync,     \* sync[r]: r's pull request of oblt-aw/sync-client-workflow
    removal   \* removal[r]: r's pull request of oblt-aw/remove-client-workflow

vars == <<main, waiting, active, finished, reruns, target, sync, removal>>
runs == <<waiting, active, finished, reruns>>
consumers == <<target, sync, removal>>

-----------------------------------------------------------------------------
(* Data *)

Absent == "absent"
Tree == [Paths -> Pins \union {Absent}]
NoFiles == [p \in Paths |-> Absent]

\* legs: the repositories whose matrix leg has not ended.  Nothing depends on
\* whether a run ended well.
Run == [base : Nat, head : Nat, legs : SUBSET Repos,
        phase : {"none", "queued", "preparing", "prs", "ended", "cancelled"}]
NoRun == [base |-> 0, head |-> 0, legs |-> {}, phase |-> "none"]

PullRequest == [head : Nat, from : Tree, to : Tree]
NoPr == [head |-> 0, from |-> NoFiles, to |-> NoFiles]

Tip == Len(main)

Admitted(v) == IF v = 0 THEN {} ELSE {r \in Repos : main[v].orgs[r] # {}}

\* Two orgs of one repository that bring the same destination.
Conflict(v) ==
    \E r \in Admitted(v) : \E o1, o2 \in main[v].orgs[r] :
       o1 # o2 /\ main[v].tree[o1] \intersect main[v].tree[o2] # {}

TemplateFiles(v, r) ==
    IF v = 0 THEN {} ELSE UNION {main[v].tree[o] : o \in main[v].orgs[r]}

\* The workflow-run trigger is installed only for a non-empty allowlist.
GatedFiles(v, r) ==
    IF r \in main[v].detective THEN TemplateFiles(v, r)
                               ELSE TemplateFiles(v, r) \ {Trigger}

\* Paths the templates dropped since the base commit, and a gated trigger.
RemoveFiles(run, r) ==
    (TemplateFiles(run.base, r) \ TemplateFiles(run.head, r))
      \union IF r \in main[run.head].detective THEN {} ELSE {Trigger}

\* A non-empty allowlist is rendered into the trigger just copied.
Renderable(v, r) == r \in main[v].detective => Trigger \in TemplateFiles(v, r)

\* Mutant: a file the repository already has is not overwritten.
InstalledIfMissing(run, r) ==
    [p \in Paths |->
        IF p \in RemoveFiles(run, r) THEN Absent
        ELSE IF p \in GatedFiles(run.head, r) /\ target[r][p] = Absent
             THEN main[run.head].pin[r]
        ELSE target[r][p]]

Installed(run, r) ==
    [p \in Paths |->
        IF p \in RemoveFiles(run, r) THEN Absent
        ELSE IF p \in GatedFiles(run.head, r) THEN main[run.head].pin[r]
        ELSE target[r][p]]

Cleared(run, r) ==
    [p \in Paths |->
        IF p \in TemplateFiles(run.base, r) THEN Absent ELSE target[r][p]]

\* create-pull-request: the branch restarts from the default branch; without
\* a difference an open pull request is closed.
PullRequestFor(run, r, tree) ==
    IF tree = target[r] THEN NoPr
    ELSE [head |-> run.head, from |-> target[r], to |-> tree]

Changed(pr) == {p \in Paths : pr.from[p] # pr.to[p]}

Mergeable(pr, r) ==
    pr # NoPr /\ \A p \in Changed(pr) : target[r][p] \in {pr.from[p], pr.to[p]}

Merged(pr, r) ==
    [p \in Paths |-> IF p \in Changed(pr) THEN pr.to[p] ELSE target[r][p]]

-----------------------------------------------------------------------------
(* Triggers and the concurrency group *)

Init ==
    /\ main \in {<<c>> : c \in Configs}
    /\ waiting = NoRun /\ active = {} /\ finished = {} /\ reruns = 0
    /\ target = [r \in Repos |-> NoFiles]
    /\ sync = [r \in Repos |-> NoPr]
    /\ removal = [r \in Repos |-> NoPr]

\* Mutant: the commits before and after the push change places.
EnqueueSwapped(base, head) ==
    /\ waiting' = [NoRun EXCEPT !.base = head, !.head = base, !.phase = "queued"]
    /\ finished' = IF waiting = NoRun THEN finished
                   ELSE finished \union {[waiting EXCEPT !.phase = "cancelled"]}
    /\ UNCHANGED active

\* A run that waits already is cancelled; it may be re-run by hand.
Enqueue(base, head) ==
    /\ waiting' = [NoRun EXCEPT !.base = base, !.head = head, !.phase = "queued"]
    /\ finished' = IF waiting = NoRun THEN finished
                   ELSE finished \union {[waiting EXCEPT !.phase = "cancelled"]}
    /\ UNCHANGED active

Push(c) ==
    /\ Tip < MaxPushes
    /\ c # main[Tip]
    /\ main' = Append(main, c)
    /\ Enqueue(Tip, Tip + 1)
    /\ UNCHANGED <<reruns, consumers>>

\* workflow_dispatch with force; without force the run finds nothing to do.
ForceDistribution ==
    /\ Enqueue(0, Tip)
    /\ UNCHANGED <<main, reruns, consumers>>

\* A re-run keeps the commits of the event that started the run.
Rerun(run) ==
    /\ run \in finished
    /\ reruns < MaxReruns
    /\ Enqueue(run.base, run.head)
    /\ reruns' = reruns + 1
    /\ UNCHANGED <<main, consumers>>

\* Mutant: no concurrency group.
StartAlongside ==
    /\ waiting # NoRun
    /\ active' = active \union {[waiting EXCEPT !.phase = "preparing"]}
    /\ waiting' = NoRun
    /\ UNCHANGED <<main, finished, reruns, consumers>>

Start ==
    /\ waiting # NoRun
    /\ active = {}
    /\ active' = active \union {[waiting EXCEPT !.phase = "preparing"]}
    /\ waiting' = NoRun
    /\ UNCHANGED <<main, finished, reruns, consumers>>

-----------------------------------------------------------------------------
(* A run *)

Becomes(run, new) ==
    /\ active' = (active \ {run}) \union {new}
    /\ UNCHANGED <<main, waiting, finished, reruns>>

End(run) ==
    /\ active' = active \ {run}
    /\ finished' = finished \union {[run EXCEPT !.phase = "ended", !.legs = {}]}
    /\ UNCHANGED <<main, waiting, reruns, consumers>>

\* The script resolves the files of both commits and exits on a conflict.
Prepare(run) ==
    /\ run.phase = "preparing"
    /\ ~Conflict(run.head) /\ ~Conflict(run.base)
    /\ Becomes(run, [run EXCEPT
          !.phase = "prs", !.legs = Admitted(run.head) \union Admitted(run.base)])
    /\ UNCHANGED consumers

Refuse(run) ==
    /\ run.phase = "preparing"
    /\ Conflict(run.head) \/ Conflict(run.base)
    /\ End(run)

LegEnds(run, r) == Becomes(run, [run EXCEPT !.legs = run.legs \ {r}])

Install(run, r) ==
    /\ r \in run.legs \intersect Admitted(run.head)
    /\ Renderable(run.head, r)
    /\ sync' = [sync EXCEPT ![r] = PullRequestFor(run, r, Installed(run, r))]
    /\ LegEnds(run, r)
    /\ UNCHANGED <<target, removal>>

Remove(run, r) ==
    /\ r \in run.legs \ Admitted(run.head)
    /\ removal' = [removal EXCEPT ![r] = PullRequestFor(run, r, Cleared(run, r))]
    /\ LegEnds(run, r)
    /\ UNCHANGED <<target, sync>>

\* A leg fails alone (fail-fast: false): no token, unverified commits,
\* a trigger that cannot be rendered.
FailLeg(run, r) ==
    /\ r \in run.legs
    /\ LegEnds(run, r)
    /\ UNCHANGED consumers

Finish(run) ==
    /\ run.phase = "prs" /\ run.legs = {}
    /\ End(run)

\* A job times out or the run is cancelled.
Fail(run) == End(run)

-----------------------------------------------------------------------------
(* The consumer repositories *)

MergeSync(r) ==
    /\ Mergeable(sync[r], r)
    /\ target' = [target EXCEPT ![r] = Merged(sync[r], r)]
    /\ sync' = [sync EXCEPT ![r] = NoPr]
    /\ UNCHANGED <<main, runs, removal>>

MergeRemoval(r) ==
    /\ Mergeable(removal[r], r)
    /\ target' = [target EXCEPT ![r] = Merged(removal[r], r)]
    /\ removal' = [removal EXCEPT ![r] = NoPr]
    /\ UNCHANGED <<main, runs, sync>>

Next ==
    \/ \E c \in Configs : Push(c)
    \/ ForceDistribution
    \/ Start
    \/ \E run \in finished : Rerun(run)
    \/ \E run \in active :
          \/ Prepare(run) \/ Refuse(run) \/ Finish(run) \/ Fail(run)
          \/ \E r \in Repos : Install(run, r) \/ Remove(run, r) \/ FailLeg(run, r)
    \/ \E r \in Repos : MergeSync(r) \/ MergeRemoval(r)

Spec == Init /\ [][Next]_vars

\* An operator forces distributions when none is under way, runners execute
\* what starts, no leg fails for ever and consumers merge.
FairSpec ==
    /\ Spec
    /\ WF_vars(active = {} /\ waiting = NoRun /\ ForceDistribution)
    /\ WF_vars(Start)
    /\ WF_vars(\E run \in active : Refuse(run) \/ Finish(run))
    /\ SF_vars(\E run \in active : Prepare(run))
    /\ \A r \in Repos :
          /\ SF_vars(\E run \in active : Install(run, r) \/ Remove(run, r))
          /\ WF_vars(\E run \in active : FailLeg(run, r))
          /\ WF_vars(MergeSync(r))
          /\ WF_vars(MergeRemoval(r))

-----------------------------------------------------------------------------
(* Properties *)

TypeOK ==
    /\ main \in Seq(Configs) /\ main # << >>
    /\ waiting \in Run /\ active \subseteq Run /\ finished \subseteq Run
    /\ \A run \in active : run.head \in 1..Tip /\ run.base \in 0..Tip
    /\ reruns \in 0..MaxReruns
    /\ target \in [Repos -> Tree]
    /\ sync \in [Repos -> PullRequest]
    /\ removal \in [Repos -> PullRequest]

Distributed == {run \in finished : run.phase = "ended"}

\* The group runs distributions one at a time and in the order of their
\* commits: the pull request a consumer is offered never comes from an older
\* commit than an earlier distribution, unless someone re-ran that one.
NeverOlder ==
    [][\A r \in Repos : sync'[r] # sync[r] /\ sync'[r] # NoPr =>
          \/ reruns > 0
          \/ \A run \in Distributed : run.head <= sync'[r].head]_vars

\* The files a repository should have, when they can be told.
Serveable(r) == r \in Admitted(Tip) /\ ~Conflict(Tip) /\ Renderable(Tip, r)

\* Forced distributions repair every consumer: whatever failed, was replaced
\* in the queue, re-run late or removed by a stale pull request, once pushes
\* stop every admitted repository comes to hold its files at its pin.
InstallsHeal ==
    <>[](\A r \in Repos : Serveable(r) =>
           \A p \in GatedFiles(Tip, r) : target[r][p] = main[Tip].pin[r])

\* "Distribution removes client paths that are no longer in the template
\* tree": the same, for the files a repository should no longer have.
RetiredPathsRemoved ==
    <>[](\A r \in Repos : Serveable(r) =>
           \A p \in Paths \ GatedFiles(Tip, r) : target[r][p] = Absent)
=============================================================================
