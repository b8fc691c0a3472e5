# Verification of oblt-aw

TLA+ models of the control plane in this repository, the TLC runs that check
them on small instances and the TLAPS proofs that carry the most important
results to every instance. Paths below are relative to the repository; line
numbers of every definition are in `PROJECT.json` (`map`).

oblt-aw is not a server. It is a set of GitHub Actions workflows and the scripts
they call, which together administer a fleet of consumer repositories. Its state
lives where it has no transactions: commits and tags of this repository, issues,
comments, labels, pull requests and workflow runs. Every job reads some of it,
thinks, and writes; people and other jobs write in between; a job may die after
any call, be re-run with the inputs of its first attempt, or be replaced while it
waits in a concurrency group. That is what the models are about.

## 1. Inventory

### Components, their state and operations

| Component | State | Operations |
|---|---|---|
| Release train: `release_pointers.py`, `aw_release_*.{py,sh}`, `aw-release-{promote,rollback}.yml` | `config/release-pointers.json` at every commit of main; tags `vX.Y.Z`, `vN`, `next`, `previous` on origin; pointers pull requests; GitHub Releases | dispatch, re-run, plan, dry run, branch, pull request, push of immutable and moving tags, approve, merge, release |
| Distribution: `distribute-client-workflow.yml`, `build_target_operations.py` | the lists and templates of two commits; in every consumer its client files and two pull requests | push, forced dispatch, re-run, replacement in the queue, matrix legs that install or remove, merges by consumers |
| Control Plane dashboard: `sync_control_plane_dashboard.py` | the body of one issue per repository: rows and boxes | sync, forced reset, creation, edits by people |
| Dashboard audit: `dashboard_audit.py`, `aw-dashboard-audit.yml` | audit comments, complete or awaiting a reason | audit of an edit, audit of a sync, attaching a reply |
| Registry and gates: `workflow_registry.py`, `evaluate_workflow_gates.py`, `get_enabled_workflows.py`, `aw-prelude.yml` | org registries on main, the lists in the orchestrators of each release | opt-in, opt-out, promote, rollback, prelude |
| Automerge: `obs-aw-automerge.yml`, `obs-aw-automerge-deferred.yml`, `automerge_*.sh`, `*Automerge*.ts` | a pull request: head, label, reviews, checks, armed comments | verify, classify, approve, assert, merge, retry, arm, report; discover and merge from the schedule |
| PR Actions Detective E2E: `pr_actions_detective_e2e_harness.py`, its oracle, `e2e-pr-actions-detective*.yml` | a long-lived fixture pull request and its branch; runs; comments | ready the fixture, clear comments, seed and push, wait three times, judge |
| Security issues: `create-security-issues.sh`, `supersede-security-issues.sh` | one issue per rule and scan: open, `keep-open`, linked pull requests | file; list, view, look up, comment, close; re-run; acts of people and of the fixer |
| Agentic assets: `aw-resolve-agentic-assets.yml`, `agentic_assets_resolver.py`, `instruction_fragments.py`, `apm_agentic_assets.py`, `workflow_registry.py` | fragments and registries of main, wrappers of the pinned release, `apm.yml` of the consumer | resolve, once per agent |
| Permission ceilings: `workflow_permissions.py`, `validate_aw_workflow_permissions.py` | permissions of the workflows and client templates of a commit | the check of CI, GitHub's check when a run starts |
| Security detectors' scan, docs AI menus, the other E2E harnesses and oracles | findings, menu comments, fixtures | not modelled (section 7) |
| Validators, rewriters, compiled workflows, agent routes, CI | none that outlives a run | not modelled: single passes over files, prompts, plumbing |

### How they interact

A *promote* lands new pointers on main. *Distribution* is triggered by that push,
reads the pointers and writes the pin (`@vN` or a SHA) into the client workflows
of every consumer: a pin that does not resolve would stop the whole fleet, which
is `PinResolvable`. A consumer's event starts an *orchestrator* at the pinned
release; its *prelude* reads the consumer's *dashboard* and evaluates the *gates*
with the scripts and registries of **main**, not of the release: two versions meet
in one run (`PreludeSucceeds`, `RetiredIdsAreInert`). The *sync* rewrites the same
dashboard body that people edit; every edit is *audited*. *Automerge* and the
detective are routes behind the gates. Before each agent of a route its *assets are
resolved*: the wrapper and what it says inline are the pinned release's, fragments,
registries and scripts are main's, `apm.yml` is the consumer's at the commit of the
run (`PolicyReachesAgent`, `AssetsMatchGate`). Whether GitHub starts the run at all
depends on a client of one commit and workflows of another (`StartsWhenAligned`).
Every issue a detector opens starts a *superseder* of its own; several work on the
issues of a rule at once (`NewestReportSurvives`). *E2E* drives the detective through the real
trigger chain and is a step of promote and rollback that may fail.

### What is hard, and what makes each part correct

- **Crash between two writes.** Tags are pushed before the pointers merge, so a
  job that dies in between leaves origin ahead of main. Correct: nothing landed
  may lack its tags, and a re-run of the same plan can always finish.
- **Re-runs with old inputs.** A re-run keeps commit and inputs of the first
  attempt, months later too. Correct: it finishes what it began or is refused.
- **Read, think, write.** Sync against edits; head, label and reviews against
  merge; classification of files against a push. Correct: what is written rests on
  something that held when it mattered.
- **Queues of length one.** A waiting run is replaced, and what only that run would
  have done (a removal, a forced reset) is lost. Correct: a later run repairs it.
- **Answers of earlier questions.** Agents answer minutes later; runs of a trigger
  workflow are on main's tip under one name. Correct: a case passes only on the
  answer to its own push.
- **Two clocks.** Releases pin orchestrators and wrappers, registries and fragments
  are main's. Correct: opting in never breaks anybody, and no policy is lost between
  the two.
- **Everybody cleans up.** Two superseders each close what is older than their own
  issue. Correct: nobody takes the last report of a rule away.

`PROJECT.json` lists these as `hazards`, each at the line where it bites.

## 2. Modules

| Module | Models | Checked by | Proved in |
|---|---|---|---|
| `ReleaseLine` | abstract: one current release, one to fall back to, issued releases ordered | refined by `ReleaseTrain` | `ReleaseTrainProofs` (the refinement) |
| `ReleaseTrain` | both release workflows | `MCReleaseTrain`: `release_train` | `ReleaseTrainProofs` |
| `ReleaseRunbook` | extends `ReleaseTrain` with an outage that ends and an operator who follows the runbook | `release_runbook` | |
| `Distribution` | the queue, matrix legs and consumers | `MCDistribution`: `distribution`, `distribution_retired` | `DistributionProofs` |
| `CheckboxRegister` | abstract: boxes people tick and syncs change at once | refined by `Dashboard` | `DashboardProofs` (the refinement) |
| `Dashboard` | sync, people and audit of one issue | `MCDashboard`: `dashboard` | `DashboardProofs` |
| `Gates` | registries, releases, dashboard and one prelude run | `MCGates`: `gates`, `gates_retired` | `GatesProofs` |
| `AssetResolution` | operators: one resolution of an agent's assets | through `AgentRun` | `AgentRunProofs` |
| `PermissionCeilings` | operators: the permission check of CI and GitHub's | through `AgentRun` | `AgentRunProofs` |
| `AgentRun` | composes both with commits, releases, clients and one run of a consumer | `MCAgentRun`: `agent_run` | `AgentRunProofs` |
| `Automerge` | both automerge paths over one pull request | `MCAutomerge`: `automerge`, `automerge_faults` | `AutomergeProofs` |
| `DetectiveE2E` | harness, oracle, GitHub's runs, agents | `detective_e2e` | `DetectiveE2EProofs` |
| `SecurityIssues` | the issues of the detectors and one superseder per issue | `MCSecurityIssues`: `security_issues` | `SecurityIssuesProofs` |

### ReleaseTrain

A commit of main is its position; `main[c]` is the position in `files` of the
pointers file at commit `c`. Each landing rewrites `updated_at`, so two landed
files never have equal text, and comparing blobs (as
`aw_release_prepare_pointers_branch.sh` does) is comparing positions. `run[r].phase`
is the step of a workflow run (`gate` before the plan, up to `landed`); `pr[r]` is
its pointers pull request, which a re-run updates. `Plan` stands for
`aw_release_promote.py` and `aw_release_rollback.py` with all their guards
(`PlanAccepted`, `RemoteCurrentAllows`, `SemverFree`); `PushMovingInPart` is the
push of three refs of which some moved and the job failed; `Fail` ends a run at
any step; `MergeOutOfBand` is a maintainer merging the pull request of a run that
gave up. `Enqueue` replaces a waiting run, as GitHub's concurrency groups do.

`ImplementsReleaseLine` is the refinement: `current`, `previous` of the landed
file at main's tip and the set of all landed releases form one line on which every
landing is either newer than everything issued, by commit and by semver, or the
swap of a rollback. That a rollback always has somewhere to go is part of it.
`LaterReleaseWaits` says what the fail-closed rule promises for releases of the landed
major: while a failed run's release waits to merge, no plan of another commit on top of
the same file is accepted. It says nothing of a new major (section 6).

### Distribution

`Config` is what a commit says about every repository: its orgs, the template
trees, the detective allowlist and the pin. A run keeps `base` and `head` of its
push (0 is the empty base of a forced run). `Install` and `Remove` are matrix legs:
`Installed` copies gated template files at the pin and deletes `RemoveFiles`, the
paths dropped *between those two commits*. A pull request is the pair of trees it
changes, mergeable while the consumer's changed paths are at either end. The
content of a file is told apart by the pin in it.

### Dashboard

A body is a function from ids with a row to BOOLEAN. `FindDashboardIssue` reads and
rebuilds, `UpdateIssue` overwrites whatever the body has become, `PostSyncAudit`
comments on the difference to what was *read*. `AuditJobs` is one job per org for an
edit by a person; each posts one comment per delta (`PostUserAudit`). Replies are
attached to the newest awaiting entry among the newest `PageSize` comments, an entry
whose id the reply mentions first; ids are matched by substring, so that the id of a
sub-feature mentions its parent's (`Within`).
`created`, `raced` and `lost` are history.

`ImplementsRegister` is the refinement: what the people see is a register of boxes on which
a sync, between its read and its write, acts at one moment. Without an edit in between it
flips nothing that stays, unless it is forced to reset. With one it may write back a state it
saw, which is the race the code has; it never writes a mixture or a state of before it read.

### Agent runs

A *tree* is a commit of this repository as a record: registries, fragment maps and
bodies, wrappers with the agents they run in order, routes of the orchestrators,
permissions of workflows and client templates. `main`, the current and previous
`release`, the commit the consumer's `client` came from and its pin `class` move as
maintainers `Commit` what CI `Passes`, `Promote`, `Rollback` and distribute
(`MergeClient`), and the consumer edits its checkout. A run goes `Start` (GitHub's
permission check: rejected or not), `Prelude` (the gate, by the registries of main),
then per agent `Resolve` and `Agent`. `Resolution` stands for the whole job of
`aw-resolve-agentic-assets.yml`: the compound id of the wrapper (`CompoundIds`), control
plane fragments at three grains, the block of `apm.yml` that applies
(`select_asset_block`), inputs and setup commands. An optional value is a set of at
most one element; failing is having no result. The layers of a prompt are kept apart
where the code joins texts. A result keeps what the agent is given; `OneBlockPerAgent`
compares all of it that comes from `apm.yml` with what one block says (`Given`: the last
entry of a key counts) and with what the agent's own call passes. `retired` (a commit took a policy out of the fragments),
`moved` (a commit changed how the run's route is registered) and `edited` (main changed
since the last resolution) are history.

### SecurityIssues

`issues[n]` is an issue with the newer issue in whose favour it was closed (`closer`);
`run[n]` is the superseder it started, in phases `queued`, `listing`, `working`,
`lookup`, `commenting`, `closing`: each is one call of `gh`, and people, the fixer and
the other superseders act between any two. A detector's scan is `FileIssue`: which rules
it finds is left open. `LookupFails` is the failing search for linked pull requests:
`errexit` reaches neither a process substitution nor what runs below an `if`, so the
list is empty and the run goes on. `Rerun` repeats a superseder of any outcome.
`window[n]` is history: what was without `keep-open` or without a pull request at some
moment of the run, what the run may leave open, and whether a lookup failed.

### Gates

`registry` and `wired` (what an orchestrator passes to its prelude) change together
in `OptIn`, because CI refuses anything else, and may come apart in `OptOut`, because
CI allows it (`Untidy`). A release is a frozen copy of `wired`; a run is pinned to
the current release or follows main. `ReadDashboard` may be `blind`: a failing `gh`,
a missing dashboard and a newer labelled *pull request* (which
`get_enabled_workflows.py` does not skip) all read as nothing checked. `EvaluateGates`
is `evaluate_workflow_gates.py` with the registries of main at that moment.
`consent` and `kept` (history) are the ids checked at some, at every moment of the
run.

### Automerge

One pull request with numbered heads. A run walks through the jobs of
`obs-aw-automerge.yml`; `automerge_squash_merge_at_sha` is four steps
(`RequireHead`, `RequireLabel`, `RequireReview`, `PutMerge`) because people act between its
calls; `attempt` 1 is job `automerge`, 2 is `rest-merge`; `Ended` encodes the `needs`
and `if` conditions that lead to retry, arming and report. The schedule is
`Tick` ... `DeferredPut`. `MergeAnswer` is GitHub's answer to a merge at a SHA.

### DetectiveE2E

A case is `harness`, the steps of `run_live_case` in order. Runs are numbered in
order of creation; `knownFails` and `knownCallers` are the snapshots of known run ids
and `snapshots` is the clock `since`: a comment's `epoch` is the number of clocks
taken when it was made, so that `epoch = snapshots` means "made in this case".
Pushes and labels put pull_request events on `events` (`Fires`), which start runs of
the intentional workflow (`StartFail`, cancelling the one in progress), which start
caller runs (`StartCaller`), whose agents comment or stay silent. An *upset* is one
thing gone wrong: a failing call, a held-up run, an agent that omits a section, a
person who toggles, closes, relabels or edits.

## 3. Runs

Deadlock is checked in `release_train`, `release_runbook` and in the two distribution
runs. In the others the system really may stop: when the bounded people and triggers
have acted, nothing is left to do.

| Run | Shows |
|---|---|
| `release_train` | Two runs of major and patch promotes and rollbacks over four commits, with re-runs, failures at every step and merges by hand: audit tags, pins, the tag consumers follow, that no plan overtakes a waiting release of the landed major, and the refinement of `ReleaseLine`. |
| `release_runbook` | Liveness: with the outage over and the runbook followed, an unlanded release always gives way to a landing. |
| `distribution` | `NeverOlder` and `InstallsHeal` over six states of the repository and two commits, with replaced, failed and re-run runs. |
| `distribution_retired` | Violation: a retired path can survive for ever. |
| `dashboard` | The audit accounts for the boxes, the boxes implement `CheckboxRegister`, every edit is audited, rows follow the registries; two syncs, two edits, one reply, two registries. |
| `gates` | Two orgs, three services (one a sub-feature), two changes of any kind during and between runs, with and without an org-key. |
| `gates_retired` | Violation: an id that an org opted out of stops the preludes of the release that still lists it. |
| `automerge` | Two overlapping runs and the schedule over two heads and two changes by people, no failing calls: what is merged was approved; an opt-out stops the attempts of both paths that begin after it, a withdrawn approval those of the pull-request path. |
| `automerge_faults` | One run and the schedule, every call and job may fail, the first head may bring files of no collection: classification, truthful success, and liveness of the armed head. |
| `detective_e2e` | Three cases and one upset anywhere: a case passes only on its own evidence, and passes whenever nothing stands in its way. |
| `agent_run` | Production and development consumers in five states run a two-agent wrapper and one that two orgs share, over seven trees and four changes: prompts keep the policies of the pinned release, assets are those of the gate, commands, fragments, instructions and inputs come from one block of `apm.yml`, the second agent agrees with the first, runs are refused only across versions. |
| `security_issues` | Three reports on two rules, so up to three superseders of a rule, any call failing, one re-run, two acts by people or the fixer: the newest report survives, older ones are closed, wanted ones are not. |

### Bounds and why they are enough

- *Release train:* `Runs` = 2: the group executes one run at a time, so every hazard
  is one run against what another left behind; runs may be re-run without bound.
  `MaxCommits` = 4 bounds pushes by others (landings go beyond it); `MaxMajor` = 2 lets
  two majors follow the initial 0. Two initial states: no release yet, and the two
  releases the repository carries. Runs are symmetric in the safety runs; the liveness
  run uses no symmetry. `minor` differs from `patch` only in the number and is left
  to the proofs.
- *Distribution:* one consumer, since legs touch one consumer each and share nothing
  but the run; two orgs (conflicts need two), two paths (the gated trigger and another),
  two pins; two commits and one re-run. The states in `MCDistribution` are one per way a
  repository differs: newer pin, gated trigger, left the list, conflict, trigger
  missing, template shrunk.
- *Dashboard:* two ids of which one contains the other; two registry states, so that a
  row comes and goes; a page of 2 comments, so that an awaiting entry falls off it.
- *Gates:* `MaxChanges` = 2: an opt-out and a promote, an opt-in and a toggle, in any
  order around a read; the proofs have no bound.
- *Automerge:* two heads (an approved one and the one pushed over it), one reviewer, one
  collection. More reviewers only add ways to be approved: the code asks for one.
- *DetectiveE2E:* three cases: one that leaves an agent behind, one that its report may
  fool, one that its leftovers may silence. One upset: `UndisturbedCasePasses` speaks
  of cases nothing disturbs, the others of all, and the proofs have no bound.
- *Agent runs:* one tree per way trees differ in what the properties tell apart: no
  fragments and the policy inline; shared and the policy in a fragment; a mapped fragment
  without its file and more permissions; renamed and back inline; the owner opted out;
  and two that CI refuses. Five consumers: none of its own, tuned, a block per wrapper, an
  unreadable file, the legacy layout. Four changes around a run reach a client, a release
  and a main of three different commits.
- *Security issues:* three issues are a chain in which the middle one closes and is
  closed; a page of two lets an old report fall off it; rules are symmetric.

### Fairness

Safety runs assume none. Elsewhere:

- `Distribution!FairSpec`: GitHub starts queued runs and executes steps (WF);
  preparation and each consumer's leg succeed if tried again and again (SF: no
  consumer fails for ever); consumers merge what they are offered; an operator forces
  a distribution when none is under way, which is the documented repair.
- `Dashboard!FairSpec`: WF on the steps of syncs and audit jobs: GitHub starts them and
  the scripts do not wait. Failing stays possible at any time, and both liveness
  properties except jobs that failed.
- `Automerge!FairSpec`: WF on the schedule's steps (the cron), SF on each of its jobs:
  a single job may die at any tick, not at all of them.
- `ReleaseRunbook!RunbookSpec`: steps fail only during the outage; afterwards runs
  execute (WF), a queued run that is free to start again and again starts (SF), and the
  operator re-runs an unlanded release (WF) and starts nothing else, as
  `docs/operations/release-model.md` demands.

## 4. Proofs

Proved with TLAPS for all values of the constants. No liveness is proved:
fairness is out of the prover's reach.

**ReleaseTrainProofs** — `TypeCorrect`, `AuditTrailHolds`, `PinAlwaysResolvable`,
`TrainImplementsReleaseLine`, `CurrentTagAlwaysAccounted`, `LaterReleaseAlwaysWaits`,
`WaitingReleaseAlwaysServed`, `RetryAlwaysAccepted`, assuming `BoundsAssumption` only. That a landed file names only tagged releases cannot be seen from
the landing itself: `Merge` and `MergeOutOfBand` write what the *plan* computed, perhaps
long ago and perhaps by an earlier attempt. `IInv` therefore says, per run, what each phase
and each state of its pull request guarantee: a run past its plan, or with a pull request,
had a plan that passed the guards (`PlanChecked`); the pull request's base is the file the
plan was made from (`BaseIsPlanBase`); once it may merge, its tags are on origin
(`TagsBeforePointers`). `FilesSound` adds that landed files name a major on origin and are
either empty or full. Steps that only move a run, grow tags or grow main are handled by
lemmas shared by many actions (`RunKept`, `HistoryKept`, `TagsKept`).

The refinement needs `LineInv` on top: the newest file is the one on main's tip, what a
file names is older than every commit that carries it, and the newest semver landed is
that of `current` or of `previous`, so that the next semver is above all of them. The tags
consumers follow need `TagInv`: at most one run executes; a release that waits to merge
keeps its moving tag where it pushed it; a run under way agrees with whatever waits, or was
overtaken by a landing it agrees with and then nothing else can land; and the moving major of the
tip is that of the newest semver.

From these follows what the documented recovery needs. `WaitingReleaseServed`: from its
approval until something lands, a release is tagged and its moving tag is at its commit, also
for a new major. `RetryAccepted`: re-running a run whose release of the landed major waits is
refused by no check, on origin or on main. It is what makes `InFlightResolved` possible;
that the operator and the runners then act is left to TLC.

**DistributionProofs** — `DistributionTypeCorrect`, `DistributionNeverOlder`,
`EveryFileAlwaysAccounted`, `AlwaysOfferedAsCommitted` and `TipDistributionsHeal`, assuming
`DistributionAssumption`. `OfMain`: queued, active and finished runs are of commits of main;
at most one is active; `Ordered`: unless somebody re-ran a run, the one that waits is of
main's tip and the active one is not older than any that distributed, because a newer push
replaces the waiting run and the group executes one at a time.
`EveryFileAccounted`: any client file a consumer has or is offered was brought by a commit
that listed the repository, had no conflict and could render the trigger, at that commit's
pin. `OfferedAsCommitted`: an open pull request brings all its commit says and no more,
however long it waits. Both need that legs are made only after the conflict check
(`LegsPrepared`) and that later pushes leave older commits as they were (`PromisesKept`).
That files are *current* is `InstallsHeal`; its safety half is `TipDistributionsHeal`: when
everything under way for a repository is of main's tip (`Steady`) and nobody pushes or
re-runs, legs leave the files complete or offer what completes them, the offer merges without
a conflict, and what is complete stays so. That forced distributions bring about `Steady` and
are executed and merged is fairness, and left to TLC.

**DashboardProofs** — `DashboardTypeCorrect`, `DashboardImplementsRegister`,
`TrailAlwaysBalances`, `NoEditEverForgotten` and `IdleDashboardAlwaysFollowsRegistry`, assuming
`DashboardAssumption`; that the trail balances is for one org, since several orgs do audit an
edit twice. `SyncInv`: what a sync is about to write is built from the body it read, and nobody
else creates the issue; with `RowsOfRegistry` it maps the read to `Begin` and the write to
`Bring` of the register. `TrailInv`: for every id the activations told in comments, still to be told by audit jobs
or by the sync under way, and the box at creation add up to the deactivations and the box as it
is (`Evens`), unless a job failed or a sync raced an edit; an edit has at most one job under way
(`JobsInv`), so a delta leaves the count of jobs when its comment enters that of comments.
Cardinalities of sets in place of a sum over the trail are what keeps the argument free of
induction over data.
The other two are the safety halves of the liveness properties: every delta of an edit is on
the trail or in an unfinished job of each org (`NoEditForgotten`), so that `EveryEditAudited`
only needs jobs to run; and the newest sync, waiting, running or written, is the one with the
rows of the registries (`RowsInv`), so that the dashboard follows them whenever no sync is
under way.

**GatesProofs** — `GatesTypeCorrect`, `OptInAlwaysRespected`, `CheckedRouteAlwaysProceeds`,
`PreludeAlwaysSucceeds`, assuming `GatesAssumption`. `ConsentInv`: during a run
whatever is checked is in `consent`, and so is what the run read. `KeptInv`: what
stayed checked is checked now and, unless blind, was read. `WiredInv`: of an org that never
opted out, main, both releases and the run under way list only what main's registry
has, which is what makes evaluating an old release with new registries safe.

**DetectiveE2EProofs** — `E2ETypeCorrect`, `OwnFailureAlwaysAnswered`,
`ReportedCommentAlwaysFresh`, `UndisturbedCaseAlwaysPasses`, assuming `E2EAssumption`. `CauseInv`: the failure a
comment names is the cause of the caller run it names. `SinceInv`: a comment of a
caller run younger than the snapshot was made since the clock of this case.
`FailInv`, `RouteInv`, `CommentInv`: what the harness holds at each wait. The
argument: run ids are only ever added (`FailsStep`, `CallersStep`), so a candidate younger
than the snapshot was triggered in this case, and the comment that ties it to the
failure was made in it.

`UndisturbedCasePasses` is about all the steps of a case. `CalmInv` says, for a case that
nothing has disturbed, what is on its way at every wait: before the push nothing is, and
afterwards exactly one of five stages holds: the push has yet to start its run, the run has yet to fail, the
failure has yet to call the detective, the caller's agent has yet to answer, or the answer is
there (`StagesExclusive`, `StageStep`). Each wait ends only when GitHub has settled, and
a settled GitHub with a calm case can only be in the last stage (`SettledIsAnswered`). Old
reports do not silence the agent because clearing comes before the push.

**AutomergeProofs** — every safety property of `Automerge`, and `TickAlwaysMerges`, assuming
`AutomergeAssumption`. The gate of a run reads the files of the live head while another head may be merged:
`ClearedRun` says that a run past its assertion is for a head that is `Cleared`, approved at some
moment and classified, because heads only grow and the assertion requires the live head to be
the one of the event. `Attempt`: a step that saw the label or a valid approval is of an attempt
outside `optedOut` and `revoked` (the attempts without); `Merger` ties the merged head to the run or tick that merged
it. `ArmedInv` carries approval and classification
over to the schedule through the armed comment, `DeferredInv` follows a tick; `LabelInv`: while the label is there
no attempt under way has run without it; `Truthful`: what a run remembers of its answers is
still so.
`TickAlwaysMerges` is the safety half of `ArmedIsMerged`: while an armed pull request may be
merged, a tick that begins keeps `OnTrack` and can end only by merging, unless its job dies.

**AgentRunProofs** — all six properties of `AgentRun`, assuming `AgentRunAssumption`: trees,
checkouts and workflows have their shapes (no job that calls a workflow has an empty
permissions block), wrappers that pass no org-key are called only by their own org. `Shape`
and `Kept` hold the run's references to commits CI passed; `GateHolds` ties the gate to
main's registry until a commit moves it, `ResultsMade` every result to a resolution of the
run's checkout for the call of its own agent; `LastIsCurrent` makes the last result
one of main as long as `edited` is false. `StartsWhenAligned` rests on a lemma about the
closure of calls: requirements computed over all nested workflows bound each link of the
chain. `OneBlockPerAgent` rests on `SelectedIsFinest`, and on `MaterializedIsGiven`: of the
entries of a key the code keeps the last.

**SecurityIssuesProofs** — all four properties, assuming `SecurityAssumption`. `ClosedBelow`:
an issue is closed only in favour of a newer one of its rule, so that the newest report of a
rule is never closed by a superseder. `Fine` is `Watched` (what is under way has seen the flags it read),
`InHand` (the issue between two calls) and `ToTreat` (an older open report is on the list,
in hand or excused).

Only model-checked: liveness (`InFlightResolved`, `InstallsHeal`, `EveryEditAudited`,
`RowsFollowRegistry`, `ArmedIsMerged`), because the prover has no rules for fairness and
ENABLED. What each needs of single steps is proved (`RetryAlwaysAccepted`,
`TipDistributionsHeal`, `NoEditEverForgotten`, `IdleDashboardAlwaysFollowsRegistry`,
`TickAlwaysMerges`); that those steps are taken is not. Every invariant and action property of
the passing runs, and both refinements, are proved. The two violations are TLC's.

## 5. What the checks show

- Tags before pointers works: whatever fails or is re-run, every landed release has its
  audit tag at its commit, no semver is issued twice, and the pin in every
  commit of main resolves.
- Consumers follow the landed release or one whose pull request still can land.
- A route proceeds exactly on the boxes of the org that invoked it; opting in
  breaks no prelude, on any release.
- Automation merges only approved, classified heads, and never reports success
  for a pull request nobody will merge.
- The audit trail adds up unless a job failed or a sync raced an edit, and no edit is
  forgotten on its way to it.
- A sync acts on the boxes at one moment; what it can lose is edits made while it thinks.
- What a consumer has was brought by a commit that listed it; never a mixture of two commits
  in one pull request.
- A release that waits is what its tag serves, and retrying it is never refused.
- A green E2E case is about its own push.
- A policy that moves between wrapper and fragment reaches the agents of every release
  unless it was taken out of the fragments; what CI accepts GitHub starts, as long as
  client and workflows are of one commit.
- However many superseders race, fail and are re-run, a rule keeps its newest report.

## 6. Where code and documentation part

Two runs end in a violation of what the repository says; `findings` in
`PROJECT.json` quotes each statement.

1. `distribution_retired`: the removal delta is relative to the push, so a replaced
   or failed run loses it, and forced runs do not make up for it.
2. `gates_retired`: an opt-out merged on main fails the preludes of pinned releases, and
   with them every other route of the event, until the next promote.

Seen while modelling, in the models, but without a run of their own:

- `require_remote_current_allows_in_flight` (`scripts/release_pointers.py:385`) looks only at
  the moving tag the *old* pointers name. A major promote moves another one, so that while
  its pointers have not landed a later promote or rollback of another commit is accepted.
  `LaterReleaseWaits` is therefore stated for the landed major.
- A sync flips back a box changed between its GET and its PATCH (`raced`), although it means
  to preserve checkboxes (`scripts/sync_control_plane_dashboard.py:26`).
- Fragments, registries and scripts are main's for every pin. `docs/operations/release-model.md`
  (lines 9, 27, 72) says that production changes only after a promote. A policy moved from a
  fragment back into the wrappers is lost to production until the next one (`retired`).
- Templates are distributed from main while `@vN` is an older release: when permissions
  grow in between, GitHub refuses the runs of production consumers.
- The second resolution of a run may fail after the first agent acted, if main changed.
  One registry that does not parse fails the resolutions of every org.
- The check of CI reads `permissions: {}` of a job as no block and takes the workflow's;
  GitHub grants nothing. No job of the repository that calls a workflow has one.
- `.oblt-aw.autodocignore` applies to the id `autodoc` only, not to sub-features of it.
- A failing lookup of linked pull requests reads as none, and the superseder closes an issue
  with an open pull request; the table in `docs/workflows/obs-aw-security-issue-superseder.md`
  says it skips those.
- `keep-open` and linked pull requests are read at different moments: an issue that always
  had one of the two can be closed.
- The title prefix that identifies a rule has no space after the id; harmless while all ids
  have three digits.
- The deferred merge does not look at reviews again: an approval withdrawn after
  arming does not stop it. `RevokedApprovalStopsMerge` and `OptOutStopsMerge` are
  therefore stated for the pull-request path.
- Two orgs installed in one repository audit one edit twice; the `dashboard` run has
  one org.
- Two replies handled at once may attach to one awaiting entry; the later
  rewrite wins.
- The sync's audit is the difference to what was read: an edit overwritten by the race
  leaves a comment for the edit and none for its loss.
- The push that resolves a conflict of destinations is refused like the one that
  introduced it, because its base still has it; a forced run heals.
- A removal pull request left open survives the re-admission of its repository and may
  be merged later; `InstallsHeal` holds because the next forced distribution reinstalls.
- A labelled pull request newer than the dashboard hides it from the gates
  (`blind`); the sync does skip pull requests.
- Seeding the intentional workflow on a fixture whose diff already has the nonce file
  does start a run: GitHub's path filter looks at the whole diff of the pull request,
  while the comment in `e2e-pr-actions-detective-fail.yml` expects otherwise. The
  harness is safe from it by the SHA of its own push.
- A report without the expected sections is neither recognised nor cleared by the
  harness, but does keep the agent silent in the next case: `InOrder` excludes it.

## 7. Not modelled, and why

Within modelled parts:

- Release train: texts of plans, notes and logs; E2E is a possible failure.
- Distribution: parsing of lists and allowlists; the contents of files besides the pin.
- Dashboard: closing and reopening the issue, pinning, layout. The reason job asks for the
  newest comments first and reads one page; the answer is modelled as asked for.
- Gates: registries of main are valid, because CI refuses others; legacy markers, token
  policies and allowed authors.
- Automerge: a branch that returns to an earlier commit; overlapping ticks of the
  schedule, which no concurrency group excludes; author, draft and fork conditions, which are constant.
- Agent runs: splitting and joining of texts, the layers report, installation of APM packages
  and its token, references to workflows of other repositories. The box of the route is
  checked; `Gates` has the rest of the prelude.
- Security issues: the scan, dry runs, texts; label and title of an issue are taken to stay.
  That a page lists the newest issues first is GitHub's order.
- DetectiveE2E: the clock `since` is exact (the harness cuts it to seconds, so a comment of
  an earlier case in that very second is outside the model); draft state, marker files, list limits, correlation by title or head SHA
  (never decisive on main's tip) and the fallback to the lock run, which decides only
  `agent_invoked`. The agent's comment and the end of its run are one step. Several
  fresh comments: the harness takes the newest, the model any. Correlation
  accepts any bot comment that links both runs; agents are assumed to cite the
  failure they were called for.

Whole parts, listed in `PROJECT.json` as `not_modelled`:

- Security detectors: one pass of scanners over a checkout, to `SecurityIssues` the rules it
  reports. Validators and rewriters: one pass over files without state between runs; the
  checks the models rely on (registries, org-keys, permissions) are in `Gates` and `AgentRun`.
- Docs AI menus: a read-think-write loop over a comment, the shape of `Dashboard`; planned.
- E2E harnesses other than the detective's: the same waits over other fixtures; planned.
- Compiled agent workflows and agent routes: generated, or thin wrappers around prompts.
- Oracles other than the detective's: text contracts.

## 8. Plan

Order of the modules, most important behaviour first: release train, distribution,
dashboard and audit, gates, automerge, detective E2E, agent runs with asset resolution and
permission ceilings, security issues (all present). What is left:

1. `AiMenu`: a menu comment that people tick, jobs read, rebuild and write back; the same
   read-think-write hazard as the dashboard, with an abstract menu it refines.
2. The other harnesses beside `DetectiveE2E`, automerge first: it composes with `Automerge`.
3. Composition: `ReleaseTrain` with `Distribution` (the pin a consumer gets is one
   that resolved when it was written; each half is checked, their product is not).

Abstract specifications worth stating: `ReleaseLine` and `CheckboxRegister` (done); an AI menu
as a set of ticks each served once.

Theorems to come: of the two violations what does hold: a path is retired by the run that
dropped it, an id is inert once a release without it is promoted.
