---------------------------- MODULE ReleaseTrain ----------------------------
(***************************************************************************)
(* The release train: the promote and rollback workflows, the pointers     *)
(* file they land on main and the tags they publish on origin              *)
(* (scripts/release_pointers.py, scripts/aw_release_*.{py,sh},             *)
(* .github/workflows/aw-release-{promote,rollback}.yml).                   *)
(*                                                                         *)
(* A commit of main is its position in the history, so `sha' is a positive *)
(* number and 0 is the empty string the pointers file starts with.         *)
(* Every landing of the pointers file rewrites its updated_at fields, so   *)
(* two landed files never have equal text: a file is identified by its     *)
(* position in `files', and comparing blobs is comparing positions.        *)
(* tags.current of a file is always "v" followed by its major, so the two  *)
(* are one field.                                                          *)
(***************************************************************************)
EXTENDS Naturals, Sequences

CONSTANTS
    Runs,        \* workflow runs that may be dispatched
    Dispatched,  \* the kinds of run dispatched, a subset of Kinds
    MaxCommits,  \* bound: length of main up to which other commits are pushed
    MaxMajor     \* bound: highest moving major tag

ASSUME BoundsAssumption ==
    /\ Dispatched \subseteq {"major", "minor", "patch", "rollback"}
    /\ MaxCommits \in Nat
    /\ MaxMajor \in Nat

VARIABLES
    main,       \* main[c]: position in files of the pointers file at commit c
    files,      \* files[v]: v-th text of config/release-pointers.json on main
    immutable,  \* releases with a vX.Y.Z tag on origin
    vtag,       \* vtag[m]: commit of tag v<m> on origin, 0 when missing
    ops,        \* commits of the tags "next" and "previous" on origin
    published,  \* semvers with a GitHub Release
    run,        \* run[r]: a workflow run of the concurrency group
    pr          \* pr[r]: the pointers pull request of run r

vars == <<main, files, immutable, vtag, ops, published, run, pr>>
repo == <<main, files>>
tags == <<immutable, vtag, ops>>

-----------------------------------------------------------------------------
(* Data *)

Majors == 0..MaxMajor
ReleaseTypes == {"major", "minor", "patch"}
Kinds == ReleaseTypes \union {"rollback"}

Semver == Nat \X Nat \X Nat
Release == [sha : Nat, semver : Semver]
NoRelease == [sha |-> 0, semver |-> <<0, 0, 0>>]
Pointers == [major : Nat, current : Release, next : Release, previous : Release]

\* The file before the first promote, and the one this repository carries:
\* v0.2.1 released over v0.2.0, here commits 2 and 1 of main.
BootstrapPointers ==
    [major |-> 0, current |-> NoRelease, next |-> NoRelease, previous |-> NoRelease]
CommittedPointers ==
    [major    |-> 0,
     current  |-> [sha |-> 2, semver |-> <<0, 2, 1>>],
     next     |-> [sha |-> 2, semver |-> <<0, 2, 1>>],
     previous |-> [sha |-> 1, semver |-> <<0, 2, 0>>]]

\* The steps of a run, in the order the workflow takes them.
Executing == {"gate", "planned", "prepared", "opened", "stamped", "tagged",
              "approved", "landed"}
Finished == {"done", "failed"}
Run == [phase : {"unused", "pending"} \union Executing \union Finished,
        kind : Kinds, sha : Nat]
PullRequest == [state : {"none", "open", "approved", "merged"}, base : Nat]

-----------------------------------------------------------------------------
(* Plans *)

SemverLess(s, t) ==
    \/ s[1] < t[1]
    \/ s[1] = t[1] /\ s[2] < t[2]
    \/ s[1] = t[1] /\ s[2] = t[2] /\ s[3] < t[3]

Higher(s, t) == IF SemverLess(s, t) THEN t ELSE s

HighestPointerSemver(p) ==
    Higher(p.current.semver, Higher(p.next.semver, p.previous.semver))

NextSemver(s, type) ==
    CASE type = "major" -> <<s[1] + 1, 0, 0>>
      [] type = "minor" -> <<s[1], s[2] + 1, 0>>
      [] type = "patch" -> <<s[1], s[2], s[3] + 1>>

Bootstrap(p) == p.current.sha = 0

PromoteSemver(p, type) ==
    IF Bootstrap(p) THEN <<p.major, 0, 0>>
                    ELSE NextSemver(HighestPointerSemver(p), type)

\* The pointers file a promote of commit sha lands on top of file p.
PromotePointers(p, sha, type) ==
    LET new == [sha |-> sha, semver |-> PromoteSemver(p, type)]
    IN  [major    |-> new.semver[1],
         current  |-> new,
         next     |-> new,
         previous |-> IF Bootstrap(p) THEN new ELSE p.current]

\* The pointers file a rollback lands: current and previous swap and the
\* moving major tag keeps its name.
RollbackPointers(p) ==
    [major |-> p.major, current |-> p.previous, next |-> p.previous,
     previous |-> p.current]

RollbackPlannable(p) ==
    /\ p.previous.sha # 0
    /\ p.current.sha # 0
    /\ p.previous.sha # p.current.sha

Planned(p, kind, sha) ==
    IF kind = "rollback" THEN RollbackPointers(p) ELSE PromotePointers(p, sha, kind)

-----------------------------------------------------------------------------
(* What a run reads and what it is about to land *)

Tip == Len(main)
TipVersion == main[Tip]

PlanBase(r) == main[run[r].sha]
Target(r) == Planned(files[PlanBase(r)], run[r].kind, run[r].sha)

\* Mutant: no check of origin before planning.
RemoteCurrentIgnored(p, inFlight) == TRUE

\* The guard against a moving tag that disagrees with the plan's pointers.
RemoteCurrentAllows(p, inFlight) ==
    p.current.sha # 0 => vtag[p.major] \in {p.current.sha, inFlight}

\* Mutant: an existing tag is pushed over.
SemverAlwaysFree(release) == TRUE

\* Mutant: an existing tag is refused even at its own commit.
SemverUnused(release) == \A i \in immutable : i.semver # release.semver

\* No tag of that semver on origin names another commit.
SemverFree(release) ==
    \A i \in immutable : i.semver = release.semver => i.sha = release.sha

\* Mutant: no comparison with main before the branch is pushed.
PointersBaseUnchecked(r) == TRUE

PointersBaseMatchesTip(r) == PlanBase(r) = TipVersion

\* A squash merge goes through only on the text the branch started from:
\* every landing rewrites the same lines.
Mergeable(r) == pr[r].base = TipVersion

GroupBusy == \E r \in Runs : run[r].phase \in Executing

-----------------------------------------------------------------------------
(* Dispatch and the concurrency group *)

\* Before the first promote, or from the releases the repository carries.
Init ==
    /\ \/ /\ main = <<1>>
          /\ files = <<BootstrapPointers>>
          /\ immutable = {}
          /\ vtag = [m \in Majors |-> 0]
          /\ ops = [next |-> 0, previous |-> 0]
       \/ /\ main = <<1, 1, 2>>
          /\ files = <<BootstrapPointers, CommittedPointers>>
          /\ immutable = {CommittedPointers.current, CommittedPointers.previous}
          /\ vtag = [m \in Majors |-> IF m = 0 THEN 2 ELSE 0]
          /\ ops = [next |-> 2, previous |-> 1]
    /\ published = {i.semver : i \in immutable}
    /\ run = [r \in Runs |-> [phase |-> "unused", kind |-> "patch", sha |-> 0]]
    /\ pr = [r \in Runs |-> [state |-> "none", base |-> 0]]

Phase(r, phase) == run' = [run EXCEPT ![r].phase = phase]

\* A run entering the group's queue replaces the run already waiting there.
Enqueue(r, entry) ==
    run' = [q \in Runs |->
               IF q = r THEN entry
               ELSE IF run[q].phase = "pending"
                    THEN [run[q] EXCEPT !.phase = "failed"]
                    ELSE run[q]]

\* Mutant: the run names a commit that is not on main yet.
DispatchAhead(r) ==
    /\ run[r].phase = "unused"
    /\ \E kind \in Dispatched :
          Enqueue(r, [phase |-> "pending", kind |-> kind, sha |-> Tip + 1])
    /\ UNCHANGED <<repo, tags, published, pr>>

Dispatch(r) ==
    /\ run[r].phase = "unused"
    /\ \E kind \in Dispatched :
          Enqueue(r, [phase |-> "pending", kind |-> kind, sha |-> Tip])
    /\ UNCHANGED <<repo, tags, published, pr>>

\* Re-running keeps the commit and the inputs of the first attempt.
Rerun(r) ==
    /\ run[r].phase \in Finished
    /\ Enqueue(r, [run[r] EXCEPT !.phase = "pending"])
    /\ UNCHANGED <<repo, tags, published, pr>>

Start(r) ==
    /\ run[r].phase = "pending"
    /\ ~GroupBusy
    /\ Phase(r, "gate")
    /\ UNCHANGED <<repo, tags, published, pr>>

\* Main advances independently of the train, also while a run waits or gates.
PushCommit ==
    /\ Tip < MaxCommits
    /\ main' = Append(main, TipVersion)
    /\ UNCHANGED <<files, tags, published, run, pr>>

-----------------------------------------------------------------------------
(* The steps of a run *)

\* What both scripts check before they write anything: the commit is on
\* main, the plan is possible and origin does not contradict it.
PlanAccepted(r) ==
    /\ run[r].phase = "gate"
    /\ run[r].sha <= Tip
    /\ run[r].kind = "rollback" => RollbackPlannable(files[PlanBase(r)])
    /\ RemoteCurrentAllows(files[PlanBase(r)], Target(r).current.sha)
    /\ Target(r).major <= MaxMajor

\* aw_release_promote.py / aw_release_rollback.py: local tags and the
\* rewritten pointers file.
Plan(r) ==
    /\ PlanAccepted(r)
    /\ run[r].kind # "rollback" => SemverFree(Target(r).current)
    /\ Phase(r, "planned")
    /\ UNCHANGED <<repo, tags, published, pr>>

\* With dry-run the scripts stop at the plan.  A re-run of a dry run is dry
\* too; allowing it to be real adds nothing, since a real run may also end
\* here (Fail) and be re-run.
DryRun(r) ==
    /\ PlanAccepted(r)
    /\ Phase(r, "done")
    /\ UNCHANGED <<repo, tags, published, pr>>

Prepare(r) ==
    /\ run[r].phase = "planned"
    /\ PointersBaseMatchesTip(r)
    /\ Phase(r, "prepared")
    /\ pr' = [pr EXCEPT ![r].base = TipVersion]
    /\ UNCHANGED <<repo, tags, published>>

\* A re-run updates the pull request it already has; whether an approval
\* survives the new head depends on the ruleset.
OpenPullRequest(r) ==
    /\ run[r].phase = "prepared"
    /\ Phase(r, "opened")
    /\ \E state \in {"open"} \union ({pr[r].state} \intersect {"approved"}) :
          pr' = [pr EXCEPT ![r].state = state]
    /\ UNCHANGED <<repo, tags, published>>

PushImmutable(r) ==
    /\ run[r].phase = "opened"
    /\ run[r].kind # "rollback"
    /\ SemverFree(Target(r).current)
    /\ immutable' = immutable \union {Target(r).current}
    /\ Phase(r, "stamped")
    /\ UNCHANGED <<repo, vtag, ops, published, pr>>

ReadyToMoveTags(r) ==
    \/ run[r].phase = "stamped"
    \/ run[r].phase = "opened" /\ run[r].kind = "rollback"

\* Mutant: the moving tag keeps the major of the file the plan started from.
MoveOldTag(r, refs) ==
    LET p == Target(r)
        major == files[PlanBase(r)].major
    IN  /\ vtag' = [m \in Majors |->
                       IF m = major /\ "current" \in refs THEN p.current.sha
                                                          ELSE vtag[m]]
        /\ ops' = [t \in {"next", "previous"} |->
                       IF t \in refs THEN p[t].sha ELSE ops[t]]

MoveTags(r, refs) ==
    LET p == Target(r)
    IN  /\ vtag' = [m \in Majors |->
                       IF m = p.major /\ "current" \in refs THEN p.current.sha
                                                            ELSE vtag[m]]
        /\ ops' = [t \in {"next", "previous"} |->
                       IF t \in refs THEN p[t].sha ELSE ops[t]]

PushMoving(r) ==
    /\ ReadyToMoveTags(r)
    /\ MoveTags(r, {"current", "next", "previous"})
    /\ Phase(r, "tagged")
    /\ UNCHANGED <<repo, immutable, published, pr>>

\* The push is not atomic: it may update some refs and fail on the others.
PushMovingInPart(r) ==
    /\ ReadyToMoveTags(r)
    /\ \E refs \in SUBSET {"current", "next", "previous"} : MoveTags(r, refs)
    /\ Phase(r, "failed")
    /\ UNCHANGED <<repo, immutable, published, pr>>

Approve(r) ==
    /\ run[r].phase = "tagged"
    /\ Phase(r, "approved")
    /\ pr' = [pr EXCEPT ![r].state = IF pr[r].state = "merged" THEN "merged"
                                                               ELSE "approved"]
    /\ UNCHANGED <<repo, tags, published>>

\* Landing the file on main: one more commit, carrying one more file.
Land(r) ==
    /\ pr[r].state = "approved"
    /\ Mergeable(r)
    /\ files' = Append(files, Target(r))
    /\ main' = Append(main, Len(files) + 1)
    /\ pr' = [pr EXCEPT ![r].state = "merged"]
    /\ UNCHANGED <<tags, published>>

Merge(r) ==
    /\ run[r].phase = "approved"
    /\ Land(r)
    /\ Phase(r, "landed")

\* A maintainer merges the approved pull request: during the run's merge
\* loop, or after the run gave up on it.
MergeOutOfBand(r) ==
    /\ Land(r)
    /\ UNCHANGED run

MergeAlreadyDone(r) ==
    /\ run[r].phase = "approved"
    /\ pr[r].state = "merged"
    /\ Phase(r, "landed")
    /\ UNCHANGED <<repo, tags, published, pr>>

CreateRelease(r) ==
    /\ run[r].phase = "landed"
    /\ run[r].kind # "rollback"
    /\ Target(r).current.semver \notin published
    /\ published' = published \union {Target(r).current.semver}
    /\ Phase(r, "done")
    /\ UNCHANGED <<repo, tags, pr>>

FinishRollback(r) ==
    /\ run[r].phase = "landed"
    /\ run[r].kind = "rollback"
    /\ Phase(r, "done")
    /\ UNCHANGED <<repo, tags, published, pr>>

\* E2E fails, a guard refuses, a call fails, the merge loop times out, the
\* job is cancelled or its runner is lost: nothing is undone.
Fail(r) ==
    /\ run[r].phase \in Executing
    /\ Phase(r, "failed")
    /\ UNCHANGED <<repo, tags, published, pr>>

Step(r) ==
    \/ Plan(r) \/ Prepare(r) \/ OpenPullRequest(r) \/ PushImmutable(r)
    \/ PushMoving(r) \/ Approve(r) \/ Merge(r) \/ MergeAlreadyDone(r)
    \/ CreateRelease(r) \/ FinishRollback(r)

Next ==
    \/ PushCommit
    \/ \E r \in Runs :
          \/ Dispatch(r) \/ Rerun(r) \/ Start(r)
          \/ Step(r) \/ DryRun(r) \/ PushMovingInPart(r)
          \/ MergeOutOfBand(r) \/ Fail(r)

Spec == Init /\ [][Next]_vars

-----------------------------------------------------------------------------
(* Properties *)

\* The releases production has ever been pointed at.
Issued ==
    (UNION {{files[v].current, files[v].previous} : v \in 1..Len(files)})
      \ {NoRelease}

\* Every variable stays within the values the code can produce.
TypeOK ==
    /\ main \in Seq(Nat) /\ main # << >>
    /\ files \in Seq(Pointers) /\ files # << >>
    /\ \A c \in 1..Len(main) : main[c] \in 1..Len(files)
    /\ immutable \subseteq Release
    /\ vtag \in [Majors -> Nat]
    /\ ops \in [{"next", "previous"} -> Nat]
    /\ published \subseteq Semver
    /\ run \in [Runs -> Run]
    /\ \A r \in Runs : run[r].phase # "unused" => run[r].sha \in 1..Len(main)
    /\ pr \in [Runs -> PullRequest]

\* Every release a landed pointers file names as current or previous has its
\* audit tag on origin at exactly that commit, and no semver is tagged at two
\* commits: create_immutable_semver_tag refuses, push_immutable_tags runs
\* before the pull request may merge.
AuditTrail ==
    /\ \A i, j \in immutable : i.semver = j.semver => i = j
    /\ \A v \in 1..Len(files) : ~Bootstrap(files[v]) =>
          {files[v].current, files[v].next, files[v].previous} \subseteq immutable

\* Whatever commit of main the distribution checks out, the moving major tag
\* its pointers file names is on origin: tags are pushed before pointers land.
PinResolvable ==
    \A c \in 1..Len(main) :
       ~Bootstrap(files[main[c]]) => vtag[files[main[c]].major] # 0

\* The commit production consumers run is the one the landed pointers record,
\* or that of a release whose pull request still waits to merge: a stale run,
\* a retry or a partly failed push never leaves them on a third commit.
CurrentTagAccounted ==
    LET p == files[TipVersion]
    IN  ~Bootstrap(p) =>
          \/ vtag[p.major] = p.current.sha
          \/ \E r \in Runs :
                /\ pr[r].state \in {"open", "approved"}
                /\ Mergeable(r)
                /\ Target(r).major = p.major
                /\ Target(r).current.sha = vtag[p.major]

\* What the landed pointers files say is one abstract line of releases: each
\* landing either issues a release newer than everything issued before, by
\* commit and by semver, or swaps current and previous.
Line == INSTANCE ReleaseLine WITH
    current  <- files[TipVersion].current,
    previous <- files[TipVersion].previous,
    issued   <- Issued
ImplementsReleaseLine == Line!Spec

\* While a failed run's published release waits to merge, no plan for another
\* commit on top of the same file is accepted: only the failed release may be
\* taken up again (require_remote_current_allows_in_flight).  The guard reads
\* the moving tag of the landed major, so a new major that waits is not seen.
LaterReleaseWaits ==
    [][\A q, r \in Runs :
          /\ run[q].phase = "failed" /\ pr[q].state = "approved" /\ Mergeable(q)
          /\ Target(q).major = files[TipVersion].major
          /\ run[r].phase = "gate" /\ run'[r].phase = "planned"
          /\ PlanBase(r) = TipVersion
          => Target(r).current.sha = Target(q).current.sha]_vars

=============================================================================
