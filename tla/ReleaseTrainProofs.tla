------------------------- MODULE ReleaseTrainProofs -------------------------
(***************************************************************************)
(* Proofs about ReleaseTrain, for every set of runs and every bound.       *)
(***************************************************************************)
EXTENDS ReleaseTrain, TLAPS

-----------------------------------------------------------------------------
(* The inductive invariant *)

\* Phases in which a run has passed its plan.
PastPlan == {"planned", "prepared", "opened", "stamped", "tagged", "approved",
             "landed"}

\* A run whose plan was accepted in this attempt, or that has a pull request:
\* the plan passed the checks of the plan step.
PlanChecked(r) ==
    run[r].phase \in PastPlan \/ pr[r].state # "none" =>
       /\ run[r].phase # "unused"
       /\ Target(r).major <= MaxMajor
       /\ run[r].kind = "rollback" => RollbackPlannable(files[PlanBase(r)])

\* A pull request is based on the file its plan was computed from.
BaseIsPlanBase(r) ==
    run[r].phase \in PastPlan \ {"planned"} \/ pr[r].state # "none" =>
       pr[r].base = PlanBase(r)

\* The tags of a plan are on origin before its pull request may merge.
TagsPublished(r) == Target(r).current \in immutable /\ vtag[Target(r).major] # 0
TagsBeforePointers(r) ==
    /\ run[r].phase = "stamped" => Target(r).current \in immutable
    /\ \/ run[r].phase \in {"tagged", "approved", "landed"}
       \/ pr[r].state \in {"approved", "merged"}
       => TagsPublished(r)

RunInv(r) == PlanChecked(r) /\ BaseIsPlanBase(r) /\ TagsBeforePointers(r)

\* Landed files: an empty file has no release at all, any other names a major
\* tag within the bound that is on origin.
FilesSound ==
    \A v \in 1..Len(files) :
       /\ files[v].major <= MaxMajor
       /\ files[v].next = files[v].current
       /\ Bootstrap(files[v]) => files[v] = BootstrapPointers
       /\ ~Bootstrap(files[v]) => vtag[files[v].major] # 0

IInv ==
    /\ TypeOK
    /\ \A r \in Runs : RunInv(r)
    /\ FilesSound
    /\ AuditTrail

-----------------------------------------------------------------------------
(* Operators *)

LEMMA SemverParts ==
    ASSUME NEW s \in Semver
    PROVE  s[1] \in Nat /\ s[2] \in Nat /\ s[3] \in Nat
  BY DEF Semver

LEMMA HigherType ==
    ASSUME NEW s \in Semver, NEW t \in Semver
    PROVE  Higher(s, t) \in Semver
  BY DEF Higher

LEMMA NextSemverType ==
    ASSUME NEW s \in Semver, NEW type \in ReleaseTypes
    PROVE  NextSemver(s, type) \in Semver
  BY SemverParts DEF NextSemver, Semver, ReleaseTypes

LEMMA PromoteSemverType ==
    ASSUME NEW p \in Pointers, NEW type \in ReleaseTypes
    PROVE  PromoteSemver(p, type) \in Semver
  <1>1. /\ p.current.semver \in Semver /\ p.next.semver \in Semver
        /\ p.previous.semver \in Semver
    BY DEF Pointers, Release
  <1>2. HighestPointerSemver(p) \in Semver
    BY <1>1, HigherType DEF HighestPointerSemver
  <1>3. <<p.major, 0, 0>> \in Semver
    BY DEF Pointers, Semver
  <1>4. QED
    BY <1>2, <1>3, NextSemverType DEF PromoteSemver

\* Whatever a run plans from a pointers file is a pointers file.
LEMMA PlannedType ==
    ASSUME NEW p \in Pointers, NEW kind \in Kinds, NEW sha \in Nat
    PROVE  Planned(p, kind, sha) \in Pointers
  <1>1. CASE kind = "rollback"
    BY <1>1 DEF Planned, RollbackPointers, Pointers
  <1>2. CASE kind # "rollback"
    <2>1. kind \in ReleaseTypes
      BY <1>2 DEF Kinds
    <2>2. PromoteSemver(p, kind) \in Semver
      BY <2>1, PromoteSemverType
    <2>3. PromotePointers(p, sha, kind) \in Pointers
      BY <2>2, SemverParts DEF PromotePointers, Pointers, Release
    <2>4. QED
      BY <1>2, <2>3 DEF Planned
  <1>3. QED
    BY <1>1, <1>2

-----------------------------------------------------------------------------
(* What a run plans never changes under its feet *)

HistoryKept ==
    /\ \A c \in 1..Len(main) : c \in 1..Len(main') /\ main'[c] = main[c]
    /\ \A v \in 1..Len(files) : v \in 1..Len(files') /\ files'[v] = files[v]

LEMMA PlanFacts ==
    ASSUME TypeOK, NEW r \in Runs, run[r].phase # "unused"
    PROVE  /\ run[r].sha \in 1..Len(main)
           /\ run[r].kind \in Kinds
           /\ PlanBase(r) \in 1..Len(files)
           /\ files[PlanBase(r)] \in Pointers
           /\ Target(r) \in Pointers
  <1>1. run[r].sha \in 1..Len(main) /\ run[r].kind \in Kinds
    BY DEF TypeOK, Run
  <1>2. PlanBase(r) \in 1..Len(files)
    BY <1>1 DEF TypeOK, PlanBase
  <1>3. files[PlanBase(r)] \in Pointers
    BY <1>2 DEF TypeOK
  <1>4. Target(r) \in Pointers
    BY <1>1, <1>3, PlannedType DEF Target
  <1>5. QED
    BY <1>1, <1>2, <1>3, <1>4

LEMMA PlanKept ==
    ASSUME TypeOK, HistoryKept, NEW r \in Runs, run[r].phase # "unused",
           run'[r].sha = run[r].sha, run'[r].kind = run[r].kind
    PROVE  /\ PlanBase(r)' = PlanBase(r)
           /\ files'[PlanBase(r)] = files[PlanBase(r)]
           /\ Target(r)' = Target(r)
  <1>1. PlanBase(r)' = PlanBase(r)
    BY PlanFacts DEF HistoryKept, PlanBase
  <1>2. files'[PlanBase(r)] = files[PlanBase(r)]
    BY PlanFacts DEF HistoryKept
  <1>3. QED
    BY <1>1, <1>2 DEF Target

LEMMA UnchangedHistory ==
    UNCHANGED repo => HistoryKept
  BY DEF repo, HistoryKept

\* Tags appear on origin and move; none disappears.
TagsKept ==
    /\ immutable \subseteq immutable'
    /\ \A m \in Majors : vtag[m] # 0 => vtag'[m] # 0

LEMMA UnchangedTags ==
    UNCHANGED <<immutable, vtag>> => TagsKept
  BY DEF TagsKept

\* A step that leaves a run where it was, or takes it out of its steps, keeps
\* what is known of the run.
LEMMA RunKept ==
    ASSUME TypeOK, HistoryKept, TagsKept, NEW r \in Runs, RunInv(r),
           pr'[r] = pr[r],
           \/ run'[r] = run[r]
           \/ /\ run[r].phase # "unused"
              /\ run'[r].sha = run[r].sha /\ run'[r].kind = run[r].kind
              /\ run'[r].phase \in {"pending", "gate", "done", "failed"}
    PROVE  RunInv(r)'
  <1>1. CASE run[r].phase = "unused"
    <2>1. run'[r] = run[r] /\ pr[r].state = "none"
      BY <1>1 DEF RunInv, PlanChecked
    <2>2. QED
      BY <1>1, <2>1 DEF RunInv, PlanChecked, BaseIsPlanBase, TagsBeforePointers,
                        PastPlan
  <1>2. CASE run[r].phase # "unused"
    <2>1. /\ PlanBase(r)' = PlanBase(r)
          /\ files'[PlanBase(r)] = files[PlanBase(r)]
          /\ Target(r)' = Target(r)
          /\ run'[r].kind = run[r].kind
      BY <1>2, PlanKept
    <2>2. run'[r].phase # "unused"
      BY <1>2
    <2>3. run'[r].phase = run[r].phase \/ run'[r].phase \notin PastPlan
      BY DEF PastPlan
    <2>4. PlanChecked(r)'
      BY <2>1, <2>2, <2>3 DEF RunInv, PlanChecked
    <2>5. BaseIsPlanBase(r)'
      BY <2>1, <2>3 DEF RunInv, BaseIsPlanBase
    <2>6. TagsPublished(r) /\ (pr[r].state # "none" \/ run[r].phase \in PastPlan)
             => TagsPublished(r)'
      <3>1. SUFFICES ASSUME TagsPublished(r),
                            pr[r].state # "none" \/ run[r].phase \in PastPlan
                     PROVE  TagsPublished(r)'
        OBVIOUS
      <3>2. Target(r).major \in Majors
        BY <1>2, <3>1, PlanFacts DEF RunInv, PlanChecked, Majors, Pointers
      <3>3. QED
        BY <2>1, <3>1, <3>2 DEF TagsPublished, TagsKept
    <2>7. TagsBeforePointers(r)'
      <3>1. run'[r].phase = "stamped" => (Target(r).current \in immutable)'
        BY <2>1, <2>3 DEF RunInv, TagsBeforePointers, PastPlan, TagsKept
      <3>2. ASSUME \/ run'[r].phase \in {"tagged", "approved", "landed"}
                   \/ pr'[r].state \in {"approved", "merged"}
            PROVE  TagsPublished(r)'
        <4>1. \/ run[r].phase \in {"tagged", "approved", "landed"}
              \/ pr[r].state \in {"approved", "merged"}
          BY <2>3, <3>2 DEF PastPlan
        <4>2. TagsPublished(r)
          BY <4>1 DEF RunInv, TagsBeforePointers
        <4>3. pr[r].state # "none" \/ run[r].phase \in PastPlan
          BY <4>1 DEF PastPlan
        <4>4. QED
          BY <2>6, <4>2, <4>3
      <3>3. QED
        BY <3>1, <3>2 DEF TagsBeforePointers
    <2>8. QED
      BY <2>4, <2>5, <2>7 DEF RunInv
  <1>3. QED
    BY <1>1, <1>2

-----------------------------------------------------------------------------
(* Types *)

THEOREM InitTypeOK == Init => TypeOK
  <1> SUFFICES ASSUME Init PROVE TypeOK
    OBVIOUS
  <1>1. BootstrapPointers \in Pointers /\ CommittedPointers \in Pointers
    BY DEF BootstrapPointers, CommittedPointers, NoRelease, Pointers, Release, Semver
  <1>2. /\ main \in Seq(Nat) /\ main # << >>
        /\ files \in Seq(Pointers) /\ files # << >>
        /\ \A c \in 1..Len(main) : main[c] \in 1..Len(files)
    <2>1. CASE main = <<1>> /\ files = <<BootstrapPointers>>
      BY <1>1, <2>1
    <2>2. CASE main = <<1, 1, 2>> /\ files = <<BootstrapPointers, CommittedPointers>>
      <3>1. main \in Seq(Nat) /\ main # << >> /\ Len(main) = 3
            /\ main[1] = 1 /\ main[2] = 1 /\ main[3] = 2
        BY <2>2
      <3>2. files \in Seq(Pointers) /\ files # << >> /\ Len(files) = 2
        BY <1>1, <2>2
      <3>3. QED
        BY <3>1, <3>2
    <2>3. QED
      BY <2>1, <2>2 DEF Init
  <1>3. immutable \subseteq Release /\ published \subseteq Semver
    BY <1>1 DEF Init, Pointers, Release
  <1>4. vtag \in [Majors -> Nat] /\ ops \in [{"next", "previous"} -> Nat]
    BY DEF Init
  <1>5. run \in [Runs -> Run] /\ \A r \in Runs : run[r].phase = "unused"
    BY DEF Init, Run, Kinds, ReleaseTypes
  <1>6. pr \in [Runs -> PullRequest]
    BY DEF Init, PullRequest
  <1>7. QED
    BY <1>2, <1>3, <1>4, <1>5, <1>6 DEF TypeOK

LEMMA PhaseType ==
    ASSUME TypeOK, NEW r \in Runs, run[r].phase # "unused",
           NEW ph \in {"pending"} \union Executing \union Finished, Phase(r, ph)
    PROVE  /\ run' \in [Runs -> Run]
           /\ \A q \in Runs : run'[q].phase # "unused" => run'[q].sha \in 1..Len(main)
           /\ run'[r].phase = ph /\ run'[r].sha = run[r].sha
           /\ run'[r].kind = run[r].kind
           /\ \A q \in Runs \ {r} : run'[q] = run[q]
  BY DEF TypeOK, Phase, Run

LEMMA EnqueueType ==
    ASSUME TypeOK, NEW r \in Runs, NEW entry \in Run, entry.phase = "pending",
           entry.sha \in 1..Len(main), Enqueue(r, entry)
    PROVE  /\ run' \in [Runs -> Run]
           /\ \A q \in Runs : run'[q].phase # "unused" => run'[q].sha \in 1..Len(main)
           /\ run'[r] = entry
           /\ \A q \in Runs \ {r} :
                 \/ run'[q] = run[q]
                 \/ /\ run[q].phase # "unused"
                    /\ run'[q].sha = run[q].sha /\ run'[q].kind = run[q].kind
                    /\ run'[q].phase = "failed"
  BY DEF TypeOK, Enqueue, Run, Finished

LEMMA MoveTagsType ==
    ASSUME TypeOK, NEW r \in Runs, run[r].phase # "unused",
           NEW refs \in SUBSET {"current", "next", "previous"}, MoveTags(r, refs)
    PROVE  vtag' \in [Majors -> Nat] /\ ops' \in [{"next", "previous"} -> Nat]
  <1>1. Target(r) \in Pointers
    BY PlanFacts
  <1>2. Target(r).current.sha \in Nat /\ Target(r)["next"].sha \in Nat
        /\ Target(r)["previous"].sha \in Nat
    BY <1>1 DEF Pointers, Release
  <1>3. QED
    BY <1>2 DEF TypeOK, MoveTags

LEMMA LandType ==
    ASSUME TypeOK, NEW r \in Runs, run[r].phase # "unused", Land(r)
    PROVE  /\ main' \in Seq(Nat) /\ main' # << >>
           /\ files' \in Seq(Pointers) /\ files' # << >>
           /\ \A c \in 1..Len(main') : main'[c] \in 1..Len(files')
           /\ \A c \in 1..Len(main) : c \in 1..Len(main')
           /\ pr' \in [Runs -> PullRequest]
           /\ HistoryKept
  <1>1. Target(r) \in Pointers
    BY PlanFacts
  <1>2. files' = Append(files, Target(r)) /\ main' = Append(main, Len(files) + 1)
    BY DEF Land
  <1>3. files \in Seq(Pointers) /\ main \in Seq(Nat)
        /\ \A c \in 1..Len(main) : main[c] \in 1..Len(files)
    BY DEF TypeOK
  <1>4. Len(files') = Len(files) + 1 /\ Len(main') = Len(main) + 1
    BY <1>1, <1>2, <1>3
  <1>5. /\ \A v \in 1..Len(files) : files'[v] = files[v]
        /\ \A c \in 1..Len(main) : main'[c] = main[c]
        /\ main'[Len(main) + 1] = Len(files) + 1
    BY <1>1, <1>2, <1>3
  <1>6. HistoryKept
    BY <1>3, <1>4, <1>5 DEF HistoryKept
  <1>7. \A c \in 1..Len(main') : main'[c] \in 1..Len(files')
    <2>1. SUFFICES ASSUME NEW c \in 1..Len(main')
                   PROVE  main'[c] \in 1..Len(files')
      OBVIOUS
    <2>2. CASE c = Len(main) + 1
      BY <1>3, <1>4, <1>5, <2>2
    <2>3. CASE c # Len(main) + 1
      <3>1. c \in 1..Len(main)
        BY <1>3, <1>4, <2>3
      <3>2. QED
        BY <1>3, <1>4, <1>5, <3>1
    <2>4. QED
      BY <2>2, <2>3
  <1>8. pr' \in [Runs -> PullRequest]
    BY DEF Land, TypeOK, PullRequest
  <1>9. QED
    BY <1>1, <1>2, <1>3, <1>4, <1>6, <1>7, <1>8

-----------------------------------------------------------------------------
(* Steps that leave the repository and the tags alone *)

LEMMA Frame ==
    ASSUME IInv, TypeOK', HistoryKept, TagsKept, UNCHANGED files,
           \A i, j \in immutable' : i.semver = j.semver => i = j,
           \A r \in Runs : RunInv(r)'
    PROVE  IInv'
  <1>1. FilesSound'
    <2>1. SUFFICES ASSUME NEW v \in 1..Len(files)
                   PROVE  ~Bootstrap(files[v]) => vtag'[files[v].major] # 0
      BY DEF IInv, FilesSound
    <2>2. files[v] \in Pointers
      BY DEF IInv, TypeOK
    <2>3. files[v].major \in Majors
      BY <2>2 DEF IInv, FilesSound, Majors, Pointers
    <2>4. QED
      BY <2>3 DEF IInv, FilesSound, TagsKept
  <1>2. AuditTrail'
    BY DEF IInv, AuditTrail, TagsKept
  <1>3. QED
    BY <1>1, <1>2 DEF IInv

LEMMA QuietStep ==
    ASSUME IInv, UNCHANGED <<repo, tags>>, published' \subseteq Semver,
           run' \in [Runs -> Run], pr' \in [Runs -> PullRequest],
           \A r \in Runs : run'[r].phase # "unused" => run'[r].sha \in 1..Len(main),
           \A r \in Runs : RunInv(r)'
    PROVE  IInv'
  <1>1. UNCHANGED <<main, files, immutable, vtag, ops>>
    BY DEF repo, tags
  <1>2. TypeOK'
    BY <1>1 DEF IInv, TypeOK
  <1>3. HistoryKept /\ TagsKept
    BY <1>1, UnchangedHistory, UnchangedTags DEF repo
  <1>4. \A i, j \in immutable' : i.semver = j.semver => i = j
    BY <1>1 DEF IInv, AuditTrail
  <1>5. QED
    BY <1>1, <1>2, <1>3, <1>4, Frame

LEMMA DispatchStep ==
    ASSUME IInv, NEW r \in Runs, Dispatch(r)
    PROVE  IInv'
  <1>1. PICK kind \in Dispatched :
           Enqueue(r, [phase |-> "pending", kind |-> kind, sha |-> Tip])
    BY DEF Dispatch
  <1> DEFINE entry == [phase |-> "pending", kind |-> kind, sha |-> Tip]
  <1>2. TypeOK /\ UNCHANGED <<repo, tags, published, pr>>
        /\ run[r].phase = "unused" /\ RunInv(r)
    BY DEF Dispatch, IInv
  <1>3. entry.phase = "pending" /\ entry.sha \in 1..Len(main)
    BY <1>2 DEF TypeOK, Tip
  <1>4. entry \in Run
    BY <1>3, BoundsAssumption DEF Run, Kinds, ReleaseTypes
  <1>5. /\ run' \in [Runs -> Run]
        /\ \A q \in Runs : run'[q].phase # "unused" => run'[q].sha \in 1..Len(main)
        /\ run'[r] = entry
        /\ \A q \in Runs \ {r} :
              \/ run'[q] = run[q]
              \/ /\ run[q].phase # "unused"
                 /\ run'[q].sha = run[q].sha /\ run'[q].kind = run[q].kind
                 /\ run'[q].phase = "failed"
    BY <1>1, <1>2, <1>3, <1>4, EnqueueType
  <1>6. HistoryKept /\ TagsKept
    BY <1>2, UnchangedHistory, UnchangedTags DEF tags
  <1>7. RunInv(r)'
    <2>1. pr'[r].state = "none"
      BY <1>2 DEF RunInv, PlanChecked
    <2>2. run'[r].phase = "pending"
      BY <1>5
    <2>3. QED
      BY <2>1, <2>2 DEF RunInv, PlanChecked, BaseIsPlanBase, TagsBeforePointers,
                        PastPlan
  <1>8. \A q \in Runs : RunInv(q)'
    BY <1>2, <1>5, <1>6, <1>7, RunKept DEF IInv
  <1>9. pr' \in [Runs -> PullRequest] /\ published' \subseteq Semver
    BY <1>2 DEF TypeOK
  <1>10. QED
    BY <1>2, <1>5, <1>8, <1>9, QuietStep

LEMMA RerunStep ==
    ASSUME IInv, NEW r \in Runs, Rerun(r)
    PROVE  IInv'
  <1> DEFINE entry == [run[r] EXCEPT !.phase = "pending"]
  <1>1. TypeOK /\ UNCHANGED <<repo, tags, published, pr>>
        /\ run[r].phase # "unused" /\ Enqueue(r, entry)
    BY DEF Rerun, IInv, Finished
  <1>2. run[r] \in Run /\ run[r].sha \in 1..Len(main)
    BY <1>1 DEF TypeOK
  <1>3. entry \in Run /\ entry.phase = "pending" /\ entry.sha = run[r].sha
        /\ entry.kind = run[r].kind
    BY <1>2 DEF Run
  <1> HIDE DEF entry
  <1>4. /\ run' \in [Runs -> Run]
        /\ \A q \in Runs : run'[q].phase # "unused" => run'[q].sha \in 1..Len(main)
        /\ run'[r] = entry
        /\ \A q \in Runs \ {r} :
              \/ run'[q] = run[q]
              \/ /\ run[q].phase # "unused"
                 /\ run'[q].sha = run[q].sha /\ run'[q].kind = run[q].kind
                 /\ run'[q].phase = "failed"
    BY <1>1, <1>2, <1>3, EnqueueType
  <1>5. HistoryKept /\ TagsKept
    BY <1>1, UnchangedHistory, UnchangedTags DEF tags
  <1>6. \A q \in Runs : RunInv(q)'
    BY <1>1, <1>3, <1>4, <1>5, RunKept DEF IInv
  <1>7. pr' \in [Runs -> PullRequest] /\ published' \subseteq Semver
    BY <1>1 DEF TypeOK
  <1>8. QED
    BY <1>1, <1>4, <1>6, <1>7, QuietStep

\* Every step that only moves a run to its next phase: what is left to show
\* is what the run itself now relies on.
LEMMA PhaseStep ==
    ASSUME IInv, NEW r \in Runs, run[r].phase # "unused",
           NEW ph \in {"pending"} \union Executing \union Finished, Phase(r, ph),
           UNCHANGED <<repo, tags>>, published' \subseteq Semver,
           pr' \in [Runs -> PullRequest],
           \A q \in Runs \ {r} : pr'[q] = pr[q],
           \/ ph \in {"gate", "done", "failed"} /\ pr'[r] = pr[r]
           \/ RunInv(r)'
    PROVE  IInv'
  <1>1. TypeOK /\ \A q \in Runs : RunInv(q)
    BY DEF IInv
  <1>2. /\ run' \in [Runs -> Run]
        /\ \A q \in Runs : run'[q].phase # "unused" => run'[q].sha \in 1..Len(main)
        /\ run'[r].phase = ph /\ run'[r].sha = run[r].sha
        /\ run'[r].kind = run[r].kind
        /\ \A q \in Runs \ {r} : run'[q] = run[q]
    BY <1>1, PhaseType
  <1>3. HistoryKept /\ TagsKept
    BY UnchangedHistory, UnchangedTags DEF tags
  <1>4. \A q \in Runs \ {r} : RunInv(q)'
    BY <1>1, <1>2, <1>3, RunKept
  <1>5. RunInv(r)'
    BY <1>1, <1>2, <1>3, RunKept
  <1>6. QED
    BY <1>2, <1>4, <1>5, QuietStep

LEMMA EndingSteps ==
    ASSUME IInv, NEW r \in Runs,
           Start(r) \/ DryRun(r) \/ CreateRelease(r) \/ FinishRollback(r) \/ Fail(r)
    PROVE  IInv'
  <1>1. run[r].phase # "unused"
    BY DEF Start, DryRun, PlanAccepted, CreateRelease, FinishRollback, Fail, Executing
  <1>2. UNCHANGED <<repo, tags, pr>>
    BY DEF Start, DryRun, CreateRelease, FinishRollback, Fail
  <1>3. published' \subseteq Semver
    <2>1. Target(r).current.semver \in Semver /\ published \subseteq Semver
      BY <1>1, PlanFacts DEF IInv, TypeOK, Pointers, Release
    <2>2. published' \in {published, published \union {Target(r).current.semver}}
      BY DEF Start, DryRun, CreateRelease, FinishRollback, Fail
    <2>3. QED
      BY <2>1, <2>2
  <1>4. pr' \in [Runs -> PullRequest]
    BY <1>2 DEF IInv, TypeOK
  <1>5. \E ph \in {"gate", "done", "failed"} : Phase(r, ph)
    BY DEF Start, DryRun, CreateRelease, FinishRollback, Fail
  <1>6. QED
    BY <1>1, <1>2, <1>3, <1>4, <1>5, PhaseStep DEF Executing, Finished

\* What a quiet phase step keeps of the run that takes it.
LEMMA QuietPlan ==
    ASSUME TypeOK, NEW r \in Runs, run[r].phase # "unused",
           NEW ph \in Executing, Phase(r, ph), UNCHANGED <<repo, tags>>
    PROVE  /\ run'[r].phase = ph /\ run'[r].kind = run[r].kind
           /\ PlanBase(r)' = PlanBase(r)
           /\ files'[PlanBase(r)] = files[PlanBase(r)]
           /\ Target(r)' = Target(r)
           /\ TagsPublished(r) => TagsPublished(r)'
  <1>1. run'[r].phase = ph /\ run'[r].sha = run[r].sha /\ run'[r].kind = run[r].kind
    BY PhaseType
  <1>2. HistoryKept
    BY UnchangedHistory
  <1>3. QED
    BY <1>1, <1>2, PlanKept DEF TagsPublished, tags

LEMMA PlanStep ==
    ASSUME IInv, NEW r \in Runs, Plan(r)
    PROVE  IInv'
  <1>1. /\ TypeOK /\ RunInv(r) /\ run[r].phase = "gate"
        /\ Phase(r, "planned") /\ UNCHANGED <<repo, tags, published, pr>>
        /\ Target(r).major <= MaxMajor
        /\ run[r].kind = "rollback" => RollbackPlannable(files[PlanBase(r)])
    BY DEF IInv, Plan, PlanAccepted
  <1>2. /\ run'[r].phase = "planned" /\ run'[r].kind = run[r].kind
        /\ PlanBase(r)' = PlanBase(r)
        /\ files'[PlanBase(r)] = files[PlanBase(r)]
        /\ Target(r)' = Target(r)
        /\ TagsPublished(r) => TagsPublished(r)'
    BY <1>1, QuietPlan DEF Executing
  <1>3. RunInv(r)'
    BY <1>1, <1>2 DEF RunInv, PlanChecked, BaseIsPlanBase, TagsBeforePointers, PastPlan
  <1>4. published' \subseteq Semver /\ pr' \in [Runs -> PullRequest]
    BY <1>1 DEF TypeOK
  <1>5. QED
    BY <1>1, <1>3, <1>4, PhaseStep DEF Executing

LEMMA PrepareStep ==
    ASSUME IInv, NEW r \in Runs, Prepare(r)
    PROVE  IInv'
  <1>1. /\ TypeOK /\ RunInv(r) /\ run[r].phase = "planned"
        /\ Phase(r, "prepared") /\ UNCHANGED <<repo, tags, published>>
        /\ pr' = [pr EXCEPT ![r].base = TipVersion]
        /\ PlanBase(r) = TipVersion
    BY DEF IInv, Prepare, PointersBaseMatchesTip
  <1>2. /\ run'[r].phase = "prepared" /\ run'[r].kind = run[r].kind
        /\ PlanBase(r)' = PlanBase(r)
        /\ files'[PlanBase(r)] = files[PlanBase(r)]
        /\ Target(r)' = Target(r)
        /\ TagsPublished(r) => TagsPublished(r)'
    BY <1>1, QuietPlan DEF Executing
  <1>3. /\ pr'[r].state = pr[r].state /\ pr'[r].base = PlanBase(r)
        /\ \A q \in Runs \ {r} : pr'[q] = pr[q]
    BY <1>1 DEF TypeOK, PullRequest
  <1>4. RunInv(r)'
    BY <1>1, <1>2, <1>3
       DEF RunInv, PlanChecked, BaseIsPlanBase, TagsBeforePointers, PastPlan
  <1>5. published' \subseteq Semver /\ pr' \in [Runs -> PullRequest]
    <2>1. TipVersion \in Nat
      BY <1>1, PlanFacts
    <2>2. QED
      BY <1>1, <2>1 DEF TypeOK, PullRequest
  <1>6. QED
    BY <1>1, <1>3, <1>4, <1>5, PhaseStep DEF Executing

LEMMA OpenPullRequestStep ==
    ASSUME IInv, NEW r \in Runs, OpenPullRequest(r)
    PROVE  IInv'
  <1>1. PICK state \in {"open"} \union ({pr[r].state} \intersect {"approved"}) :
           pr' = [pr EXCEPT ![r].state = state]
    BY DEF OpenPullRequest
  <1>2. /\ TypeOK /\ RunInv(r) /\ run[r].phase = "prepared"
        /\ Phase(r, "opened") /\ UNCHANGED <<repo, tags, published>>
    BY DEF IInv, OpenPullRequest
  <1>3. /\ run'[r].phase = "opened" /\ run'[r].kind = run[r].kind
        /\ PlanBase(r)' = PlanBase(r)
        /\ files'[PlanBase(r)] = files[PlanBase(r)]
        /\ Target(r)' = Target(r)
        /\ TagsPublished(r) => TagsPublished(r)'
    BY <1>2, QuietPlan DEF Executing
  <1>4. /\ pr'[r].state = state /\ pr'[r].base = pr[r].base
        /\ \A q \in Runs \ {r} : pr'[q] = pr[q]
    BY <1>1, <1>2 DEF TypeOK, PullRequest
  <1>5. RunInv(r)'
    BY <1>2, <1>3, <1>4
       DEF RunInv, PlanChecked, BaseIsPlanBase, TagsBeforePointers, PastPlan
  <1>6. published' \subseteq Semver /\ pr' \in [Runs -> PullRequest]
    BY <1>1, <1>2 DEF TypeOK, PullRequest
  <1>7. QED
    BY <1>2, <1>4, <1>5, <1>6, PhaseStep DEF Executing

LEMMA ApproveStep ==
    ASSUME IInv, NEW r \in Runs, Approve(r)
    PROVE  IInv'
  <1>1. /\ TypeOK /\ RunInv(r) /\ run[r].phase = "tagged"
        /\ Phase(r, "approved") /\ UNCHANGED <<repo, tags, published>>
        /\ pr' = [pr EXCEPT ![r].state = IF pr[r].state = "merged" THEN "merged"
                                                                   ELSE "approved"]
    BY DEF IInv, Approve
  <1>2. /\ run'[r].phase = "approved" /\ run'[r].kind = run[r].kind
        /\ PlanBase(r)' = PlanBase(r)
        /\ files'[PlanBase(r)] = files[PlanBase(r)]
        /\ Target(r)' = Target(r)
        /\ TagsPublished(r) => TagsPublished(r)'
    BY <1>1, QuietPlan DEF Executing
  <1>3. /\ pr'[r].base = pr[r].base
        /\ \A q \in Runs \ {r} : pr'[q] = pr[q]
    BY <1>1 DEF TypeOK, PullRequest
  <1>4. TagsPublished(r)
    BY <1>1 DEF RunInv, TagsBeforePointers
  <1>5. RunInv(r)'
    BY <1>1, <1>2, <1>3, <1>4
       DEF RunInv, PlanChecked, BaseIsPlanBase, TagsBeforePointers, PastPlan
  <1>6. published' \subseteq Semver /\ pr' \in [Runs -> PullRequest]
    BY <1>1 DEF TypeOK, PullRequest
  <1>7. QED
    BY <1>1, <1>3, <1>5, <1>6, PhaseStep DEF Executing

LEMMA MergeAlreadyDoneStep ==
    ASSUME IInv, NEW r \in Runs, MergeAlreadyDone(r)
    PROVE  IInv'
  <1>1. /\ TypeOK /\ RunInv(r) /\ run[r].phase = "approved"
        /\ Phase(r, "landed") /\ UNCHANGED <<repo, tags, published, pr>>
    BY DEF IInv, MergeAlreadyDone
  <1>2. /\ run'[r].phase = "landed" /\ run'[r].kind = run[r].kind
        /\ PlanBase(r)' = PlanBase(r)
        /\ files'[PlanBase(r)] = files[PlanBase(r)]
        /\ Target(r)' = Target(r)
        /\ TagsPublished(r) => TagsPublished(r)'
    BY <1>1, QuietPlan DEF Executing
  <1>3. RunInv(r)'
    BY <1>1, <1>2 DEF RunInv, PlanChecked, BaseIsPlanBase, TagsBeforePointers, PastPlan
  <1>4. published' \subseteq Semver /\ pr' \in [Runs -> PullRequest]
    BY <1>1 DEF TypeOK
  <1>5. QED
    BY <1>1, <1>3, <1>4, PhaseStep DEF Executing

-----------------------------------------------------------------------------
(* Steps that publish tags *)

\* A committed plan names an actual commit, and releases the audit trail
\* covers except for the one it issues itself.
LEMMA TargetFacts ==
    ASSUME IInv, NEW r \in Runs, run[r].phase \in PastPlan \/ pr[r].state # "none"
    PROVE  /\ run[r].phase # "unused"
           /\ Target(r).current.sha # 0
           /\ Target(r).next = Target(r).current
           /\ Target(r).major \in Majors
           /\ run[r].kind = "rollback" => Target(r).current \in immutable
           /\ Target(r).previous \in immutable \union {Target(r).current}
  <1> DEFINE p == files[PlanBase(r)]
  <1>1. run[r].phase # "unused" /\ TypeOK /\ Target(r).major <= MaxMajor
    BY DEF IInv, RunInv, PlanChecked
  <1>2. /\ run[r].sha \in 1..Len(main) /\ run[r].kind \in Kinds
        /\ PlanBase(r) \in 1..Len(files) /\ p \in Pointers
        /\ Target(r) \in Pointers /\ Target(r) = Planned(p, run[r].kind, run[r].sha)
    BY <1>1, PlanFacts DEF Target
  <1>3. ~Bootstrap(p) => p.current \in immutable /\ p.previous \in immutable
    BY <1>2 DEF IInv, AuditTrail
  <1>4. Target(r).major \in Majors
    BY <1>1, <1>2 DEF Majors, Pointers
  <1>5. CASE run[r].kind = "rollback"
    <2>1. Target(r) = RollbackPointers(p)
      BY <1>2, <1>5 DEF Planned
    <2>2. RollbackPlannable(p)
      BY <1>5 DEF IInv, RunInv, PlanChecked
    <2>3. ~Bootstrap(p)
      BY <2>2 DEF RollbackPlannable, Bootstrap
    <2>4. QED
      BY <1>1, <1>3, <1>4, <2>1, <2>2, <2>3 DEF RollbackPointers, RollbackPlannable
  <1>6. CASE run[r].kind # "rollback"
    <2>1. Target(r) = PromotePointers(p, run[r].sha, run[r].kind)
      BY <1>2, <1>6 DEF Planned
    <2>2. run[r].sha # 0
      BY <1>2
    <2>3. QED
      BY <1>1, <1>3, <1>4, <1>6, <2>1, <2>2 DEF PromotePointers
  <1>7. QED
    BY <1>5, <1>6

LEMMA TagStep ==
    ASSUME IInv, NEW r \in Runs, run[r].phase # "unused",
           NEW ph \in Executing \union Finished, Phase(r, ph),
           UNCHANGED <<repo, published, pr>>, TagsKept,
           immutable' \subseteq Release,
           \A i, j \in immutable' : i.semver = j.semver => i = j,
           vtag' \in [Majors -> Nat], ops' \in [{"next", "previous"} -> Nat],
           ph = "failed" \/ RunInv(r)'
    PROVE  IInv'
  <1>1. TypeOK /\ UNCHANGED <<main, files>> /\ \A q \in Runs : RunInv(q)
    BY DEF IInv, repo
  <1>2. /\ run' \in [Runs -> Run]
        /\ \A q \in Runs : run'[q].phase # "unused" => run'[q].sha \in 1..Len(main)
        /\ run'[r].phase = ph /\ run'[r].sha = run[r].sha
        /\ run'[r].kind = run[r].kind
        /\ \A q \in Runs \ {r} : run'[q] = run[q]
    BY <1>1, PhaseType
  <1>3. TypeOK'
    BY <1>1, <1>2 DEF TypeOK
  <1>4. HistoryKept
    BY UnchangedHistory
  <1>5. \A q \in Runs : RunInv(q)'
    BY <1>1, <1>2, <1>4, RunKept
  <1>6. QED
    BY <1>1, <1>3, <1>4, <1>5, Frame

LEMMA PushImmutableStep ==
    ASSUME IInv, NEW r \in Runs, PushImmutable(r)
    PROVE  IInv'
  <1>1. /\ TypeOK /\ RunInv(r) /\ run[r].phase = "opened"
        /\ run[r].kind # "rollback" /\ SemverFree(Target(r).current)
        /\ immutable' = immutable \union {Target(r).current}
        /\ Phase(r, "stamped") /\ UNCHANGED <<repo, vtag, ops, published, pr>>
    BY DEF IInv, PushImmutable
  <1>2. Target(r).current \in Release
    BY <1>1, PlanFacts DEF Pointers
  <1>3. \A i \in immutable : i.semver = Target(r).current.semver
                               => i = Target(r).current
    <2>1. immutable \subseteq Release
      BY <1>1 DEF TypeOK
    <2>2. QED
      BY <1>1, <1>2, <2>1 DEF SemverFree, Release
  <1>4. \A i, j \in immutable' : i.semver = j.semver => i = j
    BY <1>1, <1>3 DEF IInv, AuditTrail
  <1>5. TagsKept
    BY <1>1 DEF TagsKept
  <1>6. run'[r].phase = "stamped" /\ run'[r].sha = run[r].sha
        /\ run'[r].kind = run[r].kind
    BY <1>1, PhaseType DEF Executing
  <1>7. PlanBase(r)' = PlanBase(r) /\ files'[PlanBase(r)] = files[PlanBase(r)]
        /\ Target(r)' = Target(r)
    BY <1>1, <1>6, UnchangedHistory, PlanKept
  <1>8. TagsPublished(r) => TagsPublished(r)'
    BY <1>1, <1>7 DEF TagsPublished
  <1>9. RunInv(r)'
    BY <1>1, <1>6, <1>7, <1>8
       DEF RunInv, PlanChecked, BaseIsPlanBase, TagsBeforePointers, PastPlan
  <1>10. /\ immutable' \subseteq Release
         /\ vtag' \in [Majors -> Nat] /\ ops' \in [{"next", "previous"} -> Nat]
    BY <1>1, <1>2 DEF TypeOK
  <1>11. QED
    BY <1>1, <1>4, <1>5, <1>9, <1>10, TagStep DEF Executing

LEMMA ReadyFacts ==
    ASSUME IInv, NEW r \in Runs, ReadyToMoveTags(r)
    PROVE  /\ run[r].phase \in PastPlan
           /\ Target(r).current \in immutable
  <1>1. run[r].phase \in PastPlan
    BY DEF ReadyToMoveTags, PastPlan
  <1>2. CASE run[r].phase = "stamped"
    BY <1>1, <1>2 DEF IInv, RunInv, TagsBeforePointers
  <1>3. CASE run[r].kind = "rollback"
    BY <1>1, <1>3, TargetFacts
  <1>4. QED
    BY <1>1, <1>2, <1>3 DEF ReadyToMoveTags

LEMMA MoveTagsKeeps ==
    ASSUME IInv, NEW r \in Runs, ReadyToMoveTags(r),
           NEW refs \in SUBSET {"current", "next", "previous"}, MoveTags(r, refs),
           UNCHANGED immutable
    PROVE  /\ TagsKept
           /\ "current" \in refs => vtag'[Target(r).major] # 0
           /\ vtag' \in [Majors -> Nat] /\ ops' \in [{"next", "previous"} -> Nat]
  <1>1. Target(r).current.sha # 0 /\ Target(r).major \in Majors
        /\ run[r].phase # "unused"
    BY ReadyFacts, TargetFacts
  <1>2. \A m \in Majors :
           vtag'[m] = IF m = Target(r).major /\ "current" \in refs
                      THEN Target(r).current.sha ELSE vtag[m]
    BY DEF MoveTags
  <1>3. TagsKept
    BY <1>1, <1>2 DEF TagsKept
  <1>4. "current" \in refs => vtag'[Target(r).major] # 0
    BY <1>1, <1>2
  <1>5. vtag' \in [Majors -> Nat] /\ ops' \in [{"next", "previous"} -> Nat]
    BY <1>1, MoveTagsType DEF IInv
  <1>6. QED
    BY <1>3, <1>4, <1>5

LEMMA PushMovingStep ==
    ASSUME IInv, NEW r \in Runs, PushMoving(r)
    PROVE  IInv'
  <1>1. /\ TypeOK /\ RunInv(r) /\ ReadyToMoveTags(r)
        /\ MoveTags(r, {"current", "next", "previous"})
        /\ Phase(r, "tagged") /\ UNCHANGED <<repo, immutable, published, pr>>
    BY DEF IInv, PushMoving
  <1>2. run[r].phase \in PastPlan /\ Target(r).current \in immutable
    BY <1>1, ReadyFacts
  <1>3. run[r].phase # "unused"
    BY <1>2 DEF PastPlan
  <1>4. /\ TagsKept /\ vtag'[Target(r).major] # 0
        /\ vtag' \in [Majors -> Nat] /\ ops' \in [{"next", "previous"} -> Nat]
    BY <1>1, MoveTagsKeeps
  <1>5. run'[r].phase = "tagged" /\ run'[r].sha = run[r].sha
        /\ run'[r].kind = run[r].kind
    BY <1>1, <1>3, PhaseType DEF Executing
  <1>6. PlanBase(r)' = PlanBase(r) /\ files'[PlanBase(r)] = files[PlanBase(r)]
        /\ Target(r)' = Target(r)
    BY <1>1, <1>3, <1>5, UnchangedHistory, PlanKept
  <1>7. TagsPublished(r)'
    BY <1>1, <1>2, <1>4, <1>6 DEF TagsPublished
  <1>8. run[r].phase \in PastPlan \ {"planned"}
    BY <1>1 DEF ReadyToMoveTags, PastPlan
  <1>9. RunInv(r)'
    BY <1>1, <1>2, <1>5, <1>6, <1>7, <1>8
       DEF RunInv, PlanChecked, BaseIsPlanBase, TagsBeforePointers, PastPlan
  <1>10. /\ immutable' \subseteq Release
         /\ \A i, j \in immutable' : i.semver = j.semver => i = j
    BY <1>1 DEF IInv, TypeOK, AuditTrail
  <1>11. QED
    BY <1>1, <1>3, <1>4, <1>9, <1>10, TagStep DEF Executing

LEMMA PushMovingInPartStep ==
    ASSUME IInv, NEW r \in Runs, PushMovingInPart(r)
    PROVE  IInv'
  <1>1. PICK refs \in SUBSET {"current", "next", "previous"} : MoveTags(r, refs)
    BY DEF PushMovingInPart
  <1>2. /\ TypeOK /\ ReadyToMoveTags(r)
        /\ Phase(r, "failed") /\ UNCHANGED <<repo, immutable, published, pr>>
    BY DEF IInv, PushMovingInPart
  <1>3. run[r].phase # "unused"
    BY <1>2, ReadyFacts DEF PastPlan
  <1>4. /\ TagsKept
        /\ vtag' \in [Majors -> Nat] /\ ops' \in [{"next", "previous"} -> Nat]
    BY <1>1, <1>2, MoveTagsKeeps
  <1>5. /\ immutable' \subseteq Release
        /\ \A i, j \in immutable' : i.semver = j.semver => i = j
    BY <1>2 DEF IInv, TypeOK, AuditTrail
  <1>6. QED
    BY <1>2, <1>3, <1>4, <1>5, TagStep DEF Finished

-----------------------------------------------------------------------------
(* Steps that extend main *)

LEMMA PushCommitStep ==
    ASSUME IInv, PushCommit
    PROVE  IInv'
  <1>1. /\ TypeOK /\ main' = Append(main, TipVersion)
        /\ UNCHANGED <<files, immutable, vtag, ops, published, run, pr>>
    BY DEF IInv, PushCommit, tags
  <1>2. /\ main \in Seq(Nat) /\ Len(main) \in 1..Len(main)
        /\ TipVersion \in 1..Len(files) /\ Len(files) \in Nat
    BY <1>1 DEF TypeOK, TipVersion, Tip
  <1>3. /\ main' \in Seq(Nat) /\ Len(main') = Len(main) + 1
        /\ main'[Len(main) + 1] = TipVersion
        /\ \A c \in 1..Len(main) : main'[c] = main[c]
    BY <1>1, <1>2
  <1>4. \A c \in 1..Len(main') : main'[c] \in 1..Len(files)
    <2>1. SUFFICES ASSUME NEW c \in 1..Len(main')
                   PROVE  main'[c] \in 1..Len(files)
      OBVIOUS
    <2>2. CASE c = Len(main) + 1
      BY <1>2, <1>3, <2>2
    <2>3. CASE c # Len(main) + 1
      <3>1. c \in 1..Len(main)
        BY <1>2, <1>3, <2>3
      <3>2. QED
        BY <1>1, <1>3, <3>1 DEF TypeOK
    <2>4. QED
      BY <2>2, <2>3
  <1>5. \A c \in 1..Len(main) : c \in 1..Len(main')
    BY <1>2, <1>3
  <1>6. main' # << >>
    BY <1>2, <1>3
  <1>7. TypeOK'
    BY <1>1, <1>3, <1>4, <1>5, <1>6 DEF TypeOK
  <1>8. HistoryKept /\ TagsKept
    BY <1>1, <1>3, <1>5, UnchangedTags DEF HistoryKept
  <1>9. \A r \in Runs : RunInv(r)'
    BY <1>1, <1>8, RunKept DEF IInv
  <1>10. \A i, j \in immutable' : i.semver = j.semver => i = j
    BY <1>1 DEF IInv, AuditTrail
  <1>11. QED
    BY <1>1, <1>7, <1>8, <1>9, <1>10, Frame

LEMMA LandStep ==
    ASSUME IInv, NEW r \in Runs, Land(r),
           \/ UNCHANGED run
           \/ run[r].phase = "approved" /\ Phase(r, "landed")
    PROVE  IInv'
  <1> DEFINE p == Target(r)
  <1>1. /\ TypeOK /\ pr[r].state = "approved" /\ RunInv(r)
        /\ files' = Append(files, p)
        /\ pr' = [pr EXCEPT ![r].state = "merged"]
        /\ UNCHANGED <<immutable, vtag, ops, published>>
    BY DEF IInv, Land, tags
  <1>2. /\ run[r].phase # "unused" /\ p \in Pointers
        /\ p.current.sha # 0 /\ p.next = p.current /\ p.major \in Majors
        /\ p.previous \in immutable \union {p.current}
        /\ TagsPublished(r) /\ p.major <= MaxMajor
    BY <1>1, TargetFacts, PlanFacts DEF RunInv, PlanChecked, TagsBeforePointers
  <1>3. /\ main' \in Seq(Nat) /\ main' # << >>
        /\ files' \in Seq(Pointers) /\ files' # << >>
        /\ \A c \in 1..Len(main') : main'[c] \in 1..Len(files')
        /\ \A c \in 1..Len(main) : c \in 1..Len(main')
        /\ pr' \in [Runs -> PullRequest]
        /\ HistoryKept
    BY <1>1, <1>2, LandType
  <1>4. /\ run' \in [Runs -> Run]
        /\ \A q \in Runs : run'[q].phase # "unused" => run'[q].sha \in 1..Len(main)
        /\ \/ run'[r].phase = run[r].phase
           \/ run[r].phase = "approved" /\ run'[r].phase = "landed"
        /\ run'[r].sha = run[r].sha /\ run'[r].kind = run[r].kind
        /\ \A q \in Runs \ {r} : run'[q] = run[q]
    <2>1. CASE UNCHANGED run
      BY <1>1, <2>1 DEF TypeOK
    <2>2. CASE run[r].phase = "approved" /\ Phase(r, "landed")
      BY <1>1, <1>2, <2>2, PhaseType DEF Executing
    <2>3. QED
      BY <2>1, <2>2
  <1>5. TypeOK'
    BY <1>1, <1>3, <1>4 DEF TypeOK
  <1>6. TagsKept
    BY <1>1 DEF TagsKept
  <1>7. /\ pr'[r].state = "merged" /\ pr'[r].base = pr[r].base
        /\ \A q \in Runs \ {r} : pr'[q] = pr[q]
    BY <1>1 DEF TypeOK, PullRequest
  <1>8. RunInv(r)'
    <2>1. PlanBase(r)' = PlanBase(r) /\ files'[PlanBase(r)] = files[PlanBase(r)]
          /\ Target(r)' = Target(r)
      BY <1>1, <1>2, <1>3, <1>4, PlanKept
    <2>2. TagsPublished(r)'
      BY <1>1, <1>2, <2>1 DEF TagsPublished
    <2>3. QED
      BY <1>1, <1>2, <1>4, <1>7, <2>1, <2>2
         DEF RunInv, PlanChecked, BaseIsPlanBase, TagsBeforePointers, PastPlan
  <1>9. \A q \in Runs : RunInv(q)'
    BY <1>1, <1>3, <1>4, <1>6, <1>7, <1>8, RunKept DEF IInv
  <1>10. Len(files') = Len(files) + 1 /\ Len(files) \in Nat
         /\ files'[Len(files) + 1] = p
         /\ \A v \in 1..Len(files) : files'[v] = files[v]
    BY <1>1, <1>2 DEF TypeOK
  <1>11. p.current \in immutable /\ vtag[p.major] # 0
    BY <1>2 DEF TagsPublished
  <1>12. FilesSound' /\ AuditTrail'
    <2>1. \A i, j \in immutable' : i.semver = j.semver => i = j
      BY <1>1 DEF IInv, AuditTrail
    <2>2. SUFFICES ASSUME NEW v \in 1..Len(files')
                   PROVE  /\ files'[v].major <= MaxMajor
                          /\ files'[v].next = files'[v].current
                          /\ Bootstrap(files'[v]) => files'[v] = BootstrapPointers
                          /\ ~Bootstrap(files'[v]) => vtag'[files'[v].major] # 0
                          /\ ~Bootstrap(files'[v]) =>
                                {files'[v].current, files'[v].next, files'[v].previous}
                                   \subseteq immutable'
      BY <2>1 DEF FilesSound, AuditTrail
    <2>3. CASE v = Len(files) + 1
      <3>1. files'[v] = p /\ ~Bootstrap(p)
        BY <1>2, <1>10, <2>3 DEF Bootstrap
      <3>2. QED
        BY <1>1, <1>2, <1>11, <3>1
    <2>4. CASE v # Len(files) + 1
      <3>1. v \in 1..Len(files) /\ files'[v] = files[v]
        BY <1>10, <2>4
      <3>2. QED
        BY <1>1, <3>1 DEF IInv, FilesSound, AuditTrail
    <2>5. QED
      BY <2>3, <2>4
  <1>13. QED
    BY <1>5, <1>9, <1>12 DEF IInv

-----------------------------------------------------------------------------
(* The theorems *)

THEOREM InitIInv == Init => IInv
  <1> SUFFICES ASSUME Init PROVE IInv
    OBVIOUS
  <1>1. TypeOK
    BY InitTypeOK
  <1>2. \A r \in Runs : RunInv(r)
    BY DEF Init, RunInv, PlanChecked, BaseIsPlanBase, TagsBeforePointers, PastPlan
  <1>3. FilesSound /\ AuditTrail
    <2>1. CASE files = <<BootstrapPointers>> /\ immutable = {}
      BY <2>1, BoundsAssumption
         DEF FilesSound, AuditTrail, BootstrapPointers, NoRelease, Bootstrap
    <2>2. CASE /\ files = <<BootstrapPointers, CommittedPointers>>
               /\ immutable = {CommittedPointers.current, CommittedPointers.previous}
               /\ vtag = [m \in Majors |-> IF m = 0 THEN 2 ELSE 0]
      <3>1. Len(files) = 2 /\ files[1] = BootstrapPointers
            /\ files[2] = CommittedPointers
        BY <2>2
      <3>2. vtag[0] = 2
        BY <2>2, BoundsAssumption DEF Majors
      <3>3. FilesSound
        BY <3>1, <3>2, BoundsAssumption
           DEF FilesSound, BootstrapPointers, CommittedPointers, NoRelease, Bootstrap
      <3>4. CommittedPointers.current.semver # CommittedPointers.previous.semver
        BY DEF CommittedPointers
      <3>5. AuditTrail
        BY <2>2, <3>1, <3>4
           DEF AuditTrail, BootstrapPointers, CommittedPointers, NoRelease, Bootstrap
      <3>6. QED
        BY <3>3, <3>5
    <2>3. QED
      BY <2>1, <2>2 DEF Init
  <1>4. QED
    BY <1>1, <1>2, <1>3 DEF IInv

THEOREM NextIInv == IInv /\ [Next]_vars => IInv'
  <1> SUFFICES ASSUME IInv, [Next]_vars PROVE IInv'
    OBVIOUS
  <1>1. CASE PushCommit
    BY <1>1, PushCommitStep
  <1>2. ASSUME NEW r \in Runs,
               \/ Dispatch(r) \/ Rerun(r) \/ Start(r)
               \/ Step(r) \/ DryRun(r) \/ PushMovingInPart(r)
               \/ MergeOutOfBand(r) \/ Fail(r)
        PROVE  IInv'
    <2>1. CASE Dispatch(r)
      BY <2>1, DispatchStep
    <2>2. CASE Rerun(r)
      BY <2>2, RerunStep
    <2>3. CASE Start(r) \/ DryRun(r) \/ CreateRelease(r) \/ FinishRollback(r) \/ Fail(r)
      BY <2>3, EndingSteps
    <2>4. CASE Plan(r)
      BY <2>4, PlanStep
    <2>5. CASE Prepare(r)
      BY <2>5, PrepareStep
    <2>6. CASE OpenPullRequest(r)
      BY <2>6, OpenPullRequestStep
    <2>7. CASE PushImmutable(r)
      BY <2>7, PushImmutableStep
    <2>8. CASE PushMoving(r)
      BY <2>8, PushMovingStep
    <2>9. CASE PushMovingInPart(r)
      BY <2>9, PushMovingInPartStep
    <2>10. CASE Approve(r)
      BY <2>10, ApproveStep
    <2>11. CASE Merge(r)
      BY <2>11, LandStep DEF Merge
    <2>12. CASE MergeOutOfBand(r)
      BY <2>12, LandStep DEF MergeOutOfBand
    <2>13. CASE MergeAlreadyDone(r)
      BY <2>13, MergeAlreadyDoneStep
    <2>14. QED
      BY <1>2, <2>1, <2>2, <2>3, <2>4, <2>5, <2>6, <2>7, <2>8, <2>9, <2>10, <2>11,
         <2>12, <2>13 DEF Step
  <1>3. CASE UNCHANGED vars
    <2>1. UNCHANGED <<main, files, immutable, vtag, ops, published, run, pr>>
      BY <1>3 DEF vars
    <2>2. UNCHANGED <<repo, tags>> /\ HistoryKept /\ TagsKept
      BY <2>1, UnchangedHistory, UnchangedTags DEF repo, tags
    <2>3. \A r \in Runs : RunInv(r)'
      BY <2>1, <2>2, RunKept DEF IInv
    <2>4. QED
      BY <2>1, <2>2, <2>3, QuietStep DEF IInv, TypeOK
  <1>4. QED
    BY <1>1, <1>2, <1>3 DEF Next

THEOREM Invariance == Spec => []IInv
  BY InitIInv, NextIInv, PTL DEF Spec

\* Every variable stays within the values the code can produce.
THEOREM TypeCorrect == Spec => []TypeOK
  <1>1. IInv => TypeOK
    BY DEF IInv
  <1>2. QED
    BY <1>1, Invariance, PTL

\* Every landed release keeps its audit tag, and no semver is tagged twice.
THEOREM AuditTrailHolds == Spec => []AuditTrail
  <1>1. IInv => AuditTrail
    BY DEF IInv
  <1>2. QED
    BY <1>1, Invariance, PTL

\* The moving major tag any commit of main pins production to is on origin.
THEOREM PinAlwaysResolvable == Spec => []PinResolvable
  <1>1. IInv => PinResolvable
    BY DEF IInv, TypeOK, FilesSound, PinResolvable
  <1>2. QED
    BY <1>1, Invariance, PTL

-----------------------------------------------------------------------------
(* The landed files implement ReleaseLine *)

TopOf(p, all) == \E top \in {p.current, p.previous} :
                      \A i \in all : ~SemverLess(top.semver, i.semver)

\* The newest file is on main's tip; what a file names is older than every
\* commit that carries the file or a later one; only the first file may be
\* empty; and the newest semver ever issued is that of current or previous.
LineInv ==
    /\ TipVersion = Len(files)
    /\ \A c \in 1..Len(main) : \A v \in 1..main[c] :
          files[v].current.sha < c /\ files[v].previous.sha < c
    /\ \A v \in 1..Len(files) : Bootstrap(files[v]) => v = 1
    /\ TopOf(files[Len(files)], Issued)

LEMMA SemverOrder ==
    ASSUME NEW a \in Semver, NEW b \in Semver, NEW c \in Semver,
           ~SemverLess(b, a), SemverLess(b, c)
    PROVE  SemverLess(a, c) /\ ~SemverLess(c, a)
  BY SemverParts DEF SemverLess

LEMMA SemverIrreflexive ==
    ASSUME NEW a \in Semver
    PROVE  ~SemverLess(a, a)
  BY SemverParts DEF SemverLess

LEMMA HighestIsHighest ==
    ASSUME NEW p \in Pointers
    PROVE  /\ HighestPointerSemver(p) \in Semver
           /\ ~SemverLess(HighestPointerSemver(p), p.current.semver)
           /\ ~SemverLess(HighestPointerSemver(p), p.previous.semver)
  <1> DEFINE a == p.current.semver
             b == p.next.semver
             c == p.previous.semver
  <1>1. a \in Semver /\ b \in Semver /\ c \in Semver
    BY DEF Pointers, Release
  <1>2. ASSUME NEW s \in Semver, NEW t \in Semver
        PROVE  /\ Higher(s, t) \in Semver
               /\ ~SemverLess(Higher(s, t), s) /\ ~SemverLess(Higher(s, t), t)
    BY SemverParts DEF Higher, SemverLess
  <1>3. ASSUME NEW s \in Semver, NEW t \in Semver, NEW u \in Semver,
               ~SemverLess(t, u), ~SemverLess(s, t)
        PROVE  ~SemverLess(s, u)
    BY <1>3, SemverParts DEF SemverLess
  <1> DEFINE h == Higher(b, c)
  <1>4. h \in Semver /\ ~SemverLess(h, c)
    BY <1>1, <1>2
  <1>5. Higher(a, h) \in Semver /\ ~SemverLess(Higher(a, h), a) /\ ~SemverLess(Higher(a, h), h)
    BY <1>1, <1>2, <1>4
  <1>6. ~SemverLess(Higher(a, h), c)
    BY <1>1, <1>3, <1>4, <1>5
  <1>7. QED
    BY <1>5, <1>6 DEF HighestPointerSemver

LEMMA NextIsHigher ==
    ASSUME NEW s \in Semver, NEW type \in ReleaseTypes
    PROVE  NextSemver(s, type) \in Semver /\ SemverLess(s, NextSemver(s, type))
  <1>1. s[1] \in Nat /\ s[2] \in Nat /\ s[3] \in Nat
    BY SemverParts
  <1>2. SemverLess(s, NextSemver(s, type))
    BY <1>1 DEF NextSemver, SemverLess, ReleaseTypes
  <1>3. QED
    BY <1>2, NextSemverType

\* What the files of f at the positions D name.
Named(f, D) == UNION {{f[v].current, f[v].previous} : v \in D}

LEMMA NamedIs ==
    ASSUME NEW i, NEW D, NEW f
    PROVE  i \in Named(f, D)
             <=> \E v \in D : i = f[v].current \/ i = f[v].previous
  <1> DEFINE S == {{f[v].current, f[v].previous} : v \in D}
  <1>1. ASSUME i \in UNION S PROVE \E v \in D : i = f[v].current \/ i = f[v].previous
    <2>1. PICK x \in S : i \in x
      BY <1>1
    <2>2. PICK v \in D : x = {f[v].current, f[v].previous}
      OBVIOUS
    <2>3. QED
      BY <2>1, <2>2
  <1>2. ASSUME NEW v \in D, i = f[v].current \/ i = f[v].previous PROVE i \in UNION S
    <2>1. {f[v].current, f[v].previous} \in S
      OBVIOUS
    <2>2. i \in {f[v].current, f[v].previous}
      BY <1>2
    <2> HIDE DEF S
    <2>3. QED
      BY <2>1, <2>2
  <1>3. QED
    BY <1>1, <1>2, Zenon DEF Named

LEMMA IssuedIs ==
    ASSUME NEW i
    PROVE  i \in Issued <=> /\ i # NoRelease
                            /\ \E v \in 1..Len(files) :
                                 i = files[v].current \/ i = files[v].previous
  <1>1. Issued = Named(files, 1..Len(files)) \ {NoRelease}
    BY DEF Issued, Named
  <1>2. QED
    BY <1>1, NamedIs

LEMMA IssuedGrows ==
    ASSUME TypeOK, NEW t \in Pointers, files' = Append(files, t)
    PROVE  /\ Issued' = Issued \union ({t.current, t.previous} \ {NoRelease})
           /\ Issued \subseteq Release
           /\ Len(files') = Len(files) + 1 /\ files'[Len(files) + 1] = t
           /\ \A v \in 1..Len(files) : files'[v] = files[v]
  <1>1. /\ Len(files) \in Nat /\ Len(files') = Len(files) + 1
        /\ files'[Len(files) + 1] = t
        /\ \A v \in 1..Len(files) : files'[v] = files[v] /\ files[v] \in Pointers
    BY DEF TypeOK
  <1>2. 1..Len(files') = 1..Len(files) \union {Len(files) + 1}
    BY <1>1
  <1>3. Issued' = Named(files', 1..Len(files')) \ {NoRelease}
    BY DEF Issued, Named
  <1>4. ASSUME NEW i
        PROVE  i \in Issued' <=> i \in Issued \union ({t.current, t.previous} \ {NoRelease})
    <2>1. i \in Issued' <=> /\ i # NoRelease
                            /\ \E v \in 1..Len(files') :
                                 i = files'[v].current \/ i = files'[v].previous
      <3>1. i \in Named(files', 1..Len(files')) <=>
              \E v \in 1..Len(files') : i = files'[v].current \/ i = files'[v].previous
        <4>1. \A f, D : i \in Named(f, D) <=> \E v \in D : i = f[v].current \/ i = f[v].previous
          BY NamedIs
        <4> HIDE DEF Named
        <4>2. QED
          BY <4>1
      <3>2. QED
        BY <1>3, <3>1
    <2>2. QED
      BY <1>1, <1>2, <2>1, IssuedIs
  <1>5. Issued \subseteq Release
    BY <1>1 DEF Issued, Pointers
  <1>6. Issued' = Issued \union ({t.current, t.previous} \ {NoRelease})
    BY <1>4
  <1>7. QED
    BY <1>1, <1>5, <1>6

\* What a run lands was planned on the newest file, of which its commit has a
\* copy: nothing landed since.
LEMMA LandsOnNewest ==
    ASSUME IInv, LineInv, NEW r \in Runs, Land(r)
    PROVE  /\ Len(files) \in Nat /\ Len(files) \in 1..Len(files)
           /\ Len(main) \in Nat /\ Len(main) \in 1..Len(main) /\ main[Len(main)] = Len(files)
           /\ files[Len(files)] \in Pointers
           /\ run[r].sha \in 1..Len(main) /\ main[run[r].sha] = Len(files)
           /\ run[r].kind \in Kinds
           /\ Target(r) = Planned(files[Len(files)], run[r].kind, run[r].sha)
           /\ Target(r) \in Pointers
           /\ run[r].kind = "rollback" => RollbackPlannable(files[Len(files)])
           /\ files' = Append(files, Target(r)) /\ main' = Append(main, Len(files) + 1)
  <1>1. /\ TypeOK /\ RunInv(r) /\ pr[r].state = "approved" /\ pr[r].base = TipVersion
        /\ files' = Append(files, Target(r)) /\ main' = Append(main, Len(files) + 1)
    BY DEF IInv, Land, Mergeable
  <1>2. /\ run[r].phase # "unused" /\ PlanBase(r) = TipVersion
        /\ run[r].kind = "rollback" => RollbackPlannable(files[PlanBase(r)])
    BY <1>1 DEF RunInv, PlanChecked, BaseIsPlanBase
  <1>3. PlanBase(r) = Len(files) /\ main[Len(main)] = Len(files)
    BY <1>2 DEF LineInv, TipVersion, Tip
  <1>4. /\ Len(files) \in Nat /\ Len(files) \in 1..Len(files)
        /\ Len(main) \in Nat /\ Len(main) \in 1..Len(main)
    BY <1>1 DEF TypeOK
  <1>5. /\ run[r].sha \in 1..Len(main) /\ run[r].kind \in Kinds
        /\ files[PlanBase(r)] \in Pointers /\ Target(r) \in Pointers
    BY <1>1, <1>2, PlanFacts
  <1>6. QED
    BY <1>1, <1>2, <1>3, <1>4, <1>5 DEF PlanBase, Target

\* Everything issued is older than a commit that carries the newest file, and
\* nothing is issued while that file is empty.
LEMMA IssuedOlder ==
    ASSUME IInv, LineInv, NEW c \in 1..Len(main), main[c] = Len(files)
    PROVE  /\ \A i \in Issued : i.sha < c
           /\ Bootstrap(files[Len(files)]) => Issued = {}
           /\ ~Bootstrap(files[Len(files)]) => files[Len(files)].current \in Issued
  <1>1. TypeOK /\ FilesSound /\ Len(files) \in Nat /\ Len(files) \in 1..Len(files)
    BY DEF IInv, TypeOK
  <1>2. \A i \in Issued : i.sha < c
    <2>1. SUFFICES ASSUME NEW i \in Issued PROVE i.sha < c
      OBVIOUS
    <2>2. PICK v \in 1..Len(files) : i = files[v].current \/ i = files[v].previous
      BY IssuedIs
    <2>3. v \in 1..main[c]
      OBVIOUS
    <2>4. QED
      BY <2>2, <2>3 DEF LineInv
  <1>3. ASSUME Bootstrap(files[Len(files)]) PROVE Issued = {}
    <2>1. Len(files) = 1
      BY <1>1, <1>3 DEF LineInv
    <2>2. files[1] = BootstrapPointers
      BY <1>1, <1>3, <2>1 DEF FilesSound
    <2>3. ASSUME NEW i \in Issued PROVE FALSE
      <3>1. PICK v \in 1..Len(files) : i = files[v].current \/ i = files[v].previous
        BY IssuedIs
      <3>2. v = 1
        BY <2>1
      <3>3. i = NoRelease
        BY <2>2, <3>1, <3>2 DEF BootstrapPointers
      <3>4. QED
        BY <3>3, IssuedIs
    <2>4. QED
      BY <2>3
  <1>4. ASSUME ~Bootstrap(files[Len(files)]) PROVE files[Len(files)].current \in Issued
    <2>1. files[Len(files)].current # NoRelease
      BY <1>4 DEF Bootstrap, NoRelease
    <2>2. QED
      BY <1>1, <2>1, IssuedIs
  <1>5. QED
    BY <1>2, <1>3, <1>4

\* A promote issues a release newer than any other, by commit and by semver.
LEMMA PromoteIsNewest ==
    ASSUME IInv, LineInv, NEW s \in 1..Len(main), main[s] = Len(files),
           NEW type \in ReleaseTypes,
           NEW p, p = files[Len(files)], p \in Pointers,
           NEW t, t = PromotePointers(p, s, type)
    PROVE  /\ t \in Pointers /\ t.current.sha = s /\ t.current # NoRelease
           /\ \A i \in Issued : i.sha < t.current.sha
                                /\ SemverLess(i.semver, t.current.semver)
                                /\ ~SemverLess(t.current.semver, i.semver)
           /\ Issued = {} => t.previous = t.current
           /\ Issued # {} => t.previous = p.current /\ p.current \in Issued
  <1> DEFINE new == [sha |-> s, semver |-> PromoteSemver(p, type)]
  <1>1. /\ t.current = new /\ t.previous = (IF Bootstrap(p) THEN new ELSE p.current)
        /\ new.sha = s /\ new.semver = PromoteSemver(p, type)
    BY DEF PromotePointers
  <1>2. /\ \A i \in Issued : i.sha < s
        /\ Bootstrap(p) => Issued = {}
        /\ ~Bootstrap(p) => p.current \in Issued
    BY IssuedOlder
  <1>3. s \in Nat /\ s # 0 /\ PromoteSemver(p, type) \in Semver
    <2>1. s \in Nat /\ s # 0
      BY DEF IInv, TypeOK
    <2>2. QED
      BY <2>1, PromoteSemverType
  <1>4. t \in Pointers
    <2>1. Planned(p, type, s) = t
      BY DEF Planned, ReleaseTypes
    <2>2. QED
      BY <1>3, <2>1, PlannedType DEF Kinds
  <1>5. t.current # NoRelease
    BY <1>1, <1>3 DEF NoRelease
  <1>6. ASSUME NEW i \in Issued
        PROVE  SemverLess(i.semver, new.semver) /\ ~SemverLess(new.semver, i.semver)
    <2>1. ~Bootstrap(p)
      BY <1>2
    <2> DEFINE h == HighestPointerSemver(p)
    <2>2. h \in Semver /\ new.semver \in Semver /\ SemverLess(h, new.semver)
      BY <1>1, <1>3, <2>1, HighestIsHighest, NextIsHigher DEF PromoteSemver
    <2>3. i.semver \in Semver
      <3>1. i \in Release
        <4>1. PICK v \in 1..Len(files) : i = files[v].current \/ i = files[v].previous
          BY IssuedIs
        <4>2. files[v] \in Pointers
          BY DEF IInv, TypeOK
        <4>3. QED
          BY <4>1, <4>2 DEF Pointers
      <3>2. QED
        BY <3>1 DEF Release
    <2>4. PICK top \in {p.current, p.previous} : ~SemverLess(top.semver, i.semver)
      BY DEF LineInv, TopOf
    <2>5. top.semver \in Semver /\ ~SemverLess(h, top.semver)
      BY <2>4, HighestIsHighest DEF Pointers, Release
    <2> HIDE DEF h, new
    <2>6. SemverLess(top.semver, new.semver)
      BY <2>2, <2>5, SemverOrder
    <2>7. QED
      BY <2>2, <2>3, <2>4, <2>5, <2>6, SemverOrder
  <1>7. Issued = {} => t.previous = t.current
    BY <1>1, <1>2
  <1>8. Issued # {} => t.previous = p.current /\ p.current \in Issued
    BY <1>1, <1>2
  <1>9. QED
    BY <1>1, <1>2, <1>4, <1>5, <1>6, <1>7, <1>8

LEMMA InitLine == Init => LineInv /\ Line!Init
  <1> SUFFICES ASSUME Init PROVE LineInv /\ Line!Init
    OBVIOUS
  <1>1. CASE main = <<1>> /\ files = <<BootstrapPointers>>
    <2>1. Len(main) = 1 /\ main[1] = 1 /\ Len(files) = 1 /\ files[1] = BootstrapPointers
      BY <1>1
    <2>2. Issued = {}
      <3>1. ASSUME NEW i \in Issued PROVE FALSE
        BY <2>1, IssuedIs DEF BootstrapPointers
      <3>2. QED
        BY <3>1
    <2>3. QED
      BY <2>1, <2>2
         DEF LineInv, TopOf, TipVersion, Tip, BootstrapPointers, NoRelease, Line!Init
  <1>2. CASE main = <<1, 1, 2>> /\ files = <<BootstrapPointers, CommittedPointers>>
    <2>1. /\ Len(main) = 3 /\ main[1] = 1 /\ main[2] = 1 /\ main[3] = 2
          /\ Len(files) = 2 /\ files[1] = BootstrapPointers /\ files[2] = CommittedPointers
      BY <1>2
    <2> DEFINE p == CommittedPointers
    <2>2. /\ p.current.sha = 2 /\ p.previous.sha = 1
          /\ p.current.semver = <<0, 2, 1>> /\ p.previous.semver = <<0, 2, 0>>
      BY DEF CommittedPointers
    <2>3. p.current # NoRelease /\ p.previous # NoRelease
      BY <2>2 DEF NoRelease
    <2>4. Issued = {p.current, p.previous}
      <3>1. ASSUME NEW i PROVE i \in Issued <=> i \in {p.current, p.previous}
        <4>1. \A v : v \in 1..Len(files) <=> v = 1 \/ v = 2
          BY <2>1
        <4>2. files[1].current = NoRelease /\ files[1].previous = NoRelease
          BY <2>1 DEF BootstrapPointers
        <4>3. QED
          BY <2>1, <2>3, <4>1, <4>2, IssuedIs
      <3>2. QED
        BY <3>1
    <2>5. TopOf(files[2], Issued)
      <3>1. ~SemverLess(p.current.semver, p.current.semver)
            /\ ~SemverLess(p.current.semver, p.previous.semver)
        BY <2>2 DEF SemverLess
      <3>2. QED
        BY <2>1, <2>4, <3>1 DEF TopOf
    <2>6. \A c \in 1..Len(main) : \A v \in 1..main[c] :
             files[v].current.sha < c /\ files[v].previous.sha < c
      <3>1. SUFFICES ASSUME NEW c \in 1..Len(main), NEW v \in 1..main[c]
                     PROVE  files[v].current.sha < c /\ files[v].previous.sha < c
        OBVIOUS
      <3>2. v = 1 \/ (v = 2 /\ c = 3)
        BY <2>1
      <3>3. CASE v = 1
        BY <2>1, <3>3 DEF BootstrapPointers, NoRelease
      <3>4. CASE v = 2 /\ c = 3
        BY <2>1, <2>2, <3>4
      <3>5. QED
        BY <3>2, <3>3, <3>4
    <2>7. \A v \in 1..Len(files) : Bootstrap(files[v]) => v = 1
      BY <2>1, <2>2 DEF Bootstrap
    <2>8. TipVersion = Len(files)
      BY <2>1 DEF TipVersion, Tip
    <2>9. QED
      BY <2>1, <2>4, <2>5, <2>6, <2>7, <2>8 DEF LineInv, Line!Init
  <1>3. QED
    BY <1>1, <1>2 DEF Init

\* Every landing is a step of the abstract line.
LEMMA LandLine ==
    ASSUME IInv, LineInv, NEW r \in Runs, Land(r)
    PROVE  LineInv' /\ Line!Next
  <1> DEFINE L == Len(files)
             p == files[L]
             t == Target(r)
             s == run[r].sha
  <1>1. /\ L \in Nat /\ L \in 1..L /\ p \in Pointers
        /\ Len(main) \in Nat /\ Len(main) \in 1..Len(main) /\ main[Len(main)] = L
        /\ s \in 1..Len(main) /\ main[s] = L /\ run[r].kind \in Kinds
        /\ t = Planned(p, run[r].kind, s) /\ t \in Pointers
        /\ run[r].kind = "rollback" => RollbackPlannable(p)
        /\ files' = Append(files, t) /\ main' = Append(main, L + 1)
    BY LandsOnNewest
  <1>2. TypeOK /\ TipVersion = L
    BY DEF IInv, LineInv
  <1>3. /\ Issued' = Issued \union ({t.current, t.previous} \ {NoRelease})
        /\ Issued \subseteq Release
        /\ Len(files') = L + 1 /\ files'[L + 1] = t
        /\ \A v \in 1..L : files'[v] = files[v]
    BY <1>1, <1>2, IssuedGrows
  <1>4. /\ Len(main') = Len(main) + 1 /\ main'[Len(main) + 1] = L + 1
        /\ \A c \in 1..Len(main) : main'[c] = main[c] /\ main[c] \in 1..L
    BY <1>1, <1>2 DEF TypeOK
  <1>5. TipVersion' = L + 1
    BY <1>4 DEF TipVersion, Tip
  <1> HIDE DEF t
  <1>6. /\ t.current.sha # 0 /\ t.current.sha <= Len(main) /\ t.previous.sha <= Len(main)
        /\ TopOf(t, Issued')
        /\ Line!Next
    <2>1. CASE run[r].kind = "rollback"
      <3>1. /\ t.current = p.previous /\ t.previous = p.current
            /\ p.previous.sha # 0 /\ p.current.sha # 0 /\ p.previous.sha # p.current.sha
        BY <1>1, <2>1 DEF Planned, RollbackPointers, RollbackPlannable
      <3>2. p.current \in Issued /\ p.previous \in Issued
        BY <1>1, <3>1, IssuedIs DEF NoRelease
      <3>3. Issued' = Issued
        BY <1>3, <3>1, <3>2
      <3>4. p.current.sha < Len(main) /\ p.previous.sha < Len(main)
        BY <1>1, <3>2, IssuedOlder
      <3>5. TopOf(p, Issued)
        BY DEF LineInv
      <3>6. TopOf(t, Issued')
        BY <3>1, <3>3, <3>5 DEF TopOf
      <3>7. Line!FallBack
        BY <1>2, <1>3, <1>5, <3>1, <3>2, <3>3 DEF Line!FallBack
      <3>8. p.current.sha \in Nat /\ p.previous.sha \in Nat
        BY <1>1 DEF Pointers, Release
      <3>9. QED
        BY <1>1, <3>1, <3>4, <3>6, <3>7, <3>8 DEF Line!Next
    <2>2. CASE run[r].kind # "rollback"
      <3>1. run[r].kind \in ReleaseTypes /\ t = PromotePointers(p, s, run[r].kind)
        BY <1>1, <2>2 DEF Kinds, Planned
      <3>2. /\ t.current.sha = s /\ t.current # NoRelease
            /\ \A i \in Issued : i.sha < t.current.sha
                                 /\ SemverLess(i.semver, t.current.semver)
                                 /\ ~SemverLess(t.current.semver, i.semver)
            /\ Issued = {} => t.previous = t.current
            /\ Issued # {} => t.previous = p.current /\ p.current \in Issued
        <4>1. p = files[Len(files)] /\ main[s] = Len(files)
          BY <1>1
        <4> HIDE DEF p, s, L
        <4>2. s \in 1..Len(main) /\ p \in Pointers
          BY <1>1
        <4>3. QED
          BY <3>1, <4>1, <4>2, PromoteIsNewest
      <3>3. Issued' = Issued \union {t.current}
        <4>1. t.previous \in Issued \union {t.current}
          BY <3>2
        <4>2. QED
          BY <1>3, <3>2, <4>1
      <3>4. t.previous.sha <= Len(main)
        <4>1. p.current.sha \in Nat /\ s \in Nat /\ s <= Len(main)
          BY <1>1 DEF Pointers, Release
        <4>2. t.previous = t.current \/ (p.current.sha < s /\ t.previous = p.current)
          BY <3>2
        <4>3. QED
          BY <1>1, <3>2, <4>1, <4>2
      <3>5. t.current.semver \in Semver
        BY <1>1 DEF Pointers, Release
      <3>6. TopOf(t, Issued')
        <4>1. \A i \in Issued' : ~SemverLess(t.current.semver, i.semver)
          BY <3>2, <3>3, <3>5, SemverIrreflexive
        <4>2. QED
          BY <4>1 DEF TopOf
      <3>7. Line!IssueNew(t.current)
        <4>1. /\ files'[TipVersion'] = t /\ files[TipVersion] = p
          BY <1>2, <1>3, <1>5
        <4>2. \A i \in Issued : Line!Older(i.semver, t.current.semver)
          BY <3>2 DEF SemverLess, Line!Older
        <4>3. t.previous = IF Issued = {} THEN t.current ELSE p.current
          BY <3>2
        <4>4. QED
          BY <3>2, <3>3, <4>1, <4>2, <4>3 DEF Line!IssueNew
      <3>8. files'[TipVersion'].current = t.current
        BY <1>3, <1>5
      <3>9. Line!Next
        BY <3>7, <3>8 DEF Line!Next
      <3>10. QED
        BY <1>1, <3>2, <3>4, <3>6, <3>9
    <2>3. QED
      BY <2>1, <2>2
  <1>7. LineInv'
    <2>1. \A c \in 1..Len(main') : \A v \in 1..main'[c] :
             files'[v].current.sha < c /\ files'[v].previous.sha < c
      <3>1. SUFFICES ASSUME NEW c \in 1..Len(main'), NEW v \in 1..main'[c]
                     PROVE  files'[v].current.sha < c /\ files'[v].previous.sha < c
        OBVIOUS
      <3>2. CASE c \in 1..Len(main)
        <4>1. main'[c] = main[c] /\ main[c] \in 1..L
          BY <1>4, <3>2
        <4>2. v \in 1..L /\ v \in 1..main[c]
          BY <1>1, <4>1
        <4>3. QED
          BY <1>3, <3>2, <4>2 DEF LineInv
      <3>3. CASE c \notin 1..Len(main)
        <4>1. c = Len(main) + 1 /\ v \in 1..(L + 1)
          BY <1>1, <1>4, <3>3
        <4>2. CASE v = L + 1
          <5>1. t.current.sha \in Nat /\ t.previous.sha \in Nat
            BY <1>1 DEF Pointers, Release
          <5>2. QED
            BY <1>1, <1>3, <1>6, <4>1, <4>2, <5>1
        <4>3. CASE v # L + 1
          <5>1. v \in 1..L /\ files'[v] = files[v] /\ files[v] \in Pointers
            BY <1>1, <1>2, <1>3, <4>1, <4>3 DEF TypeOK
          <5>2. files[v].current.sha < Len(main) /\ files[v].previous.sha < Len(main)
            BY <1>1, <5>1 DEF LineInv
          <5>3. files[v].current.sha \in Nat /\ files[v].previous.sha \in Nat
            BY <5>1 DEF Pointers, Release
          <5>4. QED
            BY <1>1, <4>1, <5>1, <5>2, <5>3
        <4>4. QED
          BY <4>2, <4>3
      <3>4. QED
        BY <3>2, <3>3
    <2>2. \A v \in 1..Len(files') : Bootstrap(files'[v]) => v = 1
      <3>1. SUFFICES ASSUME NEW v \in 1..Len(files'), Bootstrap(files'[v]) PROVE v = 1
        OBVIOUS
      <3>2. v # L + 1
        BY <1>3, <1>6, <3>1 DEF Bootstrap
      <3>3. v \in 1..L /\ files'[v] = files[v]
        BY <1>1, <1>3, <3>2
      <3>4. QED
        BY <3>1, <3>3 DEF LineInv
    <2>3. TopOf(files'[Len(files')], Issued')
      BY <1>3, <1>6 DEF TopOf
    <2>4. QED
      BY <1>3, <1>5, <2>1, <2>2, <2>3 DEF LineInv
  <1>8. QED
    BY <1>6, <1>7

\* A commit that leaves the file alone is no step of the line.
LEMMA PushCommitLine ==
    ASSUME IInv, LineInv, PushCommit
    PROVE  LineInv' /\ UNCHANGED Line!vars
  <1>1. /\ main' = Append(main, TipVersion) /\ files' = files /\ TypeOK
        /\ TipVersion = Len(files)
    BY DEF PushCommit, IInv, LineInv
  <1>2. /\ Len(main) \in Nat /\ Len(main) \in 1..Len(main)
        /\ Len(main') = Len(main) + 1 /\ main'[Len(main) + 1] = Len(files)
        /\ \A c \in 1..Len(main) : main'[c] = main[c]
        /\ main[Len(main)] = Len(files) /\ Len(files) \in Nat
    BY <1>1 DEF TypeOK, TipVersion, Tip
  <1>3. TipVersion' = TipVersion
    BY <1>1, <1>2 DEF TipVersion, Tip
  <1>4. Issued' = Issued
    BY <1>1 DEF Issued
  <1>5. \A c \in 1..Len(main') : \A v \in 1..main'[c] :
           files'[v].current.sha < c /\ files'[v].previous.sha < c
    <2>1. SUFFICES ASSUME NEW c \in 1..Len(main'), NEW v \in 1..main'[c]
                   PROVE  files[v].current.sha < c /\ files[v].previous.sha < c
      BY <1>1
    <2>2. CASE c \in 1..Len(main)
      BY <1>2, <2>2 DEF LineInv
    <2>3. CASE c \notin 1..Len(main)
      <3>1. c = Len(main) + 1 /\ v \in 1..Len(files)
        BY <1>2, <2>3
      <3>2. files[v].current.sha < Len(main) /\ files[v].previous.sha < Len(main)
        BY <1>2, <3>1 DEF LineInv
      <3>3. files[v] \in Pointers
        BY <1>1, <3>1 DEF TypeOK
      <3>4. files[v].current.sha \in Nat /\ files[v].previous.sha \in Nat
        BY <3>3 DEF Pointers, Release
      <3>5. QED
        BY <1>2, <3>1, <3>2, <3>4
    <2>4. QED
      BY <2>2, <2>3
  <1>6. LineInv'
    BY <1>1, <1>3, <1>4, <1>5 DEF LineInv, TopOf
  <1>7. QED
    BY <1>1, <1>3, <1>4, <1>6 DEF Line!vars

LEMMA StepLine == IInv /\ LineInv /\ [Next]_vars => LineInv' /\ [Line!Next]_(Line!vars)
  <1> SUFFICES ASSUME IInv, LineInv, [Next]_vars PROVE LineInv' /\ [Line!Next]_(Line!vars)
    OBVIOUS
  <1>1. CASE UNCHANGED <<main, files>>
    <2>1. Issued' = Issued /\ TipVersion' = TipVersion
      BY <1>1 DEF Issued, TipVersion, Tip
    <2>2. LineInv'
      BY <1>1, <2>1 DEF LineInv, TopOf
    <2>3. QED
      BY <1>1, <2>1, <2>2 DEF Line!vars
  <1>2. CASE PushCommit
    BY <1>2, PushCommitLine
  <1>3. CASE \E r \in Runs : Land(r)
    BY <1>3, LandLine
  <1>4. QED
    BY <1>1, <1>2, <1>3
       DEF Next, vars, repo, Step, Dispatch, Rerun, Start, Plan, DryRun, Prepare,
           OpenPullRequest, PushImmutable, PushMoving, PushMovingInPart, Approve, Merge,
           MergeOutOfBand, MergeAlreadyDone, CreateRelease, FinishRollback, Fail

\* What the landed pointers files say is one abstract line of releases: a
\* landing issues a release newer than all before it or swaps current and
\* previous (apply_promote_pointer_updates, apply_rollback_pointer_updates).
THEOREM TrainImplementsReleaseLine == Spec => ImplementsReleaseLine
  <1>1. Init => IInv /\ LineInv /\ Line!Init
    BY InitIInv, InitLine
  <1>2. IInv /\ LineInv /\ [Next]_vars => (IInv /\ LineInv)' /\ [Line!Next]_(Line!vars)
    BY NextIInv, StepLine
  <1>3. QED
    BY <1>1, <1>2, PTL DEF Spec, ImplementsReleaseLine, Line!Spec

-----------------------------------------------------------------------------
(* The moving tag is accounted for *)

UnderWay == {"prepared", "opened", "stamped", "tagged", "approved"}
Waits(q) == pr[q].state = "approved" /\ pr[q].base = Len(files)

\* A plan and a pointers file for one major tag move it to one commit, unless
\* they claim the same semver.
Agrees(r, p) ==
    Target(r).major = p.major =>
       \/ Target(r).current.sha = p.current.sha
       \/ /\ run[r].kind # "rollback"
          /\ Target(r).current.semver = p.current.semver

\* A release that waits to merge holds its moving tag; a run under way agrees
\* with every release that waits, or was overtaken by one it agrees with, and
\* then no other can land.
RunTag(r) ==
    /\ pr[r].base <= Len(files)
    /\ pr[r].state = "merged" => pr[r].base # Len(files)
    /\ run[r].phase \in UnderWay \ {"prepared"} => pr[r].state # "none"
    /\ run[r].phase = "tagged" => vtag[Target(r).major] = Target(r).current.sha
    /\ Waits(r) => vtag[Target(r).major] = Target(r).current.sha
    /\ run[r].phase \in UnderWay \union {"planned"} /\ PlanBase(r) = Len(files) =>
          \A q \in Runs : Waits(q) => Agrees(r, Target(q))
    /\ run[r].phase \in UnderWay /\ PlanBase(r) # Len(files) =>
          /\ \A q \in Runs : pr[q].base # Len(files)
          /\ Agrees(r, files[Len(files)])

\* One run executes at a time.
Sole == \A q, r \in Runs : run[q].phase \in Executing /\ run[r].phase \in Executing => q = r

\* The moving tag of a file is that of the newest semver it names.
MajorIsNewest ==
    ~Bootstrap(files[Len(files)]) =>
       HighestPointerSemver(files[Len(files)])[1] = files[Len(files)].major

TagInv ==
    /\ Sole
    /\ \A r \in Runs : RunTag(r)
    /\ MajorIsNewest
    /\ CurrentTagAccounted

LEMMA Used ==
    ASSUME IInv, NEW r \in Runs,
           run[r].phase \in UnderWay \union {"planned"} \/ pr[r].state # "none"
    PROVE  /\ run[r].phase # "unused" /\ Target(r) \in Pointers /\ Target(r).major \in Majors
           /\ PlanBase(r) \in 1..Len(files) /\ files[PlanBase(r)] \in Pointers
           /\ run[r].kind \in Kinds /\ run[r].sha \in 1..Len(main)
           /\ run[r].kind = "rollback" => RollbackPlannable(files[PlanBase(r)])
  <1>1. TypeOK /\ RunInv(r)
    BY DEF IInv
  <1>2. /\ run[r].phase # "unused" /\ Target(r).major <= MaxMajor
        /\ run[r].kind = "rollback" => RollbackPlannable(files[PlanBase(r)])
    BY <1>1 DEF RunInv, PlanChecked, PastPlan, UnderWay
  <1>3. /\ Target(r) \in Pointers /\ PlanBase(r) \in 1..Len(files) /\ run[r].kind \in Kinds
        /\ run[r].sha \in 1..Len(main) /\ files[PlanBase(r)] \in Pointers
    BY <1>1, <1>2, PlanFacts
  <1>4. QED
    BY <1>2, <1>3, BoundsAssumption DEF Pointers, Majors

\* A release that waits was planned on the newest file and is tagged.
LEMMA WaitingFacts ==
    ASSUME IInv, NEW q \in Runs, Waits(q)
    PROVE  /\ PlanBase(q) = Len(files) /\ Target(q).current \in immutable
           /\ run[q].phase # "unused" /\ Target(q).major \in Majors
           /\ Target(q) = Planned(files[Len(files)], run[q].kind, run[q].sha)
           /\ run[q].kind = "rollback" => RollbackPlannable(files[Len(files)])
           /\ run[q].kind \in Kinds /\ run[q].sha \in 1..Len(main)
           /\ main[run[q].sha] = Len(files)
  <1>1. RunInv(q)
    BY DEF IInv
  <1>2. PlanBase(q) = Len(files) /\ Target(q).current \in immutable
    BY <1>1 DEF RunInv, BaseIsPlanBase, TagsBeforePointers, TagsPublished, Waits
  <1>3. QED
    BY <1>2, Used DEF Waits, Target, PlanBase

LEMMA AccountedIs ==
    ASSUME LineInv
    PROVE  CurrentTagAccounted <=>
             LET p == files[Len(files)]
             IN  ~Bootstrap(p) =>
                   \/ vtag[p.major] = p.current.sha
                   \/ \E r \in Runs :
                         /\ pr[r].state \in {"open", "approved"}
                         /\ pr[r].base = Len(files)
                         /\ Target(r).major = p.major
                         /\ Target(r).current.sha = vtag[p.major]
  BY DEF LineInv, CurrentTagAccounted, Mergeable

\* Nothing a plan of the newest file names as its current release is the
\* current release of that file.
LEMMA PlansAnother ==
    ASSUME IInv, LineInv, NEW kind \in Kinds, NEW s \in 1..Len(main),
           main[s] = Len(files),
           NEW p, p = files[Len(files)], ~Bootstrap(p),
           kind = "rollback" => RollbackPlannable(p)
    PROVE  Planned(p, kind, s).current.sha # p.current.sha
  <1>1. CASE kind = "rollback"
    BY <1>1 DEF Planned, RollbackPointers, RollbackPlannable
  <1>2. CASE kind # "rollback"
    <2>1. Planned(p, kind, s).current.sha = s
      BY <1>2 DEF Planned, PromotePointers
    <2>2. p.current.sha < s
      BY IssuedOlder
    <2>3. p.current.sha \in Nat /\ s \in Nat
      <3>1. p \in Pointers /\ s \in Nat
        BY DEF IInv, TypeOK
      <3>2. QED
        BY <3>1 DEF Pointers, Release
    <2>4. QED
      BY <2>1, <2>2, <2>3
  <1>3. QED
    BY <1>1, <1>2

\* Two plans of one file that move another tag than the file names, or that
\* start from an empty file, claim the same semver.
LEMMA SameSemver ==
    ASSUME NEW p \in Pointers, NEW k \in Kinds, NEW l \in Kinds, NEW s, NEW u,
           Planned(p, k, s).major = Planned(p, l, u).major,
           \/ /\ Bootstrap(p) /\ k # "rollback" /\ l # "rollback"
           \/ /\ ~Bootstrap(p) /\ HighestPointerSemver(p)[1] = p.major
              /\ Planned(p, k, s).major # p.major
    PROVE  /\ k # "rollback"
           /\ Planned(p, k, s).current.semver = Planned(p, l, u).current.semver
  <1>1. CASE Bootstrap(p) /\ k # "rollback" /\ l # "rollback"
    BY <1>1 DEF Planned, PromotePointers, PromoteSemver
  <1>2. CASE /\ ~Bootstrap(p) /\ HighestPointerSemver(p)[1] = p.major
             /\ Planned(p, k, s).major # p.major
    <2> DEFINE h == HighestPointerSemver(p)
    <2>1. ASSUME NEW j \in Kinds, NEW x, Planned(p, j, x).major # p.major
          PROVE  j = "major" /\ Planned(p, j, x).current.semver = <<h[1] + 1, 0, 0>>
      <3>1. j # "rollback"
        BY <2>1 DEF Planned, RollbackPointers
      <3>2. /\ Planned(p, j, x).major = NextSemver(h, j)[1]
            /\ Planned(p, j, x).current.semver = NextSemver(h, j)
        BY <1>2, <3>1 DEF Planned, PromotePointers, PromoteSemver
      <3> HIDE DEF h
      <3>3. j \notin {"minor", "patch"}
        BY <1>2, <2>1, <3>2 DEF NextSemver, h
      <3>4. QED
        BY <3>1, <3>2, <3>3 DEF Kinds, ReleaseTypes, NextSemver
    <2>2. QED
      BY <1>2, <2>1
  <1>3. QED
    BY <1>1, <1>2

\* A landed file moves the tag of the newest semver it names.
LEMMA MajorOfPlan ==
    ASSUME IInv, LineInv, NEW r \in Runs, Land(r),
           ~Bootstrap(files[Len(files)]) =>
              HighestPointerSemver(files[Len(files)])[1] = files[Len(files)].major
    PROVE  HighestPointerSemver(Target(r))[1] = Target(r).major
  <1> DEFINE p == files[Len(files)]
             t == Target(r)
  <1>1. /\ p \in Pointers /\ run[r].kind \in Kinds
        /\ run[r].sha \in 1..Len(main) /\ main[run[r].sha] = Len(files)
        /\ t = Planned(p, run[r].kind, run[r].sha) /\ t \in Pointers
        /\ run[r].kind = "rollback" => RollbackPlannable(p)
        /\ Len(files) \in 1..Len(files)
    BY LandsOnNewest
  <1>2. /\ t.current.semver \in Semver /\ t.next.semver \in Semver
        /\ t.previous.semver \in Semver
    BY <1>1 DEF Pointers, Release
  <1>3. CASE run[r].kind = "rollback"
    <2>1. /\ t.major = p.major /\ t.current = p.previous /\ t.next = p.previous
          /\ t.previous = p.current /\ p.next = p.current /\ ~Bootstrap(p)
      BY <1>1, <1>3 DEF Planned, RollbackPointers, RollbackPlannable, Bootstrap, IInv, FilesSound
    <2>2. ASSUME NEW a \in Semver, NEW b \in Semver
          PROVE  Higher(a, Higher(a, b))[1] = Higher(b, Higher(b, a))[1]
      BY SemverParts DEF Higher, SemverLess
    <2>3. HighestPointerSemver(t)[1] = HighestPointerSemver(p)[1]
      BY <1>2, <2>1, <2>2 DEF HighestPointerSemver
    <2>4. QED
      BY <2>1, <2>3
  <1>4. CASE run[r].kind # "rollback"
    <2>1. run[r].kind \in ReleaseTypes /\ t = PromotePointers(p, run[r].sha, run[r].kind)
      BY <1>1, <1>4 DEF Kinds, Planned
    <2>2. t.next = t.current /\ t.major = t.current.semver[1]
      BY <2>1 DEF PromotePointers
    <2>3. ~SemverLess(t.current.semver, t.previous.semver)
      <3>1. /\ \A i \in Issued : ~SemverLess(t.current.semver, i.semver)
            /\ Issued = {} => t.previous = t.current
            /\ Issued # {} => t.previous = p.current /\ p.current \in Issued
        BY <1>1, <2>1, PromoteIsNewest
      <3>2. QED
        BY <1>2, <3>1, SemverIrreflexive
    <2>4. HighestPointerSemver(t) = t.current.semver
      BY <1>2, <2>2, <2>3, SemverIrreflexive DEF HighestPointerSemver, Higher
    <2>5. QED
      BY <2>2, <2>4
  <1>5. QED
    BY <1>3, <1>4

PlansKept ==
    \A q \in Runs : run[q].phase # "unused" =>
       /\ run'[q].kind = run[q].kind /\ PlanBase(q)' = PlanBase(q) /\ Target(q)' = Target(q)

LEMMA PlansAreKept ==
    ASSUME TypeOK, HistoryKept,
           \A q \in Runs : run[q].phase # "unused" =>
              run'[q].sha = run[q].sha /\ run'[q].kind = run[q].kind
    PROVE  PlansKept
  <1>1. SUFFICES ASSUME NEW q \in Runs, run[q].phase # "unused"
                 PROVE  /\ run'[q].kind = run[q].kind
                        /\ PlanBase(q)' = PlanBase(q) /\ Target(q)' = Target(q)
    BY DEF PlansKept
  <1>2. QED
    BY <1>1, PlanKept

\* A step that lands nothing keeps what is known of a run it does not move
\* forward, unless it moves the tag of that run.
LEMMA RunTagKept ==
    ASSUME IInv, PlansKept, files' = files, NEW q \in Runs, RunTag(q), pr'[q] = pr[q],
           \/ run'[q].phase = run[q].phase
           \/ run[q].phase = "opened" /\ run'[q].phase = "stamped"
           \/ run'[q].phase \notin UnderWay \union {"planned"},
           run[q].phase = "tagged" \/ Waits(q) =>
              vtag'[Target(q).major] = vtag[Target(q).major],
           run'[q].phase \in Executing =>
              \A s \in Runs : /\ Waits(s)' => Waits(s)
                              /\ pr'[s].base = Len(files) => pr[s].base = Len(files)
    PROVE  RunTag(q)'
  <1>1. /\ pr[q].base <= Len(files)
        /\ pr[q].state = "merged" => pr[q].base # Len(files)
        /\ run[q].phase \in UnderWay \ {"prepared"} => pr[q].state # "none"
        /\ run[q].phase = "tagged" => vtag[Target(q).major] = Target(q).current.sha
        /\ Waits(q) => vtag[Target(q).major] = Target(q).current.sha
    BY DEF RunTag
  <1>2. /\ run'[q].phase \in UnderWay \ {"prepared"} => run[q].phase \in UnderWay \ {"prepared"}
        /\ run'[q].phase = "tagged" => run[q].phase = "tagged"
        /\ run'[q].phase \in UnderWay => run[q].phase \in UnderWay
        /\ run'[q].phase \in UnderWay \union {"planned"} =>
              /\ run[q].phase \in UnderWay \union {"planned"}
              /\ run'[q].phase \in Executing
    BY DEF UnderWay, Executing
  <1>3. \A s \in Runs : run[s].phase \in UnderWay \union {"planned"} \/ pr[s].state # "none" =>
           /\ run'[s].kind = run[s].kind
           /\ PlanBase(s)' = PlanBase(s) /\ Target(s)' = Target(s)
    BY Used DEF PlansKept
  <1>4. Waits(q)' => Waits(q)
    BY DEF Waits
  <1>5. /\ run'[q].phase = "tagged" => vtag'[Target(q)'.major] = Target(q)'.current.sha
        /\ Waits(q)' => vtag'[Target(q)'.major] = Target(q)'.current.sha
    BY <1>1, <1>2, <1>3, <1>4 DEF Waits, UnderWay
  <1>6. ASSUME run'[q].phase \in UnderWay \union {"planned"}, PlanBase(q)' = Len(files')
        PROVE  \A s \in Runs : Waits(s)' => Agrees(q, Target(s))'
    <2>1. SUFFICES ASSUME NEW s \in Runs, Waits(s)' PROVE Agrees(q, Target(s))'
      OBVIOUS
    <2>2. Waits(s)
      <3>1. run'[q].phase \in Executing
        BY <1>2, <1>6
      <3>2. QED
        BY <2>1, <3>1, Zenon
    <2>3. run'[q].kind = run[q].kind /\ PlanBase(q)' = PlanBase(q) /\ Target(q)' = Target(q)
      BY <1>2, <1>3, <1>6
    <2>4. Target(s)' = Target(s)
      BY <1>3, <2>2 DEF Waits
    <2>5. Agrees(q, Target(s))
      BY <1>2, <1>6, <2>2, <2>3 DEF RunTag
    <2>6. QED
      BY <2>3, <2>4, <2>5 DEF Agrees
  <1>7. ASSUME run'[q].phase \in UnderWay, PlanBase(q)' # Len(files')
        PROVE  /\ \A s \in Runs : pr'[s].base # Len(files')
               /\ Agrees(q, files[Len(files)])'
    <2>1. /\ run[q].phase \in UnderWay /\ run'[q].phase \in Executing
          /\ run'[q].kind = run[q].kind /\ PlanBase(q)' = PlanBase(q) /\ Target(q)' = Target(q)
      BY <1>2, <1>3, <1>7
    <2>2. (\A s \in Runs : pr[s].base # Len(files)) /\ Agrees(q, files[Len(files)])
      BY <1>7, <2>1 DEF RunTag
    <2>3. \A s \in Runs : pr'[s].base # Len(files')
      BY <2>1, <2>2
    <2>4. Agrees(q, files[Len(files)])'
      BY <2>1, <2>2 DEF Agrees
    <2>5. QED
      BY <2>3, <2>4
  <1>8. QED
    BY <1>1, <1>2, <1>5, <1>6, <1>7 DEF RunTag

\* A step that lands nothing and moves no tag of the newest file's major.
LEMMA AccountedKept ==
    ASSUME IInv, LineInv, LineInv', CurrentTagAccounted, PlansKept, files' = files,
           vtag'[files[Len(files)].major] = vtag[files[Len(files)].major],
           \A q \in Runs : pr[q].state \in {"open", "approved"} /\ pr[q].base = Len(files) =>
              pr'[q].state \in {"open", "approved"} /\ pr'[q].base = Len(files)
    PROVE  CurrentTagAccounted' /\ (MajorIsNewest => MajorIsNewest')
  <1>1. TipVersion = Len(files) /\ TipVersion' = Len(files)
    BY DEF LineInv
  <1>2. ASSUME NEW q \in Runs, pr[q].state \in {"open", "approved"}
        PROVE  Target(q)' = Target(q)
    BY <1>2, Used DEF PlansKept
  <1>3. CurrentTagAccounted'
    BY <1>1, <1>2 DEF CurrentTagAccounted, Mergeable, Bootstrap
  <1>4. MajorIsNewest => MajorIsNewest'
    BY DEF MajorIsNewest, Bootstrap
  <1>5. QED
    BY <1>3, <1>4

\* Steps that move no tag, open or approve no pull request and land nothing.
LEMMA QuietTag ==
    ASSUME IInv, LineInv, LineInv', TagInv, HistoryKept, UNCHANGED <<files, vtag, pr>>, Sole',
           \A q \in Runs :
              \/ run'[q] = run[q]
              \/ run[q].phase = "unused" /\ run'[q].phase = "pending"
              \/ /\ run'[q].sha = run[q].sha /\ run'[q].kind = run[q].kind
                 /\ \/ run[q].phase = "opened" /\ run'[q].phase = "stamped"
                    \/ run'[q].phase \notin UnderWay \union {"planned"}
    PROVE  TagInv'
  <1>1. TypeOK /\ (\A q \in Runs : RunTag(q)) /\ MajorIsNewest /\ CurrentTagAccounted
    BY DEF IInv, TagInv
  <1>2. PlansKept
    BY <1>1, PlansAreKept
  <1>3. \A s \in Runs : Waits(s)' => Waits(s)
    BY DEF Waits
  <1>4. \A q \in Runs : RunTag(q)'
    BY <1>1, <1>2, <1>3, RunTagKept DEF UnderWay
  <1>5. CurrentTagAccounted' /\ MajorIsNewest'
    BY <1>1, <1>2, AccountedKept
  <1>6. QED
    BY <1>4, <1>5 DEF TagInv

\* A step of the one executing run: the others are not executing, and every
\* plan stays what it was.
LEMMA SoleStep ==
    ASSUME IInv, Sole, NEW r \in Runs, run[r].phase \in Executing,
           NEW ph \in Executing \union Finished, Phase(r, ph), UNCHANGED repo
    PROVE  /\ PlansKept /\ HistoryKept /\ files' = files
           /\ run'[r].phase = ph /\ run'[r].sha = run[r].sha /\ run'[r].kind = run[r].kind
           /\ \A q \in Runs \ {r} : run'[q] = run[q] /\ run'[q].phase \notin Executing
           /\ Sole'
           /\ run[r].phase # "unused"
  <1>1. TypeOK /\ run[r].phase # "unused" /\ HistoryKept /\ files' = files
    BY UnchangedHistory DEF IInv, Executing, repo
  <1>2. /\ run'[r].phase = ph /\ run'[r].sha = run[r].sha /\ run'[r].kind = run[r].kind
        /\ \A q \in Runs \ {r} : run'[q] = run[q]
    BY <1>1, PhaseType
  <1>3. \A q \in Runs \ {r} : run'[q] = run[q] /\ run'[q].phase \notin Executing
    BY <1>2 DEF Sole
  <1>4. Sole'
    BY <1>3 DEF Sole
  <1>5. \A q \in Runs : run'[q].sha = run[q].sha /\ run'[q].kind = run[q].kind
    BY <1>2
  <1>6. PlansKept
    BY <1>1, <1>5, PlansAreKept
  <1>7. QED
    BY <1>1, <1>2, <1>3, <1>4, <1>6

\* The guards of Plan: what is planned now agrees with what waits to merge.
LEMMA PlannedAgrees ==
    ASSUME IInv, LineInv, MajorIsNewest, NEW r \in Runs, PlanAccepted(r),
           PlanBase(r) = Len(files), NEW q \in Runs, Waits(q), RunTag(q)
    PROVE  Agrees(r, Target(q))
  <1> DEFINE p == files[Len(files)]
             t == Target(r)
             u == Target(q)
  <1>1. SUFFICES ASSUME t.major = u.major
                 PROVE  \/ t.current.sha = u.current.sha
                        \/ /\ run[r].kind # "rollback"
                           /\ t.current.semver = u.current.semver
    BY DEF Agrees
  <1>2. /\ TypeOK /\ run[r].phase # "unused"
        /\ run[r].kind = "rollback" => RollbackPlannable(p)
        /\ p.current.sha # 0 => vtag[p.major] \in {p.current.sha, t.current.sha}
    BY DEF PlanAccepted, IInv, RemoteCurrentAllows
  <1>3. /\ run[r].kind \in Kinds /\ p \in Pointers
        /\ t = Planned(p, run[r].kind, run[r].sha)
    BY <1>2, PlanFacts DEF Target
  <1>4. /\ run[q].kind \in Kinds /\ u = Planned(p, run[q].kind, run[q].sha)
        /\ run[q].kind = "rollback" => RollbackPlannable(p)
        /\ run[q].sha \in 1..Len(main) /\ main[run[q].sha] = Len(files)
    BY WaitingFacts
  <1>5. CASE Bootstrap(p)
    <2>1. run[r].kind # "rollback" /\ run[q].kind # "rollback"
      BY <1>2, <1>4, <1>5 DEF Bootstrap, RollbackPlannable
    <2>2. QED
      BY <1>1, <1>3, <1>4, <1>5, <2>1, SameSemver
  <1>6. CASE ~Bootstrap(p) /\ t.major # p.major
    <2>1. HighestPointerSemver(p)[1] = p.major
      BY <1>6 DEF MajorIsNewest
    <2>2. QED
      BY <1>1, <1>3, <1>4, <1>6, <2>1, SameSemver
  <1>7. CASE ~Bootstrap(p) /\ t.major = p.major
    <2>1. vtag[p.major] = u.current.sha
      BY <1>1, <1>7 DEF RunTag
    <2>2. u.current.sha # p.current.sha
      BY <1>4, <1>7, PlansAnother
    <2>3. QED
      BY <1>2, <1>7, <2>1, <2>2 DEF Bootstrap
  <1>8. QED
    BY <1>5, <1>6, <1>7

LEMMA PlanTag ==
    ASSUME IInv, LineInv, LineInv', TagInv, NEW r \in Runs, Plan(r)
    PROVE  TagInv'
  <1>1. /\ Sole /\ MajorIsNewest /\ CurrentTagAccounted /\ \A q \in Runs : RunTag(q)
        /\ PlanAccepted(r) /\ run[r].phase = "gate" /\ Phase(r, "planned")
        /\ UNCHANGED <<repo, tags, published, pr>>
    BY DEF TagInv, Plan, PlanAccepted
  <1>2. /\ PlansKept /\ HistoryKept /\ files' = files
        /\ run'[r].phase = "planned" /\ run'[r].kind = run[r].kind
        /\ \A q \in Runs \ {r} : run'[q] = run[q]
        /\ Sole' /\ run[r].phase # "unused"
    BY <1>1, SoleStep DEF Executing
  <1>3. vtag' = vtag /\ pr' = pr
    BY <1>1 DEF tags
  <1>4. \A s \in Runs : Waits(s)' => Waits(s)
    BY <1>2, <1>3 DEF Waits
  <1>5. \A q \in Runs \ {r} : RunTag(q)'
    BY <1>1, <1>2, <1>3, <1>4, RunTagKept
  <1>6. RunTag(r)'
    <2>1. /\ PlanBase(r)' = PlanBase(r) /\ Target(r)' = Target(r)
      BY <1>2 DEF PlansKept
    <2>2. ASSUME PlanBase(r) = Len(files), NEW q \in Runs, Waits(q)'
          PROVE  Agrees(r, Target(q))'
      <3>1. Waits(q)
        BY <1>4, <2>2
      <3>2. Agrees(r, Target(q))
        BY <1>1, <2>2, <3>1, PlannedAgrees
      <3>3. Target(q)' = Target(q)
        BY <1>2, <3>1, WaitingFacts DEF PlansKept
      <3>4. QED
        BY <1>2, <2>1, <3>2, <3>3 DEF Agrees
    <2>3. /\ pr[r].base <= Len(files)
          /\ pr[r].state = "merged" => pr[r].base # Len(files)
          /\ Waits(r) => vtag[Target(r).major] = Target(r).current.sha
      BY <1>1 DEF RunTag
    <2>4. Waits(r)' => vtag'[Target(r)'.major] = Target(r)'.current.sha
      BY <1>3, <1>4, <2>1, <2>3
    <2>5. QED
      BY <1>2, <1>3, <2>1, <2>2, <2>3, <2>4 DEF RunTag, UnderWay
  <1>7. CurrentTagAccounted' /\ MajorIsNewest'
    BY <1>1, <1>2, <1>3, AccountedKept
  <1>8. QED
    BY <1>2, <1>5, <1>6, <1>7 DEF TagInv

LEMMA PrepareTag ==
    ASSUME IInv, LineInv, LineInv', TagInv, NEW r \in Runs, Prepare(r)
    PROVE  TagInv'
  <1>1. /\ TypeOK /\ Sole /\ MajorIsNewest /\ CurrentTagAccounted /\ RunInv(r)
        /\ \A q \in Runs : RunTag(q)
        /\ run[r].phase = "planned" /\ PlanBase(r) = Len(files) /\ Phase(r, "prepared")
        /\ pr' = [pr EXCEPT ![r].base = Len(files)]
        /\ UNCHANGED <<repo, tags>>
    BY DEF IInv, TagInv, Prepare, PointersBaseMatchesTip, LineInv
  <1>2. /\ PlansKept /\ files' = files
        /\ run'[r].phase = "prepared" /\ run'[r].kind = run[r].kind
        /\ \A q \in Runs \ {r} : run'[q] = run[q] /\ run'[q].phase \notin Executing
        /\ Sole' /\ run[r].phase # "unused"
    BY <1>1, SoleStep DEF Executing
  <1>3. /\ vtag' = vtag
        /\ \A q \in Runs \ {r} : pr'[q] = pr[q]
        /\ pr'[r].state = pr[r].state /\ pr'[r].base = Len(files) /\ Len(files) \in Nat
    BY <1>1 DEF TypeOK, PullRequest, tags
  <1>4. pr[r].state # "none" => pr[r].base = Len(files)
    BY <1>1 DEF RunInv, BaseIsPlanBase
  <1>5. \A s \in Runs : Waits(s)' => Waits(s)
    BY <1>2, <1>3, <1>4 DEF Waits
  <1>6. \A q \in Runs \ {r} : RunTag(q)'
    BY <1>1, <1>2, <1>3, RunTagKept
  <1>7. RunTag(r)'
    <2>1. PlanBase(r)' = PlanBase(r) /\ Target(r)' = Target(r)
      BY <1>2 DEF PlansKept
    <2>2. ASSUME NEW q \in Runs, Waits(q)'
          PROVE  Agrees(r, Target(q))'
      <3>1. Waits(q)
        BY <1>5, <2>2
      <3>2. Agrees(r, Target(q))
        BY <1>1, <3>1 DEF RunTag
      <3>3. Target(q)' = Target(q)
        BY <1>2, <3>1, WaitingFacts DEF PlansKept
      <3>4. QED
        BY <1>2, <2>1, <3>2, <3>3 DEF Agrees
    <2>3. /\ pr[r].state = "merged" => pr[r].base # Len(files)
          /\ Waits(r) => vtag[Target(r).major] = Target(r).current.sha
      BY <1>1 DEF RunTag
    <2>4. Waits(r)' => vtag'[Target(r)'.major] = Target(r)'.current.sha
      BY <1>3, <1>5, <2>1, <2>3
    <2>5. QED
      BY <1>1, <1>2, <1>3, <1>4, <2>1, <2>2, <2>3, <2>4 DEF RunTag, UnderWay
  <1>8. CurrentTagAccounted' /\ MajorIsNewest'
    BY <1>1, <1>2, <1>3, AccountedKept
  <1>9. QED
    BY <1>2, <1>6, <1>7, <1>8 DEF TagInv

\* Opening or approving a pull request: what the run relies on stays, and a
\* release that starts to wait holds its tag.
LEMMA PullRequestTag ==
    ASSUME IInv, LineInv, LineInv', TagInv, NEW r \in Runs,
           run[r].phase \in {"prepared", "tagged"},
           NEW ph \in {"opened", "approved"}, Phase(r, ph), UNCHANGED <<repo, tags>>,
           \A q \in Runs \ {r} : pr'[q] = pr[q],
           pr'[r].base = pr[r].base,
           \/ pr'[r].state \in {"open", "approved"}
           \/ pr[r].state = "merged" /\ pr'[r].state = "merged",
           \/ run[r].phase = "tagged"
           \/ pr'[r].state = "approved" => pr[r].state = "approved"
    PROVE  TagInv'
  <1>1. /\ Sole /\ MajorIsNewest /\ CurrentTagAccounted /\ \A q \in Runs : RunTag(q)
    BY DEF TagInv
  <1>2. /\ PlansKept /\ files' = files
        /\ run'[r].phase = ph /\ run'[r].kind = run[r].kind
        /\ \A q \in Runs \ {r} : run'[q] = run[q] /\ run'[q].phase \notin Executing
        /\ Sole' /\ run[r].phase # "unused"
    BY <1>1, SoleStep DEF Executing
  <1>3. vtag' = vtag /\ \A s \in Runs : pr'[s].base = pr[s].base
    BY DEF tags
  <1>4. \A s \in Runs \ {r} : Waits(s)' => Waits(s)
    BY <1>2 DEF Waits
  <1>5. \A q \in Runs \ {r} : RunTag(q)'
    BY <1>1, <1>2, <1>3, RunTagKept
  <1>6. RunTag(r)'
    <2>1. PlanBase(r)' = PlanBase(r) /\ Target(r)' = Target(r)
      BY <1>2 DEF PlansKept
    <2>2. /\ pr[r].base <= Len(files)
          /\ pr[r].state = "merged" => pr[r].base # Len(files)
          /\ run[r].phase = "tagged" => vtag[Target(r).major] = Target(r).current.sha
          /\ Waits(r) => vtag[Target(r).major] = Target(r).current.sha
      BY <1>1 DEF RunTag
    <2>3. Waits(r)' => vtag'[Target(r)'.major] = Target(r)'.current.sha
      <3>1. Waits(r)' => run[r].phase = "tagged" \/ Waits(r)
        BY <1>2, <1>3 DEF Waits
      <3>2. QED
        BY <1>3, <2>1, <2>2, <3>1
    <2>4. ASSUME PlanBase(r) = Len(files), NEW q \in Runs, Waits(q)'
          PROVE  Agrees(r, Target(q))'
      <3>1. CASE q = r
        BY <3>1 DEF Agrees
      <3>2. CASE q # r
        <4>1. Waits(q)
          BY <1>4, <2>4, <3>2
        <4>2. Agrees(r, Target(q))
          BY <1>1, <2>4, <4>1 DEF RunTag, UnderWay
        <4>3. Target(q)' = Target(q)
          BY <1>2, <4>1, WaitingFacts DEF PlansKept
        <4>4. QED
          BY <1>2, <2>1, <4>2, <4>3 DEF Agrees
      <3>3. QED
        BY <3>1, <3>2
    <2>5. ASSUME PlanBase(r) # Len(files)
          PROVE  (\A q \in Runs : pr'[q].base # Len(files)) /\ Agrees(r, files[Len(files)])'
      <3>1. (\A q \in Runs : pr[q].base # Len(files)) /\ Agrees(r, files[Len(files)])
        BY <1>1, <2>5 DEF RunTag, UnderWay
      <3>2. Agrees(r, files[Len(files)])'
        BY <1>2, <2>1, <3>1 DEF Agrees
      <3>3. QED
        BY <1>3, <3>1, <3>2
    <2>6. /\ pr'[r].base <= Len(files')
          /\ pr'[r].state = "merged" => pr'[r].base # Len(files')
          /\ run'[r].phase \in UnderWay \ {"prepared"} => pr'[r].state # "none"
          /\ run'[r].phase # "tagged"
      BY <1>2, <1>3, <2>2
    <2>7. QED
      BY <1>2, <2>1, <2>3, <2>4, <2>5, <2>6 DEF RunTag
  <1>7. CurrentTagAccounted' /\ MajorIsNewest'
    <2>1. \A q \in Runs : pr[q].state \in {"open", "approved"} /\ pr[q].base = Len(files) =>
             pr'[q].state \in {"open", "approved"} /\ pr'[q].base = Len(files)
      BY <1>3
    <2>2. QED
      BY <1>1, <1>2, <1>3, <2>1, AccountedKept
  <1>8. QED
    BY <1>2, <1>5, <1>6, <1>7 DEF TagInv

LEMMA OpenTag ==
    ASSUME IInv, LineInv, LineInv', TagInv, NEW r \in Runs, OpenPullRequest(r) \/ Approve(r)
    PROVE  TagInv'
  <1>1. pr \in [Runs -> PullRequest] /\ RunTag(r)
    BY DEF IInv, TypeOK, TagInv
  <1>2. CASE OpenPullRequest(r)
    <2>1. PICK state \in {"open"} \union ({pr[r].state} \intersect {"approved"}) :
             pr' = [pr EXCEPT ![r].state = state]
      BY <1>2 DEF OpenPullRequest
    <2>2. /\ \A q \in Runs \ {r} : pr'[q] = pr[q]
          /\ pr'[r].base = pr[r].base /\ pr'[r].state = state
      BY <1>1, <2>1 DEF PullRequest
    <2>3. /\ run[r].phase = "prepared" /\ Phase(r, "opened") /\ UNCHANGED <<repo, tags>>
          /\ pr'[r].state \in {"open", "approved"}
          /\ pr'[r].state = "approved" => pr[r].state = "approved"
      BY <1>2, <2>1, <2>2 DEF OpenPullRequest
    <2>4. QED
      BY <2>2, <2>3, PullRequestTag
  <1>3. CASE Approve(r)
    <2>1. pr' = [pr EXCEPT ![r].state = IF pr[r].state = "merged" THEN "merged"
                                                                  ELSE "approved"]
      BY <1>3 DEF Approve
    <2>2. /\ \A q \in Runs \ {r} : pr'[q] = pr[q]
          /\ pr'[r].base = pr[r].base
          /\ pr'[r].state = IF pr[r].state = "merged" THEN "merged" ELSE "approved"
      BY <1>1, <2>1 DEF PullRequest
    <2>3. /\ run[r].phase = "tagged" /\ Phase(r, "approved") /\ UNCHANGED <<repo, tags>>
          /\ \/ pr'[r].state \in {"open", "approved"}
             \/ pr[r].state = "merged" /\ pr'[r].state = "merged"
      BY <1>3, <2>2 DEF Approve
    <2>4. QED
      BY <2>2, <2>3, PullRequestTag
  <1>4. QED
    BY <1>2, <1>3

\* Two tagged releases of one semver are one release.
LEMMA OneRelease ==
    ASSUME IInv, NEW i \in immutable, NEW j \in immutable, i.semver = j.semver
    PROVE  i.sha = j.sha
  BY DEF IInv, AuditTrail

\* A run that moves the tags moves them where what waits, or what landed in
\* its place, already has them.
LEMMA MovesWhereAgreed ==
    ASSUME IInv, TagInv, NEW r \in Runs, ReadyToMoveTags(r)
    PROVE  /\ \A q \in Runs : Waits(q) /\ Target(q).major = Target(r).major =>
                 Target(q).current.sha = Target(r).current.sha
           /\ ~Bootstrap(files[Len(files)]) /\ Target(r).major = files[Len(files)].major =>
                 \/ Target(r).current.sha = files[Len(files)].current.sha
                 \/ pr[r].state \in {"open", "approved"} /\ pr[r].base = Len(files)
  <1> DEFINE t == Target(r)
             p == files[Len(files)]
  <1>1. /\ TypeOK /\ RunInv(r) /\ RunTag(r) /\ t.current \in immutable
        /\ run[r].phase \in {"opened", "stamped"}
    BY ReadyFacts DEF IInv, TagInv, ReadyToMoveTags
  <1>2. CASE PlanBase(r) = Len(files)
    <2>1. ASSUME NEW q \in Runs, Waits(q), Target(q).major = t.major
          PROVE  Target(q).current.sha = t.current.sha
      <3>1. Agrees(r, Target(q))
        BY <1>1, <1>2, <2>1 DEF RunTag, UnderWay
      <3>2. Target(q).current \in immutable
        BY <2>1, WaitingFacts
      <3>3. QED
        BY <1>1, <2>1, <3>1, <3>2, OneRelease DEF Agrees
    <2>2. pr[r].state \in {"open", "approved"} /\ pr[r].base = Len(files)
      <3>1. pr[r].state \notin {"none"} /\ pr[r].base = Len(files)
        BY <1>1, <1>2 DEF RunInv, BaseIsPlanBase, RunTag, PastPlan, UnderWay
      <3>2. pr[r].state # "merged"
        BY <1>1, <3>1 DEF RunTag
      <3>3. pr[r] \in PullRequest
        BY <1>1 DEF TypeOK
      <3>4. QED
        BY <3>1, <3>2, <3>3 DEF PullRequest
    <2>3. QED
      BY <2>1, <2>2
  <1>3. CASE PlanBase(r) # Len(files)
    <2>1. (\A q \in Runs : pr[q].base # Len(files)) /\ Agrees(r, p)
      BY <1>1, <1>3 DEF RunTag, UnderWay
    <2>2. ASSUME ~Bootstrap(p), t.major = p.major
          PROVE  t.current.sha = p.current.sha
      <3>1. p.current \in immutable
        <4>1. Len(files) \in 1..Len(files)
          BY <1>1 DEF TypeOK
        <4>2. QED
          BY <2>2, <4>1 DEF IInv, AuditTrail
      <3>2. QED
        BY <1>1, <2>1, <2>2, <3>1, OneRelease DEF Agrees
    <2>3. QED
      BY <2>1, <2>2 DEF Waits
  <1>4. QED
    BY <1>2, <1>3

LEMMA MovingTag ==
    ASSUME IInv, LineInv, LineInv', TagInv, NEW r \in Runs, ReadyToMoveTags(r),
           NEW refs \in SUBSET {"current", "next", "previous"}, MoveTags(r, refs),
           NEW ph \in {"tagged", "failed"}, Phase(r, ph), UNCHANGED <<repo, pr>>,
           ph = "tagged" => "current" \in refs
    PROVE  TagInv'
  <1> DEFINE t == Target(r)
             p == files[Len(files)]
  <1>1. /\ TypeOK /\ Sole /\ MajorIsNewest /\ CurrentTagAccounted
        /\ \A q \in Runs : RunTag(q)
        /\ run[r].phase \in {"opened", "stamped"}
    BY DEF IInv, TagInv, ReadyToMoveTags
  <1>2. /\ PlansKept /\ files' = files
        /\ run'[r].phase = ph /\ run'[r].kind = run[r].kind
        /\ \A q \in Runs \ {r} : run'[q] = run[q] /\ run'[q].phase \notin Executing
        /\ Sole' /\ run[r].phase # "unused"
    BY <1>1, SoleStep DEF Executing, Finished
  <1>3. \A m \in Majors : vtag'[m] = IF m = t.major /\ "current" \in refs
                                     THEN t.current.sha ELSE vtag[m]
    BY DEF MoveTags
  <1>4. /\ \A q \in Runs : Waits(q) /\ Target(q).major = t.major =>
              Target(q).current.sha = t.current.sha
        /\ ~Bootstrap(p) /\ t.major = p.major =>
              \/ t.current.sha = p.current.sha
              \/ pr[r].state \in {"open", "approved"} /\ pr[r].base = Len(files)
    BY MovesWhereAgreed
  <1>5. t.major \in Majors /\ PlanBase(r)' = PlanBase(r) /\ Target(r)' = t
    BY <1>1, <1>2, Used DEF PlansKept, UnderWay
  <1>6. \A q \in Runs : Waits(q) => vtag'[Target(q).major] = Target(q).current.sha
                                  /\ vtag[Target(q).major] = Target(q).current.sha
    <2>1. SUFFICES ASSUME NEW q \in Runs, Waits(q)
                   PROVE  /\ vtag'[Target(q).major] = Target(q).current.sha
                          /\ vtag[Target(q).major] = Target(q).current.sha
      OBVIOUS
    <2>2. vtag[Target(q).major] = Target(q).current.sha
      BY <1>1, <2>1 DEF RunTag
    <2>3. Target(q).major \in Majors
      BY <2>1, WaitingFacts
    <2>4. QED
      BY <1>3, <1>4, <2>1, <2>2, <2>3
  <1>7. \A s \in Runs : Waits(s)' <=> Waits(s)
    BY <1>2 DEF Waits
  <1>8. \A q \in Runs \ {r} : RunTag(q)'
    <2>1. SUFFICES ASSUME NEW q \in Runs \ {r} PROVE RunTag(q)'
      OBVIOUS
    <2>2. run[q].phase # "tagged"
      BY <1>2 DEF Executing
    <2>3. run[q].phase = "tagged" \/ Waits(q) =>
             vtag'[Target(q).major] = vtag[Target(q).major]
      BY <1>6, <2>2
    <2>4. QED
      BY <1>1, <1>2, <2>3, RunTagKept
  <1>9. RunTag(r)'
    <2>1. CASE ph = "failed"
      <3>1. run'[r].phase \notin UnderWay \union {"planned"} /\ run'[r].phase \notin Executing
        BY <1>2, <2>1 DEF UnderWay, Executing
      <3>2. run[r].phase = "tagged" \/ Waits(r) =>
               vtag'[Target(r).major] = vtag[Target(r).major]
        BY <1>1, <1>6
      <3>3. QED
        BY <1>1, <1>2, <3>1, <3>2, RunTagKept
    <2>2. CASE ph = "tagged"
      <3>1. /\ run[r].phase \in UnderWay \ {"prepared"}
            /\ run'[r].phase \in UnderWay \ {"prepared"} /\ run'[r].phase = "tagged"
        BY <1>1, <1>2, <2>2 DEF UnderWay
      <3>2. vtag'[Target(r)'.major] = Target(r)'.current.sha
        BY <1>3, <1>5, <2>2
      <3>3. ASSUME PlanBase(r) = Len(files), NEW q \in Runs, Waits(q)'
            PROVE  Agrees(r, Target(q))'
        <4>1. Waits(q)
          BY <1>7, <3>3
        <4>2. Agrees(r, Target(q))
          BY <1>1, <3>1, <3>3, <4>1 DEF RunTag
        <4>3. Target(q)' = Target(q)
          BY <1>2, <4>1, WaitingFacts DEF PlansKept
        <4>4. QED
          BY <1>2, <1>5, <4>2, <4>3 DEF Agrees
      <3>4. ASSUME PlanBase(r) # Len(files)
            PROVE  (\A q \in Runs : pr[q].base # Len(files)) /\ Agrees(r, files[Len(files)])'
        <4>1. (\A q \in Runs : pr[q].base # Len(files)) /\ Agrees(r, files[Len(files)])
          BY <1>1, <3>1, <3>4 DEF RunTag
        <4>2. Agrees(r, files[Len(files)])'
          BY <1>2, <1>5, <4>1 DEF Agrees
        <4>3. QED
          BY <4>1, <4>2
      <3>5. /\ pr[r].base <= Len(files)
            /\ pr[r].state = "merged" => pr[r].base # Len(files)
            /\ pr[r].state # "none"
        BY <1>1, <3>1 DEF RunTag
      <3>6. QED
        BY <1>2, <1>5, <3>2, <3>3, <3>4, <3>5 DEF RunTag
    <2>3. QED
      BY <2>1, <2>2
  <1>10. CurrentTagAccounted' /\ MajorIsNewest'
    <2>1. CASE vtag'[p.major] = vtag[p.major]
      BY <1>1, <1>2, <2>1, AccountedKept
    <2>2. CASE vtag'[p.major] # vtag[p.major]
      <3>1. Len(files) \in 1..Len(files) /\ p \in Pointers
        BY <1>1 DEF TypeOK
      <3>2. p.major \in Majors
        BY <3>1, BoundsAssumption DEF IInv, FilesSound, Pointers, Majors
      <3>3. t.major = p.major /\ vtag'[p.major] = t.current.sha
        BY <1>3, <2>2, <3>2
      <3>4. TipVersion' = Len(files) /\ pr' = pr
        BY <1>2 DEF LineInv
      <3>5. CurrentTagAccounted'
        BY <1>2, <1>4, <1>5, <3>3, <3>4 DEF CurrentTagAccounted, Mergeable, Bootstrap
      <3>6. MajorIsNewest'
        BY <1>1, <1>2 DEF MajorIsNewest, Bootstrap
      <3>7. QED
        BY <3>5, <3>6
    <2>3. QED
      BY <2>1, <2>2
  <1>11. QED
    BY <1>2, <1>8, <1>9, <1>10 DEF TagInv

\* A landing leaves nothing waiting; a run it overtakes agrees with it.
LEMMA LandTag ==
    ASSUME IInv, LineInv, LineInv', TagInv, NEW r \in Runs, Land(r),
           \/ UNCHANGED run
           \/ run[r].phase = "approved" /\ Phase(r, "landed")
    PROVE  TagInv'
  <1> DEFINE L == Len(files)
             t == Target(r)
  <1>1. /\ TypeOK /\ Sole /\ MajorIsNewest /\ \A q \in Runs : RunTag(q)
        /\ Waits(r) /\ vtag' = vtag
        /\ pr' = [pr EXCEPT ![r].state = "merged"]
    BY DEF IInv, TagInv, Land, Waits, Mergeable, LineInv, tags
  <1>2. /\ L \in Nat /\ Len(files') = L + 1 /\ files'[L + 1] = t
        /\ run[r].phase # "unused" /\ t.major \in Majors
    <2>1. t \in Pointers /\ files' = Append(files, t)
      BY LandsOnNewest
    <2>2. QED
      BY <1>1, <2>1, WaitingFacts DEF TypeOK
  <1>3. HistoryKept
    BY <1>1, <1>2, LandType
  <1>4. \A q \in Runs : /\ run'[q].sha = run[q].sha /\ run'[q].kind = run[q].kind
                        /\ \/ run'[q].phase = run[q].phase
                           \/ run'[q].phase = "landed" /\ run[q].phase = "approved"
    BY <1>1, <1>2, PhaseType DEF Executing
  <1>5. PlansKept
    BY <1>1, <1>3, <1>4, PlansAreKept
  <1>6. \A q \in Runs : /\ pr'[q].base = pr[q].base /\ pr[q].base \in Nat
                        /\ pr[q].base <= L
                        /\ pr'[q].state = pr[q].state \/ pr'[q].state = "merged"
    BY <1>1 DEF TypeOK, PullRequest, RunTag
  <1>7. \A q \in Runs : pr'[q].base # L + 1 /\ pr'[q].base <= L + 1
    BY <1>2, <1>6
  <1>8. \A q \in Runs : RunTag(q)'
    <2>1. SUFFICES ASSUME NEW q \in Runs PROVE RunTag(q)'
      OBVIOUS
    <2>2. ~Waits(q)'
      BY <1>2, <1>7 DEF Waits
    <2>3. run'[q].phase \in UnderWay \union {"planned"} => run'[q].phase = run[q].phase
      BY <1>4 DEF UnderWay
    <2>4. ASSUME run'[q].phase \in UnderWay \union {"planned"}
          PROVE  /\ PlanBase(q)' = PlanBase(q) /\ Target(q)' = Target(q)
                 /\ PlanBase(q) \in 1..L
      BY <1>5, <2>3, <2>4, Used DEF PlansKept
    <2>5. ASSUME run'[q].phase \in UnderWay
          PROVE  Agrees(q, files[Len(files)])'
      <3>1. run[q].phase \in UnderWay /\ Target(q)' = Target(q)
        BY <2>3, <2>4, <2>5
      <3>2. Agrees(q, t)
        <4>1. CASE PlanBase(q) = L
          BY <1>1, <3>1, <4>1 DEF RunTag
        <4>2. CASE PlanBase(q) # L
          BY <1>1, <3>1, <4>2 DEF RunTag, Waits
        <4>3. QED
          BY <4>1, <4>2
      <3>3. files'[Len(files')] = t /\ run'[q].kind = run[q].kind
        BY <1>2, <1>4
      <3>4. QED
        BY <3>1, <3>2, <3>3 DEF Agrees
    <2>6. run'[q].phase \in UnderWay \union {"planned"} => PlanBase(q)' # Len(files')
      BY <1>2, <2>4
    <2>7. run'[q].phase \in UnderWay \ {"prepared"} => pr'[q].state # "none"
      BY <1>1, <1>6, <2>3 DEF RunTag
    <2>8. run'[q].phase = "tagged" => vtag'[Target(q)'.major] = Target(q)'.current.sha
      BY <1>1, <2>3, <2>4 DEF RunTag, UnderWay
    <2>9. QED
      BY <1>2, <1>7, <2>2, <2>5, <2>6, <2>7, <2>8 DEF RunTag
  <1>9. Sole'
    BY <1>1, <1>4 DEF Sole, Executing
  <1>10. MajorIsNewest' /\ CurrentTagAccounted'
    <2>1. HighestPointerSemver(t)[1] = t.major
      BY <1>1, MajorOfPlan DEF MajorIsNewest
    <2>2. vtag'[t.major] = t.current.sha
      BY <1>1 DEF RunTag
    <2>3. TipVersion' = L + 1
      BY <1>2 DEF LineInv
    <2> HIDE DEF t
    <2>4. MajorIsNewest'
      BY <1>2, <2>1 DEF MajorIsNewest
    <2>5. CurrentTagAccounted'
      BY <1>2, <2>2, <2>3 DEF CurrentTagAccounted
    <2>6. QED
      BY <2>4, <2>5
  <1>11. QED
    BY <1>8, <1>9, <1>10 DEF TagInv

LEMMA QueueTag ==
    ASSUME IInv, LineInv, LineInv', TagInv, NEW r \in Runs,
           Dispatch(r) \/ Rerun(r) \/ Start(r)
    PROVE  TagInv'
  <1>1. TypeOK /\ Sole /\ UNCHANGED <<repo, tags, published, pr>>
    BY DEF IInv, TagInv, Dispatch, Rerun, Start
  <1>2. HistoryKept /\ UNCHANGED <<files, vtag, pr>>
    BY <1>1, UnchangedHistory DEF repo, tags
  <1>3. CASE Dispatch(r) \/ Rerun(r)
    <2>1. PICK entry : /\ Enqueue(r, entry) /\ entry.phase = "pending"
                       /\ \/ run[r].phase = "unused"
                          \/ entry.sha = run[r].sha /\ entry.kind = run[r].kind
      <3>1. CASE Dispatch(r)
        BY <3>1 DEF Dispatch
      <3>2. CASE Rerun(r)
        <4>1. run[r] \in Run
          BY <1>1 DEF TypeOK
        <4>2. QED
          BY <3>2, <4>1 DEF Rerun, Run
      <3>3. QED
        BY <1>3, <3>1, <3>2
    <2>2. \A q \in Runs :
             \/ run'[q] = run[q]
             \/ run[q].phase = "unused" /\ run'[q].phase = "pending"
             \/ /\ run'[q].sha = run[q].sha /\ run'[q].kind = run[q].kind
                /\ run'[q].phase \in {"pending", "failed"}
      BY <1>1, <2>1 DEF TypeOK, Enqueue, Run
    <2>3. Sole'
      BY <1>1, <2>2 DEF Sole, Executing
    <2>4. QED
      BY <1>2, <2>2, <2>3, QuietTag DEF UnderWay
  <1>4. CASE Start(r)
    <2>1. run[r].phase = "pending" /\ Phase(r, "gate") /\ ~GroupBusy
      BY <1>4 DEF Start
    <2>2. /\ run'[r].phase = "gate" /\ run'[r].sha = run[r].sha /\ run'[r].kind = run[r].kind
          /\ \A q \in Runs \ {r} : run'[q] = run[q]
      BY <1>1, <2>1, PhaseType DEF Executing
    <2>3. Sole'
      BY <1>1, <2>1, <2>2 DEF Sole, GroupBusy
    <2>4. QED
      BY <1>2, <2>2, <2>3, QuietTag DEF UnderWay
  <1>5. QED
    BY <1>3, <1>4

LEMMA EndTag ==
    ASSUME IInv, LineInv, LineInv', TagInv, NEW r \in Runs,
           \/ DryRun(r) \/ PushImmutable(r) \/ MergeAlreadyDone(r) \/ CreateRelease(r)
           \/ FinishRollback(r) \/ Fail(r)
    PROVE  TagInv'
  <1>1. /\ Sole /\ UNCHANGED <<repo, vtag, pr>> /\ run[r].phase \in Executing
        /\ \/ run[r].phase = "opened" /\ Phase(r, "stamped")
           \/ \E ph \in {"landed", "done", "failed"} : Phase(r, ph)
    BY DEF TagInv, DryRun, PlanAccepted, PushImmutable, MergeAlreadyDone, CreateRelease,
           FinishRollback, Fail, tags, Executing
  <1>2. PICK ph \in {"stamped", "landed", "done", "failed"} :
           Phase(r, ph) /\ (ph = "stamped" => run[r].phase = "opened")
    BY <1>1
  <1>3. /\ HistoryKept /\ files' = files /\ Sole'
        /\ run'[r].phase = ph /\ run'[r].sha = run[r].sha /\ run'[r].kind = run[r].kind
        /\ \A q \in Runs \ {r} : run'[q] = run[q]
    BY <1>1, <1>2, SoleStep DEF Executing, Finished
  <1>4. QED
    BY <1>1, <1>2, <1>3, QuietTag DEF UnderWay

THEOREM InitTagInv == Init => TagInv
  <1> SUFFICES ASSUME Init PROVE TagInv
    OBVIOUS
  <1>1. \A r \in Runs : run[r].phase = "unused" /\ pr[r].state = "none" /\ pr[r].base = 0
    BY DEF Init
  <1>2. LineInv /\ TypeOK
    BY InitLine, InitTypeOK
  <1>3. Len(files) \in Nat \ {0}
    BY <1>2 DEF TypeOK
  <1>4. ASSUME NEW r \in Runs PROVE RunTag(r)
    <2>1. /\ pr[r].base <= Len(files) /\ pr[r].state = "none" /\ ~Waits(r)
          /\ run[r].phase \notin UnderWay \union {"planned", "tagged"}
      BY <1>1, <1>3 DEF Waits, UnderWay
    <2>2. QED
      BY <2>1 DEF RunTag
  <1>5. Sole
    BY <1>1 DEF Sole, Executing
  <1>6. \/ files[Len(files)] = BootstrapPointers
        \/ /\ files[Len(files)] = CommittedPointers
           /\ vtag = [m \in Majors |-> IF m = 0 THEN 2 ELSE 0]
    <2>1. CASE files = <<BootstrapPointers>>
      BY <2>1
    <2>2. CASE files = <<BootstrapPointers, CommittedPointers>>
      BY <2>2 DEF Init
    <2>3. QED
      BY <2>1, <2>2 DEF Init
  <1>7. MajorIsNewest /\ CurrentTagAccounted
    <2>1. CASE files[Len(files)] = BootstrapPointers
      BY <1>2, <2>1
         DEF MajorIsNewest, CurrentTagAccounted, Bootstrap, BootstrapPointers, NoRelease, LineInv
    <2>2. CASE /\ files[Len(files)] = CommittedPointers
               /\ vtag = [m \in Majors |-> IF m = 0 THEN 2 ELSE 0]
      <3>1. vtag[0] = 2
        BY <2>2, BoundsAssumption DEF Majors
      <3>2. CurrentTagAccounted
        BY <1>2, <2>2, <3>1 DEF CurrentTagAccounted, CommittedPointers, LineInv
      <3>3. MajorIsNewest
        BY <2>2 DEF MajorIsNewest, CommittedPointers, HighestPointerSemver, Higher, SemverLess
      <3>4. QED
        BY <3>2, <3>3
    <2>3. QED
      BY <1>6, <2>1, <2>2
  <1>8. QED
    BY <1>4, <1>5, <1>7 DEF TagInv

THEOREM NextTagInv == IInv /\ LineInv /\ TagInv /\ [Next]_vars => TagInv'
  <1> SUFFICES ASSUME IInv, LineInv, TagInv, [Next]_vars PROVE TagInv'
    OBVIOUS
  <1>1. LineInv'
    BY StepLine
  <1>2. CASE PushCommit
    <2>1. /\ TypeOK /\ Sole /\ main' = Append(main, TipVersion)
          /\ UNCHANGED <<files, vtag, run, pr>>
      BY <1>2 DEF IInv, TagInv, PushCommit, tags
    <2>2. HistoryKept
      <3>1. main \in Seq(Nat) /\ TipVersion \in Nat
        BY <2>1 DEF TypeOK, TipVersion, Tip
      <3>2. QED
        BY <2>1, <3>1 DEF HistoryKept
    <2>3. Sole'
      BY <2>1 DEF Sole
    <2>4. QED
      BY <1>1, <2>1, <2>2, <2>3, QuietTag
  <1>3. ASSUME NEW r \in Runs,
               \/ Dispatch(r) \/ Rerun(r) \/ Start(r)
               \/ Step(r) \/ DryRun(r) \/ PushMovingInPart(r)
               \/ MergeOutOfBand(r) \/ Fail(r)
        PROVE  TagInv'
    <2>1. CASE Dispatch(r) \/ Rerun(r) \/ Start(r)
      BY <1>1, <2>1, QueueTag
    <2>2. CASE \/ DryRun(r) \/ PushImmutable(r) \/ MergeAlreadyDone(r) \/ CreateRelease(r)
               \/ FinishRollback(r) \/ Fail(r)
      BY <1>1, <2>2, EndTag
    <2>3. CASE Plan(r)
      BY <1>1, <2>3, PlanTag
    <2>4. CASE Prepare(r)
      BY <1>1, <2>4, PrepareTag
    <2>5. CASE OpenPullRequest(r) \/ Approve(r)
      BY <1>1, <2>5, OpenTag
    <2>6. CASE PushMoving(r)
      BY <1>1, <2>6, MovingTag DEF PushMoving
    <2>7. CASE PushMovingInPart(r)
      BY <1>1, <2>7, MovingTag DEF PushMovingInPart
    <2>8. CASE Merge(r) \/ MergeOutOfBand(r)
      BY <1>1, <2>8, LandTag DEF Merge, MergeOutOfBand
    <2>9. QED
      BY <1>3, <2>1, <2>2, <2>3, <2>4, <2>5, <2>6, <2>7, <2>8 DEF Step
  <1>4. CASE UNCHANGED vars
    <2>1. UNCHANGED <<repo, files, vtag, run, pr>> /\ Sole
      BY <1>4 DEF vars, repo, TagInv
    <2>2. HistoryKept /\ Sole'
      BY <2>1, UnchangedHistory DEF Sole
    <2>3. QED
      BY <1>1, <2>1, <2>2, QuietTag
  <1>5. QED
    BY <1>2, <1>3, <1>4 DEF Next

\* The commit production runs is the landed one or that of a release whose
\* pull request waits: a stale run, a retry or a partly failed push of the
\* tags leaves them on no third commit.
THEOREM CurrentTagAlwaysAccounted == Spec => []CurrentTagAccounted
  <1>1. Init => IInv /\ LineInv /\ TagInv
    BY InitIInv, InitLine, InitTagInv
  <1>2. IInv /\ LineInv /\ TagInv /\ [Next]_vars => (IInv /\ LineInv /\ TagInv)'
    BY NextIInv, StepLine, NextTagInv
  <1>3. TagInv => CurrentTagAccounted
    BY DEF TagInv
  <1>4. QED
    BY <1>1, <1>2, <1>3, PTL DEF Spec

\* Only the plan step takes a run from its gate to a plan.
LEMMA PlansByPlan ==
    ASSUME IInv, Next, NEW r \in Runs, run[r].phase = "gate", run'[r].phase = "planned"
    PROVE  Plan(r)
  <1>1. run \in [Runs -> Run]
    BY DEF IInv, TypeOK
  <1>2. ASSUME NEW s \in Runs, NEW ph, Phase(s, ph)
        PROVE  s = r /\ ph = "planned"
    <2>1. run'[r] = IF s = r THEN [run[r] EXCEPT !.phase = ph] ELSE run[r]
      BY <1>1, <1>2 DEF Phase
    <2>2. run[r] \in Run
      BY <1>1
    <2>3. QED
      BY <2>1, <2>2 DEF Run
  <1>3. ASSUME NEW s \in Runs, NEW entry, Enqueue(s, entry), entry.phase = "pending"
        PROVE  FALSE
    BY <1>1, <1>3 DEF Enqueue
  <1>4. ~PushCommit
    BY DEF PushCommit
  <1>5. ASSUME NEW s \in Runs, Dispatch(s) \/ Rerun(s)
        PROVE  FALSE
    <2>1. \A kind : [phase |-> "pending", kind |-> kind, sha |-> Tip].phase = "pending"
      OBVIOUS
    <2>2. run[s] \in Run
      BY <1>1
    <2>3. [run[s] EXCEPT !.phase = "pending"].phase = "pending"
      BY <2>2 DEF Run
    <2>4. QED
      BY <1>3, <1>5, <2>1, <2>3 DEF Dispatch, Rerun
  <1>6. ASSUME NEW s \in Runs,
               \/ Start(s) \/ Step(s) \/ DryRun(s) \/ PushMovingInPart(s)
               \/ MergeOutOfBand(s) \/ Fail(s)
        PROVE  Plan(r)
    <2>1. ~MergeOutOfBand(s)
      BY DEF MergeOutOfBand
    <2>2. CASE Plan(s)
      <3>1. Phase(s, "planned")
        BY <2>2 DEF Plan
      <3>2. s = r
        BY <1>2, <3>1
      <3>3. QED
        BY <2>2, <3>2
    <2>3. ASSUME ~Plan(s)
          PROVE  FALSE
      <3>1. \E ph \in {"gate", "prepared", "opened", "stamped", "tagged", "approved",
                       "landed", "done", "failed"} : Phase(s, ph)
        BY <1>6, <2>1, <2>3
           DEF Start, Step, DryRun, PushMovingInPart, Fail, Prepare, OpenPullRequest,
               PushImmutable, PushMoving, Approve, Merge, MergeAlreadyDone,
               CreateRelease, FinishRollback
      <3>2. QED
        BY <1>2, <3>1
    <2>4. QED
      BY <2>2, <2>3
  <1>7. QED
    BY <1>4, <1>5, <1>6 DEF Next

\* While a failed run's release waits to merge, only its commit is planned on
\* top of the same file.
THEOREM LaterReleaseAlwaysWaits == Spec => LaterReleaseWaits
  <1> DEFINE Waited ==
        \A q, r \in Runs :
           /\ run[q].phase = "failed" /\ pr[q].state = "approved" /\ Mergeable(q)
           /\ Target(q).major = files[TipVersion].major
           /\ run[r].phase = "gate" /\ run'[r].phase = "planned"
           /\ PlanBase(r) = TipVersion
           => Target(r).current.sha = Target(q).current.sha
  <1>1. Init => IInv /\ LineInv /\ TagInv
    BY InitIInv, InitLine, InitTagInv
  <1>2. IInv /\ LineInv /\ TagInv /\ [Next]_vars => (IInv /\ LineInv /\ TagInv)'
    BY NextIInv, StepLine, NextTagInv
  <1>3. IInv /\ LineInv /\ TagInv /\ [Next]_vars => [Waited]_vars
    <2>1. SUFFICES ASSUME IInv, LineInv, TagInv, Next, NEW q \in Runs, NEW r \in Runs,
                          pr[q].state = "approved", Mergeable(q),
                          Target(q).major = files[TipVersion].major,
                          run[r].phase = "gate", run'[r].phase = "planned",
                          PlanBase(r) = TipVersion
                   PROVE  Target(r).current.sha = Target(q).current.sha
      OBVIOUS
    <2> DEFINE p == files[Len(files)]
               t == Target(r)
               u == Target(q)
    <2>2. /\ Waits(q) /\ u.major = p.major /\ PlanBase(r) = Len(files) /\ Plan(r)
      BY <2>1, PlansByPlan DEF LineInv, Mergeable, Waits
    <2>3. /\ p.current.sha # 0 => vtag[p.major] \in {p.current.sha, t.current.sha}
          /\ run[r].kind # "rollback" => SemverFree(t.current)
          /\ run[r].kind = "rollback" => RollbackPlannable(p)
          /\ run[r].phase # "unused" /\ TypeOK
      BY <2>1, <2>2 DEF Plan, PlanAccepted, RemoteCurrentAllows, IInv
    <2>4. /\ run[q].kind \in Kinds /\ u = Planned(p, run[q].kind, run[q].sha)
          /\ run[q].kind = "rollback" => RollbackPlannable(p)
          /\ run[q].sha \in 1..Len(main) /\ main[run[q].sha] = Len(files)
          /\ u.current \in immutable
      BY <2>1, <2>2, WaitingFacts
    <2>5. vtag[p.major] = u.current.sha
      BY <2>1, <2>2 DEF TagInv, RunTag
    <2>6. /\ run[r].kind \in Kinds /\ p \in Pointers /\ t = Planned(p, run[r].kind, run[r].sha)
      BY <2>2, <2>3, PlanFacts DEF Target
    <2>7. CASE Bootstrap(p)
      <3>1. run[r].kind # "rollback" /\ run[q].kind # "rollback"
        BY <2>3, <2>4, <2>7 DEF Bootstrap, RollbackPlannable
      <3>2. t.current.semver = u.current.semver
        BY <2>4, <2>6, <2>7, <3>1 DEF Planned, PromotePointers, PromoteSemver
      <3>3. QED
        BY <2>3, <2>4, <3>1, <3>2 DEF SemverFree
    <2>8. CASE ~Bootstrap(p)
      <3>1. u.current.sha # p.current.sha
        BY <2>1, <2>4, <2>8, PlansAnother
      <3>2. QED
        BY <2>3, <2>5, <2>8, <3>1 DEF Bootstrap
    <2>9. QED
      BY <2>7, <2>8
  <1>4. QED
    BY <1>1, <1>2, <1>3, PTL DEF Spec, LaterReleaseWaits

-----------------------------------------------------------------------------
(* Retrying a release that waits *)

\* The pull request of the run is approved and would merge.
ReadyToLand(r) == pr[r].state = "approved" /\ Mergeable(r)

\* Until a release lands, its moving tag already serves its commit, whichever
\* runs planned, published or failed in the meantime, also for a new major.
WaitingReleaseServed ==
    \A r \in Runs : ReadyToLand(r) =>
       /\ vtag[Target(r).major] = Target(r).current.sha
       /\ Target(r).current \in immutable

\* "If the pointers merge fails after tags moved: re-run the same promote or
\* rollback" (docs/operations/release-model.md:128): no check refuses a run
\* whose own release waits.  The tags it left on origin count as in flight and
\* not as a conflict, and main still has the pointers it planned from.
RetryAccepted ==
    \A r \in Runs : ReadyToLand(r) =>
       /\ run[r].phase = "gate" /\ Target(r).major = files[TipVersion].major =>
             PlanAccepted(r)
       /\ SemverFree(Target(r).current)
       /\ PointersBaseMatchesTip(r)

LEMMA RetryIsAccepted ==
    ASSUME IInv, LineInv, TagInv
    PROVE  WaitingReleaseServed /\ RetryAccepted
  <1> SUFFICES ASSUME NEW r \in Runs, ReadyToLand(r)
               PROVE  /\ vtag[Target(r).major] = Target(r).current.sha
                      /\ Target(r).current \in immutable
                      /\ run[r].phase = "gate" /\ Target(r).major = files[TipVersion].major =>
                            PlanAccepted(r)
                      /\ SemverFree(Target(r).current)
                      /\ PointersBaseMatchesTip(r)
    BY DEF WaitingReleaseServed, RetryAccepted
  <1>1. Waits(r) /\ TipVersion = Len(files)
    BY DEF ReadyToLand, Mergeable, LineInv, Waits
  <1>2. /\ PlanBase(r) = Len(files) /\ Target(r).current \in immutable
        /\ run[r].kind = "rollback" => RollbackPlannable(files[Len(files)])
        /\ run[r].sha \in 1..Len(main)
    BY <1>1, WaitingFacts
  <1>3. vtag[Target(r).major] = Target(r).current.sha
    BY <1>1 DEF TagInv, RunTag
  <1>4. SemverFree(Target(r).current)
    BY <1>2, OneRelease DEF SemverFree
  <1>5. Target(r).major <= MaxMajor
    BY DEF IInv, RunInv, PlanChecked, ReadyToLand
  <1>6. ASSUME run[r].phase = "gate", Target(r).major = files[TipVersion].major
        PROVE  PlanAccepted(r)
    <2>1. RemoteCurrentAllows(files[PlanBase(r)], Target(r).current.sha)
      BY <1>1, <1>2, <1>3, <1>6 DEF RemoteCurrentAllows
    <2>2. run[r].sha <= Tip
      BY <1>2 DEF Tip
    <2>3. QED
      BY <1>2, <1>5, <1>6, <2>1, <2>2 DEF PlanAccepted
  <1>7. PointersBaseMatchesTip(r)
    BY <1>1, <1>2 DEF PointersBaseMatchesTip
  <1>8. QED
    BY <1>2, <1>3, <1>4, <1>6, <1>7

LEMMA TrainInvariance == Spec => [](IInv /\ LineInv /\ TagInv)
  <1>1. Init => IInv /\ LineInv /\ TagInv
    BY InitIInv, InitLine, InitTagInv
  <1>2. IInv /\ LineInv /\ TagInv /\ [Next]_vars => (IInv /\ LineInv /\ TagInv)'
    BY NextIInv, StepLine, NextTagInv
  <1>3. QED
    BY <1>1, <1>2, PTL DEF Spec

\* What consumers of a moving tag run does not change when a waiting release
\* is retried, overtaken or landed.
THEOREM WaitingReleaseAlwaysServed == Spec => []WaitingReleaseServed
  <1>1. IInv /\ LineInv /\ TagInv => WaitingReleaseServed
    BY RetryIsAccepted
  <1>2. QED
    BY <1>1, TrainInvariance, PTL

\* The recovery the release model relies on is always open:
\* require_remote_current_allows_in_flight, create_immutable_semver_tag and the
\* comparison of the plan's pointers with those of main let a waiting release
\* be retried, however often and however far the last attempt came.
THEOREM RetryAlwaysAccepted == Spec => []RetryAccepted
  <1>1. IInv /\ LineInv /\ TagInv => RetryAccepted
    BY RetryIsAccepted
  <1>2. QED
    BY <1>1, TrainInvariance, PTL
=============================================================================
