------------------------- MODULE DistributionProofs -------------------------
(***************************************************************************)
(* Proofs about Distribution, for any repositories, orgs, paths and        *)
(* states of the repository, any number of pushes and re-runs.             *)
(***************************************************************************)
EXTENDS Distribution, SequenceTheorems, TLAPS

\* Every run is of commits of main.
OfMain(run) == run.head \in 1 .. Tip /\ run.base \in 0 .. Tip

\* Unless somebody re-ran one, the run that waits is of the tip; so it starts
\* after no newer one, and one at a time.
Ordered ==
    reruns = 0 =>
        /\ waiting # NoRun => waiting.head = Tip
        /\ \A run \in active : \A d \in Distributed : d.head <= run.head

IInv ==
    /\ TypeOK
    /\ waiting # NoRun => OfMain(waiting)
    /\ \A run \in finished : OfMain(run)
    /\ \A a, b \in active : a = b
    /\ Ordered

LEMMA TipType == ASSUME IInv PROVE Tip \in Nat \ {0}
<1>1. main \in Seq(Configs) /\ main # << >>
  BY DEF IInv, TypeOK
<1> QED
  BY <1>1, EmptySeq, LenProperties DEF Tip

LEMMA CommitType ==
    ASSUME IInv, NEW v \in 1 .. Tip
    PROVE  main[v] \in Config
BY DistributionAssumption DEF DistributionAssumption, IInv, TypeOK, Tip

LEMMA NoRunType == NoRun \in Run /\ NoRun.head = 0
BY DEF NoRun, Run

LEMMA Initially == Init => IInv
<1> SUFFICES ASSUME Init PROVE IInv
  OBVIOUS
<1>1. PICK c \in Configs : main = <<c>>
  BY DEF Init
<1>2. main \in Seq(Configs) /\ main # << >>
  BY <1>1
<1>3. NoFiles \in Tree /\ NoPr \in PullRequest
  BY DEF NoFiles, NoPr, Tree, PullRequest
<1>4. TypeOK
  BY <1>2, <1>3, NoRunType, DistributionAssumption DEF Init, TypeOK, DistributionAssumption
<1> QED
  BY <1>4 DEF Init, IInv, Ordered

-----------------------------------------------------------------------------
(* The concurrency group *)

\* What a run of commits of main leaves in the queue.
LEMMA EnqueueFacts ==
    ASSUME IInv, NEW base \in Nat, NEW head \in Nat \ {0}, Enqueue(base, head)
    PROVE  /\ waiting' \in Run /\ waiting'.base = base /\ waiting'.head = head
           /\ waiting' # NoRun
           /\ active' = active /\ finished \subseteq finished' /\ finished' \subseteq Run
           /\ \A run \in finished' \ finished :
                /\ run.phase = "cancelled" /\ waiting # NoRun
                /\ run.head = waiting.head /\ run.base = waiting.base
<1>1. waiting \in Run /\ finished \subseteq Run
  BY DEF IInv, TypeOK
<1>2. /\ waiting' \in Run /\ waiting'.base = base /\ waiting'.head = head
  BY NoRunType DEF Enqueue, Run, NoRun
<1>3. waiting' # NoRun
  BY <1>2, NoRunType
<1> DEFINE w == [waiting EXCEPT !.phase = "cancelled"]
<1>4. w \in Run /\ w.phase = "cancelled" /\ w.head = waiting.head /\ w.base = waiting.base
  BY <1>1 DEF Run
<1>5. finished' = IF waiting = NoRun THEN finished ELSE finished \union {w}
  BY DEF Enqueue
<1> HIDE DEF w
<1> QED
  BY <1>1, <1>2, <1>3, <1>4, <1>5 DEF Enqueue

LEMMA PushStep == ASSUME IInv, NEW c \in Configs, Push(c) PROVE IInv'
<1>1. /\ main' = Append(main, c) /\ Enqueue(Tip, Tip + 1)
      /\ UNCHANGED <<reruns, target, sync, removal>>
  BY DEF Push, consumers
<1>2. main \in Seq(Configs) /\ Tip \in Nat \ {0}
  BY TipType DEF IInv, TypeOK
<1>3. main' \in Seq(Configs) /\ main' # << >> /\ Tip' = Tip + 1
  BY <1>1, <1>2, AppendProperties DEF Tip
<1>4. /\ waiting' \in Run /\ waiting'.base = Tip /\ waiting'.head = Tip + 1
      /\ active' = active /\ finished' \subseteq Run
      /\ \A run \in finished' \ finished :
           /\ run.phase = "cancelled" /\ waiting # NoRun
           /\ run.head = waiting.head /\ run.base = waiting.base
  BY <1>1, <1>2, EnqueueFacts
<1>5. \A run \in finished' \union active' : OfMain(run)'
  BY <1>2, <1>3, <1>4 DEF IInv, TypeOK, OfMain
<1>6. TypeOK'
  BY <1>1, <1>3, <1>4, <1>5 DEF IInv, TypeOK, OfMain
<1>7. Distributed' \subseteq Distributed
  BY <1>4 DEF Distributed
<1> QED
  BY <1>1, <1>2, <1>3, <1>4, <1>5, <1>6, <1>7 DEF IInv, OfMain, Ordered

LEMMA ForceStep == ASSUME IInv, ForceDistribution PROVE IInv'
<1>1. /\ Enqueue(0, Tip) /\ UNCHANGED <<main, reruns, target, sync, removal>>
  BY DEF ForceDistribution, consumers
<1>2. Tip \in Nat \ {0} /\ Tip' = Tip
  BY <1>1, TipType DEF Tip
<1>3. /\ waiting' \in Run /\ waiting'.base = 0 /\ waiting'.head = Tip
      /\ active' = active /\ finished' \subseteq Run
      /\ \A run \in finished' \ finished :
           /\ run.phase = "cancelled" /\ waiting # NoRun
           /\ run.head = waiting.head /\ run.base = waiting.base
  BY <1>1, <1>2, EnqueueFacts
<1>4. \A run \in finished' : OfMain(run)'
  BY <1>2, <1>3 DEF IInv, OfMain
<1>5. TypeOK'
  BY <1>1, <1>2, <1>3 DEF IInv, TypeOK
<1>6. Distributed' \subseteq Distributed
  BY <1>3 DEF Distributed
<1> QED
  BY <1>1, <1>2, <1>3, <1>4, <1>5, <1>6 DEF IInv, OfMain, Ordered

LEMMA RerunStep == ASSUME IInv, NEW old \in finished, Rerun(old) PROVE IInv'
<1>1. /\ Enqueue(old.base, old.head) /\ reruns < MaxReruns /\ reruns' = reruns + 1
      /\ UNCHANGED <<main, target, sync, removal>>
  BY DEF Rerun, consumers
<1>2. /\ old.head \in 1 .. Tip /\ old.base \in 0 .. Tip /\ Tip \in Nat \ {0}
      /\ Tip' = Tip /\ reruns \in Nat /\ MaxReruns \in Nat
  BY <1>1, TipType, DistributionAssumption
     DEF IInv, OfMain, Tip, TypeOK, DistributionAssumption
<1>3. /\ waiting' \in Run /\ waiting'.base = old.base /\ waiting'.head = old.head
      /\ active' = active /\ finished' \subseteq Run
      /\ \A run \in finished' \ finished :
           /\ run.phase = "cancelled" /\ waiting # NoRun
           /\ run.head = waiting.head /\ run.base = waiting.base
  BY <1>1, <1>2, EnqueueFacts
<1>4. \A run \in finished' : OfMain(run)'
  BY <1>2, <1>3 DEF IInv, OfMain
<1>5. TypeOK'
  BY <1>1, <1>2, <1>3 DEF IInv, TypeOK
<1> QED
  BY <1>1, <1>2, <1>3, <1>4, <1>5 DEF IInv, OfMain, Ordered

LEMMA StartStep == ASSUME IInv, Start PROVE IInv'
<1> DEFINE w == [waiting EXCEPT !.phase = "preparing"]
<1>1. /\ waiting # NoRun /\ active = {} /\ active' = {w} /\ waiting' = NoRun
      /\ UNCHANGED <<main, finished, reruns, target, sync, removal>>
  BY DEF Start, consumers
<1>2. w \in Run /\ w.head = waiting.head /\ w.base = waiting.base
  BY DEF IInv, TypeOK, Run
<1> HIDE DEF w
<1>3. Tip' = Tip /\ Tip \in Nat
  BY <1>1, TipType DEF Tip
<1>4. TypeOK'
  BY <1>1, <1>2, <1>3, NoRunType DEF IInv, TypeOK, OfMain
<1>5. Ordered'
  BY <1>1, <1>2, <1>3 DEF IInv, Ordered, Distributed, OfMain
<1> QED
  BY <1>1, <1>3, <1>4, <1>5 DEF IInv, OfMain

-----------------------------------------------------------------------------
(* A run *)

LEMMA BecomesStep ==
    ASSUME IInv, NEW run \in active, NEW new \in Run, Becomes(run, new),
           new.head = run.head, new.base = run.base,
           target' \in [Repos -> Tree], sync' \in [Repos -> PullRequest],
           removal' \in [Repos -> PullRequest]
    PROVE  IInv'
<1>1. /\ active' = {new} /\ UNCHANGED <<main, waiting, finished, reruns>>
  BY DEF Becomes, IInv
<1>2. Tip' = Tip
  BY <1>1 DEF Tip
<1>3. TypeOK'
  BY <1>1, <1>2 DEF IInv, TypeOK
<1>4. Ordered'
  BY <1>1, <1>2 DEF IInv, Ordered, Distributed
<1> QED
  BY <1>1, <1>2, <1>3, <1>4 DEF IInv, OfMain

LEMMA EndStep == ASSUME IInv, NEW run \in active, End(run) PROVE IInv'
<1> DEFINE e == [run EXCEPT !.phase = "ended", !.legs = {}]
<1>1. /\ active' = {} /\ finished' = finished \union {e}
      /\ UNCHANGED <<main, waiting, reruns, target, sync, removal>>
  BY DEF End, IInv, consumers
<1>2. e \in Run /\ e.head = run.head /\ e.base = run.base
  BY DEF IInv, TypeOK, Run
<1> HIDE DEF e
<1>3. Tip' = Tip
  BY <1>1 DEF Tip
<1>4. TypeOK'
  BY <1>1, <1>2, <1>3 DEF IInv, TypeOK
<1> QED
  BY <1>1, <1>2, <1>3, <1>4 DEF IInv, TypeOK, OfMain, Ordered

LEMMA TreeType ==
    ASSUME IInv, NEW run \in active, NEW r \in Repos
    PROVE  Installed(run, r) \in Tree /\ Cleared(run, r) \in Tree
<1>1. target[r] \in Tree /\ main[run.head] \in Config
  BY CommitType DEF IInv, TypeOK
<1>2. main[run.head].pin[r] \in Pins
  BY <1>1 DEF Config
<1> QED
  BY <1>1, <1>2 DEF Installed, Cleared, Tree

LEMMA PullRequestType ==
    ASSUME IInv, NEW run \in active, NEW r \in Repos, NEW tree \in Tree
    PROVE  PullRequestFor(run, r, tree) \in PullRequest
BY DEF PullRequestFor, PullRequest, NoPr, NoFiles, Tree, IInv, TypeOK, Run

LEMMA RunSteps ==
    ASSUME IInv, NEW run \in active,
           \/ Prepare(run) \/ Refuse(run) \/ Finish(run) \/ Fail(run)
           \/ \E r \in Repos : Install(run, r) \/ Remove(run, r) \/ FailLeg(run, r)
    PROVE  IInv'
<1>0. /\ run \in Run /\ target \in [Repos -> Tree] /\ sync \in [Repos -> PullRequest]
      /\ removal \in [Repos -> PullRequest]
  BY DEF IInv, TypeOK
<1>1. CASE Prepare(run)
  <2> DEFINE new == [run EXCEPT !.phase = "prs",
                                !.legs = Admitted(run.head) \union Admitted(run.base)]
  <2>1. Admitted(run.head) \union Admitted(run.base) \subseteq Repos
    BY DEF Admitted
  <2>2. new \in Run /\ new.head = run.head /\ new.base = run.base
    BY <1>0, <2>1 DEF Run
  <2> QED
    BY <1>0, <1>1, <2>2, BecomesStep DEF Prepare, consumers
<1>2. CASE Refuse(run) \/ Finish(run) \/ Fail(run)
  BY <1>2, EndStep DEF Refuse, Finish, Fail
<1>3. ASSUME NEW r \in Repos, Install(run, r) \/ Remove(run, r) \/ FailLeg(run, r)
      PROVE  IInv'
  <2> DEFINE new == [run EXCEPT !.legs = run.legs \ {r}]
  <2>1. new \in Run /\ new.head = run.head /\ new.base = run.base
    BY <1>0 DEF Run
  <2>2. /\ PullRequestFor(run, r, Installed(run, r)) \in PullRequest
        /\ PullRequestFor(run, r, Cleared(run, r)) \in PullRequest
    BY TreeType, PullRequestType
  <2>3. /\ Becomes(run, new) /\ target' \in [Repos -> Tree]
        /\ sync' \in [Repos -> PullRequest] /\ removal' \in [Repos -> PullRequest]
    BY <1>0, <1>3, <2>2 DEF Install, Remove, FailLeg, LegEnds, consumers
  <2> HIDE DEF new
  <2> QED
    BY <2>1, <2>3, BecomesStep
<1> QED
  BY <1>1, <1>2, <1>3

-----------------------------------------------------------------------------
(* The consumers *)

LEMMA MergeSteps ==
    ASSUME IInv, NEW r \in Repos, MergeSync(r) \/ MergeRemoval(r)
    PROVE  IInv'
<1>1. /\ sync[r] \in PullRequest /\ removal[r] \in PullRequest /\ target[r] \in Tree
      /\ target \in [Repos -> Tree] /\ sync \in [Repos -> PullRequest]
      /\ removal \in [Repos -> PullRequest]
  BY DEF IInv, TypeOK
<1>2. Merged(sync[r], r) \in Tree /\ Merged(removal[r], r) \in Tree
  BY <1>1 DEF Merged, PullRequest, Tree
<1>3. NoPr \in PullRequest
  BY DEF NoPr, PullRequest, NoFiles, Tree
<1>4. /\ target' \in [Repos -> Tree] /\ sync' \in [Repos -> PullRequest]
      /\ removal' \in [Repos -> PullRequest]
      /\ UNCHANGED <<main, waiting, active, finished, reruns>>
  BY <1>1, <1>2, <1>3 DEF MergeSync, MergeRemoval, runs
<1>5. Tip' = Tip
  BY <1>4 DEF Tip
<1>6. TypeOK'
  BY <1>4, <1>5 DEF IInv, TypeOK
<1> QED
  BY <1>4, <1>5, <1>6 DEF IInv, OfMain, Ordered, Distributed

LEMMA Inductive == ASSUME IInv, [Next]_vars PROVE IInv'
<1>1. CASE \E c \in Configs : Push(c)
  BY <1>1, PushStep
<1>2. CASE ForceDistribution
  BY <1>2, ForceStep
<1>3. CASE Start
  BY <1>3, StartStep
<1>4. CASE \E run \in finished : Rerun(run)
  BY <1>4, RerunStep
<1>5. CASE \E run \in active :
             \/ Prepare(run) \/ Refuse(run) \/ Finish(run) \/ Fail(run)
             \/ \E r \in Repos : Install(run, r) \/ Remove(run, r) \/ FailLeg(run, r)
  BY <1>5, RunSteps
<1>6. CASE \E r \in Repos : MergeSync(r) \/ MergeRemoval(r)
  BY <1>6, MergeSteps
<1>7. CASE UNCHANGED vars
  BY <1>7 DEF vars, IInv, TypeOK, Tip, OfMain, Ordered, Distributed
<1> QED
  BY <1>1, <1>2, <1>3, <1>4, <1>5, <1>6, <1>7 DEF Next

-----------------------------------------------------------------------------
(* Theorems *)

\* IInv holds in every state; the theorems below follow from it.
THEOREM DistributionInvariance == Spec => []IInv
BY Initially, Inductive, PTL DEF Spec

\* Runs are of commits of main and the files of a repository carry pins, in
\* every behaviour.
THEOREM DistributionTypeCorrect == Spec => []TypeOK
<1>1. IInv => TypeOK
  BY DEF IInv
<1> QED
  BY <1>1, DistributionInvariance, PTL

\* The concurrency group of distribute-client-workflow.yml keeps distributions
\* in the order of their commits: no pull request of an older commit replaces a
\* newer one unless somebody re-ran a run.
THEOREM DistributionNeverOlder == Spec => NeverOlder
<1>1. ASSUME IInv, [Next]_vars
      PROVE  [\A r \in Repos : sync'[r] # sync[r] /\ sync'[r] # NoPr =>
                \/ reruns > 0
                \/ \A run \in Distributed : run.head <= sync'[r].head]_vars
  <2> SUFFICES ASSUME Next, NEW r \in Repos, sync'[r] # sync[r], sync'[r] # NoPr,
                      ~(reruns > 0)
               PROVE  \A d \in Distributed : d.head <= sync'[r].head
    BY <1>1
  <2>0. sync \in [Repos -> PullRequest] /\ reruns = 0
    BY <1>1, DistributionAssumption DEF IInv, TypeOK, DistributionAssumption
  <2>1. CASE \E run \in active : Install(run, r)
    <3>1. PICK run \in active : Install(run, r)
      BY <2>1
    <3>2. sync'[r] = PullRequestFor(run, r, Installed(run, r))
      BY <2>0, <3>1 DEF Install
    <3>3. sync'[r].head = run.head
      BY <3>2 DEF PullRequestFor
    <3> QED
      BY <1>1, <2>0, <3>3 DEF IInv, Ordered
  <2>2. CASE \E run \in active, q \in Repos : q # r /\ Install(run, q)
    BY <2>0, <2>2 DEF Install
  <2>3. CASE \E q \in Repos : MergeSync(q)
    BY <2>0, <2>3 DEF MergeSync
  <2>4. CASE sync' = sync
    BY <2>4
  <2> QED
    BY <2>1, <2>2, <2>3, <2>4
       DEF Next, Push, ForceDistribution, Start, Rerun, Prepare, Refuse, Finish, Fail,
           End, Remove, FailLeg, MergeRemoval, consumers
<1> QED
  BY <1>1, DistributionInvariance, PTL DEF Spec, NeverOlder

-----------------------------------------------------------------------------
(* What the files of a consumer come from *)

\* A commit whose distribution may install files in r.
Serves(v, r) ==
    v \in 1 .. Tip /\ r \in Admitted(v) /\ ~Conflict(v) /\ Renderable(v, r)

\* Commit v brings file p to r, with this content.
Brings(v, p, r, pin) ==
    Serves(v, r) /\ p \in GatedFiles(v, r) /\ pin = main[v].pin[r]

Accounted(tree, r) ==
    \A p \in Paths : tree[p] # Absent => \E v \in 1 .. Tip : Brings(v, p, r, tree[p])

\* Every client file a consumer has or is offered was brought by a commit of
\* main that admitted the repository, without a conflict between its orgs, and
\* carries the pin of that commit.
EveryFileAccounted ==
    \A r \in Repos :
       Accounted(target[r], r) /\ Accounted(sync[r].to, r) /\ Accounted(removal[r].to, r)

\* The pull request brings what its commit says: all the files of the
\* repository, and no trigger when the commit gates it.
Installs(pr, r) ==
    /\ Serves(pr.head, r)
    /\ \A p \in GatedFiles(pr.head, r) : pr.to[p] = main[pr.head].pin[r]
    /\ r \notin main[pr.head].detective => pr.to[Trigger] = Absent

\* The pull request is of a commit that does not list the repository.
Leaves(pr, r) == pr.head \in 1 .. Tip /\ r \notin Admitted(pr.head)

\* An open pull request says what its commit says until it is merged or
\* replaced, however many commits are pushed meanwhile.
OfferedAsCommitted ==
    \A r \in Repos :
       /\ sync[r] # NoPr => Installs(sync[r], r)
       /\ removal[r] # NoPr => Leaves(removal[r], r)

\* The legs of a run are of commits without a conflict.
LegsPrepared ==
    /\ waiting.legs = {}
    /\ \A run \in active : run.legs # {} =>
          /\ ~Conflict(run.head)
          /\ run.legs \subseteq Admitted(run.head) \union Admitted(run.base)

FilesInv == EveryFileAccounted /\ OfferedAsCommitted /\ LegsPrepared

\* Main only grows.
LEMMA HistoryKept ==
    ASSUME IInv, [Next]_vars
    PROVE  Tip <= Tip' /\ Tip' \in Nat /\ \A v \in 1 .. Tip : main'[v] = main[v]
<1>0. main \in Seq(Configs) /\ Tip \in Nat \ {0}
  BY TipType DEF IInv, TypeOK
<1>1. CASE \E c \in Configs : Push(c)
  <2>1. PICK c \in Configs : main' = Append(main, c)
    BY <1>1 DEF Push
  <2> QED
    BY <1>0, <2>1, AppendProperties DEF Tip
<1>2. CASE main' = main
  BY <1>0, <1>2 DEF Tip
<1> QED
  BY <1>1, <1>2
     DEF Next, ForceDistribution, Start, Rerun, Prepare, Refuse, Finish, Fail, End,
         Install, Remove, FailLeg, LegEnds, Becomes, MergeSync, MergeRemoval, vars

LEMMA CommitKept ==
    ASSUME IInv, [Next]_vars, NEW v \in 0 .. Tip
    PROVE  /\ v # 0 => v \in 1 .. Tip' /\ main'[v] = main[v]
           /\ Admitted(v)' = Admitted(v)
           /\ Conflict(v)' <=> Conflict(v)
           /\ \A r \in Repos :
                /\ GatedFiles(v, r)' = GatedFiles(v, r) \/ v = 0
                /\ Serves(v, r) => Serves(v, r)'
<1>1. Tip \in Nat /\ Tip' \in Nat /\ Tip <= Tip'
  BY TipType, HistoryKept
<1>2. v # 0 => v \in 1 .. Tip' /\ main'[v] = main[v]
  BY <1>1, HistoryKept
<1>3. Admitted(v)' = Admitted(v)
  BY <1>2 DEF Admitted
<1>4. Conflict(v)' <=> Conflict(v)
  BY <1>2, <1>3 DEF Conflict, Admitted
<1>5. ASSUME NEW r \in Repos, v # 0
      PROVE  GatedFiles(v, r)' = GatedFiles(v, r) /\ (Renderable(v, r)' <=> Renderable(v, r))
  BY <1>2, <1>5 DEF GatedFiles, TemplateFiles, Renderable
<1>6. ASSUME NEW r \in Repos PROVE Serves(v, r) => Serves(v, r)'
  BY <1>2, <1>3, <1>4, <1>5 DEF Serves
<1> QED
  BY <1>2, <1>3, <1>4, <1>5, <1>6

\* What later commits do not change.
LEMMA PromisesKept ==
    ASSUME IInv, [Next]_vars, NEW r \in Repos
    PROVE  /\ \A tree : Accounted(tree, r) => Accounted(tree, r)'
           /\ \A pr : Installs(pr, r) => Installs(pr, r)'
           /\ \A pr : Leaves(pr, r) => Leaves(pr, r)'
<1>0. Tip \in Nat /\ Tip' \in Nat /\ Tip <= Tip'
  BY TipType, HistoryKept
<1>1. ASSUME NEW v \in 1 .. Tip
      PROVE  /\ v \in 1 .. Tip' /\ main'[v] = main[v] /\ Admitted(v)' = Admitted(v)
             /\ GatedFiles(v, r)' = GatedFiles(v, r) /\ (Serves(v, r) => Serves(v, r)')
  BY <1>0, CommitKept
<1>2. ASSUME NEW tree, Accounted(tree, r) PROVE Accounted(tree, r)'
  BY <1>1, <1>2 DEF Accounted, Brings
<1>3. ASSUME NEW pr, Installs(pr, r) PROVE Installs(pr, r)'
  BY <1>1, <1>3 DEF Installs, Serves
<1>4. ASSUME NEW pr, Leaves(pr, r) PROVE Leaves(pr, r)'
  BY <1>1, <1>4 DEF Leaves
<1> QED
  BY <1>2, <1>3, <1>4

\* It is enough that the files after a step are accounted for by the commits
\* before it.
LEMMA FilesStep ==
    ASSUME IInv, [Next]_vars,
           \A r \in Repos :
              /\ Accounted(target'[r], r) /\ Accounted(sync'[r].to, r)
              /\ Accounted(removal'[r].to, r)
              /\ sync'[r] # NoPr => Installs(sync'[r], r)
              /\ removal'[r] # NoPr => Leaves(removal'[r], r)
    PROVE  EveryFileAccounted' /\ OfferedAsCommitted'
<1>1. ASSUME NEW r \in Repos
      PROVE  /\ Accounted(target[r], r)' /\ Accounted(sync[r].to, r)'
             /\ Accounted(removal[r].to, r)'
  BY PromisesKept, <1>1 DEF Accounted, Brings
<1>2. ASSUME NEW r \in Repos
      PROVE  /\ sync'[r] # NoPr => Installs(sync[r], r)'
             /\ removal'[r] # NoPr => Leaves(removal[r], r)'
  BY PromisesKept, <1>2
<1> QED
  BY <1>1, <1>2 DEF EveryFileAccounted, OfferedAsCommitted, NoPr

LEMMA NoFilesAccounted ==
    ASSUME NEW r \in Repos PROVE Accounted(NoFiles, r) /\ NoPr.to = NoFiles
BY DEF Accounted, NoFiles, NoPr

\* A pull request with these files for the commit of the run.
LEMMA PullRequestIs ==
    ASSUME NEW run \in active, NEW r \in Repos, NEW tree, Accounted(tree, r)
    PROVE  LET pr == PullRequestFor(run, r, tree)
           IN  Accounted(pr.to, r) /\ (pr # NoPr => pr.head = run.head /\ pr.to = tree)
BY NoFilesAccounted DEF PullRequestFor

LEMMA InstallFiles ==
    ASSUME IInv, FilesInv, NEW run \in active, NEW r \in Repos, Install(run, r)
    PROVE  Accounted(sync'[r].to, r) /\ (sync'[r] # NoPr => Installs(sync'[r], r))
<1> DEFINE tree == Installed(run, r)
           pin == main[run.head].pin[r]
<1>1. /\ r \in run.legs /\ r \in Admitted(run.head) /\ Renderable(run.head, r)
      /\ sync'[r] = PullRequestFor(run, r, tree)
  BY DEF Install, IInv, TypeOK
<1>2. Serves(run.head, r) /\ run.head \in 1 .. Tip
  BY <1>1 DEF Serves, FilesInv, LegsPrepared, IInv, TypeOK
<1>3. \A p \in GatedFiles(run.head, r) : p \notin RemoveFiles(run, r)
  BY DEF GatedFiles, RemoveFiles
<1>4. Tip \in Nat \ {0} /\ GatedFiles(run.head, r) \subseteq Paths
  <2>1. main[run.head] \in Config
    BY <1>2, CommitType
  <2> QED
    BY <2>1, <1>2, TipType DEF GatedFiles, TemplateFiles, Config
<1>5. \A p \in GatedFiles(run.head, r) : tree[p] = pin
  BY <1>3, <1>4 DEF Installed
<1>6. \A p \in Paths \ GatedFiles(run.head, r) : tree[p] \in {Absent, target[r][p]}
  BY DEF Installed
<1>7. r \notin main[run.head].detective => tree[Trigger] = Absent
  BY DistributionAssumption DEF DistributionAssumption, Installed, RemoveFiles
<1> HIDE DEF tree
<1>8. Accounted(target[r], r)
  BY DEF FilesInv, EveryFileAccounted
<1>9. Accounted(tree, r)
  <2> SUFFICES ASSUME NEW p \in Paths, tree[p] # Absent
               PROVE  \E v \in 1 .. Tip : Brings(v, p, r, tree[p])
    BY DEF Accounted
  <2>1. CASE p \in GatedFiles(run.head, r)
    BY <2>1, <1>2, <1>5 DEF Brings
  <2>2. CASE p \notin GatedFiles(run.head, r)
    BY <2>2, <1>6, <1>8 DEF Accounted
  <2> QED
    BY <2>1, <2>2
<1>10. Accounted(sync'[r].to, r) /\ (sync'[r] # NoPr =>
                                       sync'[r].head = run.head /\ sync'[r].to = tree)
  BY <1>1, <1>9, PullRequestIs
<1> QED
  BY <1>2, <1>5, <1>7, <1>10 DEF Installs

LEMMA RemoveFilesOf ==
    ASSUME IInv, FilesInv, NEW run \in active, NEW r \in Repos, Remove(run, r)
    PROVE  /\ Accounted(removal'[r].to, r)
           /\ removal'[r] # NoPr => Leaves(removal'[r], r)
<1> DEFINE tree == Cleared(run, r)
<1>1. /\ r \notin Admitted(run.head) /\ removal'[r] = PullRequestFor(run, r, tree)
      /\ run.head \in 1 .. Tip
  BY DEF Remove, IInv, TypeOK
<1>2. \A p \in Paths : tree[p] \in {Absent, target[r][p]}
  BY DEF Cleared
<1> HIDE DEF tree
<1>3. Accounted(tree, r)
  BY <1>2 DEF FilesInv, EveryFileAccounted, Accounted
<1>4. Accounted(removal'[r].to, r) /\ (removal'[r] # NoPr => removal'[r].head = run.head)
  BY <1>1, <1>3, PullRequestIs
<1> QED
  BY <1>1, <1>4 DEF Leaves

\* Merging writes what the pull request or the consumer had.
LEMMA MergedFiles ==
    ASSUME NEW r \in Repos, NEW pr, Accounted(pr.to, r), Accounted(target[r], r)
    PROVE  Accounted(Merged(pr, r), r)
BY DEF Accounted, Merged

LEMMA ConsumerFiles ==
    ASSUME IInv, FilesInv, [Next]_vars, NEW r \in Repos
    PROVE  /\ Accounted(target'[r], r) /\ Accounted(sync'[r].to, r)
           /\ Accounted(removal'[r].to, r)
           /\ sync'[r] # NoPr => Installs(sync'[r], r)
           /\ removal'[r] # NoPr => Leaves(removal'[r], r)
<1>0. /\ target \in [Repos -> Tree] /\ sync \in [Repos -> PullRequest]
      /\ removal \in [Repos -> PullRequest]
      /\ Accounted(target[r], r) /\ Accounted(sync[r].to, r) /\ Accounted(removal[r].to, r)
      /\ sync[r] # NoPr => Installs(sync[r], r)
      /\ removal[r] # NoPr => Leaves(removal[r], r)
      /\ Accounted(NoPr.to, r)
  BY NoFilesAccounted DEF IInv, TypeOK, FilesInv, EveryFileAccounted, OfferedAsCommitted
<1>1. CASE target'[r] = target[r] /\ sync'[r] = sync[r] /\ removal'[r] = removal[r]
  BY <1>0, <1>1
<1>2. ASSUME NEW run \in active, Install(run, r)
      PROVE  /\ Accounted(target'[r], r) /\ Accounted(sync'[r].to, r)
             /\ Accounted(removal'[r].to, r)
             /\ sync'[r] # NoPr => Installs(sync'[r], r)
             /\ removal'[r] # NoPr => Leaves(removal'[r], r)
  BY <1>0, <1>2, InstallFiles DEF Install
<1>3. ASSUME NEW run \in active, Remove(run, r)
      PROVE  /\ Accounted(target'[r], r) /\ Accounted(sync'[r].to, r)
             /\ Accounted(removal'[r].to, r)
             /\ sync'[r] # NoPr => Installs(sync'[r], r)
             /\ removal'[r] # NoPr => Leaves(removal'[r], r)
  BY <1>0, <1>3, RemoveFilesOf DEF Remove
<1>4. CASE MergeSync(r)
  BY <1>0, <1>4, MergedFiles DEF MergeSync
<1>5. CASE MergeRemoval(r)
  BY <1>0, <1>5, MergedFiles DEF MergeRemoval
<1>6. CASE \E q \in Repos \ {r} :
             \/ MergeSync(q) \/ MergeRemoval(q)
             \/ \E run \in active : Install(run, q) \/ Remove(run, q)
  BY <1>0, <1>1, <1>6 DEF MergeSync, MergeRemoval, Install, Remove
<1>7. CASE UNCHANGED consumers
  BY <1>1, <1>7 DEF consumers
<1> QED
  BY <1>2, <1>3, <1>4, <1>5, <1>6, <1>7
     DEF Next, Push, ForceDistribution, Start, Rerun, Prepare, Refuse, Finish, Fail,
         End, FailLeg, vars, consumers

LEMMA LegsStep == ASSUME IInv, FilesInv, [Next]_vars PROVE LegsPrepared'
<1> DEFINE Prepared(run) ==
      run.legs # {} =>
         /\ ~Conflict(run.head)
         /\ run.legs \subseteq Admitted(run.head) \union Admitted(run.base)
<1>0. /\ active \subseteq Run /\ waiting \in Run
      /\ \A run \in active : run.head \in 0 .. Tip /\ run.base \in 0 .. Tip
      /\ waiting.legs = {} /\ \A run \in active : Prepared(run)
  BY TipType DEF IInv, TypeOK, FilesInv, LegsPrepared
<1>1. ASSUME NEW run \in Run, run.head \in 0 .. Tip, run.base \in 0 .. Tip, Prepared(run)
      PROVE  Prepared(run)'
  <2>1. /\ Conflict(run.head)' <=> Conflict(run.head)
        /\ Admitted(run.head)' = Admitted(run.head)
        /\ Admitted(run.base)' = Admitted(run.base)
    BY <1>1, CommitKept
  <2> QED
    BY <1>1, <2>1
<1>2. SUFFICES waiting'.legs = {} /\ \A run \in active' :
                  /\ run \in Run /\ run.head \in 0 .. Tip /\ run.base \in 0 .. Tip
                  /\ Prepared(run)
  BY <1>1 DEF LegsPrepared
<1>3. NoRun.legs = {}
  BY DEF NoRun
<1>4. ASSUME NEW base, NEW head, Enqueue(base, head)
      PROVE  waiting'.legs = {} /\ \A q \in active' :
                /\ q \in Run /\ q.head \in 0 .. Tip /\ q.base \in 0 .. Tip
                /\ Prepared(q)
  BY <1>0, <1>3, <1>4 DEF Enqueue, NoRun
<1>5. CASE Start
  <2> DEFINE w == [waiting EXCEPT !.phase = "preparing"]
  <2>1. active' = {w} /\ waiting' = NoRun /\ waiting # NoRun
    BY <1>5 DEF Start
  <2>2. w \in Run /\ w.head = waiting.head /\ w.base = waiting.base /\ w.legs = {}
    BY <1>0 DEF Run
  <2> HIDE DEF w
  <2>3. w.head \in 0 .. Tip /\ w.base \in 0 .. Tip
    BY <2>1, <2>2, TipType DEF IInv, OfMain
  <2> QED
    BY <1>3, <2>1, <2>2, <2>3
<1>6. ASSUME NEW run \in active, Prepare(run)
      PROVE  waiting'.legs = {} /\ \A q \in active' :
                /\ q \in Run /\ q.head \in 0 .. Tip /\ q.base \in 0 .. Tip
                /\ Prepared(q)
  <2> DEFINE new == [run EXCEPT !.phase = "prs",
                                !.legs = Admitted(run.head) \union Admitted(run.base)]
  <2>1. /\ waiting' = waiting /\ active' = (active \ {run}) \union {new}
        /\ ~Conflict(run.head)
    BY <1>6 DEF Prepare, Becomes
  <2>2. Admitted(run.head) \union Admitted(run.base) \subseteq Repos
    BY DEF Admitted
  <2>3. /\ new \in Run /\ new.head = run.head /\ new.base = run.base
        /\ new.legs = Admitted(run.head) \union Admitted(run.base)
    BY <1>0, <2>2 DEF Run
  <2> HIDE DEF new
  <2> QED
    BY <1>0, <2>1, <2>3
<1>7. ASSUME NEW run \in active, NEW r \in Repos, LegEnds(run, r), waiting' = waiting
      PROVE  waiting'.legs = {} /\ \A q \in active' :
                /\ q \in Run /\ q.head \in 0 .. Tip /\ q.base \in 0 .. Tip
                /\ Prepared(q)
  <2> DEFINE new == [run EXCEPT !.legs = run.legs \ {r}]
  <2>1. active' = (active \ {run}) \union {new}
    BY <1>7 DEF LegEnds, Becomes
  <2>2. /\ new \in Run /\ new.head = run.head /\ new.base = run.base
        /\ new.legs = run.legs \ {r}
    BY <1>0 DEF Run
  <2> HIDE DEF new
  <2> QED
    BY <1>0, <1>7, <2>1, <2>2
<1>8. CASE waiting' = waiting /\ active' \subseteq active
  BY <1>0, <1>8
<1>9. ASSUME NEW run \in active,
             \/ Refuse(run) \/ Finish(run) \/ Fail(run)
             \/ \E r \in Repos : Install(run, r) \/ Remove(run, r) \/ FailLeg(run, r)
      PROVE  waiting'.legs = {} /\ \A q \in active' :
                /\ q \in Run /\ q.head \in 0 .. Tip /\ q.base \in 0 .. Tip
                /\ Prepared(q)
  BY <1>7, <1>8, <1>9
     DEF Refuse, Finish, Fail, End, Install, Remove, FailLeg, LegEnds, Becomes
<1>10. CASE \E r \in Repos : MergeSync(r) \/ MergeRemoval(r)
  BY <1>8, <1>10 DEF MergeSync, MergeRemoval, runs
<1>11. CASE UNCHANGED vars
  BY <1>8, <1>11 DEF vars
<1> QED
  BY <1>4, <1>5, <1>6, <1>9, <1>10, <1>11
     DEF Next, Push, ForceDistribution, Rerun

LEMMA InitFiles == Init => FilesInv
BY NoFilesAccounted
   DEF Init, FilesInv, EveryFileAccounted, OfferedAsCommitted, LegsPrepared, NoRun

LEMMA FilesInductive == ASSUME IInv, FilesInv, [Next]_vars PROVE FilesInv'
BY ConsumerFiles, FilesStep, LegsStep DEF FilesInv

LEMMA FilesInvariance == Spec => []FilesInv
<1>1. IInv /\ FilesInv /\ [Next]_vars => FilesInv'
  BY FilesInductive
<1> QED
  BY <1>1, InitFiles, DistributionInvariance, PTL DEF Spec

\* Whatever runs overlapped pushes, were replaced, re-run or failed half way and
\* whatever was merged in between: a client file on the default branch of a
\* consumer is one that some commit of main brought to it, at its pin.
THEOREM EveryFileAlwaysAccounted == Spec => []EveryFileAccounted
<1>1. FilesInv => EveryFileAccounted
  BY DEF FilesInv
<1> QED
  BY <1>1, FilesInvariance, PTL

\* No commit pushed while a run prepares, or while its pull requests wait, gets
\* mixed into what they bring.
THEOREM AlwaysOfferedAsCommitted == Spec => []OfferedAsCommitted
<1>1. FilesInv => OfferedAsCommitted
  BY DEF FilesInv
<1> QED
  BY <1>1, FilesInvariance, PTL

-----------------------------------------------------------------------------
(* What a distribution of main's tip leaves behind *)

\* Nobody pushes and nobody re-runs an old run.
Quiet == main' = main /\ reruns' = reruns

\* What is under way for r, which main lists, is of main's tip.
Steady(r) ==
    /\ r \in Admitted(Tip)
    /\ waiting # NoRun => waiting.head = Tip
    /\ \A run \in active : run.head = Tip
    /\ removal[r] = NoPr
    /\ sync[r] # NoPr => sync[r].head = Tip /\ sync[r].from = target[r]

Healed(r) == \A p \in GatedFiles(Tip, r) : target[r][p] = main[Tip].pin[r]

\* A leg offers what is missing, the offer can be merged, merging it completes
\* the files, and nothing takes them away.
Heals(r) ==
    /\ sync[r] # NoPr => Mergeable(sync[r], r)
    /\ \A run \in active : Install(run, r) => Healed(r)' \/ sync'[r] # NoPr
    /\ MergeSync(r) => Healed(r)'
    /\ Healed(r) => Healed(r)'

LEMMA SteadyStays ==
    ASSUME IInv, [Next]_vars, [Quiet]_vars, NEW r \in Repos, Steady(r)
    PROVE  Steady(r)'
<1>0. /\ main' = main /\ Tip' = Tip /\ reruns' = reruns /\ Admitted(Tip)' = Admitted(Tip)
      /\ Tip \in Nat \ {0} /\ reruns \in Nat
      /\ main \in Seq(Configs) /\ waiting \in Run /\ active \subseteq Run
      /\ sync \in [Repos -> PullRequest] /\ removal \in [Repos -> PullRequest]
      /\ target \in [Repos -> Tree]
  <2>1. main' = main /\ reruns' = reruns
    BY DEF Quiet, vars
  <2> QED
    BY <2>1, TipType, DistributionAssumption
       DEF Tip, Admitted, IInv, TypeOK, DistributionAssumption
<1> DEFINE Offer == sync'[r] # NoPr => sync'[r].head = Tip /\ sync'[r].from = target'[r]
           Runs == /\ waiting' # NoRun => waiting'.head = Tip
                   /\ \A run \in active' : run.head = Tip
<1>1. SUFFICES Runs /\ removal'[r] = NoPr /\ Offer
  BY <1>0 DEF Steady
<1>2. UNCHANGED runs => Runs
  BY DEF Steady, runs
<1>3. UNCHANGED consumers => removal'[r] = NoPr /\ Offer
  BY DEF Steady, consumers
<1>4. CASE \E c \in Configs : Push(c)
  <2>1. PICK c \in Configs : main' = Append(main, c)
    BY <1>4 DEF Push
  <2>2. Len(main') = Len(main) + 1
    BY <1>0, <2>1, AppendProperties
  <2> QED
    BY <1>0, <2>2 DEF Tip
<1>5. CASE \E run \in finished : Rerun(run)
  BY <1>0, <1>5 DEF Rerun
<1>6. CASE ForceDistribution
  BY <1>0, <1>3, <1>6, EnqueueFacts DEF ForceDistribution, Steady
<1>7. CASE Start
  <2> DEFINE w == [waiting EXCEPT !.phase = "preparing"]
  <2>1. active' = {w} /\ waiting' = NoRun /\ waiting # NoRun
    BY <1>7 DEF Start
  <2>2. w.head = waiting.head
    BY <1>0 DEF Run
  <2> HIDE DEF w
  <2> QED
    BY <1>3, <1>7, <2>1, <2>2 DEF Start, Steady
<1>8. ASSUME NEW run \in active, NEW new, Becomes(run, new), new.head = run.head PROVE Runs
  BY <1>8 DEF Becomes, Steady
<1>9. ASSUME NEW run \in active, Prepare(run) \/ Refuse(run) \/ Finish(run) \/ Fail(run)
      PROVE  Runs /\ UNCHANGED consumers
  <2>1. CASE End(run)
    BY <2>1 DEF End, Steady
  <2>2. CASE Prepare(run)
    <3> DEFINE new == [run EXCEPT !.phase = "prs",
                                  !.legs = Admitted(run.head) \union Admitted(run.base)]
    <3>1. new.head = run.head
      BY <1>0 DEF Run
    <3>2. Becomes(run, new) /\ UNCHANGED consumers
      BY <2>2 DEF Prepare
    <3> HIDE DEF new
    <3> QED
      BY <1>8, <3>1, <3>2
  <2> QED
    BY <1>9, <2>1, <2>2 DEF Refuse, Finish, Fail
<1>10. ASSUME NEW run \in active, NEW q \in Repos,
              Install(run, q) \/ Remove(run, q) \/ FailLeg(run, q)
       PROVE  Runs /\ removal'[r] = NoPr /\ Offer
  <2> DEFINE new == [run EXCEPT !.legs = run.legs \ {q}]
  <2>1. new.head = run.head /\ run.head = Tip
    BY <1>0 DEF Run, Steady
  <2>2. Becomes(run, new)
    BY <1>10 DEF Install, Remove, FailLeg, LegEnds
  <2> HIDE DEF new
  <2>3. Runs
    BY <1>8, <2>1, <2>2
  <2>4. CASE q = r /\ Install(run, q)
    <3>1. /\ sync'[r] = PullRequestFor(run, r, Installed(run, r))
          /\ target' = target /\ removal' = removal
      BY <1>0, <2>4 DEF Install
    <3>2. Offer
      BY <2>1, <3>1 DEF PullRequestFor
    <3> QED
      BY <2>3, <3>1, <3>2 DEF Steady
  <2>5. ~(q = r /\ Remove(run, q))
    BY <2>1 DEF Remove, Steady
  <2>6. CASE FailLeg(run, q)
    BY <1>3, <2>3, <2>6 DEF FailLeg
  <2>7. CASE q # r
    BY <1>0, <1>10, <2>3, <2>7 DEF Install, Remove, FailLeg, consumers, Steady
  <2> QED
    BY <1>10, <2>4, <2>5, <2>6, <2>7
<1>11. ASSUME NEW q \in Repos, MergeSync(q) \/ MergeRemoval(q)
       PROVE  Runs /\ removal'[r] = NoPr /\ Offer
  <2>1. UNCHANGED runs
    BY <1>11 DEF MergeSync, MergeRemoval, runs
  <2>2. ~(q = r /\ MergeRemoval(q))
    BY DEF MergeRemoval, Mergeable, Steady
  <2>3. CASE q = r /\ MergeSync(q)
    BY <1>0, <1>2, <2>1, <2>3 DEF MergeSync, Steady
  <2>4. CASE q # r
    BY <1>0, <1>2, <1>11, <2>1, <2>4 DEF MergeSync, MergeRemoval, Steady
  <2> QED
    BY <1>11, <2>2, <2>3, <2>4
<1>12. CASE UNCHANGED vars
  BY <1>2, <1>3, <1>12 DEF vars, runs, consumers
<1> QED
  BY <1>3, <1>4, <1>5, <1>6, <1>7, <1>9, <1>10, <1>11, <1>12 DEF Next

LEMMA SteadyHeals ==
    ASSUME IInv, FilesInv, [Next]_vars, [Quiet]_vars, NEW r \in Repos, Steady(r)
    PROVE  [Heals(r)]_vars
<1> SUFFICES ASSUME ~UNCHANGED vars PROVE Heals(r)
  OBVIOUS
<1>0. /\ Next /\ main' = main /\ Tip' = Tip /\ GatedFiles(Tip, r)' = GatedFiles(Tip, r)
      /\ Tip \in 1 .. Tip /\ main[Tip] \in Config
      /\ sync \in [Repos -> PullRequest] /\ removal \in [Repos -> PullRequest]
      /\ target \in [Repos -> Tree]
  <2>1. Next /\ main' = main
    BY DEF Quiet
  <2>2. Tip \in 1 .. Tip
    BY TipType
  <2> QED
    BY <2>1, <2>2, CommitType DEF Tip, GatedFiles, TemplateFiles, IInv, TypeOK
<1>1. GatedFiles(Tip, r) \subseteq Paths
  BY <1>0 DEF GatedFiles, TemplateFiles, Config
<1>2. ASSUME NEW run \in active, Install(run, r), sync'[r] = NoPr
      PROVE  Healed(r)'
  <2>1. /\ run.head = Tip /\ target' = target
        /\ NoPr = PullRequestFor(run, r, Installed(run, r))
    BY <1>0, <1>2 DEF Install, Steady
  <2>2. NoPr.head = 0 /\ Tip # 0
    BY <1>0 DEF NoPr
  <2>3. Installed(run, r) = target[r]
    BY <2>1, <2>2 DEF PullRequestFor
  <2>4. \A p \in GatedFiles(Tip, r) :
           p \notin RemoveFiles(run, r) /\ Installed(run, r)[p] = main[Tip].pin[r]
    BY <1>1, <2>1 DEF Installed, GatedFiles, RemoveFiles
  <2> QED
    BY <1>0, <2>1, <2>3, <2>4 DEF Healed
<1>3. ASSUME MergeSync(r) PROVE Healed(r)'
  <2>1. /\ sync[r] # NoPr /\ sync[r].head = Tip /\ sync[r].from = target[r]
        /\ target'[r] = Merged(sync[r], r)
    BY <1>0, <1>3 DEF MergeSync, Mergeable, Steady
  <2>2. \A p \in GatedFiles(Tip, r) : sync[r].to[p] = main[Tip].pin[r]
    BY <2>1 DEF FilesInv, OfferedAsCommitted, Installs
  <2>3. \A p \in GatedFiles(Tip, r) : target'[r][p] = main[Tip].pin[r]
    BY <1>1, <2>1, <2>2 DEF Merged, Changed
  <2> QED
    BY <1>0, <2>3 DEF Healed
<1>4. ASSUME Healed(r) PROVE Healed(r)'
  <2>1. CASE MergeSync(r)
    BY <1>3, <2>1
  <2>2. ~MergeRemoval(r)
    BY DEF MergeRemoval, Mergeable, Steady
  <2>3. CASE target'[r] = target[r]
    BY <1>0, <1>4, <2>3 DEF Healed
  <2>4. CASE \E q \in Repos \ {r} : MergeSync(q) \/ MergeRemoval(q)
    BY <1>0, <2>3, <2>4 DEF MergeSync, MergeRemoval
  <2>5. CASE target' = target
    BY <2>3, <2>5
  <2> QED
    BY <1>0, <2>1, <2>2, <2>4, <2>5
       DEF Next, Push, ForceDistribution, Start, Rerun, Prepare, Refuse, Finish, Fail,
           End, Install, Remove, FailLeg, consumers
<1>5. sync[r] # NoPr => Mergeable(sync[r], r)
  BY DEF Steady, Mergeable, Changed
<1> QED
  BY <1>2, <1>3, <1>4, <1>5 DEF Heals

\* Once what is under way for a repository is of main's tip and pushes and re-runs
\* stop, it stays so: every leg that ends well offers what is missing, merging it
\* completes the files, and no late pull request takes them away.  What
\* InstallsHeal adds is that distributions are forced, run and merged.
THEOREM TipDistributionsHeal ==
    ASSUME NEW CONSTANT r \in Repos
    PROVE  Spec => [](Steady(r) /\ [][Quiet]_vars => []Steady(r) /\ [][Heals(r)]_vars)
<1>1. IInv /\ Steady(r) /\ [Next]_vars /\ [Quiet]_vars => Steady(r)'
  BY SteadyStays
<1>2. IInv /\ FilesInv /\ Steady(r) /\ [Next]_vars /\ [Quiet]_vars => [Heals(r)]_vars
  BY SteadyHeals
<1> QED
  BY <1>1, <1>2, DistributionInvariance, FilesInvariance, PTL DEF Spec
=============================================================================
