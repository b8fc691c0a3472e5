--------------------------- MODULE AgentRunProofs ---------------------------
(***************************************************************************)
(* Proofs about AgentRun, for any orgs, trees, consumers and number of     *)
(* changes that satisfy AgentRunAssumption.                                *)
(***************************************************************************)
EXTENDS AgentRun, WellFoundedInduction, SequenceTheorems, TLAPS

-----------------------------------------------------------------------------
(* Permissions *)

Flows(flows) == \A v \in DOMAIN flows : Workflow(flows, flows[v])

LEMMA JobType ==
    ASSUME NEW flows, NEW w, Workflow(flows, w), NEW j \in w.jobs
    PROVE  /\ effective_job_permissions(w, j) \in Permissions
           /\ Granted(w, j) \in Permissions
           /\ j.uses # {} => effective_job_permissions(w, j) = Granted(w, j)
           /\ \A s \in Scopes :
                Granted(w, j)[s] <= effective_job_permissions(w, j)[s]
<1>1. /\ w.root \in Permissions /\ j.perms \subseteq Permissions
      /\ \A p, q \in j.perms : p = q
      /\ j.uses # {} => Nothing \notin j.perms
  BY DEF Workflow
<1>2. Nothing \in Permissions /\ \A s \in Scopes : Nothing[s] = 0
  BY DEF Nothing, Permissions
<1>3. CASE j.perms = {}
  BY <1>1, <1>3 DEF effective_job_permissions, Granted, Permissions
<1>4. CASE \E p \in j.perms : p # Nothing
  <2>1. PICK p \in j.perms : p # Nothing
    BY <1>4
  <2>2. j.perms = {p} /\ ~(j.perms \subseteq {Nothing})
    BY <1>1, <2>1
  <2>3. effective_job_permissions(w, j) = p /\ Granted(w, j) = p
    BY <2>2 DEF effective_job_permissions, Granted
  <2> QED
    BY <1>1, <2>3 DEF Permissions
<1>5. CASE j.perms # {} /\ \A p \in j.perms : p = Nothing
  <2>1. j.perms = {Nothing}
    BY <1>5
  <2>2. effective_job_permissions(w, j) = w.root /\ Granted(w, j) = Nothing
    BY <2>1 DEF effective_job_permissions, Granted
  <2> QED
    BY <1>1, <1>2, <2>1, <2>2 DEF Permissions
<1> QED
  BY <1>3, <1>4, <1>5

\* What callee_requirements computes bounds what every nested job asks for.
LEMMA RequirementsBound ==
    ASSUME NEW flows, Flows(flows), NEW v \in DOMAIN flows,
           NEW u \in Callees(flows, v), NEW k \in flows[u].jobs, NEW s \in Scopes
    PROVE  /\ callee_requirements(flows, v)[s] \in 0 .. 2
           /\ effective_job_permissions(flows[u], k)[s]
                <= callee_requirements(flows, v)[s]
<1> DEFINE asked(r) == UNION {
               {effective_job_permissions(flows[x], i)[r] : i \in flows[x].jobs} :
               x \in Callees(flows, v)}
<1>1. Callees(flows, v) \subseteq DOMAIN flows
  BY DEF Callees
<1>2. \A x \in Callees(flows, v) : \A i \in flows[x].jobs :
        effective_job_permissions(flows[x], i) \in Permissions
  BY <1>1, JobType DEF Flows
<1>4. asked(s) \subseteq 0 .. 2
  BY <1>2 DEF Permissions
<1>5. effective_job_permissions(flows[u], k)[s] \in asked(s)
  OBVIOUS
<1> DEFINE top == CHOOSE l \in asked(s) \union {0} : \A m \in asked(s) : m <= l
<1> HIDE DEF asked
<1>6. \E l \in asked(s) \union {0} : \A m \in asked(s) : m <= l
  <2>1. CASE 2 \in asked(s)
    BY <1>4, <2>1
  <2>2. CASE 2 \notin asked(s) /\ 1 \in asked(s)
    <3>1. \A m \in asked(s) : m \in {0, 1}
      BY <1>4, <2>2
    <3> QED
      BY <2>2, <3>1
  <2>3. CASE 2 \notin asked(s) /\ 1 \notin asked(s)
    <3>1. \A m \in asked(s) : m = 0
      BY <1>4, <2>3
    <3> QED
      BY <3>1
  <2> QED
    BY <2>1, <2>2, <2>3
<1>7. top \in asked(s) \union {0} /\ \A m \in asked(s) : m <= top
  BY <1>6
<1>8. callee_requirements(flows, v)[s] = top
  BY DEF callee_requirements, asked
<1> QED
  BY <1>4, <1>5, <1>7, <1>8

\* A call CI accepts is one GitHub accepts.
LEMMA CheckedCallAccepted ==
    ASSUME NEW flows, Flows(flows), NEW w, Workflow(flows, w),
           validate_workflow_file(flows, w),
           NEW j \in w.jobs, NEW v \in j.uses
    PROVE  CallAccepted(flows, w, j, v)
<1>1. v \in DOMAIN flows /\ v \in Callees(flows, v)
  BY DEF Workflow, Callees
<1> SUFFICES ASSUME NEW k \in flows[v].jobs, NEW s \in Scopes
             PROVE  Granted(flows[v], k)[s] <= Granted(w, j)[s]
  BY DEF CallAccepted
<1>2. /\ effective_job_permissions(w, j) = Granted(w, j)
      /\ Granted(w, j) \in Permissions
  BY JobType
<1>3. /\ Granted(flows[v], k) \in Permissions
      /\ effective_job_permissions(flows[v], k) \in Permissions
      /\ Granted(flows[v], k)[s] <= effective_job_permissions(flows[v], k)[s]
  BY <1>1, JobType DEF Flows
<1>4. /\ callee_requirements(flows, v)[s] \in 0 .. 2
      /\ effective_job_permissions(flows[v], k)[s] <= callee_requirements(flows, v)[s]
  BY <1>1, RequirementsBound
<1>5. ~(effective_job_permissions(w, j)[s] < callee_requirements(flows, v)[s])
  BY DEF validate_workflow_file, permission_deficits
<1> QED
  BY <1>2, <1>3, <1>4, <1>5 DEF Permissions

\* CI's verdict on a tree is GitHub's on a client and workflows of that tree.
LEMMA AlignedStarts ==
    ASSUME NEW flows, Flows(flows), NEW templates, NEW w \in templates,
           Workflow(flows, w), PermissionsAligned(flows, templates)
    PROVE  StartAccepted(flows, w)
<1>1. validate_workflow_file(flows, w)
  BY DEF PermissionsAligned
<1>2. \A v \in DOMAIN flows : validate_workflow_file(flows, flows[v]) /\ Workflow(flows, flows[v])
  BY DEF PermissionsAligned, Flows
<1>3. ASSUME NEW j \in w.jobs, NEW v \in j.uses
      PROVE  /\ CallAccepted(flows, w, j, v)
             /\ \A u \in Callees(flows, v) : \A k \in flows[u].jobs : \A x \in k.uses :
                    CallAccepted(flows, flows[u], k, x)
  <2>1. CallAccepted(flows, w, j, v)
    BY <1>1, CheckedCallAccepted
  <2>2. ASSUME NEW u \in Callees(flows, v), NEW k \in flows[u].jobs, NEW x \in k.uses
        PROVE  CallAccepted(flows, flows[u], k, x)
    <3>1. u \in DOMAIN flows
      BY DEF Callees
    <3> QED
      BY <1>2, <3>1, CheckedCallAccepted
  <2> QED
    BY <2>1, <2>2
<1> QED
  BY <1>3 DEF StartAccepted

-----------------------------------------------------------------------------
(* Registries and resolutions *)

LEMMA CheckedTree ==
    ASSUME NEW t \in Mergeable
    PROVE  Tree(t) /\ OrgKeyPassed(t) /\ Passes(t) /\ RegistriesParse(t)
BY AgentRunAssumption DEF AgentRunAssumption, Mergeable, Passes,
   validate_registry_against_workflows

LEMMA EntryForIs ==
    ASSUME NEW t, NEW o, NEW f
    PROVE  EntryFor(t, o, f) = {e \in EntriesOf(t, f) : e.org = o}
BY DEF EntryFor, CompoundIds

LEMMA EntryIsUnique ==
    ASSUME NEW t, RegistriesParse(t), NEW o, NEW f,
           NEW e \in EntryFor(t, o, f), NEW d \in EntryFor(t, o, f)
    PROVE  e = d
<1>1. /\ e \in Entries(t) /\ d \in Entries(t)
      /\ e.file = f /\ d.file = f /\ e.org = o /\ d.org = o
  BY EntryForIs DEF EntriesOf
<1>2. ~Conflict(e, d)
  BY <1>1 DEF RegistriesParse
<1> QED
  BY <1>1, <1>2 DEF Conflict

\* The org-key a wrapper may pass when it runs for o.
KeyOf(key, o, f) == key = {o} \/ (key = {} /\ o = Prefix[f])

LEMMA ResolvedEntry ==
    ASSUME NEW t, RegistriesParse(t), NEW o, NEW f, NEW key, KeyOf(key, o, f),
           EntryFor(t, o, f) # {}
    PROVE  CompoundIds(t, f, key) = EntryFor(t, o, f)
<1>1. PICK e \in EntryFor(t, o, f) : TRUE
  OBVIOUS
<1>2. e \in EntriesOf(t, f) /\ e.org = o
  BY EntryForIs
<1>3. CASE key = {o}
  BY <1>3 DEF EntryFor
<1>4. CASE key = {} /\ o = Prefix[f]
  <2> DEFINE d == prefer_index_entry(EntriesOf(t, f), f)
  <2>1. \E x \in EntriesOf(t, f) : x.org = Prefix[f]
    BY <1>2, <1>4
  <2>2. d \in EntriesOf(t, f) /\ d.org = Prefix[f]
    BY <2>1 DEF prefer_index_entry
  <2>3. d \in EntryFor(t, o, f)
    BY <2>2, <1>4, EntryForIs
  <2>4. \A x \in EntryFor(t, o, f) : x = d
    BY <2>3, EntryIsUnique
  <2>5. EntryFor(t, o, f) = {d}
    BY <2>3, <2>4
  <2>6. CompoundIds(t, f, key) = {d}
    BY <1>2, <1>4 DEF CompoundIds
  <2> QED
    BY <2>5, <2>6
<1> QED
  BY <1>3, <1>4 DEF KeyOf

LEMMA OneCompoundId ==
    ASSUME NEW t, RegistriesParse(t), NEW o, NEW f, NEW key, KeyOf(key, o, f),
           NEW e \in CompoundIds(t, f, key), NEW d \in CompoundIds(t, f, key)
    PROVE  e = d
<1>1. CASE key = {o}
  BY <1>1, EntryIsUnique DEF EntryFor
<1>2. CASE key = {}
  BY <1>2 DEF CompoundIds
<1> QED
  BY <1>1, <1>2 DEF KeyOf

\* A resolution that succeeds is that of the one id it found.
LEMMA ResolutionIs ==
    ASSUME NEW t, RegistriesParse(t), NEW o, NEW f, NEW key, KeyOf(key, o, f),
           NEW c, NEW call, Resolution(t, c, f, key, call) # {}
    PROVE  \E e : /\ CompoundIds(t, f, key) = {e} /\ Resolvable(t, c, e)
                  /\ Only(Resolution(t, c, f, key, call))
                       = resolve_agentic_assets(t, c, e, call)
<1>1. PICK e \in CompoundIds(t, f, key) : Resolvable(t, c, e)
  BY DEF Resolution
<1>2. CompoundIds(t, f, key) = {e}
  BY <1>1, OneCompoundId
<1>3. Resolution(t, c, f, key, call) = {resolve_agentic_assets(t, c, e, call)}
  BY <1>1, <1>2 DEF Resolution
<1> QED
  BY <1>1, <1>2, <1>3 DEF Only

\* Everything the tree t says in fragments to a wrapper reaches the prompt of
\* the entry of that wrapper.
LEMMA FragmentsReachPrompt ==
    ASSUME NEW t, RegistriesParse(t), NEW o \in Orgs, NEW f, Optional(t.maps[o]),
           NEW e, EntryFor(t, o, f) = {e}, NEW p \in FragmentsFor(t, o, f)
    PROVE  p \in AllOf(FragmentIds(t, e))
<1>1. e.org = o /\ e.file = f
  BY EntryForIs DEF EntriesOf
<1>2. PICK m \in t.maps[o] :
        p \in m.common
             \union UNION {m.workflows[id].fragments
                           \union UNION {m.workflows[id].inner[g] :
                                          g \in {f} \intersect DOMAIN m.workflows[id].inner} :
                           id \in {x.id : x \in EntryFor(t, o, f)}
                                  \intersect DOMAIN m.workflows}
  BY DEF FragmentsFor
<1>3. Only(t.maps[o]) = m /\ t.maps[o] # {}
  BY DEF Optional, Only
<1>4. FragmentIds(t, e) = resolve_control_plane_fragment_ids(m, e.id, f)
  BY <1>1, <1>3 DEF FragmentIds
<1>5. CASE p \in m.common
  BY <1>4, <1>5 DEF resolve_control_plane_fragment_ids, AllOf
<1>6. CASE p \notin m.common
  <2>1. /\ e.id \in DOMAIN m.workflows
        /\ \/ p \in m.workflows[e.id].fragments
           \/ f \in DOMAIN m.workflows[e.id].inner /\ p \in m.workflows[e.id].inner[f]
    BY <1>2, <1>6
  <2> QED
    BY <1>4, <2>1 DEF resolve_control_plane_fragment_ids, AllOf
<1> QED
  BY <1>5, <1>6

-----------------------------------------------------------------------------
(* The inductive invariant *)

Shape ==
    /\ run = [phase |-> run.phase, org |-> run.org, file |-> run.file,
              pinned |-> run.pinned, checkout |-> run.checkout, gate |-> run.gate,
              step |-> run.step, results |-> run.results]
    /\ \E S : run.results \in Seq(S)
    /\ run.step \in Nat \ {0}
    /\ run.phase # "idle" => run.file \in Files
    /\ run.phase \in {"idle", "rejected", "prelude"} => run.step = 1

\* What a commit that may still be called said is said by main or withdrawn.
KeptBy(t) ==
    \A o \in Orgs, f \in Files : \A p \in FragmentsFor(t, o, f) :
        <<o, f, p>> \in retired \/ p \in FragmentsFor(main, o, f)

Kept == \A t \in {release.current, release.previous, run.pinned} : KeptBy(t)

\* The gate the run passed is main's, until a commit registers it anew.
GateHolds ==
    run.phase \in {"resolve", "agent"} =>
        /\ run.gate # {}
        /\ moved \/ EntryFor(main, run.org, run.file) = run.gate

\* Every result is a resolution against the checkout of the run, for the call
\* of its own agent.
Made(r, c, call) == \E t, e : r = resolve_agentic_assets(t, c, e, call)
ResultsMade ==
    \A i \in 1 .. Len(run.results) :
        Made(run.results[i], run.checkout, run.pinned.wrappers[run.file].steps[i])

\* The last result is what main says, until main changes.
Current(t, r) ==
    \E e, call : /\ CompoundIds(t, run.file, Key(run)) = {e}
                 /\ Resolvable(t, run.checkout, e)
                 /\ r = resolve_agentic_assets(t, run.checkout, e, call)
LastIsCurrent ==
    run.phase \in {"resolve", "agent"} /\ run.results # <<>> /\ ~edited =>
        Current(main, run.results[Len(run.results)])

IInv ==
    /\ TypeOK /\ Shape /\ Kept /\ GateHolds /\ ResultsMade /\ LastIsCurrent
    /\ AssetsMatchGate /\ PolicyReachesAgent

LEMMA Initially == Init => IInv
<1> SUFFICES ASSUME Init PROVE IInv
  OBVIOUS
<1>1. /\ First \in Mergeable /\ Consumers # {} /\ MaxChanges \in Nat
  BY AgentRunAssumption DEF AgentRunAssumption
<1>2. /\ run = Idle /\ run.phase = "idle" /\ run.pinned = First /\ run.gate = {}
      /\ run.step = 1 /\ run.results = <<>> /\ run.checkout \in Consumers
  BY <1>1 DEF Init, Idle
<1>3. Len(run.results) = 0 /\ run.results \in Seq({})
  BY <1>2
<1>4. TypeOK
  BY <1>1, <1>2, <1>3 DEF Init, TypeOK
<1>5. Shape
  <2>1. run = [phase |-> run.phase, org |-> run.org, file |-> run.file,
              pinned |-> run.pinned, checkout |-> run.checkout, gate |-> run.gate,
              step |-> run.step, results |-> run.results]
    BY <1>2 DEF Idle
  <2> QED
    BY <1>2, <1>3, <2>1 DEF Shape
<1>6. Kept
  BY <1>2 DEF Init, Kept, KeptBy
<1>7. GateHolds /\ ResultsMade /\ LastIsCurrent /\ AssetsMatchGate /\ PolicyReachesAgent
  BY <1>2, <1>3 DEF GateHolds, ResultsMade, LastIsCurrent, AssetsMatchGate,
     PolicyReachesAgent, Results
<1> QED
  BY <1>4, <1>5, <1>6, <1>7 DEF IInv

-----------------------------------------------------------------------------
(* Maintainers and the consumer *)

LEMMA ChangeType == ASSUME IInv, Change PROVE changes' \in 0 .. MaxChanges
BY AgentRunAssumption DEF AgentRunAssumption, IInv, TypeOK, Change

LEMMA SameRun ==
    ASSUME IInv, UNCHANGED <<main, run, retired, moved, edited>>
    PROVE  /\ Shape' /\ GateHolds' /\ ResultsMade' /\ LastIsCurrent'
           /\ AssetsMatchGate' /\ PolicyReachesAgent'
           /\ \A t : KeptBy(t) => KeptBy(t)'
<1>1. Shape'
  BY DEF IInv, Shape
<1>2. GateHolds' /\ ResultsMade'
  BY DEF IInv, GateHolds, ResultsMade
<1>3. LastIsCurrent'
  BY DEF IInv, LastIsCurrent, Current, Key
<1>4. AssetsMatchGate' /\ PolicyReachesAgent'
  BY DEF IInv, AssetsMatchGate, PolicyReachesAgent, Results, Stated
<1>5. \A t : KeptBy(t) => KeptBy(t)'
  BY DEF KeptBy
<1> QED
  BY <1>1, <1>2, <1>3, <1>4, <1>5

\* Steps that leave main and the run alone.
LEMMA OtherSteps ==
    ASSUME IInv, \/ Promote \/ Rollback \/ MergeClient
                 \/ \E c \in Consumers : EditConsumer(c)
    PROVE  IInv'
<1>1. UNCHANGED <<main, class, run, retired, moved, edited>>
  BY DEF Promote, Rollback, MergeClient, EditConsumer
<1>2. changes' \in 0 .. MaxChanges
  BY ChangeType DEF Promote, Rollback, MergeClient, EditConsumer
<1>3. /\ {release'.current, release'.previous}
           \subseteq {main, release.current, release.previous}
      /\ client' \in Mergeable /\ consumer' \in Consumers
  BY DEF IInv, TypeOK, Promote, Rollback, MergeClient, EditConsumer
<1>4. TypeOK'
  BY <1>1, <1>2, <1>3 DEF IInv, TypeOK
<1>5. KeptBy(main)
  BY DEF KeptBy
<1>6. Kept'
  BY <1>1, <1>3, <1>5, SameRun DEF IInv, Kept
<1> QED
  BY <1>1, <1>4, <1>6, SameRun DEF IInv

LEMMA CommitStep == ASSUME IInv, NEW t \in Mergeable, Commit(t) PROVE IInv'
<1>1. /\ main' = t /\ edited' = TRUE
      /\ UNCHANGED <<release, client, class, consumer, run>>
      /\ retired \subseteq retired'
      /\ \A o \in Orgs, f \in Files :
           \A p \in FragmentsFor(main, o, f) \ FragmentsFor(t, o, f) :
              <<o, f, p>> \in retired'
      /\ moved' = (moved \/ (run.phase # "idle" /\ Reregistered(main, t, run)))
  <2>1. \A o \in Orgs, f \in Files :
           \A p \in FragmentsFor(main, o, f) \ FragmentsFor(t, o, f) :
              <<o, f, p>> \in retired'
    <3> TAKE o \in Orgs, f \in Files
    <3>1. <<o, f>> \in Orgs \X Files /\ <<o, f>>[1] = o /\ <<o, f>>[2] = f
      OBVIOUS
    <3> QED
      BY <3>1 DEF Commit
  <2> QED
    BY <2>1 DEF Commit
<1>2. TypeOK'
  BY <1>1, ChangeType DEF IInv, TypeOK, Commit
<1>3. Shape' /\ ResultsMade' /\ LastIsCurrent'
  BY <1>1 DEF IInv, Shape, ResultsMade, LastIsCurrent
<1>4. \A u : KeptBy(u) => KeptBy(u)'
  BY <1>1 DEF KeptBy
<1>5. Kept'
  BY <1>1, <1>4 DEF IInv, Kept
<1>6. GateHolds'
  BY <1>1 DEF IInv, GateHolds, Reregistered
<1>7. AssetsMatchGate'
  BY <1>1 DEF IInv, AssetsMatchGate, Results
<1>8. PolicyReachesAgent'
  BY <1>1 DEF IInv, PolicyReachesAgent, Stated
<1> QED
  BY <1>2, <1>3, <1>5, <1>6, <1>7, <1>8 DEF IInv

-----------------------------------------------------------------------------
(* The run *)

\* What a run that started knows of its wrapper and its key.
LEMMA RunFacts ==
    ASSUME IInv, run.phase # "idle"
    PROVE  /\ run.pinned \in Mergeable /\ run.org \in Orgs /\ run.file \in Files
           /\ KeyOf(Key(run), run.org, run.file)
           /\ RegistriesParse(main) /\ Optional(main.maps[run.org])
           /\ Len(run.pinned.wrappers[run.file].steps) \in Nat
<1>1. /\ run.pinned \in Mergeable /\ run.org \in Orgs /\ run.file \in Files
      /\ run.file \in run.pinned.routes[run.org] /\ main \in Mergeable
  BY DEF IInv, TypeOK, Shape
<1>2. Tree(run.pinned) /\ OrgKeyPassed(run.pinned) /\ Tree(main) /\ RegistriesParse(main)
  BY <1>1, CheckedTree
<1>3. /\ run.file \in DOMAIN run.pinned.wrappers
      /\ ~run.pinned.wrappers[run.file].keyed => run.org = Prefix[run.file]
  BY <1>1, <1>2 DEF OrgKeyPassed
<1>4. KeyOf(Key(run), run.org, run.file)
  BY <1>3 DEF KeyOf, Key
<1> QED
  BY <1>1, <1>2, <1>3, <1>4 DEF Tree

LEMMA StartStep ==
    ASSUME IInv, NEW o \in Orgs, NEW f \in Files, Start(o, f)
    PROVE  IInv'
<1>1. /\ Pinned \in Mergeable /\ f \in Pinned.routes[o]
      /\ Pinned \in {release.current, main} /\ consumer \in Consumers
  BY DEF IInv, TypeOK, Pinned, Start
<1>2. Len(Pinned.wrappers[f].steps) \in Nat \ {0}
  BY <1>1, CheckedTree DEF Tree, OrgKeyPassed
<1>3. UNCHANGED <<main, release, client, class, consumer, changes, retired>>
  BY DEF Start
<1>4. /\ run'.phase \in {"prelude", "rejected"} /\ run'.org = o /\ run'.file = f
      /\ run'.pinned = Pinned /\ run'.checkout = consumer
      /\ run'.step = 1 /\ run'.results = <<>>
      /\ run' = [phase |-> run'.phase, org |-> run'.org, file |-> run'.file,
                 pinned |-> run'.pinned, checkout |-> run'.checkout,
                 gate |-> run'.gate, step |-> run'.step, results |-> run'.results]
  BY DEF Start, Idle
<1>5. Len(run'.results) = 0 /\ run'.results \in Seq({})
  BY <1>4
<1>6. TypeOK'
  BY <1>1, <1>2, <1>3, <1>4, <1>5 DEF IInv, TypeOK
<1>7. Shape'
  BY <1>4, <1>5 DEF Shape
<1>8. Kept'
  <2>1. KeptBy(main)
    BY DEF KeptBy
  <2>2. \A t : KeptBy(t) => KeptBy(t)'
    BY <1>3 DEF KeptBy
  <2> QED
    BY <1>1, <1>3, <1>4, <2>1, <2>2 DEF IInv, Kept
<1>9. GateHolds' /\ ResultsMade' /\ LastIsCurrent' /\ AssetsMatchGate' /\ PolicyReachesAgent'
  BY <1>4, <1>5 DEF GateHolds, ResultsMade, LastIsCurrent, AssetsMatchGate,
     PolicyReachesAgent, Results
<1> QED
  BY <1>6, <1>7, <1>8, <1>9 DEF IInv

LEMMA PreludeStep == ASSUME IInv, Prelude PROVE IInv'
<1> DEFINE gate == EntryFor(main, run.org, run.file)
<1>1. /\ UNCHANGED <<main, release, client, class, consumer, changes, retired, edited>>
      /\ moved' = FALSE /\ run.phase = "prelude"
      /\ run' = [run EXCEPT !.phase = IF gate = {} THEN "failed" ELSE "resolve",
                            !.gate = gate]
  BY DEF Prelude
<1>2. /\ run'.phase = (IF gate = {} THEN "failed" ELSE "resolve") /\ run'.gate = gate
      /\ run'.org = run.org /\ run'.file = run.file /\ run'.pinned = run.pinned
      /\ run'.checkout = run.checkout /\ run'.step = run.step
      /\ run'.results = run.results
      /\ run' = [phase |-> run'.phase, org |-> run'.org, file |-> run'.file,
                 pinned |-> run'.pinned, checkout |-> run'.checkout,
                 gate |-> run'.gate, step |-> run'.step, results |-> run'.results]
  BY <1>1 DEF IInv, Shape
<1>3. run.step = 1 /\ Len(run.results) = 0 /\ run.results = <<>>
  <2>1. PICK S : run.results \in Seq(S)
    BY DEF IInv, Shape
  <2>2. run.step = 1 /\ Len(run.results) = 0
    BY <1>1 DEF IInv, Shape, TypeOK
  <2> QED
    BY <2>1, <2>2, EmptySeq
<1>4. TypeOK'
  BY <1>1, <1>2, <1>3 DEF IInv, TypeOK
<1>5. Shape'
  BY <1>1, <1>2, <1>3 DEF IInv, Shape
<1>6. Kept'
  BY <1>1, <1>2 DEF IInv, Kept, KeptBy
<1>7. GateHolds'
  BY <1>1, <1>2 DEF GateHolds
<1>8. ResultsMade' /\ LastIsCurrent' /\ AssetsMatchGate' /\ PolicyReachesAgent'
  BY <1>2, <1>3 DEF ResultsMade, LastIsCurrent, AssetsMatchGate, PolicyReachesAgent, Results
<1> QED
  BY <1>4, <1>5, <1>6, <1>7, <1>8 DEF IInv

LEMMA AgentStep == ASSUME IInv, Agent PROVE IInv'
<1>1. /\ UNCHANGED <<main, release, client, class, consumer, changes, retired,
                     moved, edited>>
      /\ run.phase = "agent"
  BY DEF Agent
<1>2. /\ \/ /\ run.step < Len(run.pinned.wrappers[run.file].steps)
            /\ run'.phase = "resolve" /\ run'.step = run.step + 1
         \/ run'.phase = "done" /\ run'.step = run.step
      /\ run'.gate = run.gate
      /\ run'.org = run.org /\ run'.file = run.file /\ run'.pinned = run.pinned
      /\ run'.checkout = run.checkout /\ run'.results = run.results
      /\ run' = [phase |-> run'.phase, org |-> run'.org, file |-> run'.file,
                 pinned |-> run'.pinned, checkout |-> run'.checkout,
                 gate |-> run'.gate, step |-> run'.step, results |-> run'.results]
  BY DEF Agent, IInv, Shape
<1>3. run.step \in Nat \ {0} /\ Len(run.pinned.wrappers[run.file].steps) \in Nat
  BY <1>1, RunFacts DEF IInv, Shape
<1> DEFINE last == Len(run.pinned.wrappers[run.file].steps)
<1>a. last' = last /\ Len(run.results)' = Len(run.results)
  BY <1>2
<1>b. Len(run.results) = run.step /\ run.step \in 1 .. last
  BY <1>1 DEF IInv, TypeOK
<1>c. last \in Nat /\ (run'.phase = "resolve" => run.step < last)
  BY <1>2, <1>3
<1> HIDE DEF last
<1>d. /\ run'.step \in 1 .. last'
      /\ Len(run.results)' = IF run'.phase \in {"agent", "done"} THEN run'.step
                             ELSE run'.step - 1
  <2>1. CASE run'.phase = "resolve" /\ run'.step = run.step + 1
    BY <1>3, <1>a, <1>b, <1>c, <2>1
  <2>2. CASE run'.phase = "done" /\ run'.step = run.step
    BY <1>3, <1>a, <1>b, <1>c, <2>2
  <2> QED
    BY <1>2, <2>1, <2>2
<1>4. TypeOK'
  BY <1>1, <1>2, <1>d DEF IInv, TypeOK, last
<1>5. Shape'
  BY <1>1, <1>2, <1>3 DEF IInv, Shape
<1>6. Kept'
  BY <1>1, <1>2 DEF IInv, Kept, KeptBy
<1>7. GateHolds' /\ ResultsMade'
  BY <1>1, <1>2 DEF IInv, GateHolds, ResultsMade
<1>8. LastIsCurrent'
  BY <1>1, <1>2 DEF IInv, LastIsCurrent, Current, Key
<1>9. AssetsMatchGate' /\ PolicyReachesAgent'
  BY <1>1, <1>2 DEF IInv, AssetsMatchGate, PolicyReachesAgent, Results, Stated
<1> QED
  BY <1>4, <1>5, <1>6, <1>7, <1>8, <1>9 DEF IInv

\* What the wrapper passes and what main's fragments say is in the prompt.
LEMMA SaidIs ==
    ASSUME NEW t, NEW c, NEW e, NEW call
    PROVE  LET r == resolve_agentic_assets(t, c, e, call) IN
           call.inline \subseteq Said(r) /\ AllOf(FragmentIds(t, e)) \subseteq Said(r)
<1> DEFINE r == resolve_agentic_assets(t, c, e, call)
<1>1. r.layers = compose_additional_instructions(t, c, e, call)
  BY DEF resolve_agentic_assets
<1>2. /\ r.layers["control-plane-common"] = FragmentIds(t, e).common
      /\ r.layers["control-plane-workflow"] = FragmentIds(t, e).workflow
      /\ r.layers["control-plane-inner-workflow"] = FragmentIds(t, e).inner
      /\ r.layers["platform-inline"] = call.inline
  BY <1>1 DEF compose_additional_instructions, Layers
<1> HIDE DEF r
<1> QED
  BY <1>2 DEF Said, PlatformLayers, AllOf, r

LEMMA ResolveStep == ASSUME IInv, Resolve PROVE IInv'
<1>1. /\ UNCHANGED <<main, release, client, class, consumer, changes, retired, moved>>
      /\ edited' = FALSE /\ run.phase = "resolve"
  BY DEF Resolve
<1>2. PICK S : run.results \in Seq(S)
  BY DEF IInv, Shape
<1>3. /\ Len(run.results) = run.step - 1 /\ run.step \in Nat \ {0}
      /\ Len(run.results) \in Nat
  BY <1>1, <1>2 DEF IInv, TypeOK, Shape
<1>4. /\ run'.gate = run.gate /\ run'.step = run.step
      /\ run'.org = run.org /\ run'.file = run.file /\ run'.pinned = run.pinned
      /\ run'.checkout = run.checkout
      /\ run' = [phase |-> run'.phase, org |-> run'.org, file |-> run'.file,
                 pinned |-> run'.pinned, checkout |-> run'.checkout,
                 gate |-> run'.gate, step |-> run'.step, results |-> run'.results]
  BY DEF Resolve, IInv, Shape
<1>5. CASE Resolves(run) = {}
  <2>1. run'.phase = "failed" /\ run'.results = run.results
    BY <1>5 DEF Resolve, IInv, Shape
  <2>2. TypeOK'
    BY <1>1, <1>4, <2>1 DEF IInv, TypeOK
  <2>3. Shape'
    BY <1>1, <1>4, <2>1 DEF IInv, Shape
  <2>4. Kept'
    BY <1>1, <1>4 DEF IInv, Kept, KeptBy
  <2>5. GateHolds' /\ ResultsMade' /\ LastIsCurrent'
    BY <1>4, <2>1 DEF IInv, GateHolds, ResultsMade, LastIsCurrent
  <2>6. AssetsMatchGate' /\ PolicyReachesAgent'
    BY <1>1, <1>4, <2>1 DEF IInv, AssetsMatchGate, PolicyReachesAgent, Results, Stated
  <2> QED
    BY <2>2, <2>3, <2>4, <2>5, <2>6 DEF IInv
<1>6. CASE Resolves(run) # {}
  <2> DEFINE r == Only(Resolves(run))
             n == Len(run.results)
  <2>0. /\ KeyOf(Key(run), run.org, run.file) /\ RegistriesParse(main)
        /\ Optional(main.maps[run.org]) /\ run.org \in Orgs /\ run.file \in Files
    BY <1>1, RunFacts
  <2>1. PICK e : /\ CompoundIds(main, run.file, Key(run)) = {e}
                 /\ Resolvable(main, run.checkout, e)
                 /\ r = resolve_agentic_assets(main, run.checkout, e, Call(run))
    BY <1>6, <2>0, ResolutionIs DEF Resolves
  <2>2. run'.phase = "agent" /\ run'.results = Append(run.results, r)
    BY <1>6 DEF Resolve, IInv, Shape
  <2>3. r.entry = e
    BY <2>1 DEF resolve_agentic_assets
  <2>4. Call(run).inline \subseteq Said(r) /\ AllOf(FragmentIds(main, e)) \subseteq Said(r)
    BY <2>1, SaidIs
  <2>5. EntryFor(main, run.org, run.file) # {} => EntryFor(main, run.org, run.file) = {e}
    BY <2>0, <2>1, ResolvedEntry
  <2> HIDE DEF r
  <2>6. /\ run'.results \in Seq(S \union {r}) /\ Len(run'.results) = n + 1
        /\ run'.results[n + 1] = r
        /\ \A i \in 1 .. n : run'.results[i] = run.results[i]
    <3>1. run.results \in Seq(S \union {r})
      BY <1>2
    <3> QED
      BY <3>1, <2>2, AppendProperties
  <2>7. 1 .. (n + 1) = 1 .. n \union {n + 1} /\ n + 1 = run.step /\ n \in Nat
    BY <1>3
  <2>8. TypeOK'
    BY <1>1, <1>4, <2>2, <2>6, <2>7 DEF IInv, TypeOK
  <2>9. Shape'
    BY <1>1, <1>4, <2>2, <2>6 DEF IInv, Shape
  <2>10. Kept'
    BY <1>1, <1>4 DEF IInv, Kept, KeptBy
  <2>11. GateHolds'
    BY <1>1, <1>4 DEF IInv, GateHolds
  <2>12. ResultsMade'
    <3>1. Made(r, run.checkout, Call(run))
      BY <2>1 DEF Made
    <3>2. Made(r, run.checkout, run.pinned.wrappers[run.file].steps[n + 1])
      BY <2>7, <3>1 DEF Call
    <3> QED
      BY <1>4, <2>6, <2>7, <3>2 DEF IInv, ResultsMade
  <2>13. LastIsCurrent'
    <3>1. run'.results[Len(run'.results)] = r
      BY <2>6
    <3> QED
      BY <1>1, <1>4, <2>1, <3>1 DEF LastIsCurrent, Current, Key
  <2>14. AssetsMatchGate'
    <3> SUFFICES ASSUME ~moved, NEW i \in 1 .. (n + 1)
                 PROVE  {run'.results[i].entry} = run.gate
      BY <1>1, <1>4, <2>6 DEF AssetsMatchGate, Results
    <3>1. CASE i \in 1 .. n
      BY <2>6, <3>1 DEF IInv, AssetsMatchGate, Results
    <3>2. CASE i = n + 1
      BY <1>1, <2>3, <2>5, <2>6, <3>2 DEF IInv, GateHolds
    <3> QED
      BY <2>7, <3>1, <3>2
  <2>15. PolicyReachesAgent'
    <3> SUFFICES ASSUME NEW i \in 1 .. (n + 1), NEW p \in Stated(i)
                 PROVE  \/ <<run.org, run.file, p>> \in retired
                        \/ p \in Said(run'.results[i])
      BY <1>1, <1>4, <2>6 DEF PolicyReachesAgent, Stated
    <3>1. CASE i \in 1 .. n
      BY <2>6, <3>1 DEF IInv, PolicyReachesAgent
    <3>2. CASE i = n + 1 /\ p \in FragmentsFor(run.pinned, run.org, run.file)
      <4>1. \/ <<run.org, run.file, p>> \in retired
            \/ p \in FragmentsFor(main, run.org, run.file)
        BY <2>0, <3>2 DEF IInv, Kept, KeptBy
      <4>2. CASE p \in FragmentsFor(main, run.org, run.file)
        <5>1. EntryFor(main, run.org, run.file) # {}
          BY <4>2 DEF FragmentsFor
        <5>2. p \in AllOf(FragmentIds(main, e))
          BY <2>0, <2>5, <4>2, <5>1, FragmentsReachPrompt
        <5> QED
          BY <2>4, <2>6, <3>2, <5>2
      <4> QED
        BY <4>1, <4>2
    <3>3. CASE i = n + 1 /\ p \notin FragmentsFor(run.pinned, run.org, run.file)
      <4>1. p \in Call(run).inline
        BY <2>7, <3>3 DEF Stated, Call
      <4> QED
        BY <2>4, <2>6, <3>3, <4>1
    <3> QED
      BY <2>7, <3>1, <3>2, <3>3
  <2> QED
    BY <2>8, <2>9, <2>10, <2>11, <2>12, <2>13, <2>14, <2>15 DEF IInv
<1> QED
  BY <1>5, <1>6

LEMMA Inductive == ASSUME IInv, [Next]_vars PROVE IInv'
<1>1. CASE \E t \in Mergeable : Commit(t)
  BY <1>1, CommitStep
<1>2. CASE Promote \/ Rollback \/ MergeClient \/ \E c \in Consumers : EditConsumer(c)
  BY <1>2, OtherSteps
<1>3. CASE \E o \in Orgs, f \in Files : Start(o, f)
  BY <1>3, StartStep
<1>4. CASE Prelude
  BY <1>4, PreludeStep
<1>5. CASE Resolve
  BY <1>5, ResolveStep
<1>6. CASE Agent
  BY <1>6, AgentStep
<1>7. CASE UNCHANGED vars
  <2>1. UNCHANGED <<main, release, client, class, consumer, run, changes, retired,
                    moved, edited>>
    BY <1>7 DEF vars
  <2>2. TypeOK' /\ Kept'
    BY <2>1 DEF IInv, TypeOK, Kept, KeptBy
  <2> QED
    BY <2>1, <2>2, SameRun DEF IInv
<1> QED
  BY <1>1, <1>2, <1>3, <1>4, <1>5, <1>6, <1>7 DEF Next

-----------------------------------------------------------------------------
(* What the consumer adds *)

LEMMA FinenessIs ==
    /\ Fineness["none"] = 0 /\ Fineness["common"] = 1
    /\ Fineness["workflow"] = 2 /\ Fineness["inner-workflow"] = 3
BY DEF Fineness

LEMMA OneExtension ==
    ASSUME NEW c, Checkout(c), NEW o, OrgExtension(c, o) # {}
    PROVE  \E m \in load_apm_manifest(c) :
            o \in DOMAIN m.orgs /\ OrgExtension(c, o) = {m.orgs[o]}
<1>1. PICK m \in load_apm_manifest(c) : o \in DOMAIN m.orgs
  BY DEF OrgExtension
<1> QED
  BY <1>1 DEF OrgExtension, Checkout, Optional

\* The block chosen applies, and none that applies is finer.
LEMMA SelectedIsFinest ==
    ASSUME NEW c, Checkout(c), NEW e
    PROVE  /\ Selected(c, e) \in Applicable(c, e)
           /\ \A b \in Applicable(c, e) :
                Fineness[b.grain] <= Fineness[Selected(c, e).grain]
           /\ Len(Selected(c, e).block.inputs) \in Nat
<1>1. CASE OrgExtension(c, e.org) = {}
  <2>1. Selected(c, e) = [grain |-> "none", block |-> EmptyBlock]
    BY <1>1 DEF Selected
  <2>2. Applicable(c, e) = {[grain |-> "none", block |-> EmptyBlock]}
    BY <1>1 DEF Applicable
  <2>3. Len(EmptyBlock.inputs) \in Nat
    BY DEF EmptyBlock
  <2> QED
    BY <2>1, <2>2, <2>3, FinenessIs
<1>2. CASE OrgExtension(c, e.org) # {}
  <2>1. PICK m \in load_apm_manifest(c) :
            e.org \in DOMAIN m.orgs /\ OrgExtension(c, e.org) = {m.orgs[e.org]}
    BY <1>2, OneExtension
  <2> DEFINE x == m.orgs[e.org]
  <2>2. OrgExtension(c, e.org) = {x}
    BY <2>1
  <2>3. /\ Optional(x.common)
        /\ \A b \in Blocks(x) : Len(b.inputs) \in Nat
    BY <2>1 DEF Checkout
  <2> HIDE DEF x
  <2>4. Selected(c, e) = select_asset_block(x, e)
    BY <2>2 DEF Selected, Only
  <2> DEFINE none == [grain |-> "none", block |-> EmptyBlock]
             commons == {[grain |-> "common", block |-> b] : b \in x.common}
             w == x.workflows[e.id]
             own == {[grain |-> "workflow", block |-> w.block]}
             inner == {[grain |-> "inner-workflow", block |-> w.inner[f]] :
                         f \in {e.file} \intersect DOMAIN w.inner}
  <2>5. Applicable(c, e) = {none} \union commons
          \union (IF e.id \notin DOMAIN x.workflows THEN {} ELSE own \union inner)
    BY <2>2 DEF Applicable
  <2>6. Len(EmptyBlock.inputs) \in Nat
    BY DEF EmptyBlock
  <2>7. CASE e.id \in DOMAIN x.workflows /\ e.file \in DOMAIN w.inner
    <3>1. Selected(c, e) = [grain |-> "inner-workflow", block |-> w.inner[e.file]]
      BY <2>4, <2>7 DEF select_asset_block
    <3>2. w.inner[e.file] \in Blocks(x)
      BY <2>7 DEF Blocks
    <3> QED
      BY <2>3, <2>5, <2>7, <3>1, <3>2, FinenessIs
  <2>8. CASE e.id \in DOMAIN x.workflows /\ e.file \notin DOMAIN w.inner
    <3>1. Selected(c, e) = [grain |-> "workflow", block |-> w.block]
      BY <2>4, <2>8 DEF select_asset_block
    <3>2. w.block \in Blocks(x)
      BY <2>8 DEF Blocks
    <3>3. inner = {}
      BY <2>8
    <3> QED
      BY <2>3, <2>5, <2>8, <3>1, <3>2, <3>3, FinenessIs
  <2>9. CASE e.id \notin DOMAIN x.workflows /\ x.common # {}
    <3>1. Only(x.common) \in x.common
      BY <2>9 DEF Only
    <3>2. Selected(c, e) = [grain |-> "common", block |-> Only(x.common)]
      BY <2>4, <2>9 DEF select_asset_block
    <3>3. Only(x.common) \in Blocks(x)
      BY <3>1 DEF Blocks
    <3> QED
      BY <2>3, <2>5, <2>9, <3>1, <3>2, <3>3, FinenessIs
  <2>10. CASE e.id \notin DOMAIN x.workflows /\ x.common = {}
    <3>1. Selected(c, e) = none
      BY <2>4, <2>10 DEF select_asset_block
    <3> QED
      BY <2>5, <2>6, <2>10, <3>1, FinenessIs
  <2> QED
    BY <2>7, <2>8, <2>9, <2>10
<1> QED
  BY <1>1, <1>2

\* Of the entries of a mapping with some key, one is the last.
LEMMA LastExists ==
    ASSUME NEW n \in Nat, NEW T, T \subseteq 1 .. n, T # {}
    PROVE  \E j \in T : \A i \in T : i <= j
<1> DEFINE R == OpToRel(<, Nat)
           U == {n - i : i \in T}
<1>1. IsWellFoundedOn(R, Nat)
  BY NatLessThanWellFounded
<1>2. \A x, y \in Nat : x < y => <<x, y>> \in R
  BY DEF OpToRel
<1>3. U \subseteq Nat /\ U # {}
  OBVIOUS
<1> HIDE DEF R
<1>4. PICK m \in U : \A y \in U : ~(<<y, m>> \in R)
  BY <1>1, <1>3, WFMin
<1>5. PICK j \in T : m = n - j
  OBVIOUS
<1>6. ASSUME NEW i \in T PROVE i <= j
  <2>1. n - i \in U /\ n - i \in Nat /\ m \in Nat /\ i \in Nat /\ j \in Nat
    BY <1>3
  <2>2. ~(n - i < m)
    BY <1>2, <1>4, <2>1, Zenon
  <2> QED
    BY <1>5, <2>1, <2>2
<1> QED
  BY <1>6

\* What the code makes of the inputs of a block is what its last entries give.
LEMMA MaterializedIsGiven ==
    ASSUME NEW c, NEW b, Len(b.inputs) \in Nat, NEW k,
           k \in {b.inputs[i].key : i \in 1 .. Len(b.inputs)}
    PROVE  Given(c, b, k) = {materialize_inputs(c, b.inputs)[k]}
<1> DEFINE n == Len(b.inputs)
           about == {i \in 1 .. n : b.inputs[i].key = k}
           value(i) == IF b.inputs[i].file THEN c.files[b.inputs[i].value]
                       ELSE b.inputs[i].value
           Last(i) == /\ b.inputs[i].key = k
                      /\ \A j \in (i + 1) .. n : b.inputs[j].key # k
           last == CHOOSE i \in 1 .. n : Last(i)
<1>1. PICK j \in about : \A i \in about : i <= j
  BY LastExists
<1>2. \A i \in 1 .. n : Last(i) <=> i = j
  <2> TAKE i \in 1 .. n
  <2>1. CASE i = j
    BY <1>1, <2>1
  <2>2. ASSUME Last(i) PROVE i = j
    <3>1. i \in about /\ i <= j /\ j \in 1 .. n /\ b.inputs[j].key = k
      BY <1>1, <2>2
    <3>2. j \notin (i + 1) .. n
      BY <2>2, <3>1
    <3> QED
      BY <3>1, <3>2
  <2> QED
    BY <2>1, <2>2
<1>3. last = j
  BY <1>1, <1>2
<1>4. materialize_inputs(c, b.inputs)[k] = value(last)
  BY DEF materialize_inputs
<1>5. {i \in about : \A m \in about : m <= i} = {j}
  BY <1>1
<1>6. Given(c, b, k) = {value(i) : i \in {i \in about : \A m \in about : m <= i}}
  BY DEF Given
<1> HIDE DEF about, value, last
<1> QED
  BY <1>3, <1>4, <1>5, <1>6

\* A resolution adds the block it selects to what the platform passes, and
\* nothing else.
LEMMA MadeOfOneBlock ==
    ASSUME NEW c, Checkout(c), NEW r, NEW call, Made(r, c, call)
    PROVE  \E a \in Applicable(c, r.entry) :
            /\ \A b \in Applicable(c, r.entry) :
                Fineness[b.grain] <= Fineness[a.grain]
            /\ r.source = a.grain
            /\ OnlyFrom(c, r.entry, a.block, call.inputs, r)
<1>1. PICK t, e : r = resolve_agentic_assets(t, c, e, call)
  BY DEF Made
<1> DEFINE a == Selected(c, e)
           b == a.block
           keys == {b.inputs[i].key : i \in 1 .. Len(b.inputs)}
           apm == materialize_inputs(c, b.inputs)
<1>2. /\ r.entry = e /\ r.source = a.grain
      /\ r.setup = extract_setup_commands(c, b)
      /\ r.inputs = merge_platform_and_apm_inputs(call.inputs, apm)
      /\ r.layers["consumer-fragments"] = ConsumerFragments(c, e)
      /\ r.layers["consumer-inline"]
           = IF Instructions \in DOMAIN apm THEN {apm[Instructions]} ELSE {}
  BY <1>1 DEF resolve_agentic_assets, compose_additional_instructions, Layers
<1>3. /\ a \in Applicable(c, e) /\ Len(b.inputs) \in Nat
      /\ \A d \in Applicable(c, e) : Fineness[d.grain] <= Fineness[a.grain]
  BY SelectedIsFinest
<1>4. DOMAIN apm = keys
  BY DEF materialize_inputs
<1>5. \A k \in keys : Given(c, b, k) = {apm[k]}
  BY <1>3, MaterializedIsGiven
<1>6. Overridden(b) = keys \ {Instructions}
  BY DEF Overridden
<1>7. Instructions \notin keys => Given(c, b, Instructions) = {}
  BY DEF Given
<1>8. ConsumerFragments(c, e)
        = {c.files[x.fragments[i]] : x \in OrgExtension(c, e.org), i \in b.fragments}
  <2>1. CASE b.fragments = {}
    BY <2>1 DEF ConsumerFragments
  <2>2. CASE b.fragments # {}
    <3>1. PICK x : OrgExtension(c, e.org) = {x}
      BY <2>2, OneExtension DEF Selected, EmptyBlock
    <3>2. Only(OrgExtension(c, e.org)) = x
      BY <3>1 DEF Only
    <3>3. ConsumerFragments(c, e) = {c.files[p] : p \in {x.fragments[i] : i \in b.fragments}}
      BY <2>2, <3>2 DEF ConsumerFragments, FragmentPaths
    <3> HIDE DEF a
    <3> QED
      BY <3>1, <3>3
  <2> QED
    BY <2>1, <2>2
<1>9. /\ DOMAIN r.inputs = DOMAIN call.inputs \union Overridden(b)
      /\ \A k \in DOMAIN r.inputs :
           r.inputs[k] = IF k \in Overridden(b) THEN apm[k] ELSE call.inputs[k]
  <2> HIDE DEF apm, b
  <2> QED
    BY <1>2, <1>4, <1>6 DEF merge_platform_and_apm_inputs
<1> HIDE DEF a, b, apm, keys
<1>10. r.layers["consumer-inline"] = Given(c, b, Instructions)
  BY <1>2, <1>4, <1>5, <1>7
<1>11. \A k \in DOMAIN r.inputs :
         {r.inputs[k]} = IF k \in Overridden(b) THEN Given(c, b, k) ELSE {call.inputs[k]}
  BY <1>5, <1>6, <1>9
<1>12. OnlyFrom(c, e, b, call.inputs, r)
  BY <1>2, <1>8, <1>9, <1>10, <1>11 DEF OnlyFrom
<1> QED
  BY <1>2, <1>3, <1>12 DEF b

-----------------------------------------------------------------------------
(* Theorems *)

\* IInv holds in every state; the theorems below follow from it.
THEOREM AgentRunInvariance == Spec => []IInv
BY Initially, Inductive, PTL DEF Spec

\* Main, releases and clients passed CI and every agent that acts does so on a
\* resolution of its own (aw-resolve-agentic-assets.yml), in every behaviour.
THEOREM AgentRunTypeCorrect == Spec => []TypeOK
<1>1. IInv => TypeOK
  BY DEF IInv
<1> QED
  BY <1>1, AgentRunInvariance, PTL

\* The assets of an agent are those of the id whose gate the run passed
\* (resolve_compound_id), whatever orgs share the basename.
THEOREM AssetsAlwaysMatchGate == Spec => []AssetsMatchGate
<1>1. IInv => AssetsMatchGate
  BY DEF IInv
<1> QED
  BY <1>1, AgentRunInvariance, PTL

\* A policy the pinned tree states reaches the agent although the fragments
\* are those of main (compose_control_plane_fragments).
THEOREM PolicyAlwaysReachesAgent == Spec => []PolicyReachesAgent
<1>1. IInv => PolicyReachesAgent
  BY DEF IInv
<1> QED
  BY <1>1, AgentRunInvariance, PTL

\* Setup commands, fragments, instructions and inputs of every agent are those
\* of the finest block that applies, on top of what its call passes, and of no
\* other block (select_asset_block, resolve_apm_assets).
THEOREM AlwaysOneBlockPerAgent == Spec => []OneBlockPerAgent
<1>1. IInv => OneBlockPerAgent
  <2> SUFFICES ASSUME IInv, NEW i \in 1 .. Len(run.results)
               PROVE  LET r == run.results[i]
                          platform == run.pinned.wrappers[run.file].steps[i].inputs
                      IN  \E a \in Applicable(run.checkout, r.entry) :
                            /\ \A b \in Applicable(run.checkout, r.entry) :
                                Fineness[b.grain] <= Fineness[a.grain]
                            /\ r.source = a.grain
                            /\ OnlyFrom(run.checkout, r.entry, a.block, platform, r)
    BY Zenon DEF OneBlockPerAgent
  <2>1. /\ Made(run.results[i], run.checkout, run.pinned.wrappers[run.file].steps[i])
        /\ run.checkout \in Consumers
    BY DEF IInv, ResultsMade, TypeOK
  <2>2. Checkout(run.checkout)
    BY <2>1, AgentRunAssumption DEF AgentRunAssumption
  <2> QED
    BY <2>1, <2>2, MadeOfOneBlock, Zenon
<1> QED
  BY <1>1, AgentRunInvariance, PTL

\* GitHub refuses a run only across versions: a commit that CI passed starts
\* with its own clients (validate_aw_workflow_permissions.py).
THEOREM AlwaysStartsWhenAligned == Spec => StartsWhenAligned
<1>1. ASSUME IInv, [Next]_vars
      PROVE  [(run' # run /\ run'.phase = "rejected") => client # run'.pinned]_vars
  <2> SUFFICES ASSUME Next, run' # run, run'.phase = "rejected", client = run'.pinned
               PROVE  FALSE
    BY <1>1 DEF vars
  <2>1. CASE \E o \in Orgs, f \in Files : Start(o, f)
    <3>1. PICK o \in Orgs, f \in Files : Start(o, f)
      BY <2>1
    <3>2. /\ run'.pinned = Pinned /\ Pinned \in Mergeable
          /\ ~StartAccepted(Pinned.flows, client.templates[o])
      BY <1>1, <3>1 DEF Start, Idle, IInv, TypeOK, Pinned
    <3>3. /\ Flows(Pinned.flows) /\ Workflow(Pinned.flows, Pinned.templates[o])
          /\ PermissionsAligned(Pinned.flows, {Pinned.templates[q] : q \in Orgs})
      BY <3>2, CheckedTree DEF Tree, Passes, Flows
    <3>4. StartAccepted(Pinned.flows, Pinned.templates[o])
      BY <3>3, AlignedStarts
    <3> QED
      BY <3>2, <3>4
  <2>2. CASE Prelude
    BY <1>1, <2>2 DEF Prelude, IInv, Shape
  <2>3. CASE Resolve
    BY <1>1, <2>3 DEF Resolve, IInv, Shape
  <2>4. CASE Agent
    BY <1>1, <2>4 DEF Agent, IInv, Shape
  <2>5. CASE run' = run
    BY <2>5
  <2> QED
    BY <2>1, <2>2, <2>3, <2>4, <2>5
       DEF Next, Commit, Promote, Rollback, MergeClient, EditConsumer
<1> QED
  BY <1>1, AgentRunInvariance, PTL DEF Spec, StartsWhenAligned

\* Two resolutions of one id against one tree and one checkout differ only in
\* what the wrapper passes.
LEMMA SameButForCall ==
    ASSUME NEW t, NEW c, NEW e, NEW call, NEW other
    PROVE  SharedPart(resolve_agentic_assets(t, c, e, call))
             = SharedPart(resolve_agentic_assets(t, c, e, other))
<1> DEFINE a == compose_additional_instructions(t, c, e, call)
           b == compose_additional_instructions(t, c, e, other)
           s == Selected(c, e)
           r == resolve_agentic_assets(t, c, e, call)
           o == resolve_agentic_assets(t, c, e, other)
<1>1. \A l \in Layers \ {"platform-inline"} : a[l] = b[l]
  BY DEF compose_additional_instructions
<1>2. /\ r.entry = e /\ r.source = s.grain /\ r.layers = a
      /\ r.setup = extract_setup_commands(c, s.block)
  BY DEF resolve_agentic_assets
<1>3. /\ o.entry = e /\ o.source = s.grain /\ o.layers = b
      /\ o.setup = extract_setup_commands(c, s.block)
  BY DEF resolve_agentic_assets
<1> HIDE DEF a, b, s, r, o
<1>4. [l \in Layers \ {"platform-inline"} |-> r.layers[l]]
        = [l \in Layers \ {"platform-inline"} |-> o.layers[l]]
  BY <1>1, <1>2, <1>3
<1>5. SharedPart(r) = SharedPart(o)
  BY <1>2, <1>3, <1>4 DEF SharedPart
<1> QED
  BY <1>5 DEF r, o

\* A later agent of a run goes by the assets of the one before unless main
\* changed in between (obs-aw-autodoc.yml, the audit and the fix).
THEOREM LaterAgentsAlwaysAgree == Spec => LaterAgentsAgree
<1>1. ASSUME IInv, [Next]_vars
      PROVE  [(run.phase = "resolve" /\ run.step > 1 /\ run' # run /\ ~edited) =>
                /\ run'.phase = "agent"
                /\ SharedPart(run'.results[run.step]) = SharedPart(run.results[run.step - 1])]_vars
  <2> SUFFICES ASSUME Next, run.phase = "resolve", run.step > 1, run' # run, ~edited
               PROVE  /\ run'.phase = "agent"
                      /\ SharedPart(run'.results[run.step]) = SharedPart(run.results[run.step - 1])
    BY <1>1 DEF vars
  <2>1. Resolve
    BY DEF Next, Commit, Promote, Rollback, MergeClient, EditConsumer, Start,
           Prelude, Agent
  <2>2. PICK S : run.results \in Seq(S)
    BY <1>1 DEF IInv, Shape
  <2>3. Len(run.results) = run.step - 1 /\ run.step \in Nat \ {0} /\ run.results # <<>>
    BY <1>1, <2>2 DEF IInv, TypeOK, Shape
  <2>4. PICK e, call :
          /\ CompoundIds(main, run.file, Key(run)) = {e}
          /\ Resolvable(main, run.checkout, e)
          /\ run.results[run.step - 1] = resolve_agentic_assets(main, run.checkout, e, call)
    BY <1>1, <2>3 DEF IInv, LastIsCurrent, Current
  <2> DEFINE r == resolve_agentic_assets(main, run.checkout, e, Call(run))
  <2>5. Resolves(run) = {r}
    BY <2>4 DEF Resolves, Resolution
  <2>6. Only(Resolves(run)) = r
    BY <2>5 DEF Only
  <2> HIDE DEF r
  <2>7. run'.phase = "agent" /\ run'.results = Append(run.results, r)
    BY <1>1, <2>1, <2>5, <2>6 DEF Resolve, IInv, Shape
  <2>8. run'.results[run.step] = r
    <3>1. run.results \in Seq(S \union {r})
      BY <2>2
    <3> QED
      BY <3>1, <2>3, <2>7, AppendProperties
  <2>9. SharedPart(r) = SharedPart(run.results[run.step - 1])
    BY <2>4, SameButForCall DEF r
  <2> QED
    BY <2>7, <2>8, <2>9
<1> QED
  BY <1>1, AgentRunInvariance, PTL DEF Spec, LaterAgentsAgree
=============================================================================
