----------------------------- MODULE GatesProofs -----------------------------
(***************************************************************************)
(* Proofs about Gates, for all orgs, services and bounds.                  *)
(***************************************************************************)
EXTENDS Gates, TLAPS

\* What a run read was checked at some moment of it, and what it lets proceed
\* was read with its parent: the boxes at the time of the read are among those
\* seen since the run began.
ConsentInv ==
    /\ run.phase # "idle" => issue.checked \subseteq consent
    /\ run.phase \in {"gates", "done"} => run.ids \subseteq consent
    /\ run.phase = "done" /\ run.keyed =>
         \A s \in run.proceed :
            {<<run.org, s>>, <<run.org, Parent[s]>>} \subseteq run.ids

\* What stayed checked all through a run was in what it read, and a route of
\* the run whose boxes it read proceeds.
KeptInv ==
    /\ run.phase # "idle" => kept \subseteq issue.checked
    /\ run.phase \in {"gates", "done"} /\ ~blind => kept \subseteq run.ids
    /\ run.phase = "done" /\ run.keyed =>
         \A s \in run.list :
            {<<run.org, s>>, <<run.org, Parent[s]>>} \subseteq run.ids
              => s \in run.proceed

\* Of an org that never opted out, main, both releases and the run under way
\* list services that its registry has, so that a lookup finds an entry.
WiredInv ==
    /\ \A o \in Orgs \ left :
          /\ wired[o] \subseteq registry[o]
          /\ releases.current.wired[o] \subseteq registry[o]
          /\ releases.previous.wired[o] \subseteq registry[o]
    /\ run.phase # "idle" /\ run.org \notin left =>
          run.list \subseteq registry[run.org]
    /\ run.phase = "failed" => run.org \in left

IInv == TypeOK /\ ConsentInv /\ KeptInv /\ WiredInv

LEMMA FamilyType == ASSUME NEW s PROVE Family(s) \in SUBSET Services
  BY DEF Family

LEMMA RowsType == Rows \in SUBSET Ids
  BY DEF Rows

LEMMA Initially == Init => IInv
<1> SUFFICES ASSUME Init PROVE IInv
  OBVIOUS
<1>0. GatesAssumption
  BY GatesAssumption
<1>1. registry \in [Orgs -> SUBSET Services]
  BY DEF Init
<1>2. NoRun \in RunRecord
  BY <1>0 DEF NoRun, RunRecord, GatesAssumption
<1>3. Release = [wired : [Orgs -> SUBSET Services], keyed : BOOLEAN]
  BY DEF Release
<1>4. releases \in [current : Release, previous : Release]
  BY <1>0, <1>1, <1>3 DEF Init, GatesAssumption
<1>5. issue \in [rows : SUBSET Ids, checked : SUBSET Ids]
      /\ issue.checked \subseteq issue.rows
  BY RowsType DEF Init
<1>6. changes \in 0 .. MaxChanges
  BY <1>0 DEF Init, GatesAssumption
<1>7. TypeOK
  BY <1>1, <1>2, <1>4, <1>5, <1>6 DEF Init, TypeOK, NoRun
<1>8. ConsentInv /\ KeptInv
  BY DEF Init, ConsentInv, KeptInv, NoRun
<1>9. WiredInv
  BY DEF Init, WiredInv, NoRun
<1> QED
  BY <1>7, <1>8, <1>9 DEF IInv

LEMMA ChangeType == ASSUME IInv, Change PROVE changes' \in 0 .. MaxChanges
  BY GatesAssumption DEF IInv, TypeOK, Change, GatesAssumption

\* The maintainers' actions leave the run and the dashboard alone: what remains
\* to be shown is about registries, orchestrators and releases.
LEMMA TypeOfRest ==
    ASSUME IInv,
           UNCHANGED <<issue, run, consent, kept, blind>>,
           registry' \in [Orgs -> SUBSET Services],
           wired' \in [Orgs -> SUBSET Services],
           \A o \in Orgs : registry'[o] \subseteq wired'[o],
           releases' \in [current : Release, previous : Release],
           left' \subseteq Orgs,
           changes' \in 0 .. MaxChanges,
           WiredInv'
    PROVE  IInv'
<1>1. TypeOK'
  BY DEF IInv, TypeOK, Release, RunRecord, Ids
<1>2. ConsentInv' /\ KeptInv'
  BY DEF IInv, ConsentInv, KeptInv
<1> QED
  BY <1>1, <1>2 DEF IInv

LEMMA OptInStep == ASSUME IInv, NEW o \in Orgs, NEW s \in Services, OptIn(o, s)
                   PROVE IInv'
<1>1. registry' \in [Orgs -> SUBSET Services] /\ wired' \in [Orgs -> SUBSET Services]
  BY FamilyType DEF IInv, TypeOK, OptIn
<1>2. /\ registry' = [registry EXCEPT ![o] = registry[o] \union Family(s)]
      /\ wired' = [wired EXCEPT ![o] = wired[o] \union Family(s)]
      /\ UNCHANGED <<releases, issue, run, consent, kept, blind, left>>
  BY DEF OptIn, history
<1>3. \A p \in Orgs : registry'[p] \subseteq wired'[p]
  BY <1>2 DEF IInv, TypeOK
<1>4. \A p \in Orgs : /\ registry[p] \subseteq registry'[p]
                      /\ wired[p] \subseteq registry[p]
                           => wired'[p] \subseteq registry'[p]
  BY <1>2 DEF IInv, TypeOK
<1>5. run.org \in Orgs
  BY DEF IInv, TypeOK, RunRecord
<1>6. WiredInv'
  BY <1>2, <1>4, <1>5 DEF IInv, WiredInv
<1>7. changes' \in 0 .. MaxChanges
  BY ChangeType DEF OptIn
<1> QED
  BY <1>1, <1>2, <1>3, <1>6, <1>7, TypeOfRest DEF IInv, TypeOK

\* The org that opts out is excepted; nothing changes for the others.
LEMMA OptOutStep == ASSUME IInv, NEW o \in Orgs, NEW s \in Services, OptOut(o, s)
                    PROVE IInv'
<1>1. registry' \in [Orgs -> SUBSET Services] /\ wired' \in [Orgs -> SUBSET Services]
  BY FamilyType DEF IInv, TypeOK, OptOut
<1>2. /\ registry' = [registry EXCEPT ![o] = registry[o] \ Family(s)]
      /\ \/ wired' = [wired EXCEPT ![o] = wired[o] \ Family(s)]
         \/ wired' = wired
      /\ left' = left \union {o}
      /\ UNCHANGED <<releases, issue, run, consent, kept, blind>>
  BY DEF OptOut
<1>3. \A p \in Orgs : registry'[p] \subseteq wired'[p]
  BY <1>2 DEF IInv, TypeOK
<1>4. \A p \in Orgs \ left' : registry'[p] = registry[p] /\ wired'[p] = wired[p]
  BY <1>2 DEF IInv, TypeOK
<1>5. run.org \in Orgs
  BY DEF IInv, TypeOK, RunRecord
<1>6. WiredInv'
  BY <1>2, <1>4, <1>5 DEF IInv, WiredInv
<1>7. changes' \in 0 .. MaxChanges
  BY ChangeType DEF OptOut
<1> QED
  BY <1>1, <1>2, <1>3, <1>6, <1>7, TypeOfRest DEF IInv, TypeOK

LEMMA PromoteStep == ASSUME IInv, Promote PROVE IInv'
<1>1. Tip \in Release
  BY DEF Tip, Release, IInv, TypeOK
<1>2. releases' \in [current : Release, previous : Release]
  BY <1>1 DEF IInv, TypeOK, Promote
<1>3. /\ releases'.current.wired = wired
      /\ releases'.previous.wired = releases.current.wired
      /\ UNCHANGED <<registry, wired, run, left>>
  BY DEF Promote, Tip, history
<1>4. WiredInv'
  BY <1>3 DEF IInv, WiredInv
<1> QED
  BY <1>2, <1>4, ChangeType, TypeOfRest DEF Promote, history, IInv, TypeOK

LEMMA RollbackStep == ASSUME IInv, Rollback PROVE IInv'
<1>1. releases' \in [current : Release, previous : Release]
  BY DEF IInv, TypeOK, Rollback
<1>2. /\ releases'.current.wired = releases.previous.wired
      /\ releases'.previous.wired = releases.current.wired
      /\ UNCHANGED <<registry, wired, run, left>>
  BY DEF Rollback, history
<1>3. WiredInv'
  BY <1>2 DEF IInv, WiredInv
<1> QED
  BY <1>1, <1>3, ChangeType, TypeOfRest DEF Rollback, history, IInv, TypeOK

\* Boxes change under the run: consent and kept record it.
LEMMA IssueStep ==
    ASSUME IInv, Seen, UNCHANGED <<registry, wired, releases, run>>,
           issue' \in [rows : SUBSET Ids, checked : SUBSET Ids],
           issue'.checked \subseteq issue'.rows,
           changes' \in 0 .. MaxChanges
    PROVE  IInv'
<1>1. /\ consent' = consent \union issue'.checked
      /\ kept' = kept \intersect issue'.checked
      /\ UNCHANGED <<blind, left>>
  BY DEF Seen
<1>2. TypeOK'
  BY <1>1 DEF IInv, TypeOK
<1>3. ConsentInv'
  BY <1>1 DEF IInv, ConsentInv
<1>4. KeptInv'
  BY <1>1 DEF IInv, KeptInv
<1>5. WiredInv'
  BY <1>1 DEF IInv, WiredInv
<1> QED
  BY <1>2, <1>3, <1>4, <1>5 DEF IInv

LEMMA ToggleStep == ASSUME IInv, NEW id \in Ids, Toggle(id) PROVE IInv'
<1>1. issue' = [issue EXCEPT !.checked = (issue.checked \ {id})
                                         \union ({id} \ issue.checked)]
  BY DEF Toggle
<1>2. issue' \in [rows : SUBSET Ids, checked : SUBSET Ids]
      /\ issue'.checked \subseteq issue'.rows
  BY <1>1 DEF IInv, TypeOK, Toggle
<1> QED
  BY <1>2, ChangeType, IssueStep DEF Toggle

LEMMA SyncStep == ASSUME IInv, Sync PROVE IInv'
<1>1. /\ issue' = [rows |-> Rows,
                    checked |-> (issue.checked \intersect Rows) \union NewDefaults]
      /\ NewDefaults \subseteq Rows
  BY DEF Sync, NewDefaults
<1>2. issue' \in [rows : SUBSET Ids, checked : SUBSET Ids]
      /\ issue'.checked \subseteq issue'.rows
  BY <1>1, RowsType DEF IInv, TypeOK
<1> QED
  BY <1>2, IssueStep DEF Sync, IInv, TypeOK

\* A run starts: what is checked then is what was seen and kept so far, and its
\* orchestrator is the tip's or the release's.
LEMMA StartRunStep ==
    ASSUME IInv, NEW o \in Orgs, NEW pinned \in BOOLEAN, StartRun(o, pinned)
    PROVE  IInv'
<1> DEFINE of == IF pinned THEN releases.current ELSE Tip
<1>1. of \in Release
  BY DEF IInv, TypeOK, Tip, Release
<1>2. /\ run' = [NoRun EXCEPT !.phase = "read", !.org = o,
                              !.list = of.wired[o], !.keyed = of.keyed]
      /\ consent' = issue.checked /\ kept' = issue.checked /\ blind' = FALSE
      /\ UNCHANGED <<registry, wired, releases, issue, changes, left>>
  BY DEF StartRun
<1>3. of.wired[o] \in SUBSET Services /\ of.keyed \in BOOLEAN
  BY <1>1 DEF Release
<1>4. o \notin left => of.wired[o] \subseteq registry[o]
  BY DEF IInv, WiredInv, Tip
<1> HIDE DEF of
<1>5. /\ run' \in RunRecord /\ run'.phase = "read" /\ run'.proceed = {}
      /\ run'.org = o /\ run'.list = of.wired[o]
  BY <1>2, <1>3, GatesAssumption DEF NoRun, RunRecord, GatesAssumption
<1>6. TypeOK'
  BY <1>2, <1>5 DEF IInv, TypeOK
<1>7. ConsentInv' /\ KeptInv'
  BY <1>2, <1>5 DEF ConsentInv, KeptInv
<1>8. WiredInv'
  BY <1>2, <1>4, <1>5 DEF IInv, WiredInv
<1> QED
  BY <1>6, <1>7, <1>8 DEF IInv

LEMMA ReadDashboardStep == ASSUME IInv, ReadDashboard PROVE IInv'
<1> DEFINE ids == IF blind' THEN {} ELSE issue.checked
<1>1. /\ run' = [run EXCEPT !.phase = "gates", !.ids = ids]
      /\ run.phase = "read" /\ blind' \in BOOLEAN
      /\ UNCHANGED <<registry, wired, releases, issue, changes, consent, kept, left>>
  BY DEF ReadDashboard
<1>2. ids \subseteq issue.checked /\ (~blind' => ids = issue.checked)
  OBVIOUS
<1> HIDE DEF ids
<1>3. /\ run' \in RunRecord /\ run'.phase = "gates" /\ run'.ids = ids
      /\ run'.proceed = run.proceed /\ run'.list = run.list /\ run'.org = run.org
  BY <1>1, <1>2 DEF IInv, TypeOK, RunRecord
<1>4. TypeOK'
  BY <1>1, <1>3 DEF IInv, TypeOK
<1>5. ConsentInv'
  BY <1>1, <1>2, <1>3 DEF IInv, ConsentInv
<1>6. KeptInv'
  BY <1>1, <1>2, <1>3 DEF IInv, KeptInv
<1>7. WiredInv'
  BY <1>1, <1>3 DEF IInv, WiredInv
<1> QED
  BY <1>4, <1>5, <1>6, <1>7 DEF IInv

\* An org that lists a service is among the entries a run of it looks at, and
\* without an org-key some entry is found.
LEMMA EntryFound ==
    ASSUME IInv, NEW s \in Services, s \in registry[run.org], run.org \in Orgs
    PROVE  /\ OrgEntries(s) # {}
           /\ run.keyed => OrgEntries(s) = {run.org}
<1>1. run.org \in OrgsListing(s)
  BY DEF OrgsListing
<1> QED
  BY <1>1 DEF OrgEntries

\* With an org-key a route proceeds on the entries of the run's own org only,
\* and it does proceed on them.
LEMMA EvaluateGatesStep == ASSUME IInv, EvaluateGates PROVE IInv'
<1> DEFINE Allowed == {s \in run.list : \E o \in OrgEntries(s) : Proceeds(o, s)}
<1>1. /\ UNCHANGED <<registry, wired, releases, issue, changes, consent, kept,
                     blind, left>>
      /\ run.phase = "gates" /\ run \in RunRecord /\ run.org \in Orgs
  BY DEF EvaluateGates, history, IInv, TypeOK, RunRecord
<1>2. CASE /\ run' = [run EXCEPT !.phase = "failed"]
           /\ \E s \in run.list : OrgEntries(s) = {}
  <2>1. /\ run' \in RunRecord /\ run'.phase = "failed" /\ run'.list = run.list
        /\ run'.proceed = run.proceed /\ run'.org = run.org
    BY <1>1, <1>2 DEF RunRecord
  <2>2. run.org \in left
    <3>1. PICK s \in run.list : OrgEntries(s) = {}
      BY <1>2
    <3>2. s \in Services
      BY <1>1 DEF RunRecord
    <3>3. s \notin registry[run.org]
      BY <1>1, <3>1, <3>2, EntryFound
    <3> QED
      BY <1>1, <3>1, <3>3 DEF IInv, WiredInv
  <2>3. TypeOK'
    BY <1>1, <2>1 DEF IInv, TypeOK
  <2>4. ConsentInv' /\ KeptInv'
    BY <1>1, <2>1 DEF IInv, ConsentInv, KeptInv
  <2>5. WiredInv'
    BY <1>1, <2>1, <2>2 DEF IInv, WiredInv
  <2> QED
    BY <2>3, <2>4, <2>5 DEF IInv
<1>3. CASE /\ run' = [run EXCEPT !.phase = "done", !.proceed = Allowed]
           /\ \A s \in run.list : OrgEntries(s) # {}
  <2>1. Allowed \subseteq run.list
    OBVIOUS
  <2>2. run.keyed => \A s \in Allowed :
           {<<run.org, s>>, <<run.org, Parent[s]>>} \subseteq run.ids
    BY DEF OrgEntries, Proceeds
  <2>3. run.keyed => \A s \in run.list :
           {<<run.org, s>>, <<run.org, Parent[s]>>} \subseteq run.ids
             => s \in Allowed
    BY <1>3 DEF OrgEntries, Proceeds
  <2> HIDE DEF Allowed
  <2>4. /\ run' \in RunRecord /\ run'.phase = "done" /\ run'.proceed = Allowed
        /\ run'.list = run.list /\ run'.ids = run.ids
        /\ run'.org = run.org /\ run'.keyed = run.keyed
    BY <1>1, <1>3, <2>1 DEF RunRecord
  <2>5. TypeOK'
    BY <1>1, <2>1, <2>4 DEF IInv, TypeOK
  <2>6. ConsentInv'
    BY <1>1, <2>2, <2>4 DEF IInv, ConsentInv
  <2>7. KeptInv'
    BY <1>1, <2>3, <2>4 DEF IInv, KeptInv
  <2>8. WiredInv'
    BY <1>1, <2>4 DEF IInv, WiredInv
  <2> QED
    BY <2>5, <2>6, <2>7, <2>8 DEF IInv
<1> QED
  BY <1>2, <1>3 DEF EvaluateGates

LEMMA Inductive == IInv /\ [Next]_vars => IInv'
<1> SUFFICES ASSUME IInv, [Next]_vars PROVE IInv'
  OBVIOUS
<1>1. CASE UNCHANGED vars
  BY <1>1 DEF vars, IInv, TypeOK, ConsentInv, KeptInv, WiredInv
<1>2. CASE Next
  BY <1>2, OptInStep, OptOutStep, PromoteStep, RollbackStep, ToggleStep, SyncStep,
     StartRunStep, ReadDashboardStep, EvaluateGatesStep DEF Next
<1> QED
  BY <1>1, <1>2

\* The inductive invariant holds in every reachable state.
THEOREM GatesInvariance == Spec => []IInv
  BY Initially, Inductive, PTL DEF Spec

\* Every variable keeps its shape, a checked box has a row, and an orchestrator
\* lists what its registry does.
THEOREM GatesTypeCorrect == Spec => []TypeOK
<1>1. IInv => TypeOK
  BY DEF IInv
<1> QED
  BY <1>1, GatesInvariance, PTL

\* No route ever proceeds without the boxes of the invoking org, for any orgs,
\* registries, releases and interleaving.
THEOREM OptInAlwaysRespected == Spec => []OptInRespected
<1>1. IInv => OptInRespected
  BY DEF IInv, ConsentInv, OptInRespected
<1> QED
  BY <1>1, GatesInvariance, PTL

\* A route whose boxes stay checked all through a run that could read them
\* proceeds, for any orgs, registries, releases and interleaving.
THEOREM CheckedRouteAlwaysProceeds == Spec => []CheckedRouteProceeds
<1>1. IInv => CheckedRouteProceeds
  BY DEF IInv, KeptInv, CheckedRouteProceeds
<1> QED
  BY <1>1, GatesInvariance, PTL

\* The prelude of an org that never opted out succeeds, for any orgs, releases
\* and interleaving.
THEOREM PreludeAlwaysSucceeds == Spec => []PreludeSucceeds
<1>1. IInv => PreludeSucceeds
  BY DEF IInv, WiredInv, PreludeSucceeds
<1> QED
  BY <1>1, GatesInvariance, PTL
=============================================================================
