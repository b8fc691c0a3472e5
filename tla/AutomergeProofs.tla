--------------------------- MODULE AutomergeProofs ---------------------------
(***************************************************************************)
(* Proofs about Automerge, for any number of heads, runs and changes, any  *)
(* reviewers and collections, with and without faults.                     *)
(***************************************************************************)
EXTENDS Automerge, FiniteSetTheorems, TLAPS

\* What may be merged: somebody approved it, and its files are of a collection.
Cleared(h) == h \in approved /\ files[h] # Unclassified

Gate == {"approve", "assert"}
Trying == {"head", "label", "review", "put", "arm"}

\* The gate of a run looks at the live head, the assertion requires it to be
\* the head of the event: heads only grow, so the gate saw that head too.
ClearedRun(r) ==
    /\ r.sha <= head
    /\ r.phase \in Gate /\ head = r.sha => files[head] # Unclassified
    /\ r.phase \in Trying => Cleared(r.sha)

\* A step that saw the label or the approval is of an attempt that is not in
\* the history of those that never had it.
Attempt(n) ==
    /\ runs[n].phase \in {"review", "put"} => n \notin optedOut
    /\ runs[n].phase = "put" => n \notin revoked
    /\ HasApproval(runs[n].sha) => n \notin revoked

\* What a run remembers of its answers is still so.
Truthful(r) ==
    /\ \A a \in 1 .. 2 : r.result[a] = "merged" => state = "merged"
    /\ r.arm = "success" => r.sha \in armed
    /\ r.phase # "done" => r.outcome = ""
    /\ r.outcome = "success" =>
         state = "merged" \/ r.sha \in armed \/ r.result[1] = "skipped"

RunInv(n) == ClearedRun(runs[n]) /\ Attempt(n) /\ Truthful(runs[n])

\* Who merged is past the attempt that did.
Merger ==
    /\ by # 0 => state = "merged" /\ Cleared(head) /\ by \notin optedOut
    /\ by \in 1 .. MaxRuns =>
         /\ by \in DOMAIN runs /\ runs[by].phase \in {"report", "done"}
         /\ by \notin revoked

ArmedInv == \A h \in armed : Cleared(h)

DeferredInv ==
    deferred.phase \in {"verify", "collection", "put"} =>
        Cleared(deferred.sha) /\ Deferred \notin optedOut

LabelInv == label => optedOut = {}

IInv ==
    /\ TypeOK /\ Merger /\ ArmedInv /\ DeferredInv /\ LabelInv
    /\ \A n \in DOMAIN runs : RunInv(n)

DeferredPhases == {"none", "discover", "verify", "collection", "put"}

LEMMA RunsType ==
    ASSUME TypeOK
    PROVE  /\ runs \in [DOMAIN runs -> RunRecord]
           /\ DOMAIN runs \subseteq 1 .. MaxRuns
           /\ Deferred \notin DOMAIN runs
           /\ 0 \notin DOMAIN runs
<1>1. PICK k \in 0 .. MaxRuns : runs \in [1 .. k -> RunRecord]
  BY DEF TypeOK
<1>2. MaxRuns \in Nat
  BY AutomergeAssumption
<1> QED
  BY <1>1, <1>2 DEF Deferred

LEMMA Initially == Init => IInv
<1> SUFFICES ASSUME Init PROVE IInv
  OBVIOUS
<1>0. AutomergeAssumption
  BY AutomergeAssumption
<1>1. 1 \in Heads /\ 0 \in 0 .. MaxRuns /\ runs \in [1 .. 0 -> RunRecord]
  BY <1>0 DEF Init, Heads, AutomergeAssumption
<1>2. \A h \in Heads : ~HasApproval(h)
  BY DEF Init, HasApproval
<1>3. reviews \in [Reviewers -> [Heads -> {"none", "approved", "revoked"}]]
  BY DEF Init
<1>4. TypeOK
  <2>1. MaxRuns \in Nat /\ MaxChanges \in Nat
    BY <1>0 DEF AutomergeAssumption
  <2>2. \E k \in 0 .. MaxRuns : runs \in [1 .. k -> RunRecord]
    BY <1>1, <2>1
  <2>3. 0 \in 0 .. Deferred /\ 0 \in 0 .. MaxChanges
    BY <2>1 DEF Deferred
  <2> QED
    BY <1>1, <1>2, <1>3, <2>2, <2>3 DEF Init, TypeOK
<1>5. Merger /\ ArmedInv /\ DeferredInv /\ LabelInv
  BY <1>0 DEF Init, Merger, ArmedInv, DeferredInv, LabelInv, AutomergeAssumption
<1>6. DOMAIN runs = {}
  BY DEF Init
<1> QED
  BY <1>4, <1>5, <1>6 DEF IInv

-----------------------------------------------------------------------------
(* Steps of one run *)

\* What a step of the run n that calls nothing that changes the pull request
\* must keep.
LEMMA RunUpdate ==
    ASSUME IInv, NEW n \in DOMAIN runs, NEW r \in RunRecord, Set(n, r),
           gated' \in BOOLEAN,
           UNCHANGED <<pr, armed, deferred, history>>,
           r.sha = runs[n].sha, ClearedRun(r), Truthful(r),
           runs[n].phase \notin {"report", "done"} \/ r.phase \in {"report", "done"},
           r.phase \in {"review", "put"} => n \notin optedOut,
           r.phase = "put" => n \notin revoked
    PROVE  IInv'
<1>1. /\ runs \in [DOMAIN runs -> RunRecord]
      /\ runs' = [runs EXCEPT ![n] = r] /\ DOMAIN runs' = DOMAIN runs
      /\ runs'[n] = r /\ \A m \in DOMAIN runs \ {n} : runs'[m] = runs[m]
  BY RunsType DEF IInv, Set
<1>2. /\ UNCHANGED <<state, head, label, reviews, checks, files, enabled>>
      /\ UNCHANGED <<armed, deferred, changes, approved, optedOut, revoked, by>>
  BY DEF pr, history
<1>3. TypeOK'
  <2>1. \E k \in 0 .. MaxRuns : runs' \in [1 .. k -> RunRecord]
    BY <1>1 DEF IInv, TypeOK
  <2> QED
    BY <1>1, <1>2, <2>1 DEF IInv, TypeOK, HasApproval
<1>4. Merger' /\ ArmedInv' /\ DeferredInv' /\ LabelInv'
  BY <1>1, <1>2 DEF IInv, Merger, ArmedInv, DeferredInv, LabelInv, Cleared
<1>5. ASSUME NEW m \in DOMAIN runs' PROVE RunInv(m)'
  <2>1. CASE m = n
    BY <1>1, <1>2, <2>1 DEF IInv, RunInv, ClearedRun, Attempt, Truthful, Cleared, HasApproval
  <2>2. CASE m # n
    BY <1>1, <1>2, <2>2 DEF IInv, RunInv, ClearedRun, Attempt, Truthful, Cleared, HasApproval
  <2> QED
    BY <2>1, <2>2
<1> QED
  BY <1>3, <1>4, <1>5 DEF IInv

\* The same for the step that begins a merge attempt.
LEMMA RunStarts ==
    ASSUME IInv, NEW n \in DOMAIN runs, NEW r \in RunRecord, Set(n, r),
           Starts(n, r.sha),
           UNCHANGED <<pr, gated, armed, deferred>>,
           r.sha = runs[n].sha, ClearedRun(r), Truthful(r), r.phase = "head",
           runs[n].phase \notin {"report", "done"}
    PROVE  IInv'
<1>1. /\ runs \in [DOMAIN runs -> RunRecord] /\ Deferred \notin DOMAIN runs
      /\ runs' = [runs EXCEPT ![n] = r] /\ DOMAIN runs' = DOMAIN runs
      /\ runs'[n] = r /\ \A m \in DOMAIN runs \ {n} : runs'[m] = runs[m]
  BY RunsType DEF IInv, Set
<1>2. /\ UNCHANGED <<state, head, label, reviews, checks, files, enabled, gated>>
      /\ UNCHANGED <<armed, deferred, changes, approved, by>>
  BY DEF pr, Starts
<1>3. /\ optedOut' = IF label THEN optedOut \ {n} ELSE optedOut \union {n}
      /\ revoked' = IF HasApproval(r.sha) THEN revoked \ {n} ELSE revoked \union {n}
  BY DEF Starts
<1>4. by # n
  BY <1>1, RunsType DEF IInv, Merger
<1>5. TypeOK'
  <2>1. \E k \in 0 .. MaxRuns : runs' \in [1 .. k -> RunRecord]
    BY <1>1 DEF IInv, TypeOK
  <2> QED
    BY <1>1, <1>2, <1>3, <2>1 DEF IInv, TypeOK, HasApproval
<1>6. Merger' /\ ArmedInv' /\ DeferredInv' /\ LabelInv'
  <2>1. Merger'
    BY <1>1, <1>2, <1>3, <1>4 DEF IInv, Merger, Cleared
  <2>2. ArmedInv' /\ DeferredInv' /\ LabelInv'
    BY <1>1, <1>2, <1>3 DEF IInv, ArmedInv, DeferredInv, LabelInv, Cleared
  <2> QED
    BY <2>1, <2>2
<1>7. ASSUME NEW m \in DOMAIN runs' PROVE RunInv(m)'
  <2>1. CASE m = n
    BY <1>1, <1>2, <1>3, <2>1
    DEF IInv, RunInv, ClearedRun, Attempt, Truthful, Cleared, HasApproval
  <2>2. CASE m # n
    BY <1>1, <1>2, <1>3, <2>2
    DEF IInv, RunInv, ClearedRun, Attempt, Truthful, Cleared, HasApproval
  <2> QED
    BY <2>1, <2>2
<1> QED
  BY <1>5, <1>6, <1>7 DEF IInv
-----------------------------------------------------------------------------
(* Steps of people and of GitHub *)

LEMMA EventType ==
    ASSUME TypeOK, NEW sha \in Heads, Event(sha)
    PROVE  \/ runs' = runs
           \/ \E k \in Nat :
                /\ k + 1 \in 1 .. MaxRuns
                /\ runs' \in [1 .. k + 1 -> RunRecord]
                /\ DOMAIN runs' = DOMAIN runs \union {k + 1}
                /\ k + 1 \notin DOMAIN runs
                /\ \A n \in DOMAIN runs : runs'[n] = runs[n]
                /\ runs'[k + 1] = NewRun(sha)
<1>1. PICK k \in 0 .. MaxRuns : runs \in [1 .. k -> RunRecord]
  BY DEF TypeOK
<1>2. MaxRuns \in Nat
  BY AutomergeAssumption
<1>3. k \in Nat /\ Cardinality(DOMAIN runs) = k /\ DOMAIN runs = 1 .. k
  BY <1>1, <1>2, FS_Interval
<1>4. NewRun(sha) \in RunRecord
  <2>1. /\ [a \in 1 .. 2 |-> ""] \in [1 .. 2 -> Results]
        /\ [a \in 1 .. 2 |-> ""] \in [1 .. 2 -> Reasons]
    BY DEF Results, Reasons
  <2>2. /\ enabled \in SUBSET (Collections \union {Parent})
        /\ "verify" \in Phases /\ "" \in Reasons /\ "skipped" \in JobResults
        /\ "" \in Outcomes /\ 1 \in 1 .. 2
    BY DEF TypeOK, Phases, Reasons, JobResults, Outcomes
  <2> QED
    BY <2>1, <2>2 DEF NewRun, RunRecord
<1>5. CASE runs' = runs
  BY <1>5
<1>6. CASE runs' # runs
  <2>1. /\ k + 1 \in 1 .. MaxRuns
        /\ runs' = [n \in 1 .. k + 1 |-> IF n \in DOMAIN runs THEN runs[n]
                                         ELSE NewRun(sha)]
    BY <1>2, <1>3, <1>6 DEF Event
  <2>2. runs' \in [1 .. k + 1 -> RunRecord]
    BY <1>1, <1>3, <1>4, <2>1
  <2>3. /\ DOMAIN runs' = DOMAIN runs \union {k + 1} /\ k + 1 \notin DOMAIN runs
        /\ \A n \in DOMAIN runs : runs'[n] = runs[n]
        /\ runs'[k + 1] = NewRun(sha)
    BY <1>3, <2>1
  <2> QED
    BY <1>3, <2>1, <2>2, <2>3
<1> QED
  BY <1>5, <1>6

LEMMA NewRunFacts ==
    ASSUME NEW sha \in Heads
    PROVE  /\ NewRun(sha).sha = sha /\ NewRun(sha).phase = "verify"
           /\ \A a \in 1 .. 2 : NewRun(sha).result[a] = ""
           /\ NewRun(sha).arm = "skipped" /\ NewRun(sha).outcome = ""
  BY DEF NewRun

\* A change of the pull request that adds no approval; a new head starts a run
\* of its own and leaves those of older heads behind it.
LEMMA PeopleStep ==
    ASSUME IInv, NEW sha \in Heads, runs' = runs \/ Event(sha),
           sha = head', head <= head', head' # head => state = "open",
           state' \in {"open", "merged", "closed"},
           state = "merged" <=> state' = "merged",
           label' \in BOOLEAN, checks' \in {"pending", "green"},
           enabled' \subseteq Collections \union {Parent},
           changes' \in 0 .. MaxChanges,
           optedOut' \subseteq optedOut, label' => optedOut' = {},
           UNCHANGED <<reviews, files, gated, armed, deferred, approved, revoked, by>>
    PROVE  IInv'
<1>1. /\ runs \in [DOMAIN runs -> RunRecord] /\ Deferred \notin DOMAIN runs
      /\ DOMAIN runs \subseteq 1 .. MaxRuns
  BY RunsType DEF IInv
<1>2. /\ DOMAIN runs \subseteq DOMAIN runs'
      /\ \A n \in DOMAIN runs : runs'[n] = runs[n]
      /\ \E k \in 0 .. MaxRuns : runs' \in [1 .. k -> RunRecord]
      /\ \A n \in DOMAIN runs' \ DOMAIN runs : runs'[n] = NewRun(sha)
  <2>1. CASE runs' = runs
    BY <2>1 DEF IInv, TypeOK
  <2>2. CASE runs' # runs
    <3>1. PICK k \in Nat :
                /\ k + 1 \in 1 .. MaxRuns
                /\ runs' \in [1 .. k + 1 -> RunRecord]
                /\ DOMAIN runs' = DOMAIN runs \union {k + 1}
                /\ k + 1 \notin DOMAIN runs
                /\ \A n \in DOMAIN runs : runs'[n] = runs[n]
                /\ runs'[k + 1] = NewRun(sha)
      BY <2>2, EventType DEF IInv
    <3>2. k + 1 \in 0 .. MaxRuns
      BY <3>1, AutomergeAssumption
    <3> QED
      BY <3>1, <3>2
  <2> QED
    BY <2>1, <2>2
<1>3. TypeOK'
  BY <1>2 DEF IInv, TypeOK, HasApproval
<1>4. Merger'
  BY <1>1, <1>2 DEF IInv, Merger, Cleared
<1>5. ArmedInv' /\ DeferredInv' /\ LabelInv'
  BY DEF IInv, ArmedInv, DeferredInv, LabelInv, Cleared
<1>6. ASSUME NEW n \in DOMAIN runs' PROVE RunInv(n)'
  <2>1. CASE n \in DOMAIN runs
    <3>1. runs[n].sha \in Heads /\ head \in Heads /\ head' \in Heads
      BY <1>1, <2>1 DEF IInv, TypeOK, RunRecord
    <3>2. RunInv(n) /\ runs'[n] = runs[n]
      BY <1>2, <2>1 DEF IInv
    <3>3. head' = runs[n].sha => head = runs[n].sha
      BY <3>1, <3>2 DEF RunInv, ClearedRun, Heads
    <3>4. runs[n].sha <= head'
      BY <3>1, <3>2 DEF RunInv, ClearedRun, Heads
    <3>5. ClearedRun(runs[n])'
      BY <3>2, <3>3, <3>4 DEF RunInv, ClearedRun, Cleared
    <3>6. Attempt(n)' /\ Truthful(runs[n])'
      BY <3>2 DEF RunInv, Attempt, Truthful, HasApproval
    <3> QED
      BY <3>2, <3>5, <3>6 DEF RunInv
  <2>2. CASE n \notin DOMAIN runs
    <3>1. runs'[n] = NewRun(sha) /\ n \notin revoked
      BY <1>2, <2>2 DEF IInv, TypeOK
    <3>2. /\ runs'[n].sha = sha /\ runs'[n].phase = "verify"
          /\ \A a \in 1 .. 2 : runs'[n].result[a] = ""
          /\ runs'[n].arm = "skipped" /\ runs'[n].outcome = ""
      <4>1. runs'[n] = NewRun(sha)
        BY <3>1
      <4>2. /\ NewRun(sha).sha = sha /\ NewRun(sha).phase = "verify"
            /\ \A a \in 1 .. 2 : NewRun(sha).result[a] = ""
            /\ NewRun(sha).arm = "skipped" /\ NewRun(sha).outcome = ""
        BY NewRunFacts, Zenon
      <4> QED
        BY <4>1, <4>2, Zenon
    <3>3. ClearedRun(runs[n])'
      <4>1. sha <= sha
        BY DEF Heads
      <4> QED
        BY <3>2, <4>1 DEF ClearedRun, Gate, Trying
    <3>4. Attempt(n)' /\ Truthful(runs[n])'
      BY <3>1, <3>2 DEF Attempt, Truthful
    <3> QED
      BY <3>3, <3>4 DEF RunInv
  <2> QED
    BY <2>1, <2>2
<1> QED
  BY <1>3, <1>4, <1>5, <1>6 DEF IInv

\* A review adds to what was approved, and an approval ends the withdrawal of
\* its head.
LEMMA ReviewFacts ==
    ASSUME IInv, NEW r \in Reviewers, NEW h \in Heads,
           NEW verdict \in {"approved", "revoked"}, Review(r, h, verdict)
    PROVE  /\ reviews' \in [Reviewers -> [Heads -> {"none", "approved", "revoked"}]]
           /\ approved \subseteq approved' /\ approved' \subseteq Heads
           /\ revoked' \subseteq revoked
           /\ UNCHANGED <<optedOut, by>>
           /\ \A k \in Heads : HasApproval(k)' => k \in approved'
           /\ \A k \in Heads, n \in DOMAIN runs :
                 HasApproval(k)' /\ k = runs[n].sha => n \notin revoked'
<1>1. /\ reviews' = [reviews EXCEPT ![r][h] = verdict]
      /\ UNCHANGED <<optedOut, by>>
  BY DEF Review
<1>2. reviews' \in [Reviewers -> [Heads -> {"none", "approved", "revoked"}]]
  BY <1>1 DEF IInv, TypeOK
<1>3. \A k \in Heads : HasApproval(k)' =>
         HasApproval(k) \/ (k = h /\ verdict = "approved")
  BY <1>1 DEF IInv, TypeOK, HasApproval
<1>4. \A n \in DOMAIN runs : runs[n].sha \in Heads
  BY RunsType DEF IInv, RunRecord
<1>5. \A n \in DOMAIN runs : HasApproval(runs[n].sha) => n \notin revoked
  BY DEF IInv, RunInv, Attempt
<1>6. \A k \in Heads : HasApproval(k) => k \in approved
  BY DEF IInv, TypeOK
<1>7. CASE verdict = "approved"
  <2>1. /\ approved' = approved \union {h}
        /\ revoked' = {n \in revoked : runs[n].sha # h}
    BY <1>7 DEF Review
  <2>2. approved \subseteq approved' /\ approved' \subseteq Heads
    BY <2>1 DEF IInv, TypeOK
  <2>3. \A k \in Heads : HasApproval(k)' => k \in approved'
    BY <1>3, <1>6, <2>1
  <2>4. \A k \in Heads, n \in DOMAIN runs :
           HasApproval(k)' /\ k = runs[n].sha => n \notin revoked'
    BY <1>3, <1>4, <1>5, <2>1
  <2> QED
    BY <1>1, <1>2, <2>1, <2>2, <2>3, <2>4
<1>8. CASE verdict # "approved"
  <2>1. UNCHANGED <<approved, revoked>>
    BY <1>8 DEF Review
  <2>2. \A k \in Heads : HasApproval(k)' => k \in approved'
    BY <1>3, <1>6, <1>8, <2>1
  <2>3. \A k \in Heads, n \in DOMAIN runs :
           HasApproval(k)' /\ k = runs[n].sha => n \notin revoked'
    BY <1>3, <1>4, <1>5, <1>8, <2>1
  <2> QED
    BY <1>1, <1>2, <2>1, <2>2, <2>3 DEF IInv, TypeOK
<1> QED
  BY <1>7, <1>8

LEMMA PersonReviewsStep ==
    ASSUME IInv, NEW r \in Reviewers, NEW h \in Heads,
           NEW verdict \in {"approved", "revoked"}, PersonReviews(r, h, verdict)
    PROVE  IInv'
<1>1. /\ reviews' \in [Reviewers -> [Heads -> {"none", "approved", "revoked"}]]
      /\ approved \subseteq approved' /\ approved' \subseteq Heads
      /\ revoked' \subseteq revoked
      /\ UNCHANGED <<optedOut, by>>
      /\ \A k \in Heads : HasApproval(k)' => k \in approved'
      /\ \A k \in Heads, n \in DOMAIN runs :
           HasApproval(k)' /\ k = runs[n].sha => n \notin revoked'
  BY ReviewFacts DEF PersonReviews
<1>2. UNCHANGED <<state, head, label, checks, files, enabled, gated, armed, runs,
                  deferred>>
  BY DEF PersonReviews
<1>3. changes' \in 0 .. MaxChanges
  BY AutomergeAssumption DEF PersonReviews, Change, IInv, TypeOK
<1>4. TypeOK'
  BY <1>1, <1>2, <1>3 DEF IInv, TypeOK
<1>5. Merger' /\ ArmedInv' /\ DeferredInv' /\ LabelInv'
  BY <1>1, <1>2 DEF IInv, Merger, ArmedInv, DeferredInv, LabelInv, Cleared
<1>6. ASSUME NEW n \in DOMAIN runs' PROVE RunInv(n)'
  <2>1. n \in DOMAIN runs /\ RunInv(n) /\ runs[n].sha \in Heads
    BY <1>2, RunsType DEF IInv, RunRecord
  <2>2. ClearedRun(runs[n])' /\ Truthful(runs[n])'
    BY <1>1, <1>2, <2>1 DEF RunInv, ClearedRun, Truthful, Cleared
  <2>3. Attempt(n)'
    BY <1>1, <1>2, <2>1 DEF RunInv, Attempt, HasApproval
  <2> QED
    BY <2>2, <2>3 DEF RunInv
<1> QED
  BY <1>4, <1>5, <1>6 DEF IInv

LEMMA ApproveStep ==
    ASSUME IInv, NEW n \in DOMAIN runs, NEW r \in Reviewers, NEW h \in Heads,
           Approve(n, r, h)
    PROVE  IInv'
<1>1. /\ reviews' \in [Reviewers -> [Heads -> {"none", "approved", "revoked"}]]
      /\ approved \subseteq approved' /\ approved' \subseteq Heads
      /\ revoked' \subseteq revoked
      /\ UNCHANGED <<optedOut, by>>
      /\ \A k \in Heads : HasApproval(k)' => k \in approved'
      /\ \A k \in Heads, m \in DOMAIN runs :
           HasApproval(k)' /\ k = runs[m].sha => m \notin revoked'
  BY ReviewFacts DEF Approve
<1>2. UNCHANGED <<state, head, label, checks, files, enabled, gated, armed,
                  deferred, changes>>
  BY DEF Approve
<1>3. /\ runs \in [DOMAIN runs -> RunRecord] /\ runs[n].phase = "approve"
      /\ runs' = [runs EXCEPT ![n] = [runs[n] EXCEPT !.phase = "assert"]]
  BY RunsType DEF IInv, Approve, AtPhase, Set
<1>4. /\ DOMAIN runs' = DOMAIN runs
      /\ runs'[n] = [runs[n] EXCEPT !.phase = "assert"]
      /\ \A m \in DOMAIN runs \ {n} : runs'[m] = runs[m]
      /\ [runs[n] EXCEPT !.phase = "assert"] \in RunRecord
  BY <1>3 DEF RunRecord, Phases
<1>5. TypeOK'
  <2>1. \E k \in 0 .. MaxRuns : runs' \in [1 .. k -> RunRecord]
    BY <1>3, <1>4 DEF IInv, TypeOK
  <2> QED
    BY <1>1, <1>2, <1>4, <2>1 DEF IInv, TypeOK
<1>6. Merger' /\ ArmedInv' /\ DeferredInv' /\ LabelInv'
  BY <1>1, <1>2, <1>3, <1>4 DEF IInv, Merger, ArmedInv, DeferredInv, LabelInv, Cleared
<1>7. ASSUME NEW m \in DOMAIN runs' PROVE RunInv(m)'
  <2>1. m \in DOMAIN runs /\ RunInv(m) /\ runs[m].sha \in Heads
    BY <1>4, RunsType DEF IInv, RunRecord
  <2>2. /\ runs'[m].sha = runs[m].sha /\ runs'[m].result = runs[m].result
        /\ runs'[m].arm = runs[m].arm /\ runs'[m].outcome = runs[m].outcome
    BY <1>3, <1>4, <2>1 DEF RunRecord
  <2>3. \/ runs'[m].phase = runs[m].phase
        \/ runs[m].phase = "approve" /\ runs'[m].phase = "assert"
    BY <1>3, <1>4, <2>1 DEF RunRecord
  <2>4. ClearedRun(runs[m])'
    BY <1>1, <1>2, <2>1, <2>2, <2>3 DEF RunInv, ClearedRun, Cleared, Gate, Trying
  <2>5. Attempt(m)'
    BY <1>1, <2>1, <2>2, <2>3 DEF RunInv, Attempt, HasApproval
  <2>6. Truthful(runs[m])'
    BY <1>2, <2>1, <2>2, <2>3 DEF RunInv, Truthful
  <2> QED
    BY <2>4, <2>5, <2>6 DEF RunInv
<1> QED
  BY <1>5, <1>6, <1>7 DEF IInv
-----------------------------------------------------------------------------
(* The jobs of obs-aw-automerge.yml *)

LEMMA PhaseFacts ==
    ASSUME NEW r \in RunRecord, NEW p \in Phases
    PROVE  /\ [r EXCEPT !.phase = p] \in RunRecord
           /\ [r EXCEPT !.phase = p].phase = p
           /\ [r EXCEPT !.phase = p].sha = r.sha
           /\ [r EXCEPT !.phase = p].result = r.result
           /\ [r EXCEPT !.phase = p].arm = r.arm
           /\ [r EXCEPT !.phase = p].outcome = r.outcome
  BY DEF RunRecord

\* A run that only moves on, to a phase it has the clearance for.
LEMMA MovesOn ==
    ASSUME IInv, NEW n \in DOMAIN runs, NEW p \in Phases,
           Set(n, [runs[n] EXCEPT !.phase = p]), gated' \in BOOLEAN,
           UNCHANGED <<pr, armed, deferred, history>>,
           runs[n].phase # "done",
           runs[n].phase = "report" => p = "done",
           p \in Gate /\ head = runs[n].sha => files[head] # Unclassified,
           p \in Trying => Cleared(runs[n].sha),
           p \in {"review", "put"} => n \notin optedOut,
           p = "put" => n \notin revoked
    PROVE  IInv'
<1>1. runs[n] \in RunRecord /\ RunInv(n)
  BY RunsType DEF IInv
<1> DEFINE r == [runs[n] EXCEPT !.phase = p]
<1>2. /\ r \in RunRecord /\ r.phase = p /\ r.sha = runs[n].sha
      /\ r.result = runs[n].result /\ r.arm = runs[n].arm
      /\ r.outcome = runs[n].outcome
  BY <1>1, PhaseFacts
<1>3. ClearedRun(r)
  BY <1>1, <1>2 DEF RunInv, ClearedRun
<1>4. Truthful(r)
  BY <1>1, <1>2 DEF RunInv, Truthful
<1> HIDE DEF r
<1>5. Set(n, r)
  BY DEF r
<1> QED
  BY <1>2, <1>3, <1>4, <1>5, RunUpdate

LEMMA VerifyStep == ASSUME IInv, NEW n \in DOMAIN runs, Verify(n) PROVE IInv'
<1> DEFINE p == IF label THEN "collection" ELSE "done"
<1>1. p \in Phases \ (Gate \union Trying \union {"review", "put"})
  BY DEF Phases, Gate, Trying
<1>2. /\ runs[n].phase = "verify" /\ Set(n, [runs[n] EXCEPT !.phase = p])
      /\ UNCHANGED <<pr, gated, armed, deferred, history>> /\ gated \in BOOLEAN
  BY DEF Verify, AtPhase, IInv, TypeOK
<1> HIDE DEF p
<1> QED
  BY <1>1, <1>2, MovesOn

LEMMA CheckCollectionStep ==
    ASSUME IInv, NEW n \in DOMAIN runs, CheckCollection(n) PROVE IInv'
<1> DEFINE allowed == Allowed(head, runs[n].enabled)
           p == IF allowed THEN "approve" ELSE "done"
<1>1. p \in Phases \ Trying
  BY DEF Phases, Trying
<1>2. /\ runs[n].phase = "collection" /\ Set(n, [runs[n] EXCEPT !.phase = p])
      /\ UNCHANGED <<pr, armed, deferred, history>> /\ gated' = ~allowed
  BY DEF CheckCollection, AtPhase
<1>3. runs[n].enabled \subseteq Collections \union {Parent}
  BY RunsType DEF IInv, RunRecord
<1>4. allowed => files[head] # Unclassified
  BY <1>3, AutomergeAssumption DEF Allowed, AutomergeAssumption, Parent, Unclassified
<1>5. p \in Gate => files[head] # Unclassified
  BY <1>4 DEF Gate
<1>6. gated' \in BOOLEAN
  BY <1>2
<1>7. p \notin {"review", "put"}
  BY DEF p
<1> HIDE DEF p
<1> QED
  BY <1>1, <1>2, <1>5, <1>6, <1>7, MovesOn

LEMMA ApproveWithoutReviewStep ==
    ASSUME IInv, NEW n \in DOMAIN runs, ApproveWithoutReview(n) PROVE IInv'
<1>1. /\ runs[n].phase = "approve" /\ Set(n, [runs[n] EXCEPT !.phase = "assert"])
      /\ UNCHANGED <<pr, gated, armed, deferred, history>> /\ gated \in BOOLEAN
  BY DEF ApproveWithoutReview, AtPhase, IInv, TypeOK
<1>2. head = runs[n].sha => files[head] # Unclassified
  BY <1>1 DEF IInv, RunInv, ClearedRun, Gate
<1>3. "assert" \in Phases \ Trying
  BY DEF Phases, Trying
<1> QED
  BY <1>1, <1>2, <1>3, MovesOn

LEMMA EndedFacts ==
    ASSUME NEW r \in RunRecord, NEW result \in Results, NEW why \in Reasons
    PROVE  /\ Ended(r, result, why) \in RunRecord
           /\ Ended(r, result, why).sha = r.sha
           /\ Ended(r, result, why).arm = r.arm
           /\ Ended(r, result, why).outcome = r.outcome
           /\ Ended(r, result, why).phase \in {"head", "arm", "report"}
           /\ result = "merged" => Ended(r, result, why).phase = "report"
           /\ \A a \in 1 .. 2 : Ended(r, result, why).result[a] = "merged"
                                  => r.result[a] = "merged" \/ result = "merged"
<1> DEFINE a == r.attempt
           ended == [r EXCEPT !.result[a] = result, !.why[a] = why]
           again == /\ result \in {"merge_failed", "not_ready"}
                    /\ why \notin {"missing_approval", "verify_failed"}
           number == IF again THEN 2 ELSE 1
           phase == IF again THEN "head" ELSE "report"
           first == [ended EXCEPT !.attempt = number, !.phase = phase]
           second == [ended EXCEPT !.rest = IF result \in {"merged", "not_ready"}
                                            THEN "success" ELSE "failure",
                                   !.phase = IF result = "not_ready" THEN "arm"
                                             ELSE "report"]
<1>1. Ended(r, result, why) = IF a = 1 THEN first ELSE second
  BY DEF Ended
<1>2. /\ ended \in RunRecord /\ ended.sha = r.sha /\ ended.arm = r.arm
      /\ ended.outcome = r.outcome
      /\ \A b \in 1 .. 2 : ended.result[b] = r.result[b] \/ ended.result[b] = result
  BY DEF RunRecord
<1>5. number \in 1 .. 2 /\ phase \in {"head", "report"} /\ (again <=> phase = "head")
  OBVIOUS
<1>6. {"head", "report"} \subseteq Phases
  BY DEF Phases
<1> HIDE DEF ended, number, phase
<1>3. /\ first \in RunRecord /\ first.sha = r.sha /\ first.arm = r.arm
      /\ first.outcome = r.outcome /\ first.result = ended.result
      /\ first.phase = phase
  BY <1>2, <1>5, <1>6 DEF RunRecord
<1>4. /\ second \in RunRecord /\ second.sha = r.sha /\ second.arm = r.arm
      /\ second.outcome = r.outcome /\ second.result = ended.result
      /\ second.phase = IF result = "not_ready" THEN "arm" ELSE "report"
  BY <1>2 DEF RunRecord, Phases, JobResults
<1> QED
  BY <1>1, <1>2, <1>3, <1>4, <1>5

LEMMA EndStep ==
    ASSUME IInv, NEW n \in DOMAIN runs, runs[n].phase \in {"head", "label", "review", "put"},
           NEW result \in Results, NEW why \in Reasons,
           result = "merged" => state = "merged",
           End(n, result, why)
    PROVE  IInv'
<1>1. runs[n] \in RunRecord /\ RunInv(n)
  BY RunsType DEF IInv
<1> DEFINE e == Ended(runs[n], result, why)
<1>2. /\ e \in RunRecord /\ e.sha = runs[n].sha /\ e.arm = runs[n].arm
      /\ e.outcome = runs[n].outcome /\ e.phase \in {"head", "arm", "report"}
      /\ \A a \in 1 .. 2 : e.result[a] = "merged" =>
            runs[n].result[a] = "merged" \/ result = "merged"
  BY <1>1, EndedFacts
<1>3. /\ Set(n, e)
      /\ IF e.phase = "head" THEN Starts(n, e.sha) ELSE UNCHANGED history
      /\ UNCHANGED <<pr, gated, armed, deferred>> /\ gated \in BOOLEAN
  BY DEF End, IInv, TypeOK
<1> HIDE DEF e
<1>4. ClearedRun(e)
  BY <1>1, <1>2 DEF RunInv, ClearedRun, Trying, Gate
<1>5. Truthful(e)
  <2>1. runs[n].outcome = ""
    BY <1>1 DEF RunInv, Truthful
  <2> QED
    BY <1>1, <1>2, <2>1 DEF RunInv, Truthful
<1>6. CASE e.phase = "head"
  BY <1>2, <1>3, <1>4, <1>5, <1>6, RunStarts
<1>7. CASE e.phase # "head"
  BY <1>2, <1>3, <1>4, <1>5, <1>7, RunUpdate
<1> QED
  BY <1>6, <1>7
LEMMA DiesStep == ASSUME IInv, NEW n \in DOMAIN runs, Dies(n) PROVE IInv'
<1>1. UNCHANGED <<pr, gated, armed, deferred, history>> /\ gated \in BOOLEAN
  BY DEF Dies, IInv, TypeOK
<1>2. runs[n] \in RunRecord /\ RunInv(n)
  BY RunsType DEF IInv
<1>3. CASE /\ runs[n].phase \in {"verify", "collection", "approve", "report"}
           /\ Set(n, [runs[n] EXCEPT !.phase = "done"])
  <2>1. "done" \in Phases \ (Gate \union Trying)
    BY DEF Phases, Gate, Trying
  <2> QED
    BY <1>1, <1>3, <2>1, MovesOn
<1>4. CASE /\ runs[n].phase = "head"
           /\ Set(n, [runs[n] EXCEPT !.phase = "report",
                       !.rest = IF runs[n].attempt = 2 THEN "failure" ELSE @])
  <2> DEFINE r == [runs[n] EXCEPT !.phase = "report",
                     !.rest = IF runs[n].attempt = 2 THEN "failure" ELSE @]
  <2>1. /\ r \in RunRecord /\ r.phase = "report" /\ r.sha = runs[n].sha
        /\ r.result = runs[n].result /\ r.arm = runs[n].arm
        /\ r.outcome = runs[n].outcome
    BY <1>2 DEF RunRecord, Phases, JobResults
  <2>2. Set(n, r)
    BY <1>4
  <2> HIDE DEF r
  <2>3. ClearedRun(r) /\ Truthful(r)
    BY <1>2, <1>4, <2>1 DEF RunInv, ClearedRun, Truthful, Gate, Trying
  <2> QED
    BY <1>1, <1>4, <2>1, <2>2, <2>3, RunUpdate
<1> QED
  BY <1>3, <1>4 DEF Dies

LEMMA AssertStep ==
    ASSUME IInv, NEW n \in DOMAIN runs, AssertApprovedReview(n) PROVE IInv'
<1> DEFINE reason == IF head # runs[n].sha THEN "stale_head"
                     ELSE IF HasApproval(runs[n].sha) THEN "ok"
                     ELSE "missing_approval"
<1>1. /\ runs[n] \in RunRecord /\ RunInv(n) /\ runs[n].phase = "assert"
      /\ UNCHANGED <<pr, gated, armed, deferred>> /\ gated \in BOOLEAN
  BY RunsType DEF IInv, TypeOK, AssertApprovedReview, AtPhase
<1>2. PICK why \in {reason, "verify_failed"} :
         /\ Set(n, [runs[n] EXCEPT !.reason = why,
                      !.phase = IF why = "ok" THEN "head" ELSE "report"])
         /\ IF why = "ok" THEN Starts(n, runs[n].sha) ELSE UNCHANGED history
  BY DEF AssertApprovedReview
<1> DEFINE phase == IF why = "ok" THEN "head" ELSE "report"
           r == [runs[n] EXCEPT !.reason = why, !.phase = phase]
<1>3. why \in Reasons /\ phase \in Phases
  BY DEF Reasons, Phases
<1>4. why = "ok" => head = runs[n].sha /\ HasApproval(runs[n].sha)
  BY <1>2
<1>5. why = "ok" => Cleared(runs[n].sha)
  BY <1>1, <1>4 DEF IInv, TypeOK, RunInv, ClearedRun, Cleared, Gate, RunRecord
<1>6. phase = IF why = "ok" THEN "head" ELSE "report"
  OBVIOUS
<1> HIDE DEF phase
<1>7. /\ r \in RunRecord /\ r.phase = phase /\ r.sha = runs[n].sha
      /\ r.result = runs[n].result /\ r.arm = runs[n].arm
      /\ r.outcome = runs[n].outcome
  BY <1>1, <1>3 DEF RunRecord
<1>8. Set(n, r) /\ IF why = "ok" THEN Starts(n, r.sha) ELSE UNCHANGED history
  BY <1>2, <1>6, <1>7
<1> HIDE DEF r
<1>9. ClearedRun(r) /\ Truthful(r)
  BY <1>1, <1>5, <1>6, <1>7 DEF RunInv, ClearedRun, Truthful, Gate, Trying
<1>10. CASE why = "ok"
  BY <1>1, <1>6, <1>7, <1>8, <1>9, <1>10, RunStarts
<1>11. CASE why # "ok"
  BY <1>1, <1>6, <1>7, <1>8, <1>9, <1>11, RunUpdate
<1> QED
  BY <1>10, <1>11

LEMMA ContinueStep ==
    ASSUME IInv, NEW n \in DOMAIN runs, NEW p \in {"label", "review", "put"},
           runs[n].phase \in {"head", "label", "review"}, Continue(n, p),
           p \in {"review", "put"} => n \notin optedOut,
           p = "put" => n \notin revoked
    PROVE  IInv'
<1>1. /\ Set(n, [runs[n] EXCEPT !.phase = p])
      /\ UNCHANGED <<pr, gated, armed, deferred, history>> /\ gated \in BOOLEAN
  BY DEF Continue, IInv, TypeOK
<1>2. Cleared(runs[n].sha)
  BY DEF IInv, RunInv, ClearedRun, Trying
<1>3. p \in Phases \ Gate
  BY DEF Phases, Gate
<1> QED
  BY <1>1, <1>2, <1>3, MovesOn

LEMMA ResultTypes ==
    /\ {"", "merged", "not_ready", "merge_failed", "skipped"} = Results
    /\ {"", "ok", "missing_approval", "verify_failed"} \subseteq Reasons
  BY DEF Results, Reasons

LEMMA RequireSteps ==
    ASSUME IInv, NEW n \in DOMAIN runs,
           RequireHead(n) \/ RequireLabel(n) \/ RequireReview(n)
    PROVE  IInv'
<1>1. CASE RequireHead(n)
  <2>1. CASE Continue(n, "label")
    BY <1>1, <2>1, ContinueStep DEF RequireHead, AtPhase
  <2>2. CASE End(n, "merge_failed", "")
    BY <1>1, <2>2, EndStep, ResultTypes DEF RequireHead, AtPhase
  <2> QED
    BY <1>1, <2>1, <2>2 DEF RequireHead
<1>2. CASE RequireLabel(n)
  <2>1. CASE label /\ Continue(n, "review")
    <3>1. n \notin optedOut
      BY <2>1 DEF IInv, LabelInv
    <3> QED
      BY <1>2, <2>1, <3>1, ContinueStep DEF RequireLabel, AtPhase
  <2>2. CASE End(n, "skipped", "")
    BY <1>2, <2>2, EndStep, ResultTypes DEF RequireLabel, AtPhase
  <2>3. CASE End(n, "merge_failed", "")
    BY <1>2, <2>3, EndStep, ResultTypes DEF RequireLabel, AtPhase
  <2> QED
    BY <1>2, <2>1, <2>2, <2>3 DEF RequireLabel
<1>3. CASE RequireReview(n)
  <2>1. CASE HasApproval(runs[n].sha) /\ Continue(n, "put")
    <3>1. n \notin optedOut /\ n \notin revoked
      BY <1>3, <2>1 DEF IInv, RunInv, Attempt, RequireReview, AtPhase
    <3> QED
      BY <1>3, <2>1, <3>1, ContinueStep DEF RequireReview, AtPhase
  <2>2. CASE End(n, "merge_failed", "missing_approval")
    BY <1>3, <2>2, EndStep, ResultTypes DEF RequireReview, AtPhase
  <2>3. CASE End(n, "merge_failed", "verify_failed")
    BY <1>3, <2>3, EndStep, ResultTypes DEF RequireReview, AtPhase
  <2> QED
    BY <1>3, <2>1, <2>2, <2>3 DEF RequireReview
<1> QED
  BY <1>1, <1>2, <1>3

\* A merge or a new armed head takes nothing from the other runs.
LEMMA OtherRuns ==
    ASSUME IInv, NEW m \in DOMAIN runs, runs'[m] = runs[m],
           state = "merged" => state' = "merged", armed \subseteq armed',
           UNCHANGED <<head, files, reviews, approved, optedOut, revoked>>
    PROVE  RunInv(m)'
  BY DEF IInv, RunInv, ClearedRun, Attempt, Truthful, Cleared, HasApproval

LEMMA PutMergeStep == ASSUME IInv, NEW n \in DOMAIN runs, PutMerge(n) PROVE IInv'
<1> DEFINE e == Ended(runs[n], "merged", "ok")
<1>1. runs[n].phase = "put" /\ runs[n] \in RunRecord /\ RunInv(n)
  BY RunsType DEF IInv, PutMerge, AtPhase
<1>2. CASE /\ MergeAnswer(runs[n].sha) = "ok"
           /\ state' = "merged" /\ by' = n /\ Set(n, e)
           /\ UNCHANGED <<head, label, reviews, checks, files, enabled, gated,
                          armed, deferred, changes, approved, optedOut, revoked>>
  <2>1. state # "merged" /\ head = runs[n].sha
    BY <1>2 DEF MergeAnswer
  <2>2. by = 0 /\ by' = n
    BY <1>2, <2>1 DEF IInv, Merger
  <2>3. /\ e \in RunRecord /\ e.sha = runs[n].sha /\ e.arm = runs[n].arm
        /\ e.outcome = runs[n].outcome /\ e.phase = "report"
    <3>1. "merged" \in Results /\ "ok" \in Reasons
      BY ResultTypes
    <3> QED
      BY <1>1, <3>1, EndedFacts
  <2> HIDE DEF e
  <2>4. /\ runs \in [DOMAIN runs -> RunRecord] /\ DOMAIN runs \subseteq 1 .. MaxRuns
        /\ runs' = [runs EXCEPT ![n] = e] /\ DOMAIN runs' = DOMAIN runs
        /\ runs'[n] = e /\ \A m \in DOMAIN runs \ {n} : runs'[m] = runs[m]
    BY <1>2, RunsType DEF IInv, Set
  <2>5. n \in 0 .. Deferred /\ n # Deferred
    BY <2>4, AutomergeAssumption DEF AutomergeAssumption, Deferred
  <2>6. TypeOK'
    <3>1. \E k \in 0 .. MaxRuns : runs' \in [1 .. k -> RunRecord]
      BY <2>3, <2>4 DEF IInv, TypeOK
    <3> QED
      BY <1>2, <2>4, <2>5, <3>1 DEF IInv, TypeOK, HasApproval
  <2>7. Merger'
    BY <1>1, <1>2, <2>1, <2>2, <2>3, <2>4
    DEF RunInv, ClearedRun, Attempt, Cleared, Trying, Merger
  <2>8. ArmedInv' /\ DeferredInv' /\ LabelInv'
    BY <1>2 DEF IInv, ArmedInv, DeferredInv, LabelInv, Cleared
  <2>9. RunInv(n)'
    BY <1>1, <1>2, <2>3, <2>4
    DEF RunInv, ClearedRun, Attempt, Truthful, HasApproval, Gate, Trying
  <2>10. \A m \in DOMAIN runs \ {n} : RunInv(m)'
    BY <1>2, <2>4, OtherRuns
  <2> QED
    BY <2>4, <2>6, <2>7, <2>8, <2>9, <2>10 DEF IInv
<1>3. CASE MergeAnswer(runs[n].sha) = "already_merged" /\ End(n, "merged", "ok")
  <2>1. state = "merged"
    BY <1>3 DEF MergeAnswer
  <2> QED
    BY <1>1, <1>3, <2>1, EndStep, ResultTypes
<1>4. CASE End(n, "not_ready", "ok") \/ End(n, "merge_failed", "ok")
  BY <1>1, <1>4, EndStep, ResultTypes
<1> QED
  BY <1>2, <1>3, <1>4 DEF PutMerge

LEMMA ArmStep == ASSUME IInv, NEW n \in DOMAIN runs, Arm(n) PROVE IInv'
<1>1. /\ runs[n].phase = "arm" /\ runs[n] \in RunRecord /\ RunInv(n)
      /\ UNCHANGED <<pr, gated, deferred, history>>
  BY RunsType DEF IInv, Arm, AtPhase
<1>2. PICK arm \in {"success", "failure"} :
         /\ Set(n, [runs[n] EXCEPT !.arm = arm, !.phase = "report"])
         /\ armed' = IF arm = "success" THEN armed \union {runs[n].sha} ELSE armed
  BY DEF Arm, ArmedHead
<1> DEFINE r == [runs[n] EXCEPT !.arm = arm, !.phase = "report"]
<1>3. /\ r \in RunRecord /\ r.phase = "report" /\ r.sha = runs[n].sha
      /\ r.result = runs[n].result /\ r.arm = arm /\ r.outcome = runs[n].outcome
  BY <1>1 DEF RunRecord, Phases, JobResults
<1>4. /\ runs \in [DOMAIN runs -> RunRecord]
      /\ runs' = [runs EXCEPT ![n] = r] /\ DOMAIN runs' = DOMAIN runs
      /\ runs'[n] = r /\ \A m \in DOMAIN runs \ {n} : runs'[m] = runs[m]
  BY <1>2, RunsType DEF IInv, Set
<1> HIDE DEF r
<1>5. /\ UNCHANGED <<state, head, label, reviews, checks, files, enabled, gated>>
      /\ UNCHANGED <<deferred, changes, approved, optedOut, revoked, by>>
  BY <1>1 DEF pr, history
<1>6. Cleared(runs[n].sha) /\ runs[n].sha \in Heads
  BY <1>1 DEF RunInv, ClearedRun, Trying, RunRecord
<1>7. TypeOK'
  <2>1. \E k \in 0 .. MaxRuns : runs' \in [1 .. k -> RunRecord]
    BY <1>3, <1>4 DEF IInv, TypeOK
  <2> QED
    BY <1>2, <1>4, <1>5, <1>6, <2>1 DEF IInv, TypeOK, HasApproval
<1>8. Merger' /\ DeferredInv' /\ LabelInv'
  BY <1>1, <1>3, <1>4, <1>5 DEF IInv, Merger, DeferredInv, LabelInv, Cleared
<1>9. ArmedInv'
  BY <1>2, <1>5, <1>6 DEF IInv, ArmedInv, Cleared
<1>10. RunInv(n)'
  BY <1>1, <1>2, <1>3, <1>4, <1>5
  DEF RunInv, ClearedRun, Attempt, Truthful, HasApproval, Gate, Trying
<1>11. \A m \in DOMAIN runs \ {n} : RunInv(m)'
  BY <1>2, <1>4, <1>5, OtherRuns
<1> QED
  BY <1>4, <1>7, <1>8, <1>9, <1>10, <1>11 DEF IInv

LEMMA OutcomeFacts ==
    ASSUME NEW run \in RunRecord
    PROVE  /\ Outcome(run) \in Outcomes
           /\ Outcome(run) = "success" =>
                \/ run.result[1] = "merged" \/ state = "merged"
                \/ run.result[2] = "merged" \/ run.arm = "success"
                \/ run.result[1] = "skipped"
<1>1. \A x \in Doubts : x \in Outcomes /\ x # "success"
  BY DEF Doubts, Outcomes
<1>2. {"success", "rest_blocked", "failure", "missing_approval", "blocked"}
        \subseteq Outcomes
  BY DEF Outcomes
<1> QED
  BY <1>1, <1>2 DEF Outcome

LEMMA ReportStep == ASSUME IInv, NEW n \in DOMAIN runs, Report(n) PROVE IInv'
<1>1. /\ runs[n].phase = "report" /\ runs[n] \in RunRecord /\ RunInv(n)
      /\ UNCHANGED <<pr, gated, armed, deferred, history>> /\ gated \in BOOLEAN
  BY RunsType DEF IInv, TypeOK, Report, AtPhase
<1> DEFINE o == Outcome(runs[n])
           r == [runs[n] EXCEPT !.outcome = o, !.phase = "done"]
<1>2. /\ o \in Outcomes
      /\ o = "success" =>
           \/ runs[n].result[1] = "merged" \/ state = "merged"
           \/ runs[n].result[2] = "merged" \/ runs[n].arm = "success"
           \/ runs[n].result[1] = "skipped"
  BY <1>1, OutcomeFacts
<1> HIDE DEF o
<1>3. /\ r \in RunRecord /\ r.phase = "done" /\ r.sha = runs[n].sha
      /\ r.result = runs[n].result /\ r.arm = runs[n].arm /\ r.outcome = o
  BY <1>1, <1>2 DEF RunRecord, Phases
<1>4. Set(n, r)
  BY DEF Report, o
<1> HIDE DEF r
<1>5. ClearedRun(r)
  BY <1>1, <1>3 DEF RunInv, ClearedRun, Gate, Trying
<1>6. Truthful(r)
  <2>1. Truthful(runs[n]) /\ 1 \in 1 .. 2 /\ 2 \in 1 .. 2
    BY <1>1 DEF RunInv
  <2>2. /\ runs[n].result[1] = "merged" => state = "merged"
        /\ runs[n].result[2] = "merged" => state = "merged"
        /\ runs[n].arm = "success" => runs[n].sha \in armed
    BY <2>1 DEF Truthful
  <2>3. o = "success" =>
          state = "merged" \/ r.sha \in armed \/ r.result[1] = "skipped"
    BY <1>2, <1>3, <2>2
  <2> QED
    BY <1>3, <2>1, <2>3 DEF Truthful
<1> QED
  BY <1>1, <1>3, <1>4, <1>5, <1>6, RunUpdate
-----------------------------------------------------------------------------
(* obs-aw-automerge-deferred.yml *)

\* A step of the schedule that leaves the pull request alone.
LEMMA DeferredUpdate ==
    ASSUME IInv, UNCHANGED <<pr, armed, runs, changes, approved, revoked, by>>,
           gated' \in BOOLEAN,
           deferred'.phase \in DeferredPhases, deferred'.sha \in Heads,
           deferred'.phase \in {"verify", "collection", "put"} =>
              Cleared(deferred'.sha) /\ Deferred \notin optedOut',
           optedOut' \subseteq optedOut
             \/ (optedOut' = optedOut \union {Deferred} /\ ~label /\ state # "merged")
    PROVE  IInv'
<1>1. /\ UNCHANGED <<state, head, label, reviews, checks, files, enabled>>
      /\ UNCHANGED <<armed, runs, changes, approved, revoked, by>>
  BY DEF pr
<1>2. Deferred \notin DOMAIN runs
  BY RunsType DEF IInv
<1>3. TypeOK'
  BY <1>1 DEF IInv, TypeOK, HasApproval, DeferredPhases
<1>4. Merger' /\ ArmedInv' /\ DeferredInv' /\ LabelInv'
  BY <1>1 DEF IInv, Merger, ArmedInv, DeferredInv, LabelInv, Cleared
<1>5. \A n \in DOMAIN runs : RunInv(n)'
  BY <1>1, <1>2
  DEF IInv, RunInv, ClearedRun, Attempt, Truthful, Cleared, HasApproval
<1> QED
  BY <1>1, <1>3, <1>4, <1>5 DEF IInv

LEMMA DeferredFacts ==
    ASSUME TypeOK, NEW p, DeferredTo(p)
    PROVE  deferred'.phase = p /\ deferred'.sha = deferred.sha /\ deferred'.sha \in Heads
  BY DEF TypeOK, DeferredTo

LEMMA TickStep == ASSUME IInv, Tick PROVE IInv'
<1>1. deferred'.phase = "discover" /\ deferred'.sha = head
  BY DEF Tick, SetDeferred
<1>2. /\ UNCHANGED <<pr, armed, runs, changes, approved, revoked, by>>
      /\ gated' \in BOOLEAN /\ head \in Heads
  BY DEF Tick, IInv, TypeOK
<1>3. optedOut' = IF label \/ state = "merged" THEN optedOut \ {Deferred}
                  ELSE optedOut \union {Deferred}
  BY DEF Tick
<1> QED
  BY <1>1, <1>2, <1>3, DeferredUpdate DEF DeferredPhases

LEMMA DiscoverStep == ASSUME IInv, Discover PROVE IInv'
<1>1. /\ UNCHANGED <<pr, armed, runs, changes, approved, revoked, by>>
      /\ optedOut' = optedOut /\ gated' \in BOOLEAN /\ head \in Heads
  BY DEF Discover, history, IInv, TypeOK
<1>2. CASE state = "open" /\ label /\ head \in armed
  <2>1. deferred'.phase = "verify" /\ deferred'.sha = head
    BY <1>2 DEF Discover, IsCandidate, SetDeferred
  <2>2. Cleared(head) /\ Deferred \notin optedOut
    BY <1>2 DEF IInv, ArmedInv, LabelInv
  <2> QED
    BY <1>1, <2>1, <2>2, DeferredUpdate DEF DeferredPhases
<1>3. CASE ~(state = "open" /\ label /\ head \in armed)
  <2>1. deferred'.phase = "none" /\ deferred'.sha \in Heads
    BY <1>3, DeferredFacts DEF Discover, IsCandidate, IInv
  <2> QED
    BY <1>1, <2>1, DeferredUpdate DEF DeferredPhases
<1> QED
  BY <1>2, <1>3

LEMMA DeferredGates ==
    ASSUME IInv, DeferredVerify \/ DeferredCollection \/ DeferredDies
    PROVE  IInv'
<1>1. /\ UNCHANGED <<pr, armed, runs, changes, approved, revoked, by>>
      /\ optedOut' = optedOut
  BY DEF DeferredVerify, DeferredCollection, DeferredDies, history
<1>2. gated' \in BOOLEAN
  BY DEF DeferredVerify, DeferredCollection, DeferredDies, IInv, TypeOK
<1>3. PICK p \in {"collection", "put", "none"} :
         DeferredTo(p)
  BY DEF DeferredVerify, DeferredCollection, DeferredDies
<1>4. deferred'.phase = p /\ deferred'.sha = deferred.sha /\ deferred'.sha \in Heads
  BY <1>3, DeferredFacts DEF IInv
<1>5. p # "none" => deferred.phase \in {"verify", "collection"}
  <2>1. CASE DeferredVerify \/ DeferredCollection
    BY <2>1 DEF DeferredVerify, DeferredCollection
  <2>2. CASE DeferredDies
    <3>1. deferred'.phase = "none"
      BY <2>2, DeferredFacts DEF DeferredDies, IInv
    <3> QED
      BY <1>4, <3>1
  <2> QED
    BY <2>1, <2>2
<1>6. p # "none" => Cleared(deferred.sha) /\ Deferred \notin optedOut
  BY <1>5 DEF IInv, DeferredInv
<1> QED
  BY <1>1, <1>2, <1>4, <1>6, DeferredUpdate DEF DeferredPhases

LEMMA DeferredPutStep == ASSUME IInv, DeferredPut PROVE IInv'
<1>1. /\ deferred'.phase = "none" /\ deferred'.sha \in Heads /\ deferred.phase = "put"
      /\ UNCHANGED <<head, label, reviews, checks, files, enabled, gated, armed,
                     runs, changes, approved, optedOut, revoked>>
  BY DeferredFacts DEF DeferredPut, IInv
<1>2. Cleared(deferred.sha) /\ Deferred \notin optedOut
  BY <1>1 DEF IInv, DeferredInv
<1>3. CASE MergeAnswer(deferred.sha) = "ok"
  <2>1. state # "merged" /\ head = deferred.sha
    BY <1>3 DEF MergeAnswer
  <2>2. state' = "merged" /\ by' = Deferred
    BY <1>3 DEF DeferredPut
  <2>3. Deferred \in 0 .. Deferred /\ Deferred \notin 1 .. MaxRuns
    BY AutomergeAssumption DEF Deferred, AutomergeAssumption
  <2>4. TypeOK'
    BY <1>1, <2>2, <2>3 DEF IInv, TypeOK, HasApproval
  <2>5. Merger' /\ ArmedInv' /\ DeferredInv' /\ LabelInv'
    BY <1>1, <1>2, <2>1, <2>2, <2>3
    DEF IInv, Merger, ArmedInv, DeferredInv, LabelInv, Cleared
  <2>6. \A n \in DOMAIN runs : RunInv(n)'
    BY <1>1, <2>2, OtherRuns
  <2> QED
    BY <1>1, <2>4, <2>5, <2>6 DEF IInv
<1>4. CASE MergeAnswer(deferred.sha) # "ok"
  <2>1. UNCHANGED <<state, by>>
    BY <1>4 DEF DeferredPut
  <2>2. UNCHANGED <<pr, armed, runs, changes, approved, revoked, by>>
        /\ optedOut' = optedOut /\ gated' \in BOOLEAN
    BY <1>1, <2>1 DEF pr, IInv, TypeOK
  <2> QED
    BY <1>1, <2>2, DeferredUpdate DEF DeferredPhases
<1> QED
  BY <1>3, <1>4

-----------------------------------------------------------------------------
LEMMA PeopleSteps ==
    ASSUME IInv,
           \/ OtherEvent \/ Push \/ AddLabel \/ RemoveLabel \/ Close \/ Reopen
           \/ ChecksFinish
           \/ \E i \in Collections \union {Parent} : ToggleDashboard(i)
    PROVE  IInv'
<1>1. /\ state \in {"open", "merged", "closed"} /\ head \in Heads /\ head \in Nat
      /\ label \in BOOLEAN /\ checks \in {"pending", "green"}
      /\ enabled \subseteq Collections \union {Parent}
      /\ changes \in 0 .. MaxChanges /\ head <= head
      /\ label => optedOut = {}
  BY AutomergeAssumption DEF IInv, TypeOK, LabelInv, Heads, AutomergeAssumption
<1>2. Change => changes' \in 0 .. MaxChanges
  BY <1>1, AutomergeAssumption DEF Change, AutomergeAssumption
<1>3. CASE OtherEvent
  BY <1>1, <1>3, PeopleStep DEF OtherEvent, history
<1>4. CASE Push
  <2>1. head + 1 \in Heads /\ head <= head + 1
    BY <1>1, <1>4, AutomergeAssumption DEF Push, Heads, AutomergeAssumption
  <2> QED
    BY <1>1, <1>4, <2>1, PeopleStep DEF Push, history
<1>5. CASE AddLabel
  BY <1>1, <1>5, PeopleStep DEF AddLabel
<1>6. CASE RemoveLabel
  BY <1>1, <1>2, <1>6, PeopleStep DEF RemoveLabel, Noted
<1>7. CASE Close
  BY <1>1, <1>2, <1>7, PeopleStep DEF Close, Noted
<1>8. CASE Reopen
  BY <1>1, <1>2, <1>8, PeopleStep DEF Reopen, Noted
<1>9. CASE ChecksFinish
  BY <1>1, <1>9, PeopleStep DEF ChecksFinish, history
<1>10. CASE \E i \in Collections \union {Parent} : ToggleDashboard(i)
  <2>1. PICK i \in Collections \union {Parent} : ToggleDashboard(i)
    BY <1>10
  <2>2. enabled' \subseteq Collections \union {Parent}
    BY <1>1, <2>1 DEF ToggleDashboard
  <2> QED
    BY <1>1, <1>2, <2>1, <2>2, PeopleStep DEF ToggleDashboard, Noted
<1> QED
  BY <1>3, <1>4, <1>5, <1>6, <1>7, <1>8, <1>9, <1>10

LEMMA Stutter == ASSUME IInv, UNCHANGED vars PROVE IInv'
<1>1. /\ UNCHANGED <<state, head, label, reviews, checks, files, enabled, gated>>
      /\ UNCHANGED <<armed, runs, deferred, changes, approved, optedOut, revoked, by>>
  BY DEF vars
<1> QED
  BY <1>1 DEF IInv, TypeOK, Merger, ArmedInv, DeferredInv, LabelInv, Cleared, RunInv,
              ClearedRun, Attempt, Truthful, HasApproval

LEMMA Inductive == ASSUME IInv, [Next]_vars PROVE IInv'
<1>1. ASSUME NEW n \in DOMAIN runs, RunStep(n) PROVE IInv'
  <2>1. CASE \E r \in Reviewers, h \in Heads : Approve(n, r, h)
    BY <2>1, ApproveStep
  <2>2. CASE RequireHead(n) \/ RequireLabel(n) \/ RequireReview(n)
    BY <2>2, RequireSteps
  <2> QED
    BY <1>1, <2>1, <2>2, VerifyStep, CheckCollectionStep, ApproveWithoutReviewStep,
       AssertStep, PutMergeStep, ArmStep, ReportStep DEF RunStep
<1>2. ASSUME DeferredStep PROVE IInv'
  BY <1>2, TickStep, DiscoverStep, DeferredGates, DeferredPutStep DEF DeferredStep
<1>3. ASSUME NEW r \in Reviewers, NEW h \in Heads,
             NEW verdict \in {"approved", "revoked"}, PersonReviews(r, h, verdict)
      PROVE  IInv'
  BY <1>3, PersonReviewsStep
<1> QED
  BY <1>1, <1>2, <1>3, PeopleSteps, DiesStep, DeferredGates, Stutter DEF Next

THEOREM Invariance == Spec => []IInv
  BY Initially, Inductive, PTL DEF Spec

\* Whatever the number of heads, runs, reviewers and faults, every variable
\* keeps its shape and every approval that stands was given.
THEOREM AutomergeTypeCorrect == Spec => []TypeOK
<1>1. IInv => TypeOK
  BY DEF IInv
<1> QED
  BY <1>1, Invariance, PTL

\* Automation merges only heads that somebody approved (obs-aw-automerge.yml,
\* obs-aw-automerge-deferred.yml).
THEOREM MergedHeadAlwaysApproved == Spec => []MergedHeadWasApproved
<1>1. IInv => MergedHeadWasApproved
  BY DEF IInv, Merger, Cleared, MergedHeadWasApproved
<1> QED
  BY <1>1, Invariance, PTL

\* Automation merges only heads whose files are of a collection, although the
\* gate never learns which head it looked at (checkAutomergeDependencyCollection.ts).
THEOREM MergedHeadAlwaysClassified == Spec => []MergedHeadIsClassified
<1>1. IInv => MergedHeadIsClassified
  BY DEF IInv, Merger, Cleared, MergedHeadIsClassified
<1> QED
  BY <1>1, Invariance, PTL

\* An opt-out before a merge attempt or a tick begins stops it
\* (automerge_squash_merge_at_sha, discover_armed_automerge_prs.sh).
THEOREM OptOutAlwaysStopsMerge == Spec => []OptOutStopsMerge
<1>1. IInv => OptOutStopsMerge
  BY DEF IInv, Merger, OptOutStopsMerge
<1> QED
  BY <1>1, Invariance, PTL

\* An approval withdrawn before a merge attempt begins stops it
\* (automerge_squash_merge_at_sha).
THEOREM RevokedApprovalAlwaysStopsMerge == Spec => []RevokedApprovalStopsMerge
<1>1. IInv => RevokedApprovalStopsMerge
  BY DEF IInv, Merger, RevokedApprovalStopsMerge
<1> QED
  BY <1>1, Invariance, PTL

\* Success is reported only of what is merged, armed or opted out
\* (report-automerge-outcome).
THEOREM SuccessAlwaysMergedOrArmed == Spec => []SuccessIsMergedOrArmed
<1>1. IInv => SuccessIsMergedOrArmed
  BY DEF IInv, RunInv, Truthful, SuccessIsMergedOrArmed
<1> QED
  BY <1>1, Invariance, PTL

-----------------------------------------------------------------------------
(* What a tick does for a pull request that may be merged *)

\* The pull request waits for the schedule, or is merged.
Waiting == Mergeable \/ state = "merged"

\* A tick that began meanwhile has the ids its gate asks for, and a candidate it
\* found is the live head.
OnTrack ==
    state = "merged" \/
    /\ deferred.phase # "none" => Allowed(head, deferred.enabled)
    /\ deferred.phase \in {"verify", "collection", "put"} => deferred.sha = head

\* The tick ends with the pull request merged, or its job died.
EndsInMerge ==
    deferred.phase # "none" /\ deferred'.phase = "none" =>
        state' = "merged" \/ DeferredDies

\* A merge is final, and people's steps do not touch the tick.
LEMMA DeferredMoves ==
    ASSUME [Next]_vars
    PROVE  /\ state = "merged" => state' = "merged"
           /\ \/ UNCHANGED deferred
              \/ Tick \/ Discover \/ DeferredVerify \/ DeferredCollection
              \/ DeferredPut \/ DeferredDies
<1>1. CASE UNCHANGED vars
  BY <1>1 DEF vars, pr
<1>2. CASE DeferredStep \/ DeferredDies
  BY <1>2 DEF DeferredStep, DeferredDies, Tick, Discover, DeferredVerify,
     DeferredCollection, DeferredPut, MergeAnswer, pr
<1>3. CASE \/ OtherEvent \/ Push \/ AddLabel \/ RemoveLabel \/ Close \/ Reopen
           \/ ChecksFinish
           \/ \E r \in Reviewers, h \in Heads, verdict \in {"approved", "revoked"} :
                 PersonReviews(r, h, verdict)
           \/ \E i \in Collections \union {Parent} : ToggleDashboard(i)
  BY <1>3 DEF OtherEvent, Push, AddLabel, RemoveLabel, Close, Reopen, ChecksFinish,
     PersonReviews, ToggleDashboard
<1>4. ASSUME NEW n \in DOMAIN runs, RunStep(n) \/ Dies(n)
      PROVE  deferred' = deferred /\ (state = "merged" => state' = "merged")
  BY <1>4 DEF RunStep, Dies, Verify, CheckCollection, ApproveWithoutReview, Approve,
     AssertApprovedReview, RequireHead, RequireLabel, RequireReview, PutMerge, Arm,
     Report, End, Continue, MergeAnswer, pr
<1> QED
  BY <1>1, <1>2, <1>3, <1>4 DEF Next

LEMMA HeadStays ==
    ASSUME [Next]_vars, Mergeable, Mergeable'
    PROVE  head' = head /\ files' = files
<1>1. CASE Push
  BY <1>1 DEF Push, Mergeable
<1>2. CASE UNCHANGED vars
  BY <1>2 DEF vars, pr
<1>3. CASE DeferredStep \/ DeferredDies
  BY <1>3 DEF DeferredStep, DeferredDies, Tick, Discover, DeferredVerify,
     DeferredCollection, DeferredPut, pr
<1>4. CASE \/ OtherEvent \/ AddLabel \/ RemoveLabel \/ Close \/ Reopen
           \/ ChecksFinish
           \/ \E r \in Reviewers, h \in Heads, verdict \in {"approved", "revoked"} :
                 PersonReviews(r, h, verdict)
           \/ \E i \in Collections \union {Parent} : ToggleDashboard(i)
  BY <1>4 DEF OtherEvent, AddLabel, RemoveLabel, Close, Reopen, ChecksFinish,
     PersonReviews, ToggleDashboard
<1>5. ASSUME NEW n \in DOMAIN runs, RunStep(n) \/ Dies(n)
      PROVE  head' = head /\ files' = files
  BY <1>5 DEF RunStep, Dies, Verify, CheckCollection, ApproveWithoutReview, Approve,
     AssertApprovedReview, RequireHead, RequireLabel, RequireReview, PutMerge, Arm,
     Report, End, Continue, pr
<1> QED
  BY <1>1, <1>2, <1>3, <1>4, <1>5 DEF Next

LEMMA StaysOnTrack ==
    ASSUME IInv, OnTrack, Waiting, Waiting', [Next]_vars
    PROVE  OnTrack' /\ EndsInMerge
<1>1. CASE state' = "merged"
  BY <1>1 DEF OnTrack, EndsInMerge
<1>2. CASE state' # "merged"
  <2>1. Mergeable /\ Mergeable' /\ state = "open"
    BY <1>2, DeferredMoves DEF Waiting, Mergeable
  <2>2. /\ state = "open" /\ label /\ head \in armed /\ checks = "green"
        /\ Allowed(head, enabled)
    BY <2>1 DEF Mergeable
  <2>3. /\ deferred.phase # "none" => Allowed(head, deferred.enabled)
        /\ deferred.phase \in {"verify", "collection", "put"} => deferred.sha = head
    BY <2>1 DEF OnTrack
  <2>4. head' = head /\ files' = files
    BY <2>1, HeadStays
  <2>5. \A ids : Allowed(head, ids)' <=> Allowed(head, ids)
    BY <2>4 DEF Allowed
  <2>6. CASE UNCHANGED deferred
    BY <2>3, <2>4, <2>6 DEF OnTrack, EndsInMerge, Allowed
  <2>7. CASE Tick
    <3>1. deferred' = [phase |-> "discover", sha |-> head, enabled |-> enabled]
      BY <2>7 DEF Tick, SetDeferred
    <3> QED
      BY <2>2, <2>4, <3>1 DEF OnTrack, EndsInMerge, Allowed
  <2>8. CASE Discover
    <3>1. deferred' = [phase |-> "verify", sha |-> head, enabled |-> deferred.enabled]
      BY <2>2, <2>8 DEF Discover, SetDeferred, IsCandidate
    <3>2. deferred.phase = "discover"
      BY <2>8 DEF Discover
    <3> QED
      BY <2>3, <2>4, <3>1, <3>2 DEF OnTrack, EndsInMerge, Allowed
  <2>9. CASE DeferredVerify \/ DeferredCollection
    <3>1. /\ deferred.phase \in {"verify", "collection"}
          /\ \E phase \in {"collection", "put"} :
                deferred' = [deferred EXCEPT !.phase = phase]
      BY <2>2, <2>3, <2>9 DEF DeferredVerify, DeferredCollection, DeferredTo
    <3>2. /\ deferred'.phase \in {"collection", "put"} /\ deferred'.sha = deferred.sha
          /\ deferred'.enabled = deferred.enabled
      BY <3>1 DEF IInv, TypeOK
    <3> QED
      BY <2>3, <2>4, <3>1, <3>2 DEF OnTrack, EndsInMerge, Allowed
  <2>10. CASE DeferredPut
    <3>1. MergeAnswer(deferred.sha) = "ok"
      BY <2>2, <2>3, <2>10 DEF DeferredPut, MergeAnswer
    <3> QED
      BY <1>2, <2>10, <3>1 DEF DeferredPut
  <2>11. CASE DeferredDies
    <3>1. deferred'.phase = "none"
      BY <2>11 DEF DeferredDies, DeferredTo, IInv, TypeOK
    <3> QED
      BY <2>11, <3>1 DEF OnTrack, EndsInMerge
  <2> QED
    BY <2>6, <2>7, <2>8, <2>9, <2>10, <2>11, DeferredMoves
<1> QED
  BY <1>1, <1>2

\* As long as an armed pull request may be merged, every tick of the schedule that
\* begins ends with it merged, whatever else its runs and people do, unless a
\* job of the tick dies: none is turned away by its own label, collection or head
\* checks (obs-aw-automerge-deferred.yml).  What ArmedIsMerged adds is that the
\* schedule ticks.
THEOREM TickAlwaysMerges ==
    Spec => [](deferred.phase = "none" /\ []Waiting => [][EndsInMerge]_vars)
<1>1. deferred.phase = "none" => OnTrack
  BY DEF OnTrack
<1>2. IInv /\ OnTrack /\ Waiting /\ Waiting' /\ [Next]_vars
        => OnTrack' /\ [EndsInMerge]_vars
  BY StaysOnTrack
<1> QED
  BY <1>1, <1>2, Invariance, PTL DEF Spec
=============================================================================
