----------------------------- MODULE Automerge ------------------------------
(***************************************************************************)
(* obs-aw-automerge.yml and obs-aw-automerge-deferred.yml for one pull     *)
(* request: every event of the pull request starts a run that verifies,    *)
(* approves, asserts the approval, merges at the asserted head or arms the *)
(* head with a comment; the frequent schedule merges armed heads.  People  *)
(* push, relabel, review, close and edit the dashboard in between.         *)
(*                                                                         *)
(* A head is its number; a push makes a new one (a branch that returns to  *)
(* an earlier commit is not modelled).                                     *)
(***************************************************************************)
EXTENDS Naturals, FiniteSets

CONSTANTS
    MaxHead,      \* bound: heads of the pull request
    MaxRuns,      \* bound: runs of the pull-request path
    MaxChanges,   \* bound: times people withdraw, review, toggle or close
    Reviewers,    \* who reviews, the author excluded
    Collections,  \* automerge dependency collections
    Files,        \* what the files of each head may classify as
    Faulty        \* whether API calls, jobs and repository rules may fail a run

Heads == 1 .. MaxHead
Unclassified == "unclassified"
Parent == "automerge"

ASSUME AutomergeAssumption ==
    /\ MaxHead \in Nat \ {0} /\ {MaxRuns, MaxChanges} \subseteq Nat
    /\ Files \subseteq [Heads -> Collections \union {Unclassified}]
    /\ {Parent, Unclassified} \intersect Collections = {}
    /\ Faulty \in BOOLEAN

VARIABLES
    state,     \* of the pull request: open, merged, closed
    head,      \* its live head
    label,     \* whether it has oblt-aw/ai/merge-ready
    reviews,   \* reviews[r][h]: r's latest decisive review of head h
    checks,    \* the required checks of the live head
    files,     \* files[h]: the collection of the changed files of head h
    enabled,   \* the ids checked on the dashboard
    gated,     \* the collection-gate comment is on the pull request
    armed,     \* heads with a bot-authored armed comment
    runs,      \* runs[n]: the n-th run of obs-aw-automerge.yml
    deferred,  \* the run of obs-aw-automerge-deferred.yml
    changes,   \* what people changed so far, counted for MaxChanges
    (* history *)
    approved,  \* heads that ever had an approval
    optedOut,  \* merge attempts and ticks during which the label was never there
    revoked,   \* merge attempts during which no approval was ever there
    by         \* who merged: 0 nobody or a person, n a run, Deferred

vars == <<state, head, label, reviews, checks, files, enabled, gated, armed,
          runs, deferred, changes, approved, optedOut, revoked, by>>
pr == <<state, head, label, reviews, checks, files, enabled>>
history == <<changes, approved, optedOut, revoked, by>>

Deferred == MaxRuns + 1

-----------------------------------------------------------------------------
(* Data *)

Results == {"", "merged", "not_ready", "merge_failed", "skipped"}
Reasons == {"", "ok", "missing_approval", "stale_head", "verify_failed"}
JobResults == {"skipped", "success", "failure"}
Outcomes == {"", "success", "failure", "missing_approval", "stale_head",
             "verify_failed", "rest_blocked", "blocked"}
Phases == {"verify", "collection", "approve", "assert", "head", "label",
           "review", "put", "arm", "report", "done"}

\* attempt: 1 in job automerge, 2 in job rest-merge.
RunRecord == [sha : Heads, enabled : SUBSET (Collections \union {Parent}),
              phase : Phases, attempt : 1 .. 2, reason : Reasons,
              result : [1 .. 2 -> Results], why : [1 .. 2 -> Reasons],
              rest : JobResults, arm : JobResults, outcome : Outcomes]

\* Mutant: a review of any commit approves.
ApprovedAnyHead(h) == \E r \in Reviewers, k \in Heads : reviews[r][k] = "approved"
HasApproval(h) == \E r \in Reviewers : reviews[r][h] = "approved"
Allowed(h, ids) == Parent \in ids /\ files[h] \in ids

\* GitHub's answer to PUT merge with a sha, unless a repository rule refuses the
\* merging identity or the call fails.
MergeAnswer(sha) ==
    IF state = "merged" THEN "already_merged"
    ELSE IF state = "closed" THEN "not_open"
    ELSE IF head # sha THEN "head_modified"
    ELSE IF checks # "green" THEN "pending"
    ELSE "ok"

Init ==
    /\ state = "open" /\ head = 1 /\ label \in BOOLEAN
    /\ reviews = [r \in Reviewers |-> [h \in Heads |-> "none"]]
    /\ checks = "pending"
    /\ files \in Files
    /\ enabled = {Parent} \union Collections
    /\ gated = FALSE /\ armed = {}
    /\ runs = <<>>
    /\ deferred = [phase |-> "none", sha |-> 1, enabled |-> {}]
    /\ changes = 0
    /\ approved = {} /\ optedOut = {} /\ revoked = {} /\ by = 0

-----------------------------------------------------------------------------
(* The pull request and its people *)

Change == changes < MaxChanges /\ changes' = changes + 1
Noted == <<approved, optedOut, revoked, by>>

NewRun(sha) ==
    [sha |-> sha, enabled |-> enabled, phase |-> "verify", attempt |-> 1,
     reason |-> "", result |-> [a \in 1 .. 2 |-> ""],
     why |-> [a \in 1 .. 2 |-> ""], rest |-> "skipped", arm |-> "skipped",
     outcome |-> ""]

\* opened, synchronize, reopened and labeled events; the route needs the
\* label in the event and the parent checkbox.
Event(sha) ==
    runs' = IF Parent \in enabled /\ label' /\ Cardinality(DOMAIN runs) < MaxRuns
            THEN [n \in 1 .. Cardinality(DOMAIN runs) + 1 |->
                    IF n \in DOMAIN runs THEN runs[n] ELSE NewRun(sha)]
            ELSE runs

\* The pull request is opened, or gets some other label.
OtherEvent ==
    /\ state = "open" /\ label
    /\ UNCHANGED label
    /\ Event(head)
    /\ runs' # runs
    /\ UNCHANGED <<state, head, reviews, checks, files, enabled, gated, armed,
                   deferred, history>>

Push ==
    /\ state = "open" /\ head < MaxHead
    /\ head' = head + 1
    /\ checks' = "pending"
    /\ UNCHANGED label
    /\ Event(head + 1)
    /\ UNCHANGED <<state, reviews, files, enabled, gated, armed,
                   deferred, history>>

AddLabel ==
    /\ state = "open" /\ ~label
    /\ label' = TRUE
    /\ Event(head)
    /\ optedOut' = {}
    /\ UNCHANGED <<state, head, reviews, checks, files, enabled, gated, armed,
                   deferred, changes, approved, revoked, by>>

RemoveLabel ==
    /\ Change /\ state = "open" /\ label
    /\ label' = FALSE
    /\ UNCHANGED <<state, head, reviews, checks, files, enabled, gated, armed,
                   runs, deferred, Noted>>

\* APPROVED, CHANGES_REQUESTED or a dismissal; a comment decides nothing.
Review(r, h, verdict) ==
    /\ state = "open" /\ h <= head /\ reviews[r][h] # verdict
    /\ reviews' = [reviews EXCEPT ![r][h] = verdict]
    /\ IF verdict = "approved"
       THEN /\ approved' = approved \union {h}
            /\ revoked' = {n \in revoked : runs[n].sha # h}
       ELSE UNCHANGED <<approved, revoked>>
    /\ UNCHANGED <<optedOut, by>>

PersonReviews(r, h, verdict) ==
    /\ Change
    /\ verdict = "revoked" => reviews[r][h] = "approved"
    /\ Review(r, h, verdict)
    /\ UNCHANGED <<state, head, label, checks, files, enabled, gated, armed,
                   runs, deferred>>

ChecksFinish ==
    /\ checks = "pending"
    /\ checks' = "green"
    /\ UNCHANGED <<state, head, label, reviews, files, enabled, gated, armed,
                   runs, deferred, history>>

Close ==
    /\ Change /\ state = "open"
    /\ state' = "closed"
    /\ UNCHANGED <<head, label, reviews, checks, files, enabled, gated, armed,
                   runs, deferred, Noted>>

Reopen ==
    /\ Change /\ state = "closed"
    /\ state' = "open"
    /\ UNCHANGED label
    /\ Event(head)
    /\ UNCHANGED <<head, reviews, checks, files, enabled, gated, armed, deferred,
                   Noted>>

ToggleDashboard(i) ==
    /\ Change
    /\ enabled' = (enabled \ {i}) \union ({i} \ enabled)
    /\ UNCHANGED <<state, head, label, reviews, checks, files, gated, armed,
                   runs, deferred, Noted>>

-----------------------------------------------------------------------------
(* obs-aw-automerge.yml *)

Set(n, r) == runs' = [runs EXCEPT ![n] = r]
AtPhase(n, phase) == n \in DOMAIN runs /\ runs[n].phase = phase

\* A job dies: jobs that need it do not run.  Without an assertion there is no
\* report; a merge job that dies before it tries leaves no result.
Dies(n) ==
    /\ Faulty /\ n \in DOMAIN runs
    /\ \/ /\ runs[n].phase \in {"verify", "collection", "approve", "report"}
          /\ Set(n, [runs[n] EXCEPT !.phase = "done"])
       \/ /\ runs[n].phase = "head"
          /\ Set(n, [runs[n] EXCEPT !.phase = "report",
                      !.rest = IF runs[n].attempt = 2 THEN "failure" ELSE @])
    /\ UNCHANGED <<pr, gated, armed, deferred, history>>

Verify(n) ==
    /\ AtPhase(n, "verify")
    /\ Set(n, [runs[n] EXCEPT !.phase = IF label THEN "collection" ELSE "done"])
    /\ UNCHANGED <<pr, gated, armed, deferred, history>>

\* Mutant: every classification may merge.
CheckNothing(n) ==
    /\ AtPhase(n, "collection")
    /\ gated' = FALSE
    /\ Set(n, [runs[n] EXCEPT !.phase = "approve"])
    /\ UNCHANGED <<pr, armed, deferred, history>>

\* The files of the live head against the dashboard the prelude read.
CheckCollection(n) ==
    LET allowed == Allowed(head, runs[n].enabled) IN
    /\ AtPhase(n, "collection")
    /\ gated' = ~allowed
    /\ Set(n, [runs[n] EXCEPT !.phase = IF allowed THEN "approve" ELSE "done"])
    /\ UNCHANGED <<pr, armed, deferred, history>>

\* The agent approves the event's head or the live one ...
Approve(n, r, h) ==
    /\ AtPhase(n, "approve") /\ h \in {runs[n].sha, head}
    /\ Review(r, h, "approved")
    /\ Set(n, [runs[n] EXCEPT !.phase = "assert"])
    /\ UNCHANGED <<state, head, label, checks, files, enabled, gated, armed,
                   deferred, changes>>

\* ... or only comments, or approved before.
ApproveWithoutReview(n) ==
    /\ AtPhase(n, "approve")
    /\ Set(n, [runs[n] EXCEPT !.phase = "assert"])
    /\ UNCHANGED <<pr, gated, armed, deferred, history>>

Starts(n, sha) ==
    /\ optedOut' = IF label THEN optedOut \ {n} ELSE optedOut \union {n}
    /\ revoked' = IF HasApproval(sha) THEN revoked \ {n} ELSE revoked \union {n}
    /\ UNCHANGED <<changes, approved, by>>

AssertApprovedReview(n) ==
    LET run == runs[n]
        reason == IF head # run.sha THEN "stale_head"
                  ELSE IF HasApproval(run.sha) THEN "ok"
                  ELSE "missing_approval"
    IN
    /\ AtPhase(n, "assert")
    /\ \E why \in {reason} \union (IF Faulty THEN {"verify_failed"} ELSE {}) :
          /\ Set(n, [run EXCEPT !.reason = why,
                                !.phase = IF why = "ok" THEN "head" ELSE "report"])
          /\ IF why = "ok" THEN Starts(n, run.sha) ELSE UNCHANGED history
    /\ UNCHANGED <<pr, gated, armed, deferred>>

\* Mutant: whatever could not be merged is tried again.
EndedAgain(run, result, why) ==
    [run EXCEPT !.phase = "head", !.attempt = IF result = "merged" THEN @ ELSE @ + 1]

\* automerge_squash_merge_at_sha ends with a result: rest-merge retries what
\* job automerge could not do unless the approval is in doubt; arming follows
\* a retry that is not ready.
Ended(run, result, why) ==
    LET a == run.attempt
        ended == [run EXCEPT !.result[a] = result, !.why[a] = why]
        again == /\ result \in {"merge_failed", "not_ready"}
                 /\ why \notin {"missing_approval", "verify_failed"}
    IN  IF a = 1
        THEN [ended EXCEPT !.attempt = IF again THEN 2 ELSE 1,
                           !.phase = IF again THEN "head" ELSE "report"]
        ELSE [ended EXCEPT !.rest = IF result \in {"merged", "not_ready"}
                                    THEN "success" ELSE "failure",
                           !.phase = IF result = "not_ready" THEN "arm"
                                     ELSE "report"]

End(n, result, why) ==
    LET run == Ended(runs[n], result, why) IN
    /\ Set(n, run)
    /\ IF run.phase = "head" THEN Starts(n, run.sha) ELSE UNCHANGED history
    /\ UNCHANGED <<pr, gated, armed, deferred>>

Continue(n, phase) ==
    /\ Set(n, [runs[n] EXCEPT !.phase = phase])
    /\ UNCHANGED <<pr, gated, armed, deferred, history>>

RequireHead(n) ==
    /\ AtPhase(n, "head")
    /\ \/ head = runs[n].sha /\ Continue(n, "label")
       \/ (head # runs[n].sha \/ Faulty) /\ End(n, "merge_failed", "")

\* Mutant: the opt-in is not looked at again before the merge.
RequireNoLabel(n) == AtPhase(n, "label") /\ Continue(n, "review")
RequireLabel(n) ==
    /\ AtPhase(n, "label")
    /\ \/ label /\ Continue(n, "review")
       \/ ~label /\ End(n, "skipped", "")
       \/ Faulty /\ End(n, "merge_failed", "")

\* Mutant: the approval asserted by the earlier job is enough.
RequireNoReview(n) == AtPhase(n, "review") /\ Continue(n, "put")
RequireReview(n) ==
    /\ AtPhase(n, "review")
    /\ \/ HasApproval(runs[n].sha) /\ Continue(n, "put")
       \/ ~HasApproval(runs[n].sha) /\ End(n, "merge_failed", "missing_approval")
       \/ Faulty /\ End(n, "merge_failed", "verify_failed")

PutMerge(n) ==
    LET answer == MergeAnswer(runs[n].sha) IN
    /\ AtPhase(n, "put")
    /\ \/ /\ answer = "ok"
          /\ state' = "merged" /\ by' = n
          /\ Set(n, Ended(runs[n], "merged", "ok"))
          /\ UNCHANGED <<head, label, reviews, checks, files, enabled, gated,
                         armed, deferred, changes, approved, optedOut, revoked>>
       \/ answer = "already_merged" /\ End(n, "merged", "ok")
       \/ answer = "pending" /\ End(n, "not_ready", "ok")
       \/ answer \in {"head_modified", "not_open"} /\ End(n, "merge_failed", "ok")
       \/ Faulty /\ answer \in {"ok", "pending"} /\ End(n, "merge_failed", "ok")

ArmedHead(n) == runs[n].sha

Arm(n) ==
    /\ AtPhase(n, "arm")
    /\ \/ /\ armed' = armed \union {ArmedHead(n)}
          /\ Set(n, [runs[n] EXCEPT !.arm = "success", !.phase = "report"])
       \/ /\ Faulty
          /\ Set(n, [runs[n] EXCEPT !.arm = "failure", !.phase = "report"])
          /\ UNCHANGED armed
    /\ UNCHANGED <<pr, gated, deferred, history>>

Doubts == {"missing_approval", "stale_head", "verify_failed"}
MergeReason(run) == IF run.why[2] # "" THEN run.why[2] ELSE run.why[1]

\* Mutant: not_ready is a success whatever became of the arming.
OutcomeOfNotReady(run) ==
    IF run.reason \in Doubts THEN run.reason
    ELSE IF run.result[1] \in {"merged", "not_ready"} THEN "success"
    ELSE "blocked"

\* report-automerge-outcome, first match wins.
Outcome(run) ==
    IF run.reason \in Doubts THEN run.reason
    ELSE IF \/ run.result[1] = "merged"
            \/ state = "merged"
            \/ run.rest = "success" /\ run.result[2] = "merged"
            \/ run.arm = "success" THEN "success"
    ELSE IF MergeReason(run) \in Doubts THEN MergeReason(run)
    ELSE IF run.rest = "failure" THEN "rest_blocked"
    ELSE IF run.result[1] = "not_ready" THEN "failure"
    ELSE IF run.result[1] = "skipped"
         THEN IF HasApproval(run.sha) THEN "success" ELSE "missing_approval"
    ELSE "blocked"

Report(n) ==
    /\ AtPhase(n, "report")
    /\ Set(n, [runs[n] EXCEPT !.outcome = Outcome(runs[n]), !.phase = "done"])
    /\ UNCHANGED <<pr, gated, armed, deferred, history>>

RunStep(n) ==
    \/ Verify(n) \/ CheckCollection(n) \/ ApproveWithoutReview(n)
    \/ \E r \in Reviewers, h \in Heads : Approve(n, r, h)
    \/ AssertApprovedReview(n) \/ RequireHead(n) \/ RequireLabel(n)
    \/ RequireReview(n) \/ PutMerge(n) \/ Arm(n) \/ Report(n)

-----------------------------------------------------------------------------
(* obs-aw-automerge-deferred.yml *)

SetDeferred(phase, sha, ids) ==
    deferred' = [phase |-> phase, sha |-> sha, enabled |-> ids]
DeferredTo(phase) == deferred' = [deferred EXCEPT !.phase = phase]

\* Mutant: the schedule does not forward the enabled ids.
TickWithoutIds ==
    /\ deferred.phase = "none" /\ Parent \in enabled
    /\ SetDeferred("discover", head, {})
    /\ UNCHANGED <<pr, gated, armed, runs, history>>

Tick ==
    /\ deferred.phase = "none" /\ Parent \in enabled
    /\ SetDeferred("discover", head, enabled)
    /\ optedOut' = IF label \/ state = "merged" THEN optedOut \ {Deferred}
                   ELSE optedOut \union {Deferred}
    /\ UNCHANGED <<pr, gated, armed, runs, changes, approved, revoked, by>>

\* Mutant: any armed comment makes the live head a candidate.
ArmedOnce == armed # {}
IsCandidate == head \in armed

\* Open, labelled, and armed for exactly the live head.
Discover ==
    /\ deferred.phase = "discover"
    /\ IF state = "open" /\ label /\ IsCandidate
       THEN SetDeferred("verify", head, deferred.enabled)
       ELSE DeferredTo("none")
    /\ UNCHANGED <<pr, gated, armed, runs, history>>

DeferredVerify ==
    /\ deferred.phase = "verify"
    /\ DeferredTo(IF label THEN "collection" ELSE "none")
    /\ UNCHANGED <<pr, gated, armed, runs, history>>

DeferredCollection ==
    LET allowed == Allowed(head, deferred.enabled) IN
    /\ deferred.phase = "collection"
    /\ gated' = ~allowed
    /\ DeferredTo(IF allowed THEN "put" ELSE "none")
    /\ UNCHANGED <<pr, armed, runs, history>>

DeferredPut ==
    /\ deferred.phase = "put"
    /\ DeferredTo("none")
    /\ IF MergeAnswer(deferred.sha) = "ok"
       THEN state' = "merged" /\ by' = Deferred
       ELSE UNCHANGED <<state, by>>
    /\ UNCHANGED <<head, label, reviews, checks, files, enabled, gated, armed,
                   runs, changes, approved, optedOut, revoked>>

DeferredDies ==
    /\ Faulty /\ deferred.phase # "none"
    /\ DeferredTo("none")
    /\ UNCHANGED <<pr, gated, armed, runs, history>>

DeferredStep ==
    Tick \/ Discover \/ DeferredVerify \/ DeferredCollection \/ DeferredPut

-----------------------------------------------------------------------------
Next ==
    \/ OtherEvent \/ Push \/ AddLabel \/ RemoveLabel \/ Close \/ Reopen
    \/ \E r \in Reviewers, h \in Heads, verdict \in {"approved", "revoked"} :
          PersonReviews(r, h, verdict)
    \/ ChecksFinish
    \/ \E i \in Collections \union {Parent} : ToggleDashboard(i)
    \/ \E n \in DOMAIN runs : RunStep(n) \/ Dies(n)
    \/ DeferredStep \/ DeferredDies

Spec == Init /\ [][Next]_vars

\* The cron of the frequent schedule; no job of its run fails for ever.
FairSpec ==
    /\ Spec
    /\ WF_vars(DeferredStep)
    /\ SF_vars(Discover) /\ SF_vars(DeferredVerify)
    /\ SF_vars(DeferredCollection) /\ SF_vars(DeferredPut)

-----------------------------------------------------------------------------
(* Properties *)

\* Every variable stays within the shape its comment gives; an approval that
\* stands was given.
TypeOK ==
    /\ state \in {"open", "merged", "closed"} /\ head \in Heads
    /\ label \in BOOLEAN /\ gated \in BOOLEAN
    /\ reviews \in [Reviewers -> [Heads -> {"none", "approved", "revoked"}]]
    /\ checks \in {"pending", "green"}
    /\ enabled \subseteq Collections \union {Parent}
    /\ armed \subseteq Heads /\ approved \subseteq Heads
    /\ \E k \in 0 .. MaxRuns : runs \in [1 .. k -> RunRecord]
    /\ deferred.phase \in {"none", "discover", "verify", "collection", "put"}
    /\ deferred.sha \in Heads
    /\ \A h \in Heads : HasApproval(h) => h \in approved
    /\ optedOut \subseteq DOMAIN runs \union {Deferred} /\ revoked \subseteq DOMAIN runs
    /\ by \in 0 .. Deferred
    /\ changes \in 0 .. MaxChanges

\* What automation merges is a head somebody but the author approved, through
\* every interleaving of pushes, runs, arming and schedule ticks
\* (automerge_squash_merge_at_sha, discover_armed_automerge_prs.sh).
MergedHeadWasApproved == by # 0 => head \in approved

\* A head whose files belong to no collection is never merged by automation,
\* although the gate looks at the files of whatever head is live when it runs
\* (checkAutomergeDependencyCollection.ts).
MergedHeadIsClassified == by # 0 => files[head] # Unclassified

\* A maintainer's removal of the label before a merge attempt or a tick of the
\* schedule begins stops it unless the label returns, although either goes on
\* through several jobs (automerge_armed_lib.sh:97,
\* discover_armed_automerge_prs.sh).
OptOutStopsMerge == by # 0 => by \notin optedOut

\* An approval withdrawn before a merge attempt of the pull-request path
\* begins, and not given again, stops that attempt (automerge_armed_lib.sh:115).
RevokedApprovalStopsMerge == by \in 1 .. MaxRuns => by \notin revoked

\* A run reports success only for a pull request that is merged, for a head
\* that carries the armed comment, or for a maintainer's opt-out
\* (report-automerge-outcome).
SuccessIsMergedOrArmed ==
    \A n \in DOMAIN runs : runs[n].outcome = "success" =>
       \/ state = "merged" \/ runs[n].sha \in armed
       \/ runs[n].result[1] = "skipped"

\* An armed head whose label, collection and branch stay as they are and whose
\* checks are green is merged by the schedule
\* (obs-aw-automerge-deferred.yml).
Mergeable ==
    /\ state = "open" /\ label /\ head \in armed
    /\ checks = "green" /\ Allowed(head, enabled)
ArmedIsMerged == []<>~Mergeable
=============================================================================
