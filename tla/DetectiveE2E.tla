----------------------------- MODULE DetectiveE2E -----------------------------
(***************************************************************************)
(* The live end-to-end case of the PR Actions Detective.  The harness      *)
(* readies the long-lived fixture pull request, pushes a nonce so that an  *)
(* intentional workflow fails on it, waits for that run, then for the run  *)
(* of the detective's caller workflow that the failure triggers, then for  *)
(* the agent's comment; the oracle judges what it reports.  Cases follow   *)
(* one another (concurrency group) on the same pull request, while runs    *)
(* and agents of earlier pushes may still be busy and people interfere.    *)
(*                                                                         *)
(* Runs are numbered in the order of their creation; a caller run is       *)
(* modelled when a failed run triggers it (after any other conclusion its  *)
(* job is skipped, and the harness never accepts it).  Caller runs are on  *)
(* the tip of main under the workflow's own name, so that neither headSha  *)
(* nor title ties them to a failure, only the agent's comment does.        *)
(***************************************************************************)
EXTENDS Naturals, Sequences, FiniteSets

CONSTANTS
    MaxCases,   \* bound: cases run one after the other
    MaxUpsets   \* bound: things that go wrong or people do

ASSUME E2EAssumption == MaxCases \in Nat /\ MaxUpsets \in Nat

VARIABLES
    pr,        \* the latest fixture pull request (number 0: none yet)
    branch,    \* the fixture branch: tip, its workflow file, its nonce file
    enabled,   \* the detective's box on the dashboard
    events,    \* pull_request events GitHub has not acted on
    fails,     \* runs of the intentional workflow, oldest first
    callers,   \* runs of the caller workflow, oldest first
    comments,  \* the agents' comments
    harness,   \* the case under way
    cases,     \* cases started
    snapshots, \* `since` was taken that often
    upsets,    \* things gone wrong so far
    (* history *)
    calm       \* the case found all in order and nothing went wrong since

vars == <<pr, branch, enabled, events, fails, callers, comments,
          harness, cases, snapshots, upsets, calm>>

-----------------------------------------------------------------------------
FailRun == [pr : Nat, head : Nat, called : BOOLEAN,
            state : {"running", "cancelled", "failure", "skipped"}]
CallerRun == [fail : Nat, after : Nat,
              state : {"running", "success", "failure", "skipped"}]
(* binds: the report links its failure and the footer its caller run.      *)
Comment == [pr : Nat, caller : Nat, fail : Nat,
            binds : BOOLEAN, marked : BOOLEAN, epoch : Nat]

Waits == {"await fail", "await route", "await comment"}
Working == {"gate", "fixture", "clear", "since", "seed", "bump", "verify"} \cup Waits
Case == [at : Working \cup {"idle", "blocked", "reported", "died"},
         pr : Nat, head : Nat, fail : Nat, route : Nat, comment : Nat,
         knownFails : Nat, knownCallers : Nat]

NewCase == [at |-> "gate", pr |-> 0, head |-> 0, fail |-> 0, route |-> 0,
            comment |-> 0, knownFails |-> 0, knownCallers |-> 0]

At(step) == harness.at = step
Goto(step) == harness' = [harness EXCEPT !.at = step]
Blocked == Goto("blocked")

(* One thing more goes wrong, or nothing does.                             *)
Upset ==
    /\ upsets < MaxUpsets
    /\ upsets' = upsets + 1
    /\ calm' = FALSE

AsPlanned == UNCHANGED <<upsets, calm>>

Fixture == <<pr, branch, enabled, events>>
GitHub == <<fails, callers, comments>>
Counters == <<cases, snapshots>>
Trouble == <<upsets, calm>>

(* A push or a label on the open pull request fires the workflow once the  *)
(* nonce file is part of the pull request.                                 *)
Fires(p, b) == IF p.open /\ b.bumped
               THEN events \cup {[pr |-> p.number, head |-> b.head, labelled |-> p.labelled]}
               ELSE events

Push(b) ==
    /\ branch' = [b EXCEPT !.head = branch.head + 1]
    /\ events' = Fires(pr, branch')

(* Nothing of earlier pushes is under way.                                 *)
Settled ==
    /\ events = {}
    /\ \A i \in DOMAIN fails : /\ fails[i].state # "running"
                               /\ fails[i].state = "failure" => fails[i].called
    /\ \A c \in DOMAIN callers : callers[c].state # "running"

(* The prerequisites of a live case, and no report on the pull request     *)
(* that the harness would not recognise and clear.                         *)
InOrder ==
    /\ Settled /\ enabled
    /\ pr.open /\ pr.labelled
    /\ branch.workflow = "current" \/ (branch.workflow = "missing" /\ ~branch.bumped)
    /\ \A m \in comments : m.pr = pr.number => m.marked

-----------------------------------------------------------------------------
(* The harness.                                                            *)

StartCase ==
    /\ harness.at \in {"idle", "blocked", "reported", "died"}
    /\ cases < MaxCases
    /\ cases' = cases + 1
    /\ harness' = NewCase
    /\ calm' = InOrder
    /\ UNCHANGED <<Fixture, GitHub, snapshots, upsets>>

CheckDashboard ==
    /\ At("gate")
    /\ IF enabled THEN Goto("fixture") ELSE Blocked
    /\ UNCHANGED <<Fixture, GitHub, Counters, Trouble>>

UseFixture(p) ==
    /\ pr' = p
    /\ harness' = [harness EXCEPT !.at = "clear", !.pr = p.number]

ReuseFixture ==
    /\ At("fixture") /\ pr.open /\ pr.labelled
    /\ UseFixture(pr)
    /\ UNCHANGED <<branch, enabled, events, GitHub, Counters, Trouble>>

LabelFixture ==
    /\ At("fixture") /\ pr.open /\ ~pr.labelled
    /\ UseFixture([pr EXCEPT !.labelled = TRUE])
    /\ events' = Fires(pr', branch)
    /\ UNCHANGED <<branch, enabled, GitHub, Counters, Trouble>>

(* A branch without a marker file or commits of its own gets a commit.     *)
ReadyBranch ==
    \E head \in {branch.head, branch.head + 1} : branch' = [branch EXCEPT !.head = head]

CreateFixture ==
    /\ At("fixture") /\ ~pr.open
    /\ ReadyBranch
    /\ UseFixture([number |-> pr.number + 1, open |-> TRUE, labelled |-> TRUE])
    /\ events' = Fires(pr', branch')
    /\ UNCHANGED <<enabled, GitHub, Counters, Trouble>>

(* GitHub refuses a new pull request: the closed one is reopened.          *)
ReopenFixture ==
    /\ At("fixture") /\ ~pr.open /\ pr.labelled /\ pr.number > 0
    /\ Upset
    /\ ReadyBranch
    /\ UseFixture([pr EXCEPT !.open = TRUE])
    /\ events' = Fires(pr', branch')
    /\ UNCHANGED <<enabled, GitHub, Counters>>

(* Mutant: reports of earlier cases stay.                                  *)
LeaveComments ==
    /\ At("clear")
    /\ Goto("since")
    /\ UNCHANGED <<Fixture, GitHub, Counters, Trouble>>

ClearComments ==
    /\ At("clear")
    /\ comments' = {c \in comments : ~(c.pr = harness.pr /\ c.marked)}
    /\ Goto("since")
    /\ UNCHANGED <<Fixture, fails, callers, Counters, Trouble>>

TakeSnapshot ==
    /\ At("since")
    /\ snapshots' = snapshots + 1
    /\ harness' = [harness EXCEPT !.at = "seed",
                                  !.knownFails = Len(fails),
                                  !.knownCallers = Len(callers)]
    /\ UNCHANGED <<Fixture, GitHub, cases, Trouble>>

SeedWorkflow ==
    /\ At("seed")
    /\ \/ /\ branch.workflow = "current"
          /\ Goto("bump")
          /\ UNCHANGED <<branch, events>>
       \/ /\ branch.workflow = "missing"
          /\ Push([branch EXCEPT !.workflow = "current"])
          /\ Goto("bump")
       \/ /\ branch.workflow = "drifted"
          /\ Blocked
          /\ UNCHANGED <<branch, events>>
    /\ UNCHANGED <<pr, enabled, GitHub, Counters, Trouble>>

(* Mutant: the commit is taken for granted.                                *)
BumpUncommitted ==
    /\ At("bump")
    /\ harness' = [harness EXCEPT !.at = "await fail", !.head = branch.head + 1]
    /\ UNCHANGED <<Fixture, GitHub, Counters, Trouble>>

BumpTrigger ==
    /\ At("bump")
    /\ Push([branch EXCEPT !.bumped = TRUE])
    /\ harness' = [harness EXCEPT !.at = "await fail", !.head = branch'.head]
    /\ UNCHANGED <<pr, enabled, GitHub, Counters, Trouble>>

(* wait_for_failed_actions_run accepts the run i.                          *)
IsOurFailure(i) ==
    /\ i > harness.knownFails
    /\ fails[i].head = harness.head
    /\ fails[i].state = "failure"

FailSeen ==
    /\ At("await fail")
    /\ \E i \in DOMAIN fails :
          /\ IsOurFailure(i)
          /\ harness' = [harness EXCEPT !.at = "verify", !.fail = i]
    /\ UNCHANGED <<Fixture, GitHub, Counters, Trouble>>

VerifyMarker ==
    /\ At("verify")
    /\ \/ Goto("await route") /\ AsPlanned
       \/ Blocked /\ Upset
    /\ UNCHANGED <<Fixture, GitHub, Counters>>

(* A successful caller run newer than the failure...                       *)
IsCandidate(c) ==
    /\ c > harness.knownCallers
    /\ callers[c].after >= harness.fail
    /\ callers[c].state = "success"

(* ... which an agent's comment ties to it.                                *)
Correlates(c) ==
    \E m \in comments : /\ m.pr = harness.pr
                        /\ m.binds /\ m.caller = c /\ m.fail = harness.fail

(* Mutant: any successful caller run since then is ours.                   *)
IsRecentRoute(c) == IsCandidate(c)

IsOurRoute(c) == IsCandidate(c) /\ Correlates(c)

RouteSeen ==
    /\ At("await route")
    /\ \E c \in DOMAIN callers :
          /\ IsOurRoute(c)
          /\ \A d \in DOMAIN callers : IsOurRoute(d) => c <= d
          /\ harness' = [harness EXCEPT !.at = "await comment", !.route = c]
    /\ UNCHANGED <<Fixture, GitHub, Counters, Trouble>>

(* Mutant: an older comment will do.                                       *)
IsAnyReport(m) == m.pr = harness.pr /\ m.marked

(* find_agent_comment knows its comment by time and markers alone; of      *)
(* several it takes the newest, here any.                                  *)
IsAnswer(m) == m.pr = harness.pr /\ m.marked /\ m.epoch >= snapshots

CommentSeen ==
    /\ At("await comment")
    /\ \E m \in comments :
          /\ IsAnswer(m)
          /\ harness' = [harness EXCEPT !.at = "reported", !.comment = m.caller]
    /\ UNCHANGED <<Fixture, GitHub, Counters, Trouble>>

-----------------------------------------------------------------------------
(* Deadlines.  GitHub and the agents are given ample time: a wait runs out *)
(* when nothing is left to happen, or something is held up (an upset).     *)

NothingToSee ==
    CASE At("await fail") -> ~\E i \in DOMAIN fails : IsOurFailure(i)
      [] At("await route") -> ~\E c \in DOMAIN callers : IsOurRoute(c)
      [] OTHER -> ~\E m \in comments : IsAnswer(m)

Deadline ==
    /\ harness.at \in Waits
    /\ NothingToSee
    /\ \/ Settled /\ AsPlanned
       \/ Upset
    /\ IF At("await comment") THEN Goto("reported") ELSE Blocked
    /\ UNCHANGED <<Fixture, GitHub, Counters>>

(* A call to GitHub fails, or the job is cancelled or lost.                *)
Abort ==
    /\ harness.at \in Working
    /\ Upset
    /\ \/ Blocked
       \/ Goto("died")
    /\ UNCHANGED <<Fixture, GitHub, Counters>>

-----------------------------------------------------------------------------
(* GitHub.                                                                 *)

(* A new run of the workflow cancels the one that runs for the same pull   *)
(* request; its job is skipped without the label.                          *)
StartFail ==
    \E e \in events :
       /\ events' = events \ {e}
       /\ fails' = Append([i \in DOMAIN fails |->
                              IF fails[i].state = "running" /\ fails[i].pr = e.pr
                              THEN [fails[i] EXCEPT !.state = "cancelled"]
                              ELSE fails[i]],
                          [pr |-> e.pr, head |-> e.head, called |-> FALSE,
                           state |-> IF e.labelled THEN "running" ELSE "skipped"])
       /\ UNCHANGED <<pr, branch, enabled, callers, comments,
                      harness, Counters, Trouble>>

EndFail ==
    \E i \in DOMAIN fails :
       /\ fails[i].state = "running"
       /\ fails' = [fails EXCEPT ![i].state = "failure"]
       /\ UNCHANGED <<Fixture, callers, comments, harness, Counters, Trouble>>

(* The failure starts the caller, whose route needs an open pull request   *)
(* and the box.                                                            *)
StartCaller ==
    \E i \in DOMAIN fails :
       /\ fails[i].state = "failure" /\ ~fails[i].called
       /\ fails' = [fails EXCEPT ![i].called = TRUE]
       /\ callers' = Append(callers,
              [fail |-> i, after |-> Len(fails),
               state |-> IF pr.open /\ pr.number = fails[i].pr /\ enabled
                         THEN "running" ELSE "skipped"])
       /\ UNCHANGED <<Fixture, comments, harness, Counters, Trouble>>

(* How the run of an agent that comments may go: told to link the failed   *)
(* run and to write every section, it may miss one, or its run may fail.   *)
Reports == {r \in [binds : BOOLEAN, marked : BOOLEAN, state : {"success", "failure"}] :
              /\ r.binds \/ r.marked
              /\ r.state = "failure" => r.binds /\ r.marked}
AsTold == [binds |-> TRUE, marked |-> TRUE, state |-> "success"]

(* The agent comments and its run ends: the harness looks at runs that     *)
(* have ended.                                                             *)
AgentReports ==
    \E c \in DOMAIN callers, r \in Reports :
       /\ callers[c].state = "running"
       /\ IF r = AsTold THEN AsPlanned ELSE Upset
       /\ callers' = [callers EXCEPT ![c].state = r.state]
       /\ comments' = comments \cup
              {[pr |-> fails[callers[c].fail].pr, caller |-> c,
                fail |-> callers[c].fail, binds |-> r.binds, marked |-> r.marked,
                epoch |-> snapshots]}
       /\ UNCHANGED <<Fixture, fails, harness, Counters>>

PostedBefore(c) == \E m \in comments : m.pr = fails[callers[c].fail].pr

(* The agent has nothing to say: told so when an earlier report says it    *)
(* already, unaccountably otherwise.                                       *)
AgentStaysSilent ==
    \E c \in DOMAIN callers :
       /\ callers[c].state = "running"
       /\ IF PostedBefore(c) THEN AsPlanned ELSE Upset
       /\ callers' = [callers EXCEPT ![c].state = "success"]
       /\ UNCHANGED <<Fixture, fails, comments, harness, Counters>>

-----------------------------------------------------------------------------
(* People.                                                                 *)

TogglesBox == enabled' = ~enabled /\ UNCHANGED <<pr, branch, events>>

ClosesPR == /\ pr.open
            /\ pr' = [pr EXCEPT !.open = FALSE]
            /\ UNCHANGED <<branch, enabled, events>>

Relabels == /\ pr.open
            /\ pr' = [pr EXCEPT !.labelled = ~@]
            /\ events' = IF pr'.labelled THEN Fires(pr', branch) ELSE events
            /\ UNCHANGED <<branch, enabled>>

EditsWorkflow == /\ \E w \in {"missing", "drifted"} :
                       Push([branch EXCEPT !.workflow = w])
                 /\ UNCHANGED <<pr, enabled>>

People ==
    /\ Upset
    /\ TogglesBox \/ ClosesPR \/ Relabels \/ EditsWorkflow
    /\ UNCHANGED <<GitHub, harness, Counters>>

-----------------------------------------------------------------------------
(* The fixture in place, with a report of an earlier week on it or not;    *)
(* closed by somebody before it was of use; or no fixture, which the first *)
(* case sets up on an untouched branch.                                    *)
Init ==
    /\ \/ /\ pr = [number |-> 1, open |-> TRUE, labelled |-> TRUE]
          /\ comments \in {{}, {[pr |-> 1, caller |-> 0, fail |-> 0,
                                 binds |-> TRUE, marked |-> TRUE, epoch |-> 0]}}
       \/ /\ pr = [number |-> 1, open |-> FALSE, labelled |-> TRUE]
          /\ comments = {}
       \/ /\ pr = [number |-> 0, open |-> FALSE, labelled |-> FALSE]
          /\ comments = {}
    /\ \E b \in BOOLEAN, w \in {"current", "missing"} :
          /\ w = "missing" \/ ~pr.open => ~b
          /\ branch = [head |-> 1, workflow |-> w, bumped |-> b]
    /\ enabled \in BOOLEAN
    /\ events = {}
    /\ fails = <<>> /\ callers = <<>>
    /\ harness = [at |-> "idle", pr |-> 0, head |-> 0, fail |-> 0, route |-> 0,
                  comment |-> 0, knownFails |-> 0, knownCallers |-> 0]
    /\ cases = 0 /\ snapshots = 0 /\ upsets = 0 /\ calm = FALSE

Harness ==
    \/ StartCase \/ CheckDashboard
    \/ ReuseFixture \/ LabelFixture \/ CreateFixture \/ ReopenFixture
    \/ ClearComments \/ TakeSnapshot \/ SeedWorkflow \/ BumpTrigger
    \/ FailSeen \/ VerifyMarker \/ RouteSeen \/ CommentSeen
    \/ Deadline \/ Abort

Next ==
    \/ Harness
    \/ StartFail \/ EndFail \/ StartCaller
    \/ AgentReports \/ AgentStaysSilent
    \/ People

Spec == Init /\ [][Next]_vars

-----------------------------------------------------------------------------
(* The oracle passes a case that was not blocked and names a caller run    *)
(* and a comment.                                                          *)
OraclePasses == At("reported") /\ harness.route > 0 /\ harness.comment > 0

(* Every variable keeps its shape and every reference names something that *)
(* exists: the runs of a case, the cause of a caller run, the author of a  *)
(* comment.                                                                *)
TypeOK ==
    /\ pr \in [number : Nat, open : BOOLEAN, labelled : BOOLEAN]
    /\ branch \in [head : Nat, workflow : {"current", "missing", "drifted"},
                   bumped : BOOLEAN]
    /\ enabled \in BOOLEAN /\ calm \in BOOLEAN
    /\ events \subseteq [pr : Nat, head : Nat, labelled : BOOLEAN]
    /\ fails \in Seq(FailRun) /\ callers \in Seq(CallerRun)
    /\ comments \subseteq Comment
    /\ harness \in Case
    /\ {cases, snapshots, upsets} \subseteq Nat
    /\ \A c \in DOMAIN callers : callers[c].fail \in DOMAIN fails
    /\ \A m \in comments : m.caller \in DOMAIN callers \cup {0} /\ m.epoch <= snapshots
    /\ harness.fail \in DOMAIN fails \cup {0}
    /\ harness.route \in DOMAIN callers \cup {0}
    /\ harness.head <= branch.head

(* A case that passes shows the whole path: the intentional failure of its *)
(* own push, the caller run this very failure triggered, and a comment of  *)
(* the agent on that run made since the case began.  No run or comment of  *)
(* an earlier case, of a seed push or of a relabelling can make it green.  *)
OwnFailureAnswered ==
    OraclePasses =>
        /\ harness.fail > 0 /\ fails[harness.fail].head = harness.head
        /\ callers[harness.route].fail = harness.fail
        /\ \E m \in comments : /\ m.caller = harness.route
                               /\ m.binds /\ m.fail = harness.fail
                               /\ m.epoch = snapshots

(* The comment a passing case reports was made during the case, although   *)
(* agents of earlier cases comment at any time, also between the clearing  *)
(* of old comments and the start of the clock.                             *)
ReportedCommentIsFresh ==
    OraclePasses =>
        \E m \in comments : m.caller = harness.comment /\ m.epoch = snapshots

(* A case that finds its prerequisites met and nothing under way, and that *)
(* nothing upsets, passes: also after cases that failed, and with reports  *)
(* of earlier cases on the pull request, which would keep the agent silent.*)
UndisturbedCasePasses ==
    calm /\ harness.at \in {"blocked", "reported", "died"} => OraclePasses
=============================================================================
