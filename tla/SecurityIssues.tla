--------------------------- MODULE SecurityIssues ---------------------------
(***************************************************************************)
(* The reports of the security detectors in one repository: every scan     *)
(* opens one issue per rule with findings (create-security-issues.sh), and *)
(* for every new issue a superseder closes the older open issues of its    *)
(* rule, unless somebody wants one kept or a pull request is linked to it  *)
(* (supersede-security-issues.sh).                                         *)
(***************************************************************************)
EXTENDS Naturals, Sequences, FiniteSets

CONSTANTS
    Rules,      \* SEC ids; the four detectors look for disjoint sets of them
    PageSize,   \* open issues the superseder lists
    MaxIssues,  \* bound: issues opened
    MaxReruns,  \* bound: superseders re-run
    MaxActs     \* bound: acts of people and of the fixer

ASSUME SecurityAssumption == {PageSize, MaxIssues, MaxReruns, MaxActs} \subseteq Nat

VARIABLES
    issues,  \* issues[n]: issue n
    run,     \* run[n]: the superseder that issue n started
    reruns,  \* superseders re-run
    acts,    \* acts of people and of the fixer
    window   \* history, window[n]: what happened since run n began

vars == <<issues, run, reruns, acts, window>>

-----------------------------------------------------------------------------
(* Data *)

\* closer: the newer issue in whose favour a superseder closed it, or 0.
Issue == [rule : Rules, open : BOOLEAN, keep : BOOLEAN, fix : BOOLEAN,
          closer : Nat]
NewIssue(rule) == [rule |-> rule, open |-> TRUE, keep |-> FALSE, fix |-> FALSE,
                   closer |-> 0]

Working == {"listing", "working", "lookup", "commenting", "closing"}
Ended == {"done", "skipped", "failed"}
Run == [phase : {"none", "queued"} \union Working \union Ended,
        todo : SUBSET Nat, at : Nat]
NoRun == [phase |-> "none", todo |-> {}, at |-> 0]

\* unkept, unlinked: issues that were, at some moment since the run began,
\* without the label keep-open, and without an open pull request.
\* excused: issues the run may leave open.  blind: one of its lookups failed.
Window == [unkept : SUBSET Nat, unlinked : SUBSET Nat, excused : SUBSET Nat,
           blind : BOOLEAN]

\* Mutant: any other issue of the rule is a candidate, newer ones too.
OthersOfRule(c) ==
    {n \in DOMAIN issues : n # c /\ issues[n].open /\ issues[n].rule = issues[c].rule}

OlderOfRule(c) ==
    {n \in DOMAIN issues : n < c /\ issues[n].open /\ issues[n].rule = issues[c].rule}

\* gh issue list --limit: the newest open issues of all rules.
Page ==
    {n \in DOMAIN issues : issues[n].open
       /\ Cardinality({m \in DOMAIN issues : m > n /\ issues[m].open}) < PageSize}

-----------------------------------------------------------------------------
Init ==
    /\ issues = <<>> /\ run = <<>> /\ window = <<>>
    /\ reruns = 0 /\ acts = 0

\* What run c sees of the older issues of its rule.
Seen(c, all, flag) ==
    {n \in DOMAIN all : n < c /\ all[n].rule = all[c].rule /\ ~all[n][flag]}

\* What the runs under way have seen, were the issues to become `new'.
Watch(new) ==
    window' = [c \in DOMAIN window |->
       IF run[c].phase \notin Working THEN window[c]
       ELSE [window[c] EXCEPT !.unkept = @ \union Seen(c, new, "keep"),
                              !.unlinked = @ \union Seen(c, new, "fix")]]

NoWindow == [unkept |-> {}, unlinked |-> {}, excused |-> {}, blind |-> FALSE]

(* Detectors *)

\* One round of the loop in create-security-issues.sh.  Which rules a scan
\* finds, and after which of them it fails, is left open.  The superseder
\* starts unless its gate is closed or the issue was opened with a token
\* whose events start nothing.
FileIssue(rule) ==
    /\ Len(issues) < MaxIssues
    /\ issues' = Append(issues, NewIssue(rule))
    /\ \E phase \in {"none", "queued"} :
          run' = Append(run, [NoRun EXCEPT !.phase = phase])
    /\ window' = Append(window, NoWindow)
    /\ UNCHANGED <<reruns, acts>>

(* The superseder of issue c *)

Goes(c, phase, todo, at) ==
    run' = [run EXCEPT ![c] = [phase |-> phase, todo |-> todo, at |-> at]]

Excuse(c, set) == window' = [window EXCEPT ![c].excused = @ \union set]

ViewCanonical(c) ==
    /\ run[c].phase = "queued"
    /\ Goes(c, IF issues[c].open THEN "listing" ELSE "skipped", {}, 0)
    /\ window' = [window EXCEPT ![c].unkept = Seen(c, issues, "keep"),
                                 ![c].unlinked = Seen(c, issues, "fix")]
    /\ UNCHANGED <<issues, reruns, acts>>

ListCandidates(c) ==
    /\ run[c].phase = "listing"
    /\ Goes(c, "working", OlderOfRule(c) \intersect Page, 0)
    /\ Excuse(c, OlderOfRule(c) \ Page)
    /\ UNCHANGED <<issues, reruns, acts>>

\* Mutant: the first issue to be kept ends the loop.
StopAtKept(c, n) == Goes(c, "working", {}, 0)
SkipKept(c, n) == Goes(c, "working", run[c].todo \ {n}, 0)

\* Candidates in the order of the list, newest first.
ViewCandidate(c, n) ==
    /\ run[c].phase = "working"
    /\ n \in run[c].todo /\ \A m \in run[c].todo : m <= n
    /\ \/ ~issues[n].open
          /\ Goes(c, "working", run[c].todo \ {n}, 0)
          /\ UNCHANGED window
       \/ issues[n].open /\ issues[n].keep
          /\ SkipKept(c, n)
          /\ Excuse(c, {n})
       \/ issues[n].open /\ ~issues[n].keep
          /\ Goes(c, "lookup", run[c].todo \ {n}, n)
          /\ UNCHANGED window
    /\ UNCHANGED <<issues, reruns, acts>>

\* Mutant: linked pull requests are not looked up.
NoFix(c) == FALSE
issue_has_open_linked_pr(c) == issues[run[c].at].fix

FindLinkedPRs(c) ==
    /\ run[c].phase = "lookup"
    /\ IF issue_has_open_linked_pr(c)
       THEN Goes(c, "working", run[c].todo, 0) /\ Excuse(c, {run[c].at})
       ELSE Goes(c, "commenting", run[c].todo, run[c].at) /\ UNCHANGED window
    /\ UNCHANGED <<issues, reruns, acts>>

\* A failing gh leaves the list of linked pull requests empty: it runs in a
\* process substitution and below an `if', where errexit does not apply.
LookupFails(c) ==
    /\ run[c].phase = "lookup"
    /\ Goes(c, "commenting", run[c].todo, run[c].at)
    /\ window' = [window EXCEPT ![c].blind = TRUE]
    /\ UNCHANGED <<issues, reruns, acts>>

PostComment(c) ==
    /\ run[c].phase = "commenting"
    /\ Goes(c, "closing", run[c].todo, run[c].at)
    /\ UNCHANGED <<issues, reruns, acts, window>>

\* Closing a closed issue changes nothing.
CloseIssue(c) ==
    /\ run[c].phase = "closing"
    /\ issues' = [issues EXCEPT ![run[c].at] =
                    IF @.open THEN [@ EXCEPT !.open = FALSE, !.closer = c] ELSE @]
    /\ Goes(c, "working", run[c].todo, 0)
    /\ UNCHANGED <<reruns, acts, window>>

FinishRun(c) ==
    /\ run[c].phase = "working" /\ run[c].todo = {}
    /\ Goes(c, "done", {}, 0)
    /\ window' = [window EXCEPT ![c] = [NoWindow EXCEPT !.excused = window[c].excused]]
    /\ UNCHANGED <<issues, reruns, acts>>

RunFails(c) ==
    /\ run[c].phase \in {"queued"} \union Working
    /\ Goes(c, "failed", {}, 0)
    /\ window' = [window EXCEPT ![c] = NoWindow]
    /\ UNCHANGED <<issues, reruns, acts>>

Rerun(c) ==
    /\ run[c].phase \in Ended /\ reruns < MaxReruns
    /\ reruns' = reruns + 1
    /\ Goes(c, "queued", {}, 0)
    /\ window' = [window EXCEPT ![c] = NoWindow]
    /\ UNCHANGED <<issues, acts>>

(* People and the fixer *)

Act(n, new) ==
    /\ acts < MaxActs
    /\ acts' = acts + 1
    /\ issues' = [issues EXCEPT ![n] = new]
    /\ UNCHANGED <<run, reruns>>

ToggleKeep(n) ==
    /\ Act(n, [issues[n] EXCEPT !.keep = ~@])
    /\ Watch(issues')

OpenFix(n) ==
    /\ issues[n].open /\ ~issues[n].fix
    /\ Act(n, [issues[n] EXCEPT !.fix = TRUE])
    /\ Watch(issues')

\* The pull request is closed, or merged, which closes the issue.
EndFix(n) ==
    /\ issues[n].fix
    /\ \E merged \in BOOLEAN :
          Act(n, [issues[n] EXCEPT !.fix = FALSE, !.open = @ /\ ~merged])
    /\ Watch(issues')

CloseByHand(n) ==
    /\ issues[n].open
    /\ Act(n, [issues[n] EXCEPT !.open = FALSE])
    /\ UNCHANGED window

Reopen(n) ==
    /\ ~issues[n].open
    /\ Act(n, [issues[n] EXCEPT !.open = TRUE, !.closer = 0])
    /\ window' = [c \in DOMAIN window |->
         IF run[c].phase \in Working \union {"done"}
         THEN [window[c] EXCEPT !.excused = @ \union {n}] ELSE window[c]]

-----------------------------------------------------------------------------
Supersede(c) ==
    \/ ViewCanonical(c) \/ ListCandidates(c)
    \/ \E n \in run[c].todo : ViewCandidate(c, n)
    \/ FindLinkedPRs(c) \/ LookupFails(c) \/ PostComment(c) \/ CloseIssue(c)
    \/ FinishRun(c) \/ RunFails(c) \/ Rerun(c)

People(n) ==
    ToggleKeep(n) \/ OpenFix(n) \/ EndFix(n) \/ CloseByHand(n) \/ Reopen(n)

Next ==
    \/ \E rule \in Rules : FileIssue(rule)
    \/ \E n \in DOMAIN issues : Supersede(n) \/ People(n)

Spec == Init /\ [][Next]_vars

-----------------------------------------------------------------------------
(* Properties *)

\* Every variable keeps its shape; every issue has its run, whose candidates
\* are older issues.
TypeOK ==
    /\ issues \in Seq(Issue) /\ run \in Seq(Run) /\ window \in Seq(Window)
    /\ Len(run) = Len(issues) /\ Len(window) = Len(issues)
    /\ \A c \in DOMAIN run : run[c].todo \subseteq 1..(c - 1) /\ run[c].at < c
    /\ reruns \in Nat /\ acts \in Nat

\* Superseders never take a rule's last report away, however many of them run
\* at once and whenever they are re-run: an issue they closed has a newer one
\* of its rule that they did not close (supersede-security-issues.sh:193).
NewestReportSurvives ==
    \A n \in DOMAIN issues : issues[n].closer # 0 =>
       \E m \in DOMAIN issues :
          m > n /\ issues[m].rule = issues[n].rule /\ issues[m].closer = 0

\* A superseder closes no issue that carried keep-open all the time since the
\* superseder began, and none that had an open linked pull request all that
\* time unless its lookup failed (issue_should_stay_open, whose two reads and
\* the call that closes are three moments).
WantedIssuesStayOpen ==
    [][\A n \in DOMAIN issues :
          issues[n].closer = 0 /\ issues'[n].closer # 0 =>
             LET w == window[issues'[n].closer] IN
             n \in w.unkept /\ (n \in w.unlinked \/ w.blind)]_vars

\* A run that finishes has left none of the older reports of its rule open but
\* those it may: kept, linked, beyond its page, or reopened (main,
\* process_superseded_issue).
OlderReportsClosed ==
    \A c \in DOMAIN issues : run[c].phase = "done" =>
       OlderOfRule(c) \subseteq window[c].excused
=============================================================================
