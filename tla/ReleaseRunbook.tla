--------------------------- MODULE ReleaseRunbook ---------------------------
(***************************************************************************)
(* The operator's side of the release train (docs/operations/              *)
(* release-model.md, "Fail-closed rules"): when the pointers merge fails   *)
(* after tags moved, re-run the same promote or rollback and start nothing *)
(* else until it has landed.                                               *)
(***************************************************************************)
EXTENDS ReleaseTrain

VARIABLE outage   \* whether steps still fail for reasons outside the repository

runbookVars == <<vars, outage>>

\* A release whose pull request is open and could still merge.
Unlanded(r) == pr[r].state \in {"open", "approved"} /\ Mergeable(r)

Enters(r) == run[r].phase # "pending" /\ run'[r].phase = "pending"

\* After the outage a run fails only where the code refuses the next step.
Refused(r) ==
    /\ \/ run[r].phase = "gate"
             /\ ~(PlanAccepted(r) /\ (run[r].kind = "rollback" \/ SemverFree(Target(r).current)))
       \/ run[r].phase = "planned" /\ ~PointersBaseMatchesTip(r)
       \/ run[r].phase = "opened" /\ run[r].kind # "rollback"
             /\ ~SemverFree(Target(r).current)
       \/ run[r].phase = "approved" /\ pr[r].state # "merged" /\ ~Mergeable(r)
       \/ run[r].phase = "landed" /\ run[r].kind # "rollback"
             /\ Target(r).current.semver \in published
    /\ Fail(r)

\* From the releases the repository carries.
RunbookInit == Init /\ ~Bootstrap(files[TipVersion]) /\ outage = TRUE

\* Any behaviour of the train, until the outage ends.
DuringOutage == outage /\ Next /\ outage' \in BOOLEAN

\* From then on the runbook is followed.
AfterOutage ==
    /\ ~outage
    /\ \/ PushCommit
       \/ \E r \in Runs : \/ Dispatch(r) \/ Rerun(r) \/ Start(r) \/ Step(r)
                          \/ MergeOutOfBand(r) \/ Refused(r)
    /\ (\E q \in Runs : Unlanded(q)) => \A r \in Runs : Enters(r) => Unlanded(r)
    /\ UNCHANGED outage

\* Jobs run until they end (the runner executes them), a waiting run that is
\* free to start again and again starts, unlanded releases are re-run.
RunbookSpec ==
    /\ RunbookInit
    /\ [][DuringOutage \/ AfterOutage]_runbookVars
    /\ WF_vars(~outage /\ \E r \in Runs : Step(r) \/ Refused(r))
    /\ \A r \in Runs :
          /\ SF_vars(~outage /\ Start(r))
          /\ WF_vars(~outage /\ Unlanded(r) /\ Rerun(r))

\* "If the pointers merge fails after tags moved: re-run the same promote or
\* rollback": following that, an unlanded release always gives way to a
\* landing, its own or that of the release that overtook it.
InFlightResolved == \A r \in Runs : Unlanded(r) /\ ~outage ~> ~Mergeable(r)
=============================================================================
