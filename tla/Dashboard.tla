----------------------------- MODULE Dashboard ------------------------------
(***************************************************************************)
(* The Control Plane dashboard issue of one repository: people tick its    *)
(* boxes, sync_control_plane_dashboard.py rewrites its body with the rows  *)
(* of the registries, and dashboard_audit.py leaves a comment for every    *)
(* change and asks for the reason of a person's deactivation.              *)
(*                                                                         *)
(* The body is the state of its boxes; an id without a row is outside its  *)
(* domain.  Closing the issue is not modelled.                             *)
(***************************************************************************)
EXTENDS Naturals, Sequences, FiniteSets

CONSTANTS
    Ids,         \* compound ids, org:workflow-id[:sub-feature-id]
    Registries,  \* states of the org registries: rows with default_enabled
    Orgs,        \* orgs whose triggers the repository has installed
    Within,      \* Within[i]: the ids whose text occurs in the text of i
    PageSize,    \* comments in the one page the reason job reads
    MaxSyncs,    \* bound: runs of the sync workflow
    MaxEdits,    \* bound: edits by people
    MaxReplies   \* bound: comments by people

Bodies == UNION {[rows -> BOOLEAN] : rows \in SUBSET Ids}

ASSUME DashboardAssumption ==
    /\ Registries \subseteq Bodies /\ Registries # {}
    /\ Within \in [Ids -> SUBSET Ids]
    /\ \A i \in Ids : i \in Within[i]
    /\ {MaxSyncs, MaxEdits, MaxReplies} \subseteq Nat
    /\ PageSize \in Nat \ {0}

VARIABLES
    registry,  \* config/*/workflow-registry.json on main
    open,      \* whether the dashboard issue exists
    body,      \* its boxes
    waiting,   \* the sync run the concurrency group keeps waiting
    sync,      \* the sync run in progress
    syncs,     \* how many were triggered
    events,    \* the edits of the issue GitHub reported
    jobs,      \* checkbox-delta jobs
    replies,   \* record-reason jobs
    asked,     \* how many comments people made
    comments,  \* audit comments on the issue, oldest first
    (* history *)
    created,   \* the boxes at creation
    raced,     \* a sync overwrote a body it had not read
    lost       \* jobs that failed: before an audit comment, or the newest sync

vars == <<registry, open, body, waiting, sync, syncs, events, jobs, replies,
          asked, comments, created, raced, lost>>
issue == <<open, body, events, jobs, created>>
audit == <<replies, asked, comments>>

-----------------------------------------------------------------------------
(* Data *)

NoRows == [i \in {} |-> FALSE]
On(b) == {i \in DOMAIN b : b[i]}

Run == [phase : {"none", "queued", "read", "written"}, rows : Bodies,
        forced : BOOLEAN, found : BOOLEAN, before : Bodies, after : Bodies]
NoRun == [phase |-> "none", rows |-> NoRows, forced |-> FALSE,
          found |-> FALSE, before |-> NoRows, after |-> NoRows]

Event == [actor : {"person", "bot"}, before : Bodies, after : Bodies]
Job == [event : Nat, org : Orgs, todo : SUBSET Ids]
ReasonJob == [reply : Nat, org : Orgs, names : SUBSET Ids, target : Nat]
Comment == [source : {"user", "sync"}, event : Nat, what : Bodies,
            status : {"complete", "awaiting"}, reason : Nat]

\* Ids whose enablement differs; an unchecked row that comes or goes does not.
Deltas(before, after) == (On(before) \ On(after)) \union (On(after) \ On(before))
Directions(before, after) ==
    [i \in Deltas(before, after) |-> i \in On(after)]

\* Mutant: defaults win over what the issue says.
BuiltFromDefaults(rows, before, forced) == rows
build_dashboard_body(rows, before, forced) ==
    [i \in DOMAIN rows |-> IF ~forced /\ i \in DOMAIN before THEN before[i]
                           ELSE rows[i]]

\* Mutant: the sync's own edit is audited as a person's.
NobodyIsBot(actor) == FALSE
is_bot_actor(actor) == actor = "bot"

\* Mutant: a job looks at the edit before its own.
PreviousEdit(actor, before, after) ==
    IF is_bot_actor(actor) THEN {}
    ELSE [event : {Len(events)}, org : Orgs, todo : {Deltas(before, after)}]

\* Each org's issues orchestrator calls the audit workflow.
AuditJobs(actor, before, after) ==
    IF is_bot_actor(actor) THEN {}
    ELSE [event : {Len(events) + 1}, org : Orgs, todo : {Deltas(before, after)}]

\* The awaiting entry a reply is attached to: the newest one the reply names,
\* else the newest; 0 without any.
find_awaiting_comment(names) ==
    LET page == {k \in DOMAIN comments : k > Len(comments) - PageSize}
        awaiting == {k \in page : comments[k].status = "awaiting"}
        named == {k \in awaiting : DOMAIN comments[k].what \intersect names # {}}
        pool == IF named # {} THEN named ELSE awaiting
    IN  IF pool = {} THEN 0 ELSE CHOOSE k \in pool : \A l \in pool : l <= k

-----------------------------------------------------------------------------
Init ==
    /\ registry \in Registries
    /\ open = FALSE /\ body = NoRows /\ created = NoRows
    /\ waiting = NoRun /\ sync = NoRun /\ syncs = 0
    /\ events = <<>> /\ jobs = {} /\ replies = {} /\ asked = 0
    /\ comments = <<>>
    /\ raced = FALSE /\ lost = {}

(* sync-control-plane-dashboard.yml *)

\* Mutant: a newer run does not replace the waiting one.
EnqueueUnlessWaiting(rows, forced) ==
    waiting' = IF waiting # NoRun THEN waiting
               ELSE [NoRun EXCEPT !.phase = "queued", !.rows = rows,
                                  !.forced = forced]

Enqueue(rows, forced) ==
    waiting' = [NoRun EXCEPT !.phase = "queued", !.rows = rows,
                             !.forced = forced]

PushRegistry(rows) ==
    /\ syncs < MaxSyncs
    /\ registry' = rows
    /\ syncs' = syncs + 1
    /\ Enqueue(rows, FALSE)
    /\ UNCHANGED <<issue, sync, audit, raced, lost>>

DispatchSync(forced) ==
    /\ syncs < MaxSyncs
    /\ syncs' = syncs + 1
    /\ Enqueue(registry, forced)
    /\ UNCHANGED <<registry, issue, sync, audit, raced, lost>>

StartSync ==
    /\ waiting # NoRun /\ sync = NoRun
    /\ sync' = waiting
    /\ waiting' = NoRun
    /\ lost' = lost \ {"sync"}
    /\ UNCHANGED <<registry, issue, syncs, audit, raced>>

FindDashboardIssue ==
    /\ sync.phase = "queued"
    /\ sync' = [sync EXCEPT !.phase = "read", !.found = open, !.before = body,
                            !.after = build_dashboard_body(sync.rows, body,
                                                           sync.forced)]
    /\ UNCHANGED <<registry, issue, waiting, syncs, audit, raced, lost>>

CreateIssue ==
    /\ sync.phase = "read" /\ ~sync.found
    /\ open' = TRUE
    /\ body' = sync.after /\ created' = sync.after
    /\ sync' = NoRun
    /\ UNCHANGED <<registry, waiting, syncs, events, jobs, audit, raced, lost>>

\* The PATCH is unconditional: whatever the body became since it was read.
UpdateIssue ==
    /\ sync.phase = "read" /\ sync.found
    /\ body' = sync.after
    /\ IF body = sync.after THEN UNCHANGED <<events, jobs>>
       ELSE /\ events' = Append(events, [actor |-> "bot", before |-> body,
                                         after |-> sync.after])
            /\ jobs' = jobs \union AuditJobs("bot", body, sync.after)
    /\ raced' = (raced \/ body # sync.before)
    /\ sync' = [sync EXCEPT !.phase = "written"]
    /\ UNCHANGED <<registry, open, waiting, syncs, audit, created, lost>>

PostSyncAudit ==
    /\ sync.phase = "written"
    /\ comments' = IF Deltas(sync.before, sync.after) = {} THEN comments
                   ELSE Append(comments,
                          [source |-> "sync", event |-> 0,
                           what |-> Directions(sync.before, sync.after),
                           status |-> "complete", reason |-> 0])
    /\ sync' = NoRun
    /\ UNCHANGED <<registry, issue, waiting, syncs, replies, asked, raced, lost>>

\* The exception is logged and the run succeeds.
SyncAuditFails ==
    /\ sync.phase = "written"
    /\ sync' = NoRun /\ lost' = lost \union {"audit"}
    /\ UNCHANGED <<registry, issue, waiting, syncs, audit, raced>>

SyncFails ==
    /\ sync.phase \in {"queued", "read"}
    /\ sync' = NoRun /\ lost' = lost \union {"sync"}
    /\ UNCHANGED <<registry, issue, waiting, syncs, audit, raced>>

(* People, and aw-dashboard-audit.yml *)

PersonEdits(new) ==
    /\ open /\ new # body
    /\ Cardinality({n \in DOMAIN events : events[n].actor = "person"}) < MaxEdits
    /\ body' = new
    /\ events' = Append(events, [actor |-> "person", before |-> body,
                                 after |-> new])
    /\ jobs' = jobs \union AuditJobs("person", body, new)
    /\ UNCHANGED <<registry, open, waiting, sync, syncs, audit, created, raced,
                   lost>>

\* Mutant: only the first delta of an edit gets its comment.
PostFirst(j, i) == {[j EXCEPT !.todo = {}]}
Posted(j, i) == {[j EXCEPT !.todo = @ \ {i}]}

\* One comment per delta; a deactivation awaits its reason.
PostUserAudit(j, i) ==
    LET to == i \in On(events[j.event].after) IN
    /\ comments' = Append(comments,
         [source |-> "user", event |-> j.event, what |-> [k \in {i} |-> to],
          status |-> IF to THEN "complete" ELSE "awaiting", reason |-> 0])
    /\ jobs' = (jobs \ {j}) \union {d \in Posted(j, i) : d.todo # {}}
    /\ UNCHANGED <<registry, open, body, events, created, waiting, sync, syncs,
                   replies, asked, raced, lost>>

AuditJobFails(j) ==
    /\ jobs' = jobs \ {j} /\ lost' = lost \union {"audit"}
    /\ UNCHANGED <<registry, open, body, events, created, waiting, sync, syncs,
                   audit, raced>>

\* names: the ids that occur in the text of the comment.
PersonReplies(names) ==
    /\ open /\ asked < MaxReplies
    /\ asked' = asked + 1
    /\ replies' = replies \union
         [reply : {asked + 1}, org : Orgs, names : {names}, target : {0}]
    /\ UNCHANGED <<registry, issue, waiting, sync, syncs, comments, raced, lost>>

ListComments(r) ==
    LET target == find_awaiting_comment(r.names) IN
    /\ r.target = 0
    /\ replies' = (replies \ {r}) \union
         (IF target = 0 THEN {} ELSE {[r EXCEPT !.target = target]})
    /\ UNCHANGED <<registry, issue, waiting, sync, syncs, asked, comments, raced,
                   lost>>

\* Rewritten from the body that was listed, whatever it has become.
RecordReason(r) ==
    /\ r.target # 0
    /\ comments' = [comments EXCEPT ![r.target].status = "complete",
                                    ![r.target].reason = r.reply]
    /\ replies' = replies \ {r}
    /\ UNCHANGED <<registry, issue, waiting, sync, syncs, asked, raced, lost>>

ReasonJobFails(r) ==
    /\ replies' = replies \ {r}
    /\ UNCHANGED <<registry, issue, waiting, sync, syncs, asked, comments, raced,
                   lost>>

-----------------------------------------------------------------------------
SyncSteps ==
    \/ StartSync \/ FindDashboardIssue \/ CreateIssue \/ UpdateIssue
    \/ PostSyncAudit
AuditSteps == \E j \in jobs : \E i \in j.todo : PostUserAudit(j, i)
ReasonSteps == \E r \in replies : ListComments(r) \/ RecordReason(r)

Next ==
    \/ \E rows \in Registries : PushRegistry(rows)
    \/ \E forced \in BOOLEAN : DispatchSync(forced)
    \/ SyncSteps \/ SyncAuditFails \/ SyncFails
    \/ \E new \in [DOMAIN body -> BOOLEAN] : PersonEdits(new)
    \/ AuditSteps
    \/ \E j \in jobs : AuditJobFails(j)
    \/ \E names \in {{}} \union {Within[i] : i \in Ids} : PersonReplies(names)
    \/ ReasonSteps
    \/ \E r \in replies : ReasonJobFails(r)

Spec == Init /\ [][Next]_vars

\* GitHub starts queued runs and jobs, and their scripts do not wait.
FairSpec == Spec /\ WF_vars(SyncSteps) /\ WF_vars(AuditSteps)
                 /\ WF_vars(ReasonSteps)

-----------------------------------------------------------------------------
(* Properties *)

\* Every variable stays within the shape its comment gives.
TypeOK ==
    /\ registry \in Registries
    /\ open \in BOOLEAN /\ body \in Bodies /\ created \in Bodies
    /\ waiting \in Run /\ sync \in Run /\ syncs \in Nat
    /\ events \in Seq(Event)
    /\ \A j \in jobs : j \in Job /\ j.event \in DOMAIN events
    /\ \A r \in replies : r \in ReasonJob /\ r.target \in {0} \union DOMAIN comments
    /\ asked \in Nat
    /\ comments \in Seq(Comment)
    /\ raced \in BOOLEAN /\ lost \subseteq {"audit", "sync"}

\* How many changes of i to the state `to' are in the trail or on their way
\* to it: comments, deltas of unfinished jobs, the sync about to comment.
Told(i, to) ==
    Cardinality({k \in DOMAIN comments :
                   i \in DOMAIN comments[k].what /\ comments[k].what[i] = to})
    + Cardinality({j \in jobs : i \in j.todo
                                /\ (i \in On(events[j.event].after)) = to})
    + Cardinality({s \in {sync} : s.phase = "written"
                     /\ i \in Deltas(s.before, s.after)
                     /\ (i \in On(s.after)) = to})

Bit(set, i) == IF i \in set THEN 1 ELSE 0
Balanced(i) ==
    Bit(On(created), i) + Told(i, TRUE) = Bit(On(body), i) + Told(i, FALSE)

\* The audit comments account for the state of every box: starting from the
\* boxes at creation, the recorded enables and disables lead to the body, in
\* whatever order jobs, syncs and forced resets ran, unless a job failed or a
\* sync overwrote an edit it had not read (dashboard_audit.py:94,
\* sync_control_plane_dashboard.py:438).
TrailBalances == ~raced /\ "audit" \notin lost => \A i \in Ids : Balanced(i)

\* To the people who tick boxes the dashboard is a register that a sync changes
\* at once: unless reset, the box of a row that stays keeps a state it had since
\* the sync read the body (sync_control_plane_dashboard.py:416), the last one if
\* nobody edited in between.
Reading == sync.phase = "read"
Register == INSTANCE CheckboxRegister WITH
    present <- open,
    boxes   <- body,
    task    <- IF Reading THEN {[rows |-> sync.rows, reset |-> sync.forced]} ELSE {},
    seen    <- IF Reading THEN {sync.before, body} ELSE {}
ImplementsRegister == Register!Spec

\* Every delta of a person's edit gets its comment, however many boxes one edit
\* changed, unless a job failed (post_user_checkbox_audits).
Audited(n, i) ==
    \E k \in DOMAIN comments :
       comments[k].event = n /\ i \in DOMAIN comments[k].what
EveryEditAudited ==
    []<>("audit" \notin lost =>
           \A n \in DOMAIN events : events[n].actor = "person" =>
              \A i \in Deltas(events[n].before, events[n].after) : Audited(n, i))

\* The dashboard ends up with the rows of the registries on main although a
\* newer sync run replaces the one that waits, unless the last one failed.
RowsFollowRegistry ==
    <>[](open /\ "sync" \notin lost => DOMAIN body = DOMAIN registry)
=============================================================================
