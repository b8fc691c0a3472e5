-------------------------- MODULE DashboardProofs ---------------------------
(***************************************************************************)
(* Proofs about Dashboard, for any ids, registries and number of syncs,    *)
(* edits and replies; that the trail balances, for one org.                *)
(***************************************************************************)
EXTENDS Dashboard, WellFoundedInduction, SequenceTheorems, FiniteSetTheorems, TLAPS

LEMMA BodyIs == \A b : b \in Bodies <=> b \in [DOMAIN b -> BOOLEAN] /\ DOMAIN b \subseteq Ids
BY DEF Bodies

LEMMA NoRowsType == NoRows \in Bodies /\ DOMAIN NoRows = {} /\ NoRun \in Run
<1>1. DOMAIN NoRows = {} /\ NoRows \in [{} -> BOOLEAN]
  BY DEF NoRows
<1>2. NoRows \in Bodies
  BY <1>1, BodyIs
<1> QED
  BY <1>1, <1>2 DEF NoRun, Run

LEMMA BuiltType ==
    ASSUME NEW rows \in Bodies, NEW before \in Bodies, NEW forced \in BOOLEAN
    PROVE  build_dashboard_body(rows, before, forced) \in Bodies
<1>1. rows \in [DOMAIN rows -> BOOLEAN] /\ DOMAIN rows \subseteq Ids
      /\ before \in [DOMAIN before -> BOOLEAN]
  BY BodyIs
<1> DEFINE b == build_dashboard_body(rows, before, forced)
<1>2. DOMAIN b = DOMAIN rows /\ b \in [DOMAIN rows -> BOOLEAN]
  BY <1>1 DEF build_dashboard_body
<1> QED
  BY <1>1, <1>2, BodyIs

LEMMA DirectionsType ==
    ASSUME NEW before \in Bodies, NEW after \in Bodies
    PROVE  /\ Directions(before, after) \in Bodies
           /\ DOMAIN Directions(before, after) = Deltas(before, after)
           /\ On(Directions(before, after)) = Deltas(before, after) \intersect On(after)
           /\ Deltas(before, after) \subseteq Ids
<1>1. DOMAIN before \subseteq Ids /\ DOMAIN after \subseteq Ids
  BY BodyIs
<1>2. Deltas(before, after) \subseteq Ids
  BY <1>1 DEF Deltas, On
<1> DEFINE d == Directions(before, after)
<1>3. /\ DOMAIN d = Deltas(before, after)
      /\ \A i \in Deltas(before, after) : d[i] = (i \in On(after))
      /\ d \in [Deltas(before, after) -> BOOLEAN]
  BY DEF Directions
<1> HIDE DEF d
<1>4. On(d) = Deltas(before, after) \intersect On(after)
  BY <1>3 DEF On
<1> QED
  BY <1>2, <1>3, <1>4, BodyIs DEF d

-----------------------------------------------------------------------------
(* The inductive invariant *)

\* What a sync is about to write comes from what it read; only the sync
\* creates the issue, and nothing happens to an issue that does not exist.
SyncInv ==
    /\ sync.phase \in {"read", "written"} =>
         sync.after = build_dashboard_body(sync.rows, sync.before, sync.forced)
    /\ sync.phase = "read" => (sync.found <=> open)
    /\ sync.phase = "written" => open
    /\ ~open => body = NoRows /\ jobs = {} /\ comments = <<>>
    /\ waiting.phase \in {"none", "queued"}

IInv == TypeOK /\ SyncInv

LEMMA Initially == Init => IInv
<1> SUFFICES ASSUME Init PROVE IInv
  OBVIOUS
<1>1. events \in Seq(Event) /\ comments \in Seq(Comment) /\ syncs \in Nat /\ asked \in Nat
  BY DEF Init
<1>2. TypeOK
  BY <1>1, NoRowsType DEF Init, TypeOK
<1> QED
  BY <1>2 DEF Init, IInv, SyncInv, NoRun

\* Edits leave a job of every org whose trigger is there.
LEMMA EditFacts ==
    ASSUME IInv, NEW new \in Bodies, NEW actor \in {"person", "bot"},
           events' = Append(events, [actor |-> actor, before |-> body, after |-> new]),
           jobs' = jobs \union AuditJobs(actor, body, new),
           UNCHANGED <<comments, replies>>
    PROVE  /\ events' \in Seq(Event) /\ Len(events') = Len(events) + 1
           /\ events'[Len(events) + 1] = [actor |-> actor, before |-> body, after |-> new]
           /\ \A n \in 1 .. Len(events) : events'[n] = events[n]
           /\ \A j \in jobs' : j \in Job /\ j.event \in DOMAIN events'
<1> DEFINE e == [actor |-> actor, before |-> body, after |-> new]
<1>1. e \in Event /\ events \in Seq(Event)
  BY DEF Event, IInv, TypeOK
<1>2. events' = Append(events, e)
  OBVIOUS
<1> HIDE DEF e
<1>3. /\ events' \in Seq(Event) /\ Len(events') = Len(events) + 1
      /\ events'[Len(events) + 1] = e /\ Len(events) \in Nat
      /\ \A n \in 1 .. Len(events) : events'[n] = events[n]
  BY <1>1, <1>2, AppendProperties
<1>4. DOMAIN events = 1 .. Len(events) /\ DOMAIN events' = 1 .. (Len(events) + 1)
  BY <1>1, <1>3
<1>5. ASSUME NEW j \in jobs' PROVE j \in Job /\ j.event \in DOMAIN events'
  <2>1. CASE j \in jobs
    BY <1>3, <1>4, <2>1 DEF IInv, TypeOK
  <2>2. CASE j \in AuditJobs(actor, body, new)
    <3>1. Deltas(body, new) \subseteq Ids
      BY DirectionsType DEF IInv, TypeOK
    <3>2. j \in [event : {Len(events) + 1}, org : Orgs, todo : {Deltas(body, new)}]
      BY <2>2 DEF AuditJobs
    <3> QED
      BY <1>3, <1>4, <3>1, <3>2 DEF Job
  <2> QED
    BY <2>1, <2>2
<1> QED
  BY <1>3, <1>5 DEF e

\* A comment at the end of the trail.
LEMMA CommentFacts ==
    ASSUME IInv, NEW c \in Comment, comments' = Append(comments, c), replies' = replies
    PROVE  /\ comments' \in Seq(Comment) /\ Len(comments') = Len(comments) + 1
           /\ comments'[Len(comments) + 1] = c
           /\ DOMAIN comments = 1 .. Len(comments) /\ Len(comments) \in Nat
           /\ DOMAIN comments' = 1 .. (Len(comments) + 1)
           /\ \A n \in DOMAIN comments : comments'[n] = comments[n]
           /\ \A r \in replies' : r \in ReasonJob /\ r.target \in {0} \union DOMAIN comments'
<1>1. comments \in Seq(Comment)
  BY DEF IInv, TypeOK
<1>2. /\ comments' \in Seq(Comment) /\ Len(comments') = Len(comments) + 1
      /\ comments'[Len(comments) + 1] = c /\ Len(comments) \in Nat
      /\ \A n \in 1 .. Len(comments) : comments'[n] = comments[n]
  BY <1>1, AppendProperties
<1>3. DOMAIN comments = 1 .. Len(comments) /\ DOMAIN comments' = 1 .. (Len(comments) + 1)
  BY <1>1, <1>2
<1> QED
  BY <1>2, <1>3 DEF IInv, TypeOK

-----------------------------------------------------------------------------
(* The sync *)

LEMMA QueueSteps ==
    ASSUME IInv, \/ \E rows \in Registries : PushRegistry(rows)
                 \/ \E forced \in BOOLEAN : DispatchSync(forced)
                 \/ StartSync
    PROVE  IInv'
<1>1. UNCHANGED <<open, body, events, jobs, created, replies, asked, comments, raced>>
  BY DEF PushRegistry, DispatchSync, StartSync, issue, audit
<1>2. Registries \subseteq Bodies
  BY DashboardAssumption DEF DashboardAssumption
<1>3. ASSUME NEW rows \in Registries, NEW forced \in BOOLEAN, Enqueue(rows, forced)
      PROVE  waiting' \in Run /\ waiting'.phase = "queued"
  BY <1>2, <1>3, NoRowsType DEF Enqueue, Run, NoRun
<1>4. ASSUME waiting' \in Run, waiting'.phase \in {"none", "queued"}, sync' \in Run,
             sync' = sync \/ sync'.phase \in {"none", "queued"},
             registry' \in Registries, syncs' \in Nat, lost' \subseteq {"audit", "sync"}
      PROVE  IInv'
  <2>1. TypeOK'
    BY <1>1, <1>4 DEF IInv, TypeOK
  <2>2. SyncInv'
    BY <1>1, <1>4 DEF IInv, SyncInv
  <2> QED
    BY <2>1, <2>2 DEF IInv
<1>5. /\ syncs \in Nat /\ waiting \in Run /\ sync \in Run /\ registry \in Registries
      /\ lost \subseteq {"audit", "sync"} /\ waiting.phase \in {"none", "queued"}
  BY DEF IInv, TypeOK, SyncInv
<1>6. CASE StartSync
  BY <1>4, <1>5, <1>6, NoRowsType DEF StartSync, NoRun
<1>7. ASSUME NEW rows \in Registries, PushRegistry(rows) PROVE IInv'
  <2>1. Enqueue(rows, FALSE) /\ FALSE \in BOOLEAN
    BY <1>7 DEF PushRegistry
  <2>2. waiting' \in Run /\ waiting'.phase = "queued"
    BY <1>3, <2>1, Zenon
  <2> QED
    BY <1>4, <1>5, <1>7, <2>2 DEF PushRegistry
<1>8. ASSUME NEW forced \in BOOLEAN, DispatchSync(forced) PROVE IInv'
  BY <1>3, <1>4, <1>5, <1>8 DEF DispatchSync
<1> QED
  BY <1>6, <1>7, <1>8

LEMMA FindStep == ASSUME IInv, FindDashboardIssue PROVE IInv'
<1> DEFINE b == build_dashboard_body(sync.rows, body, sync.forced)
<1>1. /\ UNCHANGED <<registry, open, body, events, jobs, created, waiting, syncs,
                     replies, asked, comments, raced, lost>>
      /\ sync' = [sync EXCEPT !.phase = "read", !.found = open, !.before = body,
                              !.after = b]
  BY DEF FindDashboardIssue, issue, audit
<1>2. sync \in Run /\ open \in BOOLEAN /\ body \in Bodies
  BY DEF IInv, TypeOK
<1>3. b \in Bodies
  BY <1>2, BuiltType DEF Run
<1> HIDE DEF b
<1>4. /\ sync' \in Run /\ sync'.phase = "read" /\ sync'.found = open
      /\ sync'.before = body /\ sync'.after = b
      /\ sync'.rows = sync.rows /\ sync'.forced = sync.forced
  BY <1>1, <1>2, <1>3 DEF Run
<1>5. TypeOK'
  BY <1>1, <1>4 DEF IInv, TypeOK
<1>6. SyncInv'
  BY <1>1, <1>4 DEF IInv, SyncInv, b
<1> QED
  BY <1>5, <1>6 DEF IInv

\* Only one sync runs, so nobody created the issue since it was not found.
LEMMA CreateStep == ASSUME IInv, CreateIssue PROVE IInv'
<1>1. /\ open' = TRUE /\ body' = sync.after /\ created' = sync.after /\ sync' = NoRun
      /\ UNCHANGED <<registry, waiting, syncs, events, jobs, replies, asked, comments,
                     raced, lost>>
  BY DEF CreateIssue, audit
<1>2. sync.after \in Bodies
  BY DEF IInv, TypeOK, Run
<1>3. TypeOK'
  BY <1>1, <1>2, NoRowsType DEF IInv, TypeOK
<1>4. SyncInv'
  BY <1>1 DEF IInv, SyncInv, NoRun
<1> QED
  BY <1>3, <1>4 DEF IInv

LEMMA UpdateStep == ASSUME IInv, UpdateIssue PROVE IInv'
<1>1. /\ sync.phase = "read" /\ sync.found /\ body' = sync.after
      /\ raced' = (raced \/ body # sync.before)
      /\ sync' = [sync EXCEPT !.phase = "written"]
      /\ UNCHANGED <<registry, open, waiting, syncs, replies, asked, comments, created, lost>>
  BY DEF UpdateIssue, audit
<1>2. sync \in Run /\ sync.after \in Bodies /\ open
  BY <1>1 DEF IInv, TypeOK, Run, SyncInv
<1>3. /\ sync' \in Run /\ sync'.phase = "written" /\ sync'.after = sync.after
      /\ sync'.before = sync.before /\ sync'.rows = sync.rows /\ sync'.forced = sync.forced
  BY <1>1, <1>2 DEF Run
<1>4. events' \in Seq(Event) /\ \A j \in jobs' : j \in Job /\ j.event \in DOMAIN events'
  <2>1. CASE body = sync.after
    BY <2>1 DEF UpdateIssue, IInv, TypeOK
  <2>2. CASE body # sync.after
    <3>1. /\ events' = Append(events, [actor |-> "bot", before |-> body,
                                       after |-> sync.after])
          /\ jobs' = jobs \union AuditJobs("bot", body, sync.after)
      BY <2>2 DEF UpdateIssue
    <3> QED
      BY <1>1, <1>2, <3>1, EditFacts
  <2> QED
    BY <2>1, <2>2
<1>5. TypeOK'
  BY <1>1, <1>2, <1>3, <1>4 DEF IInv, TypeOK
<1>6. SyncInv'
  BY <1>1, <1>2, <1>3 DEF IInv, SyncInv
<1> QED
  BY <1>5, <1>6 DEF IInv

LEMMA SyncCommentType ==
    ASSUME IInv
    PROVE  [source |-> "sync", event |-> 0, what |-> Directions(sync.before, sync.after),
            status |-> "complete", reason |-> 0] \in Comment
BY DirectionsType DEF IInv, TypeOK, Run, Comment

LEMMA EndOfSyncSteps ==
    ASSUME IInv, PostSyncAudit \/ SyncAuditFails \/ SyncFails
    PROVE  IInv'
<1>1. /\ sync' = NoRun /\ lost' \subseteq lost \union {"audit", "sync"}
      /\ UNCHANGED <<registry, open, body, events, jobs, created, waiting, syncs,
                     replies, asked, raced>>
  BY DEF PostSyncAudit, SyncAuditFails, SyncFails, issue, audit
<1>2. /\ comments' \in Seq(Comment)
      /\ \A r \in replies' : r \in ReasonJob /\ r.target \in {0} \union DOMAIN comments'
      /\ comments' # comments => sync.phase = "written"
  <2>1. CASE comments' = comments
    BY <1>1, <2>1 DEF IInv, TypeOK
  <2>2. CASE comments' # comments
    <3> DEFINE c == [source |-> "sync", event |-> 0,
                     what |-> Directions(sync.before, sync.after),
                     status |-> "complete", reason |-> 0]
    <3>1. comments' = Append(comments, c) /\ sync.phase = "written"
      BY <2>2 DEF PostSyncAudit, SyncAuditFails, SyncFails, audit
    <3>2. c \in Comment
      BY SyncCommentType
    <3> HIDE DEF c
    <3> QED
      BY <1>1, <3>1, <3>2, CommentFacts
  <2> QED
    BY <2>1, <2>2
<1>3. TypeOK'
  BY <1>1, <1>2, NoRowsType DEF IInv, TypeOK
<1>4. SyncInv'
  BY <1>1, <1>2 DEF IInv, SyncInv, NoRun
<1> QED
  BY <1>3, <1>4 DEF IInv

-----------------------------------------------------------------------------
(* People and the audit jobs *)

LEMMA EditStep ==
    ASSUME IInv, NEW new \in [DOMAIN body -> BOOLEAN], PersonEdits(new)
    PROVE  IInv'
<1>1. /\ open /\ body' = new
      /\ events' = Append(events, [actor |-> "person", before |-> body, after |-> new])
      /\ jobs' = jobs \union AuditJobs("person", body, new)
      /\ UNCHANGED <<registry, open, waiting, sync, syncs, replies, asked, comments,
                     created, raced, lost>>
  BY DEF PersonEdits, audit
<1>2. new \in Bodies
  BY BodyIs DEF IInv, TypeOK
<1>3. events' \in Seq(Event) /\ \A j \in jobs' : j \in Job /\ j.event \in DOMAIN events'
  BY <1>1, <1>2, EditFacts
<1>4. TypeOK'
  BY <1>1, <1>2, <1>3 DEF IInv, TypeOK
<1>5. SyncInv'
  BY <1>1 DEF IInv, SyncInv
<1> QED
  BY <1>4, <1>5 DEF IInv

\* The comment of a person's change and what is left of the job.
UserComment(j, i) ==
    [source |-> "user", event |-> j.event,
     what |-> [k \in {i} |-> i \in On(events[j.event].after)],
     status |-> IF i \in On(events[j.event].after) THEN "complete" ELSE "awaiting",
     reason |-> 0]
Rest(j, i) == {d \in {[j EXCEPT !.todo = @ \ {i}]} : d.todo # {}}

LEMMA UserCommentType ==
    ASSUME IInv, NEW j \in jobs, NEW i \in j.todo
    PROVE  /\ UserComment(j, i) \in Comment
           /\ \A d \in Rest(j, i) :
                d \in Job /\ d.event = j.event /\ d.org = j.org /\ d.todo = j.todo \ {i}
<1>1. j \in Job /\ j.event \in Nat /\ i \in Ids
  BY DEF IInv, TypeOK, Job
<1> DEFINE w == [k \in {i} |-> i \in On(events[j.event].after)]
<1>2. w \in Bodies
  <2>1. DOMAIN w = {i} /\ w \in [{i} -> BOOLEAN]
    OBVIOUS
  <2> QED
    BY <1>1, <2>1, BodyIs
<1> HIDE DEF w
<1>3. [source |-> "user", event |-> j.event, what |-> w,
       status |-> IF i \in On(events[j.event].after) THEN "complete" ELSE "awaiting",
       reason |-> 0] \in Comment
  BY <1>1, <1>2 DEF Comment
<1> QED
  BY <1>1, <1>3 DEF UserComment, Rest, Job, w

LEMMA AuditStep ==
    ASSUME IInv, NEW j \in jobs, NEW i \in j.todo, PostUserAudit(j, i)
    PROVE  IInv'
<1>1. /\ comments' = Append(comments, UserComment(j, i))
      /\ jobs' = (jobs \ {j}) \union Rest(j, i)
      /\ UNCHANGED <<registry, open, body, events, created, waiting, sync, syncs, replies,
                     asked, raced, lost>>
  BY DEF PostUserAudit, UserComment, Posted, Rest
<1>2. /\ UserComment(j, i) \in Comment
      /\ \A d \in Rest(j, i) : d \in Job /\ d.event = j.event
  BY UserCommentType
<1>3. /\ comments' \in Seq(Comment)
      /\ \A r \in replies' : r \in ReasonJob /\ r.target \in {0} \union DOMAIN comments'
  BY <1>1, <1>2, CommentFacts
<1>4. \A d \in jobs' : d \in Job /\ d.event \in DOMAIN events'
  BY <1>1, <1>2 DEF IInv, TypeOK
<1>5. TypeOK'
  BY <1>1, <1>3, <1>4 DEF IInv, TypeOK
<1>6. SyncInv'
  BY <1>1 DEF IInv, SyncInv
<1> QED
  BY <1>5, <1>6 DEF IInv

LEMMA AuditFailsStep == ASSUME IInv, NEW j \in jobs, AuditJobFails(j) PROVE IInv'
<1>1. /\ jobs' = jobs \ {j} /\ lost' = lost \union {"audit"}
      /\ UNCHANGED <<registry, open, body, events, created, waiting, sync, syncs, replies,
                     asked, comments, raced>>
  BY DEF AuditJobFails, audit
<1>2. TypeOK'
  BY <1>1 DEF IInv, TypeOK
<1>3. SyncInv'
  BY <1>1 DEF IInv, SyncInv
<1> QED
  BY <1>2, <1>3 DEF IInv

LEMMA LeastExists ==
    ASSUME NEW T, T \subseteq Nat, T # {}
    PROVE  \E m \in T : \A n \in T : m <= n
<1> DEFINE R == OpToRel(<, Nat)
<1>1. IsWellFoundedOn(R, Nat)
  BY NatLessThanWellFounded
<1>2. \A x, y \in Nat : x < y => <<x, y>> \in R
  BY DEF OpToRel
<1> HIDE DEF R
<1>3. PICK m \in T : \A y \in T : ~(<<y, m>> \in R)
  BY <1>1, WFMin
<1>4. ASSUME NEW n \in T PROVE m <= n
  <2>1. n \in Nat /\ m \in Nat
    OBVIOUS
  <2>2. ~(n < m)
    BY <1>2, <1>3, <2>1, Zenon
  <2> QED
    BY <2>1, <2>2
<1> QED
  BY <1>4

LEMMA GreatestExists ==
    ASSUME NEW n \in Nat, NEW T, T \subseteq 1 .. n, T # {}
    PROVE  \E k \in T : \A l \in T : l <= k
<1> DEFINE D == {n - k : k \in T}
<1>1. D \subseteq Nat /\ D # {}
  <2>1. \A k \in T : k \in Nat /\ k <= n
    OBVIOUS
  <2>2. \A k \in T : n - k \in Nat
    BY <2>1
  <2> QED
    BY <2>2
<1>2. PICK m \in D : \A d \in D : m <= d
  BY <1>1, LeastExists
<1>3. PICK k \in T : m = n - k
  OBVIOUS
<1>4. ASSUME NEW l \in T PROVE l <= k
  <2>1. m <= n - l
    BY <1>2
  <2> QED
    BY <1>3, <2>1
<1> QED
  BY <1>4

\* The entry a reply is attached to is on the issue.
LEMMA AwaitingType ==
    ASSUME IInv, NEW names
    PROVE  find_awaiting_comment(names) \in {0} \union DOMAIN comments
<1> DEFINE page == {k \in DOMAIN comments : k > Len(comments) - PageSize}
           awaiting == {k \in page : comments[k].status = "awaiting"}
           named == {k \in awaiting : DOMAIN comments[k].what \intersect names # {}}
           pool == IF named # {} THEN named ELSE awaiting
<1>1. comments \in Seq(Comment) /\ Len(comments) \in Nat
      /\ DOMAIN comments = 1 .. Len(comments)
  BY DEF IInv, TypeOK
<1>2. pool \subseteq DOMAIN comments
  OBVIOUS
<1> HIDE DEF pool
<1>3. CASE pool # {}
  <2>1. \E k \in pool : \A l \in pool : l <= k
    BY <1>1, <1>2, <1>3, GreatestExists
  <2> QED
    BY <1>2, <1>3, <2>1 DEF find_awaiting_comment, pool
<1> QED
  BY <1>3 DEF find_awaiting_comment, pool

LEMMA ReplySteps ==
    ASSUME IInv, \/ \E names \in {{}} \union {Within[i] : i \in Ids} : PersonReplies(names)
                 \/ \E r \in replies : ListComments(r) \/ ReasonJobFails(r)
    PROVE  IInv'
<1>1. /\ UNCHANGED <<registry, open, body, events, jobs, created, waiting, sync, syncs,
                     comments, raced, lost>>
  BY DEF PersonReplies, ListComments, ReasonJobFails, issue
<1>2. asked \in Nat /\ \A r \in replies : r \in ReasonJob /\ r.target \in {0} \union DOMAIN comments
  BY DEF IInv, TypeOK
<1>3. ASSUME asked' \in Nat,
             \A r \in replies' : r \in ReasonJob /\ r.target \in {0} \union DOMAIN comments
      PROVE  IInv'
  <2>1. TypeOK'
    BY <1>1, <1>3 DEF IInv, TypeOK
  <2>2. SyncInv'
    BY <1>1 DEF IInv, SyncInv
  <2> QED
    BY <2>1, <2>2 DEF IInv
<1>4. ASSUME NEW names \in {{}} \union {Within[i] : i \in Ids}, PersonReplies(names)
      PROVE  IInv'
  <2>1. names \subseteq Ids
    BY DashboardAssumption DEF DashboardAssumption
  <2>2. /\ asked' = asked + 1
        /\ replies' = replies \union
             [reply : {asked + 1}, org : Orgs, names : {names}, target : {0}]
    BY <1>4 DEF PersonReplies
  <2> QED
    BY <1>2, <1>3, <2>1, <2>2 DEF ReasonJob
<1>5. ASSUME NEW r \in replies, ListComments(r) PROVE IInv'
  <2> DEFINE t == find_awaiting_comment(r.names)
             new == [r EXCEPT !.target = t]
  <2>1. t \in {0} \union DOMAIN comments /\ t \in Nat
    <3>1. DOMAIN comments \subseteq Nat
      BY DEF IInv, TypeOK
    <3> QED
      BY <3>1, AwaitingType
  <2>2. /\ asked' = asked
        /\ replies' = (replies \ {r}) \union (IF t = 0 THEN {} ELSE {new})
    BY <1>5 DEF ListComments
  <2> HIDE DEF t
  <2>3. new \in ReasonJob /\ new.target = t
    BY <1>2, <2>1 DEF ReasonJob
  <2> HIDE DEF new
  <2> QED
    BY <1>2, <1>3, <2>1, <2>2, <2>3
<1>6. ASSUME NEW r \in replies, ReasonJobFails(r) PROVE IInv'
  BY <1>2, <1>3, <1>6 DEF ReasonJobFails
<1> QED
  BY <1>4, <1>5, <1>6

\* The reason is added to an entry; what it says stays.
LEMMA RecordFacts ==
    ASSUME IInv, NEW r \in replies, RecordReason(r)
    PROVE  /\ comments' \in Seq(Comment) /\ DOMAIN comments' = DOMAIN comments
           /\ \A k \in DOMAIN comments : /\ comments'[k].what = comments[k].what
                                         /\ comments'[k].event = comments[k].event
           /\ replies' = replies \ {r}
           /\ UNCHANGED <<registry, open, body, events, jobs, created, waiting, sync, syncs,
                          asked, raced, lost>>
<1> DEFINE t == r.target
           c == [comments[t] EXCEPT !.status = "complete", !.reason = r.reply]
<1>1. /\ comments \in Seq(Comment) /\ t \in DOMAIN comments /\ r.reply \in Nat
      /\ comments[t] \in Comment
  BY DEF IInv, TypeOK, RecordReason, ReasonJob
<1>2. c \in Comment /\ c.what = comments[t].what /\ c.event = comments[t].event
  BY <1>1 DEF Comment
<1>3. comments' = [comments EXCEPT ![t] = c]
  BY <1>1 DEF RecordReason, Comment
<1> HIDE DEF t, c
<1>4. /\ comments' \in Seq(Comment) /\ DOMAIN comments' = DOMAIN comments
      /\ \A k \in DOMAIN comments : /\ comments'[k].what = comments[k].what
                                    /\ comments'[k].event = comments[k].event
  <2>1. comments' \in Seq(Comment)
    BY <1>1, <1>2, <1>3, ExceptSeq
  <2> QED
    BY <1>1, <1>2, <1>3, <2>1
<1> QED
  BY <1>4 DEF RecordReason, issue

LEMMA RecordStep == ASSUME IInv, NEW r \in replies, RecordReason(r) PROVE IInv'
<1>1. TypeOK'
  BY RecordFacts DEF IInv, TypeOK
<1>2. SyncInv'
  <2>1. comments = <<>> => comments' = <<>>
    BY RecordFacts DEF IInv, TypeOK
  <2> QED
    BY <2>1, RecordFacts DEF IInv, SyncInv
<1> QED
  BY <1>1, <1>2 DEF IInv

LEMMA Inductive == ASSUME IInv, [Next]_vars PROVE IInv'
<1>1. CASE (\E rows \in Registries : PushRegistry(rows))
           \/ (\E forced \in BOOLEAN : DispatchSync(forced)) \/ StartSync
  BY <1>1, QueueSteps
<1>2. CASE FindDashboardIssue
  BY <1>2, FindStep
<1>3. CASE CreateIssue
  BY <1>3, CreateStep
<1>4. CASE UpdateIssue
  BY <1>4, UpdateStep
<1>5. CASE PostSyncAudit \/ SyncAuditFails \/ SyncFails
  BY <1>5, EndOfSyncSteps
<1>6. CASE \E new \in [DOMAIN body -> BOOLEAN] : PersonEdits(new)
  BY <1>6, EditStep
<1>7. CASE AuditSteps
  BY <1>7, AuditStep DEF AuditSteps
<1>8. CASE \E j \in jobs : AuditJobFails(j)
  BY <1>8, AuditFailsStep
<1>9. CASE \/ \E names \in {{}} \union {Within[i] : i \in Ids} : PersonReplies(names)
           \/ \E r \in replies : ListComments(r) \/ ReasonJobFails(r)
  BY <1>9, ReplySteps
<1>10. CASE \E r \in replies : RecordReason(r)
  BY <1>10, RecordStep
<1>11. CASE UNCHANGED vars
  BY <1>11 DEF vars, IInv, TypeOK, SyncInv
<1> QED
  BY <1>1, <1>2, <1>3, <1>4, <1>5, <1>6, <1>7, <1>8, <1>9, <1>10, <1>11
     DEF Next, SyncSteps, ReasonSteps

-----------------------------------------------------------------------------
(* The trail of one org *)

\* The three parts of Told, for activations and for deactivations.
CommentsOn(i) == {k \in DOMAIN comments : i \in On(comments[k].what)}
CommentsOff(i) ==
    {k \in DOMAIN comments : i \in DOMAIN comments[k].what \ On(comments[k].what)}
JobsOn(i) == {j \in jobs : i \in j.todo /\ i \in On(events[j.event].after)}
JobsOff(i) == {j \in jobs : i \in j.todo /\ i \notin On(events[j.event].after)}
Pending == IF sync.phase = "written" THEN Deltas(sync.before, sync.after) ELSE {}
SyncOn(i) == Bit(Pending \intersect On(sync.after), i)
SyncOff(i) == Bit(Pending \ On(sync.after), i)

Evens(i) ==
    Bit(On(created), i) + Cardinality(CommentsOn(i)) + Cardinality(JobsOn(i)) + SyncOn(i)
  = Bit(On(body), i) + Cardinality(CommentsOff(i)) + Cardinality(JobsOff(i)) + SyncOff(i)

\* An edit has at most one job under way, so removing a delta from its job
\* removes it from the count.
JobsInv ==
    /\ IsFiniteSet(jobs)
    /\ \A j, k \in jobs : j.event = k.event => j = k

TrailInv ==
    /\ IInv /\ JobsInv
    /\ ~open => created = NoRows
    /\ ~raced /\ "audit" \notin lost => \A i \in Ids : Evens(i)

LEMMA BitType == \A S, i : Bit(S, i) \in {0, 1} /\ (i \in S <=> Bit(S, i) = 1)
BY DEF Bit

LEMMA CountTypes ==
    ASSUME IInv, JobsInv, NEW i
    PROVE  /\ IsFiniteSet(CommentsOn(i)) /\ IsFiniteSet(CommentsOff(i))
           /\ IsFiniteSet(JobsOn(i)) /\ IsFiniteSet(JobsOff(i))
           /\ Cardinality(CommentsOn(i)) \in Nat /\ Cardinality(CommentsOff(i)) \in Nat
           /\ Cardinality(JobsOn(i)) \in Nat /\ Cardinality(JobsOff(i)) \in Nat
           /\ SyncOn(i) \in {0, 1} /\ SyncOff(i) \in {0, 1}
<1>1. DOMAIN comments = 1 .. Len(comments) /\ Len(comments) \in Nat
  BY DEF IInv, TypeOK
<1>2. IsFiniteSet(DOMAIN comments)
  BY <1>1, FS_Interval
<1>3. /\ CommentsOn(i) \subseteq DOMAIN comments /\ CommentsOff(i) \subseteq DOMAIN comments
      /\ JobsOn(i) \subseteq jobs /\ JobsOff(i) \subseteq jobs
  BY DEF CommentsOn, CommentsOff, JobsOn, JobsOff
<1>4. /\ IsFiniteSet(CommentsOn(i)) /\ IsFiniteSet(CommentsOff(i))
      /\ IsFiniteSet(JobsOn(i)) /\ IsFiniteSet(JobsOff(i))
  BY <1>2, <1>3, FS_Subset DEF JobsInv
<1> QED
  BY <1>4, FS_CardinalityType, BitType DEF SyncOn, SyncOff

LEMMA WhatType == ASSUME IInv PROVE \A k \in DOMAIN comments : comments[k].what \in Bodies
<1>1. \A k \in DOMAIN comments : comments[k] \in Comment
  BY DEF IInv, TypeOK
<1> QED
  BY <1>1 DEF Comment

LEMMA Grow ==
    ASSUME NEW S, NEW T, NEW U, NEW x, NEW i, IsFiniteSet(S), x \notin S,
           T = S \union (IF i \in U THEN {x} ELSE {})
    PROVE  Cardinality(T) = Cardinality(S) + Bit(U, i)
<1>1. Cardinality(S) \in Nat
  BY FS_CardinalityType
<1>2. CASE i \in U
  <2>1. Cardinality(S \union {x}) = Cardinality(S) + 1
    BY FS_AddElement
  <2> QED
    BY <1>2, <2>1 DEF Bit
<1>3. CASE i \notin U
  <2>1. T = S
    BY <1>3
  <2> QED
    BY <1>1, <1>3, <2>1 DEF Bit
<1> QED
  BY <1>2, <1>3

LEMMA ToldIs ==
    ASSUME IInv, JobsInv, NEW i
    PROVE  Evens(i) => Balanced(i)
<1>1. Cardinality({k \in DOMAIN comments :
                    i \in DOMAIN comments[k].what /\ comments[k].what[i] = TRUE})
        = Cardinality(CommentsOn(i))
  <2>1. {k \in DOMAIN comments :
            i \in DOMAIN comments[k].what /\ comments[k].what[i] = TRUE} = CommentsOn(i)
    <3>1. \A k \in DOMAIN comments : comments[k].what \in Bodies
      BY WhatType
    <3>2. \A k \in DOMAIN comments : comments[k].what \in [DOMAIN comments[k].what -> BOOLEAN]
      BY <3>1, BodyIs
    <3> QED
      BY <3>2 DEF CommentsOn, On
  <2> QED
    BY <2>1
<1>2. Cardinality({k \in DOMAIN comments :
                    i \in DOMAIN comments[k].what /\ comments[k].what[i] = FALSE})
        = Cardinality(CommentsOff(i))
  <2>1. {k \in DOMAIN comments :
            i \in DOMAIN comments[k].what /\ comments[k].what[i] = FALSE} = CommentsOff(i)
    <3>1. \A k \in DOMAIN comments : comments[k].what \in Bodies
      BY WhatType
    <3>2. \A k \in DOMAIN comments : comments[k].what \in [DOMAIN comments[k].what -> BOOLEAN]
      BY <3>1, BodyIs
    <3> QED
      BY <3>2 DEF CommentsOff, On
  <2> QED
    BY <2>1
<1>3. /\ {j \in jobs : i \in j.todo /\ (i \in On(events[j.event].after)) = TRUE} = JobsOn(i)
      /\ {j \in jobs : i \in j.todo /\ (i \in On(events[j.event].after)) = FALSE} = JobsOff(i)
  BY DEF JobsOn, JobsOff
<1>4. Cardinality({s \in {sync} : s.phase = "written" /\ i \in Deltas(s.before, s.after)
                                 /\ (i \in On(s.after)) = TRUE}) = SyncOn(i)
  <2> DEFINE S == {s \in {sync} : s.phase = "written" /\ i \in Deltas(s.before, s.after)
                                 /\ (i \in On(s.after)) = TRUE}
  <2>1. CASE i \in Pending \intersect On(sync.after)
    <3>1. S = {sync}
      BY <2>1 DEF Pending
    <3> QED
      BY <2>1, <3>1, FS_Singleton DEF SyncOn, Bit
  <2>2. CASE i \notin Pending \intersect On(sync.after)
    <3>1. S = {}
      BY <2>2 DEF Pending
    <3> QED
      BY <2>2, <3>1, FS_EmptySet DEF SyncOn, Bit
  <2> QED
    BY <2>1, <2>2
<1>5. Cardinality({s \in {sync} : s.phase = "written" /\ i \in Deltas(s.before, s.after)
                                 /\ (i \in On(s.after)) = FALSE}) = SyncOff(i)
  <2> DEFINE S == {s \in {sync} : s.phase = "written" /\ i \in Deltas(s.before, s.after)
                                 /\ (i \in On(s.after)) = FALSE}
  <2>1. CASE i \in Pending \ On(sync.after)
    <3>1. S = {sync}
      BY <2>1 DEF Pending
    <3> QED
      BY <2>1, <3>1, FS_Singleton DEF SyncOff, Bit
  <2>2. CASE i \notin Pending \ On(sync.after)
    <3>1. S = {}
      BY <2>2 DEF Pending
    <3> QED
      BY <2>2, <3>1, FS_EmptySet DEF SyncOff, Bit
  <2> QED
    BY <2>1, <2>2
<1>6. Told(i, TRUE) = Cardinality(CommentsOn(i)) + Cardinality(JobsOn(i)) + SyncOn(i)
  BY <1>1, <1>3, <1>4, Zenon DEF Told
<1>7. Told(i, FALSE) = Cardinality(CommentsOff(i)) + Cardinality(JobsOff(i)) + SyncOff(i)
  BY <1>2, <1>3, <1>5, Zenon DEF Told
<1>8. /\ Cardinality(CommentsOn(i)) \in Nat /\ Cardinality(CommentsOff(i)) \in Nat
      /\ Cardinality(JobsOn(i)) \in Nat /\ Cardinality(JobsOff(i)) \in Nat
      /\ SyncOn(i) \in Nat /\ SyncOff(i) \in Nat
  BY CountTypes
<1>9. Bit(On(created), i) \in Nat /\ Bit(On(body), i) \in Nat
  BY BitType
<1>10. Balanced(i) <=>
         Bit(On(created), i) + (Cardinality(CommentsOn(i)) + Cardinality(JobsOn(i)) + SyncOn(i))
       = Bit(On(body), i) + (Cardinality(CommentsOff(i)) + Cardinality(JobsOff(i)) + SyncOff(i))
  BY <1>6, <1>7, Zenon DEF Balanced
<1> QED
  BY <1>8, <1>9, <1>10 DEF Evens

-----------------------------------------------------------------------------
(* How steps change the counts *)

LEMMA CommentCounts ==
    ASSUME IInv, JobsInv, NEW c \in Comment, comments' = Append(comments, c),
           replies' = replies, NEW i
    PROVE  /\ Cardinality(CommentsOn(i))'
                = Cardinality(CommentsOn(i)) + Bit(On(c.what), i)
           /\ Cardinality(CommentsOff(i))'
                = Cardinality(CommentsOff(i)) + Bit(DOMAIN c.what \ On(c.what), i)
<1> DEFINE n == Len(comments) + 1
<1>1. /\ comments'[n] = c /\ Len(comments) \in Nat
      /\ DOMAIN comments = 1 .. Len(comments)
      /\ DOMAIN comments' = DOMAIN comments \union {n} /\ n \notin DOMAIN comments
      /\ \A k \in DOMAIN comments : comments'[k] = comments[k]
  <2>1. /\ comments'[n] = c /\ Len(comments) \in Nat
        /\ DOMAIN comments = 1 .. Len(comments) /\ DOMAIN comments' = 1 .. n
        /\ \A k \in DOMAIN comments : comments'[k] = comments[k]
    BY CommentFacts
  <2> QED
    BY <2>1
<1> HIDE DEF n
<1>2. /\ CommentsOn(i)' = CommentsOn(i) \union (IF i \in On(c.what) THEN {n} ELSE {})
      /\ n \notin CommentsOn(i)
  BY <1>1 DEF CommentsOn
<1>3. /\ CommentsOff(i)' = CommentsOff(i)
           \union (IF i \in DOMAIN c.what \ On(c.what) THEN {n} ELSE {})
      /\ n \notin CommentsOff(i)
  BY <1>1 DEF CommentsOff
<1>4. /\ IsFiniteSet(CommentsOn(i)) /\ IsFiniteSet(CommentsOff(i))
      /\ Cardinality(CommentsOn(i)) \in Nat /\ Cardinality(CommentsOff(i)) \in Nat
  BY CountTypes
<1>5. Cardinality(CommentsOn(i)') = Cardinality(CommentsOn(i)) + Bit(On(c.what), i)
  BY <1>2, <1>4, Grow
<1>6. Cardinality(CommentsOff(i)')
        = Cardinality(CommentsOff(i)) + Bit(DOMAIN c.what \ On(c.what), i)
  BY <1>3, <1>4, Grow
<1> QED
  BY <1>5, <1>6

\* The job of an edit counts its deltas.
LEMMA EditCounts ==
    ASSUME IInv, JobsInv, NEW o, Orgs = {o}, NEW new \in Bodies,
           events' = Append(events, [actor |-> "person", before |-> body, after |-> new]),
           jobs' = jobs \union AuditJobs("person", body, new),
           UNCHANGED <<comments, replies>>, NEW i
    PROVE  /\ JobsInv'
           /\ Cardinality(JobsOn(i))'
                = Cardinality(JobsOn(i)) + Bit(Deltas(body, new) \intersect On(new), i)
           /\ Cardinality(JobsOff(i))'
                = Cardinality(JobsOff(i)) + Bit(Deltas(body, new) \ On(new), i)
<1> DEFINE j == [event |-> Len(events) + 1, org |-> o, todo |-> Deltas(body, new)]
<1>1. jobs' = jobs \union {j}
  BY DEF AuditJobs, is_bot_actor
<1>2. /\ events'[Len(events) + 1].after = new
      /\ \A n \in 1 .. Len(events) : events'[n] = events[n]
  BY EditFacts
<1>3. \A k \in jobs : k.event \in 1 .. Len(events)
  BY DEF IInv, TypeOK
<1>4. /\ j.event = Len(events) + 1 /\ j.todo = Deltas(body, new)
      /\ Len(events) \in Nat
  BY DEF IInv, TypeOK
<1> HIDE DEF j
<1>5. j \notin jobs /\ \A k \in jobs : k.event # j.event
  BY <1>3, <1>4
<1>6. JobsInv'
  <2>1. IsFiniteSet(jobs \union {j})
    BY FS_AddElement DEF JobsInv
  <2> QED
    BY <1>1, <1>5, <2>1 DEF JobsInv
<1>7. /\ JobsOn(i)' = JobsOn(i) \union
           (IF i \in Deltas(body, new) \intersect On(new) THEN {j} ELSE {})
      /\ JobsOff(i)' = JobsOff(i) \union
           (IF i \in Deltas(body, new) \ On(new) THEN {j} ELSE {})
      /\ j \notin JobsOn(i) /\ j \notin JobsOff(i)
  BY <1>1, <1>2, <1>3, <1>4, <1>5 DEF JobsOn, JobsOff
<1>8. /\ IsFiniteSet(JobsOn(i)) /\ IsFiniteSet(JobsOff(i))
      /\ Cardinality(JobsOn(i)) \in Nat /\ Cardinality(JobsOff(i)) \in Nat
  BY CountTypes
<1>9. Cardinality(JobsOn(i)')
        = Cardinality(JobsOn(i)) + Bit(Deltas(body, new) \intersect On(new), i)
  BY <1>7, <1>8, Grow
<1>10. Cardinality(JobsOff(i)')
         = Cardinality(JobsOff(i)) + Bit(Deltas(body, new) \ On(new), i)
  BY <1>7, <1>8, Grow
<1> QED
  BY <1>6, <1>9, <1>10

\* Each comment takes its delta out of the job.
LEMMA PostCounts ==
    ASSUME IInv, JobsInv, NEW j \in jobs, NEW d \in j.todo, PostUserAudit(j, d), NEW i
    PROVE  /\ JobsInv'
           /\ Cardinality(JobsOn(i))
                = Cardinality(JobsOn(i))' + Bit({d} \intersect On(events[j.event].after), i)
           /\ Cardinality(JobsOff(i))
                = Cardinality(JobsOff(i))' + Bit({d} \ On(events[j.event].after), i)
<1>1. /\ jobs' = (jobs \ {j}) \union Rest(j, d) /\ events' = events
      /\ j \in Job
      /\ \A k \in Rest(j, d) : k \in Job /\ k.event = j.event /\ k.todo = j.todo \ {d}
  BY UserCommentType DEF PostUserAudit, Posted, Rest, IInv, TypeOK
<1> DEFINE e == [j EXCEPT !.todo = @ \ {d}]
<1>2. /\ Rest(j, d) = IF j.todo = {d} THEN {} ELSE {e}
      /\ e.event = j.event /\ e.todo = j.todo \ {d}
  <2>1. e.event = j.event /\ e.todo = j.todo \ {d}
    BY <1>1 DEF Job
  <2> HIDE DEF e
  <2>2. Rest(j, d) = {k \in {e} : k.todo # {}}
    BY DEF Rest, e
  <2>3. Rest(j, d) = IF e.todo = {} THEN {} ELSE {e}
    BY <2>2
  <2> QED
    BY <2>1, <2>3
<1> HIDE DEF e
<1>3. JobsInv'
  <2>1. IsFiniteSet(jobs \ {j})
    BY FS_RemoveElement DEF JobsInv
  <2>2. IsFiniteSet((jobs \ {j}) \union {e})
    BY <2>1, FS_AddElement
  <2>3. IsFiniteSet(jobs')
    BY <1>1, <1>2, <2>1, <2>2
  <2> QED
    BY <1>1, <1>2, <2>3 DEF JobsInv
<1>4. e \notin jobs \/ e = j
  BY <1>1, <1>2 DEF JobsInv
<1>5. e # j
  BY <1>2
<1>6. ASSUME NEW A, NEW B, NEW U, IsFiniteSet(A), IsFiniteSet(B),
             \A k \in jobs \ {j} : k \in A <=> k \in B,
             A \subseteq jobs, B \subseteq jobs',
             j \in A <=> i \in j.todo /\ i \in U,
             \A k \in Rest(j, d) : k \in B <=> i \in k.todo /\ i \in U
      PROVE  Cardinality(A) = Cardinality(B) + Bit({d} \intersect U, i)
  <2> DEFINE M == A \ {j}
  <2>1. /\ IsFiniteSet(M) /\ j \notin M /\ e \notin M
        /\ Cardinality(M) \in Nat
    BY <1>4, <1>5, <1>6, FS_RemoveElement, FS_CardinalityType
  <2>2. A = M \union (IF i \in j.todo \intersect U THEN {j} ELSE {})
    BY <1>6
  <2>3. Cardinality(A) = Cardinality(M) + Bit(j.todo \intersect U, i)
    BY <2>1, <2>2, Grow
  <2>4. M \subseteq B
    BY <1>6
  <2>5. B \subseteq M \union Rest(j, d)
    BY <1>1, <1>6
  <2>6. B = M \union (IF i \in (j.todo \ {d}) \intersect U THEN {e} ELSE {})
    BY <1>2, <1>6, <2>4, <2>5
  <2>7. Cardinality(B) = Cardinality(M) + Bit((j.todo \ {d}) \intersect U, i)
    BY <2>1, <2>6, Grow
  <2>8. Bit(j.todo \intersect U, i) = Bit((j.todo \ {d}) \intersect U, i) + Bit({d} \intersect U, i)
    BY DEF Bit
  <2>9. /\ Bit((j.todo \ {d}) \intersect U, i) \in Nat /\ Bit({d} \intersect U, i) \in Nat
        /\ Bit(j.todo \intersect U, i) \in Nat
    BY BitType
  <2> HIDE DEF M
  <2> QED
    BY <2>1, <2>3, <2>7, <2>8, <2>9
<1>7. /\ IsFiniteSet(JobsOn(i)) /\ IsFiniteSet(JobsOff(i))
      /\ IsFiniteSet(JobsOn(i)') /\ IsFiniteSet(JobsOff(i)')
  <2>1. JobsOn(i)' \subseteq jobs' /\ JobsOff(i)' \subseteq jobs'
    BY DEF JobsOn, JobsOff
  <2> QED
    BY <1>3, <2>1, CountTypes, FS_Subset DEF JobsInv
<1>8. Cardinality(JobsOn(i))
        = Cardinality(JobsOn(i)') + Bit({d} \intersect On(events[j.event].after), i)
  <2>1. /\ \A k \in jobs \ {j} : k \in JobsOn(i) <=> k \in JobsOn(i)'
        /\ JobsOn(i) \subseteq jobs /\ JobsOn(i)' \subseteq jobs'
        /\ j \in JobsOn(i) <=> i \in j.todo /\ i \in On(events[j.event].after)
        /\ \A k \in Rest(j, d) :
             k \in JobsOn(i)' <=> i \in k.todo /\ i \in On(events[j.event].after)
    BY <1>1 DEF JobsOn
  <2> QED
    BY <1>6, <1>7, <2>1
<1>9. Cardinality(JobsOff(i))
        = Cardinality(JobsOff(i)') + Bit({d} \ On(events[j.event].after), i)
  <2> DEFINE U == Ids \ On(events[j.event].after)
  <2>0. j.todo \subseteq Ids
    BY <1>1 DEF Job
  <2>1. /\ \A k \in jobs \ {j} : k \in JobsOff(i) <=> k \in JobsOff(i)'
        /\ JobsOff(i) \subseteq jobs /\ JobsOff(i)' \subseteq jobs'
        /\ j \in JobsOff(i) <=> i \in j.todo /\ i \in U
        /\ \A k \in Rest(j, d) : k \in JobsOff(i)' <=> i \in k.todo /\ i \in U
    BY <1>1, <2>0 DEF JobsOff
  <2>2. Bit({d} \intersect U, i) = Bit({d} \ On(events[j.event].after), i)
    BY <2>0 DEF Bit
  <2> HIDE DEF U
  <2>3. Cardinality(JobsOff(i)) = Cardinality(JobsOff(i)') + Bit({d} \intersect U, i)
    BY <1>6, <1>7, <2>1
  <2> QED
    BY <2>2, <2>3
<1> QED
  BY <1>3, <1>8, <1>9

\* Edits leave what the jobs of earlier ones count.
LEMMA SameJobCounts ==
    ASSUME IInv, JobsInv, jobs' = jobs,
           \A n \in DOMAIN events : events'[n] = events[n], NEW i
    PROVE  JobsInv' /\ JobsOn(i)' = JobsOn(i) /\ JobsOff(i)' = JobsOff(i)
<1>1. \A k \in jobs : k.event \in DOMAIN events
  BY DEF IInv, TypeOK
<1> QED
  BY <1>1 DEF JobsInv, JobsOn, JobsOff

LEMMA BitOfDeltas ==
    ASSUME NEW before, NEW after, NEW i
    PROVE  Bit(On(before), i) + Bit(Deltas(before, after) \intersect On(after), i)
         = Bit(On(after), i) + Bit(Deltas(before, after) \ On(after), i)
BY DEF Bit, Deltas

-----------------------------------------------------------------------------
(* The steps keep the balance *)

LEMMA TrailInitially == ASSUME Init PROVE TrailInv
<1>1. IInv
  BY Initially
<1>2. JobsInv /\ created = NoRows /\ body = NoRows
  BY FS_EmptySet DEF Init, JobsInv
<1>3. ASSUME NEW i PROVE Evens(i)
  <2>1. /\ CommentsOn(i) = {} /\ CommentsOff(i) = {} /\ JobsOn(i) = {} /\ JobsOff(i) = {}
    BY DEF Init, CommentsOn, CommentsOff, JobsOn, JobsOff
  <2>2. Pending = {}
    BY DEF Init, NoRun, Pending
  <2>3. SyncOn(i) = SyncOff(i)
    BY <2>2 DEF SyncOn, SyncOff, Bit
  <2> QED
    BY <1>2, <2>1, <2>3 DEF Evens
<1> QED
  BY <1>1, <1>2, <1>3 DEF TrailInv

\* Steps that touch neither the boxes nor what is said of them.
LEMMA TrailSame ==
    ASSUME TrailInv, IInv', UNCHANGED <<open, body, created, jobs, events, raced>>,
           DOMAIN comments' = DOMAIN comments,
           \A k \in DOMAIN comments : comments'[k].what = comments[k].what,
           "audit" \in lost => "audit" \in lost',
           \/ sync' = sync
           \/ sync.phase # "written" /\ sync'.phase # "written"
    PROVE  TrailInv'
<1>1. JobsInv'
  BY DEF TrailInv, JobsInv
<1>2. ASSUME NEW i PROVE Evens(i)' <=> Evens(i)
  <2>1. /\ CommentsOn(i)' = CommentsOn(i) /\ CommentsOff(i)' = CommentsOff(i)
        /\ JobsOn(i)' = JobsOn(i) /\ JobsOff(i)' = JobsOff(i)
    BY DEF CommentsOn, CommentsOff, JobsOn, JobsOff
  <2>2. SyncOn(i)' = SyncOn(i) /\ SyncOff(i)' = SyncOff(i)
    <3>1. CASE sync' = sync
      BY <3>1 DEF SyncOn, SyncOff, Pending
    <3>2. CASE sync.phase # "written" /\ sync'.phase # "written"
      BY <3>2 DEF SyncOn, SyncOff, Pending, Bit
    <3> QED
      BY <3>1, <3>2
  <2> QED
    BY <2>1, <2>2 DEF Evens
<1> QED
  BY <1>1, <1>2 DEF TrailInv

LEMMA TrailFind == ASSUME TrailInv, IInv', FindDashboardIssue PROVE TrailInv'
<1>1. sync \in Run /\ sync.phase = "queued"
  BY DEF FindDashboardIssue, TrailInv, IInv, TypeOK
<1>2. sync'.phase = "read"
  BY <1>1 DEF FindDashboardIssue, Run
<1> QED
  BY <1>1, <1>2, TrailSame DEF FindDashboardIssue, issue, audit

\* What is said of an issue starts with it.
LEMMA TrailCreate == ASSUME TrailInv, IInv', CreateIssue PROVE TrailInv'
<1>1. /\ open' = TRUE /\ body' = sync.after /\ created' = sync.after /\ sync' = NoRun
      /\ sync.phase = "read" /\ ~sync.found
      /\ UNCHANGED <<events, jobs, comments, raced, lost>>
  BY DEF CreateIssue, audit
<1>2. body = NoRows /\ created = NoRows
  BY <1>1 DEF TrailInv, IInv, SyncInv
<1>3. JobsInv'
  BY <1>1 DEF TrailInv, JobsInv
<1>4. ASSUME NEW i, Evens(i) PROVE Evens(i)'
  <2>1. /\ CommentsOn(i)' = CommentsOn(i) /\ CommentsOff(i)' = CommentsOff(i)
        /\ JobsOn(i)' = JobsOn(i) /\ JobsOff(i)' = JobsOff(i)
    BY <1>1 DEF CommentsOn, CommentsOff, JobsOn, JobsOff
  <2>2. SyncOn(i)' = SyncOn(i) /\ SyncOff(i)' = SyncOff(i)
    BY <1>1 DEF SyncOn, SyncOff, Pending, Bit, NoRun
  <2>3. /\ Cardinality(CommentsOn(i)) \in Nat /\ Cardinality(CommentsOff(i)) \in Nat
        /\ Cardinality(JobsOn(i)) \in Nat /\ Cardinality(JobsOff(i)) \in Nat
        /\ SyncOn(i) \in Nat /\ SyncOff(i) \in Nat
    BY CountTypes DEF TrailInv
  <2>4. Bit(On(NoRows), i) \in Nat /\ Bit(On(sync.after), i) \in Nat
    BY BitType
  <2> QED
    BY <1>1, <1>2, <1>4, <2>1, <2>2, <2>3, <2>4 DEF Evens
<1> QED
  BY <1>1, <1>3, <1>4 DEF TrailInv

\* The write is pending as a comment until the sync posts it.
LEMMA TrailUpdate == ASSUME TrailInv, IInv', UpdateIssue PROVE TrailInv'
<1>1. /\ sync.phase = "read" /\ body' = sync.after
      /\ raced' = (raced \/ body # sync.before)
      /\ sync' = [sync EXCEPT !.phase = "written"]
      /\ UNCHANGED <<open, comments, created, lost>>
  BY DEF UpdateIssue, audit
<1>2. sync \in Run /\ events \in Seq(Event)
  BY DEF TrailInv, IInv, TypeOK
<1>3. sync'.phase = "written" /\ sync'.before = sync.before /\ sync'.after = sync.after
  BY <1>1, <1>2 DEF Run
<1>4. jobs' = jobs /\ \A n \in DOMAIN events : events'[n] = events[n]
  <2>1. CASE body = sync.after
    BY <2>1 DEF UpdateIssue
  <2>2. CASE body # sync.after
    BY <1>2, <2>2 DEF UpdateIssue, AuditJobs, is_bot_actor
  <2> QED
    BY <2>1, <2>2
<1>5. JobsInv' /\ \A i : JobsOn(i)' = JobsOn(i) /\ JobsOff(i)' = JobsOff(i)
  BY <1>4, SameJobCounts DEF TrailInv
<1>6. ASSUME ~raced', "audit" \notin lost', NEW i \in Ids PROVE Evens(i)'
  <2>1. ~raced /\ body = sync.before /\ "audit" \notin lost
    BY <1>1, <1>6 DEF TrailInv, IInv, TypeOK
  <2>2. Evens(i)
    BY <1>6, <2>1 DEF TrailInv
  <2>3. CommentsOn(i)' = CommentsOn(i) /\ CommentsOff(i)' = CommentsOff(i)
    BY <1>1 DEF CommentsOn, CommentsOff
  <2>4. /\ SyncOn(i) = 0 /\ SyncOff(i) = 0
        /\ SyncOn(i)' = Bit(Deltas(body, sync.after) \intersect On(sync.after), i)
        /\ SyncOff(i)' = Bit(Deltas(body, sync.after) \ On(sync.after), i)
    <3>1. Pending = {} /\ Pending' = Deltas(body, sync.after)
      BY <1>1, <1>3, <2>1 DEF Pending
    <3> QED
      BY <1>3, <3>1 DEF SyncOn, SyncOff, Bit
  <2>5. Bit(On(body), i) + SyncOn(i)' = Bit(On(body'), i) + SyncOff(i)'
    BY <1>1, <2>4, BitOfDeltas
  <2>6. /\ Cardinality(CommentsOn(i)) \in Nat /\ Cardinality(CommentsOff(i)) \in Nat
        /\ Cardinality(JobsOn(i)) \in Nat /\ Cardinality(JobsOff(i)) \in Nat
    BY CountTypes DEF TrailInv
  <2>7. /\ Bit(On(body), i) \in Nat /\ Bit(On(body'), i) \in Nat /\ Bit(On(created), i) \in Nat
        /\ SyncOn(i)' \in Nat /\ SyncOff(i)' \in Nat
    BY <2>4, BitType
  <2> QED
    BY <1>1, <1>5, <2>2, <2>3, <2>4, <2>5, <2>6, <2>7 DEF Evens
<1> QED
  BY <1>1, <1>5, <1>6 DEF TrailInv

LEMMA TrailSyncAudit == ASSUME TrailInv, IInv', PostSyncAudit PROVE TrailInv'
<1>1. /\ sync.phase = "written" /\ sync' = NoRun
      /\ UNCHANGED <<open, body, events, jobs, created, replies, raced, lost>>
  BY DEF PostSyncAudit, issue
<1>2. sync.before \in Bodies /\ sync.after \in Bodies
  BY DEF TrailInv, IInv, TypeOK, Run
<1>3. Pending = Deltas(sync.before, sync.after) /\ Pending' = {}
  BY <1>1 DEF Pending, NoRun
<1>4. JobsInv' /\ \A i : JobsOn(i)' = JobsOn(i) /\ JobsOff(i)' = JobsOff(i)
  BY <1>1 DEF TrailInv, JobsInv, JobsOn, JobsOff
<1>5. ASSUME NEW i
      PROVE  /\ Cardinality(CommentsOn(i))' = Cardinality(CommentsOn(i)) + SyncOn(i)
             /\ Cardinality(CommentsOff(i))' = Cardinality(CommentsOff(i)) + SyncOff(i)
  <2>1. CASE Pending = {}
    <3>1. comments' = comments
      BY <1>3, <2>1 DEF PostSyncAudit
    <3>2. CommentsOn(i)' = CommentsOn(i) /\ CommentsOff(i)' = CommentsOff(i)
      BY <3>1 DEF CommentsOn, CommentsOff
    <3>3. Cardinality(CommentsOn(i)) \in Nat /\ Cardinality(CommentsOff(i)) \in Nat
      BY CountTypes DEF TrailInv
    <3>4. SyncOn(i) = 0 /\ SyncOff(i) = 0
      BY <2>1 DEF SyncOn, SyncOff, Bit
    <3> QED
      BY <3>2, <3>3, <3>4
  <2>2. CASE Pending # {}
    <3> DEFINE d == Directions(sync.before, sync.after)
               c == [source |-> "sync", event |-> 0, what |-> d,
                     status |-> "complete", reason |-> 0]
    <3>1. comments' = Append(comments, c)
      BY <1>3, <2>2 DEF PostSyncAudit
    <3>2. c \in Comment /\ c.what = d
      BY SyncCommentType DEF TrailInv
    <3>3. /\ DOMAIN d = Pending
          /\ On(d) = Pending \intersect On(sync.after)
      BY <1>2, <1>3, DirectionsType
    <3> HIDE DEF d, c
    <3>4. DOMAIN d \ On(d) = Pending \ On(sync.after)
      BY <3>3
    <3>5. /\ Cardinality(CommentsOn(i))' = Cardinality(CommentsOn(i)) + Bit(On(c.what), i)
          /\ Cardinality(CommentsOff(i))'
               = Cardinality(CommentsOff(i)) + Bit(DOMAIN c.what \ On(c.what), i)
      BY <1>1, <3>1, <3>2, CommentCounts DEF TrailInv
    <3> QED
      BY <3>2, <3>3, <3>4, <3>5 DEF SyncOn, SyncOff
  <2> QED
    BY <2>1, <2>2
<1>6. ASSUME NEW i, Evens(i) PROVE Evens(i)'
  <2>1. SyncOn(i)' = 0 /\ SyncOff(i)' = 0
    BY <1>3 DEF SyncOn, SyncOff, Bit
  <2>2. /\ Cardinality(CommentsOn(i)) \in Nat /\ Cardinality(CommentsOff(i)) \in Nat
        /\ Cardinality(JobsOn(i)) \in Nat /\ Cardinality(JobsOff(i)) \in Nat
        /\ SyncOn(i) \in Nat /\ SyncOff(i) \in Nat
    BY CountTypes DEF TrailInv
  <2>3. Bit(On(body), i) \in Nat /\ Bit(On(created), i) \in Nat
    BY BitType
  <2> QED
    BY <1>1, <1>4, <1>5, <1>6, <2>1, <2>2, <2>3 DEF Evens
<1> QED
  BY <1>1, <1>4, <1>6 DEF TrailInv

LEMMA TrailEdit ==
    ASSUME TrailInv, IInv', NEW o, Orgs = {o},
           NEW new \in [DOMAIN body -> BOOLEAN], PersonEdits(new)
    PROVE  TrailInv'
<1>1. /\ open /\ body' = new
      /\ events' = Append(events, [actor |-> "person", before |-> body, after |-> new])
      /\ jobs' = jobs \union AuditJobs("person", body, new)
      /\ UNCHANGED <<open, sync, replies, comments, created, raced, lost>>
  BY DEF PersonEdits, audit
<1>2. new \in Bodies
  BY BodyIs DEF TrailInv, IInv, TypeOK
<1>3. ASSUME NEW i
      PROVE  /\ JobsInv'
             /\ Cardinality(JobsOn(i))'
                  = Cardinality(JobsOn(i)) + Bit(Deltas(body, new) \intersect On(new), i)
             /\ Cardinality(JobsOff(i))'
                  = Cardinality(JobsOff(i)) + Bit(Deltas(body, new) \ On(new), i)
  BY <1>1, <1>2, EditCounts DEF TrailInv
<1>4. ASSUME NEW i, Evens(i) PROVE Evens(i)'
  <2>1. /\ CommentsOn(i)' = CommentsOn(i) /\ CommentsOff(i)' = CommentsOff(i)
        /\ SyncOn(i)' = SyncOn(i) /\ SyncOff(i)' = SyncOff(i)
    BY <1>1 DEF CommentsOn, CommentsOff, SyncOn, SyncOff, Pending
  <2>2. /\ Cardinality(CommentsOn(i)) \in Nat /\ Cardinality(CommentsOff(i)) \in Nat
        /\ Cardinality(JobsOn(i)) \in Nat /\ Cardinality(JobsOff(i)) \in Nat
        /\ SyncOn(i) \in Nat /\ SyncOff(i) \in Nat
    BY CountTypes DEF TrailInv
  <2> DEFINE up == Bit(Deltas(body, new) \intersect On(new), i)
             down == Bit(Deltas(body, new) \ On(new), i)
  <2>3. /\ Bit(On(body), i) \in Nat /\ Bit(On(new), i) \in Nat /\ Bit(On(created), i) \in Nat
        /\ up \in Nat /\ down \in Nat
    BY BitType
  <2>4. Bit(On(body), i) + up = Bit(On(new), i) + down
    BY BitOfDeltas
  <2>5. /\ Cardinality(JobsOn(i))' = Cardinality(JobsOn(i)) + up
        /\ Cardinality(JobsOff(i))' = Cardinality(JobsOff(i)) + down
    BY <1>3
  <2> HIDE DEF up, down
  <2>6. Evens(i)' <=>
            Bit(On(created), i) + Cardinality(CommentsOn(i))' + Cardinality(JobsOn(i))'
              + SyncOn(i)
          = Bit(On(new), i) + Cardinality(CommentsOff(i))' + Cardinality(JobsOff(i))'
              + SyncOff(i)
    BY <1>1, <2>1 DEF Evens
  <2> QED
    BY <1>4, <2>1, <2>2, <2>3, <2>4, <2>5, <2>6 DEF Evens
<1>5. JobsInv'
  BY <1>3
<1> QED
  BY <1>1, <1>4, <1>5 DEF TrailInv

\* The delta leaves the job for the trail.
LEMMA TrailPost ==
    ASSUME TrailInv, IInv', NEW j \in jobs, NEW d \in j.todo, PostUserAudit(j, d)
    PROVE  TrailInv'
<1>1. /\ comments' = Append(comments, UserComment(j, d))
      /\ UNCHANGED <<open, body, events, created, sync, replies, raced, lost>>
  BY DEF PostUserAudit, UserComment
<1>2. /\ UserComment(j, d) \in Comment
      /\ UserComment(j, d).what = [k \in {d} |-> d \in On(events[j.event].after)]
  BY UserCommentType DEF TrailInv, UserComment
<1> DEFINE after == On(events[j.event].after)
           w == UserComment(j, d).what
<1>3. On(w) = {d} \intersect after /\ DOMAIN w \ On(w) = {d} \ after
  <2>1. DOMAIN w = {d} /\ w[d] = (d \in after)
    BY <1>2
  <2> HIDE DEF w, after
  <2> QED
    BY <2>1 DEF On
<1>4. ASSUME NEW i
      PROVE  /\ JobsInv'
             /\ Cardinality(JobsOn(i)) = Cardinality(JobsOn(i))' + Bit({d} \intersect after, i)
             /\ Cardinality(JobsOff(i)) = Cardinality(JobsOff(i))' + Bit({d} \ after, i)
  BY PostCounts DEF TrailInv
<1>5. ASSUME NEW i
      PROVE  /\ Cardinality(CommentsOn(i))'
                  = Cardinality(CommentsOn(i)) + Bit({d} \intersect after, i)
             /\ Cardinality(CommentsOff(i))'
                  = Cardinality(CommentsOff(i)) + Bit({d} \ after, i)
  <2>1. /\ Cardinality(CommentsOn(i))' = Cardinality(CommentsOn(i)) + Bit(On(w), i)
        /\ Cardinality(CommentsOff(i))'
             = Cardinality(CommentsOff(i)) + Bit(DOMAIN w \ On(w), i)
    BY <1>1, <1>2, CommentCounts DEF TrailInv
  <2> HIDE DEF w, after
  <2> QED
    BY <1>3, <2>1
<1>6. ASSUME NEW i, Evens(i) PROVE Evens(i)'
  <2>1. SyncOn(i)' = SyncOn(i) /\ SyncOff(i)' = SyncOff(i)
    BY <1>1 DEF SyncOn, SyncOff, Pending
  <2>2. /\ Cardinality(CommentsOn(i)) \in Nat /\ Cardinality(CommentsOff(i)) \in Nat
        /\ Cardinality(JobsOn(i)) \in Nat /\ Cardinality(JobsOff(i)) \in Nat
        /\ SyncOn(i) \in Nat /\ SyncOff(i) \in Nat
    BY CountTypes DEF TrailInv
  <2>3. /\ Cardinality(JobsOn(i))' \in Nat /\ Cardinality(JobsOff(i))' \in Nat
    <3>1. JobsInv'
      BY <1>4
    <3> QED
      BY <3>1, FS_Subset, FS_CardinalityType DEF JobsInv, JobsOn, JobsOff
  <2> DEFINE up == Bit({d} \intersect after, i)
             down == Bit({d} \ after, i)
  <2>4. /\ Bit(On(body), i) \in Nat /\ Bit(On(created), i) \in Nat
        /\ up \in Nat /\ down \in Nat
    BY BitType
  <2>5. /\ Cardinality(JobsOn(i)) = Cardinality(JobsOn(i))' + up
        /\ Cardinality(JobsOff(i)) = Cardinality(JobsOff(i))' + down
        /\ Cardinality(CommentsOn(i))' = Cardinality(CommentsOn(i)) + up
        /\ Cardinality(CommentsOff(i))' = Cardinality(CommentsOff(i)) + down
    BY <1>4, <1>5
  <2> HIDE DEF up, down
  <2>6. Evens(i)' <=>
            Bit(On(created), i) + Cardinality(CommentsOn(i))' + Cardinality(JobsOn(i))'
              + SyncOn(i)
          = Bit(On(body), i) + Cardinality(CommentsOff(i))' + Cardinality(JobsOff(i))'
              + SyncOff(i)
    BY <1>1, <2>1 DEF Evens
  <2>7. Bit(On(created), i) + Cardinality(CommentsOn(i)) + (Cardinality(JobsOn(i))' + up)
          + SyncOn(i)
      = Bit(On(body), i) + Cardinality(CommentsOff(i)) + (Cardinality(JobsOff(i))' + down)
          + SyncOff(i)
    BY <1>6, <2>5 DEF Evens
  <2>8. Bit(On(created), i) + (Cardinality(CommentsOn(i)) + up) + Cardinality(JobsOn(i))'
          + SyncOn(i)
      = Bit(On(body), i) + (Cardinality(CommentsOff(i)) + down) + Cardinality(JobsOff(i))'
          + SyncOff(i)
    BY <2>2, <2>3, <2>4, <2>7
  <2> QED
    BY <2>5, <2>6, <2>8
<1>7. JobsInv'
  BY <1>4
<1> QED
  BY <1>1, <1>6, <1>7 DEF TrailInv

\* A failure before a comment is one the balance excepts.
LEMMA TrailFails ==
    ASSUME TrailInv, IInv', SyncAuditFails \/ \E j \in jobs : AuditJobFails(j)
    PROVE  TrailInv'
<1>1. "audit" \in lost' /\ open' = open /\ created' = created
      /\ (jobs' = jobs \/ \E j \in jobs : jobs' = jobs \ {j})
  BY DEF SyncAuditFails, AuditJobFails, issue
<1>2. JobsInv'
  BY <1>1, FS_RemoveElement DEF TrailInv, JobsInv
<1> QED
  BY <1>1, <1>2 DEF TrailInv

LEMMA TrailInductive ==
    ASSUME NEW o, Orgs = {o}, TrailInv, [Next]_vars
    PROVE  TrailInv'
<1>1. IInv'
  BY Inductive DEF TrailInv
<1>2. CASE (\E rows \in Registries : PushRegistry(rows))
           \/ (\E forced \in BOOLEAN : DispatchSync(forced)) \/ StartSync \/ SyncFails
           \/ UNCHANGED vars
  <2>1. UNCHANGED <<open, body, created, jobs, events, raced, comments>>
        /\ ("audit" \in lost => "audit" \in lost')
    BY <1>2 DEF PushRegistry, DispatchSync, StartSync, SyncFails, vars, issue, audit
  <2>2. \/ sync' = sync
        \/ sync.phase # "written" /\ sync'.phase # "written"
    <3>1. CASE StartSync
      <4>1. sync.phase = "none" /\ sync' = waiting
        BY <3>1 DEF StartSync, NoRun
      <4> QED
        BY <4>1 DEF TrailInv, IInv, SyncInv
    <3>2. CASE SyncFails
      BY <3>2 DEF SyncFails, NoRun
    <3> QED
      BY <1>2, <3>1, <3>2 DEF PushRegistry, DispatchSync, vars
  <2> QED
    BY <1>1, <2>1, <2>2, TrailSame
<1>3. CASE FindDashboardIssue
  BY <1>1, <1>3, TrailFind
<1>4. CASE CreateIssue
  BY <1>1, <1>4, TrailCreate
<1>5. CASE UpdateIssue
  BY <1>1, <1>5, TrailUpdate
<1>6. CASE PostSyncAudit
  BY <1>1, <1>6, TrailSyncAudit
<1>7. CASE \E new \in [DOMAIN body -> BOOLEAN] : PersonEdits(new)
  BY <1>1, <1>7, TrailEdit
<1>8. CASE AuditSteps
  BY <1>1, <1>8, TrailPost DEF AuditSteps
<1>9. CASE SyncAuditFails \/ \E j \in jobs : AuditJobFails(j)
  BY <1>1, <1>9, TrailFails
<1>10. CASE \/ \E names \in {{}} \union {Within[i] : i \in Ids} : PersonReplies(names)
            \/ \E r \in replies : ListComments(r) \/ ReasonJobFails(r)
  <2>1. UNCHANGED <<open, body, created, jobs, events, raced, comments, sync, lost>>
    BY <1>10 DEF PersonReplies, ListComments, ReasonJobFails, issue
  <2> QED
    BY <1>1, <2>1, TrailSame
<1>11. CASE \E r \in replies : RecordReason(r)
  <2>1. PICK r \in replies : RecordReason(r)
    BY <1>11
  <2>2. IInv
    BY DEF TrailInv
  <2> QED
    BY <1>1, <2>1, <2>2, RecordFacts, TrailSame
<1> QED
  BY <1>2, <1>3, <1>4, <1>5, <1>6, <1>7, <1>8, <1>9, <1>10, <1>11
     DEF Next, SyncSteps, ReasonSteps

-----------------------------------------------------------------------------
(* What the runs check, for any instance *)

\* The inductive invariant holds of every reachable state.
THEOREM DashboardInvariance == Spec => []IInv
<1>1. Init => IInv
  BY Initially
<1>2. IInv /\ [Next]_vars => IInv'
  BY Inductive
<1> QED
  BY <1>1, <1>2, PTL DEF Spec

\* Issue, runs, jobs and comments stay within their shapes: jobs speak of edits
\* that happened and replies go to comments that exist.
THEOREM DashboardTypeCorrect == Spec => []TypeOK
<1>1. IInv => TypeOK
  BY DEF IInv
<1> QED
  BY <1>1, DashboardInvariance, PTL

\* With the triggers of one org, the audit comments account for every box of the
\* body, however edits, jobs and syncs interleave, as long as none of them
\* failed before its comment or wrote over an edit it had not read.
THEOREM TrailAlwaysBalances ==
    ASSUME NEW CONSTANT o, Orgs = {o}
    PROVE  Spec => []TrailBalances
<1>1. Init => TrailInv
  BY TrailInitially
<1>2. TrailInv /\ [Next]_vars => TrailInv'
  BY TrailInductive
<1>3. TrailInv => TrailBalances
  BY ToldIs DEF TrailInv, TrailBalances
<1> QED
  BY <1>1, <1>2, <1>3, PTL DEF Spec

-----------------------------------------------------------------------------
(* What becomes of an edit *)

\* The trail has the delta i of edit n, and in the direction of the edit.
Recorded(n, i) ==
    \E k \in DOMAIN comments :
       /\ comments[k].event = n /\ i \in DOMAIN comments[k].what
       /\ comments[k].what[i] = (i \in On(events[n].after))

\* Org o still has the delta i of edit n to comment on.
HeldFor(o, n, i) == \E j \in jobs : j.event = n /\ j.org = o /\ i \in j.todo

\* Every delta of every edit by a person is on the trail, or in a job of each
\* org that has still to write it, unless a job failed.
NoEditForgotten ==
    "audit" \notin lost =>
        \A o \in Orgs, n \in DOMAIN events : events[n].actor = "person" =>
           \A i \in Deltas(events[n].before, events[n].after) :
              Recorded(n, i) \/ HeldFor(o, n, i)

\* No step drops a comment or rewrites what it says.
CommentsKept ==
    \A k \in DOMAIN comments : /\ k \in DOMAIN comments'
                               /\ comments'[k].event = comments[k].event
                               /\ comments'[k].what = comments[k].what

LEMMA CommentsAreKept == ASSUME IInv, [Next]_vars PROVE CommentsKept
<1>1. CASE comments' = comments
  BY <1>1 DEF CommentsKept
<1>2. CASE PostSyncAudit
  <2> DEFINE c == [source |-> "sync", event |-> 0,
                   what |-> Directions(sync.before, sync.after),
                   status |-> "complete", reason |-> 0]
  <2>1. (comments' = comments \/ comments' = Append(comments, c)) /\ replies' = replies
    BY <1>2 DEF PostSyncAudit
  <2>2. c \in Comment
    BY SyncCommentType
  <2> HIDE DEF c
  <2> QED
    BY <1>1, <2>1, <2>2, CommentFacts DEF CommentsKept
<1>3. CASE AuditSteps
  <2>1. PICK j \in jobs : \E i \in j.todo : PostUserAudit(j, i)
    BY <1>3 DEF AuditSteps
  <2>2. PICK i \in j.todo : PostUserAudit(j, i)
    BY <2>1
  <2>3. comments' = Append(comments, UserComment(j, i)) /\ replies' = replies
    BY <2>2 DEF PostUserAudit, UserComment
  <2>4. UserComment(j, i) \in Comment
    BY UserCommentType
  <2> QED
    BY <2>3, <2>4, CommentFacts DEF CommentsKept
<1>4. CASE \E r \in replies : RecordReason(r)
  BY <1>4, RecordFacts DEF CommentsKept
<1> QED
  BY <1>1, <1>2, <1>3, <1>4
     DEF Next, SyncSteps, ReasonSteps, vars, issue, audit, PushRegistry,
         DispatchSync, StartSync, FindDashboardIssue, CreateIssue, UpdateIssue,
         SyncAuditFails, SyncFails, PersonEdits, AuditJobFails,
         PersonReplies, ListComments, ReasonJobFails

LEMMA EditsKept ==
    ASSUME IInv, NoEditForgotten, [Next]_vars
    PROVE  NoEditForgotten'
<1>1. SUFFICES ASSUME "audit" \notin lost', NEW o \in Orgs, NEW n \in DOMAIN events',
                      events'[n].actor = "person",
                      NEW i \in Deltas(events'[n].before, events'[n].after)
               PROVE  Recorded(n, i)' \/ HeldFor(o, n, i)'
  BY DEF NoEditForgotten
<1>2. CommentsKept
  BY CommentsAreKept
<1>3. events \in Seq(Event) /\ DOMAIN events = 1 .. Len(events) /\ Len(events) \in Nat
  BY DEF IInv, TypeOK
<1>4. ASSUME "audit" \notin lost, n \in DOMAIN events, events'[n] = events[n]
      PROVE  Recorded(n, i)' \/ HeldFor(o, n, i)
  BY <1>1, <1>2, <1>4 DEF NoEditForgotten, Recorded, CommentsKept
<1>5. CASE UNCHANGED <<events, jobs>> /\ ("audit" \in lost => "audit" \in lost')
  BY <1>1, <1>4, <1>5 DEF HeldFor
<1>6. ASSUME NEW new \in Bodies, NEW actor \in {"person", "bot"}, lost' = lost,
             events' = Append(events, [actor |-> actor, before |-> body, after |-> new]),
             jobs' = jobs \union AuditJobs(actor, body, new),
             UNCHANGED <<comments, replies>>
      PROVE  Recorded(n, i)' \/ HeldFor(o, n, i)'
  <2>1. /\ Len(events') = Len(events) + 1 /\ events' \in Seq(Event)
        /\ events'[Len(events) + 1] = [actor |-> actor, before |-> body, after |-> new]
        /\ \A m \in 1 .. Len(events) : events'[m] = events[m]
    BY <1>6, EditFacts
  <2>2. CASE n \in DOMAIN events
    BY <1>1, <1>3, <1>4, <1>6, <2>1, <2>2 DEF HeldFor
  <2>3. CASE n \notin DOMAIN events
    <3>1. n = Len(events) + 1
      BY <1>1, <1>3, <2>1, <2>3
    <3>2. actor = "person" /\ i \in Deltas(body, new)
      BY <1>1, <2>1, <3>1
    <3> DEFINE j == [event |-> n, org |-> o, todo |-> Deltas(body, new)]
    <3>3. j \in jobs'
      BY <1>6, <3>1, <3>2 DEF AuditJobs, is_bot_actor
    <3>4. j.event = n /\ j.org = o /\ i \in j.todo
      BY <3>2
    <3> HIDE DEF j
    <3> QED
      BY <3>3, <3>4 DEF HeldFor
  <2> QED
    BY <2>2, <2>3
<1>7. CASE UpdateIssue
  <2>1. lost' = lost /\ UNCHANGED <<comments, replies>> /\ sync.after \in Bodies
    BY <1>7 DEF UpdateIssue, audit, IInv, TypeOK, Run
  <2>2. CASE body = sync.after
    BY <1>5, <1>7, <2>1, <2>2 DEF UpdateIssue
  <2>3. CASE body # sync.after
    <3>1. /\ events' = Append(events, [actor |-> "bot", before |-> body,
                                       after |-> sync.after])
          /\ jobs' = jobs \union AuditJobs("bot", body, sync.after)
      BY <1>7, <2>3 DEF UpdateIssue
    <3> QED
      BY <1>6, <2>1, <3>1
  <2> QED
    BY <2>2, <2>3
<1>8. ASSUME NEW new \in [DOMAIN body -> BOOLEAN], PersonEdits(new)
      PROVE  Recorded(n, i)' \/ HeldFor(o, n, i)'
  <2>1. new \in Bodies
    BY BodyIs DEF IInv, TypeOK
  <2>2. /\ events' = Append(events, [actor |-> "person", before |-> body, after |-> new])
        /\ jobs' = jobs \union AuditJobs("person", body, new)
        /\ UNCHANGED <<comments, replies, lost>>
    BY <1>8 DEF PersonEdits, audit
  <2> QED
    BY <1>6, <2>1, <2>2
<1>9. ASSUME NEW j \in jobs, NEW d \in j.todo, PostUserAudit(j, d)
      PROVE  Recorded(n, i)' \/ HeldFor(o, n, i)'
  <2>1. /\ comments' = Append(comments, UserComment(j, d))
        /\ jobs' = (jobs \ {j}) \union Rest(j, d)
        /\ UNCHANGED <<events, lost, replies>>
    BY <1>9 DEF PostUserAudit, UserComment, Posted, Rest
  <2>2. /\ UserComment(j, d) \in Comment
        /\ UserComment(j, d).event = j.event
        /\ UserComment(j, d).what = [k \in {d} |-> d \in On(events[j.event].after)]
    BY UserCommentType DEF UserComment
  <2>3. CASE Recorded(n, i)'
    BY <2>3
  <2>4. CASE HeldFor(o, n, i)
    <3>1. PICK h \in jobs : h.event = n /\ h.org = o /\ i \in h.todo
      BY <2>4 DEF HeldFor
    <3>2. CASE h # j
      BY <2>1, <3>1, <3>2 DEF HeldFor
    <3>3. CASE h = j /\ i = d
      <4>1. /\ comments'[Len(comments) + 1] = UserComment(j, d)
            /\ Len(comments) + 1 \in DOMAIN comments'
        BY <2>1, <2>2, CommentFacts
      <4>2. /\ i \in DOMAIN UserComment(j, d).what
            /\ UserComment(j, d).what[i] = (i \in On(events[n].after))
        BY <2>2, <3>1, <3>3
      <4> QED
        BY <2>1, <2>2, <3>1, <3>3, <4>1, <4>2 DEF Recorded
    <3>4. CASE h = j /\ i # d
      <4> DEFINE rest == [j EXCEPT !.todo = @ \ {d}]
      <4>1. j \in Job
        BY DEF IInv, TypeOK
      <4>2. rest.event = n /\ rest.org = o /\ rest.todo = j.todo \ {d}
        BY <3>1, <3>4, <4>1 DEF Job
      <4>3. rest \in Rest(j, d)
        BY <3>1, <3>4, <4>2 DEF Rest
      <4> HIDE DEF rest
      <4> QED
        BY <2>1, <3>1, <3>4, <4>2, <4>3 DEF HeldFor
    <3> QED
      BY <3>2, <3>3, <3>4
  <2> QED
    BY <1>1, <1>4, <2>1, <2>3, <2>4
<1>10. CASE SyncAuditFails \/ \E j \in jobs : AuditJobFails(j)
  BY <1>1, <1>10 DEF SyncAuditFails, AuditJobFails
<1>11. CASE AuditSteps
  BY <1>9, <1>11 DEF AuditSteps
<1>12. CASE \E r \in replies : RecordReason(r)
  BY <1>5, <1>12, RecordFacts
<1>13. CASE \/ (\E rows \in Registries : PushRegistry(rows))
            \/ (\E forced \in BOOLEAN : DispatchSync(forced))
            \/ StartSync \/ FindDashboardIssue \/ CreateIssue \/ PostSyncAudit \/ SyncFails
            \/ (\E names \in {{}} \union {Within[k] : k \in Ids} : PersonReplies(names))
            \/ (\E r \in replies : ListComments(r) \/ ReasonJobFails(r))
            \/ UNCHANGED vars
  BY <1>5, <1>13
     DEF PushRegistry, DispatchSync, StartSync, FindDashboardIssue, CreateIssue,
         PostSyncAudit, SyncFails, PersonReplies, ListComments, ReasonJobFails,
         issue, audit, vars
<1> QED
  BY <1>7, <1>8, <1>10, <1>11, <1>12, <1>13 DEF Next, SyncSteps, ReasonSteps

\* However many boxes one edit changed and whatever edits, replies and syncs came
\* in between, no delta of a person's edit gets lost on its way to the trail:
\* what EveryEditAudited then asks is that the jobs that hold it run.
THEOREM NoEditEverForgotten == Spec => []NoEditForgotten
<1>1. Init => NoEditForgotten
  BY DEF Init, NoEditForgotten
<1>2. IInv /\ NoEditForgotten /\ [Next]_vars => NoEditForgotten'
  BY EditsKept
<1> QED
  BY <1>1, <1>2, DashboardInvariance, PTL DEF Spec

-----------------------------------------------------------------------------
(* The rows of the dashboard *)

\* The rows of the newest sync are those of the registries, from its place in
\* the queue to the body it wrote, and stay there whatever people tick.
SyncIdle == waiting = NoRun /\ sync = NoRun
IdleDashboardFollowsRegistry ==
    SyncIdle /\ open /\ "sync" \notin lost => DOMAIN body = DOMAIN registry
RowsInv ==
    /\ waiting # NoRun => waiting.rows = registry
    /\ waiting = NoRun /\ sync # NoRun => sync.rows = registry
    /\ sync.phase = "written" => DOMAIN body = DOMAIN sync.rows
    /\ IdleDashboardFollowsRegistry

LEMMA RowsStep ==
    ASSUME IInv, RowsInv, [Next]_vars
    PROVE  RowsInv'
<1>1. /\ sync \in Run /\ waiting \in Run /\ NoRun.phase = "none" /\ NoRun \in Run
      /\ waiting.phase \in {"none", "queued"}
  BY NoRowsType DEF IInv, TypeOK, SyncInv, NoRun
<1>2. ASSUME NEW rows, NEW forced, Enqueue(rows, forced)
      PROVE  waiting' # NoRun /\ waiting'.rows = rows
  BY <1>2 DEF Enqueue, NoRun
<1>3. ASSUME NEW rows \in Registries, PushRegistry(rows) PROVE RowsInv'
  BY <1>2, <1>3 DEF PushRegistry, RowsInv, IdleDashboardFollowsRegistry, SyncIdle, issue
<1>4. ASSUME NEW forced \in BOOLEAN, DispatchSync(forced) PROVE RowsInv'
  BY <1>2, <1>4 DEF DispatchSync, RowsInv, IdleDashboardFollowsRegistry, SyncIdle, issue
<1>5. CASE StartSync
  BY <1>1, <1>5
     DEF StartSync, RowsInv, IdleDashboardFollowsRegistry, SyncIdle, issue, IInv, SyncInv
<1>6. CASE FindDashboardIssue
  <2>1. /\ sync # NoRun /\ sync' # NoRun /\ sync'.rows = sync.rows /\ sync'.phase = "read"
        /\ UNCHANGED <<registry, waiting, body, open, lost>>
    BY <1>1, <1>6 DEF FindDashboardIssue, issue, Run
  <2> QED
    BY <2>1 DEF RowsInv, IdleDashboardFollowsRegistry, SyncIdle
<1>7. CASE CreateIssue
  <2>1. /\ sync # NoRun /\ sync' = NoRun /\ body' = sync.after
        /\ UNCHANGED <<registry, waiting, lost>>
    BY <1>1, <1>7 DEF CreateIssue
  <2>2. DOMAIN sync.after = DOMAIN sync.rows
    BY <1>7 DEF CreateIssue, IInv, SyncInv, build_dashboard_body
  <2> QED
    BY <1>1, <2>1, <2>2 DEF RowsInv, IdleDashboardFollowsRegistry, SyncIdle
<1>8. CASE UpdateIssue
  <2>1. /\ sync # NoRun /\ body' = sync.after /\ sync' # NoRun
        /\ sync'.rows = sync.rows /\ sync'.phase = "written"
        /\ UNCHANGED <<registry, waiting, lost>>
    BY <1>1, <1>8 DEF UpdateIssue, Run
  <2>2. DOMAIN sync.after = DOMAIN sync.rows
    BY <1>8 DEF UpdateIssue, IInv, SyncInv, build_dashboard_body
  <2> QED
    BY <2>1, <2>2 DEF RowsInv, IdleDashboardFollowsRegistry, SyncIdle
<1>9. CASE PostSyncAudit \/ SyncAuditFails
  <2>1. /\ sync # NoRun /\ sync.phase = "written" /\ sync' = NoRun
        /\ UNCHANGED <<registry, waiting, body>>
    BY <1>1, <1>9 DEF PostSyncAudit, SyncAuditFails, issue
  <2> QED
    BY <1>1, <2>1 DEF RowsInv, IdleDashboardFollowsRegistry, SyncIdle
<1>10. CASE SyncFails
  BY <1>1, <1>10
     DEF SyncFails, RowsInv, IdleDashboardFollowsRegistry, SyncIdle, issue
<1>11. ASSUME NEW new \in [DOMAIN body -> BOOLEAN], PersonEdits(new) PROVE RowsInv'
  <2>1. DOMAIN body' = DOMAIN body /\ UNCHANGED <<registry, open, waiting, sync, lost>>
    BY <1>11 DEF PersonEdits
  <2> QED
    BY <2>1 DEF RowsInv, IdleDashboardFollowsRegistry, SyncIdle
<1>12. CASE \E j \in jobs : AuditJobFails(j)
  BY <1>12 DEF AuditJobFails, RowsInv, IdleDashboardFollowsRegistry, SyncIdle
<1>13. CASE \/ AuditSteps \/ ReasonSteps
            \/ (\E names \in {{}} \union {Within[k] : k \in Ids} : PersonReplies(names))
            \/ (\E r \in replies : ReasonJobFails(r))
            \/ UNCHANGED vars
  <2>1. UNCHANGED <<registry, open, body, waiting, sync, lost>>
    BY <1>13 DEF AuditSteps, ReasonSteps, PostUserAudit, PersonReplies, ListComments,
       RecordReason, ReasonJobFails, issue, vars
  <2> QED
    BY <2>1 DEF RowsInv, IdleDashboardFollowsRegistry, SyncIdle
<1> QED
  BY <1>3, <1>4, <1>5, <1>6, <1>7, <1>8, <1>9, <1>10, <1>11, <1>12, <1>13
     DEF Next, SyncSteps

\* Whenever no sync is queued or running and the last one did not fail, the
\* dashboard has the rows of the registries, although runs that waited were
\* replaced and the rows a run brings are those of its trigger: the safety half of
\* RowsFollowRegistry.
THEOREM IdleDashboardAlwaysFollowsRegistry == Spec => []IdleDashboardFollowsRegistry
<1>1. Init => RowsInv
  BY DEF Init, RowsInv, IdleDashboardFollowsRegistry, NoRun
<1>2. IInv /\ RowsInv /\ [Next]_vars => RowsInv'
  BY RowsStep
<1>3. RowsInv => IdleDashboardFollowsRegistry
  BY DEF RowsInv
<1> QED
  BY <1>1, <1>2, <1>3, DashboardInvariance, PTL DEF Spec

-----------------------------------------------------------------------------
(* The dashboard is a register *)

\* What waits or runs brings the rows of a registry.
RowsOfRegistry ==
    /\ waiting # NoRun => waiting.rows \in Registries
    /\ sync # NoRun => sync.rows \in Registries

LEMMA RowsOfRegistryStep == ASSUME IInv, RowsOfRegistry, [Next]_vars PROVE RowsOfRegistry'
<1>1. registry \in Registries /\ sync \in Run /\ NoRun.phase = "none"
  BY DEF IInv, TypeOK, NoRun
<1>2. ASSUME NEW rows, NEW forced, Enqueue(rows, forced) PROVE waiting'.rows = rows
  BY <1>2 DEF Enqueue, NoRun
<1>3. CASE (\E rows \in Registries : PushRegistry(rows)) \/ (\E f \in BOOLEAN : DispatchSync(f))
  BY <1>1, <1>2, <1>3 DEF PushRegistry, DispatchSync, RowsOfRegistry
<1>4. CASE StartSync
  BY <1>4 DEF StartSync, RowsOfRegistry
<1>5. CASE FindDashboardIssue \/ UpdateIssue
  <2>1. sync # NoRun /\ sync'.rows = sync.rows /\ waiting' = waiting
    BY <1>1, <1>5 DEF FindDashboardIssue, UpdateIssue, Run
  <2> QED
    BY <2>1 DEF RowsOfRegistry
<1>6. CASE sync' \in {sync, NoRun} /\ waiting' = waiting
  BY <1>6 DEF RowsOfRegistry
<1> QED
  BY <1>3, <1>4, <1>5, <1>6
     DEF Next, SyncSteps, ReasonSteps, AuditSteps, vars, CreateIssue, PostSyncAudit,
         SyncAuditFails, SyncFails, PersonEdits, PostUserAudit, AuditJobFails,
         PersonReplies, ListComments, RecordReason, ReasonJobFails

LEMMA RegisterStep ==
    ASSUME IInv, RowsOfRegistry, [Next]_vars
    PROVE  [Register!Next]_(Register!vars)
<1>1. /\ sync \in Run /\ waiting \in Run /\ body \in Bodies /\ NoRun.phase = "none"
      /\ waiting.phase # "read"
  BY DEF IInv, TypeOK, SyncInv, NoRun
<1>2. Reading => /\ sync.after = build_dashboard_body(sync.rows, sync.before, sync.forced)
                 /\ sync.found <=> open
                 /\ sync # NoRun
  BY <1>1 DEF Reading, IInv, SyncInv
<1>3. CASE UNCHANGED <<open, body, sync>>
  BY <1>3 DEF Register!vars, Reading
<1>4. CASE UNCHANGED <<open, body>> /\ ~Reading /\ ~Reading'
  BY <1>4 DEF Register!vars
<1>5. CASE FindDashboardIssue
  <2>1. /\ ~Reading /\ Reading' /\ sync'.rows = sync.rows /\ sync'.forced = sync.forced
        /\ sync'.before = body /\ UNCHANGED <<open, body>>
        /\ sync.rows \in Registries /\ sync.forced \in BOOLEAN
    BY <1>1, <1>5 DEF FindDashboardIssue, issue, Reading, Run, RowsOfRegistry
  <2>2. Register!Begin(sync.rows, sync.forced)
    BY <2>1 DEF Register!Begin
  <2> QED
    BY <2>1, <2>2 DEF Register!Next
<1>6. CASE CreateIssue \/ UpdateIssue
  <2>1. Reading /\ ~Reading' /\ open' = TRUE /\ body' = sync.after
    BY <1>1, <1>2, <1>6 DEF CreateIssue, UpdateIssue, Reading, Run
  <2> DEFINE t == [rows |-> sync.rows, reset |-> sync.forced]
  <2>2. body' = Register!Brought(t, sync.before)
    BY <1>2, <2>1 DEF build_dashboard_body, Register!Brought
  <2>3. Register!Bring(t, sync.before)
    BY <2>1, <2>2 DEF Register!Bring
  <2> QED
    BY <2>1, <2>3 DEF Register!Next
<1>7. CASE SyncFails
  <2>1. UNCHANGED <<open, body>> /\ ~Reading'
    BY <1>1, <1>7 DEF SyncFails, issue, Reading
  <2>2. CASE Reading
    BY <2>1, <2>2 DEF Register!Next, Register!GiveUp
  <2> QED
    BY <1>4, <2>1, <2>2
<1>8. ASSUME NEW new \in [DOMAIN body -> BOOLEAN], PersonEdits(new)
      PROVE  Register!Next
  <2>1. open /\ open' = open /\ body' = new /\ sync' = sync
    BY <1>8 DEF PersonEdits
  <2>2. Register!Tick(new)
    BY <2>1 DEF Register!Tick, Reading
  <2> QED
    BY <2>2 DEF Register!Next
<1>9. CASE StartSync \/ PostSyncAudit \/ SyncAuditFails
  BY <1>1, <1>4, <1>9 DEF StartSync, PostSyncAudit, SyncAuditFails, issue, Reading
<1> QED
  BY <1>3, <1>5, <1>6, <1>7, <1>8, <1>9
     DEF Next, SyncSteps, ReasonSteps, AuditSteps, vars, issue, PushRegistry,
         DispatchSync, PostUserAudit, AuditJobFails, PersonReplies, ListComments,
         RecordReason, ReasonJobFails

\* The dashboard implements the register of boxes, for any rows and whatever is
\* edited, synced, reset or failed meanwhile: a sync that finds the body it read
\* flips nothing, one that does not restores a state it saw.
THEOREM DashboardImplementsRegister == Spec => ImplementsRegister
<1>1. Init => RowsOfRegistry /\ Register!Init
  BY DEF Init, RowsOfRegistry, Register!Init, NoRun, NoRows, Reading
<1>2. IInv /\ RowsOfRegistry /\ [Next]_vars => RowsOfRegistry'
  BY RowsOfRegistryStep
<1>3. IInv /\ RowsOfRegistry /\ [Next]_vars => [Register!Next]_(Register!vars)
  BY RegisterStep
<1> QED
  BY <1>1, <1>2, <1>3, DashboardInvariance, PTL DEF Spec, ImplementsRegister, Register!Spec
=============================================================================
