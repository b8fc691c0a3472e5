-------------------------- MODULE DetectiveE2EProofs --------------------------
(***************************************************************************)
(* A case that passes has seen its own failure answered: proved for any    *)
(* number of cases and of things that go wrong.                            *)
(***************************************************************************)
EXTENDS DetectiveE2E, TLAPS

(* Runs are added and change their state, never what they are runs of.     *)
FailsGrow == /\ Len(fails) <= Len(fails')
             /\ \A i \in DOMAIN fails : /\ i \in DOMAIN fails'
                                        /\ fails'[i].head = fails[i].head
CallersGrow == /\ Len(callers) <= Len(callers')
               /\ \A c \in DOMAIN callers : /\ c \in DOMAIN callers'
                                            /\ callers'[c].fail = callers[c].fail

-----------------------------------------------------------------------------
(* Every step keeps the runs of the intentional workflow and their heads.  *)
LEMMA FailsStep ==
    ASSUME TypeOK, [Next]_vars
    PROVE  fails' \in Seq(FailRun) /\ FailsGrow
<1>1. CASE StartFail
  <2>1. PICK e \in events :
          fails' = Append([i \in DOMAIN fails |->
                              IF fails[i].state = "running" /\ fails[i].pr = e.pr
                              THEN [fails[i] EXCEPT !.state = "cancelled"]
                              ELSE fails[i]],
                          [pr |-> e.pr, head |-> e.head, called |-> FALSE,
                           state |-> IF e.labelled THEN "running" ELSE "skipped"])
    BY <1>1 DEF StartFail
  <2> DEFINE old == [i \in DOMAIN fails |->
                              IF fails[i].state = "running" /\ fails[i].pr = e.pr
                              THEN [fails[i] EXCEPT !.state = "cancelled"]
                              ELSE fails[i]]
             new == [pr |-> e.pr, head |-> e.head, called |-> FALSE,
                     state |-> IF e.labelled THEN "running" ELSE "skipped"]
  <2>2. fails \in Seq(FailRun) /\ e \in [pr : Nat, head : Nat, labelled : BOOLEAN]
    BY DEF TypeOK
  <2>3. \A i \in DOMAIN fails : /\ old[i] \in FailRun
                                /\ old[i].head = fails[i].head
    <3> TAKE i \in DOMAIN fails
    <3>1. fails[i] \in FailRun
      BY <2>2
    <3>2. CASE fails[i].state = "running" /\ fails[i].pr = e.pr
      BY <3>1, <3>2 DEF FailRun
    <3>3. CASE ~(fails[i].state = "running" /\ fails[i].pr = e.pr)
      BY <3>1, <3>3
    <3> QED BY <3>2, <3>3
  <2>4. old \in Seq(FailRun) /\ Len(old) = Len(fails)
    BY <2>2, <2>3
  <2>5. new \in FailRun
    BY <2>2 DEF FailRun
  <2> HIDE DEF old, new
  <2>6. fails' = Append(old, new)
    BY <2>1 DEF old, new
  <2>7. fails' \in Seq(FailRun) /\ Len(fails') = Len(fails) + 1
    BY <2>4, <2>5, <2>6
  <2>8. \A i \in DOMAIN fails : i \in DOMAIN fails' /\ fails'[i] = old[i]
    BY <2>2, <2>4, <2>5, <2>6, <2>7
  <2>9. Len(fails) \in Nat
    BY <2>2
  <2> QED BY <2>3, <2>7, <2>8, <2>9 DEF FailsGrow
<1>2. ASSUME NEW i \in DOMAIN fails, NEW r \in FailRun, r.head = fails[i].head,
             fails' = [fails EXCEPT ![i] = r]
      PROVE  fails' \in Seq(FailRun) /\ FailsGrow
  <2>1. fails \in Seq(FailRun)
    BY DEF TypeOK
  <2>2. fails' \in Seq(FailRun) /\ Len(fails') = Len(fails) /\ DOMAIN fails' = DOMAIN fails
    BY <1>2, <2>1
  <2>3. Len(fails) \in Nat
    BY <2>1
  <2> QED BY <1>2, <2>1, <2>2, <2>3 DEF FailsGrow
<1>3. CASE EndFail \/ StartCaller
  <2>1. PICK i \in DOMAIN fails :
           \/ fails' = [fails EXCEPT ![i].state = "failure"]
           \/ fails' = [fails EXCEPT ![i].called = TRUE]
    BY <1>3 DEF EndFail, StartCaller
  <2>2. fails[i] \in FailRun
    BY DEF TypeOK
  <2>3. /\ [fails[i] EXCEPT !.state = "failure"] \in FailRun
        /\ [fails[i] EXCEPT !.called = TRUE] \in FailRun
        /\ [fails[i] EXCEPT !.state = "failure"].head = fails[i].head
        /\ [fails[i] EXCEPT !.called = TRUE].head = fails[i].head
    BY <2>2 DEF FailRun
  <2> QED BY <1>2, <2>1, <2>3
<1>4. CASE UNCHANGED fails
  BY <1>4 DEF TypeOK, FailsGrow
<1> QED
  BY <1>1, <1>3, <1>4
  DEF EndFail, Next, Harness, vars, StartCase, CheckDashboard, ReuseFixture, LabelFixture,
      CreateFixture, ReopenFixture, ClearComments, TakeSnapshot, SeedWorkflow,
      BumpTrigger, FailSeen, VerifyMarker, RouteSeen, CommentSeen, Deadline,
      Abort, AgentReports, AgentStaysSilent, People, GitHub

(* Every step keeps the caller runs and the failures that caused them.     *)
LEMMA CallersStep ==
    ASSUME TypeOK, [Next]_vars
    PROVE  /\ callers' \in Seq(CallerRun) /\ CallersGrow
           /\ \A c \in DOMAIN callers' : callers'[c].fail \in DOMAIN fails'
<1>1. /\ callers \in Seq(CallerRun) /\ Len(callers) \in Nat
      /\ fails \in Seq(FailRun) /\ Len(fails) \in Nat
      /\ \A c \in DOMAIN callers : callers[c].fail \in DOMAIN fails
  BY DEF TypeOK
<1>2. \A i \in DOMAIN fails : i \in DOMAIN fails'
  BY FailsStep DEF FailsGrow
<1>3. CASE StartCaller
  <2>1. PICK i \in DOMAIN fails, state \in {"running", "skipped"} :
           callers' = Append(callers, [fail |-> i, after |-> Len(fails), state |-> state])
    BY <1>3 DEF StartCaller
  <2> DEFINE new == [fail |-> i, after |-> Len(fails), state |-> state]
  <2>2. new \in CallerRun /\ new.fail = i
    BY <1>1 DEF CallerRun
  <2> HIDE DEF new
  <2>3. callers' = Append(callers, new)
    BY <2>1 DEF new
  <2>4. callers' \in Seq(CallerRun) /\ Len(callers') = Len(callers) + 1
    BY <1>1, <2>2, <2>3
  <2>5. \A c \in DOMAIN callers : c \in DOMAIN callers' /\ callers'[c] = callers[c]
    BY <1>1, <2>2, <2>3, <2>4
  <2>6. \A c \in DOMAIN callers' : c \in DOMAIN callers \/ callers'[c] = new
    BY <1>1, <2>2, <2>3, <2>4
  <2> QED BY <1>1, <1>2, <2>2, <2>4, <2>5, <2>6 DEF CallersGrow
<1>4. CASE AgentReports \/ AgentStaysSilent
  <2>1. PICK c \in DOMAIN callers, state \in {"success", "failure"} :
           callers' = [callers EXCEPT ![c].state = state]
    BY <1>4 DEF AgentReports, AgentStaysSilent, Reports
  <2>2. callers[c] \in CallerRun
    BY <1>1
  <2> DEFINE new == [callers[c] EXCEPT !.state = state]
  <2>3. new \in CallerRun /\ new.fail = callers[c].fail
    BY <2>2 DEF CallerRun
  <2> HIDE DEF new
  <2>4. callers' = [callers EXCEPT ![c] = new]
    BY <2>1 DEF new
  <2>5. /\ callers' \in Seq(CallerRun) /\ Len(callers') = Len(callers)
        /\ DOMAIN callers' = DOMAIN callers
    BY <1>1, <2>3, <2>4
  <2> QED BY <1>1, <1>2, <2>3, <2>4, <2>5 DEF CallersGrow
<1>5. CASE UNCHANGED callers
  BY <1>1, <1>2, <1>5 DEF CallersGrow
<1> QED
  BY <1>3, <1>4, <1>5
  DEF Next, Harness, vars, StartCase, CheckDashboard, ReuseFixture, LabelFixture,
      CreateFixture, ReopenFixture, ClearComments, TakeSnapshot, SeedWorkflow,
      BumpTrigger, FailSeen, VerifyMarker, RouteSeen, CommentSeen, Deadline,
      Abort, StartFail, EndFail, People, GitHub

-----------------------------------------------------------------------------
(* The type invariant in its parts.                                        *)
SmallType ==
    /\ pr \in [number : Nat, open : BOOLEAN, labelled : BOOLEAN]
    /\ branch \in [head : Nat, workflow : {"current", "missing", "drifted"},
                   bumped : BOOLEAN]
    /\ enabled \in BOOLEAN /\ calm \in BOOLEAN
    /\ events \subseteq [pr : Nat, head : Nat, labelled : BOOLEAN]
    /\ {cases, snapshots, upsets} \subseteq Nat
CommentsType ==
    /\ comments \subseteq Comment
    /\ \A m \in comments : m.caller \in DOMAIN callers \cup {0} /\ m.epoch <= snapshots
HarnessType ==
    /\ harness \in Case
    /\ harness.fail \in DOMAIN fails \cup {0}
    /\ harness.route \in DOMAIN callers \cup {0}
    /\ harness.head <= branch.head

PrType == [number : Nat, open : BOOLEAN, labelled : BOOLEAN]
BranchType == [head : Nat, workflow : {"current", "missing", "drifted"},
               bumped : BOOLEAN]
EventType == [pr : Nat, head : Nat, labelled : BOOLEAN]

LEMMA FiresType ==
    ASSUME NEW p \in PrType, NEW b \in BranchType, events \subseteq EventType
    PROVE  Fires(p, b) \subseteq EventType
BY DEF Fires, PrType, BranchType, EventType

LEMMA PushType ==
    ASSUME NEW b \in BranchType, branch \in BranchType, pr \in PrType,
           events \subseteq EventType, Push(b)
    PROVE  branch' \in BranchType /\ events' \subseteq EventType
           /\ branch'.head = branch.head + 1
<1>1. branch' \in BranchType /\ branch'.head = branch.head + 1
  BY DEF Push, BranchType
<1>2. events' = Fires(pr, branch')
  BY DEF Push
<1> QED BY <1>1, <1>2, FiresType

LEMMA TroubleType ==
    ASSUME upsets \in Nat, calm \in BOOLEAN, Upset \/ AsPlanned
    PROVE  upsets' \in Nat /\ calm' \in BOOLEAN
<1>1. CASE Upset
  <2>1. upsets' \in Nat
    BY <1>1 DEF Upset
  <2>2. calm' = FALSE
    BY <1>1 DEF Upset
  <2> QED BY <2>1, <2>2
<1>2. CASE AsPlanned
  BY <1>2 DEF AsPlanned
<1> QED BY <1>1, <1>2

LEMMA SmallStep ==
    ASSUME TypeOK, [Next]_vars
    PROVE  SmallType' /\ branch.head <= branch'.head /\ snapshots <= snapshots'
<1>1. /\ pr \in PrType /\ branch \in BranchType /\ events \subseteq EventType
      /\ enabled \in BOOLEAN /\ calm \in BOOLEAN
      /\ cases \in Nat /\ snapshots \in Nat /\ upsets \in Nat
  BY DEF TypeOK, PrType, BranchType, EventType
<1>2. branch.head \in Nat /\ branch.head <= branch.head + 1
      /\ branch.head <= branch.head /\ snapshots <= snapshots
  BY <1>1 DEF BranchType
<1> SUFFICES
      /\ pr' \in PrType /\ branch' \in BranchType /\ events' \subseteq EventType
      /\ enabled' \in BOOLEAN /\ calm' \in BOOLEAN
      /\ cases' \in Nat /\ snapshots' \in Nat /\ upsets' \in Nat
      /\ branch.head <= branch'.head /\ snapshots <= snapshots'
  BY DEF SmallType, PrType, BranchType, EventType
<1> USE DEF Trouble, Counters, Fixture
<1>3. CASE Harness
  <2>1. CASE StartCase
    <3>1. InOrder \in BOOLEAN
      BY DEF InOrder, Settled
    <3> QED BY <1>1, <1>2, <2>1, <3>1 DEF StartCase
  <2>2. CASE CheckDashboard \/ ClearComments \/ FailSeen \/ RouteSeen \/ CommentSeen
    BY <1>1, <1>2, <2>2 DEF CheckDashboard, ClearComments, FailSeen, RouteSeen, CommentSeen
  <2>3. CASE ReuseFixture
    BY <1>1, <1>2, <2>3 DEF ReuseFixture, UseFixture
  <2>4. CASE LabelFixture
    <3>1. pr' \in PrType
      BY <1>1, <2>4 DEF LabelFixture, UseFixture, PrType
    <3> QED BY <1>1, <1>2, <2>4, <3>1, FiresType DEF LabelFixture
  <2>5. CASE CreateFixture
    <3>1. pr' \in PrType
      BY <1>1, <2>5 DEF CreateFixture, UseFixture, PrType
    <3>2. branch' \in BranchType /\ branch.head <= branch'.head
      BY <1>1, <1>2, <2>5 DEF CreateFixture, ReadyBranch, BranchType
    <3> QED BY <1>1, <1>2, <2>5, <3>1, <3>2, FiresType DEF CreateFixture
  <2>6. CASE ReopenFixture
    <3>1. pr' \in PrType
      BY <1>1, <2>6 DEF ReopenFixture, UseFixture, PrType
    <3>2. branch' \in BranchType /\ branch.head <= branch'.head
      BY <1>1, <1>2, <2>6 DEF ReopenFixture, ReadyBranch, BranchType
    <3> QED BY <1>1, <1>2, <2>6, <3>1, <3>2, FiresType, TroubleType DEF ReopenFixture
  <2>7. CASE TakeSnapshot
    BY <1>1, <1>2, <2>7 DEF TakeSnapshot
  <2>8. CASE SeedWorkflow
    <3>1. [branch EXCEPT !.workflow = "current"] \in BranchType
      BY <1>1 DEF BranchType
    <3>2. CASE Push([branch EXCEPT !.workflow = "current"])
      BY <1>1, <1>2, <2>8, <3>1, <3>2, PushType DEF SeedWorkflow
    <3> QED BY <1>1, <1>2, <2>8, <3>2 DEF SeedWorkflow
  <2>9. CASE BumpTrigger
    <3>1. [branch EXCEPT !.bumped = TRUE] \in BranchType
      BY <1>1 DEF BranchType
    <3> QED BY <1>1, <1>2, <2>9, <3>1, PushType DEF BumpTrigger
  <2>10. CASE VerifyMarker \/ Deadline \/ Abort
    <3>1. Upset \/ AsPlanned
      BY <2>10 DEF VerifyMarker, Deadline, Abort
    <3> QED BY <1>1, <1>2, <2>10, <3>1, TroubleType DEF VerifyMarker, Deadline, Abort
  <2> QED
    BY <1>3, <2>1, <2>2, <2>3, <2>4, <2>5, <2>6, <2>7, <2>8, <2>9, <2>10 DEF Harness
<1>4. CASE StartFail \/ EndFail \/ StartCaller
  BY <1>1, <1>2, <1>4 DEF StartFail, EndFail, StartCaller
<1>5. CASE AgentReports \/ AgentStaysSilent
  <2>1. Upset \/ AsPlanned
    BY <1>5 DEF AgentReports, AgentStaysSilent
  <2> QED BY <1>1, <1>2, <1>5, <2>1, TroubleType DEF AgentReports, AgentStaysSilent
<1>6. CASE People
  <2>1. /\ Upset /\ UNCHANGED <<cases, snapshots>>
        /\ TogglesBox \/ ClosesPR \/ Relabels \/ EditsWorkflow
    BY <1>6 DEF People
  <2>2. CASE TogglesBox \/ ClosesPR
    <3>1. pr' \in PrType
      BY <1>1, <2>2 DEF TogglesBox, ClosesPR, PrType
    <3> QED BY <1>1, <1>2, <2>1, <2>2, <3>1, TroubleType DEF TogglesBox, ClosesPR
  <2>3. CASE Relabels
    <3>1. pr' \in PrType
      BY <1>1, <2>3 DEF Relabels, PrType
    <3> QED BY <1>1, <1>2, <2>1, <2>3, <3>1, TroubleType, FiresType DEF Relabels
  <2>4. CASE EditsWorkflow
    <3>1. PICK w \in {"missing", "drifted"} : Push([branch EXCEPT !.workflow = w])
      BY <2>4 DEF EditsWorkflow
    <3>2. [branch EXCEPT !.workflow = w] \in BranchType
      BY <1>1 DEF BranchType
    <3> QED BY <1>1, <1>2, <2>1, <2>4, <3>1, <3>2, PushType, TroubleType DEF EditsWorkflow
  <2> QED BY <2>1, <2>2, <2>3, <2>4
<1>7. CASE UNCHANGED vars
  BY <1>1, <1>2, <1>7 DEF vars
<1> QED BY <1>3, <1>4, <1>5, <1>6, <1>7 DEF Next

(* Comments are of caller runs there are, about their failures, and dated; *)
(* only the clearing at the start of a case removes any.                   *)
LEMMA CommentsStep ==
    ASSUME TypeOK, [Next]_vars
    PROVE  /\ comments' \subseteq Comment
           /\ \A m \in comments' :
                 \/ m \in comments
                 \/ /\ m.caller \in DOMAIN callers
                    /\ m.fail = callers[m.caller].fail
                    /\ m.epoch = snapshots
                    /\ UNCHANGED <<harness, snapshots>>
           /\ ClearComments \/ comments \subseteq comments'
<1>1. /\ comments \subseteq Comment /\ snapshots \in Nat
      /\ callers \in Seq(CallerRun) /\ fails \in Seq(FailRun)
      /\ \A c \in DOMAIN callers : callers[c].fail \in DOMAIN fails
  BY DEF TypeOK
<1>2. CASE AgentReports
  <2>1. PICK c \in DOMAIN callers, r \in Reports :
           /\ comments' = comments \cup
                {[pr |-> fails[callers[c].fail].pr, caller |-> c,
                  fail |-> callers[c].fail, binds |-> r.binds, marked |-> r.marked,
                  epoch |-> snapshots]}
           /\ UNCHANGED <<harness, snapshots>>
    BY <1>2 DEF AgentReports, Counters
  <2> DEFINE new == [pr |-> fails[callers[c].fail].pr, caller |-> c,
                     fail |-> callers[c].fail, binds |-> r.binds,
                     marked |-> r.marked, epoch |-> snapshots]
  <2>2. /\ callers[c] \in CallerRun /\ callers[c].fail \in DOMAIN fails
        /\ fails[callers[c].fail] \in FailRun
    BY <1>1
  <2>3. fails[callers[c].fail].pr \in Nat /\ callers[c].fail \in Nat /\ c \in Nat
    BY <1>1, <2>2 DEF FailRun, CallerRun
  <2>4. r.binds \in BOOLEAN /\ r.marked \in BOOLEAN
    BY DEF Reports
  <2>5. new \in Comment
    BY <1>1, <2>3, <2>4 DEF Comment
  <2>6. new.caller = c /\ new.fail = callers[c].fail /\ new.epoch = snapshots
    OBVIOUS
  <2> HIDE DEF new
  <2>7. comments' = comments \cup {new}
    BY <2>1 DEF new
  <2> QED BY <1>1, <2>1, <2>5, <2>6, <2>7
<1>3. CASE ClearComments
  BY <1>1, <1>3 DEF ClearComments
<1>4. CASE UNCHANGED comments
  BY <1>1, <1>4
<1> QED
  BY <1>2, <1>3, <1>4
  DEF Next, Harness, vars, StartCase, CheckDashboard, ReuseFixture, LabelFixture,
      CreateFixture, ReopenFixture, TakeSnapshot, SeedWorkflow,
      BumpTrigger, FailSeen, VerifyMarker, RouteSeen, CommentSeen, Deadline,
      Abort, StartFail, EndFail, StartCaller, AgentStaysSilent, People, GitHub

-----------------------------------------------------------------------------
(* What the harness knows of the case under way.                           *)
CauseInv ==
    \A m \in comments : m.caller \in DOMAIN callers => m.fail = callers[m.caller].fail
SinceInv ==
    At("seed") \/ At("bump") \/ At("await fail") \/ At("verify") \/ At("await route")
        \/ At("await comment") \/ At("reported") =>
    \A m \in comments : m.caller > harness.knownCallers => m.epoch = snapshots
FailInv ==
    At("verify") \/ At("await route") \/ At("await comment") \/ At("reported") =>
    harness.fail \in DOMAIN fails /\ fails[harness.fail].head = harness.head
RouteInv ==
    At("await comment") \/ At("reported") =>
    /\ harness.route \in DOMAIN callers
    /\ callers[harness.route].fail = harness.fail
    /\ \E m \in comments : /\ m.caller = harness.route
                           /\ m.binds /\ m.fail = harness.fail
                           /\ m.epoch = snapshots
CommentInv ==
    \/ harness.comment = 0
    \/ At("reported") /\ \E m \in comments : /\ m.caller = harness.comment
                                             /\ m.epoch = snapshots

IInv == TypeOK /\ CauseInv /\ SinceInv /\ FailInv /\ RouteInv /\ CommentInv

-----------------------------------------------------------------------------
LEMMA InitIInv == Init => IInv
<1> SUFFICES ASSUME Init PROVE IInv
  OBVIOUS
<1>1. /\ fails = <<>> /\ callers = <<>>
      /\ fails \in Seq(FailRun) /\ callers \in Seq(CallerRun)
      /\ DOMAIN fails = {} /\ DOMAIN callers = {}
  BY DEF Init
<1>2. /\ harness \in Case /\ At("idle") /\ harness.fail = 0 /\ harness.route = 0
      /\ harness.head = 0 /\ harness.comment = 0
  BY DEF Init, Case, Working, Waits, At
<1>3. comments \subseteq Comment /\ \A m \in comments : m.caller = 0 /\ m.epoch = 0
  <2> DEFINE old == [pr |-> 1, caller |-> 0, fail |-> 0,
                     binds |-> TRUE, marked |-> TRUE, epoch |-> 0]
  <2>1. old \in Comment /\ old.caller = 0 /\ old.epoch = 0
    BY DEF Comment
  <2> HIDE DEF old
  <2>2. comments \in {{}, {old}} \/ comments = {}
    BY DEF Init, old
  <2> QED BY <2>1, <2>2
<1>4. /\ pr \in [number : Nat, open : BOOLEAN, labelled : BOOLEAN]
      /\ branch \in [head : Nat, workflow : {"current", "missing", "drifted"},
                     bumped : BOOLEAN]
      /\ branch.head = 1
  <2>1. pr \in [number : Nat, open : BOOLEAN, labelled : BOOLEAN]
    <3>1. PICK o \in BOOLEAN :
             \/ pr = [number |-> 1, open |-> o, labelled |-> TRUE]
             \/ pr = [number |-> 0, open |-> FALSE, labelled |-> FALSE]
      BY DEF Init
    <3>2. [number |-> 1, open |-> o, labelled |-> TRUE]
             \in [number : Nat, open : BOOLEAN, labelled : BOOLEAN]
      OBVIOUS
    <3>3. [number |-> 0, open |-> FALSE, labelled |-> FALSE]
             \in [number : Nat, open : BOOLEAN, labelled : BOOLEAN]
      OBVIOUS
    <3> QED BY <3>1, <3>2, <3>3
  <2>2. PICK b \in BOOLEAN, w \in {"current", "missing"} :
           branch = [head |-> 1, workflow |-> w, bumped |-> b]
    BY DEF Init
  <2> QED BY <2>1, <2>2
<1>5. /\ enabled \in BOOLEAN /\ calm \in BOOLEAN
      /\ events = {} /\ cases = 0 /\ snapshots = 0 /\ upsets = 0
  BY DEF Init
<1>6. TypeOK
  BY <1>1, <1>2, <1>3, <1>4, <1>5 DEF TypeOK
<1>7. CauseInv /\ SinceInv /\ FailInv /\ RouteInv /\ CommentInv
  BY <1>1, <1>2 , <1>3, <1>5 DEF CauseInv, SinceInv, FailInv, RouteInv, CommentInv, At
<1> QED BY <1>6, <1>7 DEF IInv

-----------------------------------------------------------------------------
Steps == Working \cup {"idle", "blocked", "reported", "died"}
Knows(h, k) == /\ k.pr = h.pr /\ k.head = h.head /\ k.fail = h.fail
               /\ k.route = h.route /\ k.comment = h.comment
               /\ k.knownFails = h.knownFails /\ k.knownCallers = h.knownCallers

(* Going to another step changes nothing the harness knows.                *)
LEMMA GotoStep ==
    ASSUME harness \in Case, NEW step \in Steps, Goto(step)
    PROVE  harness' \in Case /\ harness'.at = step /\ Knows(harness, harness')
BY DEF Case, Steps, Goto, Knows

(* What the harness knows stays true while GitHub, agents and people act.  *)
LEMMA OthersStep ==
    ASSUME IInv, [Next]_vars, UNCHANGED <<harness, snapshots>>,
           comments \subseteq comments'
    PROVE  HarnessType' /\ SinceInv' /\ FailInv' /\ RouteInv' /\ CommentInv'
<1>1. /\ harness \in Case /\ branch.head \in Nat /\ harness.head \in Nat
      /\ harness.fail \in DOMAIN fails \cup {0}
      /\ harness.route \in DOMAIN callers \cup {0}
      /\ harness.head <= branch.head
      /\ branch'.head \in Nat
  BY SmallStep DEF IInv, TypeOK, Case, SmallType
<1>2. HarnessType'
  BY <1>1, FailsStep, CallersStep, SmallStep
  DEF IInv, HarnessType, FailsGrow, CallersGrow
<1>3. SinceInv'
  BY CommentsStep DEF IInv, SinceInv, At
<1>4. FailInv'
  BY FailsStep DEF IInv, FailInv, FailsGrow, At
<1>5. RouteInv'
  BY CallersStep DEF IInv, RouteInv, CallersGrow, At
<1>6. CommentInv'
  BY DEF IInv, CommentInv, At
<1> QED BY <1>2, <1>3, <1>4, <1>5, <1>6

(* A tip only moves on.                                                    *)
LEMMA AtMostTransitive ==
    ASSUME NEW a \in Nat, NEW b \in Nat, NEW c \in Nat, a <= b, b <= c
    PROVE  a <= c
OBVIOUS

(* What the harness knows stays true when it goes on to a step that claims *)
(* nothing new.                                                            *)
LEMMA ForwardStep ==
    ASSUME IInv, [Next]_vars, UNCHANGED <<fails, callers, comments, snapshots>>,
           NEW step \in Steps, Goto(step), harness.comment = 0,
           \/ step \in {"fixture", "clear", "blocked", "died"}
           \/ At("seed") /\ step = "bump"
           \/ At("verify") /\ step = "await route"
           \/ At("await comment") /\ step = "reported"
    PROVE  HarnessType' /\ SinceInv' /\ FailInv' /\ RouteInv' /\ CommentInv'
<1>1. /\ harness \in Case /\ branch.head \in Nat /\ branch'.head \in Nat
      /\ harness.fail \in DOMAIN fails \cup {0}
      /\ harness.route \in DOMAIN callers \cup {0}
      /\ harness.head <= branch.head /\ branch.head <= branch'.head
      /\ harness.head \in Nat
  BY SmallStep DEF IInv, TypeOK, Case, SmallType
<1>2. harness' \in Case /\ harness'.at = step /\ Knows(harness, harness')
  BY <1>1, GotoStep
<1>3. HarnessType'
  <2>1. /\ harness'.fail = harness.fail /\ harness'.route = harness.route
        /\ harness'.head = harness.head
    BY <1>2 DEF Knows
  <2>2. harness.head <= branch'.head
    BY <1>1, AtMostTransitive
  <2> QED BY <1>1, <1>2, <2>1, <2>2 DEF HarnessType
<1>4. SinceInv'
  BY <1>2 DEF IInv, SinceInv, At, Knows
<1>5. FailInv'
  BY <1>2 DEF IInv, FailInv, At, Knows
<1>6. RouteInv'
  BY <1>2 DEF IInv, RouteInv, At, Knows
<1>7. CommentInv'
  BY <1>2 DEF CommentInv, Knows
<1> QED BY <1>3, <1>4, <1>5, <1>6, <1>7

(* The steps by which the harness learns something.                        *)
LEMMA LearningStep ==
    ASSUME IInv, [Next]_vars,
           \/ StartCase \/ ReuseFixture \/ LabelFixture \/ CreateFixture
           \/ ReopenFixture \/ ClearComments \/ TakeSnapshot \/ BumpTrigger
           \/ FailSeen \/ RouteSeen \/ CommentSeen
    PROVE  HarnessType' /\ SinceInv' /\ FailInv' /\ RouteInv' /\ CommentInv'
<1>1. /\ harness \in Case /\ branch.head \in Nat /\ branch'.head \in Nat
      /\ harness.fail \in DOMAIN fails \cup {0}
      /\ harness.route \in DOMAIN callers \cup {0}
      /\ harness.head <= branch.head /\ branch.head <= branch'.head
      /\ harness.head \in Nat
      /\ fails \in Seq(FailRun) /\ callers \in Seq(CallerRun)
      /\ Len(fails) \in Nat /\ Len(callers) \in Nat
      /\ DOMAIN fails \subseteq Nat \ {0} /\ DOMAIN callers \subseteq Nat \ {0}
      /\ pr \in PrType /\ snapshots \in Nat
  <2>1. /\ harness \in Case /\ branch.head \in Nat
        /\ harness.fail \in DOMAIN fails \cup {0}
        /\ harness.route \in DOMAIN callers \cup {0}
        /\ harness.head <= branch.head
        /\ fails \in Seq(FailRun) /\ callers \in Seq(CallerRun)
        /\ pr \in PrType /\ snapshots \in Nat
    BY DEF IInv, TypeOK, PrType
  <2>2. branch'.head \in Nat /\ branch.head <= branch'.head
    BY SmallStep DEF IInv, SmallType
  <2>3. harness.head \in Nat
    BY <2>1 DEF Case
  <2>4. Len(fails) \in Nat /\ Len(callers) \in Nat
    BY <2>1
  <2>5. DOMAIN fails \subseteq Nat \ {0} /\ DOMAIN callers \subseteq Nat \ {0}
    BY <2>1
  <2> QED BY <2>1, <2>2, <2>3, <2>4, <2>5
<1>2. CASE StartCase
  <2>1. harness' = NewCase /\ UNCHANGED <<fails, callers, branch>>
    BY <1>2 DEF StartCase, GitHub, Fixture
  <2>2. NewCase \in Case
    BY DEF NewCase, Case, Working, Waits
  <2>3. /\ harness' \in Case /\ harness'.at = "gate" /\ harness'.fail = 0
        /\ harness'.route = 0 /\ harness'.head = 0 /\ harness'.comment = 0
    BY <2>1, <2>2 DEF NewCase
  <2> QED
    BY <1>1, <2>3 DEF HarnessType, SinceInv, FailInv, RouteInv, CommentInv, At
<1>3. CASE ReuseFixture \/ LabelFixture \/ CreateFixture \/ ReopenFixture
  <2>1. PICK p \in PrType : UseFixture(p)
    <3>1. /\ pr \in PrType /\ [pr EXCEPT !.labelled = TRUE] \in PrType
          /\ [pr EXCEPT !.open = TRUE] \in PrType
          /\ [number |-> pr.number + 1, open |-> TRUE, labelled |-> TRUE] \in PrType
      <4>1. pr.number + 1 \in Nat
        BY <1>1 DEF PrType
      <4>2. [number |-> pr.number + 1, open |-> TRUE, labelled |-> TRUE] \in PrType
        BY <4>1 DEF PrType
      <4> QED BY <1>1, <4>2 DEF PrType
    <3> QED BY <1>3, <3>1 DEF ReuseFixture, LabelFixture, CreateFixture, ReopenFixture
  <2>2. harness' = [harness EXCEPT !.at = "clear", !.pr = p.number] /\ p.number \in Nat
    BY <2>1 DEF UseFixture, PrType
  <2>3. /\ harness' \in Case /\ harness'.at = "clear" /\ harness'.fail = harness.fail
        /\ harness'.route = harness.route /\ harness'.head = harness.head
        /\ harness'.comment = harness.comment
    BY <1>1, <2>2 DEF Case, Working, Waits
  <2>4. UNCHANGED <<fails, callers>> /\ harness.comment = 0
    BY <1>3 DEF ReuseFixture, LabelFixture, CreateFixture, ReopenFixture, GitHub,
                IInv, CommentInv, At
  <2> QED
    BY <1>1, <2>3, <2>4 DEF HarnessType, SinceInv, FailInv, RouteInv, CommentInv, At
<1>4. CASE ClearComments
  <2>1. Goto("since") /\ UNCHANGED <<fails, callers, branch>> /\ harness.comment = 0
    BY <1>4 DEF ClearComments, Fixture, IInv, CommentInv, At
  <2>2. harness' \in Case /\ harness'.at = "since" /\ Knows(harness, harness')
    BY <1>1, <2>1, GotoStep DEF Steps, Working
  <2> QED
    BY <1>1, <2>1, <2>2
    DEF Knows, HarnessType, SinceInv, FailInv, RouteInv, CommentInv, At
<1>5. CASE TakeSnapshot
  <2>1. /\ harness' = [harness EXCEPT !.at = "seed", !.knownFails = Len(fails),
                                      !.knownCallers = Len(callers)]
        /\ UNCHANGED <<fails, callers, comments, branch>> /\ harness.comment = 0
    BY <1>5 DEF TakeSnapshot, GitHub, Fixture, IInv, CommentInv, At
  <2>2. /\ harness' \in Case /\ harness'.at = "seed" /\ harness'.fail = harness.fail
        /\ harness'.route = harness.route /\ harness'.head = harness.head
        /\ harness'.comment = harness.comment /\ harness'.knownCallers = Len(callers)
    BY <1>1, <2>1 DEF Case, Working, Waits
  <2>3. \A m \in comments : ~(m.caller > Len(callers))
    <3>1. \A m \in comments : m.caller \in DOMAIN callers \cup {0}
      BY DEF IInv, TypeOK
    <3>2. \A c \in DOMAIN callers \cup {0} : ~(c > Len(callers))
      BY <1>1
    <3> QED BY <3>1, <3>2
  <2> QED
    BY <1>1, <2>1, <2>2, <2>3 DEF HarnessType, SinceInv, FailInv, RouteInv, CommentInv, At
<1>6. CASE BumpTrigger
  <2>1. /\ At("bump") /\ branch'.head \in Nat
        /\ harness' = [harness EXCEPT !.at = "await fail", !.head = branch'.head]
        /\ UNCHANGED <<fails, callers, comments, snapshots>> /\ harness.comment = 0
    BY <1>1, <1>6 DEF BumpTrigger, GitHub, Counters, IInv, CommentInv, At
  <2>2. /\ harness' \in Case /\ harness'.at = "await fail" /\ harness'.fail = harness.fail
        /\ harness'.route = harness.route /\ harness'.head = branch'.head
        /\ harness'.comment = harness.comment
        /\ harness'.knownCallers = harness.knownCallers
    BY <1>1, <2>1 DEF Case, Working, Waits
  <2> QED
    BY <1>1, <2>1, <2>2
    DEF IInv, HarnessType, SinceInv, FailInv, RouteInv, CommentInv, At
<1>7. CASE FailSeen
  <2>1. PICK i \in DOMAIN fails :
           /\ IsOurFailure(i)
           /\ harness' = [harness EXCEPT !.at = "verify", !.fail = i]
    BY <1>7 DEF FailSeen
  <2>2. /\ At("await fail") /\ fails[i].head = harness.head
        /\ UNCHANGED <<fails, callers, comments, branch, snapshots>> /\ harness.comment = 0
    BY <1>7, <2>1 DEF FailSeen, IsOurFailure, GitHub, Fixture, Counters, IInv, CommentInv, At
  <2>3. /\ harness' \in Case /\ harness'.at = "verify" /\ harness'.fail = i
        /\ harness'.route = harness.route /\ harness'.head = harness.head
        /\ harness'.comment = harness.comment
        /\ harness'.knownCallers = harness.knownCallers
    BY <1>1, <2>1 DEF Case, Working, Waits
  <2> QED
    BY <1>1, <2>2, <2>3
    DEF IInv, HarnessType, SinceInv, FailInv, RouteInv, CommentInv, At
<1>8. CASE RouteSeen
  <2>1. PICK c \in DOMAIN callers :
           /\ IsOurRoute(c)
           /\ harness' = [harness EXCEPT !.at = "await comment", !.route = c]
    BY <1>8 DEF RouteSeen
  <2>2. /\ At("await route") /\ c > harness.knownCallers
        /\ UNCHANGED <<fails, callers, comments, branch, snapshots>> /\ harness.comment = 0
    BY <1>8, <2>1 DEF RouteSeen, IsOurRoute, IsCandidate, GitHub, Fixture, Counters,
                      IInv, CommentInv, At
  <2>3. /\ harness' \in Case /\ harness'.at = "await comment" /\ harness'.route = c
        /\ harness'.fail = harness.fail /\ harness'.head = harness.head
        /\ harness'.comment = harness.comment
        /\ harness'.knownCallers = harness.knownCallers
    BY <1>1, <2>1 DEF Case, Working, Waits
  <2>4. PICK m \in comments : m.binds /\ m.caller = c /\ m.fail = harness.fail
    BY <2>1 DEF IsOurRoute, Correlates
  <2>5. callers[c].fail = harness.fail /\ m.epoch = snapshots
    BY <2>2, <2>4 DEF IInv, CauseInv, SinceInv
  <2> QED
    BY <1>1, <2>2, <2>3, <2>4, <2>5
    DEF IInv, HarnessType, SinceInv, FailInv, RouteInv, CommentInv, At
<1>9. CASE CommentSeen
  <2>1. PICK m \in comments :
           /\ IsAnswer(m)
           /\ harness' = [harness EXCEPT !.at = "reported", !.comment = m.caller]
    BY <1>9 DEF CommentSeen
  <2>2. /\ m.caller \in Nat /\ m.epoch \in Nat /\ m.epoch <= snapshots
        /\ m.epoch >= snapshots
    BY <2>1 DEF IInv, TypeOK, Comment, IsAnswer
  <2>3. /\ At("await comment")
        /\ UNCHANGED <<fails, callers, comments, branch, snapshots>>
    BY <1>9 DEF CommentSeen, GitHub, Fixture, Counters
  <2>4. /\ harness' \in Case /\ harness'.at = "reported" /\ harness'.route = harness.route
        /\ harness'.fail = harness.fail /\ harness'.head = harness.head
        /\ harness'.comment = m.caller
        /\ harness'.knownCallers = harness.knownCallers
    BY <1>1, <2>1, <2>2 DEF Case, Working, Waits
  <2>5. m.epoch = snapshots
    BY <1>1, <2>2
  <2> QED
    BY <1>1, <2>3, <2>4, <2>5
    DEF IInv, HarnessType, SinceInv, FailInv, RouteInv, CommentInv, At
<1> QED BY <1>2, <1>3, <1>4, <1>5, <1>6, <1>7, <1>8, <1>9

-----------------------------------------------------------------------------
(* The inductive invariant is kept by every step.                          *)
LEMMA NextIInv ==
    ASSUME IInv, [Next]_vars
    PROVE  IInv'
<1>1. TypeOK
  BY DEF IInv
<1>2. CommentsType'
  <2>1. /\ \A c \in DOMAIN callers : c \in DOMAIN callers'
        /\ snapshots \in Nat /\ snapshots' \in Nat /\ snapshots <= snapshots'
    BY <1>1, CallersStep, SmallStep DEF CallersGrow, TypeOK, SmallType
  <2>2. ASSUME NEW m \in comments'
        PROVE  m.caller \in DOMAIN callers' \cup {0} /\ m.epoch <= snapshots'
    <3>1. m \in Comment
      BY <1>1, CommentsStep
    <3>2. m.epoch \in Nat
      BY <3>1 DEF Comment
    <3>3. m.caller \in DOMAIN callers \cup {0} /\ m.epoch <= snapshots
      BY <1>1, <2>1, CommentsStep DEF TypeOK
    <3> QED BY <2>1, <3>2, <3>3
  <2> QED BY <1>1, <2>2, CommentsStep DEF CommentsType
<1>3. CauseInv'
  <2>1. SUFFICES ASSUME NEW m \in comments', m.caller \in DOMAIN callers'
                 PROVE  m.fail = callers'[m.caller].fail
    BY DEF CauseInv
  <2>2. 0 \notin DOMAIN callers'
    <3>1. callers' \in Seq(CallerRun)
      BY <1>1, CallersStep
    <3> QED BY <3>1
  <2>3. m.caller \in DOMAIN callers
    BY <1>1, <2>1, <2>2, CommentsStep DEF TypeOK
  <2>4. m.fail = callers[m.caller].fail
    BY <1>1, <2>1, <2>3, CommentsStep DEF IInv, CauseInv
  <2> QED BY <1>1, <2>3, <2>4, CallersStep DEF CallersGrow
<1>4. HarnessType' /\ SinceInv' /\ FailInv' /\ RouteInv' /\ CommentInv'
  <2>1. CASE StartFail \/ EndFail \/ StartCaller \/ AgentReports \/ AgentStaysSilent
             \/ People \/ UNCHANGED vars
    <3>1. UNCHANGED <<harness, snapshots>> /\ comments \subseteq comments'
      BY <2>1 DEF StartFail, EndFail, StartCaller, AgentReports, AgentStaysSilent,
                  People, vars, Counters, GitHub
    <3> QED BY <3>1, OthersStep
  <2>2. CASE StartCase \/ ReuseFixture \/ LabelFixture \/ CreateFixture
             \/ ReopenFixture \/ ClearComments \/ TakeSnapshot \/ BumpTrigger
             \/ FailSeen \/ RouteSeen \/ CommentSeen
    BY <2>2, LearningStep
  <2>3. CASE CheckDashboard \/ SeedWorkflow \/ VerifyMarker \/ Deadline \/ Abort
    <3>1. UNCHANGED <<fails, callers, comments, snapshots>>
      BY <2>3 DEF CheckDashboard, SeedWorkflow, VerifyMarker, Deadline, Abort,
                  GitHub, Counters
    <3>2. harness.comment = 0
      BY <2>3 DEF CheckDashboard, SeedWorkflow, VerifyMarker, Deadline, Abort,
                  IInv, CommentInv, At, Working, Waits
    <3>3. \/ Goto("fixture") \/ Goto("blocked") \/ Goto("died")
          \/ At("seed") /\ Goto("bump")
          \/ At("verify") /\ Goto("await route")
          \/ At("await comment") /\ Goto("reported")
      BY <2>3 DEF CheckDashboard, SeedWorkflow, VerifyMarker, Deadline, Abort, Blocked
    <3>4. {"fixture", "blocked", "died", "bump", "await route", "reported"} \subseteq Steps
      BY DEF Steps, Working, Waits
    <3> QED BY <3>1, <3>2, <3>3, <3>4, ForwardStep
  <2> QED BY <2>1, <2>2, <2>3 DEF Next, Harness
<1>5. TypeOK'
  BY <1>1, <1>2, <1>4, FailsStep, CallersStep, SmallStep
  DEF TypeOK, SmallType, CommentsType, HarnessType
<1> QED BY <1>3, <1>4, <1>5 DEF IInv

(* The inductive invariant holds in every reachable state.                 *)
THEOREM E2EInvariance == Spec => []IInv
<1>1. IInv /\ [Next]_vars => IInv'
  BY NextIInv
<1> QED BY InitIInv, <1>1, PTL DEF Spec

(* Type correctness: runs, comments and the case refer to runs that exist. *)
THEOREM E2ETypeCorrect == Spec => []TypeOK
<1>1. IInv => TypeOK
  BY DEF IInv
<1> QED BY <1>1, E2EInvariance, PTL

(* A case that passes has seen the failure of its own push, the caller run *)
(* this failure triggered and an agent's comment on it from this case.     *)
THEOREM OwnFailureAlwaysAnswered == Spec => []OwnFailureAnswered
<1>1. IInv => OwnFailureAnswered
  <2>1. SUFFICES ASSUME IInv, OraclePasses PROVE OwnFailureAnswered
    BY DEF OwnFailureAnswered
  <2>2. At("reported") /\ fails \in Seq(FailRun)
    BY <2>1 DEF OraclePasses, IInv, TypeOK
  <2>3. harness.fail \in DOMAIN fails /\ fails[harness.fail].head = harness.head
    BY <2>1, <2>2 DEF IInv, FailInv
  <2>4. harness.fail > 0
    BY <2>2, <2>3
  <2> QED BY <2>1, <2>2, <2>3, <2>4 DEF IInv, RouteInv, OwnFailureAnswered
<1> QED BY <1>1, E2EInvariance, PTL

(* The comment a passing case reports was made since the case began.       *)
THEOREM ReportedCommentAlwaysFresh == Spec => []ReportedCommentIsFresh
<1>1. IInv => ReportedCommentIsFresh
  <2>1. SUFFICES ASSUME IInv, OraclePasses PROVE ReportedCommentIsFresh
    BY DEF ReportedCommentIsFresh
  <2>2. harness.comment # 0
    BY <2>1 DEF OraclePasses
  <2> QED BY <2>1, <2>2 DEF IInv, CommentInv, ReportedCommentIsFresh
<1> QED BY <1>1, E2EInvariance, PTL

-----------------------------------------------------------------------------
(* A case that nothing disturbs goes from stage to stage: nothing of       *)
(* earlier cases is under way, its push starts the only run there is, which *)
(* fails, calls the agent and is reported.                                 *)
OurFail == harness.knownFails + 1
OurRoute == harness.knownCallers + 1

FailIs(called, state) ==
    /\ Len(fails) = OurFail
    /\ fails[OurFail].pr = pr.number /\ fails[OurFail].head = harness.head
    /\ fails[OurFail].called = called /\ fails[OurFail].state = state
RouteIs(state) ==
    /\ Len(callers) = OurRoute
    /\ callers[OurRoute].fail = OurFail /\ callers[OurRoute].after = OurFail
    /\ callers[OurRoute].state = state
NoRoute == Len(callers) = harness.knownCallers
NoReport == \A m \in comments : m.pr # pr.number
OurReport == [pr |-> pr.number, caller |-> OurRoute, fail |-> OurFail,
              binds |-> TRUE, marked |-> TRUE, epoch |-> snapshots]

Pushed ==
    /\ events = {[pr |-> pr.number, head |-> harness.head, labelled |-> TRUE]}
    /\ Len(fails) = harness.knownFails /\ NoRoute /\ NoReport
Running == events = {} /\ FailIs(FALSE, "running") /\ NoRoute /\ NoReport
Failed == events = {} /\ FailIs(FALSE, "failure") /\ NoRoute /\ NoReport
Called == events = {} /\ FailIs(TRUE, "failure") /\ RouteIs("running") /\ NoReport
Answered ==
    /\ events = {} /\ FailIs(TRUE, "failure") /\ RouteIs("success")
    /\ \A m \in comments : m.pr = pr.number => m.caller = OurRoute
    /\ OurReport \in comments

(* Of the runs before this case none is under way.                         *)
OthersSettled ==
    /\ \A i \in DOMAIN fails : i = OurFail \/ (/\ fails[i].state # "running"
                                               /\ fails[i].state = "failure" => fails[i].called)
    /\ \A c \in DOMAIN callers : c = OurRoute \/ callers[c].state # "running"

Ready == pr.open /\ pr.labelled /\ enabled
WorkflowReady == \/ branch.workflow = "current"
                 \/ branch.workflow = "missing" /\ ~branch.bumped
Snapshot == Len(fails) = harness.knownFails /\ NoRoute

(* What holds before the push, at each step of the harness ...             *)
CalmBefore ==
    /\ At("gate") \/ At("fixture") \/ At("clear") =>
         /\ Settled /\ WorkflowReady
         /\ \A m \in comments : m.pr = pr.number => m.marked
    /\ At("clear") \/ At("since") \/ At("seed") \/ At("bump") =>
         harness.pr = pr.number
    /\ At("since") \/ At("seed") => Settled /\ WorkflowReady /\ NoReport
    /\ At("seed") => Snapshot
    /\ At("bump") => Settled /\ NoReport /\ Snapshot

(* ... and after it.                                                       *)
AfterPush == harness.at \in Waits \cup {"verify"}
CalmAfter ==
    AfterPush =>
    /\ harness.pr = pr.number /\ OthersSettled
    /\ \/ At("await fail") /\ (Pushed \/ Running \/ Failed \/ Called \/ Answered)
       \/ /\ At("verify") \/ At("await route")
          /\ harness.fail = OurFail /\ (Failed \/ Called \/ Answered)
       \/ At("await comment") /\ harness.route = OurRoute /\ Answered

Undisturbed ==
    /\ harness.at \in Working \cup {"reported"}
    /\ At("reported") => harness.route = OurRoute /\ harness.comment = OurRoute
    /\ At("reported") \/ Ready
    /\ CalmBefore /\ CalmAfter

CalmInv == calm => Undisturbed

(* The parts of the type invariant the stages need.                        *)
LEMMA StageTypes ==
    ASSUME TypeOK
    PROVE  /\ fails \in Seq(FailRun) /\ callers \in Seq(CallerRun)
           /\ Len(fails) \in Nat /\ Len(callers) \in Nat
           /\ DOMAIN fails = 1 .. Len(fails) /\ DOMAIN callers = 1 .. Len(callers)
           /\ pr.number \in Nat /\ snapshots \in Nat
           /\ harness.knownFails \in Nat /\ harness.knownCallers \in Nat
           /\ harness.head \in Nat /\ harness.pr \in Nat
           /\ OurFail \in Nat \ {0} /\ OurRoute \in Nat \ {0}
<1>1. fails \in Seq(FailRun) /\ callers \in Seq(CallerRun) /\ snapshots \in Nat
  BY DEF TypeOK
<1>2. /\ pr.number \in Nat /\ harness.knownFails \in Nat /\ harness.knownCallers \in Nat
      /\ harness.head \in Nat /\ harness.pr \in Nat
  BY DEF TypeOK, Case
<1> QED BY <1>1, <1>2 DEF OurFail, OurRoute

(* While nothing is under way GitHub and the agents have nothing to do.    *)
LEMMA SettledRests ==
    ASSUME Settled, StartFail \/ EndFail \/ StartCaller \/ AgentReports \/ AgentStaysSilent
    PROVE  FALSE
<1>1. CASE StartFail
  BY <1>1 DEF StartFail, Settled
<1>2. CASE EndFail \/ StartCaller
  BY <1>2 DEF EndFail, StartCaller, Settled
<1>3. CASE AgentReports \/ AgentStaysSilent
  BY <1>3 DEF AgentReports, AgentStaysSilent, Settled
<1> QED BY <1>1, <1>2, <1>3

Stage == Pushed \/ Running \/ Failed \/ Called \/ Answered
ToNextStage == \/ Pushed /\ Running'
               \/ Running /\ Failed'
               \/ Failed /\ Called'
               \/ Called /\ Answered'

(* The state of our runs tells the stage.                                  *)
LEMMA StageOfRuns ==
    ASSUME TypeOK, Stage
    PROVE  /\ OurFail \in DOMAIN fails /\ fails[OurFail].state = "running" => Running
           /\ /\ OurFail \in DOMAIN fails
              /\ fails[OurFail].state = "failure" /\ ~fails[OurFail].called
              => Failed
           /\ OurRoute \in DOMAIN callers /\ callers[OurRoute].state = "running" => Called
<1>1. /\ Len(fails) \in Nat /\ Len(callers) \in Nat
      /\ DOMAIN fails = 1 .. Len(fails) /\ DOMAIN callers = 1 .. Len(callers)
      /\ harness.knownFails \in Nat /\ harness.knownCallers \in Nat
      /\ OurFail = harness.knownFails + 1 /\ OurRoute = harness.knownCallers + 1
  BY StageTypes DEF OurFail, OurRoute
<1>2. NoRoute => OurRoute \notin DOMAIN callers
  BY <1>1 DEF NoRoute
<1>3. Pushed => OurFail \notin DOMAIN fails /\ NoRoute
  BY <1>1 DEF Pushed
<1>4. Running => fails[OurFail].state = "running" /\ NoRoute
  BY DEF Running, FailIs
<1>5. Failed => fails[OurFail].state = "failure" /\ NoRoute
  BY DEF Failed, FailIs
<1>6. Called => fails[OurFail].state = "failure" /\ fails[OurFail].called
  BY DEF Called, FailIs
<1>7. Answered => /\ fails[OurFail].state = "failure" /\ fails[OurFail].called
                  /\ callers[OurRoute].state = "success"
  BY DEF Answered, FailIs, RouteIs
<1> QED BY <1>2, <1>3, <1>4, <1>5, <1>6, <1>7 DEF Stage

(* What GitHub and the agent do in an undisturbed case takes it on by one  *)
(* stage.                                                                  *)
LEMMA StageStep ==
    ASSUME TypeOK, Ready, OthersSettled, Stage, calm, calm',
           StartFail \/ EndFail \/ StartCaller \/ AgentReports \/ AgentStaysSilent
    PROVE  OthersSettled' /\ ToNextStage
<1>1. /\ fails \in Seq(FailRun) /\ callers \in Seq(CallerRun)
      /\ Len(fails) \in Nat /\ Len(callers) \in Nat
      /\ DOMAIN fails = 1 .. Len(fails) /\ DOMAIN callers = 1 .. Len(callers)
      /\ harness.knownFails \in Nat /\ harness.knownCallers \in Nat
      /\ OurFail = harness.knownFails + 1 /\ OurRoute = harness.knownCallers + 1
  BY StageTypes DEF OurFail, OurRoute
<1>2. /\ OurFail' = OurFail /\ OurRoute' = OurRoute /\ UNCHANGED <<pr, harness, snapshots>>
  BY DEF StartFail, EndFail, StartCaller, AgentReports, AgentStaysSilent, Fixture,
         Counters, OurFail, OurRoute
<1>3. CASE StartFail
  <2>1. PICK e \in events :
          /\ events' = events \ {e}
          /\ fails' = Append([i \in DOMAIN fails |->
                              IF fails[i].state = "running" /\ fails[i].pr = e.pr
                              THEN [fails[i] EXCEPT !.state = "cancelled"]
                              ELSE fails[i]],
                          [pr |-> e.pr, head |-> e.head, called |-> FALSE,
                           state |-> IF e.labelled THEN "running" ELSE "skipped"])
          /\ UNCHANGED <<callers, comments>>
    BY <1>3 DEF StartFail
  <2>2. Pushed
    BY <2>1 DEF Stage, Running, Failed, Called, Answered
  <2>3. /\ Len(fails) = harness.knownFails /\ NoRoute /\ NoReport /\ events' = {}
        /\ e = [pr |-> pr.number, head |-> harness.head, labelled |-> TRUE]
    BY <2>1, <2>2 DEF Pushed
  <2>4. \A i \in DOMAIN fails : fails[i].state # "running"
    BY <1>1, <2>3 DEF OthersSettled
  <2>5. [i \in DOMAIN fails |-> IF fails[i].state = "running" /\ fails[i].pr = e.pr
                                THEN [fails[i] EXCEPT !.state = "cancelled"]
                                ELSE fails[i]] = fails
    <3>1. \A i \in DOMAIN fails : (IF fails[i].state = "running" /\ fails[i].pr = e.pr
                                   THEN [fails[i] EXCEPT !.state = "cancelled"]
                                   ELSE fails[i]) = fails[i]
      BY <2>4
    <3>2. fails = [i \in DOMAIN fails |-> fails[i]]
      BY <1>1
    <3> QED BY <3>1, <3>2
  <2> DEFINE new == [pr |-> pr.number, head |-> harness.head, called |-> FALSE,
                     state |-> "running"]
  <2>6. fails' = Append(fails, new)
    BY <2>1, <2>3, <2>5
  <2> HIDE DEF new
  <2>7. Len(fails') = OurFail /\ fails'[OurFail] = new /\ DOMAIN fails' = 1 .. OurFail
        /\ \A i \in DOMAIN fails : fails'[i] = fails[i]
    BY <1>1, <2>3, <2>6
  <2>8. Running'
    BY <1>2, <2>1, <2>3, <2>7 DEF Running, FailIs, NoRoute, NoReport, new
  <2>9. OthersSettled'
    BY <1>1, <1>2, <2>1, <2>3, <2>7 DEF OthersSettled
  <2>10. ToNextStage
    BY <2>2, <2>8 DEF ToNextStage
  <2> QED BY <2>9, <2>10
<1>4. CASE EndFail
  <2>1. PICK i \in DOMAIN fails :
          /\ fails[i].state = "running"
          /\ fails' = [fails EXCEPT ![i].state = "failure"]
          /\ UNCHANGED <<Fixture, callers, comments, harness, Counters, Trouble>>
    BY <1>4, Zenon DEF EndFail
  <2>11. UNCHANGED <<events, callers, comments>>
    BY <2>1 DEF Fixture
  <2>2. i = OurFail
    BY <2>1 DEF OthersSettled
  <2>3. Running
    BY <2>1, <2>2, StageOfRuns
  <2>4. Len(fails) = OurFail /\ fails[OurFail] \in FailRun
    BY <1>1, <2>1, <2>2, <2>3 DEF Running, FailIs
  <2> DEFINE new == [fails[OurFail] EXCEPT !.state = "failure"]
  <2>5. /\ new \in FailRun /\ new.pr = fails[OurFail].pr /\ new.head = fails[OurFail].head
        /\ new.called = fails[OurFail].called /\ new.state = "failure"
    BY <2>4 DEF FailRun
  <2>9. fails' = [fails EXCEPT ![OurFail] = new]
    BY <2>1, <2>2
  <2> HIDE DEF new
  <2>10. /\ Len(fails') = OurFail /\ DOMAIN fails' = DOMAIN fails
         /\ \A k \in DOMAIN fails : k # OurFail => fails'[k] = fails[k]
         /\ fails'[OurFail] = new
    BY <1>1, <2>1, <2>2, <2>4, <2>5, <2>9
  <2>6. Failed'
    BY <1>2, <2>3, <2>5, <2>10, <2>11 DEF Running, Failed, FailIs, NoRoute, NoReport
  <2>7. OthersSettled'
    BY <1>2, <2>1, <2>10, <2>11 DEF OthersSettled
  <2>8. ToNextStage
    BY <2>3, <2>6 DEF ToNextStage
  <2> QED BY <2>7, <2>8
<1>5. CASE StartCaller
  <2>1. PICK i \in DOMAIN fails :
          /\ fails[i].state = "failure" /\ ~fails[i].called
          /\ fails' = [fails EXCEPT ![i].called = TRUE]
          /\ callers' = Append(callers,
                [fail |-> i, after |-> Len(fails),
                 state |-> IF pr.open /\ pr.number = fails[i].pr /\ enabled
                           THEN "running" ELSE "skipped"])
          /\ UNCHANGED <<Fixture, comments, harness, Counters, Trouble>>
    BY <1>5, Zenon DEF StartCaller
  <2>14. UNCHANGED <<events, comments>>
    BY <2>1 DEF Fixture
  <2>2. i = OurFail
    BY <2>1 DEF OthersSettled
  <2>3. Failed
    BY <2>1, <2>2, StageOfRuns
  <2>4. /\ Len(fails) = OurFail /\ fails[OurFail] \in FailRun
        /\ fails[OurFail].pr = pr.number
    BY <1>1, <2>1, <2>2, <2>3 DEF Failed, FailIs
  <2> DEFINE old == [fails[OurFail] EXCEPT !.called = TRUE]
  <2>5. /\ old \in FailRun /\ old.pr = fails[OurFail].pr /\ old.head = fails[OurFail].head
        /\ old.called = TRUE /\ old.state = fails[OurFail].state
    BY <2>4 DEF FailRun
  <2>12. fails' = [fails EXCEPT ![OurFail] = old]
    BY <2>1, <2>2
  <2> HIDE DEF old
  <2>13. /\ Len(fails') = OurFail /\ DOMAIN fails' = DOMAIN fails
         /\ \A k \in DOMAIN fails : k # OurFail => fails'[k] = fails[k]
         /\ fails'[OurFail] = old
    BY <1>1, <2>1, <2>2, <2>4, <2>5, <2>12
  <2> DEFINE new == [fail |-> OurFail, after |-> OurFail, state |-> "running"]
  <2>6. callers' = Append(callers, new)
    BY <2>1, <2>2, <2>4 DEF Ready
  <2> HIDE DEF new
  <2>7. Len(callers) = harness.knownCallers
    BY <2>3 DEF Failed, NoRoute
  <2>8. /\ Len(callers') = OurRoute /\ callers'[OurRoute] = new
        /\ DOMAIN callers' = 1 .. OurRoute
        /\ \A c \in DOMAIN callers : callers'[c] = callers[c]
    BY <1>1, <2>6, <2>7
  <2>9. Called'
    BY <1>2, <2>3, <2>4, <2>5, <2>8, <2>13, <2>14
    DEF Failed, Called, FailIs, RouteIs, NoReport, new
  <2>10. OthersSettled'
    <3>1. \A c \in DOMAIN callers' : c = OurRoute \/ c \in DOMAIN callers
      BY <1>1, <2>7, <2>8
    <3> QED BY <1>2, <2>8, <2>13, <3>1 DEF OthersSettled
  <2>11. ToNextStage
    BY <2>3, <2>9, ZenonT(30) DEF ToNextStage
  <2> QED BY <2>10, <2>11
<1>6. CASE AgentReports
  <2>1. PICK c \in DOMAIN callers, r \in Reports :
          /\ callers[c].state = "running"
          /\ IF r = AsTold THEN AsPlanned ELSE Upset
          /\ callers' = [callers EXCEPT ![c].state = r.state]
          /\ comments' = comments \cup
                {[pr |-> fails[callers[c].fail].pr, caller |-> c,
                  fail |-> callers[c].fail, binds |-> r.binds, marked |-> r.marked,
                  epoch |-> snapshots]}
          /\ UNCHANGED <<events, fails>>
    BY <1>6 DEF AgentReports, Fixture
  <2>2. r = [binds |-> TRUE, marked |-> TRUE, state |-> "success"]
    BY <2>1 DEF Upset, AsTold
  <2>3. c = OurRoute
    BY <2>1 DEF OthersSettled
  <2>4. Called
    BY <2>1, <2>3, StageOfRuns
  <2>5. callers[c].fail = OurFail /\ fails[OurFail].pr = pr.number
    BY <2>3, <2>4 DEF Called, RouteIs, FailIs
  <2>6. comments' = comments \cup {OurReport}
    BY <2>1, <2>2, <2>3, <2>5 DEF OurReport
  <2>7. /\ Len(callers') = OurRoute /\ DOMAIN callers' = DOMAIN callers
        /\ OurRoute \in DOMAIN callers /\ callers[OurRoute] \in CallerRun
        /\ callers'[OurRoute] = [callers[OurRoute] EXCEPT !.state = "success"]
        /\ \A d \in DOMAIN callers : d # OurRoute => callers'[d] = callers[d]
    BY <1>1, <2>1, <2>2, <2>3, <2>4 DEF Called, RouteIs
  <2>12. /\ callers'[OurRoute].fail = callers[OurRoute].fail
         /\ callers'[OurRoute].after = callers[OurRoute].after
         /\ callers'[OurRoute].state = "success"
    BY <2>7 DEF CallerRun
  <2>8. OurReport' = OurReport /\ OurReport.caller = OurRoute
    BY <1>2 DEF OurReport
  <2>9. Answered'
    <3>1. \A m \in comments' : m.pr = pr.number => m.caller = OurRoute
      BY <2>4, <2>6, <2>8 DEF Called, NoReport
    <3> QED BY <1>2, <2>1, <2>4, <2>6, <2>7, <2>8, <2>12, <3>1
      DEF Called, Answered, FailIs, RouteIs
  <2>10. OthersSettled'
    BY <1>2, <2>1, <2>7 DEF OthersSettled
  <2>11. ToNextStage
    BY <2>4, <2>9, ZenonT(30) DEF ToNextStage
  <2> QED BY <2>10, <2>11
<1>7. CASE AgentStaysSilent
  <2>1. PICK c \in DOMAIN callers : /\ callers[c].state = "running"
                                    /\ IF PostedBefore(c) THEN AsPlanned ELSE Upset
    BY <1>7 DEF AgentStaysSilent
  <2>2. PostedBefore(c)
    BY <2>1 DEF Upset
  <2>3. c = OurRoute
    BY <2>1 DEF OthersSettled
  <2>4. Called
    BY <2>1, <2>3, StageOfRuns
  <2>5. fails[callers[c].fail].pr = pr.number
    BY <2>3, <2>4 DEF Called, RouteIs, FailIs
  <2>6. FALSE
    BY <2>2, <2>4, <2>5 DEF PostedBefore, Called, NoReport
  <2> QED BY <2>6
<1> QED BY <1>3, <1>4, <1>5, <1>6, <1>7

(* The steps of the harness before its push.                               *)
LEMMA CalmPrepares ==
    ASSUME TypeOK, Undisturbed, calm, calm',
           \/ CheckDashboard \/ ReuseFixture \/ LabelFixture \/ CreateFixture
           \/ ClearComments \/ TakeSnapshot \/ SeedWorkflow \/ BumpTrigger
    PROVE  Undisturbed'
<1>1. /\ harness \in Case /\ Len(fails) \in Nat /\ Len(callers) \in Nat
      /\ branch \in [head : Nat, workflow : {"current", "missing", "drifted"},
                     bumped : BOOLEAN]
      /\ pr \in [number : Nat, open : BOOLEAN, labelled : BOOLEAN]
  BY StageTypes DEF TypeOK
<1>2. CASE CheckDashboard
  <2>1. /\ At("gate") /\ Ready /\ harness' = [harness EXCEPT !.at = "fixture"]
        /\ UNCHANGED <<pr, branch, enabled, events, fails, callers, comments>>
    BY <1>2 DEF CheckDashboard, Undisturbed, Ready, At, Goto, Blocked, Fixture, GitHub
  <2>2. harness'.at = "fixture"
    BY <1>1, <2>1 DEF Case
  <2> QED BY <2>1, <2>2
    DEF Undisturbed, CalmBefore, CalmAfter, AfterPush, At, Waits, Working, Ready,
        Settled, WorkflowReady
<1>3. CASE LabelFixture \/ CreateFixture
  BY <1>3 DEF LabelFixture, CreateFixture, Undisturbed, Ready, At
<1>4. CASE ReuseFixture
  <2>1. /\ At("fixture") /\ harness' = [harness EXCEPT !.at = "clear", !.pr = pr.number]
        /\ UNCHANGED <<pr, branch, enabled, events, fails, callers, comments>>
    BY <1>4 DEF ReuseFixture, UseFixture, GitHub
  <2>2. harness'.at = "clear" /\ harness'.pr = pr.number
    BY <1>1, <2>1 DEF Case
  <2> QED BY <2>1, <2>2
    DEF Undisturbed, CalmBefore, CalmAfter, AfterPush, At, Waits, Working, Ready,
        Settled, WorkflowReady
<1>5. CASE ClearComments
  <2>1. /\ At("clear") /\ harness' = [harness EXCEPT !.at = "since"]
        /\ comments' = {c \in comments : ~(c.pr = harness.pr /\ c.marked)}
        /\ UNCHANGED <<pr, branch, enabled, events, fails, callers>>
    BY <1>5 DEF ClearComments, Goto, Fixture
  <2>2. harness'.at = "since" /\ harness'.pr = harness.pr
    BY <1>1, <2>1 DEF Case
  <2>3. NoReport'
    BY <2>1 DEF Undisturbed, CalmBefore, At, NoReport
  <2> QED BY <2>1, <2>2, <2>3
    DEF Undisturbed, CalmBefore, CalmAfter, AfterPush, At, Waits, Working, Ready,
        Settled, WorkflowReady
<1>6. CASE TakeSnapshot
  <2>1. /\ At("since")
        /\ harness' = [harness EXCEPT !.at = "seed", !.knownFails = Len(fails),
                                      !.knownCallers = Len(callers)]
        /\ UNCHANGED <<pr, branch, enabled, events, fails, callers, comments>>
    BY <1>6 DEF TakeSnapshot, Fixture, GitHub
  <2>2. /\ harness'.at = "seed" /\ harness'.pr = harness.pr
        /\ harness'.knownFails = Len(fails) /\ harness'.knownCallers = Len(callers)
    BY <1>1, <2>1 DEF Case
  <2> QED BY <2>1, <2>2
    DEF Undisturbed, CalmBefore, CalmAfter, AfterPush, At, Waits, Working, Ready,
        Settled, WorkflowReady, NoReport, Snapshot, NoRoute
<1>7. CASE SeedWorkflow
  <2>1. /\ At("seed") /\ WorkflowReady /\ Ready /\ Settled /\ NoReport /\ Snapshot
        /\ harness.pr = pr.number
    BY <1>7 DEF SeedWorkflow, Undisturbed, CalmBefore, At
  <2>2. UNCHANGED <<pr, enabled, fails, callers, comments>> /\ Goto("bump")
    BY <1>7, <2>1 DEF SeedWorkflow, GitHub, WorkflowReady
  <2>3. /\ harness'.at = "bump" /\ harness'.pr = harness.pr
        /\ harness'.knownFails = harness.knownFails
        /\ harness'.knownCallers = harness.knownCallers
    BY <1>1, <2>2 DEF Case, Goto
  <2>4. events' = events
    <3>1. CASE branch.workflow = "current"
      BY <1>7, <3>1 DEF SeedWorkflow
    <3>2. CASE branch.workflow = "missing"
      <4>1. Push([branch EXCEPT !.workflow = "current"])
        BY <1>7, <3>2 DEF SeedWorkflow
      <4>2. branch'.bumped = branch.bumped
        BY <1>1, <4>1 DEF Push
      <4> QED BY <2>1, <3>2, <4>1, <4>2 DEF Push, Fires, WorkflowReady
    <3> QED BY <2>1, <3>1, <3>2 DEF WorkflowReady
  <2> QED BY <2>1, <2>2, <2>3, <2>4
    DEF Undisturbed, CalmBefore, CalmAfter, AfterPush, At, Waits, Working, Ready,
        Settled, NoReport, Snapshot, NoRoute
<1>8. CASE BumpTrigger
  <2>1. /\ At("bump") /\ Ready /\ Settled /\ NoReport /\ Snapshot /\ harness.pr = pr.number
    BY <1>8 DEF BumpTrigger, Undisturbed, CalmBefore, At
  <2>2. /\ Push([branch EXCEPT !.bumped = TRUE])
        /\ harness' = [harness EXCEPT !.at = "await fail", !.head = branch'.head]
        /\ UNCHANGED <<pr, enabled, fails, callers, comments>>
    BY <1>8 DEF BumpTrigger, GitHub
  <2>3. branch'.bumped = TRUE /\ branch'.head \in Nat
    BY <1>1, <2>2 DEF Push
  <2>4. /\ harness'.at = "await fail" /\ harness'.pr = harness.pr
        /\ harness'.head = branch'.head
        /\ harness'.knownFails = harness.knownFails
        /\ harness'.knownCallers = harness.knownCallers
    BY <1>1, <2>2 DEF Case
  <2>5. events' = {[pr |-> pr.number, head |-> branch'.head, labelled |-> TRUE]}
    BY <2>1, <2>2, <2>3, <1>1 DEF Push, Fires, Ready, Settled
  <2>6. Pushed'
    BY <2>1, <2>2, <2>4, <2>5 DEF Pushed, Snapshot, NoRoute, NoReport
  <2>7. OthersSettled'
    BY <2>1, <2>2 DEF OthersSettled, Settled
  <2> QED BY <2>1, <2>2, <2>4, <2>6, <2>7
    DEF Undisturbed, CalmBefore, CalmAfter, AfterPush, At, Waits, Working, Ready
<1> QED BY <1>2, <1>3, <1>4, <1>5, <1>6, <1>7, <1>8

(* An answered failure is what each wait of the harness waits for.         *)
LEMMA AnswerIsSeen ==
    ASSUME TypeOK, harness.pr = pr.number, Answered
    PROVE  /\ OurFail \in DOMAIN fails /\ IsOurFailure(OurFail)
           /\ OurRoute \in DOMAIN callers
           /\ harness.fail = OurFail => IsOurRoute(OurRoute)
           /\ OurReport \in comments /\ IsAnswer(OurReport)
<1>1. /\ Len(fails) \in Nat /\ Len(callers) \in Nat /\ snapshots \in Nat
      /\ DOMAIN fails = 1 .. Len(fails) /\ DOMAIN callers = 1 .. Len(callers)
      /\ harness.knownFails \in Nat /\ harness.knownCallers \in Nat
      /\ OurFail = harness.knownFails + 1 /\ OurRoute = harness.knownCallers + 1
  BY StageTypes DEF OurFail, OurRoute
<1>2. OurFail \in DOMAIN fails /\ OurRoute \in DOMAIN callers
  BY <1>1 DEF Answered, FailIs, RouteIs
<1>3. IsOurFailure(OurFail)
  BY <1>1 DEF Answered, FailIs, IsOurFailure
<1>4. /\ OurReport \in comments /\ OurReport.pr = harness.pr
      /\ OurReport.binds /\ OurReport.marked /\ OurReport.caller = OurRoute
      /\ OurReport.fail = OurFail /\ OurReport.epoch = snapshots
  BY DEF Answered, OurReport
<1>5. IsAnswer(OurReport)
  BY <1>1, <1>4 DEF IsAnswer
<1>6. harness.fail = OurFail => IsOurRoute(OurRoute)
  BY <1>1, <1>4 DEF Answered, RouteIs, IsOurRoute, IsCandidate, Correlates
<1> QED BY <1>2, <1>3, <1>4, <1>5, <1>6

(* Once all is settled the failure is answered.                            *)
LEMMA SettledIsAnswered ==
    ASSUME TypeOK, Stage, Settled
    PROVE  Answered
<1>1. /\ Len(fails) \in Nat /\ Len(callers) \in Nat
      /\ DOMAIN fails = 1 .. Len(fails) /\ DOMAIN callers = 1 .. Len(callers)
      /\ OurFail \in Nat \ {0} /\ OurRoute \in Nat \ {0}
  BY StageTypes
<1>2. ~Pushed
  BY DEF Pushed, Settled
<1>3. ~Running /\ ~Failed
  <2>1. Len(fails) = OurFail => OurFail \in DOMAIN fails
    BY <1>1
  <2> QED BY <2>1 DEF Running, Failed, FailIs, Settled
<1>4. ~Called
  <2>1. Len(callers) = OurRoute => OurRoute \in DOMAIN callers
    BY <1>1
  <2> QED BY <2>1 DEF Called, RouteIs, Settled
<1> QED BY <1>2, <1>3, <1>4 DEF Stage

(* A step of the harness alone leaves the stage.                           *)
LEMMA StagesKept ==
    ASSUME UNCHANGED <<pr, events, fails, callers, comments, snapshots>>,
           harness'.head = harness.head,
           harness'.knownFails = harness.knownFails,
           harness'.knownCallers = harness.knownCallers
    PROVE  /\ OurFail' = OurFail /\ OurRoute' = OurRoute
           /\ Failed => Failed'
           /\ Called => Called'
           /\ Answered => Answered'
           /\ OthersSettled => OthersSettled'
<1>1. OurFail' = OurFail /\ OurRoute' = OurRoute
  BY DEF OurFail, OurRoute
<1>2. OurReport' = OurReport
  BY <1>1 DEF OurReport
<1>3. Failed => Failed'
  BY <1>1 DEF Failed, FailIs, NoRoute, NoReport
<1>4. Called => Called'
  BY <1>1 DEF Called, FailIs, RouteIs, NoReport
<1>5. Answered => Answered'
  BY <1>1, <1>2 DEF Answered, FailIs, RouteIs
<1>6. OthersSettled => OthersSettled'
  BY <1>1 DEF OthersSettled
<1> QED BY <1>1, <1>3, <1>4, <1>5, <1>6

(* The waits of the harness end with what they wait for.                   *)
LEMMA CalmWaits ==
    ASSUME TypeOK, Undisturbed, calm, calm',
           FailSeen \/ VerifyMarker \/ RouteSeen \/ CommentSeen \/ Deadline
    PROVE  Undisturbed'
<1>1. /\ harness \in Case /\ Len(fails) \in Nat /\ Len(callers) \in Nat
      /\ DOMAIN fails = 1 .. Len(fails) /\ DOMAIN callers = 1 .. Len(callers)
      /\ OurFail = harness.knownFails + 1 /\ OurRoute = harness.knownCallers + 1
      /\ harness.knownFails \in Nat /\ harness.knownCallers \in Nat
  BY StageTypes DEF TypeOK, OurFail, OurRoute
<1>2. /\ UNCHANGED <<pr, branch, enabled, events, fails, callers, comments, snapshots>>
      /\ harness.at \in Waits \cup {"verify"}
  BY DEF FailSeen, VerifyMarker, RouteSeen, CommentSeen, Deadline, Fixture, GitHub,
         Counters, At, Waits
<1>3. /\ harness.pr = pr.number /\ OthersSettled /\ Ready /\ Stage
      /\ At("verify") \/ At("await route") =>
           harness.fail = OurFail /\ (Failed \/ Called \/ Answered)
      /\ At("await comment") => harness.route = OurRoute /\ Answered
  BY <1>2 DEF Undisturbed, CalmAfter, AfterPush, At, Stage, Waits
<1>4. Ready'
  BY <1>2, <1>3 DEF Ready
<1>5. CASE FailSeen
  <2>1. PICK i \in DOMAIN fails :
           /\ IsOurFailure(i)
           /\ harness' = [harness EXCEPT !.at = "verify", !.fail = i]
    BY <1>5 DEF FailSeen
  <2>7. i \in 1 .. Len(fails) /\ i > harness.knownFails
    BY <1>1, <2>1 DEF IsOurFailure
  <2>8. Len(fails) # harness.knownFails
    BY <1>1, <2>7
  <2>2. ~Pushed /\ Len(fails) = OurFail
    BY <1>3, <2>8 DEF Stage, Pushed, Running, Failed, Called, Answered, FailIs
  <2>3. i = OurFail
    BY <1>1, <2>2, <2>7
  <2>4. ~Running
    BY <2>1, <2>3 DEF Running, FailIs, IsOurFailure
  <2>5. /\ harness'.at = "verify" /\ harness'.fail = OurFail /\ harness'.pr = harness.pr
        /\ harness'.head = harness.head /\ harness'.knownFails = harness.knownFails
        /\ harness'.knownCallers = harness.knownCallers
    BY <1>1, <2>1, <2>3 DEF Case
  <2>6. /\ OthersSettled' /\ OurFail' = OurFail
        /\ Failed' \/ Called' \/ Answered'
    BY <1>2, <1>3, <2>2, <2>4, <2>5, StagesKept DEF Stage
  <2> QED BY <1>2, <1>3, <1>4, <2>5, <2>6
    DEF Undisturbed, CalmBefore, CalmAfter, AfterPush, At, Waits, Working
<1>6. CASE VerifyMarker
  <2>1. At("verify") /\ harness' = [harness EXCEPT !.at = "await route"]
    BY <1>6 DEF VerifyMarker, Upset, Goto
  <2>2. /\ harness'.at = "await route" /\ harness'.fail = harness.fail
        /\ harness'.pr = harness.pr
        /\ harness'.head = harness.head /\ harness'.knownFails = harness.knownFails
        /\ harness'.knownCallers = harness.knownCallers
    BY <1>1, <2>1 DEF Case
  <2>3. /\ OthersSettled' /\ OurFail' = OurFail
        /\ Failed' \/ Called' \/ Answered'
    BY <1>2, <1>3, <2>1, <2>2, StagesKept
  <2> QED BY <1>2, <1>3, <1>4, <2>1, <2>2, <2>3
    DEF Undisturbed, CalmBefore, CalmAfter, AfterPush, At, Waits, Working
<1>7. CASE RouteSeen
  <2>1. PICK c \in DOMAIN callers :
           /\ IsOurRoute(c)
           /\ harness' = [harness EXCEPT !.at = "await comment", !.route = c]
    BY <1>7 DEF RouteSeen
  <2>2. At("await route") /\ (Failed \/ Called \/ Answered)
    BY <1>3, <1>7 DEF RouteSeen
  <2>8. c \in 1 .. Len(callers) /\ c > harness.knownCallers
    BY <1>1, <2>1 DEF IsOurRoute, IsCandidate
  <2>9. Len(callers) # harness.knownCallers
    BY <1>1, <2>8
  <2>3. ~Failed /\ Len(callers) = OurRoute
    BY <2>2, <2>9 DEF Failed, NoRoute, Called, Answered, RouteIs
  <2>4. c = OurRoute
    BY <1>1, <2>3, <2>8
  <2>5. Answered
    BY <2>1, <2>2, <2>3, <2>4 DEF Called, RouteIs, IsOurRoute, IsCandidate
  <2>6. /\ harness'.at = "await comment" /\ harness'.route = OurRoute
        /\ harness'.pr = harness.pr
        /\ harness'.head = harness.head /\ harness'.knownFails = harness.knownFails
        /\ harness'.knownCallers = harness.knownCallers
    BY <1>1, <2>1, <2>4 DEF Case
  <2>7. OthersSettled' /\ OurRoute' = OurRoute /\ Answered'
    BY <1>2, <1>3, <2>5, <2>6, StagesKept
  <2> QED BY <1>2, <1>3, <1>4, <2>6, <2>7
    DEF Undisturbed, CalmBefore, CalmAfter, AfterPush, At, Waits, Working
<1>8. CASE CommentSeen
  <2>1. PICK m \in comments :
           /\ IsAnswer(m)
           /\ harness' = [harness EXCEPT !.at = "reported", !.comment = m.caller]
    BY <1>8 DEF CommentSeen
  <2>2. harness.route = OurRoute /\ m.caller = OurRoute
    BY <1>3, <1>8, <2>1 DEF CommentSeen, IsAnswer, Answered
  <2>3. /\ harness'.at = "reported" /\ harness'.route = OurRoute
        /\ harness'.comment = OurRoute
        /\ harness'.knownCallers = harness.knownCallers
    BY <1>1, <2>1, <2>2 DEF Case
  <2> QED BY <2>3
    DEF Undisturbed, CalmBefore, CalmAfter, AfterPush, At, Waits, Working, OurRoute
<1>9. CASE Deadline
  <2>1. Settled /\ NothingToSee /\ harness.at \in Waits
    BY <1>9 DEF Deadline, Upset
  <2>2. Answered
    BY <1>3, <2>1, SettledIsAnswered
  <2>3. /\ OurFail \in DOMAIN fails /\ IsOurFailure(OurFail)
        /\ OurRoute \in DOMAIN callers
        /\ harness.fail = OurFail => IsOurRoute(OurRoute)
        /\ OurReport \in comments /\ IsAnswer(OurReport)
    BY <1>3, <2>2, AnswerIsSeen
  <2>4. CASE At("await fail")
    BY <2>1, <2>3, <2>4 DEF NothingToSee, At
  <2>5. CASE At("await route")
    BY <1>3, <2>1, <2>3, <2>5 DEF NothingToSee, At
  <2>6. CASE At("await comment")
    BY <2>1, <2>3, <2>6 DEF NothingToSee, At
  <2> QED BY <2>1, <2>4, <2>5, <2>6 DEF Waits, At
<1> QED BY <1>5, <1>6, <1>7, <1>8, <1>9

(* No two stages at once, as far as the waits tell them apart.             *)
LEMMA StagesExclusive ==
    /\ ~(Pushed /\ (Failed \/ Called \/ Answered))
    /\ ~(Running /\ (Failed \/ Called \/ Answered))
    /\ ~(Failed /\ Answered) /\ ~(Called /\ Answered)
BY DEF Pushed, Running, Failed, Called, Answered, FailIs, RouteIs

(* GitHub and the agents, while a case runs undisturbed.                   *)
LEMMA CalmGitHub ==
    ASSUME TypeOK, Undisturbed, calm, calm',
           StartFail \/ EndFail \/ StartCaller \/ AgentReports \/ AgentStaysSilent
    PROVE  Undisturbed'
<1>1. UNCHANGED <<pr, enabled, harness>>
  BY DEF StartFail, EndFail, StartCaller, AgentReports, AgentStaysSilent, Fixture
<1>2. CASE At("reported")
  BY <1>1, <1>2
  DEF Undisturbed, CalmBefore, CalmAfter, AfterPush, At, Waits, OurRoute
<1>3. CASE AfterPush
  <2>1. /\ Ready /\ OthersSettled /\ Stage /\ harness.pr = pr.number
        /\ harness.at \in Waits \cup {"verify"}
        /\ At("verify") \/ At("await route") =>
             harness.fail = OurFail /\ (Failed \/ Called \/ Answered)
        /\ At("await comment") => harness.route = OurRoute /\ Answered
    BY <1>3 DEF Undisturbed, CalmAfter, AfterPush, At, Stage, Waits
  <2>2. OthersSettled' /\ ToNextStage
    BY <2>1, StageStep
  <2>3. OurFail' = OurFail /\ OurRoute' = OurRoute /\ Ready'
    BY <1>1, <2>1 DEF OurFail, OurRoute, Ready
  <2>4. ~At("await comment")
    BY <2>1, <2>2, StagesExclusive DEF ToNextStage
  <2>5. At("verify") \/ At("await route") => Called' \/ Answered'
    BY <2>1, <2>2, StagesExclusive DEF ToNextStage
  <2>6. Running' \/ Failed' \/ Called' \/ Answered'
    BY <2>2 DEF ToNextStage
  <2> QED BY <1>1, <2>1, <2>2, <2>3, <2>4, <2>5, <2>6
    DEF Undisturbed, CalmBefore, CalmAfter, AfterPush, At, Waits, Working
<1>4. CASE ~At("reported") /\ ~AfterPush
  <2>1. Settled
    BY <1>4 DEF Undisturbed, CalmBefore, AfterPush, At, Working
  <2> QED BY <2>1, SettledRests
<1> QED BY <1>2, <1>3, <1>4

(* Every step of an undisturbed case.                                      *)
LEMMA CalmStep ==
    ASSUME TypeOK, CalmInv, [Next]_vars
    PROVE  CalmInv'
<1>1. SUFFICES ASSUME calm' PROVE Undisturbed'
  BY DEF CalmInv
<1>2. CASE StartCase
  <2>1. /\ InOrder /\ harness' = NewCase
        /\ UNCHANGED <<pr, branch, enabled, events, fails, callers, comments>>
    BY <1>1, <1>2 DEF StartCase, Fixture, GitHub
  <2>2. harness'.at = "gate"
    BY <2>1 DEF NewCase
  <2> QED BY <2>1, <2>2
    DEF Undisturbed, CalmBefore, CalmAfter, AfterPush, At, Waits, Working, Ready,
        InOrder, Settled, WorkflowReady
<1>3. CASE People \/ Abort \/ ReopenFixture
  BY <1>1, <1>3 DEF People, Abort, ReopenFixture, Upset
<1>4. CASE UNCHANGED vars
  <2>1. calm /\ Undisturbed
    BY <1>1, <1>4 DEF CalmInv, vars
  <2> QED BY <1>4, <2>1
    DEF vars, Undisturbed, CalmBefore, CalmAfter, AfterPush, At, Ready, Settled,
        WorkflowReady, NoReport, NoRoute, Snapshot, OurFail, OurRoute, OurReport,
        OthersSettled, Pushed, Running, Failed, Called, Answered, FailIs, RouteIs
<1>5. CASE \/ CheckDashboard \/ ReuseFixture \/ LabelFixture \/ CreateFixture
           \/ ClearComments \/ TakeSnapshot \/ SeedWorkflow \/ BumpTrigger
  <2>1. calm
    BY <1>1, <1>5 DEF CheckDashboard, ReuseFixture, LabelFixture, CreateFixture,
       ClearComments, TakeSnapshot, SeedWorkflow, BumpTrigger, Trouble
  <2> QED BY <1>1, <1>5, <2>1, CalmPrepares DEF CalmInv
<1>6. CASE FailSeen \/ VerifyMarker \/ RouteSeen \/ CommentSeen \/ Deadline
  <2>1. calm
    BY <1>1, <1>6 DEF FailSeen, VerifyMarker, RouteSeen, CommentSeen, Deadline,
       Trouble, AsPlanned, Upset
  <2> QED BY <1>1, <1>6, <2>1, CalmWaits DEF CalmInv
<1>7. CASE StartFail \/ EndFail \/ StartCaller \/ AgentReports \/ AgentStaysSilent
  <2>1. calm
    BY <1>1, <1>7 DEF StartFail, EndFail, StartCaller, AgentReports, AgentStaysSilent,
       Trouble, AsPlanned, Upset
  <2> QED BY <1>1, <1>7, <2>1, CalmGitHub DEF CalmInv
<1> QED BY <1>2, <1>3, <1>4, <1>5, <1>6, <1>7 DEF Next, Harness

(* A case that found everything in order and that nothing disturbed passes *)
(* with a comment: no interleaving with what earlier cases left makes the  *)
(* harness block, run out of time or take another run for its own.         *)
THEOREM UndisturbedCaseAlwaysPasses == Spec => []UndisturbedCasePasses
<1>1. Init => CalmInv
  BY DEF Init, CalmInv
<1>2. IInv /\ CalmInv /\ [Next]_vars => CalmInv'
  BY CalmStep DEF IInv
<1>3. IInv /\ CalmInv => UndisturbedCasePasses
  <2>1. SUFFICES ASSUME IInv, CalmInv, calm, harness.at \in {"blocked", "reported", "died"}
                 PROVE  OraclePasses /\ harness.comment # 0
    BY DEF UndisturbedCasePasses
  <2>2. OurRoute \in Nat \ {0}
    BY <2>1, StageTypes DEF IInv
  <2>3. At("reported") /\ harness.route = OurRoute /\ harness.comment = OurRoute
    BY <2>1 DEF CalmInv, Undisturbed, At, Working, Waits
  <2> QED BY <2>2, <2>3 DEF OraclePasses, At
<1> QED BY <1>1, <1>2, <1>3, E2EInvariance, PTL DEF Spec
=============================================================================
