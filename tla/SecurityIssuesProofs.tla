------------------------ MODULE SecurityIssuesProofs ------------------------
(***************************************************************************)
(* Proofs about SecurityIssues, for any rules, page size and number of     *)
(* issues, re-runs and acts.                                               *)
(***************************************************************************)
EXTENDS SecurityIssues, WellFoundedInduction, SequenceTheorems, TLAPS

-----------------------------------------------------------------------------
(* The inductive invariant *)

Holding == {"lookup", "commenting", "closing"}
Clearing == {"working"} \union Holding

Older(all, c) ==
    {n \in DOMAIN all : n < c /\ all[n].open /\ all[n].rule = all[c].rule}
Held(r) == {n \in {r.at} : r.phase \in Holding}

\* Run r of issue c, with window w: the window has seen what the issues show
\* now, the candidate in hand was seen without keep-open and, past the lookup,
\* without a pull request, and an older report is either still to be treated,
\* in hand or excused.
Watched(all, c, r, w) ==
    r.phase \in Working => /\ Seen(c, all, "keep") \subseteq w.unkept
                           /\ Seen(c, all, "fix") \subseteq w.unlinked
InHand(all, c, r, w) ==
    /\ r.phase \in Holding => /\ r.at \in 1 .. (c - 1)
                              /\ all[r.at].rule = all[c].rule
                              /\ r.at \in w.unkept
    /\ r.phase \in {"commenting", "closing"} => r.at \in w.unlinked \/ w.blind
ToTreat(all, c, r, w) ==
    /\ \A n \in r.todo : all[n].rule = all[c].rule
    /\ r.phase = "done" => r.todo = {}
    /\ r.phase \in Clearing \union {"done"} =>
         Older(all, c) \subseteq w.excused \union r.todo \union Held(r)

Fine(all, c, r, w) ==
    Watched(all, c, r, w) /\ InHand(all, c, r, w) /\ ToTreat(all, c, r, w)

\* Whoever closed an issue started from a newer one of its rule.
ClosedBelow(all) ==
    \A n \in DOMAIN all : all[n].closer # 0 =>
       /\ all[n].closer \in DOMAIN all /\ all[n].closer > n
       /\ all[all[n].closer].rule = all[n].rule

IInv ==
    /\ TypeOK
    /\ \A c \in DOMAIN issues : Fine(issues, c, run[c], window[c])
    /\ ClosedBelow(issues)

-----------------------------------------------------------------------------
(* Lemmas *)

LEMMA Shapes ==
    ASSUME TypeOK
    PROVE  /\ DOMAIN issues = 1 .. Len(issues) /\ Len(issues) \in Nat
           /\ DOMAIN run = DOMAIN issues /\ DOMAIN window = DOMAIN issues
           /\ \A n \in DOMAIN issues : /\ issues[n] \in Issue /\ run[n] \in Run
                                       /\ window[n] \in Window
                                       /\ run[n].todo \subseteq 1 .. (n - 1)
                                       /\ run[n].at < n
<1>1. DOMAIN issues = 1 .. Len(issues) /\ Len(issues) \in Nat
  BY DEF TypeOK
<1>2. DOMAIN run = 1 .. Len(run) /\ DOMAIN window = 1 .. Len(window)
  BY DEF TypeOK
<1>3. DOMAIN run = DOMAIN issues /\ DOMAIN window = DOMAIN issues
  BY <1>1, <1>2 DEF TypeOK
<1>4. ASSUME NEW n \in DOMAIN issues
      PROVE  /\ issues[n] \in Issue /\ run[n] \in Run /\ window[n] \in Window
             /\ run[n].todo \subseteq 1 .. (n - 1) /\ run[n].at < n
  BY <1>1, <1>2, <1>3, ElementOfSeq DEF TypeOK
<1> QED
  BY <1>1, <1>3, <1>4

\* A run whose issues change under it stays in order if no rule changes, the
\* window sees the change and an issue that opens is excused.
LEMMA FineUnderChange ==
    ASSUME NEW all, NEW new, NEW c \in DOMAIN all, c \in Nat, NEW r \in Run,
           NEW w \in Window, NEW v \in Window,
           DOMAIN all \subseteq DOMAIN new, DOMAIN all \subseteq Nat,
           \A n \in DOMAIN new \ DOMAIN all : ~(n < c),
           1 .. (c - 1) \subseteq DOMAIN all, r.todo \subseteq 1 .. (c - 1),
           \A n \in DOMAIN all : new[n].rule = all[n].rule,
           Fine(all, c, r, w),
           Watched(new, c, r, v),
           w.unkept \subseteq v.unkept, w.unlinked \subseteq v.unlinked,
           v.blind = w.blind, w.excused \subseteq v.excused,
           r.phase \in Clearing \union {"done"} =>
             Older(new, c) \subseteq Older(all, c) \union v.excused
    PROVE  Fine(new, c, r, v)
<1>1. InHand(new, c, r, v)
  BY DEF Fine, InHand
<1>2. ToTreat(new, c, r, v)
  BY DEF Fine, ToTreat
<1> QED
  BY <1>1, <1>2 DEF Fine

\* A step of run c that leaves the issues alone.
LEMMA RunStep ==
    ASSUME IInv, NEW c \in DOMAIN issues, NEW r \in Run, NEW w \in Window,
           run' = [run EXCEPT ![c] = r], window' = [window EXCEPT ![c] = w],
           issues' = issues, reruns' \in Nat, acts' \in Nat,
           r.todo \subseteq 1 .. (c - 1), r.at < c, Fine(issues, c, r, w)
    PROVE  IInv'
<1> USE Shapes DEF IInv
<1>1. run \in Seq(Run) /\ window \in Seq(Window)
  BY DEF TypeOK
<1>2. run' \in Seq(Run) /\ Len(run') = Len(run) /\ window' \in Seq(Window)
      /\ Len(window') = Len(window)
  BY <1>1, ExceptSeq
<1>3. /\ DOMAIN run' = DOMAIN issues /\ run'[c] = r /\ window'[c] = w
      /\ \A d \in DOMAIN issues \ {c} : run'[d] = run[d] /\ window'[d] = window[d]
  OBVIOUS
<1>4. TypeOK'
  BY <1>2, <1>3 DEF TypeOK
<1>5. \A d \in DOMAIN issues : Fine(issues, d, run'[d], window'[d])
  BY <1>3
<1> QED
  BY <1>4, <1>5

\* A step that changes issue n and no run; the windows take notice of it.
LEMMA IssueStep ==
    ASSUME IInv, NEW n \in DOMAIN issues, NEW new \in Issue,
           issues' = [issues EXCEPT ![n] = new], run' = run,
           window' \in Seq(Window), Len(window') = Len(window),
           reruns' = reruns, acts' \in Nat,
           new.rule = issues[n].rule, new.closer \in {0, issues[n].closer},
           \A c \in DOMAIN issues :
              /\ Watched(issues', c, run[c], window'[c])
              /\ window[c].unkept \subseteq window'[c].unkept
              /\ window[c].unlinked \subseteq window'[c].unlinked
              /\ window'[c].blind = window[c].blind
              /\ window[c].excused \subseteq window'[c].excused
              /\ new.open /\ ~issues[n].open /\ run[c].phase \in Clearing \union {"done"}
                   => n \in window'[c].excused
    PROVE  IInv'
<1> USE Shapes DEF IInv
<1>1. issues \in Seq(Issue) /\ run \in Seq(Run)
  BY DEF TypeOK
<1>2. /\ issues' \in Seq(Issue) /\ DOMAIN issues' = DOMAIN issues /\ Len(issues') = Len(issues)
      /\ issues'[n] = new
      /\ \A m \in DOMAIN issues \ {n} : issues'[m] = issues[m]
  BY <1>1, ExceptSeq
<1>3. TypeOK'
  BY <1>2 DEF TypeOK
<1>4. \A m \in DOMAIN issues : issues'[m].rule = issues[m].rule
  BY <1>2
<1>5. ClosedBelow(issues')
  BY <1>2, <1>4 DEF ClosedBelow
<1>6. ASSUME NEW c \in DOMAIN issues PROVE Fine(issues', c, run[c], window'[c])
  <2>1. window'[c] \in Window
    BY ElementOfSeq DEF TypeOK
  <2>2. run[c].phase \in Clearing \union {"done"} =>
          Older(issues', c) \subseteq Older(issues, c) \union window'[c].excused
    BY <1>2, <1>4 DEF Older
  <2>3. /\ c \in Nat /\ DOMAIN issues \subseteq Nat /\ 1 .. (c - 1) \subseteq DOMAIN issues
        /\ DOMAIN issues \subseteq DOMAIN issues'
        /\ \A m \in DOMAIN issues' \ DOMAIN issues : ~(m < c)
        /\ run[c] \in Run /\ window[c] \in Window /\ run[c].todo \subseteq 1 .. (c - 1)
        /\ Fine(issues, c, run[c], window[c])
    BY <1>2
  <2> HIDE DEF IInv
  <2> QED
    BY <1>4, <2>1, <2>2, <2>3, FineUnderChange, Zenon
<1> QED
  BY <1>2, <1>3, <1>5, <1>6

\* A rule that files a report disturbs no run.
LEMMA FileIssueKeeps ==
    ASSUME IInv, NEW rule \in Rules, FileIssue(rule)
    PROVE  IInv'
<1> USE Shapes DEF IInv
<1>1. PICK phase \in {"none", "queued"} : run' = Append(run, [NoRun EXCEPT !.phase = phase])
  BY DEF FileIssue
<1> DEFINE L == Len(issues) + 1
           r == [NoRun EXCEPT !.phase = phase]
<1>2. NewIssue(rule) \in Issue /\ r \in Run /\ NoWindow \in Window
      /\ r.todo = {} /\ r.at = 0 /\ r.phase = phase
  BY DEF NewIssue, Issue, NoRun, Run, NoWindow, Window
<1> HIDE DEF r
<1>3. issues \in Seq(Issue) /\ run \in Seq(Run) /\ window \in Seq(Window)
      /\ Len(run) = Len(issues) /\ Len(window) = Len(issues)
  BY DEF TypeOK
<1>4. /\ issues' \in Seq(Issue) /\ run' \in Seq(Run) /\ window' \in Seq(Window)
      /\ Len(issues') = L /\ Len(run') = L /\ Len(window') = L
      /\ \A n \in DOMAIN issues : issues'[n] = issues[n] /\ run'[n] = run[n]
                                  /\ window'[n] = window[n]
      /\ issues'[L] = NewIssue(rule) /\ run'[L] = r /\ window'[L] = NoWindow
  BY <1>1, <1>2, <1>3, AppendProperties DEF FileIssue, r
<1>5. DOMAIN issues' = DOMAIN issues \union {L} /\ DOMAIN run' = DOMAIN issues'
      /\ L \notin DOMAIN issues /\ L \in Nat
  BY <1>3, <1>4
<1>6. TypeOK'
  <2>1. \A c \in DOMAIN run' : run'[c].todo \subseteq 1 .. (c - 1) /\ run'[c].at < c
    BY <1>2, <1>4, <1>5
  <2> QED
    BY <1>4, <2>1 DEF TypeOK, FileIssue
<1>7. ClosedBelow(issues')
  BY <1>4, <1>5 DEF ClosedBelow, NewIssue
<1>8. ASSUME NEW c \in DOMAIN issues PROVE Fine(issues', c, run'[c], window'[c])
  <2>1. \A m \in DOMAIN issues' \ DOMAIN issues : ~(m < c)
    BY <1>3, <1>5
  <2>2. /\ Seen(c, issues', "keep") \subseteq Seen(c, issues, "keep")
        /\ Seen(c, issues', "fix") \subseteq Seen(c, issues, "fix")
        /\ Older(issues', c) \subseteq Older(issues, c)
    BY <1>4, <2>1 DEF Seen, Older
  <2>3. Watched(issues', c, run[c], window[c])
    BY <2>2 DEF Fine, Watched
  <2>4. /\ c \in Nat /\ DOMAIN issues \subseteq Nat /\ 1 .. (c - 1) \subseteq DOMAIN issues
        /\ DOMAIN issues \subseteq DOMAIN issues'
        /\ run[c] \in Run /\ window[c] \in Window /\ run[c].todo \subseteq 1 .. (c - 1)
        /\ Fine(issues, c, run[c], window[c])
        /\ \A n \in DOMAIN issues : issues'[n].rule = issues[n].rule
        /\ run'[c] = run[c] /\ window'[c] = window[c]
        /\ window[c].unkept \subseteq window[c].unkept
        /\ window[c].unlinked \subseteq window[c].unlinked
        /\ window[c].excused \subseteq window[c].excused
        /\ Older(issues', c) \subseteq Older(issues, c) \union window[c].excused
    BY <1>3, <1>4, <1>5, <2>2
  <2>5. Fine(issues', c, run[c], window[c])
    <3> HIDE DEF IInv
    <3> QED
      BY <2>1, <2>3, <2>4, FineUnderChange
  <2> QED
    BY <2>4, <2>5
<1>9. Fine(issues', L, run'[L], window'[L])
  BY <1>2, <1>4 DEF Fine, Watched, InHand, ToTreat, Working, Clearing, Holding
<1> QED
  BY <1>5, <1>6, <1>7, <1>8, <1>9

\* What Watch gives the windows.
LEMMA Watching ==
    ASSUME TypeOK, DOMAIN issues' = DOMAIN issues, Watch(issues'), run' = run
    PROVE  /\ window' \in Seq(Window) /\ Len(window') = Len(window)
           /\ \A c \in DOMAIN issues :
                /\ Watched(issues', c, run[c], window'[c])
                /\ window[c].unkept \subseteq window'[c].unkept
                /\ window[c].unlinked \subseteq window'[c].unlinked
                /\ window'[c].blind = window[c].blind
                /\ window'[c].excused = window[c].excused
<1> USE Shapes
<1>1. window \in Seq(Window) /\ DOMAIN window' = DOMAIN window
  BY DEF TypeOK, Watch
<1>2. \A c \in DOMAIN issues : Seen(c, issues', "keep") \subseteq Nat
                              /\ Seen(c, issues', "fix") \subseteq Nat
  BY DEF Seen
<1>3. ASSUME NEW c \in DOMAIN issues
      PROVE  /\ window'[c] \in Window
             /\ Watched(issues', c, run[c], window'[c])
             /\ window[c].unkept \subseteq window'[c].unkept
             /\ window[c].unlinked \subseteq window'[c].unlinked
             /\ window'[c].blind = window[c].blind
             /\ window'[c].excused = window[c].excused
  <2>1. window[c] \in Window
    OBVIOUS
  <2>2. CASE run[c].phase \notin Working
    <3>1. window'[c] = window[c]
      BY <2>2 DEF Watch
    <3> QED
      BY <2>1, <2>2, <3>1 DEF Watched
  <2>3. CASE run[c].phase \in Working
    <3>1. window'[c] = [window[c] EXCEPT
               !.unkept = @ \union Seen(c, issues', "keep"),
               !.unlinked = @ \union Seen(c, issues', "fix")]
      BY <2>3 DEF Watch
    <3>2. /\ window'[c].unkept = window[c].unkept \union Seen(c, issues', "keep")
          /\ window'[c].unlinked = window[c].unlinked \union Seen(c, issues', "fix")
          /\ window'[c].blind = window[c].blind /\ window'[c].excused = window[c].excused
          /\ window'[c] \in Window
      BY <1>2, <2>1, <3>1 DEF Window
    <3> QED
      BY <3>2 DEF Watched
  <2> QED
    BY <2>2, <2>3
<1>4. window' \in Seq(Window) /\ Len(window') = Len(window)
  <2>1. DOMAIN window' = 1 .. Len(window) /\ Len(window) \in Nat
    BY <1>1
  <2>2. \A c \in 1 .. Len(window) : window'[c] \in Window
    BY <1>1, <1>3
  <2>3. window' = [c \in 1 .. Len(window) |-> window'[c]]
    BY <2>1 DEF Watch
  <2> QED
    BY <2>1, <2>2, <2>3
<1> QED
  BY <1>3, <1>4

-----------------------------------------------------------------------------
(* People and the fixer *)

LEMMA PeopleKeep ==
    ASSUME IInv, NEW n \in DOMAIN issues, People(n)
    PROVE  IInv'
<1> DEFINE old == issues[n]
<1>1. /\ old \in Issue /\ TypeOK /\ DOMAIN window = DOMAIN issues
      /\ \A c \in DOMAIN issues : window[c] \in Window /\ Fine(issues, c, run[c], window[c])
  BY Shapes DEF IInv
<1>2. \A c \in DOMAIN issues : Watched(issues, c, run[c], window[c])
  BY <1>1 DEF Fine
<1>3. acts \in Nat /\ acts + 1 \in Nat
  BY <1>1 DEF TypeOK
<1>4. ASSUME NEW new \in Issue, Act(n, new), Watch(issues'), new.rule = old.rule,
             new.closer = old.closer, new.open => old.open
      PROVE  IInv'
  <2>1. issues' = [issues EXCEPT ![n] = new] /\ run' = run /\ reruns' = reruns
        /\ acts' \in Nat
    BY <1>3, <1>4 DEF Act
  <2>2. DOMAIN issues' = DOMAIN issues
    BY <2>1
  <2>3. window' \in Seq(Window) /\ Len(window') = Len(window)
    BY <1>1, <1>4, <2>1, <2>2, Watching
  <2>4. \A c \in DOMAIN issues :
          /\ Watched(issues', c, run[c], window'[c])
          /\ window[c].unkept \subseteq window'[c].unkept
          /\ window[c].unlinked \subseteq window'[c].unlinked
          /\ window'[c].blind = window[c].blind
          /\ window[c].excused \subseteq window'[c].excused
          /\ new.open /\ ~issues[n].open /\ run[c].phase \in Clearing \union {"done"}
               => n \in window'[c].excused
    BY <1>1, <1>4, <2>1, <2>2, Watching
  <2>5. new.rule = issues[n].rule /\ new.closer \in {0, issues[n].closer}
    BY <1>4
  <2> QED
    BY <2>1, <2>3, <2>4, <2>5, IssueStep, Zenon
<1>5. CASE ToggleKeep(n)
  <2> DEFINE new == [old EXCEPT !.keep = ~@]
  <2>1. new \in Issue /\ new.rule = old.rule /\ new.closer = old.closer
        /\ new.open = old.open
    BY <1>1 DEF Issue
  <2>2. Act(n, new) /\ Watch(issues')
    BY <1>5 DEF ToggleKeep
  <2> HIDE DEF new
  <2> QED
    BY <1>4, <2>1, <2>2
<1>6. CASE OpenFix(n)
  <2> DEFINE new == [old EXCEPT !.fix = TRUE]
  <2>1. new \in Issue /\ new.rule = old.rule /\ new.closer = old.closer
        /\ new.open = old.open
    BY <1>1 DEF Issue
  <2>2. Act(n, new) /\ Watch(issues')
    BY <1>6 DEF OpenFix
  <2> HIDE DEF new
  <2> QED
    BY <1>4, <2>1, <2>2
<1>7. CASE EndFix(n)
  <2>1. PICK merged \in BOOLEAN :
           Act(n, [issues[n] EXCEPT !.fix = FALSE, !.open = @ /\ ~merged])
    BY <1>7 DEF EndFix
  <2> DEFINE new == [old EXCEPT !.fix = FALSE, !.open = @ /\ ~merged]
  <2>2. new \in Issue /\ new.rule = old.rule /\ new.closer = old.closer
        /\ (new.open => old.open)
    BY <1>1 DEF Issue
  <2>3. Act(n, new) /\ Watch(issues')
    BY <1>7, <2>1 DEF EndFix
  <2> HIDE DEF new
  <2> QED
    BY <1>4, <2>2, <2>3
<1>8. ASSUME NEW new \in Issue, issues' = [issues EXCEPT ![n] = new],
             new.rule = old.rule, new.keep = old.keep, new.fix = old.fix
      PROVE  \A c \in DOMAIN issues : Seen(c, issues', "keep") = Seen(c, issues, "keep")
                                     /\ Seen(c, issues', "fix") = Seen(c, issues, "fix")
  <2>1. /\ DOMAIN issues' = DOMAIN issues
        /\ \A m \in DOMAIN issues : issues'[m].rule = issues[m].rule
             /\ issues'[m].keep = issues[m].keep /\ issues'[m].fix = issues[m].fix
    BY <1>8
  <2> QED
    BY <2>1 DEF Seen
<1>9. CASE CloseByHand(n)
  <2> DEFINE new == [old EXCEPT !.open = FALSE]
  <2>1. new \in Issue /\ new.rule = old.rule /\ new.closer = old.closer
        /\ ~new.open /\ new.keep = old.keep /\ new.fix = old.fix
    BY <1>1 DEF Issue
  <2>2. issues' = [issues EXCEPT ![n] = new] /\ run' = run /\ reruns' = reruns
        /\ acts' \in Nat /\ window' = window
    BY <1>3, <1>9 DEF CloseByHand, Act
  <2> HIDE DEF new
  <2>3. \A c \in DOMAIN issues : Watched(issues', c, run[c], window'[c])
    BY <1>2, <1>8, <2>1, <2>2 DEF Watched
  <2>4. window' \in Seq(Window) /\ Len(window') = Len(window)
    BY <1>1, <2>2 DEF TypeOK
  <2> QED
    BY <2>1, <2>2, <2>3, <2>4, IssueStep
<1>10. CASE Reopen(n)
  <2> DEFINE new == [old EXCEPT !.open = TRUE, !.closer = 0]
  <2>1. new \in Issue /\ new.rule = old.rule /\ new.closer = 0
        /\ new.keep = old.keep /\ new.fix = old.fix
    BY <1>1 DEF Issue
  <2>2. issues' = [issues EXCEPT ![n] = new] /\ run' = run /\ reruns' = reruns
        /\ acts' \in Nat
    BY <1>3, <1>10 DEF Reopen, Act
  <2>3. window' = [c \in DOMAIN window |->
           IF run[c].phase \in Working \union {"done"}
           THEN [window[c] EXCEPT !.excused = @ \union {n}] ELSE window[c]]
    BY <1>10 DEF Reopen
  <2> HIDE DEF new
  <2>4. n \in Nat
    BY <1>1, Shapes
  <2>5. ASSUME NEW c \in DOMAIN issues
        PROVE  /\ window'[c] \in Window
               /\ window'[c].unkept = window[c].unkept
               /\ window'[c].unlinked = window[c].unlinked
               /\ window'[c].blind = window[c].blind
               /\ window[c].excused \subseteq window'[c].excused
               /\ run[c].phase \in Working \union {"done"} => n \in window'[c].excused
    <3>1. window[c] \in Window
      BY <1>1
    <3>2. CASE run[c].phase \in Working \union {"done"}
      <4>1. window'[c] = [window[c] EXCEPT !.excused = @ \union {n}]
        BY <1>1, <2>3, <3>2
      <4> QED
        BY <2>4, <3>1, <4>1 DEF Window
    <3>3. CASE run[c].phase \notin Working \union {"done"}
      BY <1>1, <2>3, <3>1, <3>3
    <3> QED
      BY <3>2, <3>3
  <2>6. \A c \in DOMAIN issues : Watched(issues', c, run[c], window'[c])
    BY <1>2, <1>8, <2>1, <2>2, <2>5 DEF Watched
  <2>7. Clearing \union {"done"} \subseteq Working \union {"done"}
    BY DEF Clearing, Holding, Working
  <2>8. window' \in Seq(Window) /\ Len(window') = Len(window)
    <3>1. DOMAIN window = 1 .. Len(window) /\ Len(window) \in Nat
      BY <1>1 DEF TypeOK
    <3>2. \A c \in 1 .. Len(window) : window'[c] \in Window
      BY <1>1, <2>5, <3>1
    <3>3. window' = [c \in 1 .. Len(window) |-> window'[c]]
      BY <2>3, <3>1
    <3> QED
      BY <3>1, <3>2, <3>3
  <2>9. \A c \in DOMAIN issues :
          /\ Watched(issues', c, run[c], window'[c])
          /\ window[c].unkept \subseteq window'[c].unkept
          /\ window[c].unlinked \subseteq window'[c].unlinked
          /\ window'[c].blind = window[c].blind
          /\ window[c].excused \subseteq window'[c].excused
          /\ new.open /\ ~issues[n].open /\ run[c].phase \in Clearing \union {"done"}
               => n \in window'[c].excused
    BY <2>5, <2>6, <2>7
  <2>10. new.rule = issues[n].rule /\ new.closer \in {0, issues[n].closer}
    BY <2>1
  <2> QED
    BY <2>1, <2>2, <2>8, <2>9, <2>10, IssueStep, Zenon
<1> QED
  BY <1>5, <1>6, <1>7, <1>9, <1>10 DEF People

-----------------------------------------------------------------------------
(* The superseder *)

\* The steps that leave the issues alone: one RunStep each.
LEMMA SupersederKeeps ==
    ASSUME IInv, NEW c \in DOMAIN issues,
           \/ ViewCanonical(c) \/ ListCandidates(c)
           \/ \E n \in run[c].todo : ViewCandidate(c, n)
           \/ FindLinkedPRs(c) \/ LookupFails(c) \/ PostComment(c)
           \/ FinishRun(c) \/ RunFails(c) \/ Rerun(c)
    PROVE  IInv'
<1> DEFINE r == run[c]
           w == window[c]
           Is(phase, todo, at) == [phase |-> phase, todo |-> todo, at |-> at]
<1>1. /\ DOMAIN issues = 1 .. Len(issues) /\ Len(issues) \in Nat /\ c \in Nat /\ c > 0
      /\ DOMAIN run = DOMAIN issues /\ DOMAIN window = DOMAIN issues
      /\ r \in Run /\ w \in Window /\ r.todo \subseteq 1 .. (c - 1) /\ r.at < c
      /\ r.todo \subseteq Nat /\ r.at \in Nat
      /\ Fine(issues, c, r, w)
  BY Shapes DEF IInv, Run
<1>2. reruns \in Nat /\ acts \in Nat /\ reruns + 1 \in Nat
  BY DEF IInv, TypeOK
<1>3. ASSUME NEW phase \in {"none", "queued"} \union Working \union Ended,
             NEW todo \in SUBSET (1 .. (c - 1)), NEW at \in Nat, at < c,
             Goes(c, phase, todo, at),
             NEW v \in Window, window' = [window EXCEPT ![c] = v],
             issues' = issues, reruns' \in Nat, acts' \in Nat,
             Fine(issues, c, Is(phase, todo, at), v)
      PROVE  IInv'
  <2> DEFINE q == Is(phase, todo, at)
  <2>1. q \in Run /\ q.todo \subseteq 1 .. (c - 1) /\ q.at < c
    BY <1>3 DEF Run
  <2>2. run' = [run EXCEPT ![c] = q]
    BY <1>3 DEF Goes
  <2> HIDE DEF q
  <2> QED
    BY <1>3, <2>1, <2>2, RunStep DEF q
<1>4. window = [window EXCEPT ![c] = w]
  <2>1. window \in [DOMAIN window -> Window]
    BY DEF IInv, TypeOK
  <2> QED
    BY <2>1
<1>5. /\ Seen(c, issues, "keep") \subseteq Nat /\ Seen(c, issues, "fix") \subseteq Nat
      /\ OlderOfRule(c) = Older(issues, c) /\ OlderOfRule(c) \subseteq 1 .. (c - 1)
      /\ OlderOfRule(c) \subseteq Nat
  BY <1>1 DEF Seen, Older, OlderOfRule
<1>6. NoWindow \in Window /\ {} \in SUBSET (1 .. (c - 1)) /\ 0 \in Nat /\ 0 < c
  BY <1>1 DEF NoWindow, Window
<1> USE DEF Working, Ended, Clearing, Holding, Fine, Watched, InHand, ToTreat, Held
<1>7. CASE ViewCanonical(c)
  <2> DEFINE v == [w EXCEPT !.unkept = Seen(c, issues, "keep"),
                            !.unlinked = Seen(c, issues, "fix")]
             phase == IF issues[c].open THEN "listing" ELSE "skipped"
  <2>1. v \in Window /\ v.unkept = Seen(c, issues, "keep")
        /\ v.unlinked = Seen(c, issues, "fix")
    BY <1>1, <1>5 DEF Window
  <2>2. window' = [window EXCEPT ![c] = v]
    BY <1>1, <1>7 DEF ViewCanonical
  <2>3. phase \in {"listing", "skipped"} /\ Goes(c, phase, {}, 0)
        /\ issues' = issues /\ reruns' \in Nat /\ acts' \in Nat
    BY <1>2, <1>7 DEF ViewCanonical
  <2> HIDE DEF v, phase
  <2>4. Fine(issues, c, Is(phase, {}, 0), v)
    BY <2>1, <2>3
  <2> HIDE DEF Working, Ended, Fine, Is
  <2>5. phase \in {"none", "queued"} \union Working \union Ended
    BY <2>3 DEF Working, Ended
  <2> QED
    BY <1>3, <1>6, <2>1, <2>2, <2>3, <2>4, <2>5
<1>8. CASE ListCandidates(c)
  <2> DEFINE v == [w EXCEPT !.excused = @ \union (OlderOfRule(c) \ Page)]
             todo == OlderOfRule(c) \intersect Page
  <2>1. v \in Window /\ v.unkept = w.unkept /\ v.unlinked = w.unlinked
        /\ v.excused = w.excused \union (OlderOfRule(c) \ Page) /\ todo \in SUBSET (1 .. (c - 1))
    BY <1>1, <1>5 DEF Window
  <2>2. window' = [window EXCEPT ![c] = v] /\ Goes(c, "working", todo, 0)
        /\ issues' = issues /\ reruns' \in Nat /\ acts' \in Nat /\ r.phase = "listing"
    BY <1>1, <1>2, <1>8 DEF ListCandidates, Excuse
  <2>3. \A n \in todo : issues[n].rule = issues[c].rule
    BY DEF OlderOfRule
  <2>4. Older(issues, c) \subseteq v.excused \union todo
    BY <1>5, <2>1
  <2> HIDE DEF v, todo
  <2>5. Fine(issues, c, Is("working", todo, 0), v)
    BY <1>1, <2>1, <2>2, <2>3, <2>4
  <2> HIDE DEF Working, Ended, Fine, Is
  <2>6. "working" \in {"none", "queued"} \union Working \union Ended
    BY DEF Working, Ended
  <2> QED
    BY <1>3, <1>6, <2>1, <2>2, <2>5, <2>6
<1>10. CASE FindLinkedPRs(c)
  <2>1. CASE issue_has_open_linked_pr(c)
    <3> DEFINE v == [w EXCEPT !.excused = @ \union {r.at}]
    <3>1. v \in Window /\ v.unkept = w.unkept /\ v.unlinked = w.unlinked
          /\ v.excused = w.excused \union {r.at}
      BY <1>1 DEF Window
    <3>2. window' = [window EXCEPT ![c] = v] /\ Goes(c, "working", r.todo, 0)
          /\ issues' = issues /\ reruns' \in Nat /\ acts' \in Nat /\ r.phase = "lookup"
      BY <1>1, <1>2, <1>10, <2>1 DEF FindLinkedPRs, Excuse
    <3> HIDE DEF v
    <3>3. Fine(issues, c, Is("working", r.todo, 0), v)
      BY <1>1, <3>1, <3>2
    <3> HIDE DEF Working, Ended, Fine, Is
    <3>4. "working" \in {"none", "queued"} \union Working \union Ended
      BY DEF Working, Ended
    <3> QED
      BY <1>1, <1>3, <1>6, <3>1, <3>2, <3>3, <3>4
  <2>2. CASE ~issue_has_open_linked_pr(c)
    <3>1. window' = [window EXCEPT ![c] = w] /\ Goes(c, "commenting", r.todo, r.at)
          /\ issues' = issues /\ reruns' \in Nat /\ acts' \in Nat /\ r.phase = "lookup"
      BY <1>2, <1>4, <1>10, <2>2 DEF FindLinkedPRs
    <3>2. r.at \in DOMAIN issues
      BY <1>1, <3>1
    <3>3. r.at \in Seen(c, issues, "fix")
      BY <1>1, <2>2, <3>1, <3>2 DEF Seen, issue_has_open_linked_pr
    <3>4. Fine(issues, c, Is("commenting", r.todo, r.at), w)
      BY <1>1, <3>1, <3>3
    <3> HIDE DEF Working, Ended, Fine, Is
    <3>5. "commenting" \in {"none", "queued"} \union Working \union Ended
      BY DEF Working, Ended
    <3> QED
      BY <1>1, <1>3, <1>6, <3>1, <3>4, <3>5
  <2> QED
    BY <2>1, <2>2
<1>11. CASE LookupFails(c)
  <2> DEFINE v == [w EXCEPT !.blind = TRUE]
  <2>1. v \in Window /\ v.unkept = w.unkept /\ v.unlinked = w.unlinked
        /\ v.excused = w.excused /\ v.blind
    BY <1>1 DEF Window
  <2>2. window' = [window EXCEPT ![c] = v] /\ Goes(c, "commenting", r.todo, r.at)
        /\ issues' = issues /\ reruns' \in Nat /\ acts' \in Nat /\ r.phase = "lookup"
    BY <1>1, <1>2, <1>11 DEF LookupFails
  <2> HIDE DEF v
  <2>3. Fine(issues, c, Is("commenting", r.todo, r.at), v)
    BY <1>1, <2>1, <2>2
  <2> HIDE DEF Working, Ended, Fine, Is
  <2>4. "commenting" \in {"none", "queued"} \union Working \union Ended
    BY DEF Working, Ended
  <2> QED
    BY <1>1, <1>3, <1>6, <2>1, <2>2, <2>3, <2>4
<1>12. CASE PostComment(c)
  <2>1. window' = [window EXCEPT ![c] = w] /\ Goes(c, "closing", r.todo, r.at)
        /\ issues' = issues /\ reruns' \in Nat /\ acts' \in Nat /\ r.phase = "commenting"
    BY <1>2, <1>4, <1>12 DEF PostComment
  <2>2. Fine(issues, c, Is("closing", r.todo, r.at), w)
    BY <1>1, <2>1
  <2> HIDE DEF Working, Ended, Fine, Is
  <2>3. "closing" \in {"none", "queued"} \union Working \union Ended
    BY DEF Working, Ended
  <2> QED
    BY <1>1, <1>3, <1>6, <2>1, <2>2, <2>3
<1>13. CASE FinishRun(c)
  <2> DEFINE v == [NoWindow EXCEPT !.excused = w.excused]
  <2>1. v \in Window /\ v.excused = w.excused
    BY <1>1 DEF NoWindow, Window
  <2>2. window' = [window EXCEPT ![c] = v] /\ Goes(c, "done", {}, 0)
        /\ issues' = issues /\ reruns' \in Nat /\ acts' \in Nat
        /\ r.phase = "working" /\ r.todo = {}
    BY <1>2, <1>13 DEF FinishRun
  <2> HIDE DEF v
  <2>3. Fine(issues, c, Is("done", {}, 0), v)
    BY <1>1, <2>1, <2>2
  <2> HIDE DEF Working, Ended, Fine, Is
  <2>4. "done" \in {"none", "queued"} \union Working \union Ended
    BY DEF Working, Ended
  <2> QED
    BY <1>3, <1>6, <2>1, <2>2, <2>3, <2>4
<1>14. ASSUME NEW phase \in {"failed", "queued"}, Goes(c, phase, {}, 0),
              window' = [window EXCEPT ![c] = NoWindow],
              issues' = issues, reruns' \in Nat, acts' \in Nat
       PROVE  IInv'
  <2>1. Fine(issues, c, Is(phase, {}, 0), NoWindow)
    OBVIOUS
  <2> HIDE DEF Working, Ended, Fine, Is
  <2>2. phase \in {"none", "queued"} \union Working \union Ended
    BY DEF Working, Ended
  <2> QED
    BY <1>3, <1>6, <1>14, <2>1, <2>2
<1>15. CASE RunFails(c)
  BY <1>2, <1>14, <1>15 DEF RunFails
<1>16. CASE Rerun(c)
  BY <1>2, <1>14, <1>16 DEF Rerun
<1>17. CASE \E n \in run[c].todo : ViewCandidate(c, n)
  <2> PICK n \in run[c].todo : ViewCandidate(c, n)
    BY <1>17
  <2> DEFINE todo == r.todo \ {n}
  <2>1. /\ n \in Nat /\ n \in 1 .. (c - 1) /\ n < c /\ n \in DOMAIN issues
        /\ issues[n].rule = issues[c].rule /\ todo \in SUBSET (1 .. (c - 1))
        /\ r.todo = todo \union {n} /\ r.phase = "working"
        /\ issues' = issues /\ reruns' \in Nat /\ acts' \in Nat
    BY <1>1, <1>2 DEF ViewCandidate
  <2>2. /\ Older(issues, c) \subseteq w.excused \union todo \union {n}
        /\ Seen(c, issues, "keep") \subseteq w.unkept
        /\ \A m \in todo : issues[m].rule = issues[c].rule
    BY <1>1, <2>1
  <2> HIDE DEF todo
  <2>3. CASE ~issues[n].open /\ Goes(c, "working", todo, 0) /\ window' = window
    <3>1. n \notin Older(issues, c)
      BY <2>3 DEF Older
    <3>2. Fine(issues, c, Is("working", todo, 0), w)
      BY <1>1, <2>1, <2>2, <3>1
    <3> HIDE DEF Working, Ended, Fine, Is
    <3>3. "working" \in {"none", "queued"} \union Working \union Ended
      BY DEF Working, Ended
    <3>4. window' = [window EXCEPT ![c] = w]
      BY <1>4, <2>3
    <3> QED
      BY <1>1, <1>3, <1>6, <2>1, <2>3, <3>2, <3>3, <3>4
  <2>4. CASE SkipKept(c, n) /\ Excuse(c, {n})
    <3> DEFINE v == [w EXCEPT !.excused = @ \union {n}]
    <3>1. v \in Window /\ v.unkept = w.unkept /\ v.unlinked = w.unlinked
          /\ v.excused = w.excused \union {n}
      BY <1>1, <2>1 DEF Window
    <3>2. window' = [window EXCEPT ![c] = v] /\ Goes(c, "working", todo, 0)
      BY <1>1, <2>4 DEF SkipKept, Excuse, todo
    <3> HIDE DEF v
    <3>3. Fine(issues, c, Is("working", todo, 0), v)
      BY <1>1, <2>1, <2>2, <3>1
    <3> HIDE DEF Working, Ended, Fine, Is
    <3>4. "working" \in {"none", "queued"} \union Working \union Ended
      BY DEF Working, Ended
    <3> QED
      BY <1>3, <1>6, <2>1, <3>1, <3>2, <3>3, <3>4
  <2>5. CASE ~issues[n].keep /\ Goes(c, "lookup", todo, n) /\ window' = window
    <3>1. n \in Seen(c, issues, "keep")
      BY <2>1, <2>5 DEF Seen
    <3>2. Fine(issues, c, Is("lookup", todo, n), w)
      BY <1>1, <2>1, <2>2, <3>1
    <3> HIDE DEF Working, Ended, Fine, Is
    <3>3. "lookup" \in {"none", "queued"} \union Working \union Ended
      BY DEF Working, Ended
    <3>4. window' = [window EXCEPT ![c] = w]
      BY <1>4, <2>5
    <3> QED
      BY <1>1, <1>3, <2>1, <2>5, <3>2, <3>3, <3>4
  <2> QED
    BY <2>3, <2>4, <2>5 DEF ViewCandidate, todo
<1> QED
  BY <1>7, <1>8, <1>10, <1>11, <1>12, <1>13, <1>15, <1>16, <1>17

\* Closing the candidate in hand: the run that closes it is of a newer issue of
\* its rule.
LEMMA CloseKeeps ==
    ASSUME IInv, NEW c \in DOMAIN issues, CloseIssue(c)
    PROVE  IInv'
<1> DEFINE at == run[c].at
           q == [phase |-> "working", todo |-> run[c].todo, at |-> 0]
           new == [issues[at] EXCEPT !.open = FALSE, !.closer = c]
<1>1. /\ DOMAIN issues = 1 .. Len(issues) /\ Len(issues) \in Nat /\ c \in Nat
      /\ DOMAIN run = DOMAIN issues /\ DOMAIN window = DOMAIN issues
      /\ \A d \in DOMAIN issues : /\ issues[d] \in Issue /\ run[d] \in Run
                                  /\ window[d] \in Window
                                  /\ run[d].todo \subseteq 1 .. (d - 1) /\ run[d].at < d
                                  /\ Fine(issues, d, run[d], window[d])
  BY Shapes DEF IInv
<1>2. /\ run' = [run EXCEPT ![c] = q] /\ run[c].phase = "closing"
      /\ window' = window /\ reruns' = reruns /\ acts' = acts
      /\ issues' = [issues EXCEPT ![at] =
                      IF @.open THEN [@ EXCEPT !.open = FALSE, !.closer = c] ELSE @]
  BY DEF CloseIssue, Goes
<1>3. at \in 1 .. (c - 1) /\ issues[at].rule = issues[c].rule
  BY <1>1, <1>2 DEF Fine, InHand, Holding
<1>4. at \in DOMAIN issues /\ at < c
  BY <1>1, <1>3
<1>5. new \in Issue /\ new.rule = issues[at].rule /\ new.keep = issues[at].keep
      /\ new.fix = issues[at].fix /\ ~new.open /\ new.closer = c
  BY <1>1, <1>4 DEF Issue
<1>6. issues' = [issues EXCEPT ![at] = IF issues[at].open THEN new ELSE issues[at]]
  BY <1>2
<1> HIDE DEF new
<1>7. /\ issues' \in Seq(Issue) /\ Len(issues') = Len(issues)
      /\ DOMAIN issues' = DOMAIN issues
      /\ \A n \in DOMAIN issues : /\ issues'[n].rule = issues[n].rule
                                  /\ issues'[n].keep = issues[n].keep
                                  /\ issues'[n].fix = issues[n].fix
                                  /\ (issues'[n].open => issues[n].open /\ n # at)
                                  /\ \/ issues'[n].closer = issues[n].closer
                                     \/ /\ n = at
                                        /\ issues'[n].closer = c
  <2>1. issues \in Seq(Issue)
    BY DEF IInv, TypeOK
  <2>2. (IF issues[at].open THEN new ELSE issues[at]) \in Issue
    BY <1>1, <1>4, <1>5
  <2>3. issues' \in Seq(Issue) /\ Len(issues') = Len(issues) /\ DOMAIN issues' = DOMAIN issues
    BY <1>4, <1>6, <2>1, <2>2, ExceptSeq
  <2>4. ASSUME NEW n \in DOMAIN issues
        PROVE  /\ issues'[n].rule = issues[n].rule
               /\ issues'[n].keep = issues[n].keep
               /\ issues'[n].fix = issues[n].fix
               /\ (issues'[n].open => issues[n].open /\ n # at)
               /\ \/ issues'[n].closer = issues[n].closer
                  \/ /\ n = at
                     /\ issues'[n].closer = c
    BY <1>4, <1>5, <1>6
  <2> QED
    BY <2>3, <2>4
<1>8. q \in Run /\ q.todo = run[c].todo /\ q.phase = "working" /\ q.at = 0
  BY <1>1 DEF Run, Working
<1> HIDE DEF q
<1>9. /\ run' \in Seq(Run) /\ Len(run') = Len(run) /\ DOMAIN run' = DOMAIN issues
      /\ run'[c] = q /\ \A d \in DOMAIN issues \ {c} : run'[d] = run[d]
  <2>1. run \in Seq(Run)
    BY DEF IInv, TypeOK
  <2> QED
    BY <1>1, <1>2, <1>8, <2>1, ExceptSeq
<1>10. TypeOK'
  <2>1. \A d \in DOMAIN run' : run'[d].todo \subseteq 1 .. (d - 1) /\ run'[d].at < d
    BY <1>1, <1>8, <1>9
  <2> QED
    BY <1>2, <1>7, <1>9, <2>1 DEF IInv, TypeOK
<1>11. ClosedBelow(issues')
  BY <1>1, <1>3, <1>4, <1>7 DEF IInv, ClosedBelow
<1>12. ASSUME NEW d \in DOMAIN issues
       PROVE  /\ Seen(d, issues', "keep") = Seen(d, issues, "keep")
              /\ Seen(d, issues', "fix") = Seen(d, issues, "fix")
              /\ Older(issues', d) \subseteq Older(issues, d) \ {at}
  BY <1>7 DEF Seen, Older
<1>13. Fine(issues', c, q, window[c])
  <2>1. Watched(issues', c, q, window[c])
    BY <1>1, <1>2, <1>12 DEF Fine, Watched, Working
  <2>2. InHand(issues', c, q, window[c])
    BY <1>8 DEF InHand, Holding
  <2>3. Older(issues, c) \subseteq window[c].excused \union run[c].todo \union {at}
    BY <1>1, <1>2 DEF Fine, ToTreat, Clearing, Holding, Held
  <2>4. run[c].todo \subseteq DOMAIN issues /\ \A n \in run[c].todo : issues[n].rule = issues[c].rule
    BY <1>1 DEF Fine, ToTreat
  <2>5. ToTreat(issues', c, q, window[c])
    BY <1>7, <1>8, <1>12, <2>3, <2>4 DEF ToTreat
  <2> QED
    BY <2>1, <2>2, <2>5 DEF Fine
<1>14. ASSUME NEW d \in DOMAIN issues, d # c
       PROVE  Fine(issues', d, run[d], window[d])
  <2>1. Watched(issues', d, run[d], window[d])
    BY <1>1, <1>12 DEF Fine, Watched
  <2>2. Older(issues', d) \subseteq Older(issues, d) \union window[d].excused
    BY <1>12
  <2>3. /\ d \in Nat /\ DOMAIN issues \subseteq Nat /\ 1 .. (d - 1) \subseteq DOMAIN issues
        /\ DOMAIN issues \subseteq DOMAIN issues'
        /\ \A m \in DOMAIN issues' \ DOMAIN issues : ~(m < d)
        /\ run[d] \in Run /\ window[d] \in Window /\ run[d].todo \subseteq 1 .. (d - 1)
        /\ Fine(issues, d, run[d], window[d])
        /\ \A n \in DOMAIN issues : issues'[n].rule = issues[n].rule
    BY <1>1, <1>7
  <2> QED
    BY <2>1, <2>2, <2>3, FineUnderChange
<1> QED
  BY <1>2, <1>7, <1>9, <1>10, <1>11, <1>13, <1>14 DEF IInv

-----------------------------------------------------------------------------
(* Theorems *)

\* Distances have a least one, so a set of issue numbers has a newest one.
LEMMA LeastDistance ==
    ASSUME NEW D, D \subseteq Nat, D # {}
    PROVE  \E d \in D : \A e \in D : ~(e < d)
<1> DEFINE R == OpToRel(<, Nat)
<1>1. IsWellFoundedOn(R, Nat)
  BY NatLessThanWellFounded
<1>2. \A x, y \in Nat : x < y => <<x, y>> \in R
  BY DEF OpToRel
<1> HIDE DEF R
<1>3. PICK d \in D : \A e \in D : ~(<<e, d>> \in R)
  BY <1>1, WFMin
<1>4. \A e \in D : ~(e < d)
  BY <1>2, <1>3, Zenon
<1> QED
  BY <1>4

LEMMA NewestExists ==
    ASSUME NEW L \in Nat, NEW T, T \subseteq 1 .. L, T # {}
    PROVE  \E m \in T : \A l \in T : l <= m
<1> DEFINE D == {L - m : m \in T}
<1>1. D # {} /\ D \subseteq Nat
  <2>1. \A m \in T : L - m \in Nat
    OBVIOUS
  <2> QED
    BY <2>1
<1>2. PICK d \in D : \A e \in D : ~(e < d)
  BY <1>1, LeastDistance
<1>3. PICK m \in T : d = L - m
  OBVIOUS
<1>4. \A l \in T : ~(L - l < L - m)
  BY <1>2, <1>3
<1>5. \A l \in T : l <= m
  BY <1>4
<1> QED
  BY <1>5

LEMMA Initially == Init => IInv
BY DEF Init, IInv, TypeOK, ClosedBelow

LEMMA StepKeeps == IInv /\ [Next]_vars => IInv'
<1> SUFFICES ASSUME IInv, [Next]_vars PROVE IInv'
  OBVIOUS
<1>1. CASE UNCHANGED vars
  BY <1>1 DEF vars, IInv, TypeOK, Fine, Watched, InHand, ToTreat, Seen, Older, Held,
              ClosedBelow
<1>2. CASE Next
  <2>1. CASE \E rule \in Rules : FileIssue(rule)
    BY <2>1, FileIssueKeeps
  <2>2. ASSUME NEW n \in DOMAIN issues, Supersede(n) PROVE IInv'
    <3>1. CASE CloseIssue(n)
      BY <3>1, CloseKeeps
    <3>2. CASE ~CloseIssue(n)
      <4>1. \/ ViewCanonical(n) \/ ListCandidates(n)
            \/ \E m \in run[n].todo : ViewCandidate(n, m)
            \/ FindLinkedPRs(n) \/ LookupFails(n) \/ PostComment(n)
            \/ FinishRun(n) \/ RunFails(n) \/ Rerun(n)
        BY <2>2, <3>2 DEF Supersede
      <4> QED
        BY <4>1, SupersederKeeps
    <3> QED
      BY <3>1, <3>2
  <2>3. ASSUME NEW n \in DOMAIN issues, People(n) PROVE IInv'
    BY <2>3, PeopleKeep
  <2> QED
    BY <1>2, <2>1, <2>2, <2>3 DEF Next
<1> QED
  BY <1>1, <1>2

\* The windows, the candidates and the closers stay in order.
THEOREM SecurityInvariance == Spec => []IInv
BY Initially, StepKeeps, PTL DEF Spec

\* Every variable keeps its shape (TypeOK).
THEOREM SecurityTypeCorrect == Spec => []TypeOK
<1>1. IInv => TypeOK
  BY DEF IInv
<1> QED
  BY <1>1, SecurityInvariance, PTL

\* Superseders never take a rule's last report away
\* (supersede-security-issues.sh): the newest issue of a closed issue's rule was
\* never closed by a superseder, for its closer would be newer still.
THEOREM NewestReportAlwaysSurvives == Spec => []NewestReportSurvives
<1>1. IInv => NewestReportSurvives
  <2> SUFFICES ASSUME IInv, NEW n \in DOMAIN issues, issues[n].closer # 0
               PROVE  \E m \in DOMAIN issues :
                         m > n /\ issues[m].rule = issues[n].rule /\ issues[m].closer = 0
    BY DEF NewestReportSurvives
  <2>1. DOMAIN issues = 1 .. Len(issues) /\ Len(issues) \in Nat /\ ClosedBelow(issues)
    BY Shapes DEF IInv
  <2> DEFINE T == {m \in DOMAIN issues : m > n /\ issues[m].rule = issues[n].rule}
  <2>2. issues[n].closer \in T
    BY <2>1 DEF ClosedBelow
  <2>3. PICK m \in T : \A l \in T : l <= m
    BY <2>1, <2>2, NewestExists
  <2>4. issues[m].closer = 0
    <3> SUFFICES ASSUME issues[m].closer # 0 PROVE FALSE
      OBVIOUS
    <3>1. issues[m].closer \in DOMAIN issues /\ issues[m].closer > m
          /\ issues[issues[m].closer].rule = issues[m].rule
      BY <2>1 DEF ClosedBelow
    <3>2. issues[m].closer \in T
      BY <2>1, <3>1
    <3> QED
      BY <2>1, <2>3, <3>1, <3>2
  <2> QED
    BY <2>4
<1> QED
  BY <1>1, SecurityInvariance, PTL

\* A run that finishes leaves open only what it may (process_superseded_issue).
THEOREM OlderReportsAlwaysClosed == Spec => []OlderReportsClosed
<1>1. IInv => OlderReportsClosed
  <2> SUFFICES ASSUME IInv, NEW c \in DOMAIN issues, run[c].phase = "done"
               PROVE  OlderOfRule(c) \subseteq window[c].excused
    BY DEF OlderReportsClosed
  <2>1. Fine(issues, c, run[c], window[c])
    BY DEF IInv
  <2>2. Older(issues, c) \subseteq window[c].excused
    BY <2>1 DEF Fine, ToTreat, Held, Holding
  <2> QED
    BY <2>2 DEF OlderOfRule, Older
<1> QED
  BY <1>1, SecurityInvariance, PTL

\* No issue is closed that was to be kept, or had its pull request, all the time
\* since the run began (issue_should_stay_open).
THEOREM WantedIssuesAlwaysStayOpen == Spec => WantedIssuesStayOpen
<1> DEFINE Wanted ==
      \A n \in DOMAIN issues :
          issues[n].closer = 0 /\ issues'[n].closer # 0 =>
             LET w == window[issues'[n].closer] IN
             n \in w.unkept /\ (n \in w.unlinked \/ w.blind)
<1>1. IInv /\ [Next]_vars => [Wanted]_vars
  <2> SUFFICES ASSUME IInv, Next, NEW n \in DOMAIN issues,
                      issues[n].closer = 0, issues'[n].closer # 0
               PROVE  LET w == window[issues'[n].closer] IN
                      n \in w.unkept /\ (n \in w.unlinked \/ w.blind)
    OBVIOUS
  <2>1. DOMAIN issues = 1 .. Len(issues) /\ Len(issues) \in Nat /\ issues \in Seq(Issue)
        /\ \A d \in DOMAIN issues : issues[d] \in Issue /\ Fine(issues, d, run[d], window[d])
    BY Shapes DEF IInv, TypeOK
  <2>2. CASE \E rule \in Rules : FileIssue(rule)
    <3>1. PICK rule \in Rules : issues' = Append(issues, NewIssue(rule))
      BY <2>2 DEF FileIssue
    <3>2. NewIssue(rule) \in Issue
      BY DEF NewIssue, Issue
    <3>3. issues'[n] = issues[n]
      BY <2>1, <3>1, <3>2, AppendProperties
    <3> QED
      BY <3>3
  <2>3. CASE \E m \in DOMAIN issues : People(m)
    <3> PICK m \in DOMAIN issues : People(m)
      BY <2>3
    <3>1. PICK new : issues' = [issues EXCEPT ![m] = new] /\ new.closer \in {0, issues[m].closer}
      <4> DEFINE old == issues[m]
      <4>1. ASSUME NEW new, Act(m, new), new.closer \in {0, old.closer}
            PROVE  \E x : issues' = [issues EXCEPT ![m] = x] /\ x.closer \in {0, issues[m].closer}
        BY <4>1 DEF Act
      <4>2. /\ [old EXCEPT !.keep = ~@].closer = old.closer
            /\ [old EXCEPT !.fix = TRUE].closer = old.closer
            /\ \A merged \in BOOLEAN :
                 [old EXCEPT !.fix = FALSE, !.open = @ /\ ~merged].closer = old.closer
            /\ [old EXCEPT !.open = FALSE].closer = old.closer
            /\ [old EXCEPT !.open = TRUE, !.closer = 0].closer = 0
        BY <2>1 DEF Issue
      <4>3. CASE ToggleKeep(m)
        BY <4>1, <4>2, <4>3 DEF ToggleKeep
      <4>4. CASE OpenFix(m)
        BY <4>1, <4>2, <4>4 DEF OpenFix
      <4>5. CASE EndFix(m)
        BY <4>1, <4>2, <4>5 DEF EndFix
      <4>6. CASE CloseByHand(m)
        BY <4>1, <4>2, <4>6 DEF CloseByHand
      <4>7. CASE Reopen(m)
        BY <4>1, <4>2, <4>7 DEF Reopen
      <4> QED
        BY <4>3, <4>4, <4>5, <4>6, <4>7 DEF People
    <3>2. issues'[n].closer \in {0, issues[n].closer}
      BY <2>1, <3>1
    <3> QED
      BY <3>2
  <2>4. CASE \E c \in DOMAIN issues : CloseIssue(c)
    <3> PICK c \in DOMAIN issues : CloseIssue(c)
      BY <2>4
    <3>1. /\ run[c].phase = "closing"
          /\ issues' = [issues EXCEPT ![run[c].at] =
                          IF @.open THEN [@ EXCEPT !.open = FALSE, !.closer = c] ELSE @]
      BY DEF CloseIssue
    <3>2. n = run[c].at /\ issues'[n].closer = c
      BY <2>1, <3>1 DEF Issue
    <3>3. run[c].at \in window[c].unkept
          /\ (run[c].at \in window[c].unlinked \/ window[c].blind)
      BY <2>1, <3>1 DEF Fine, InHand, Holding
    <3> QED
      BY <3>2, <3>3
  <2>5. CASE issues' = issues
    BY <2>5
  <2>6. ASSUME NEW c \in DOMAIN issues, Supersede(c), ~CloseIssue(c)
        PROVE  issues' = issues
    BY <2>6 DEF Supersede, ViewCanonical, ListCandidates, ViewCandidate, FindLinkedPRs,
                LookupFails, PostComment, FinishRun, RunFails, Rerun
  <2> QED
    BY <2>2, <2>3, <2>4, <2>5, <2>6 DEF Next
<1> QED
  BY <1>1, SecurityInvariance, PTL DEF Spec, WantedIssuesStayOpen
=============================================================================
