----------------------------- MODULE ReleaseLine -----------------------------
(***************************************************************************)
(* What the release train promises its consumers: production runs one      *)
(* release, one earlier release is kept to fall back to, and issued        *)
(* releases are totally ordered.  ReleaseTrain implements it.              *)
(***************************************************************************)
EXTENDS Naturals

VARIABLES
    current,   \* the release production is pointed at
    previous,  \* the release a rollback returns to
    issued     \* every release production has been pointed at

vars == <<current, previous, issued>>

Semver == Nat \X Nat \X Nat
Release == [sha : Nat, semver : Semver]

Older(s, t) ==
    \/ s[1] < t[1]
    \/ s[1] = t[1] /\ s[2] < t[2]
    \/ s[1] = t[1] /\ s[2] = t[2] /\ s[3] < t[3]

Init == issued \in {{}, {current, previous}}

\* Nothing issued before is as new as the release, by commit or by semver.
IssueNew(release) ==
    /\ \A i \in issued : i.sha < release.sha /\ Older(i.semver, release.semver)
    /\ current' = release
    /\ previous' = IF issued = {} THEN release ELSE current
    /\ issued' = issued \union {release}

FallBack ==
    /\ {current, previous} \subseteq issued
    /\ previous # current
    /\ current' = previous
    /\ previous' = current
    /\ UNCHANGED issued

Next == FallBack \/ IssueNew(current')

Spec == Init /\ [][Next]_vars
=============================================================================
