------------------------- MODULE PermissionCeilings -------------------------
(***************************************************************************)
(* scripts/workflow_permissions.py and validate_aw_workflow_permissions.py:*)
(* CI compares the permissions of every job that calls a reusable workflow *)
(* with what the workflow requires; GitHub refuses to start a run in which *)
(* a called workflow asks for more than the job that calls it grants.      *)
(*                                                                         *)
(* A workflow is [root, jobs], a job [perms, uses]; perms is the job's own *)
(* permissions block if any and uses the workflow it calls if any.  flows  *)
(* maps the workflow files of a tree to their content.                     *)
(***************************************************************************)
EXTENDS Naturals

CONSTANT Scopes  \* permission scopes

Permissions == [Scopes -> 0..2]  \* PERMISSION_LEVELS, 0 for a scope not named
Nothing == [s \in Scopes |-> 0]

\* The shape of a workflow of the tree.  That a job which calls a workflow has
\* no empty block is so in the repository; the check would read it as none.
Workflow(flows, w) ==
    /\ w.root \in Permissions
    /\ \A j \in w.jobs :
        /\ j.perms \subseteq Permissions /\ \A p, q \in j.perms : p = q
        /\ j.uses \subseteq DOMAIN flows
        /\ j.uses # {} => Nothing \notin j.perms

\* An empty block of a job counts as no block.
effective_job_permissions(w, j) ==
    IF j.perms \subseteq {Nothing} THEN w.root ELSE CHOOSE p \in j.perms : TRUE

permission_deficits(caller, required) ==
    {s \in Scopes : caller[s] < required[s]}

\* The workflows w calls, directly or not, and w itself.
Callees(flows, w) ==
    {v \in DOMAIN flows :
        \A S \in SUBSET DOMAIN flows :
            (/\ w \in S
             /\ \A u \in S : \A j \in flows[u].jobs : j.uses \subseteq S)
            => v \in S}

\* The largest level any job asks for, nested workflows included.
callee_requirements(flows, w) ==
    LET asked(s) == UNION {
            {effective_job_permissions(flows[v], j)[s] : j \in flows[v].jobs} :
            v \in Callees(flows, w)}
    IN  [s \in Scopes |-> CHOOSE l \in asked(s) \union {0} :
                              \A m \in asked(s) : m <= l]

validate_workflow_file(flows, w) ==
    \A j \in w.jobs : \A v \in j.uses :
        permission_deficits(effective_job_permissions(w, j),
                            callee_requirements(flows, v)) = {}

\* The workflows of the tree and the templates of its clients.
PermissionsAligned(flows, templates) ==
    /\ \A v \in DOMAIN flows : validate_workflow_file(flows, flows[v])
    /\ \A w \in templates : validate_workflow_file(flows, w)

\* Mutant: the templates are not scanned.
AlignedInTree(flows, templates) ==
    \A v \in DOMAIN flows : validate_workflow_file(flows, flows[v])

-----------------------------------------------------------------------------
(* GitHub *)

Granted(w, j) == IF j.perms = {} THEN w.root ELSE CHOOSE p \in j.perms : TRUE

\* No job of the workflow v exceeds what the calling job j of w grants.
CallAccepted(flows, w, j, v) ==
    \A k \in flows[v].jobs : \A s \in Scopes :
        Granted(flows[v], k)[s] <= Granted(w, j)[s]

\* Every call in the chain is checked, those of jobs an if: skips as well.
StartAccepted(flows, client) ==
    /\ \A j \in client.jobs : \A v \in j.uses :
        /\ CallAccepted(flows, client, j, v)
        /\ \A u \in Callees(flows, v) :
            \A k \in flows[u].jobs : \A x \in k.uses :
                CallAccepted(flows, flows[u], k, x)
=============================================================================
