-------------------------- MODULE AssetResolution ---------------------------
(***************************************************************************)
(* What aw-resolve-agentic-assets.yml computes for one agent: from the     *)
(* registries and instruction fragments of a commit of elastic/oblt-aw,    *)
(* the apm.yml of the consumer and what the calling wrapper passes, the    *)
(* instructions, inputs and setup commands the agent is given.             *)
(*                                                                         *)
(* An optional value is a set with at most one element, a mapping of a     *)
(* YAML or JSON file a function on its keys.  A text, a policy or a        *)
(* command is a value of its own, a fragment is named by what it says, and *)
(* the layers of a prompt keep apart what the code joins with blank lines. *)
(***************************************************************************)
EXTENDS Naturals, Sequences, FiniteSets

CONSTANTS
    Orgs,     \* directories of config/ with a registry
    Rank,     \* Rank[o]: position of o among the org keys, sorted
    Prefix,   \* Prefix[f]: what precedes -aw- in the basename f
    Autodoc   \* AUTODOC_WORKFLOW_ID

Optional(S) == \A x, y \in S : x = y
Only(S) == CHOOSE x \in S : TRUE
Instructions == "additional-instructions"

-----------------------------------------------------------------------------
(* workflow_registry.py.  A workflow of a registry is [id, files, subs],   *)
(* a sub-feature [id, files]; a registry is [include, local] and           *)
(* t.services are those of config/common/services.json.                    *)

expand_org_workflow_dicts(t, o) ==
    {w \in t.services : w.id \in t.registry[o].include}
        \union t.registry[o].local

\* Index entries: the gating id of a basename in an org; no sub-feature is "".
Entries(t) ==
    UNION {UNION {
        {[file |-> f, org |-> o, id |-> w.id, sub |-> ""] : f \in w.files}
        \union UNION {
            {[file |-> f, org |-> o, id |-> w.id, sub |-> s.id] : f \in s.files} :
            s \in w.subs}
        : w \in expand_org_workflow_dicts(t, o)} : o \in Orgs}

\* Two registrations of a basename agree but for the org.
Conflict(e, d) ==
    /\ e.file = d.file /\ e # d
    /\ \/ e.id # d.id \/ e.sub # d.sub
       \/ e.org = d.org

DistinctIds(S) == \A v, w \in S : v.id = w.id => v = w

RegistriesParse(t) ==
    /\ DistinctIds(t.services)
    /\ \A o \in Orgs :
        /\ t.registry[o].include \subseteq {w.id : w \in t.services}
        /\ DistinctIds(expand_org_workflow_dicts(t, o))
        /\ \A w \in expand_org_workflow_dicts(t, o) :
            /\ w.files # {} /\ DistinctIds(w.subs)
            /\ \A s \in w.subs : s.files \intersect w.files = {}
    /\ \A e, d \in Entries(t) : ~Conflict(e, d)

EntriesOf(t, f) == {e \in Entries(t) : e.file = f}

\* Mutant: the org that sorts first, whatever the basename says.
PreferLowest(S, f) == CHOOSE e \in S : \A d \in S : Rank[e.org] <= Rank[d.org]

prefer_index_entry(S, f) ==
    IF \E e \in S : e.org = Prefix[f]
    THEN CHOOSE e \in S : e.org = Prefix[f]
    ELSE CHOOSE e \in S : \A d \in S : Rank[e.org] <= Rank[d.org]

\* key: the org-key passed, or {}.
CompoundIds(t, f, key) ==
    LET S == EntriesOf(t, f) IN
    CASE S = {}    -> {}
      [] key # {}  -> {e \in S : e.org \in key}
      [] OTHER     -> {prefer_index_entry(S, f)}

validate_workflow_id(t, o, id) ==
    LET known == {w.id : w \in expand_org_workflow_dicts(t, o)}
    IN  known # {} => id \in known

-----------------------------------------------------------------------------
(* instruction_fragments.py.  t.maps[o] is the org's fragment map          *)
(* [common, workflows], if any, where workflows[id] is [fragments, inner]; *)
(* t.bodies[o] are the fragments with a Markdown file.                     *)

\* Mutant: the basename of the wrapper is not looked up.
OuterFragmentIds(map, id, f) ==
    LET listed == id \in DOMAIN map.workflows
    IN  [common |-> map.common,
         workflow |-> IF listed THEN map.workflows[id].fragments ELSE {},
         inner |-> {}]

resolve_control_plane_fragment_ids(map, id, f) ==
    LET listed == id \in DOMAIN map.workflows
        entry == map.workflows[id]
    IN  [common |-> map.common,
         workflow |-> IF listed THEN entry.fragments ELSE {},
         inner |-> IF listed /\ f \in DOMAIN entry.inner
                   THEN entry.inner[f] ELSE {}]

NoFragments == [common |-> {}, workflow |-> {}, inner |-> {}]

FragmentIds(t, e) ==
    IF t.maps[e.org] = {} THEN NoFragments
    ELSE resolve_control_plane_fragment_ids(Only(t.maps[e.org]), e.id, e.file)

AllOf(ids) == ids.common \union ids.workflow \union ids.inner

FragmentsReadable(t, e) == AllOf(FragmentIds(t, e)) \subseteq t.bodies[e.org]

-----------------------------------------------------------------------------
(* apm_agentic_assets.py.  c.apm maps the manifests that exist to their    *)
(* content: the x-oblt-aw extension, if any, as [flat, orgs]; orgs[o] is   *)
(* [common, workflows, fragments].  c.files maps the paths of the checkout *)
(* to their text, c.ignore are the patterns of .oblt-aw.autodocignore.     *)

EmptyBlock == [fragments |-> {}, inputs |-> <<>>, setup |-> <<>>, script |-> {}]

\* The extension of the manifest that counts, or {}.
load_apm_manifest(c) ==
    CASE "apm.yml" \in DOMAIN c.apm  -> c.apm["apm.yml"]
      [] "apm.yaml" \in DOMAIN c.apm -> c.apm["apm.yaml"]
      [] OTHER                       -> {}

Blocks(x) ==
    x.common \union UNION {{w.block} \union {w.inner[f] : f \in DOMAIN w.inner} :
                             w \in {x.workflows[i] : i \in DOMAIN x.workflows}}

\* The shape of a manifest's extension.
Checkout(c) ==
    /\ Optional(load_apm_manifest(c))
    /\ \A x \in load_apm_manifest(c) : \A o \in DOMAIN x.orgs :
        /\ Optional(x.orgs[o].common)
        /\ \A b \in Blocks(x.orgs[o]) : Len(b.inputs) \in Nat

LegacyFlat(c) == \E x \in load_apm_manifest(c) : x.flat

OrgExtension(c, o) ==
    UNION {IF o \in DOMAIN x.orgs THEN {x.orgs[o]} ELSE {} :
             x \in load_apm_manifest(c)}

\* Mutant: the inputs of common are merged into the block of a workflow.
SelectMerged(x, e) ==
    LET listed == e.id \in DOMAIN x.workflows
        w == x.workflows[e.id]
        shared == IF x.common = {} THEN <<>> ELSE Only(x.common).inputs
    IN  CASE listed /\ e.file \in DOMAIN w.inner ->
               [grain |-> "inner-workflow", block |-> w.inner[e.file]]
          [] listed /\ e.file \notin DOMAIN w.inner ->
               [grain |-> "workflow", block |-> [w.block EXCEPT !.inputs = shared \o @]]
          [] ~listed /\ x.common # {} ->
               [grain |-> "common", block |-> Only(x.common)]
          [] OTHER -> [grain |-> "none", block |-> EmptyBlock]

\* The block chosen and its grain; a coarser grain adds nothing to a finer.
select_asset_block(x, e) ==
    LET listed == e.id \in DOMAIN x.workflows
        w == x.workflows[e.id]
    IN  CASE listed /\ e.file \in DOMAIN w.inner ->
               [grain |-> "inner-workflow", block |-> w.inner[e.file]]
          [] listed /\ e.file \notin DOMAIN w.inner ->
               [grain |-> "workflow", block |-> w.block]
          [] ~listed /\ x.common # {} ->
               [grain |-> "common", block |-> Only(x.common)]
          [] OTHER -> [grain |-> "none", block |-> EmptyBlock]

Selected(c, e) ==
    IF OrgExtension(c, e.org) = {} THEN [grain |-> "none", block |-> EmptyBlock]
    ELSE select_asset_block(Only(OrgExtension(c, e.org)), e)

FragmentPaths(c, e) ==
    LET map == Only(OrgExtension(c, e.org)).fragments
    IN  {map[i] : i \in Selected(c, e).block.fragments}

\* What a block needs is there: its fragments in the map of the org, and the
\* files it names in the checkout.
BlockReadable(c, e) ==
    LET b == Selected(c, e).block IN
    /\ b.fragments # {} =>
        /\ b.fragments \subseteq DOMAIN Only(OrgExtension(c, e.org)).fragments
        /\ FragmentPaths(c, e) \subseteq DOMAIN c.files
    /\ \A i \in 1..Len(b.inputs) :
        b.inputs[i].file => b.inputs[i].value \in DOMAIN c.files
    /\ b.script \subseteq DOMAIN c.files

ConsumerFragments(c, e) ==
    IF Selected(c, e).block.fragments = {} THEN {}
    ELSE {c.files[p] : p \in FragmentPaths(c, e)}

\* x and x-file give the same input; the later key of the mapping wins.
materialize_inputs(c, raw) ==
    [k \in {raw[i].key : i \in 1..Len(raw)} |->
        LET last == CHOOSE i \in 1..Len(raw) :
                        /\ raw[i].key = k
                        /\ \A j \in (i + 1)..Len(raw) : raw[j].key # k
        IN  IF raw[last].file THEN c.files[raw[last].value] ELSE raw[last].value]

extract_setup_commands(c, b) ==
    b.setup \o IF b.script = {} THEN <<>> ELSE <<c.files[Only(b.script)]>>

merge_platform_and_apm_inputs(platform, apm) ==
    LET own == DOMAIN apm \ {Instructions}
    IN  [k \in DOMAIN platform \union own |->
            IF k \in own THEN apm[k] ELSE platform[k]]

-----------------------------------------------------------------------------
(* agentic_assets_resolver.py: the whole of one resolution.  call is what  *)
(* the wrapper passes, [inline, inputs]; e the index entry of the basename.*)

Layers == {"control-plane-common", "control-plane-workflow",
           "control-plane-inner-workflow", "platform-inline",
           "consumer-fragments", "consumer-inline", "consumer-auto"}
PlatformLayers == {"control-plane-common", "control-plane-workflow",
                   "control-plane-inner-workflow", "platform-inline"}

resolve_autodocignore_instructions(c, e) ==
    IF e.id = Autodoc /\ e.sub = "" THEN c.ignore ELSE {}

compose_additional_instructions(t, c, e, call) ==
    LET ids == FragmentIds(t, e)
        apm == materialize_inputs(c, Selected(c, e).block.inputs)
    IN  [l \in Layers |->
          CASE l = "control-plane-common"         -> ids.common
            [] l = "control-plane-workflow"       -> ids.workflow
            [] l = "control-plane-inner-workflow" -> ids.inner
            [] l = "platform-inline"              -> call.inline
            [] l = "consumer-fragments"           -> ConsumerFragments(c, e)
            [] l = "consumer-inline"              ->
                 IF Instructions \in DOMAIN apm THEN {apm[Instructions]} ELSE {}
            [] l = "consumer-auto" -> resolve_autodocignore_instructions(c, e)]

Resolvable(t, c, e) ==
    /\ FragmentsReadable(t, e)
    /\ validate_workflow_id(t, e.org, e.id)
    /\ ~LegacyFlat(c)
    /\ BlockReadable(c, e)

resolve_agentic_assets(t, c, e, call) ==
    LET s == Selected(c, e)
        apm == materialize_inputs(c, s.block.inputs)
    IN  [entry |-> e, source |-> s.grain,
         layers |-> compose_additional_instructions(t, c, e, call),
         inputs |-> merge_platform_and_apm_inputs(call.inputs, apm),
         setup |-> extract_setup_commands(c, s.block)]

\* The job's outputs; it has none when a step of it fails.
Resolution(t, c, f, key, call) ==
    {resolve_agentic_assets(t, c, e, call) :
        e \in {d \in CompoundIds(t, f, key) : Resolvable(t, c, d)}}
=============================================================================
