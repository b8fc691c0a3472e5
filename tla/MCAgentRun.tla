----------------------------- MODULE MCAgentRun -----------------------------
(* Autodoc, whose two agents share a wrapper, and a review that one org     *)
(* owns and another opts into, over the commits a maintainer may make.      *)
EXTENDS AgentRun, TLC

MCOrgs == {"obs", "docs"}
MCRank == [docs |-> 1, obs |-> 2]
AutodocFile == "obs-aw-autodoc.yml"
ReviewFile == "obs-aw-review.yml"
MCPrefix == (AutodocFile :> "obs") @@ (ReviewFile :> "obs")
MCScopes == {"contents", "issues"}

W(id, f) == [id |-> id, files |-> {f}, subs |-> {}]
Review == W("review", ReviewFile)
Call1(inline, mode) == [inline |-> inline, inputs |-> [mode |-> mode]]
Wrapper(f, keyed, steps) == [basename |-> f, keyed |-> keyed, steps |-> steps]
Wrappers(keyed, fix) ==
    (AutodocFile :> Wrapper(AutodocFile, FALSE, <<Call1({}, "strict"), Call1(fix, "brief")>>)) @@
    (ReviewFile :> Wrapper(ReviewFile, keyed, <<Call1({"format"}, "strict")>>))

P(contents) == [contents |-> contents, issues |-> 2]
Flow(p, uses) == [root |-> P(1), jobs |-> {[perms |-> {p}, uses |-> uses]}]
Flows(level) == [event |-> Flow(P(level), {"lock"}),
                 lock |-> [root |-> Nothing,
                           jobs |-> {[perms |-> {P(level)}, uses |-> {}],
                                     [perms |-> {Nothing}, uses |-> {}]}]]
Templates(level) == [o \in MCOrgs |-> Flow(P(level), {"event"})]

NoMap == [o \in MCOrgs |-> {}]
Map(common, id, ids) ==
    [obs |-> {[common |-> common,
               workflows |-> id :> [fragments |-> ids,
                                    inner |-> AutodocFile :> {"draft"}]]},
     docs |-> {}]
Bodies(ids) == [obs |-> ids, docs |-> {}]

\* One org, no fragments, the policy on drafts inline.
Base == [services |-> {},
         registry |-> [obs |-> [include |-> {}, local |-> {W("autodoc", AutodocFile), Review}],
                       docs |-> [include |-> {}, local |-> {}]],
         maps |-> NoMap, bodies |-> Bodies({}),
         wrappers |-> Wrappers(FALSE, {"draft"}),
         routes |-> [obs |-> {AutodocFile, ReviewFile}, docs |-> {}],
         flows |-> Flows(1), templates |-> Templates(1)]
\* The review is shared and told its org; the policy moved to a fragment.
Shared == [Base EXCEPT
    !.services = {Review},
    !.registry = [obs |-> [include |-> {"review"}, local |-> {W("autodoc", AutodocFile)}],
                  docs |-> [include |-> {"review"}, local |-> {}]],
    !.maps = Map({"style"}, "autodoc", {"tone"}),
    !.bodies = Bodies({"style", "tone", "draft"}),
    !.wrappers = Wrappers(TRUE, {}),
    !.routes = [obs |-> {AutodocFile, ReviewFile}, docs |-> {ReviewFile}]]
\* A mapped fragment without its file; the agents need to write contents.
Bodiless == [Shared EXCEPT !.bodies = Bodies({"style"}), !.flows = Flows(2),
                           !.templates = Templates(2)]
\* The policy goes back inline; the wrapper is registered under another id.
Renamed == [Shared EXCEPT
    !.registry.obs.local = {W("upkeep", AutodocFile)},
    !.maps = NoMap, !.wrappers = Wrappers(TRUE, {"draft"})]
\* The org that owns the review opts out and leaves the route in place.
DocsOnly == [Shared EXCEPT !.registry.obs.include = {}]
\* Refused by CI: two ids for a basename, clients that grant too little.
Clash == [Shared EXCEPT !.registry.docs.local = {W("upkeep", AutodocFile)}]
Narrow == [Base EXCEPT !.flows = Flows(2)]

MCTrees == {Base, Shared, Bodiless, Renamed, DocsOnly, Clash, Narrow}

Input(k, file, v) == [key |-> k, file |-> file, value |-> v]
Block(fragments, inputs, setup, script) ==
    [fragments |-> fragments, inputs |-> inputs, setup |-> setup, script |-> script]
Common == Block({"ci"}, <<Input("mode", FALSE, "lax"), Input(Instructions, FALSE, "be kind")>>,
                <<"npm ci">>, {})
Own == Block({"conv"}, <<Input(Instructions, FALSE, "old"), Input("depth", FALSE, "deep"),
                         Input(Instructions, TRUE, "extra.md")>>, <<"make">>, {"setup.sh"})
Ext(common, workflows) ==
    [flat |-> FALSE, orgs |-> [obs |-> [common |-> common, workflows |-> workflows,
                                        fragments |-> [conv |-> "conv.md", ci |-> "ci.md"]]]]
Repo(apm, files, ignore) == [apm |-> apm, files |-> files, ignore |-> ignore]
RepoFiles == ("conv.md" :> "conventions") @@ ("ci.md" :> "checks") @@
             ("extra.md" :> "extra") @@ ("setup.sh" :> "setup")

Plain == Repo(<<>>, <<>>, {})
Listed == Ext({Common}, [autodoc |-> [block |-> Own, inner |-> <<>>]])
Legacy == [flat |-> TRUE, orgs |-> <<>>]
Tuned == Repo([x \in {"apm.yml", "apm.yaml"} |-> IF x = "apm.yml" THEN {Listed} ELSE {Legacy}],
              RepoFiles, {"gen/**"})
Inner == Repo("apm.yaml" :> {Ext({Common}, [autodoc |->
                [block |-> Own, inner |-> AutodocFile :> EmptyBlock]])},
              RepoFiles, {})
Broken == Repo("apm.yml" :> {Listed}, [x \in {"conv.md", "ci.md"} |-> RepoFiles[x]], {})
Flat == Repo("apm.yml" :> {Legacy}, <<>>, {})
MCConsumers == {Plain, Tuned, Inner, Broken, Flat}
=============================================================================
