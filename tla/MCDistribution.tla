-------------------------- MODULE MCDistribution --------------------------
EXTENDS Distribution

MCOrgs == {"obs", "docs"}
MCPaths == {"pr", "run"}
MCPins == {"v0", "v1"}

\* A state of the repository in which every repository of rs is in os.
C(rs, os, obs, docs, detective, pin) ==
    [orgs |-> [r \in Repos |-> IF r \in rs THEN os ELSE {}],
     tree |-> [o \in MCOrgs |-> IF o = "obs" THEN obs ELSE docs],
     detective |-> detective,
     pin |-> [r \in Repos |-> pin]]

Full    == C(Repos, {"obs"}, {"pr", "run"}, {}, Repos, "v0")
Newer   == C(Repos, {"obs"}, {"pr", "run"}, {}, Repos, "v1")
Gated   == C(Repos, {"obs"}, {"pr", "run"}, {}, {}, "v0")
Shrunk  == C(Repos, {"obs", "docs"}, {}, {"run"}, Repos, "v0")
Left    == C({}, {}, {"pr", "run"}, {}, {}, "v0")
Clash   == C(Repos, {"obs", "docs"}, {"pr", "run"}, {"run"}, Repos, "v0")
NoTrig  == C(Repos, {"obs"}, {"pr"}, {}, Repos, "v0")

AllConfigs == {Full, Newer, Gated, Left, Clash, NoTrig}
Shrinking == {Full, Newer, Shrunk}
=============================================================================
