------------------------------ MODULE MCServer ------------------------------
(* Instances of Server.                                                    *)
EXTENDS Server

CONSTANT MaxBody

\* A mirror open to everybody with a part that is not.
NestedRoutes ==
     <<"npm">> :> [ecosystem |-> "npm", anonymous |-> FALSE]
  @@ <<"pypi">> :> [ecosystem |-> "pypi", anonymous |-> FALSE]
  @@ <<"static">> :> [ecosystem |-> "static", anonymous |-> TRUE]
  @@ <<"static", "inner">> :> [ecosystem |-> "static", anonymous |-> FALSE]

Metadata == {<<"npm", "meta">>, <<"pypi", "meta">>}
Artifact == <<"npm", "tgz">>
Paths == {Artifact, <<"static", "zip">>, <<"static", "inner", "zip">>,
          <<"tgz">>, <<"other">>}
Explained == {Artifact, <<"static", "zip">>, <<"static", "inner", "zip">>,
              <<"npm", "meta">>, <<"other">>}

\* Write timeouts from none to more than all parts of the budget.
AllConfigs ==
  [write : 0 .. 4, osv : BOOLEAN, cache : BOOLEAN, cooldown : BOOLEAN,
   cluster : BOOLEAN]
Typical == [write |-> 4, osv |-> TRUE, cache |-> TRUE, cooldown |-> FALSE,
            cluster |-> FALSE]
Least == [write |-> 2, osv |-> FALSE, cache |-> FALSE, cooldown |-> FALSE,
          cluster |-> FALSE]

Sample == [traffic |-> "proxy", signals |-> FALSE, auth |-> {},
           cfg |-> Typical, path |-> Artifact, cred |-> "none",
           form |-> "plain"]
AnyAuth == SUBSET {"bearer", "basic"}

\* Who may see what; every configuration; every form of a request; every body;
\* the end of the server; and /explain.
AllScenarios ==
       {[Sample EXCEPT !.cfg = Least, !.auth = a, !.path = p, !.cred = c] :
          a \in AnyAuth, p \in Paths, c \in Credential}
  \cup {[Sample EXCEPT !.cfg = c] : c \in AllConfigs}
  \cup {[Sample EXCEPT !.form = f] : f \in Form}
  \cup {[Sample EXCEPT !.path = p] : p \in Metadata}
  \cup {[Sample EXCEPT !.signals = TRUE]}
  \cup {[Sample EXCEPT !.traffic = "explain", !.auth = a, !.path = p] :
          a \in {{}, {"bearer"}}, p \in Explained}

OneArtifact == {[Sample EXCEPT !.cfg.cluster = TRUE]}

ShortBodies == UNION {[1 .. n -> {"h", "s", "/"}] : n \in 0 .. MaxBody}
OneFile == <<"h", "s", "/">>
=============================================================================
