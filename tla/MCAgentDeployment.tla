-------------------------- MODULE MCAgentDeployment --------------------------
(* An Agent whose sub-agents include names that collide once sanitized, whose *)
(* metadata claims the operator's own keys, whose lists break the rules of    *)
(* the API server, and whose Deployment others touch or had before.           *)
EXTENDS AgentDeployment

CONSTANTS x, y, u, w, m, n, g1, p1, p2, a1, a2, v1, v2, d1, c1, c2, run, init,
          bad   \* a name, key or value with characters that are not allowed

SelfName == <<"b", "-", "a">>

Meta(labels, annotations) == [labels |-> labels, annotations |-> annotations]
Plain == Meta(Empty, Empty)
Entry(name, value) == [name |-> name, value |-> value]
Protocol(name, port) == [name |-> name, port |-> port]
Storage(volumes, mounts) == [volumes |-> volumes, mounts |-> mounts]
MountAt(name, path) == [name |-> name, path |-> path]

First == [framework |-> "google-adk", model |-> m, protocols |-> <<Protocol(a1, p1)>>,
          storage |-> Storage(<<>>, <<>>), replicas |-> None,
          common |-> Plain, pod |-> Plain, env |-> <<>>, subs |-> <<>>, tools |-> <<>>]

ChoicesOfFields ==
  [framework |-> {"google-adk", "msaf"}, model |-> {m, n},
   protocols |-> {<<Protocol(a1, p1)>>, <<>>, <<Protocol(a1, p1), Protocol(a1, p1)>>,
                  <<Protocol(a1, p2), Protocol(a2, p2)>>},
   storage |-> {Storage(<<>>, <<>>), Storage(<<v1>>, <<MountAt(v1, d1)>>),
                Storage(<<v1, v2>>, <<MountAt(v1, d1), MountAt(v2, d1)>>)},
   replicas |-> {None, 2},
   common |-> {Plain, Meta([team |-> x], [note |-> x]),
               Meta([app |-> x, framework |-> bad], Empty)},
   pod |-> {Plain, Meta([team |-> y], [note |-> y]),
            Meta([app |-> y, run |-> x, framework |-> x], Empty)},
   env |-> {<<>>, <<Entry("AGENT_MODEL", u), Entry("AGENT_MODEL", w)>>,
            <<Entry("SUB_AGENTS", u), Entry("MY_VAR", w)>>},
   subs |-> {<<>>, <<Entry(<<"a", "-", "b">>, x), Entry(<<"a", "-", "a">>, y)>>,
             <<Entry(<<"a", "-", "b">>, x), Entry(<<"a", ".", "b">>, y), Entry(<<"1">>, y)>>},
   tools |-> {<<>>, <<Entry("t", x), Entry("s", y)>>, <<Entry("t", x), Entry("t", y)>>}]

\* A Deployment somebody created before the Agent, with a selector and a container of its own
Found == [NewDeployment EXCEPT
            !.selector = [run |-> x],
            !.template.labels = [run |-> x], !.template.sidecars = {c1}, !.replicas = 1]

\* One that could be the operator's, with an agent container that others configured
Prepared == [NewDeployment EXCEPT
               !.meta.labels = [team |-> w],
               !.template.labels = SelectorLabels, !.template.annotations = [note |-> w],
               !.template.pod = init,
               !.template.agent = [env |-> [AGENT_TOOLS |-> w], ports |-> <<>>,
                                  mounts |-> <<>>, command |-> run]]

Labels == {<<"team", w>>, <<"framework", w>>}
Mark == [restartedAt |-> w]
AdoptableDeployments == {Found, Prepared}
MountOfSidecar == [c \in {c1, c2} |-> IF c = c2 THEN v1 ELSE None]
=============================================================================
