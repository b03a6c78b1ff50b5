-------------------------- MODULE MCAgentAdmission --------------------------
\* Requests that leave open, set, and set wrongly each part of an Agent's spec.
EXTENDS AgentAdmission

MCReplicaChoices == {None, 0, 2}

Protocol(t, n) == [name |-> [text |-> t, port |-> 0], port |-> n]

MCProtocolChoices == {<<>>, <<Protocol("", 9000)>>, <<Protocol("web", 0)>>,
                      <<Protocol("", 0), Protocol("", 9000), Protocol("web", 8500)>>}

Sub(r, u) == [ref |-> r, url |-> u]

MCSubAgentChoices == {{}, {Sub("named", "")}, {Sub("absent", "http")}, {Sub("named", "http")},
                      {Sub("unnamed", "")}, {Sub("absent", "")}, {Sub("absent", "no-host")},
                      {Sub("named", ""), Sub("absent", "other-scheme")}}

Tool(u, n) == [upstream |-> u, named |-> n]

MCToolChoices == {{}, {Tool("toolRouteRef", TRUE), Tool("external", FALSE)},
                  {Tool("toolServerRef", FALSE)}}

MCVolumeChoices == {{}, {"data"}, {"data", "backup"}}

Mount(v, p) == [volume |-> v, path |-> p]
Child == <<"data", "cache">>
Twin == <<"data-backup">>

MCMountChoices == {<<>>, <<Mount("data", <<"data">>), Mount("data", Twin)>>,
                   <<Mount("data", <<"data">>), Mount("data", Child)>>,
                   <<Mount("data", Child), Mount("data", <<"data">>)>>,
                   <<Mount("data", Root), Mount("data", Child)>>,
                   <<Mount("backup", Twin)>>}
=============================================================================
