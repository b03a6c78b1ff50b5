------------------------- MODULE MCAgenticWorkforce -------------------------
(* Three Agents: an entry point that may use the second one, the second that *)
(* uses the third, and the third that may close a cycle; the first and the   *)
(* third may name one remote agent differently.                              *)
EXTENDS AgenticWorkforce, TLC

CONSTANTS first, second, third, tool, url, name1, name2

Knows(subs, tools, remotes) == [subs |-> subs, tools |-> tools, remotes |-> remotes]

Remote(name) == {[url |-> url, name |-> name]}

Graphs ==
  (first :> {Knows({}, {}, {}), Knows({second}, {}, Remote(name1))})
  @@ (second :> {Knows({third}, {}, {})})
  @@ (third :> {Knows({first}, {}, {}), Knows({}, {tool}, Remote(name2))})

Entries == {{first}, {second}}
=============================================================================
