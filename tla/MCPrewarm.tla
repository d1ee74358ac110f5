----------------------------- MODULE MCPrewarm -----------------------------
(* Instances of Prewarm.                                                   *)
EXTENDS Prewarm

CONSTANTS w1, w2

File(version, sums) ==
  [name |-> version \o <<".", "jar">>, home |-> version, sums |-> sums]
Sources(version) ==
  [name |-> version \o <<"-", "sources">>, home |-> version, sums |-> {"s1"}]
Component(module, version, artifacts) ==
  [module |-> module, version |-> version, artifacts |-> artifacts]

\* The versions 1, 1-j and 12, each a prefix of another, as strings or not.
v1 == <<"1">>
v1j == <<"1", "-", "j">>
v12 == <<"1", "2">>

\* lib:1 lists a file of lib:1-j, as guava's variants do; the name of a
\* snapshot's file does not give its version; bare has nothing verified.
lib1 ==
  Component("lib", v1, <<Sources(v1), File(v1j, {"s1"}), File(v1, {"s1"})>>)
lib1j == Component("lib", v1j, <<File(v1j, {"s2"})>>)
lib12 == Component("lib", v12, <<File(v12, {"s1"})>>)
snapshot == Component("lib", <<"1", "s">>,
  <<[name |-> <<"1", "0", ".", "jar">>, home |-> <<"1", "s">>,
     sums |-> {"s1"}],
    File(<<"1", "s">>, {})>>)
bare == Component("bare", v1, <<Sources(v1)>>)
plug1 == Component("plug", v1, <<File(v1, {"s1"})>>)
plug12 == Component("plug", v12, <<File(v12, {"s1"})>>)

Coordinates(cs) == {Coordinate(c) : c \in cs}

\* A locked file and an active plugin marker.
Base ==
  [lockfiles |-> 1, locked |-> Coordinates({lib12}),
   components |-> <<plug1, lib12, plug12>>, markers |-> Coordinates({plug1}),
   excluded |-> {}, plugins |-> TRUE]

\* Its checksum changes; its plugin route is taken away.
RunnableProjects ==
  {Base,
   [Base EXCEPT !.components =
      <<Component("lib", v12, <<File(v12, {"s2"})>>), plug1>>],
   [Base EXCEPT !.plugins = FALSE]}

OneProject == {Base}

Orders ==
  {<<lib1, lib1j, lib12, snapshot, plug1, plug12, bare>>,
   <<bare, plug12, plug1, snapshot, lib12, lib1j, lib1>>,
   <<lib1j, plug1, lib1, plug12>>}

\* Metadata in any order, with locks, markers and exclusions of all kinds.
AllProjects ==
  RunnableProjects
  \cup {[Base EXCEPT !.components = cs, !.locked = l, !.markers = m,
                      !.excluded = x] :
          cs \in Orders,
          l \in SUBSET Coordinates({lib1, lib1j, snapshot, bare}),
          m \in {{}} \cup {Coordinates({c}) : c \in {plug1, plug12, lib1}},
          x \in {{}} \cup {Coordinates({c}) : c \in {lib1, lib1j}}}
  \cup {[Base EXCEPT !.lockfiles = 0],
        [Base EXCEPT !.locked = {gradleCoordinate("lib", <<>>)}],
        [Base EXCEPT !.excluded = {gradleCoordinate("lib", <<>>)}],
        [Base EXCEPT !.components =
           <<Component("lib", v12, <<File(v12, {"bad"})>>), plug1>>]}
=============================================================================
