------------------------------- MODULE Gradle -------------------------------
(***************************************************************************)
(* The prewarm manifest of a Gradle project (prewarm/gradle.go): lockfiles *)
(* and verification metadata are intersected, each file is placed in the   *)
(* version directory its name says, and excluded coordinates are taken     *)
(* out.  Pure functions; Prewarm applies them to the project as it is when *)
(* the command starts.                                                     *)
(*                                                                         *)
(* A version is a sequence of characters and a file name one that follows  *)
(* "<module>-"; any other string is atomic.  A project is a record of      *)
(*   lockfiles   how many there are        locked     coordinates in them  *)
(*   components  those of the metadata, in the order of the file           *)
(*   markers     --plugin-marker-coordinate                                *)
(*   excluded    --exclude-coordinate      plugins    the plugin route is  *)
(*                                                    configured           *)
(* and a component one of module, version and artifacts, each a name, its  *)
(* checksums and, for the properties only, the version it was published    *)
(* with.                                                                   *)
(***************************************************************************)
EXTENDS Naturals, Sequences, SequencesExt, FiniteSets, FiniteSetsExt, Functions

CONSTANT MarkerModule   \* modules called plugin.id:plugin.id.gradle.plugin

gradleCoordinate(module, version) == [module |-> module, version |-> version]
Coordinate(component) == gradleCoordinate(component.module, component.version)

\* safeMavenSegment on the three parts; only a version is ever malformed here.
WellFormed(coordinate) == coordinate.version # <<>>

\* Mutant of namesVersion: the version may go on.
namesVersionAnyhow(name, version) == IsPrefix(version, name)

\* The version and then an extension or a classifier, not more version.
namesVersion(name, version) ==
  /\ IsStrictPrefix(version, name)
  /\ name[Len(version) + 1] \in {".", "-"}

\* Of the versions the name begins with the longest, or the component's.
publishedArtifactVersion(component, name, versions) ==
  LET named == {v \in versions \cup {component.version} :
                  namesVersion(name, v)}
  IN IF named = {} THEN component.version
     ELSE CHOOSE v \in named : \A u \in named : Len(u) <= Len(v)

ignoredGradleArtifact(artifact) ==
  Last(artifact.name) \in {"sources", "javadoc"}

\* The path holds module, version and file name, so it has one coordinate.
mavenArtifactPath(component, version, name) ==
  [module |-> component.module, version |-> version, name |-> name]

Failed(why) == [err |-> why, artifacts |-> {}]

-----------------------------------------------------------------------------
\* Locked, or an active marker.
Selected(p, component) == Coordinate(component) \in p.locked \cup p.markers

\* One artifact goes into artifactsByPath: the first component to name a path
\* says whether it is a marker's, all of them add their checksums.
AddArtifact(p, component, records, artifact) ==
  LET versions == {c.version : c \in {d \in Range(p.components) :
                                        d.module = component.module}}
      path == mavenArtifactPath(component,
                publishedArtifactVersion(component, artifact.name, versions),
                artifact.name)
      old == IF path \in DOMAIN records THEN records[path]
             ELSE [marker |-> Coordinate(component) \in p.markers, sums |-> {}]
  IN [x \in DOMAIN records \cup {path} |->
        IF x = path THEN [old EXCEPT !.sums = @ \cup artifact.sums]
        ELSE records[x]]

Verified(component) ==
  {a \in Range(component.artifacts) :
     ~ignoredGradleArtifact(a) /\ a.sums # {}}

\* A component's files that are neither ignored nor without checksum.
AddComponent(p, records, component) ==
  FoldLeft(LAMBDA r, a : IF a \in Verified(component)
                           THEN AddArtifact(p, component, r, a) ELSE r,
           records, component.artifacts)

artifactsByPath(p) ==
  FoldLeft(LAMBDA r, c : IF Selected(p, c) THEN AddComponent(p, r, c) ELSE r,
           <<>>, p.components)

validatePluginMarkerCoordinates(p) ==
  \A m \in p.markers : WellFormed(m) /\ m.module \in MarkerModule

missingCoordinates(wanted, found) == wanted \ found

\* In the order of the checks.  A malformed lock entry or checksum is an
\* error wherever it stands; the list is sorted by path, so it is a set.
DiscoverGradle(p) ==
  LET chosen == {c \in Range(p.components) : Selected(p, c)}
      records == artifactsByPath(p)
      found == {Coordinate(c) : c \in chosen}
      foundMarkers == {Coordinate(c) : c \in {d \in chosen : Verified(d) # {}}}
      bad == \E c \in chosen : \E a \in Range(c.artifacts) :
               ~ignoredGradleArtifact(a) /\ "bad" \in a.sums
  IN IF ~\A l \in p.locked : WellFormed(l) THEN Failed("lock entry")
     ELSE IF p.lockfiles = 0 THEN Failed("no lockfiles")
     ELSE IF p.locked = {} THEN Failed("nothing locked")
     ELSE IF ~validatePluginMarkerCoordinates(p) THEN Failed("marker")
     ELSE IF bad THEN Failed("checksum")
     ELSE IF records = <<>> THEN Failed("nothing verified")
     ELSE IF missingCoordinates(p.locked, found) # {}
       THEN Failed("unverified lock")
     ELSE IF missingCoordinates(p.markers, foundMarkers) # {}
       THEN Failed("unverified marker")
     ELSE [err |-> "", artifacts |->
             {[path |-> x, marker |-> records[x].marker,
               sums |-> records[x].sums] : x \in DOMAIN records}]

\* By the coordinate a file is published under, whichever component lists it.
ExcludeGradleCoordinates(p, manifest) ==
  LET kept == {a \in manifest.artifacts :
                 gradleCoordinate(a.path.module, a.path.version)
                   \notin p.excluded}
  IN IF manifest.err # "" THEN manifest
     ELSE IF ~\A x \in p.excluded : WellFormed(x) THEN Failed("exclusion")
     ELSE IF ~(p.excluded \subseteq p.locked) THEN Failed("not locked")
     ELSE IF kept = {} THEN Failed("nothing left")
     ELSE [manifest EXCEPT !.artifacts = kept]

\* What the command does before prewarm.Run.
Manifest(p) == ExcludeGradleCoordinates(p, DiscoverGradle(p))

-----------------------------------------------------------------------------
(* What the manifest is meant to be, from where the files really are.      *)

\* The files of the components that are locked or active, in their homes.
WantedArtifacts(p) ==
  UNION {{[path |-> [module |-> c.module, version |-> a.home, name |-> a.name],
           marker |-> Coordinate(c) \in p.markers, sums |-> a.sums] :
            a \in {x \in Range(c.artifacts) :
                    x.sums # {} /\ Last(x.name) = "jar"}} :
           c \in {d \in Range(p.components) :
                   Coordinate(d) \in p.locked \cup p.markers}}

Wanted(p) ==
  {a \in WantedArtifacts(p) :
     [module |-> a.path.module, version |-> a.path.version] \notin p.excluded}

\* The version may be read out of the name.
Names(name, version) ==
  IsStrictPrefix(version, name) /\ name[Len(version) + 1] \in {".", "-"}

\* How files are named and markers used, which is up to Maven and Gradle and
\* which the code relies on: a wanted file is a jar, its name is that of the
\* version it was published with and of no version of the module that goes on
\* from there, or, like a snapshot's, of none in the metadata; and of a module
\* with an active marker nothing else is locked.
Conventional(p) ==
  LET chosen == {c \in Range(p.components) :
                   Coordinate(c) \in p.locked \cup p.markers}
  IN /\ p.components \in Seq(Range(p.components))
     /\ \A c \in Range(p.components) :
          /\ c.artifacts \in Seq(Range(c.artifacts))
          /\ c.version \in Seq(STRING)
     /\ \A c \in chosen : \A a \in Range(c.artifacts) :
          LET siblings == {d.version : d \in {d \in Range(p.components) :
                                                d.module = c.module}}
              named == {v \in siblings : Names(a.name, v)}
          IN /\ Last(a.name) \in {"jar", "sources", "javadoc"}
             /\ Last(a.name) = "jar" =>
                  IF named = {} THEN a.home = c.version
                  ELSE a.home \in named /\ \A v \in named : IsPrefix(v, a.home)
     /\ \A l \in p.locked, m \in p.markers :
          l.module = m.module /\ m.module \in MarkerModule => l \in p.markers
=============================================================================
