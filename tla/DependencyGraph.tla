--------------------------- MODULE DependencyGraph ---------------------------
(***************************************************************************)
(* The resolved npm inventory: readNpmDependencyGraph                      *)
(* (src/src/core/dependencies/inventory.ts) turns package-lock.json into   *)
(* packages and edges; the tree (core/dependency-tree.ts) and the SBOM     *)
(* (core/sbom/generate.ts) are derived from them.                          *)
(*                                                                         *)
(* An install path is the sequence of the names on it: <<>> is the root,   *)
(* <<"a", "b">> is node_modules/a/node_modules/b.  A workspace package is  *)
(* a directory of the project, <<"W">>, next to a link of its name.  The   *)
(* parent of a path, of a workspace too, is the path without its last      *)
(* name.                                                                   *)
(***************************************************************************)
EXTENDS Integers, Sequences, FiniteSets, SequencesExt

CONSTANTS
  Names,       \* names of packages and of directories
  Lockfiles,   \* the lockfiles: a function from install paths to entries
  Workspaces   \* the paths that are not in a node_modules directory

\* An entry: has a version; gives its name; is a link, to target; requires
\* (dependencies, optional and peer ones), and for development.
Entry(version, named, target, requires, develops) ==
  [version |-> version, named |-> named, target |-> target,
   requires |-> requires, develops |-> develops]

Nowhere == <<"nowhere">>

\* The root has an entry, and a link's target is a directory below it; a workspace's
\* directory has a name of its own, that of no package.
ASSUME GraphAssumption ==
  \A l \in Lockfiles :
    /\ IsFiniteSet(DOMAIN l) /\ <<>> \in DOMAIN l /\ Nowhere \notin DOMAIN l
    /\ \A path \in DOMAIN l :
         /\ path \in Seq(Names) /\ l[path].target # <<>>
         /\ l[path].requires \cup l[path].develops \subseteq Names
         /\ \A workspace \in Workspaces :
              Last(workspace) \notin l[path].requires \cup l[path].develops

VARIABLES
  lockfile,  \* what npm has installed
  graph,     \* the result of readNpmDependencyGraph
  tree,      \* the result of buildDependencyTree
  bom,       \* the result of generateSbom
  documented \* all three were made

graphVars == <<lockfile, graph, tree, bom, documented>>

GraphInit ==
  /\ lockfile = <<>>
  /\ graph = [packages |-> {}, edges |-> {}, direct |-> {}]
  /\ tree = [branches |-> {}, direct |-> 0, transitive |-> 0, maxDepth |-> 0]
  /\ bom = [components |-> {}, dependsOn |-> {}]
  /\ documented = FALSE

-----------------------------------------------------------------------------
(* readNpmDependencyGraph *)

Versioned(path) == path \in DOMAIN lockfile /\ lockfile[path].version

\* A package of its own version, or the workspace package that a link is for.
Candidate(path) ==
  IF Versioned(path) THEN path
  ELSE IF path \in DOMAIN lockfile /\ Versioned(lockfile[path].target)
       THEN lockfile[path].target ELSE Nowhere

\* Mutant: the outermost node_modules directory wins.
Hoisted(from, name) ==
  LET levels == {n \in 0..Len(from) : Candidate(Append(SubSeq(from, 1, n), name)) # Nowhere} IN
  IF levels = {} THEN Nowhere
  ELSE Candidate(Append(SubSeq(from, 1, CHOOSE n \in levels : \A m \in levels : n <= m), name))
\* From the package's own directory up to the root's.
InstalledPath(from, name) ==
  LET upFrom[n \in 0..Len(from)] ==
        LET candidate == Candidate(Append(SubSeq(from, 1, n), name)) IN
        IF candidate # Nowhere \/ n = 0 THEN candidate ELSE upFrom[n - 1] IN
  upFrom[Len(from)]

\* A path outside of node_modules gives a package only when its entry has a name.
Identified(path) ==
  /\ path # <<>> /\ Versioned(path)
  /\ path \in Workspaces => lockfile[path].named

Requirements(path) ==
  LET entry == lockfile[path] IN
  (entry.requires \X {"dependency"})
    \cup (IF path = <<>> THEN entry.develops \X {"devDependency"} ELSE {})

Packages == {path \in DOMAIN lockfile : Identified(path)}

EdgesFrom(from) ==
  {[from |-> from, to |-> InstalledPath(from, need[1]), section |-> need[2]] :
     need \in {need \in Requirements(from) : Identified(InstalledPath(from, need[1]))}}

Edges == UNION {EdgesFrom(from) : from \in Packages \cup {<<>>}}

RootTargets(edges) == {edge.to : edge \in {e \in edges : e.from = <<>>}}

ReadGraph ==
  LET edges == Edges IN
  graph' = [packages |-> Packages, edges |-> edges, direct |-> RootTargets(edges)]

-----------------------------------------------------------------------------
(* The tree and the SBOM *)

Children(edges, path) == {edge.to : edge \in {e \in edges : e.from = path}}

\* The branches that are one package longer: one whose last package is on it
\* already has no longer ones (treeNode, and visit of graphSummary).
\* Mutant: the package that closes a cycle is left out.
LongerOpen(edges, branches) ==
  UNION {{Append(branch, child) : child \in Children(edges, Last(branch)) \ ToSet(branch)} :
           branch \in branches}
Longer(edges, branches) ==
  UNION {{Append(branch, child) : child \in Children(edges, Last(branch))} :
           branch \in {b \in branches : IsInjective(b)}}

\* From the direct dependencies on: each package once, and one that closes a cycle.
Branches(edges) ==
  LET longest == Cardinality({edge.to : edge \in edges}) + 1
      ofLength[n \in 1..longest] ==
        IF n = 1 THEN {<<path>> : path \in Children(edges, <<>>)}
        ELSE Longer(edges, ofLength[n - 1]) IN
  UNION {ofLength[n] : n \in 1..longest}

Tree(edges) ==
  LET direct == Children(edges, <<>>)
      branches == Branches(edges)
      reachable == {Last(branch) : branch \in branches} IN
  [branches |-> branches, direct |-> Cardinality(direct),
   transitive |-> Cardinality(reachable) - Cardinality(direct),
   maxDepth |-> IF branches = {} THEN 0 ELSE Max({Len(branch) : branch \in branches})]

\* One component per installed package, and its edges, whatever their section.
Bom(found) ==
  [components |-> found.packages,
   dependsOn |-> {<<edge.from, edge.to>> : edge \in found.edges}]

NpmInstalls ==
  /\ lockfile = <<>>
  /\ lockfile' \in Lockfiles
  /\ UNCHANGED <<graph, tree, bom, documented>>

DeriveAll ==
  /\ lockfile # <<>> /\ ~documented
  /\ ReadGraph
  /\ tree' = Tree(graph'.edges)
  /\ bom' = Bom(graph')
  /\ documented' = TRUE
  /\ UNCHANGED lockfile

GraphNext == NpmInstalls \/ DeriveAll

GraphSpec == GraphInit /\ [][GraphNext]_graphVars

-----------------------------------------------------------------------------
(* Properties *)

\* What require(name) finds from a package: the deepest node_modules above it
\* that has the name, with a version or as the link of a workspace package.
Visible(from, name) ==
  {path \in DOMAIN lockfile :
     /\ path # <<>> /\ path \notin Workspaces
     /\ Last(path) = name /\ IsPrefix(Front(path), from) /\ Candidate(path) # Nowhere}
Found(from, name) ==
  Candidate(CHOOSE path \in Visible(from, name) :
              \A other \in Visible(from, name) : Len(other) <= Len(path))

\* The root's own needs are those for development too.
Needed(from) ==
  lockfile[from].requires \cup (IF from = <<>> THEN lockfile[from].develops ELSE {})

\* "resolves dependency edges using Node-style nearest node_modules semantics"
\* (docs/ARCHITECTURE.md:54) and "Directness comes from root dependency
\* declarations rather than physical npm hoisting" (README.md:184): each package
\* has exactly the edges Node would follow, and is direct exactly when one comes
\* from the root; a workspace package without a name in the lockfile has none.
EdgesAreNodes ==
  documented =>
    /\ \A from \in graph.packages \cup {<<>>} : \A name \in Needed(from) :
         LET found == Found(from, name) IN
         Visible(from, name) # {} /\ (found \in Workspaces => lockfile[found].named) =>
           \E edge \in graph.edges : edge.from = from /\ edge.to = found
    /\ \A edge \in graph.edges :
         \E name \in Needed(edge.from) :
           Visible(edge.from, name) # {} /\ edge.to = Found(edge.from, name)
    /\ graph.direct = {path \in graph.packages : \E edge \in graph.edges : edge.from = <<>> /\ edge.to = path}

\* "Tree output, SBOM relationships ... should reuse this graph"
\* (docs/ARCHITECTURE.md:54): whatever cycles there are, the branches of the tree
\* show exactly the SBOM's relationships between the root and what it reaches, each
\* of them on some branch, and every package they show is a component of the SBOM.
DocumentsAgree ==
  documented =>
    LET shown == {Last(branch) : branch \in tree.branches}
        rooted == {<<<<>>>> \o branch : branch \in tree.branches} IN
    /\ {pair \in bom.dependsOn : pair[1] \in shown \cup {<<>>}} =
         {<<branch[Len(branch) - 1], Last(branch)>> : branch \in rooted}
    /\ shown \subseteq bom.components
=============================================================================
