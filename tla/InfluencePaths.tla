--------------------------- MODULE InfluencePaths ---------------------------
(***************************************************************************)
(* The path trees of IPASolver.  The tree of a root holds the paths from   *)
(* it that visit no node twice, enter no blocker and are not less likely   *)
(* than the threshold 1 / divider; parallel edges make different paths.  A *)
(* path is its nodes, the positions of its edges in their adjacency lists, *)
(* and its probability, a number of Whole-ths.  expandPathTree and         *)
(* traversePathTree recur; here a tree is built level by level.            *)
(***************************************************************************)
EXTENDS InfluenceGraph, SequencesExt

CONSTANT Whole \* the integer that stands for the probability 1.0 of a path

Root(node) == [nodes |-> <<node>>, edges |-> <<>>, probability |-> Whole]

\* Mutant: only the parent of the path is compared with.
ChecksParentOnly(path, node) == node = Last(path.nodes)

checkForCircle(path, node) == node \in Range(path.nodes)

\* The threshold is 1.0 / divider, infinite for the divider 0.
BelowThreshold(path, edge, divider) ==
    edge.weight * path.probability * divider < One * Whole

Extended(path, i, edge) ==
    [nodes       |-> Append(path.nodes, edge.destination),
     edges       |-> Append(path.edges, i),
     probability |-> (path.probability * edge.weight) \div One]

\* The paths that expandPathTree adds to one: its children.
Children(graph, path, divider, blockers) ==
    LET edges == getEdgesOf(graph, Last(path.nodes))
    IN  {Extended(path, i, edges[i]) :
            i \in {j \in DOMAIN edges :
                      /\ edges[j].destination \notin blockers
                      /\ ~BelowThreshold(path, edges[j], divider)
                      /\ ~checkForCircle(path, edges[j].destination)}}

\* A path that visits no node twice has at most NumberOfNodes of them.
PathTree(graph, root, divider, blockers) ==
    LET level[i \in NodeId] ==
            IF i = 0 THEN {Root(root)}
            ELSE UNION {Children(graph, path, divider, blockers) : path \in level[i - 1]}
    IN  UNION {level[i] : i \in NodeId}

Ends(tree) == {Last(path.nodes) : path \in tree}

\* The probability that no path of the tree to the node is live, were all paths
\* independent: what traversePathTree leaves in probabilities.
Missed(tree, node) ==
    FoldSet(LAMBDA path, missed : (missed * (Whole - path.probability)) \div Whole,
            Whole, {path \in tree : Last(path.nodes) = node})

calculatePathTreeInfluence(tree) ==
    MapThenSumSet(LAMBDA node : Whole - Missed(tree, node), Ends(tree))

\* calculatePathForestInfluence: the selected nodes block each other's paths.
ForestInfluence(graph, selected, divider) ==
    MapThenSumSet(LAMBDA s : calculatePathTreeInfluence(PathTree(graph, s, divider, selected)),
                  selected)

=============================================================================
