----------------------- MODULE MCPointShadowReceiver -----------------------
\* A building, and a unit in two poses; the quality policy, which redraws every
\* face, and one that keeps faces, reuses the cube every other frame and is larger.
EXTENDS PointShadowReceiver, TLC

CONSTANT Poses

MCScenes == {[shape |-> "building", pose |-> None, dynamic |-> FALSE]}
            \cup {[shape |-> "unit", pose |-> p, dynamic |-> TRUE] : p \in Poses}

MCPolicies == {[period |-> 1, budget |-> 2, resolution |-> 1],
               [period |-> 2, budget |-> 1, resolution |-> 2]}

PoseSymmetry == Permutations(Poses)
=============================================================================
