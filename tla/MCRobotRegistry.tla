--------------------------- MODULE MCRobotRegistry ---------------------------
(* Small instances of RobotRegistry for TLC. *)
EXTENDS RobotRegistry, TLC

\* Every set of the instance is made of interchangeable model values: no definition
\* of RobotRegistry tells two identifiers, keys, passwords, names or workers apart.
Symmetry == Permutations(ExternalIds) \union Permutations(RobotIds)
            \union Permutations(Passwords) \union Permutations(Names)
            \union Permutations(Workers)
=============================================================================
