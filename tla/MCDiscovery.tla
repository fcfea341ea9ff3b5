------------------------------ MODULE MCDiscovery ------------------------------
(* The discovery actor, with nodes and hashes that are interchangeable.    *)
EXTENDS Discovery, TLC

NodeHashSymmetry == Permutations(Nodes) \cup Permutations(Hashes)
===============================================================================
