-------------------------- MODULE MCMetadataScheduler --------------------------
(* Instances of the metadata scheduler for TLC.                            *)
EXTENDS MetadataScheduler, TLC

(* No choice of the model depends on which hash is which: index keys have  *)
(* distinct sequence numbers.                                              *)
HashSymmetry == Permutations(Hashes)
===============================================================================
