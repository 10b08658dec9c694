--------------------------- MODULE MCRemoteVision ---------------------------
(* Nothing tells the tuples of classes apart, and no property of the run is *)
(* a liveness property.                                                     *)
EXTENDS RemoteVision, TLC

CONSTANTS w1, w2

VisionSymmetry == Permutations(Request)
=============================================================================
