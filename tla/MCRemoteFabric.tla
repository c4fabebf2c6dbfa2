--------------------------- MODULE MCRemoteFabric ---------------------------
(* Small instances of RemoteFabric for TLC. *)
EXTENDS RemoteFabric, TLC

Interchangeable == Permutations(Workers)
=============================================================================
