--------------------------- MODULE MCRemoteManifest ---------------------------
(* Two hosts and two files, each interchangeable.                          *)
EXTENDS RemoteManifest, TLC

MCSymmetry == Permutations(Hosts) \cup Permutations(Files)
=============================================================================
