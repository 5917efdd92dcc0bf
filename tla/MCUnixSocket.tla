---------------------------- MODULE MCUnixSocket ----------------------------
(* Instances of UnixSocket for TLC. *)
EXTENDS UnixSocket, TLC

CONSTANTS s1, s2, s3, u1, u2

MCSymmetry == Permutations(Servers) \cup Permutations(Users)
=============================================================================
