---------------------------- MODULE MCVersionSet ----------------------------
(* A small instance of VersionSet for TLC: levels that overflow after a few *)
(* entries.                                                                 *)
EXTENDS VersionSet

MCOps == {<<1, FALSE>>, <<2, FALSE>>, <<2, TRUE>>, <<3, FALSE>>}
MCLevelSize == [l \in 1 .. NumLevels - 2 |-> l]
=============================================================================
