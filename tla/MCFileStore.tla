---------------------------- MODULE MCFileStore ----------------------------
(* Small instances of FileStore for TLC. *)
EXTENDS FileStore, TLC

CONSTANTS p1, p2, p3, alipay, t1

ThreeIds == {p1, p2, p3}
TwoIds == {p1, p2}
\* Two order keys: the same order number in both env types.
TwoEnvs == {"test", "release"}
OneEnv == {"test"}

\* Nothing tells the ids apart.
IdSymmetry == Permutations(Ids)
=============================================================================
