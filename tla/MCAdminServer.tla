---------------------------- MODULE MCAdminServer ----------------------------
(* Small instances of AdminServer for TLC. *)
EXTENDS AdminServer, TLC

CONSTANTS root, ops, w1, w2

Nobody == [n \in Names |-> NULL]
RootAndOps == [n \in Names |-> IF n = root THEN "root" ELSE "admin"]

OneFile == {RootAndOps}
TwoFiles == {Nobody, RootAndOps}

WorkerSymmetry == Permutations(Workers)
=============================================================================
