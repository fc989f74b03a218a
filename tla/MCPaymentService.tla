-------------------------- MODULE MCPaymentService --------------------------
(* Small instances of PaymentService for TLC. *)
EXTENDS Dashboard, TLC

CONSTANTS p1, p2, w1, w2, alipay, t1

TwoIds == {p1, p2}
OneId == {p1}
TwoWorkers == {w1, w2}
OneWorker == {w1}

Symmetry == Permutations(Ids) \cup Permutations(Workers)
=============================================================================
