------------------------------ MODULE Dashboard ------------------------------
(***************************************************************************)
(* What an operator sees of the payments (internal/payment/service.go):    *)
(* the list and the dashboard, computed from the store's List at any       *)
(* moment between the steps of the requests.  Sums of money and the        *)
(* grouping by day, channel and reason are left out, and so is the limit   *)
(* of 50 abnormal payments, which no instance reaches.                     *)
(***************************************************************************)
EXTENDS PaymentService

AllEnvs == "all"

List == {records[id] : id \in Ids} \ {NULL}

ListFiltered(env) == {p \in List : env \in {AllEnvs, p.env}}

\* Mutant of isAbnormal: a callback that is still due is normal.
isAbnormalWhenDecided(p) ==
    p.status \in {"lost", "failed"} \/ p.callback \in {"failed", "lost"}

isAbnormal(p) ==
    p.status \in {"lost", "failed"} \/ p.callback \in {"failed", "lost", "pending"}

Abnormal(env) == {p \in ListFiltered(env) : isAbnormal(p)}

\* A settled payment whose merchant never answered a body with that status is
\* in the abnormal list of its environment, where an operator can retry its
\* callback, also after a crash between storing the webhook and the delivery.
\* For requests that do not overlap: RecordMerchantCallback sets "success" on
\* the version that is stored then, not on the one the merchant was sent.
UnreportedIsListed ==
    proc = "up" => \A p \in List :
        p.notify /\ p.status \in {"paid", "failed"} \ confirmed[p.id]
            => p \in Abnormal(p.env) \cap Abnormal(AllEnvs)

-----------------------------------------------------------------------------
(* The service, seen from the interface Store.                             *)

FileIndex == [k \in Keys |-> ReplayedIndex(k)]

Memory == INSTANCE MemoryStore WITH payments <- LastVersion, index <- FileIndex

\* A service over the file behaves as one over a MemoryStore that no crash
\* touches: wherever a process stops, the store as the next one loads it took
\* exactly the steps that Create and Update of the maps take.
MemoryStoreSpec == Memory!Spec
=============================================================================
