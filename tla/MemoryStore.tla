----------------------------- MODULE MemoryStore -----------------------------
(***************************************************************************)
(* MemoryStore (internal/payment/store.go): two maps under a mutex and     *)
(* nothing else.  It is what Store, the interface, promises to a caller    *)
(* who does not know of files: an order is created once, a payment that    *)
(* exists is replaced, and what was stored is there.                       *)
(***************************************************************************)
EXTENDS PaymentTypes

VARIABLES
    payments,  \* map from id to payment
    index      \* map from order key to id

memoryVars == <<payments, index>>

Init ==
    /\ payments = [id \in Ids |-> NULL]
    /\ index = [k \in Keys |-> NULL]

Remember(p) ==
    /\ payments' = [payments EXCEPT ![p.id] = p]
    /\ index' = [index EXCEPT ![indexKey(p)] = p.id]

Create(p) == index[indexKey(p)] = NULL /\ Remember(p)

Update(p) == payments[p.id] # NULL /\ Remember(p)

\* The payment is read off the next state: Payment is an infinite set.
Next ==
    \E id \in Ids :
        LET p == payments'[id]
        IN  p # NULL /\ p.id = id /\ (Create(p) \/ Update(p))

Spec == Init /\ [][Next]_memoryVars
=============================================================================
