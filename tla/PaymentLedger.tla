--------------------------- MODULE PaymentLedger ---------------------------
(***************************************************************************)
(* What the payment service promises about the history of each payment,    *)
(* with no file, map, worker or crash in it.  A payment is opened once     *)
(* under an order key of its own, and then only revised.                   *)
(*                                                                         *)
(* StrictSpec is the promise a reader expects: each version follows from   *)
(* the one before it.  Spec is what requests that overlap leave of it:     *)
(* each version follows from SOME earlier version of the same payment, so  *)
(* an update may be overwritten but nothing is ever made up.               *)
(***************************************************************************)
EXTENDS PaymentTypes

VARIABLES
    current,  \* the version of each payment that counts, or NULL
    past      \* every version a payment has had, current ones included

ledgerVars == <<current, past>>

Init ==
    /\ current = [id \in Ids |-> NULL]
    /\ past = [id \in Ids |-> {}]

\* A new payment owes nothing yet, and no other payment has its order key.
Open(p) ==
    /\ p.status = "created" /\ p.callback = "none" /\ p.attempts = 0
    /\ \A id \in Ids : current[id] # NULL => indexKey(current[id]) # indexKey(p)

\* Who ordered what, and who is told about it, never changes.
SameOrder(p, q) ==
    /\ q.id = p.id
    /\ indexKey(q) = indexKey(p)
    /\ q.notify = p.notify

\* One callback attempt was made, and nothing but its outcome changed.
Reported(p, q) ==
    /\ p.notify
    /\ q.attempts = p.attempts + 1
    /\ q.status = p.status
    /\ q.callback \in {"success", "failed"}

\* The status changed, to whatever a provider reports, and no attempt was made.
\* A callback becomes due only for a payment with a notify_url, when a provider
\* accepts or settles it; it is given up only together with the payment.
Moved(p, q) ==
    /\ q.attempts = p.attempts
    /\ \/ q.callback = p.callback
       \/ q.callback = "pending" /\ q.notify /\ q.status \in {"pending", "paid", "failed"}
       \/ q.callback = "lost" /\ q.status = "lost"

LegalChange(p, q) == SameOrder(p, q) /\ (Reported(p, q) \/ Moved(p, q))

\* id's next version is q.
Enter(id, q) ==
    /\ current' = [current EXCEPT ![id] = q]
    /\ past' = [past EXCEPT ![id] = @ \cup {q}]

\* The new version is read off the next state: Payment is an infinite set.
Opening(id) ==
    /\ current[id] = NULL
    /\ current'[id] # NULL
    /\ current'[id].id = id
    /\ Open(current'[id])
    /\ Enter(id, current'[id])

Revising(id, versions) ==
    /\ current[id] # NULL
    /\ current'[id] # NULL
    /\ \E p \in versions : LegalChange(p, current'[id])
    /\ Enter(id, current'[id])

Next == \E id \in Ids : Opening(id) \/ Revising(id, past[id])

StrictNext == \E id \in Ids : Opening(id) \/ Revising(id, {current[id]})

Spec == Init /\ [][Next]_ledgerVars

StrictSpec == Init /\ [][StrictNext]_ledgerVars
=============================================================================
