--------------------------- MODULE PaymentService ---------------------------
(***************************************************************************)
(* Service (internal/payment/service.go) and the handlers of               *)
(* internal/httpapi that drive it, over one FileStore.                     *)
(*                                                                         *)
(* Every HTTP request runs in a goroutine of its own, a worker here.  A    *)
(* request reads a payment under the store's read lock, computes the       *)
(* payment it wants to store (its draft), and writes that draft later      *)
(* under the write lock: between the two, any other request may run.       *)
(*                                                                         *)
(*    idle --ClosePayment, MarkLost--> update --WriteUpdate--> idle        *)
(*    idle --CreatePayment----------->/                                    *)
(*    idle --Webhook--> apply --WriteApplied--> post, or idle              *)
(*    idle --RetryCallback--> post --PostCallback--> delivered or refused  *)
(*    delivered, refused --RecordRead--> note --RecordWrite--> idle        *)
(*                                                                         *)
(* A request that is refused before it changes anything (an unknown id, a  *)
(* bad status for Close, an unconfigured channel, an invalid body) leaves  *)
(* the state as it is.                                                     *)
(***************************************************************************)
EXTENDS FileStore

CONSTANTS
    Workers,          \* requests that may be in progress at the same time
    Notifies,         \* whether new payments have a notify_url
    ProviderAnswers,  \* TRUE: CreatePayment of the provider succeeds
    WebhookStatuses,  \* the statuses providers report
    MaxRequests,      \* bound: requests that change or may change a payment
    MaxCrashes        \* bound: times the process ends

ASSUME ServiceAssumption ==
    /\ Notifies \subseteq BOOLEAN
    /\ ProviderAnswers \subseteq BOOLEAN
    /\ WebhookStatuses \subseteq PaymentStatus
    /\ MaxRequests \in Nat
    /\ MaxCrashes \in Nat

VARIABLES
    pc,        \* where each worker is
    draft,     \* the payment a worker will store, or the one it posts
    tries,     \* history: deliveries tried, by payment
    recorded,  \* history: RecordMerchantCallback lines in the file, by payment
    confirmed, \* history: the statuses a payment had in a body its merchant took
    requests,  \* bound counter
    crashes    \* bound counter

workerVars == <<pc, draft>>
historyVars == <<tries, recorded, confirmed>>
vars == <<storeVars, workerVars, historyVars, requests, crashes>>

Init ==
    /\ StoreInit
    /\ pc = [w \in Workers |-> "idle"]
    /\ draft = [w \in Workers |-> NULL]
    /\ tries = [id \in Ids |-> 0]
    /\ recorded = [id \in Ids |-> 0]
    /\ confirmed = [id \in Ids |-> {}]
    /\ requests = 0
    /\ crashes = 0

-----------------------------------------------------------------------------
(* What each operation makes of the payment it read. *)

\* ConfiguredProvider answers "pending"; a provider's error marks the payment
\* failed.
Answered(p, ok) ==
    IF ok
    THEN [p EXCEPT !.status = "pending",
                   !.callback = IF p.notify THEN "pending" ELSE @]
    ELSE [p EXCEPT !.status = "failed"]

\* Mutant of Closable: paid payments may be closed.
ClosableWhenPaid(p) == p.status # "closed"

Closable(p) == p.status \notin {"paid", "closed"}

\* Mutant of Closed: the callback is forgotten.
ClosedForGood(p) == [p EXCEPT !.status = "closed", !.callback = "none"]

Closed(p) == [p EXCEPT !.status = "closed"]

\* Mutants of Applied: the callback field takes the provider's status; the
\* attempt is counted when it becomes due; a callback is due without notify_url.
AppliedToCallback(p, status) == [p EXCEPT !.status = status, !.callback = status]

AppliedAndCounted(p, status) ==
    [p EXCEPT !.status = status, !.callback = "pending", !.attempts = @ + 1]

AppliedAlwaysDue(p, status) == [p EXCEPT !.status = status, !.callback = "pending"]

\* Only "paid" and "failed" ask for a callback; any status is stored.
Applied(p, status) ==
    [p EXCEPT !.status = status,
              !.callback = IF p.notify /\ status \in {"paid", "failed"}
                           THEN "pending" ELSE @]

\* Mutant of Lost: the status stays.
LostCallback(p) == [p EXCEPT !.callback = "lost"]

Lost(p) == [p EXCEPT !.status = "lost", !.callback = "lost"]

\* Mutants of Called: only deliveries count; a refused callback stays pending.
CalledIfDelivered(p, success) ==
    [p EXCEPT !.attempts = IF success THEN @ + 1 ELSE @,
              !.callback = IF success THEN "success" ELSE "failed"]

CalledUntilDelivered(p, success) ==
    [p EXCEPT !.attempts = @ + 1,
              !.callback = IF success THEN "success" ELSE "pending"]

Called(p, success) ==
    [p EXCEPT !.attempts = @ + 1,
              !.callback = IF success THEN "success" ELSE "failed"]

-----------------------------------------------------------------------------
(* The first step of each request. *)

CanAccept(w) == proc = "up" /\ pc[w] = "idle" /\ requests < MaxRequests

\* A request arrives and w serves it.
Accept(w) ==
    /\ CanAccept(w)
    /\ requests' = requests + 1
    /\ UNCHANGED <<historyVars, crashes>>

Goto(w, label, p) ==
    /\ pc' = [pc EXCEPT ![w] = label]
    /\ draft' = [draft EXCEPT ![w] = p]

\* Service.Create up to its Update: the store's Create and the provider's
\* answer, which brings a pay URL or a failure reason.  The draft is the
\* payment as Create left it, whatever others do.
CreatePayment(w) ==
    \E id \in Ids, key \in Keys, notify \in Notifies, big \in Sizes :
        LET p == NewPayment(id, key, notify, big)
        IN  /\ Accept(w)
            /\ Fresh(id)
            /\ \/ /\ Create(p, "ok")
                  /\ \E ok \in ProviderAnswers : \E q \in Reworded(Answered(p, ok)) :
                        Goto(w, "update", q)
               \/ \E fault \in WriteFaults :
                     Create(p, fault) /\ UNCHANGED workerVars

ClosePayment(w) ==
    \E id \in Ids :
        /\ Accept(w)
        /\ records[id] # NULL
        /\ Closable(records[id])
        /\ Goto(w, "update", Closed(records[id]))
        /\ UNCHANGED storeVars

Webhook(w) ==
    \E k \in Keys, status \in WebhookStatuses :
        /\ Accept(w)
        /\ FindByOutTradeNo(k) # NULL
        /\ \E p \in Reworded(Applied(FindByOutTradeNo(k), status)) : Goto(w, "apply", p)
        /\ UNCHANGED storeVars

MarkLost(w) ==
    \E id \in Ids :
        /\ Accept(w)
        /\ records[id] # NULL
        /\ \E p \in Reworded(Lost(records[id])) : Goto(w, "update", p)
        /\ UNCHANGED storeVars

\* Mutant of RetryCallback: the posted copy is marked, the stored one is not.
RetryMarked(w) ==
    \E id \in Ids :
        /\ Accept(w)
        /\ records[id] # NULL
        /\ records[id].notify
        /\ Goto(w, "post", [records[id] EXCEPT !.callback = "pending"])
        /\ UNCHANGED storeVars

RetryCallback(w) ==
    \E id \in Ids :
        /\ Accept(w)
        /\ records[id] # NULL
        /\ records[id].notify
        /\ Goto(w, "post", records[id])
        /\ UNCHANGED storeVars
-----------------------------------------------------------------------------
(* The later steps. *)

\* Store the draft.  An error of the store ends the request.
WriteDraft(w, next, o) ==
    /\ Update(draft[w], o)
    /\ IF o = "ok" /\ next # "idle" THEN Goto(w, next, draft[w]) ELSE Goto(w, "idle", NULL)
    /\ UNCHANGED <<tries, confirmed, requests, crashes>>

WriteUpdate(w) ==
    /\ pc[w] = "update"
    /\ \E o \in Outcomes : WriteDraft(w, "idle", o)
    /\ UNCHANGED recorded

\* The handler of a webhook goes on to deliver what it stored.
WriteApplied(w) ==
    /\ pc[w] = "apply"
    /\ \E o \in Outcomes :
          WriteDraft(w, IF draft[w].notify THEN "post" ELSE "idle", o)
    /\ UNCHANGED recorded

\* The delivery of the draft, as it was stored or read.  A 2xx answer is the
\* merchant's confirmation of the status in that body.  A body or a notify_url
\* that makes no request (nothing is sent then), a timeout (10 s), a transport
\* error and any other answer are all a refusal, whatever the merchant did.
PostCallback(w) ==
    /\ pc[w] = "post"
    /\ tries' = [tries EXCEPT ![draft[w].id] = @ + 1]
    /\ \/ /\ pc' = [pc EXCEPT ![w] = "delivered"]
          /\ confirmed' = [confirmed EXCEPT ![draft[w].id] = @ \cup {draft[w].status}]
       \/ /\ pc' = [pc EXCEPT ![w] = "refused"]
          /\ UNCHANGED confirmed
    /\ UNCHANGED <<storeVars, draft, recorded, requests, crashes>>

\* Mutant of RecordRead: a refusal is not recorded.
RecordDelivered(w) ==
    /\ pc[w] = "delivered"
    /\ records[draft[w].id] # NULL
    /\ \E p \in Reworded(Called(records[draft[w].id], TRUE)) : Goto(w, "note", p)
    /\ UNCHANGED <<storeVars, historyVars, requests, crashes>>

\* RecordMerchantCallback reads the payment again ...
RecordRead(w) ==
    /\ pc[w] \in {"delivered", "refused"}
    /\ records[draft[w].id] # NULL
    /\ \E p \in Reworded(Called(records[draft[w].id], pc[w] = "delivered")) :
          Goto(w, "note", p)
    /\ UNCHANGED <<storeVars, historyVars, requests, crashes>>

\* ... and stores it with the outcome.
RecordWrite(w) ==
    /\ pc[w] = "note"
    /\ \E o \in Outcomes :
          /\ WriteDraft(w, "idle", o)
          /\ recorded' = IF o \in {"ok", "nonl", "sync"}
                         THEN [recorded EXCEPT ![draft[w].id] = @ + 1]
                         ELSE recorded
-----------------------------------------------------------------------------
(* The end of the process, and a new one.  A graceful stop waits for the   *)
(* requests in progress for 10 s and then exits: it is a crash in which    *)
(* the workers may happen to be idle.                                      *)

LoseWorkers ==
    /\ crashes < MaxCrashes
    /\ crashes' = crashes + 1
    /\ pc' = [w \in Workers |-> "idle"]
    /\ draft' = [w \in Workers |-> NULL]
    /\ UNCHANGED <<tries, confirmed, requests>>

CrashBetweenWrites ==
    /\ Crash
    /\ LoseWorkers
    /\ UNCHANGED recorded

CrashInCreate(w) ==
    \E id \in Ids, key \in Keys, notify \in Notifies, big \in Sizes, form \in CrashForms :
        LET p == NewPayment(id, key, notify, big)
        IN  /\ CanAccept(w)
            /\ Fresh(id)
            /\ CanCreate(p)
            /\ CrashInAppend(p, form)
            /\ LoseWorkers
            /\ UNCHANGED recorded

CrashInUpdate(w) ==
    \E form \in CrashForms :
        /\ pc[w] \in {"update", "apply", "note"}
        /\ CanUpdate(draft[w])
        /\ CrashInAppend(draft[w], form)
        /\ LoseWorkers
        /\ recorded' = IF pc[w] = "note" /\ form # "cut"
                       THEN [recorded EXCEPT ![draft[w].id] = @ + 1]
                       ELSE recorded

StartAgain ==
    /\ Restart
    /\ UNCHANGED <<workerVars, historyVars, requests, crashes>>
-----------------------------------------------------------------------------
Request(w) ==
    \/ CreatePayment(w)
    \/ ClosePayment(w)
    \/ Webhook(w)
    \/ MarkLost(w)
    \/ RetryCallback(w)

Continue(w) ==
    \/ WriteUpdate(w)
    \/ WriteApplied(w)
    \/ PostCallback(w)
    \/ RecordRead(w)
    \/ RecordWrite(w)

CrashIn(w) == CrashInCreate(w) \/ CrashInUpdate(w)

Next ==
    \/ \E w \in Workers : Request(w) \/ Continue(w) \/ CrashIn(w)
    \/ CrashBetweenWrites
    \/ StartAgain

Spec == Init /\ [][Next]_vars

\* A request that was accepted goes on: its goroutine is scheduled, a mutex
\* is handed on, and the POST ends within its timeout.  Nothing makes a
\* merchant, a provider or an admin send a request, or a process start again.
Fairness == \A w \in Workers : WF_vars(Continue(w))

FairSpec == Spec /\ Fairness
-----------------------------------------------------------------------------
(* Properties. *)

\* Every variable has its type.
TypeOK ==
    /\ StoreTypeOK
    /\ pc \in [Workers -> {"idle", "update", "apply", "post",
                            "delivered", "refused", "note"}]
    /\ draft \in [Workers -> Payment \cup {NULL}]
    /\ tries \in [Ids -> Nat]
    /\ recorded \in [Ids -> Nat]
    /\ confirmed \in [Ids -> SUBSET PaymentStatus]
    /\ requests \in Nat
    /\ crashes \in Nat

\* records and outIndex are inverse to each other: an order key belongs to at
\* most one payment, and a webhook finds exactly the payment whose id the
\* merchant was given, however creates, stale updates and crashes interleave.
IndexAgrees ==
    /\ \A id \in Ids : records[id] # NULL =>
          records[id].id = id /\ outIndex[indexKey(records[id])] = id
    /\ \A k \in Keys : outIndex[k] # NULL =>
          records[outIndex[k]] # NULL /\ indexKey(records[outIndex[k]]) = k

\* What a running process serves is what a new process would load: no request
\* is answered from a state that a crash at this moment would take back
\* (README.md: "The server replays payment and audit files on startup").
MemoryIsReplay ==
    proc = "up" =>
        /\ \A id \in Ids : records[id] = Replayed(id)
        /\ \A k \in Keys : outIndex[k] = ReplayedIndex(k)

\* No payment, in memory or in the file, claims more callback attempts than
\* were recorded for it.
AttemptsRecorded ==
    /\ \A id \in Ids : records[id] # NULL => records[id].attempts <= recorded[id]
    /\ \A i \in GoodLines : lines[i].attempts <= recorded[lines[i].id]

\* No callback_attempts without a delivery that was tried: what is recorded was
\* tried, and what a payment claims was recorded, although updates overwrite
\* each other.  (An upper bound: overwritten attempts are lost.)
CallbacksAccounted ==
    /\ AttemptsRecorded
    /\ \A id \in Ids : recorded[id] <= tries[id]

\* When no request is in progress, each payment's callback_attempts counts
\* every outcome that was ever recorded for it (server_test.go: two
\* deliveries leave CallbackAttempts == 2).
EveryCallbackCounted ==
    (proc = "up" /\ \A w \in Workers : pc[w] = "idle") =>
        \A id \in Ids : records[id] # NULL => records[id].attempts = recorded[id]

\* The body about to be posted to the merchant is the payment as it is stored
\* (README.md: "The body is the latest payment JSON").
BodyIsLatest ==
    \A w \in Workers : pc[w] = "post" => draft[w] = records[draft[w].id]

\* A recorded callback failure stays on the payment until a webhook, a new
\* attempt or an operator's decision replaces it (README.md: "Non-2xx merchant
\* responses are recorded as callback failures and shown in the admin
\* dashboard").
FailureStaysRecorded ==
    [][\A id \in Ids :
          (/\ records[id] # NULL
           /\ records[id].callback = "failed"
           /\ records'[id] # NULL
           /\ records'[id].callback # "failed")
          => \/ records'[id].attempts > records[id].attempts
             \/ records'[id].callback = "lost"
             \/ \E w \in Workers : pc[w] = "apply" /\ draft[w].id = id]_vars

\* Close never takes a paid payment away: only what a provider reports or an
\* operator decides can (Close returns ErrInvalidPaymentState for one).
PaidIsNotClosed ==
    [][\A id \in Ids :
          (/\ records[id] # NULL
           /\ records[id].status = "paid"
           /\ records'[id] # NULL
           /\ records'[id].status = "closed")
          => \E w \in Workers : pc[w] = "apply" /\ draft[w].id = id]_vars

\* Every delivery that was tried, whichever of its ways it ended, is eventually
\* followed by the record of its outcome.
EveryTryRecorded == \A id \in Ids : tries[id] > recorded[id] ~> tries[id] = recorded[id]

AwaitsCallback(id) ==
    /\ records[id] # NULL
    /\ records[id].callback = "pending"
    /\ records[id].status \in {"paid", "failed"}

\* A payment that a provider settled does not wait for its callback forever,
\* unless the process ends: its callback_status becomes an outcome.
CallbackDecided ==
    \A id \in Ids : (AwaitsCallback(id) /\ crashes = 0)
                       ~> (~ AwaitsCallback(id) \/ crashes > 0)

\* The ledger is the file: the last line of a payment is its current version
\* and all its lines are its past.
VersionsOf(id) == {lines[i] : i \in LinesOf(id)}

LastVersion == [id \in Ids |-> Replayed(id)]
AllVersions == [id \in Ids |-> VersionsOf(id)]

Ledger == INSTANCE PaymentLedger WITH current <- LastVersion, past <- AllVersions

\* Requests that overlap, with crashes between any two of their steps, store
\* only payments that follow from an earlier version by one legal change, and
\* never open one order twice.
LedgerSpec == Ledger!Spec

\* Requests that do not overlap lose no update: every version follows from the
\* one just before it.
StrictLedgerSpec == Ledger!StrictSpec
=============================================================================
