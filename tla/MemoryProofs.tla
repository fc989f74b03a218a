----------------------------- MODULE MemoryProofs -----------------------------
(***************************************************************************)
(* The service over a FileStore implements a MemoryStore that no crash     *)
(* touches, for any number of workers, payments, requests and crashes.     *)
(* When requests do not overlap, an operator's list misses no payment whose*)
(* merchant has not confirmed what became of it.                           *)
(***************************************************************************)
EXTENDS Dashboard, LedgerProofs

MemoryStep == [Memory!Next]_(Memory!memoryVars)

\* What the service may do to the file: nothing, or append what is writable.
Appends == \E p \in Payment : Writable(p) /\ lines' = Append(lines, p)

LEMMA SameFileSameMaps ==
    ASSUME lines' = lines
    PROVE  MemoryStep
<1>1. LastVersion' = LastVersion
  BY DEF LastVersion, Replayed, LinesOf, GoodLines
<1>2. FileIndex' = FileIndex
  BY DEF FileIndex, ReplayedIndex, LinesFor, GoodLines
<1> QED  BY <1>1, <1>2 DEF MemoryStep, Memory!memoryVars

\* A writable payment at the end of the file is one that Create or Update of
\* the maps stores.
LEMMA AppendRemembers ==
    ASSUME StoreInv, Appends
    PROVE  MemoryStep
<1>1. PICK p \in Payment : Writable(p) /\ lines' = Append(lines, p)
  BY DEF Appends
<1>2. /\ p.id \in Ids /\ indexKey(p) \in Keys /\ p # NULL
      /\ Memory!indexKey(p) = indexKey(p)
  BY KeyType, NullAssumption DEF indexKey, Memory!indexKey
<1>3. /\ \A id \in Ids : Replayed(id)' = IF id = p.id THEN p ELSE Replayed(id)
      /\ \A k \in Keys :
            ReplayedIndex(k)' = IF k = indexKey(p) THEN p.id ELSE ReplayedIndex(k)
  BY <1>1, ReplayAfterAppend DEF StoreInv
<1>4. LastVersion' = [LastVersion EXCEPT ![p.id] = p]
  BY <1>2, <1>3 DEF LastVersion
<1>5. FileIndex' = [FileIndex EXCEPT ![indexKey(p)] = p.id]
  BY <1>2, <1>3 DEF FileIndex
<1>6. Memory!Remember(p)
  BY <1>2, <1>4, <1>5 DEF Memory!Remember
<1>7. records[p.id] = LastVersion[p.id] /\ outIndex[indexKey(p)] = FileIndex[indexKey(p)]
  BY <1>1, <1>2 DEF StoreInv, MemoryIsReplay, Writable, LastVersion, FileIndex
<1>8. Memory!Create(p) \/ Memory!Update(p)
  BY <1>1, <1>2, <1>6, <1>7 DEF Writable, Memory!Create, Memory!Update
<1>9. LastVersion'[p.id] = p
  BY <1>2, <1>4 DEF LastVersion
<1>10. Memory!Next
  BY <1>2, <1>8, <1>9 DEF Memory!Next
<1> QED  BY <1>10 DEF MemoryStep

LEMMA RememberAppends ==
    ASSUME StoreInv, NEW p \in Payment, Writable(p), NEW o \in {"ok", "none"},
           AppendAndRemember(p, o)
    PROVE  lines' = lines \/ Appends
<1>1. lines' = IF o = "none" THEN lines ELSE Append(lines, p)
  BY AppendWhole DEF StoreInv, FileIsWhole, AppendAndRemember
<1> QED  BY <1>1 DEF Appends

LEMMA DraftAppends ==
    ASSUME CleanAppends, IInv, NEW w \in Workers, pc[w] # "idle",
           NEW o \in Outcomes, Update(draft[w], o)
    PROVE  lines' = lines \/ Appends
<1>1. Writable(draft[w])
  BY DraftIsWritable
<1>2. o \in {"ok", "none"} /\ AppendAndRemember(draft[w], o)
  BY DEF CleanAppends, Outcomes, Update
<1> QED  BY <1>1, <1>2, RememberAppends DEF IInv, Writable

LEMMA CreateAppends ==
    ASSUME CleanAppends, IInv, NEW w \in Workers, CreatePayment(w)
    PROVE  lines' = lines \/ Appends
<1>1. PICK id \in Ids, key \in Keys, notify \in Notifies, big \in Sizes, o \in {"ok", "none"} :
        Fresh(id) /\ Create(NewPayment(id, key, notify, big), o)
  BY DEF CreatePayment, CleanAppends
<1> DEFINE p == NewPayment(id, key, notify, big)
<1>2. p \in Payment /\ Writable(p)
  BY <1>1, ServiceAssumption, SizesAssumption, NewPaymentType, FreshIsWritable DEF Create
<1> QED  BY <1>1, <1>2, RememberAppends DEF IInv, Create

LEMMA CrashAppends ==
    ASSUME CleanAppends, IInv, NEW w \in Workers, CrashIn(w)
    PROVE  Appends
<1>1. CASE CrashInCreate(w)
  <2>1. PICK id \in Ids, key \in Keys, notify \in Notifies, big \in Sizes, form \in CrashForms :
          /\ Fresh(id)
          /\ CanCreate(NewPayment(id, key, notify, big))
          /\ append(NewPayment(id, key, notify, big), form)
    BY <1>1 DEF CrashInCreate, CrashInAppend
  <2> DEFINE p == NewPayment(id, key, notify, big)
  <2>2. p \in Payment /\ Writable(p)
    BY <2>1, ServiceAssumption, SizesAssumption, NewPaymentType, FreshIsWritable
  <2>3. lines' = Append(lines, p)
    BY <2>1, AppendWhole DEF CleanAppends, IInv, StoreInv, FileIsWhole
  <2> QED  BY <2>2, <2>3 DEF Appends
<1>2. CASE CrashInUpdate(w)
  <2>1. PICK form \in CrashForms : append(draft[w], form) /\ pc[w] # "idle"
    BY <1>2 DEF CrashInUpdate, CrashInAppend
  <2>2. Writable(draft[w])
    BY <2>1, DraftIsWritable
  <2>3. lines' = Append(lines, draft[w])
    BY <2>1, AppendWhole DEF CleanAppends, IInv, StoreInv, FileIsWhole
  <2> QED  BY <2>2, <2>3 DEF Appends, Writable
<1> QED  BY <1>1, <1>2 DEF CrashIn

-----------------------------------------------------------------------------
\* A service over the file behaves as one over a MemoryStore that no crash
\* touches: what the next process would load changes only as Create and Update
\* of the maps change them.
THEOREM ServiceImplementsMemoryStore ==
    ASSUME CleanAppends
    PROVE  Spec => MemoryStoreSpec
<1>1. Init => Memory!Init
  <2> SUFFICES ASSUME Init PROVE Memory!Init
    OBVIOUS
  <2>1. GoodLines = {}
    BY DEF Init, StoreInit, GoodLines
  <2>2. /\ \A id \in Ids : Replayed(id) = NULL
        /\ \A k \in Keys : ReplayedIndex(k) = NULL
    BY <2>1 DEF Replayed, ReplayedIndex, LinesOf, LinesFor
  <2>3. Keys = Memory!Keys
    BY DEF Keys, Memory!Keys
  <2> QED  BY <2>2, <2>3 DEF Memory!Init, LastVersion, FileIndex
<1>2. IInv /\ [Next]_vars => MemoryStep
  <2> SUFFICES ASSUME IInv, [Next]_vars PROVE lines' = lines \/ Appends
    BY SameFileSameMaps, AppendRemembers DEF IInv
  <2>1. ASSUME NEW w \in Workers, Request(w) PROVE lines' = lines \/ Appends
    BY <2>1, CreateAppends DEF Request, ClosePayment, Webhook, MarkLost, RetryCallback, storeVars
  <2>2. ASSUME NEW w \in Workers, Continue(w) PROVE lines' = lines \/ Appends
    <3>1. CASE WriteUpdate(w) \/ WriteApplied(w) \/ RecordWrite(w)
      <4>1. PICK o \in Outcomes : Update(draft[w], o) /\ pc[w] # "idle"
        BY <3>1 DEF WriteUpdate, WriteApplied, RecordWrite, WriteDraft
      <4> QED  BY <4>1, DraftAppends
    <3>2. CASE PostCallback(w) \/ RecordRead(w)
      BY <3>2 DEF PostCallback, RecordRead, storeVars
    <3> QED  BY <2>2, <3>1, <3>2 DEF Continue
  <2>3. CASE CrashBetweenWrites \/ StartAgain \/ UNCHANGED vars
    BY <2>3 DEF CrashBetweenWrites, Crash, StartAgain, Restart, vars, storeVars
  <2> QED  BY <2>1, <2>2, <2>3, CrashAppends DEF Next
<1>3. IInv /\ [Next]_vars => [Memory!Next]_(Memory!memoryVars)
  BY <1>2 DEF MemoryStep
<1> QED  BY <1>1, <1>3, ServiceInvariant, PTL DEF Spec, MemoryStoreSpec, Memory!Spec

-----------------------------------------------------------------------------
(* The list of an operator, for requests that do not overlap.  A copy that *)
(* says paid is of a payment whose merchant took a body that says so, or it*)
(* shows that the callback is due, has failed or was given up.  Such a copy*)
(* comes back from the file as it was stored.                              *)

Known(c, p) ==
    (p.notify /\ p.status = "paid" /\ "paid" \notin c[p.id])
        => p.callback \in {"failed", "lost", "pending"}

LinesKnown == \A i \in DOMAIN lines : Known(confirmed, lines[i])

DraftsKnown == \A w \in Workers : pc[w] \in {"update", "apply", "note"} => Known(confirmed, draft[w])

DeliveredConfirmed ==
    \A w \in Workers : pc[w] = "delivered" => draft[w].status \in confirmed[draft[w].id]

WorkersKnow == DraftsKnown /\ DeliveredConfirmed

KInv == SInv /\ LinesKnown /\ WorkersKnow

\* Only Applied makes a payment paid, and it makes its callback due; a success
\* is recorded on a paid payment only when its merchant confirmed that.
LEMMA OperationsKnown ==
    ASSUME NEW c, NEW p \in Payment
    PROVE  /\ \A ok \in BOOLEAN : \A q \in Reworded(Answered(p, ok)) : Known(c, q)
           /\ Closable(p) => Known(c, Closed(p))
           /\ \A q \in Reworded(Lost(p)) : Known(c, q)
           /\ \A status \in PaymentStatus : \A q \in Reworded(Applied(p, status)) : Known(c, q)
           /\ \A q \in Reworded(Called(p, FALSE)) : Known(c, q)
           /\ p.status \in c[p.id] => \A q \in Reworded(Called(p, TRUE)) : Known(c, q)
<1>1. ASSUME NEW ok \in BOOLEAN, NEW q \in Reworded(Answered(p, ok))
      PROVE  Known(c, q)
  <2>1. q.status = Answered(p, ok).status /\ Answered(p, ok).status # "paid"
    BY AnsweredRevises, RewordedType DEF Answered, Payment, Revises
  <2> QED  BY <2>1 DEF Known
<1>2. Closable(p) => Known(c, Closed(p))
  BY DEF Closed, Known, Payment
<1>3. ASSUME NEW q \in Reworded(Lost(p))
      PROVE  Known(c, q)
  <2>1. Lost(p) \in Payment /\ Lost(p).status = "lost"
    BY LostRevises DEF Lost, Payment, Revises
  <2>2. q.status = Lost(p).status
    BY <2>1, RewordedType
  <2> QED  BY <2>1, <2>2 DEF Known
<1>4. ASSUME NEW status \in PaymentStatus, NEW q \in Reworded(Applied(p, status))
      PROVE  Known(c, q)
  <2>1. Applied(p, status) \in Payment /\ Applied(p, status).notify = p.notify
    BY AppliedRevises DEF Applied, Payment, Revises
  <2>2. q.status = status /\ q.callback = Applied(p, status).callback /\ q.notify = p.notify
    BY <2>1, RewordedType DEF Applied, Payment, Reworded
  <2>3. p.notify /\ status = "paid" => Applied(p, status).callback = "pending"
    BY DEF Applied, Payment
  <2> QED  BY <2>2, <2>3 DEF Known
<1>5. ASSUME NEW success \in BOOLEAN, NEW q \in Reworded(Called(p, success)),
             success => p.status \in c[p.id]
      PROVE  Known(c, q)
  <2>1. Called(p, success) \in Payment /\ Called(p, success).id = p.id
    BY CalledRevises DEF Revises
  <2>2. /\ q.status = p.status /\ q.id = p.id
        /\ q.callback = IF success THEN "success" ELSE "failed"
    BY <2>1, RewordedType DEF Called, Payment
  <2> QED  BY <1>5, <2>2 DEF Known
<1> QED  BY <1>1, <1>2, <1>3, <1>4, <1>5

\* What a merchant has confirmed it has confirmed for good.
ConfirmedGrows == \A id \in Ids : confirmed[id] \subseteq confirmed'[id]

LEMMA OnlyPostConfirms ==
    ASSUME [Next]_vars, \A w \in Workers : ~ PostCallback(w)
    PROVE  confirmed' = confirmed
<1>1. ASSUME NEW w \in Workers, Request(w) PROVE confirmed' = confirmed
  BY <1>1 DEF Request, CreatePayment, ClosePayment, Webhook, MarkLost, RetryCallback,
              Accept, historyVars
<1>2. ASSUME NEW w \in Workers, Continue(w) PROVE confirmed' = confirmed
  BY <1>2 DEF Continue, WriteUpdate, WriteApplied, RecordRead, RecordWrite,
              WriteDraft, historyVars
<1>3. ASSUME CrashBetweenWrites \/ StartAgain \/ \E w \in Workers : CrashIn(w)
      PROVE  confirmed' = confirmed
  BY <1>3 DEF CrashBetweenWrites, StartAgain, CrashIn, CrashInCreate, CrashInUpdate,
              LoseWorkers, historyVars
<1>4. CASE UNCHANGED vars
  BY <1>4 DEF vars, historyVars
<1> QED  BY <1>1, <1>2, <1>3, <1>4 DEF Next

LEMMA StepConfirms ==
    ASSUME TypeOK, [Next]_vars
    PROVE  ConfirmedGrows
<1>1. ASSUME NEW w \in Workers, PostCallback(w)
      PROVE  ConfirmedGrows
  BY <1>1 DEF PostCallback, ConfirmedGrows, TypeOK
<1> QED  BY <1>1, OnlyPostConfirms DEF ConfirmedGrows

LEMMA KnownStays ==
    ASSUME ConfirmedGrows, NEW p \in Payment, Known(confirmed, p)
    PROVE  Known(confirmed', p)
  BY KeyType DEF Known, ConfirmedGrows

LEMMA LinesStayKnown ==
    ASSUME CleanAppends, KInv, [Next]_vars, ConfirmedGrows
    PROVE  LinesKnown'
<1>1. StoreTypeOK /\ \A i \in DOMAIN lines : lines[i] \in Payment
  BY DEF KInv, SInv, IInv, StoreInv, FileIsWhole
<1>2. \A i \in DOMAIN lines : Known(confirmed', lines[i])
  BY <1>1, KnownStays DEF KInv, LinesKnown
<1>3. ASSUME NEW p \in Payment, Known(confirmed', p), lines' = Append(lines, p)
      PROVE  LinesKnown'
  <2>1. \A i \in DOMAIN lines' : Known(confirmed', lines'[i])
    <3> SUFFICES ASSUME NEW i \in DOMAIN lines' PROVE Known(confirmed', lines'[i])
      OBVIOUS
    <3>1. lines'[i] = p \/ (i \in DOMAIN lines /\ lines'[i] = lines[i])
      BY <1>1, <1>3, LinesAfterAppend
    <3> QED  BY <1>2, <1>3, <3>1
  <2> QED  BY <2>1 DEF LinesKnown
<1>4. CASE Rests
  <2>1. \A i \in DOMAIN lines' : Known(confirmed', lines'[i])
    BY <1>2, <1>4 DEF Rests
  <2> QED  BY <2>1 DEF LinesKnown
<1>5. ASSUME NEW w \in Workers, Stores(w)
      PROVE  LinesKnown'
  <2>1. /\ draft[w] \in Payment /\ Known(confirmed, draft[w])
        /\ lines' = Append(lines, draft[w])
    BY <1>5, StoredDraft DEF Stores, KInv, SInv, WorkersKnow, DraftsKnown
  <2> QED  BY <1>3, <2>1, KnownStays
<1>6. ASSUME NEW id \in Ids, NEW key \in Keys, NEW notify \in BOOLEAN, NEW big \in BOOLEAN,
             Opens(id, key, notify, big)
      PROVE  LinesKnown'
  <2> DEFINE p == NewPayment(id, key, notify, big)
  <2>1. p \in Payment /\ p.status # "paid" /\ lines' = Append(lines, p)
    BY <1>6, NewPaymentType DEF Opens, NewPayment
  <2> HIDE DEF p
  <2>2. Known(confirmed', p)
    BY <2>1 DEF Known
  <2> QED  BY <1>3, <2>1, <2>2
<1> QED  BY <1>4, <1>5, <1>6, StepAdds DEF KInv, SInv, Adds

\* A request that moves on with a copy that is known, or with none.
LEMMA MovesKnown ==
    ASSUME OneAtATime, TypeOK, NEW w \in Workers, NEW label, NEW q, Goto(w, label, q),
           label \in {"update", "apply", "note"} => Known(confirmed, q),
           label # "delivered", confirmed' = confirmed
    PROVE  WorkersKnow'
<1>1. pc'[w] = label /\ draft'[w] = q
  BY DEF Goto, TypeOK
<1>2. ASSUME NEW v \in Workers
      PROVE  /\ pc'[v] \in {"update", "apply", "note"} => Known(confirmed', draft'[v])
             /\ pc'[v] # "delivered"
  <2>1. v = w
    BY DEF OneAtATime
  <2> QED  BY <1>1, <2>1
<1> QED  BY <1>2 DEF WorkersKnow, DraftsKnown, DeliveredConfirmed

LEMMA IdleKnown ==
    ASSUME \A v \in Workers : pc'[v] = "idle"
    PROVE  WorkersKnow'
  BY DEF WorkersKnow, DraftsKnown, DeliveredConfirmed

LEMMA RequestKnown ==
    ASSUME OneAtATime, KInv, NEW w \in Workers, Request(w)
    PROVE  WorkersKnow'
<1>0. TypeOK /\ StoreTypeOK /\ confirmed' = confirmed
  BY DEF KInv, SInv, IInv, Typed, StoreInv, Request, CreatePayment, ClosePayment, Webhook,
         MarkLost, RetryCallback, Accept, historyVars
<1>1. CASE CreatePayment(w)
  <2>1. PICK id \in Ids, key \in Keys, notify \in Notifies, big \in Sizes :
          \/ \E ok \in ProviderAnswers :
               \E q \in Reworded(Answered(NewPayment(id, key, notify, big), ok)) :
                  Goto(w, "update", q)
          \/ UNCHANGED workerVars
    BY <1>1 DEF CreatePayment
  <2> DEFINE p == NewPayment(id, key, notify, big)
  <2>2. p \in Payment
    BY ServiceAssumption, SizesAssumption, NewPaymentType
  <2> HIDE DEF p
  <2>3. CASE \E ok \in ProviderAnswers : \E q \in Reworded(Answered(p, ok)) :
                Goto(w, "update", q)
    <3>1. PICK ok \in ProviderAnswers : \E q \in Reworded(Answered(p, ok)) :
                                          Goto(w, "update", q)
      BY <2>3
    <3>2. PICK q \in Reworded(Answered(p, ok)) : Goto(w, "update", q)
      BY <3>1
    <3>3. Known(confirmed, q)
      BY <2>2, <3>2, OperationsKnown, ServiceAssumption
    <3> QED  BY <1>0, <3>2, <3>3, MovesKnown
  <2>4. CASE UNCHANGED workerVars
    <3>1. \A v \in Workers : pc'[v] = "idle"
      BY <1>1, <2>4 DEF CreatePayment, Accept, CanAccept, workerVars, OneAtATime
    <3> QED  BY <3>1, IdleKnown
  <2> QED  BY <2>1, <2>3, <2>4 DEF p
<1>2. CASE ClosePayment(w)
  <2>1. PICK id \in Ids : /\ records[id] # NULL /\ Closable(records[id])
                          /\ Goto(w, "update", Closed(records[id]))
    BY <1>2 DEF ClosePayment
  <2>2. Known(confirmed, Closed(records[id]))
    BY <1>0, <2>1, RecordIsPayment, OperationsKnown
  <2> QED  BY <1>0, <2>1, <2>2, MovesKnown
<1>3. CASE Webhook(w)
  <2>1. PICK k \in Keys, status \in WebhookStatuses :
          /\ FindByOutTradeNo(k) # NULL
          /\ \E q \in Reworded(Applied(FindByOutTradeNo(k), status)) : Goto(w, "apply", q)
    BY <1>3 DEF Webhook
  <2>2. PICK q \in Reworded(Applied(FindByOutTradeNo(k), status)) : Goto(w, "apply", q)
    BY <2>1
  <2>3. FindByOutTradeNo(k) \in Payment /\ status \in PaymentStatus
    BY <1>0, <2>1, FoundIsPayment, ServiceAssumption
  <2>4. Known(confirmed, q)
    BY <2>2, <2>3, OperationsKnown
  <2> QED  BY <1>0, <2>2, <2>4, MovesKnown
<1>4. CASE MarkLost(w)
  <2>1. PICK id \in Ids : /\ records[id] # NULL
                          /\ \E q \in Reworded(Lost(records[id])) : Goto(w, "update", q)
    BY <1>4 DEF MarkLost
  <2>2. PICK q \in Reworded(Lost(records[id])) : Goto(w, "update", q)
    BY <2>1
  <2>3. Known(confirmed, q)
    BY <1>0, <2>1, <2>2, RecordIsPayment, OperationsKnown
  <2> QED  BY <1>0, <2>2, <2>3, MovesKnown
<1>5. CASE RetryCallback(w)
  <2>1. PICK id \in Ids : Goto(w, "post", records[id])
    BY <1>5 DEF RetryCallback
  <2> QED  BY <1>0, <2>1, MovesKnown
<1> QED  BY <1>1, <1>2, <1>3, <1>4, <1>5 DEF Request

LEMMA ContinueKnown ==
    ASSUME OneAtATime, KInv, NEW w \in Workers, Continue(w)
    PROVE  WorkersKnow'
<1>0. TypeOK
  BY DEF KInv, SInv, IInv, Typed
<1>1. CASE WriteUpdate(w) \/ WriteApplied(w) \/ RecordWrite(w)
  <2>1. PICK o \in Outcomes, next \in {"post", "idle"} : WriteDraft(w, next, o)
    BY <1>1 DEF WriteUpdate, WriteApplied, RecordWrite
  <2>2. confirmed' = confirmed /\ (Goto(w, "idle", NULL) \/ Goto(w, next, draft[w]))
    BY <2>1 DEF WriteDraft
  <2> QED  BY <1>0, <2>2, MovesKnown
<1>2. CASE PostCallback(w)
  <2>1. /\ pc'[w] \in {"delivered", "refused"} /\ draft' = draft
        /\ pc'[w] = "delivered" =>
              confirmed' = [confirmed EXCEPT ![draft[w].id] = @ \cup {draft[w].status}]
    BY <1>0, <1>2 DEF PostCallback, TypeOK
  <2>2. draft[w].id \in Ids
    BY <1>2, StoredDraft DEF PostCallback, KInv, SInv
  <2>3. pc'[w] = "delivered" => draft'[w].status \in confirmed'[draft'[w].id]
    BY <1>0, <2>1, <2>2 DEF TypeOK
  <2> QED  BY <2>1, <2>3 DEF OneAtATime, WorkersKnow, DraftsKnown, DeliveredConfirmed
<1>3. CASE RecordRead(w)
  <2> DEFINE r == records[draft[w].id]
  <2>1. PICK success \in BOOLEAN :
          /\ success <=> pc[w] = "delivered"
          /\ \E q \in Reworded(Called(r, success)) : Goto(w, "note", q)
    BY <1>3 DEF RecordRead
  <2>2. /\ pc[w] \in {"delivered", "refused"} /\ confirmed' = confirmed
        /\ r \in Payment /\ r = draft[w]
    BY <1>3, StoredDraft DEF RecordRead, historyVars, KInv, SInv, Fits, Suits
  <2>3. success => r.status \in confirmed[r.id]
    BY <2>1, <2>2 DEF KInv, WorkersKnow, DeliveredConfirmed
  <2> HIDE DEF r
  <2>4. PICK q \in Reworded(Called(r, success)) : Goto(w, "note", q)
    BY <2>1
  <2>5. Known(confirmed, q)
    BY <2>2, <2>3, <2>4, OperationsKnown
  <2> QED  BY <1>0, <2>2, <2>4, <2>5, MovesKnown
<1> QED  BY <1>1, <1>2, <1>3 DEF Continue

LEMMA StepKnown ==
    ASSUME OneAtATime, KInv, [Next]_vars
    PROVE  WorkersKnow'
<1>1. CASE CrashBetweenWrites \/ \E w \in Workers : CrashIn(w)
  BY <1>1, IdleKnown DEF CrashBetweenWrites, CrashIn, CrashInCreate, CrashInUpdate, LoseWorkers
<1>2. CASE StartAgain \/ UNCHANGED vars
  <2>1. UNCHANGED <<pc, draft, confirmed>>
    BY <1>2 DEF StartAgain, vars, workerVars, historyVars
  <2> QED  BY <2>1 DEF KInv, WorkersKnow, DraftsKnown, DeliveredConfirmed, Known
<1> QED  BY <1>1, <1>2, RequestKnown, ContinueKnown DEF Next

\* When requests do not overlap, a settled payment whose merchant never took a
\* body with its status is in the operator's list, wherever a process ends and
\* whatever the next one loads.
THEOREM SerialUnreportedListed ==
    ASSUME CleanAppends, OneAtATime
    PROVE  Spec => []UnreportedIsListed
<1>1. Init => LinesKnown /\ WorkersKnow
  BY DEF Init, StoreInit, LinesKnown, WorkersKnow, DraftsKnown, DeliveredConfirmed
<1>2. KInv /\ [Next]_vars => LinesKnown' /\ WorkersKnow'
  <2> SUFFICES ASSUME KInv, [Next]_vars PROVE LinesKnown' /\ WorkersKnow'
    OBVIOUS
  <2>1. ConfirmedGrows
    BY StepConfirms DEF KInv, SInv, IInv, Typed
  <2> QED  BY <2>1, LinesStayKnown, StepKnown
<1>3. KInv => UnreportedIsListed
  <2> SUFFICES ASSUME KInv, NEW p \in List, p.notify,
                      p.status \in {"paid", "failed"} \ confirmed[p.id]
               PROVE  p \in Abnormal(p.env) \cap Abnormal(AllEnvs)
    BY DEF UnreportedIsListed
  <2>1. PICK id \in Ids : p = records[id] /\ records[id] # NULL
    BY DEF List
  <2>2. proc = "up"
    BY <2>1, RecordCounted DEF KInv, SInv
  <2>3. PICK i \in DOMAIN lines : p = lines[i]
    BY <2>1, <2>2, ReplayedLine DEF KInv, SInv, IInv, StoreInv, MemoryIsReplay
  <2>4. isAbnormal(p)
    BY <2>3 DEF isAbnormal, KInv, LinesKnown, Known
  <2>5. p \in ListFiltered(p.env) /\ p \in ListFiltered(AllEnvs)
    BY DEF ListFiltered
  <2> QED  BY <2>4, <2>5 DEF Abnormal
<1>4. SInv /\ LinesKnown /\ WorkersKnow => KInv
  BY DEF KInv
<1>5. KInv => SInv /\ LinesKnown /\ WorkersKnow
  BY DEF KInv
<1> QED  BY <1>1, <1>2, <1>3, <1>4, <1>5, SerialInvariant, PTL DEF Spec
=============================================================================
