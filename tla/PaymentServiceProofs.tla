------------------------ MODULE PaymentServiceProofs ------------------------
(***************************************************************************)
(* Theorems about PaymentService, for any number of workers, payments,     *)
(* requests and crashes.                                                   *)
(***************************************************************************)
EXTENDS PaymentService, FileStoreProofs

-----------------------------------------------------------------------------
(* What an operation makes of a payment is a payment of the same order.    *)

Revises(p, q) ==
    /\ q \in Payment
    /\ q.id = p.id
    /\ indexKey(q) = indexKey(p)

LEMMA AnsweredRevises ==
    ASSUME NEW p \in Payment, NEW ok \in BOOLEAN
    PROVE  Revises(p, Answered(p, ok)) /\ Answered(p, ok).attempts = p.attempts
<1>1. CASE ok
  BY <1>1 DEF Answered, Revises, Payment, PaymentStatus, CallbackStatus, indexKey
<1>2. CASE ~ ok
  BY <1>2 DEF Answered, Revises, Payment, PaymentStatus, CallbackStatus, indexKey
<1> QED  BY <1>1, <1>2

LEMMA ClosedRevises ==
    ASSUME NEW p \in Payment
    PROVE  Revises(p, Closed(p)) /\ Closed(p).attempts = p.attempts
  BY DEF Closed, Revises, Payment, PaymentStatus, indexKey

LEMMA AppliedRevises ==
    ASSUME NEW p \in Payment, NEW status \in PaymentStatus
    PROVE  Revises(p, Applied(p, status)) /\ Applied(p, status).attempts = p.attempts
  BY DEF Applied, Revises, Payment, CallbackStatus, indexKey

LEMMA LostRevises ==
    ASSUME NEW p \in Payment
    PROVE  Revises(p, Lost(p)) /\ Lost(p).attempts = p.attempts
  BY DEF Lost, Revises, Payment, PaymentStatus, CallbackStatus, indexKey

LEMMA CalledRevises ==
    ASSUME NEW p \in Payment, NEW success
    PROVE  Revises(p, Called(p, success)) /\ Called(p, success).attempts = p.attempts + 1
<1> DEFINE outcome == IF success THEN "success" ELSE "failed"
<1>1. outcome \in CallbackStatus /\ p.attempts + 1 \in Nat
  BY DEF CallbackStatus, Payment
<1> HIDE DEF outcome
<1>2. Called(p, success) = [p EXCEPT !.attempts = p.attempts + 1, !.callback = outcome]
  BY DEF Called, outcome
<1> QED  BY <1>1, <1>2 DEF Revises, Payment, indexKey

\* Other texts change nothing of it but its length.
LEMMA RewordedRevises ==
    ASSUME NEW p, NEW q, Revises(p, q), NEW v \in Reworded(q)
    PROVE  Revises(p, v) /\ v.attempts = q.attempts
  BY RewordedType DEF Revises

LEMMA RecordIsPayment ==
    ASSUME StoreTypeOK, NEW id \in Ids, records[id] # NULL
    PROVE  records[id] \in Payment
  BY DEF StoreTypeOK

LEMMA FoundIsPayment ==
    ASSUME StoreTypeOK, NEW k \in Keys, FindByOutTradeNo(k) # NULL
    PROVE  /\ FindByOutTradeNo(k) \in Payment
           /\ outIndex[k] \in Ids
           /\ FindByOutTradeNo(k) = records[outIndex[k]]
  BY DEF FindByOutTradeNo, StoreTypeOK
-----------------------------------------------------------------------------
(* Types. *)

DraftTyped == \A w \in Workers : pc[w] # "idle" => draft[w] \in Payment

HistoryTyped ==
    /\ tries \in [Ids -> Nat]
    /\ recorded \in [Ids -> Nat]
    /\ confirmed \in [Ids -> SUBSET PaymentStatus]

Typed == TypeOK /\ DraftTyped

LEMMA GotoTyped ==
    ASSUME Typed, NEW w \in Workers, NEW p \in Payment,
           NEW label \in {"update", "apply", "post", "note"},
           Goto(w, label, p), StoreTypeOK',
           HistoryTyped', requests' \in Nat, crashes' \in Nat
    PROVE  Typed'
  BY DEF Typed, TypeOK, DraftTyped, HistoryTyped, Goto

LEMMA FinishTyped ==
    ASSUME Typed, NEW w \in Workers, Goto(w, "idle", NULL), StoreTypeOK',
           HistoryTyped', requests' \in Nat, crashes' \in Nat
    PROVE  Typed'
  BY DEF Typed, TypeOK, DraftTyped, HistoryTyped, Goto

LEMMA AcceptTyped ==
    ASSUME Typed, NEW w \in Workers, Accept(w)
    PROVE  HistoryTyped' /\ requests' \in Nat /\ crashes' \in Nat
  BY DEF Typed, TypeOK, HistoryTyped, Accept, historyVars

LEMMA StoreUnchangedTyped ==
    ASSUME StoreTypeOK, UNCHANGED storeVars
    PROVE  StoreTypeOK'
  BY DEF StoreTypeOK, storeVars

LEMMA RequestTyped ==
    ASSUME Typed, NEW w \in Workers, Request(w)
    PROVE  Typed'
<1> USE ServiceAssumption
<1>0. StoreTypeOK
  BY DEF Typed, TypeOK
<1>1. CASE CreatePayment(w)
  <2>1. PICK id \in Ids, key \in Keys, notify \in Notifies, big \in Sizes :
          /\ Accept(w)
          /\ \/ /\ Create(NewPayment(id, key, notify, big), "ok")
                /\ \E ok \in ProviderAnswers :
                      \E q \in Reworded(Answered(NewPayment(id, key, notify, big), ok)) :
                         Goto(w, "update", q)
             \/ \E fault \in WriteFaults :
                   Create(NewPayment(id, key, notify, big), fault) /\ UNCHANGED workerVars
    BY <1>1 DEF CreatePayment
  <2> DEFINE p == NewPayment(id, key, notify, big)
  <2>2. p \in Payment
    BY SizesAssumption, NewPaymentType
  <2> HIDE DEF p
  <2>3. CASE /\ Create(p, "ok")
             /\ \E ok \in ProviderAnswers :
                   \E q \in Reworded(Answered(p, ok)) : Goto(w, "update", q)
    <3>0. PICK ok \in ProviderAnswers : \E q \in Reworded(Answered(p, ok)) :
                                          Goto(w, "update", q)
      BY <2>3
    <3>1. PICK q \in Reworded(Answered(p, ok)) : Create(p, "ok") /\ Goto(w, "update", q)
      BY <2>3, <3>0
    <3>2. q \in Payment
      BY <2>2, AnsweredRevises, RewordedRevises DEF Revises
    <3>3. StoreTypeOK'
      BY <1>0, <2>2, <3>1, RememberType DEF Create
    <3> QED  BY <2>1, <3>1, <3>2, <3>3, AcceptTyped, GotoTyped
  <2>4. CASE \E fault \in WriteFaults : Create(p, fault) /\ UNCHANGED workerVars
    <3>1. StoreTypeOK'
      BY <1>0, <2>2, <2>4, RememberType DEF Create
    <3> QED  BY <2>1, <2>4, <3>1, AcceptTyped
         DEF Typed, TypeOK, DraftTyped, HistoryTyped, workerVars
  <2> QED  BY <2>1, <2>3, <2>4 DEF p
<1>2. CASE ClosePayment(w)
  <2>1. PICK id \in Ids : /\ Accept(w) /\ records[id] # NULL
                          /\ Goto(w, "update", Closed(records[id]))
                          /\ UNCHANGED storeVars
    BY <1>2 DEF ClosePayment
  <2>2. Closed(records[id]) \in Payment
    BY <1>0, <2>1, RecordIsPayment, ClosedRevises DEF Revises
  <2> QED  BY <1>0, <2>1, <2>2, AcceptTyped, GotoTyped, StoreUnchangedTyped
<1>3. CASE Webhook(w)
  <2>1. PICK k \in Keys, status \in WebhookStatuses :
          /\ Accept(w) /\ FindByOutTradeNo(k) # NULL
          /\ \E p \in Reworded(Applied(FindByOutTradeNo(k), status)) : Goto(w, "apply", p)
          /\ UNCHANGED storeVars
    BY <1>3 DEF Webhook
  <2>2. \A p \in Reworded(Applied(FindByOutTradeNo(k), status)) : p \in Payment
    BY <1>0, <2>1, FoundIsPayment, AppliedRevises, RewordedRevises DEF Revises
  <2> QED  BY <1>0, <2>1, <2>2, AcceptTyped, GotoTyped, StoreUnchangedTyped
<1>4. CASE MarkLost(w)
  <2>1. PICK id \in Ids : /\ Accept(w) /\ records[id] # NULL
                          /\ \E p \in Reworded(Lost(records[id])) : Goto(w, "update", p)
                          /\ UNCHANGED storeVars
    BY <1>4 DEF MarkLost
  <2>2. \A p \in Reworded(Lost(records[id])) : p \in Payment
    BY <1>0, <2>1, RecordIsPayment, LostRevises, RewordedRevises DEF Revises
  <2> QED  BY <1>0, <2>1, <2>2, AcceptTyped, GotoTyped, StoreUnchangedTyped
<1>5. CASE RetryCallback(w)
  <2>1. PICK id \in Ids : /\ Accept(w) /\ records[id] # NULL
                          /\ Goto(w, "post", records[id])
                          /\ UNCHANGED storeVars
    BY <1>5 DEF RetryCallback
  <2> QED  BY <1>0, <2>1, RecordIsPayment, AcceptTyped, GotoTyped, StoreUnchangedTyped
<1> QED  BY <1>1, <1>2, <1>3, <1>4, <1>5 DEF Request

LEMMA WriteDraftTyped ==
    ASSUME Typed, NEW w \in Workers, pc[w] # "idle", NEW next \in {"post", "idle"}, NEW o,
           WriteDraft(w, next, o), recorded' \in [Ids -> Nat]
    PROVE  Typed'
<1>1. draft[w] \in Payment /\ StoreTypeOK
  BY DEF Typed, TypeOK, DraftTyped
<1>2. StoreTypeOK'
  BY <1>1, RememberType DEF WriteDraft, Update
<1>3. HistoryTyped' /\ requests' \in Nat /\ crashes' \in Nat
  BY DEF WriteDraft, HistoryTyped, Typed, TypeOK
<1>4. Goto(w, "post", draft[w]) \/ Goto(w, "idle", NULL)
  BY DEF WriteDraft
<1> QED  BY <1>1, <1>2, <1>3, <1>4, GotoTyped, FinishTyped

LEMMA ContinueTyped ==
    ASSUME Typed, NEW w \in Workers, Continue(w)
    PROVE  Typed'
<1>0. StoreTypeOK /\ recorded \in [Ids -> Nat] /\ tries \in [Ids -> Nat]
  BY DEF Typed, TypeOK
<1>1. CASE WriteUpdate(w)
  <2>1. PICK o \in Outcomes : WriteDraft(w, "idle", o)
    BY <1>1 DEF WriteUpdate
  <2> QED  BY <1>0, <1>1, <2>1, WriteDraftTyped DEF WriteUpdate
<1>2. CASE WriteApplied(w)
  <2>1. PICK o \in Outcomes : WriteDraft(w, IF draft[w].notify THEN "post" ELSE "idle", o)
    BY <1>2 DEF WriteApplied
  <2> QED  BY <1>0, <1>2, <2>1, WriteDraftTyped DEF WriteApplied
<1>3. CASE PostCallback(w)
  <2>1. draft[w].id \in Ids /\ draft[w].status \in PaymentStatus
    BY <1>3, KeyType DEF PostCallback, Typed, DraftTyped, Payment
  <2>2. tries' \in [Ids -> Nat] /\ confirmed' \in [Ids -> SUBSET PaymentStatus]
    BY <1>0, <1>3, <2>1 DEF PostCallback, Typed, TypeOK
  <2>3. pc' \in [Workers -> {"idle", "update", "apply", "post",
                            "delivered", "refused", "note"}]
    BY <1>3 DEF PostCallback, Typed, TypeOK
  <2>4. DraftTyped'
    BY <1>3 DEF PostCallback, Typed, TypeOK, DraftTyped
  <2>5. UNCHANGED <<storeVars, draft, recorded, requests, crashes>>
    BY <1>3 DEF PostCallback
  <2> QED  BY <1>0, <2>2, <2>3, <2>4, <2>5, StoreUnchangedTyped DEF Typed, TypeOK
<1>4. CASE RecordRead(w)
  <2>1. draft[w].id \in Ids
    BY <1>4, KeyType DEF RecordRead, Typed, DraftTyped
  <2>2. \A p \in Reworded(Called(records[draft[w].id], pc[w] = "delivered")) : p \in Payment
    BY <1>0, <1>4, <2>1, RecordIsPayment, CalledRevises, RewordedRevises
       DEF RecordRead, Revises
  <2>3. HistoryTyped' /\ requests' \in Nat /\ crashes' \in Nat
    BY <1>4 DEF RecordRead, historyVars, HistoryTyped, Typed, TypeOK
  <2> QED  BY <1>0, <1>4, <2>2, <2>3, GotoTyped, StoreUnchangedTyped DEF RecordRead
<1>5. CASE RecordWrite(w)
  <2>1. PICK o \in Outcomes :
          /\ WriteDraft(w, "idle", o)
          /\ recorded' = IF o \in {"ok", "nonl", "sync"}
                         THEN [recorded EXCEPT ![draft[w].id] = @ + 1]
                         ELSE recorded
    BY <1>5 DEF RecordWrite
  <2>2. draft[w].id \in Ids
    BY <1>5, KeyType DEF RecordWrite, Typed, DraftTyped
  <2>3. recorded' \in [Ids -> Nat]
    BY <1>0, <2>1, <2>2
  <2> QED  BY <1>5, <2>1, <2>3, WriteDraftTyped DEF RecordWrite
<1> QED  BY <1>1, <1>2, <1>3, <1>4, <1>5 DEF Continue

LEMMA LoseWorkersTyped ==
    ASSUME Typed, LoseWorkers, StoreTypeOK', recorded' \in [Ids -> Nat]
    PROVE  Typed'
  BY DEF LoseWorkers, Typed, TypeOK, DraftTyped

LEMMA CrashTyped ==
    ASSUME Typed, CrashBetweenWrites \/ \E w \in Workers : CrashIn(w)
    PROVE  Typed'
<1>0. StoreTypeOK /\ recorded \in [Ids -> Nat]
  BY DEF Typed, TypeOK
<1>1. CASE CrashBetweenWrites
  BY <1>0, <1>1, CrashType, LoseWorkersTyped DEF CrashBetweenWrites
<1>2. ASSUME NEW w \in Workers, CrashInCreate(w)
      PROVE  Typed'
  <2>1. PICK id \in Ids, key \in Keys, notify \in Notifies, big \in Sizes, form \in CrashForms :
          /\ CrashInAppend(NewPayment(id, key, notify, big), form)
          /\ LoseWorkers
          /\ UNCHANGED recorded
    BY <1>2 DEF CrashInCreate
  <2>2. NewPayment(id, key, notify, big) \in Payment
    BY ServiceAssumption, SizesAssumption, NewPaymentType
  <2> QED  BY <1>0, <2>1, <2>2, CrashInAppendType, LoseWorkersTyped
<1>3. ASSUME NEW w \in Workers, CrashInUpdate(w)
      PROVE  Typed'
  <2>1. PICK form \in CrashForms :
          /\ pc[w] \in {"update", "apply", "note"}
          /\ CrashInAppend(draft[w], form)
          /\ LoseWorkers
          /\ recorded' = IF pc[w] = "note" /\ form # "cut"
                         THEN [recorded EXCEPT ![draft[w].id] = @ + 1]
                         ELSE recorded
    BY <1>3 DEF CrashInUpdate
  <2>2. draft[w] \in Payment /\ draft[w].id \in Ids
    BY <2>1, KeyType DEF Typed, DraftTyped
  <2>3. recorded' \in [Ids -> Nat]
    BY <1>0, <2>1, <2>2
  <2> QED  BY <1>0, <2>1, <2>2, <2>3, CrashInAppendType, LoseWorkersTyped
<1> QED  BY <1>1, <1>2, <1>3 DEF CrashIn

\* The service never stores, drafts or replays anything but payments, whatever
\* requests, faults and crashes interleave.
THEOREM ServiceTypes == Spec => []TypeOK
<1>1. Init => Typed
  <2> SUFFICES ASSUME Init PROVE Typed
    OBVIOUS
  <2>1. StoreTypeOK
    BY StoreInitType DEF Init
  <2> QED  BY <2>1 DEF Init, Typed, TypeOK, DraftTyped
<1>2. Typed /\ [Next]_vars => Typed'
  <2> SUFFICES ASSUME Typed, [Next]_vars PROVE Typed'
    OBVIOUS
  <2>1. CASE \E w \in Workers : Request(w)
    BY <2>1, RequestTyped
  <2>2. CASE \E w \in Workers : Continue(w)
    BY <2>2, ContinueTyped
  <2>3. CASE CrashBetweenWrites \/ \E w \in Workers : CrashIn(w)
    BY <2>3, CrashTyped
  <2>4. CASE StartAgain
    <3>1. StoreTypeOK'
      BY <2>4, RestartType DEF StartAgain, Typed, TypeOK
    <3> QED  BY <2>4, <3>1 DEF StartAgain, workerVars, historyVars, Typed, TypeOK, DraftTyped
  <2>5. CASE UNCHANGED vars
    BY <2>5, StoreUnchangedTyped DEF vars, workerVars, historyVars, Typed, TypeOK, DraftTyped
  <2> QED  BY <2>1, <2>2, <2>3, <2>4, <2>5 DEF Next
<1>3. Typed => TypeOK
  BY DEF Typed
<1> QED  BY <1>1, <1>2, <1>3, PTL DEF Spec

-----------------------------------------------------------------------------
(* The store the service relies on: when every append leaves its whole     *)
(* line or nothing, and a line that is left is one that was acknowledged   *)
(* or one that the end of the process kept from being acknowledged.        *)

CleanAppends ==
    /\ WriteFaults \subseteq {"none"}
    /\ CrashForms \subseteq {"sync"}

FileIsWhole ==
    /\ openTail = FALSE
    /\ \A i \in DOMAIN lines : lines[i] \in Payment

\* In the file an id has one key and a key one id.
OneIdPerKey ==
    \A i, j \in DOMAIN lines :
        lines[i].id = lines[j].id <=> indexKey(lines[i]) = indexKey(lines[j])

Forgotten == proc # "up" => records = NoRecords /\ outIndex = NoIndex

StoreInv == StoreTypeOK /\ FileIsWhole /\ OneIdPerKey /\ MemoryIsReplay /\ Forgotten

\* The payments the service appends: new ones, under an id and a key the store
\* does not have, and new versions of those it has.
Writable(p) ==
    /\ proc = "up"
    /\ p \in Payment
    /\ \/ records[p.id] = NULL /\ outIndex[indexKey(p)] = NULL
       \/ records[p.id] # NULL /\ indexKey(records[p.id]) = indexKey(p)

\* A payment that is replayed is on some line, and one that is on no line is not.
LEMMA ReplayedLine ==
    ASSUME StoreTypeOK, FileIsWhole, NEW id \in Ids
    PROVE  /\ Replayed(id) # NULL =>
                 \E i \in DOMAIN lines : lines[i].id = id /\ Replayed(id) = lines[i]
           /\ Replayed(id) = NULL => \A i \in DOMAIN lines : lines[i].id # id
<1>1. LinesOf(id) = {i \in DOMAIN lines : lines[i].id = id}
  BY GarbageAssumption DEF LinesOf, GoodLines, FileIsWhole
<1>2. LinesOf(id) \subseteq 1..Len(lines) /\ Len(lines) \in Nat
  BY <1>1 DEF StoreTypeOK
<1>3. CASE LinesOf(id) = {}
  BY <1>1, <1>3 DEF Replayed
<1>4. CASE LinesOf(id) # {}
  <2>1. Max(LinesOf(id)) \in LinesOf(id)
    BY <1>2, <1>4, MaxOfPositions
  <2>2. Replayed(id) = lines[Max(LinesOf(id))] /\ Replayed(id) \in Payment
    BY <1>1, <1>4, <2>1 DEF Replayed, FileIsWhole
  <2> QED  BY <1>1, <2>1, <2>2, NullAssumption
<1> QED  BY <1>3, <1>4

LEMMA ReplayedIndexLine ==
    ASSUME StoreTypeOK, FileIsWhole, NEW k \in Keys
    PROVE  /\ ReplayedIndex(k) # NULL =>
                 \E i \in DOMAIN lines : indexKey(lines[i]) = k /\ ReplayedIndex(k) = lines[i].id
           /\ ReplayedIndex(k) = NULL => \A i \in DOMAIN lines : indexKey(lines[i]) # k
<1>1. LinesFor(k) = {i \in DOMAIN lines : indexKey(lines[i]) = k}
  BY GarbageAssumption DEF LinesFor, GoodLines, FileIsWhole
<1>2. LinesFor(k) \subseteq 1..Len(lines) /\ Len(lines) \in Nat
  BY <1>1 DEF StoreTypeOK
<1>3. CASE LinesFor(k) = {}
  BY <1>1, <1>3 DEF ReplayedIndex
<1>4. CASE LinesFor(k) # {}
  <2>1. Max(LinesFor(k)) \in LinesFor(k)
    BY <1>2, <1>4, MaxOfPositions
  <2>2. ReplayedIndex(k) = lines[Max(LinesFor(k))].id /\ ReplayedIndex(k) \in Ids
    BY <1>1, <1>4, <2>1 DEF ReplayedIndex, FileIsWhole, Payment
  <2> QED  BY <1>1, <2>1, <2>2, NullAssumption
<1> QED  BY <1>3, <1>4

\* A writable payment keeps ids and keys of the file in agreement.
LEMMA WritableKeepsKeys ==
    ASSUME StoreInv, NEW p, Writable(p), NEW i \in DOMAIN lines
    PROVE  lines[i].id = p.id <=> indexKey(lines[i]) = indexKey(p)
<1>1. p.id \in Ids /\ indexKey(p) \in Keys
  BY KeyType DEF Writable
<1>2. records[p.id] = Replayed(p.id) /\ outIndex[indexKey(p)] = ReplayedIndex(indexKey(p))
  BY <1>1 DEF StoreInv, MemoryIsReplay, Writable
<1>3. CASE records[p.id] = NULL /\ outIndex[indexKey(p)] = NULL
  BY <1>1, <1>2, <1>3, ReplayedLine, ReplayedIndexLine DEF StoreInv
<1>4. CASE records[p.id] # NULL /\ indexKey(records[p.id]) = indexKey(p)
  <2>1. PICK j \in DOMAIN lines : lines[j].id = p.id /\ records[p.id] = lines[j]
    BY <1>1, <1>2, <1>4, ReplayedLine DEF StoreInv
  <2> QED  BY <1>4, <2>1 DEF StoreInv, OneIdPerKey
<1> QED  BY <1>3, <1>4 DEF Writable

LEMMA AppendedInv ==
    ASSUME StoreInv, NEW p, Writable(p), lines' = Append(lines, p), openTail' = FALSE
    PROVE  FileIsWhole' /\ OneIdPerKey'
<1> DEFINE n == Len(lines)
<1>1. /\ n \in Nat
      /\ DOMAIN lines = 1..n /\ DOMAIN lines' = 1..(n+1)
      /\ \A i \in 1..n : lines'[i] = lines[i]
      /\ lines'[n+1] = p
  BY DEF StoreInv, StoreTypeOK
<1> HIDE DEF n
<1>2. \A i \in DOMAIN lines' : i \in DOMAIN lines \/ i = n+1
  BY <1>1
<1>3. FileIsWhole'
  BY <1>1, <1>2 DEF StoreInv, FileIsWhole, Writable
<1>4. OneIdPerKey'
  <2> SUFFICES ASSUME NEW i \in DOMAIN lines', NEW j \in DOMAIN lines'
               PROVE  lines'[i].id = lines'[j].id <=> indexKey(lines'[i]) = indexKey(lines'[j])
    BY DEF OneIdPerKey, indexKey
  <2>1. CASE i \in DOMAIN lines /\ j \in DOMAIN lines
    BY <1>1, <2>1 DEF StoreInv, OneIdPerKey
  <2>2. CASE i = n+1 /\ j \in DOMAIN lines
    <3>1. lines'[i] = p /\ lines'[j] = lines[j]
      BY <1>1, <2>2
    <3> QED  BY <2>2, <3>1, WritableKeepsKeys
  <2>3. CASE i \in DOMAIN lines /\ j = n+1
    <3>1. lines'[i] = lines[i] /\ lines'[j] = p
      BY <1>1, <2>3
    <3> QED  BY <2>3, <3>1, WritableKeepsKeys
  <2>4. CASE i = n+1 /\ j = n+1
    BY <2>4
  <2> QED  BY <1>2, <2>1, <2>2, <2>3, <2>4
<1> QED  BY <1>3, <1>4

LEMMA RememberInv ==
    ASSUME StoreInv, NEW p, Writable(p), NEW o \in {"ok", "none"}, AppendAndRemember(p, o)
    PROVE  StoreInv'
<1>0. p \in Payment /\ proc = "up" /\ proc' = proc
  BY DEF Writable, AppendAndRemember
<1>1. StoreTypeOK'
  BY <1>0, RememberType DEF StoreInv
<1>2. openTail' = FALSE /\ lines' = IF o = "none" THEN lines ELSE Append(lines, p)
  BY AppendWhole DEF StoreInv, FileIsWhole, AppendAndRemember
<1>3. CASE o = "none"
  <2>1. UNCHANGED <<records, outIndex, lines, openTail, proc>>
    BY <1>2, <1>3 DEF AppendAndRemember, StoreInv, FileIsWhole
  <2>2. /\ \A id \in Ids : Replayed(id)' = Replayed(id)
        /\ \A k \in Keys : ReplayedIndex(k)' = ReplayedIndex(k)
    BY <2>1 DEF Replayed, ReplayedIndex, LinesOf, LinesFor, GoodLines
  <2> QED  BY <1>1, <2>1, <2>2
           DEF StoreInv, FileIsWhole, OneIdPerKey, MemoryIsReplay, Forgotten, indexKey
<1>4. CASE o = "ok"
  <2>1. lines' = Append(lines, p)
    BY <1>2, <1>4
  <2>2. FileIsWhole' /\ OneIdPerKey'
    BY <1>2, <2>1, AppendedInv
  <2>3. /\ records' = [records EXCEPT ![p.id] = p]
        /\ outIndex' = [outIndex EXCEPT ![indexKey(p)] = p.id]
    BY <1>4 DEF AppendAndRemember
  <2>4. MemoryIsReplay'
    <3>1. /\ \A id \in Ids : records[id] = Replayed(id)
          /\ \A k \in Keys : outIndex[k] = ReplayedIndex(k)
      BY <1>0 DEF StoreInv, MemoryIsReplay
    <3>2. /\ \A id \in Ids : Replayed(id)' = IF id = p.id THEN p ELSE Replayed(id)
          /\ \A k \in Keys :
                ReplayedIndex(k)' = IF k = indexKey(p) THEN p.id ELSE ReplayedIndex(k)
      BY <1>0, <2>1, ReplayAfterAppend DEF StoreInv
    <3>3. \A id \in Ids : records'[id] = Replayed(id)'
      BY <2>3, <3>1, <3>2 DEF StoreInv, StoreTypeOK
    <3>4. \A k \in Keys : outIndex'[k] = ReplayedIndex(k)'
      BY <2>3, <3>1, <3>2 DEF StoreInv, StoreTypeOK
    <3> QED  BY <3>3, <3>4 DEF MemoryIsReplay
  <2> QED  BY <1>0, <1>1, <2>2, <2>4 DEF StoreInv, Forgotten
<1> QED  BY <1>3, <1>4

LEMMA CrashInAppendInv ==
    ASSUME StoreInv, NEW p, Writable(p), CrashInAppend(p, "sync")
    PROVE  StoreInv'
<1>1. StoreTypeOK'
  BY CrashInAppendType DEF StoreInv, Writable
<1>2. openTail' = FALSE /\ lines' = Append(lines, p)
  BY AppendWhole DEF StoreInv, FileIsWhole, CrashInAppend
<1>3. FileIsWhole' /\ OneIdPerKey'
  BY <1>2, AppendedInv
<1> QED  BY <1>1, <1>3
         DEF StoreInv, MemoryIsReplay, Forgotten, CrashInAppend, Forget, NoRecords, NoIndex

LEMMA CrashInv ==
    ASSUME StoreInv, Crash
    PROVE  StoreInv'
<1>1. StoreTypeOK'
  BY CrashType DEF StoreInv
<1> QED  BY <1>1 DEF StoreInv, Crash, Forget, FileIsWhole, OneIdPerKey, MemoryIsReplay,
                     Forgotten, NoRecords, NoIndex, indexKey

LEMMA RestartInv ==
    ASSUME StoreInv, Restart
    PROVE  StoreInv'
<1>1. StoreTypeOK' /\ UNCHANGED <<lines, openTail>>
  BY RestartType DEF StoreInv, Restart
<1>2. /\ \A id \in Ids : Replayed(id)' = Replayed(id)
      /\ \A k \in Keys : ReplayedIndex(k)' = ReplayedIndex(k)
  BY <1>1 DEF Replayed, ReplayedIndex, LinesOf, LinesFor, GoodLines
<1>3. FileIsWhole' /\ OneIdPerKey'
  BY <1>1 DEF StoreInv, FileIsWhole, OneIdPerKey, indexKey
<1>4. CASE Readable
  BY <1>1, <1>2, <1>3, <1>4, RestartReplays
     DEF StoreInv, Restart, MemoryIsReplay, Forgotten
<1>5. CASE ~ Readable
  BY <1>1, <1>3, <1>5 DEF StoreInv, Restart, MemoryIsReplay, Forgotten, NoRecords, NoIndex
<1> QED  BY <1>4, <1>5

LEMMA StoreUnchangedInv ==
    ASSUME StoreInv, UNCHANGED storeVars
    PROVE  StoreInv'
<1>1. UNCHANGED <<records, outIndex, lines, openTail, proc, acked>>
  BY DEF storeVars
<1>2. /\ \A id \in Ids : Replayed(id)' = Replayed(id)
      /\ \A k \in Keys : ReplayedIndex(k)' = ReplayedIndex(k)
  BY <1>1 DEF Replayed, ReplayedIndex, LinesOf, LinesFor, GoodLines
<1> QED  BY <1>1, <1>2 DEF StoreInv, StoreTypeOK, FileIsWhole, OneIdPerKey, MemoryIsReplay,
                           Forgotten, NoRecords, NoIndex, indexKey

LEMMA InvIndexAgrees ==
    ASSUME StoreInv
    PROVE  IndexAgrees
<1>1. CASE proc # "up"
  BY <1>1 DEF StoreInv, Forgotten, NoRecords, NoIndex, IndexAgrees, StoreTypeOK
<1>2. CASE proc = "up"
  <2>1. /\ \A id \in Ids : records[id] = Replayed(id)
        /\ \A k \in Keys : outIndex[k] = ReplayedIndex(k)
    BY <1>2 DEF StoreInv, MemoryIsReplay
  <2>2. ASSUME NEW id \in Ids, records[id] # NULL
        PROVE  records[id].id = id /\ outIndex[indexKey(records[id])] = id
    <3>1. PICK i \in DOMAIN lines : lines[i].id = id /\ records[id] = lines[i]
      BY <2>1, <2>2, ReplayedLine DEF StoreInv
    <3>2. indexKey(lines[i]) \in Keys
      BY KeyType DEF StoreInv, FileIsWhole
    <3>3. PICK j \in DOMAIN lines : indexKey(lines[j]) = indexKey(lines[i])
                                    /\ outIndex[indexKey(lines[i])] = lines[j].id
      BY <2>1, <3>2, ReplayedIndexLine DEF StoreInv
    <3> QED  BY <3>1, <3>3 DEF StoreInv, OneIdPerKey
  <2>3. ASSUME NEW k \in Keys, outIndex[k] # NULL
        PROVE  records[outIndex[k]] # NULL /\ indexKey(records[outIndex[k]]) = k
    <3>1. PICK i \in DOMAIN lines : indexKey(lines[i]) = k /\ outIndex[k] = lines[i].id
      BY <2>1, <2>3, ReplayedIndexLine DEF StoreInv
    <3>2. lines[i].id \in Ids
      BY KeyType DEF StoreInv, FileIsWhole
    <3>3. PICK j \in DOMAIN lines : lines[j].id = lines[i].id /\ records[lines[i].id] = lines[j]
                                    /\ records[lines[i].id] # NULL
      BY <2>1, <3>2, ReplayedLine DEF StoreInv
    <3> QED  BY <3>1, <3>3 DEF StoreInv, OneIdPerKey
  <2> QED  BY <2>2, <2>3 DEF IndexAgrees
<1> QED  BY <1>1, <1>2

-----------------------------------------------------------------------------
(* The service.  A draft may be stale, but it is a version of a payment    *)
(* the store has, and it claims no attempt that is not recorded, save the  *)
(* one it is about to record.                                              *)

DraftOK(w) ==
    pc[w] # "idle" =>
        /\ proc = "up"
        /\ draft[w] \in Payment
        /\ records[draft[w].id] # NULL
        /\ indexKey(records[draft[w].id]) = indexKey(draft[w])
        /\ draft[w].attempts <= recorded[draft[w].id] + (IF pc[w] = "note" THEN 1 ELSE 0)

LinesCounted == \A i \in DOMAIN lines : lines[i].attempts <= recorded[lines[i].id]

IInv == Typed /\ StoreInv /\ (\A w \in Workers : DraftOK(w)) /\ LinesCounted

RecordedGrows == \A id \in Ids : recorded[id] <= recorded'[id]

\* What Get returns was read back from the file or will be.
LEMMA RecordCounted ==
    ASSUME IInv, NEW id \in Ids, records[id] # NULL
    PROVE  /\ proc = "up"
           /\ records[id] \in Payment
           /\ records[id].id = id
           /\ records[id].attempts <= recorded[id]
<1>1. proc = "up"
  BY DEF IInv, StoreInv, Forgotten, NoRecords
<1>2. records[id] = Replayed(id)
  BY <1>1 DEF IInv, StoreInv, MemoryIsReplay
<1>3. PICK i \in DOMAIN lines : lines[i].id = id /\ records[id] = lines[i]
  BY <1>2, ReplayedLine DEF IInv, StoreInv
<1> QED  BY <1>1, <1>3 DEF IInv, StoreInv, FileIsWhole, LinesCounted

\* A write by one worker leaves the drafts of the others sound.
LEMMA OthersKeepDrafts ==
    ASSUME IInv, NEW p, Writable(p), NEW o, AppendAndRemember(p, o), Typed', RecordedGrows,
           NEW v \in Workers, pc'[v] = pc[v], draft'[v] = draft[v]
    PROVE  DraftOK(v)'
<1> SUFFICES ASSUME pc[v] # "idle" PROVE DraftOK(v)'
  BY DEF DraftOK
<1>1. /\ proc = "up" /\ draft[v] \in Payment
      /\ records[draft[v].id] # NULL
      /\ indexKey(records[draft[v].id]) = indexKey(draft[v])
      /\ draft[v].attempts <= recorded[draft[v].id] + (IF pc[v] = "note" THEN 1 ELSE 0)
  BY DEF IInv, DraftOK
<1>2. draft[v].id \in Ids /\ draft[v].attempts \in Nat
  BY <1>1 DEF Payment
<1>3. proc' = "up"
  BY <1>1 DEF AppendAndRemember
<1>4. records'[draft[v].id] # NULL /\ indexKey(records'[draft[v].id]) = indexKey(draft[v])
  <2>1. CASE o = "ok" /\ p.id = draft[v].id
    <3>1. records'[draft[v].id] = p
      BY <1>2, <2>1 DEF AppendAndRemember, IInv, StoreInv, StoreTypeOK
    <3> QED  BY <1>1, <2>1, <3>1, NullAssumption DEF Writable
  <2>2. CASE ~ (o = "ok" /\ p.id = draft[v].id)
    <3>1. records'[draft[v].id] = records[draft[v].id]
      BY <1>2, <2>2 DEF AppendAndRemember, IInv, StoreInv, StoreTypeOK
    <3> QED  BY <1>1, <3>1
  <2> QED  BY <2>1, <2>2
<1>5. draft[v].attempts <= recorded'[draft[v].id] + (IF pc[v] = "note" THEN 1 ELSE 0)
  <2>1. /\ recorded[draft[v].id] \in Nat /\ recorded'[draft[v].id] \in Nat
        /\ recorded[draft[v].id] <= recorded'[draft[v].id]
    BY <1>2 DEF IInv, Typed, TypeOK, RecordedGrows
  <2> QED  BY <1>1, <1>2, <2>1
<1> QED  BY <1>1, <1>3, <1>4, <1>5 DEF DraftOK, indexKey

LEMMA OthersStay ==
    ASSUME IInv, UNCHANGED storeVars, UNCHANGED recorded,
           NEW v \in Workers, pc'[v] = pc[v], draft'[v] = draft[v]
    PROVE  DraftOK(v)'
  BY DEF IInv, DraftOK, storeVars, indexKey

LEMMA AppendCounted ==
    ASSUME IInv, NEW p, Writable(p), NEW o \in {"ok", "none"}, AppendAndRemember(p, o),
           Typed', RecordedGrows, o = "ok" => p.attempts <= recorded'[p.id]
    PROVE  LinesCounted'
<1>1. lines' = IF o = "none" THEN lines ELSE Append(lines, p)
  BY AppendWhole DEF IInv, StoreInv, FileIsWhole, AppendAndRemember
<1>2. ASSUME NEW i \in DOMAIN lines
      PROVE  lines[i].attempts <= recorded'[lines[i].id]
  <2>1. lines[i] \in Payment /\ lines[i].attempts <= recorded[lines[i].id]
    BY DEF IInv, StoreInv, FileIsWhole, LinesCounted
  <2>2. /\ lines[i].id \in Ids /\ lines[i].attempts \in Nat
        /\ recorded[lines[i].id] \in Nat /\ recorded'[lines[i].id] \in Nat
        /\ recorded[lines[i].id] <= recorded'[lines[i].id]
    BY <2>1 DEF Payment, IInv, Typed, TypeOK, RecordedGrows
  <2> QED  BY <2>1, <2>2
<1>3. CASE o = "none"
  BY <1>1, <1>2, <1>3 DEF LinesCounted
<1>4. CASE o = "ok"
  <2>1. \A i \in DOMAIN lines' :
            \/ i \in DOMAIN lines /\ lines'[i] = lines[i]
            \/ lines'[i] = p
    BY <1>1, <1>4 DEF IInv, StoreInv, StoreTypeOK
  <2> QED  BY <1>2, <1>4, <2>1 DEF LinesCounted
<1> QED  BY <1>3, <1>4

LEMMA RecordedSame ==
    ASSUME Typed, UNCHANGED recorded
    PROVE  RecordedGrows
<1>1. \A id \in Ids : recorded[id] \in Nat
  BY DEF Typed, TypeOK
<1> QED  BY <1>1 DEF RecordedGrows

\* A request that only reads leaves with a version of what it read.
LEMMA ReadInv ==
    ASSUME IInv, NEW w \in Workers, NEW id \in Ids, records[id] # NULL,
           NEW q, Revises(records[id], q), q.attempts = records[id].attempts,
           NEW label \in {"update", "apply", "post"}, Goto(w, label, q),
           UNCHANGED storeVars, UNCHANGED recorded, Typed'
    PROVE  IInv'
<1>1. /\ proc = "up" /\ records[id] \in Payment /\ records[id].id = id
      /\ records[id].attempts <= recorded[id]
  BY RecordCounted
<1>2. pc'[w] = label /\ draft'[w] = q
  BY DEF Goto, IInv, Typed, TypeOK
<1>3. DraftOK(w)'
  <2>1. q.id = id /\ q \in Payment /\ indexKey(q) = indexKey(records[id])
    BY <1>1 DEF Revises
  <2>2. q.attempts <= recorded[id] + 0
    BY <1>1, <2>1 DEF IInv, Typed, TypeOK, Payment
  <2> QED  BY <1>1, <1>2, <2>1, <2>2 DEF DraftOK, storeVars, indexKey
<1>4. \A v \in Workers : v # w => pc'[v] = pc[v] /\ draft'[v] = draft[v]
  BY DEF Goto, IInv, Typed, TypeOK
<1>5. \A v \in Workers : DraftOK(v)'
  BY <1>3, <1>4, OthersStay
<1>6. StoreInv' /\ LinesCounted'
  BY StoreUnchangedInv DEF IInv, LinesCounted, storeVars
<1> QED  BY <1>5, <1>6 DEF IInv

LEMMA FreshIsWritable ==
    ASSUME IInv, NEW id \in Ids, NEW key \in Keys, NEW notify \in BOOLEAN,
           NEW big \in BOOLEAN, Fresh(id), CanCreate(NewPayment(id, key, notify, big))
    PROVE  Writable(NewPayment(id, key, notify, big))
  BY NewPaymentType DEF Fresh, CanCreate, Writable

LEMMA DraftIsWritable ==
    ASSUME IInv, NEW w \in Workers, pc[w] # "idle"
    PROVE  Writable(draft[w]) /\ draft[w].id \in Ids
  BY KeyType DEF IInv, DraftOK, Writable

LEMMA CreateInv ==
    ASSUME CleanAppends, IInv, NEW w \in Workers, CreatePayment(w), Typed'
    PROVE  IInv'
<1> USE ServiceAssumption
<1>1. PICK id \in Ids, key \in Keys, notify \in Notifies, big \in Sizes :
        /\ Accept(w)
        /\ Fresh(id)
        /\ \/ /\ Create(NewPayment(id, key, notify, big), "ok")
              /\ \E ok \in ProviderAnswers :
                    \E q \in Reworded(Answered(NewPayment(id, key, notify, big), ok)) :
                       Goto(w, "update", q)
           \/ \E fault \in WriteFaults :
                 Create(NewPayment(id, key, notify, big), fault) /\ UNCHANGED workerVars
  BY DEF CreatePayment
<1> DEFINE p == NewPayment(id, key, notify, big)
<1>2. p \in Payment /\ p.id = id /\ p.attempts = 0
  BY SizesAssumption, NewPaymentType DEF NewPayment
<1>3. CanCreate(p)
  BY <1>1 DEF Create
<1>4. Writable(p)
  BY <1>1, <1>3, SizesAssumption, FreshIsWritable
<1> HIDE DEF p
<1>5. UNCHANGED recorded /\ RecordedGrows
  BY <1>1, RecordedSame DEF Accept, historyVars, IInv
<1>6. p.attempts <= recorded'[p.id]
  BY <1>2, <1>5 DEF IInv, Typed, TypeOK
<1>7. CASE /\ Create(p, "ok")
           /\ \E ok \in ProviderAnswers :
                 \E q \in Reworded(Answered(p, ok)) : Goto(w, "update", q)
  <2>0. PICK ok \in ProviderAnswers : \E q \in Reworded(Answered(p, ok)) :
                                        Goto(w, "update", q)
    BY <1>7
  <2>1. PICK q \in Reworded(Answered(p, ok)) : Create(p, "ok") /\ Goto(w, "update", q)
    BY <1>7, <2>0
  <2>2. AppendAndRemember(p, "ok")
    BY <2>1 DEF Create
  <2>3. StoreInv' /\ LinesCounted'
    BY <1>4, <1>5, <1>6, <2>2, RememberInv, AppendCounted DEF IInv
  <2>4. /\ pc'[w] = "update" /\ draft'[w] = q
        /\ \A v \in Workers : v # w => pc'[v] = pc[v] /\ draft'[v] = draft[v]
    BY <2>1 DEF Goto, IInv, Typed, TypeOK
  <2>5. DraftOK(w)'
    <3>1. Revises(p, q) /\ q.attempts = p.attempts
      BY <1>2, AnsweredRevises, RewordedRevises
    <3>2. records'[id] = p /\ proc' = "up"
      BY <1>2, <1>4, <2>2 DEF AppendAndRemember, Writable, IInv, StoreInv, StoreTypeOK
    <3>3. q.attempts <= recorded'[id] + 0
      BY <1>2, <1>6, <3>1, <1>5 DEF IInv, Typed, TypeOK
    <3> QED  BY <1>2, <2>4, <3>1, <3>2, <3>3, NullAssumption DEF DraftOK, Revises, indexKey
  <2>6. \A v \in Workers : DraftOK(v)'
    BY <1>4, <1>5, <2>2, <2>4, <2>5, OthersKeepDrafts
  <2> QED  BY <2>3, <2>6 DEF IInv
<1>8. CASE \E fault \in WriteFaults : Create(p, fault) /\ UNCHANGED workerVars
  <2>1. Create(p, "none") /\ UNCHANGED workerVars
    BY <1>8 DEF CleanAppends
  <2>2. AppendAndRemember(p, "none")
    BY <2>1 DEF Create
  <2>3. StoreInv' /\ LinesCounted'
    BY <1>4, <1>5, <1>6, <2>2, RememberInv, AppendCounted DEF IInv
  <2>4. \A v \in Workers : DraftOK(v)'
    BY <1>4, <1>5, <2>1, <2>2, OthersKeepDrafts DEF workerVars
  <2> QED  BY <2>3, <2>4 DEF IInv
<1> QED  BY <1>1, <1>7, <1>8 DEF p

LEMMA RequestInv ==
    ASSUME CleanAppends, IInv, NEW w \in Workers, Request(w)
    PROVE  IInv'
<1>0. Typed'
  BY RequestTyped DEF IInv
<1>1. CASE CreatePayment(w)
  BY <1>0, <1>1, CreateInv
<1>2. CASE ClosePayment(w)
  <2>1. PICK id \in Ids : /\ Accept(w) /\ records[id] # NULL
                          /\ Goto(w, "update", Closed(records[id]))
                          /\ UNCHANGED storeVars
    BY <1>2 DEF ClosePayment
  <2> QED  BY <1>0, <2>1, RecordCounted, ClosedRevises, ReadInv DEF Accept, historyVars
<1>3. CASE Webhook(w)
  <2>1. PICK k \in Keys, status \in WebhookStatuses :
          /\ Accept(w) /\ FindByOutTradeNo(k) # NULL
          /\ \E p \in Reworded(Applied(FindByOutTradeNo(k), status)) : Goto(w, "apply", p)
          /\ UNCHANGED storeVars
    BY <1>3 DEF Webhook
  <2>2. /\ outIndex[k] \in Ids /\ FindByOutTradeNo(k) = records[outIndex[k]]
    BY <2>1, FoundIsPayment DEF IInv, StoreInv
  <2> DEFINE read == records[outIndex[k]]
  <2>3. \A p \in Reworded(Applied(read, status)) :
            Revises(read, p) /\ p.attempts = read.attempts
    BY <2>1, <2>2, ServiceAssumption, RecordCounted, AppliedRevises, RewordedRevises
  <2> QED  BY <1>0, <2>1, <2>2, <2>3, ReadInv DEF Accept, historyVars
<1>4. CASE MarkLost(w)
  <2>1. PICK id \in Ids : /\ Accept(w) /\ records[id] # NULL
                          /\ \E p \in Reworded(Lost(records[id])) : Goto(w, "update", p)
                          /\ UNCHANGED storeVars
    BY <1>4 DEF MarkLost
  <2>2. \A p \in Reworded(Lost(records[id])) :
            Revises(records[id], p) /\ p.attempts = records[id].attempts
    BY <2>1, RecordCounted, LostRevises, RewordedRevises
  <2> QED  BY <1>0, <2>1, <2>2, ReadInv DEF Accept, historyVars
<1>5. CASE RetryCallback(w)
  <2>1. PICK id \in Ids : /\ Accept(w) /\ records[id] # NULL
                          /\ Goto(w, "post", records[id])
                          /\ UNCHANGED storeVars
    BY <1>5 DEF RetryCallback
  <2>2. Revises(records[id], records[id])
    BY <2>1, RecordCounted DEF Revises
  <2> QED  BY <1>0, <2>1, <2>2, ReadInv DEF Accept, historyVars
<1> QED  BY <1>1, <1>2, <1>3, <1>4, <1>5 DEF Request

LEMMA WriteDraftInv ==
    ASSUME CleanAppends, IInv, NEW w \in Workers, pc[w] # "idle",
           NEW next \in {"post", "idle"}, NEW o \in Outcomes, WriteDraft(w, next, o),
           Typed', RecordedGrows, o = "ok" => draft[w].attempts <= recorded'[draft[w].id]
    PROVE  IInv'
<1>1. Writable(draft[w]) /\ draft[w].id \in Ids
  BY DraftIsWritable
<1>2. o \in {"ok", "none"} /\ AppendAndRemember(draft[w], o)
  BY DEF CleanAppends, Outcomes, WriteDraft, Update
<1>3. StoreInv' /\ LinesCounted'
  BY <1>1, <1>2, RememberInv, AppendCounted DEF IInv
<1>4. \A v \in Workers : v # w => pc'[v] = pc[v] /\ draft'[v] = draft[v]
  BY DEF WriteDraft, Goto, IInv, Typed, TypeOK
<1>5. DraftOK(w)'
  <2>1. CASE pc'[w] = "idle"
    BY <2>1 DEF DraftOK
  <2>2. CASE pc'[w] # "idle"
    <3>1. o = "ok" /\ pc'[w] = "post" /\ draft'[w] = draft[w]
      BY <2>2 DEF WriteDraft, Goto, IInv, Typed, TypeOK
    <3>2. records'[draft[w].id] = draft[w] /\ proc' = "up"
      BY <1>1, <1>2, <3>1 DEF AppendAndRemember, Writable, IInv, StoreInv, StoreTypeOK
    <3>3. draft[w] \in Payment /\ draft[w].attempts <= recorded'[draft[w].id] + 0
      BY <1>1, <3>1 DEF Writable, Typed, TypeOK
    <3> QED  BY <3>1, <3>2, <3>3, NullAssumption DEF DraftOK, indexKey
  <2> QED  BY <2>1, <2>2
<1>6. \A v \in Workers : DraftOK(v)'
  BY <1>1, <1>2, <1>4, <1>5, OthersKeepDrafts
<1> QED  BY <1>3, <1>6 DEF IInv

LEMMA DraftCounted ==
    ASSUME IInv, NEW w \in Workers, pc[w] # "idle"
    PROVE  /\ draft[w].id \in Ids /\ draft[w].attempts \in Nat
           /\ recorded[draft[w].id] \in Nat
           /\ pc[w] # "note" => draft[w].attempts <= recorded[draft[w].id]
           /\ draft[w].attempts <= recorded[draft[w].id] + 1
<1>1. /\ draft[w] \in Payment
      /\ draft[w].attempts <= recorded[draft[w].id] + (IF pc[w] = "note" THEN 1 ELSE 0)
  BY DEF IInv, DraftOK
<1>2. draft[w].id \in Ids /\ draft[w].attempts \in Nat
  BY <1>1 DEF Payment
<1>3. recorded[draft[w].id] \in Nat
  BY <1>2 DEF IInv, Typed, TypeOK
<1> QED  BY <1>1, <1>2, <1>3

LEMMA ContinueInv ==
    ASSUME CleanAppends, IInv, NEW w \in Workers, Continue(w)
    PROVE  IInv'
<1>0. Typed'
  BY ContinueTyped DEF IInv
<1>1. CASE WriteUpdate(w)
  <2>1. PICK o \in Outcomes : WriteDraft(w, "idle", o)
    BY <1>1 DEF WriteUpdate
  <2>2. RecordedGrows /\ draft[w].attempts <= recorded'[draft[w].id]
    BY <1>1, RecordedSame, DraftCounted DEF WriteUpdate, IInv
  <2> QED  BY <1>0, <1>1, <2>1, <2>2, WriteDraftInv DEF WriteUpdate
<1>2. CASE WriteApplied(w)
  <2>1. PICK o \in Outcomes : WriteDraft(w, IF draft[w].notify THEN "post" ELSE "idle", o)
    BY <1>2 DEF WriteApplied
  <2>2. RecordedGrows /\ draft[w].attempts <= recorded'[draft[w].id]
    BY <1>2, RecordedSame, DraftCounted DEF WriteApplied, IInv
  <2> QED  BY <1>0, <1>2, <2>1, <2>2, WriteDraftInv DEF WriteApplied
<1>3. CASE PostCallback(w)
  <2>1. UNCHANGED storeVars /\ UNCHANGED recorded /\ UNCHANGED draft
    BY <1>3 DEF PostCallback
  <2>2. pc[w] = "post" /\ pc'[w] \in {"delivered", "refused"}
    BY <1>3 DEF PostCallback, IInv, Typed, TypeOK
  <2>3. \A v \in Workers : v # w => pc'[v] = pc[v]
    BY <1>3 DEF PostCallback, IInv, Typed, TypeOK
  <2>4. DraftOK(w)'
    <3>1. pc[w] # "note" /\ pc'[w] # "note" /\ pc[w] # "idle"
      BY <2>2
    <3> QED  BY <2>1, <3>1 DEF DraftOK, IInv, storeVars, indexKey
  <2>5. \A v \in Workers : DraftOK(v)'
    BY <2>1, <2>3, <2>4, OthersStay
  <2>6. StoreInv' /\ LinesCounted'
    BY <2>1, StoreUnchangedInv DEF IInv, LinesCounted, storeVars
  <2> QED  BY <1>0, <2>5, <2>6 DEF IInv
<1>4. CASE RecordRead(w)
  <2>1. PICK q \in Reworded(Called(records[draft[w].id], pc[w] = "delivered")) :
          /\ pc[w] # "idle" /\ records[draft[w].id] # NULL
          /\ Goto(w, "note", q)
          /\ UNCHANGED storeVars /\ UNCHANGED recorded
    BY <1>4 DEF RecordRead, historyVars
  <2>2. draft[w].id \in Ids
    BY <2>1, DraftCounted
  <2>3. /\ proc = "up" /\ records[draft[w].id] \in Payment
        /\ records[draft[w].id].id = draft[w].id
        /\ records[draft[w].id].attempts <= recorded[draft[w].id]
    BY <2>1, <2>2, RecordCounted
  <2>4. Revises(records[draft[w].id], q) /\ q.attempts = records[draft[w].id].attempts + 1
    BY <2>3, CalledRevises, RewordedRevises
  <2>5. /\ pc'[w] = "note" /\ draft'[w] = q
        /\ \A v \in Workers : v # w => pc'[v] = pc[v] /\ draft'[v] = draft[v]
    BY <2>1 DEF Goto, IInv, Typed, TypeOK
  <2>6. DraftOK(w)'
    <3>1. q \in Payment /\ q.id = draft[w].id /\ indexKey(q) = indexKey(records[draft[w].id])
      BY <2>3, <2>4 DEF Revises
    <3>2. q.attempts <= recorded[draft[w].id] + 1
      <4>1. records[draft[w].id].attempts \in Nat /\ recorded[draft[w].id] \in Nat
        BY <2>2, <2>3 DEF Payment, IInv, Typed, TypeOK
      <4> QED  BY <2>3, <2>4, <4>1
    <3> QED  BY <2>1, <2>3, <2>5, <3>1, <3>2 DEF DraftOK, storeVars, indexKey
  <2>7. \A v \in Workers : DraftOK(v)'
    BY <2>1, <2>5, <2>6, OthersStay
  <2>8. StoreInv' /\ LinesCounted'
    BY <2>1, StoreUnchangedInv DEF IInv, LinesCounted, storeVars
  <2> QED  BY <1>0, <2>7, <2>8 DEF IInv
<1>5. CASE RecordWrite(w)
  <2>1. PICK o \in Outcomes :
          /\ WriteDraft(w, "idle", o)
          /\ recorded' = IF o \in {"ok", "nonl", "sync"}
                         THEN [recorded EXCEPT ![draft[w].id] = @ + 1]
                         ELSE recorded
    BY <1>5 DEF RecordWrite
  <2>2. pc[w] # "idle"
    BY <1>5 DEF RecordWrite
  <2>3. \A id \in Ids : recorded[id] \in Nat
    BY DEF IInv, Typed, TypeOK
  <2>4. RecordedGrows
    BY <2>1, <2>3 DEF RecordedGrows, IInv, Typed, TypeOK
  <2>5. o = "ok" => draft[w].attempts <= recorded'[draft[w].id]
    <3> SUFFICES ASSUME o = "ok" PROVE draft[w].attempts <= recorded'[draft[w].id]
      OBVIOUS
    <3>1. draft[w].id \in Ids /\ draft[w].attempts <= recorded[draft[w].id] + 1
      BY <2>2, DraftCounted
    <3>2. recorded'[draft[w].id] = recorded[draft[w].id] + 1
      BY <2>1, <3>1 DEF IInv, Typed, TypeOK
    <3> QED  BY <3>1, <3>2
  <2> QED  BY <1>0, <2>1, <2>2, <2>4, <2>5, WriteDraftInv
<1> QED  BY <1>1, <1>2, <1>3, <1>4, <1>5 DEF Continue

\* After a crash nothing is in progress.
LEMMA LoseWorkersInv ==
    ASSUME LoseWorkers, Typed', StoreInv', LinesCounted'
    PROVE  IInv'
  BY DEF LoseWorkers, IInv, DraftOK

LEMMA CrashInAppendCounted ==
    ASSUME IInv, NEW p, Writable(p), CrashInAppend(p, "sync"), Typed', RecordedGrows,
           p.attempts <= recorded'[p.id]
    PROVE  LinesCounted'
<1>1. lines' = Append(lines, p)
  BY AppendWhole DEF IInv, StoreInv, FileIsWhole, CrashInAppend
<1>2. ASSUME NEW i \in DOMAIN lines
      PROVE  lines[i].attempts <= recorded'[lines[i].id]
  <2>1. lines[i] \in Payment /\ lines[i].attempts <= recorded[lines[i].id]
    BY DEF IInv, StoreInv, FileIsWhole, LinesCounted
  <2>2. /\ lines[i].id \in Ids /\ lines[i].attempts \in Nat
        /\ recorded[lines[i].id] \in Nat /\ recorded'[lines[i].id] \in Nat
        /\ recorded[lines[i].id] <= recorded'[lines[i].id]
    BY <2>1 DEF Payment, IInv, Typed, TypeOK, RecordedGrows
  <2> QED  BY <2>1, <2>2
<1>3. \A i \in DOMAIN lines' :
            \/ i \in DOMAIN lines /\ lines'[i] = lines[i]
            \/ lines'[i] = p
  BY <1>1 DEF IInv, StoreInv, StoreTypeOK
<1> QED  BY <1>2, <1>3 DEF LinesCounted

LEMMA StopInv ==
    ASSUME CleanAppends, IInv, CrashBetweenWrites \/ \E w \in Workers : CrashIn(w)
    PROVE  IInv'
<1>0. Typed'
  BY CrashTyped DEF IInv
<1>1. CASE CrashBetweenWrites
  <2>1. StoreInv'
    BY <1>1, CrashInv DEF CrashBetweenWrites, IInv
  <2>2. LinesCounted'
    BY <1>1 DEF CrashBetweenWrites, Crash, IInv, LinesCounted
  <2> QED  BY <1>0, <1>1, <2>1, <2>2, LoseWorkersInv DEF CrashBetweenWrites
<1>2. ASSUME NEW w \in Workers, CrashInCreate(w)
      PROVE  IInv'
  <2>1. PICK id \in Ids, key \in Keys, notify \in Notifies, big \in Sizes, form \in CrashForms :
          /\ Fresh(id)
          /\ CanCreate(NewPayment(id, key, notify, big))
          /\ CrashInAppend(NewPayment(id, key, notify, big), form)
          /\ LoseWorkers
          /\ UNCHANGED recorded
    BY <1>2 DEF CrashInCreate
  <2> DEFINE p == NewPayment(id, key, notify, big)
  <2>2. p.id = id /\ p.attempts = 0 /\ Writable(p)
    BY <2>1, ServiceAssumption, SizesAssumption, FreshIsWritable DEF NewPayment
  <2>3. CrashInAppend(p, "sync")
    BY <2>1 DEF CleanAppends
  <2> HIDE DEF p
  <2>4. RecordedGrows /\ p.attempts <= recorded'[p.id]
    BY <2>1, <2>2, RecordedSame DEF IInv, Typed, TypeOK
  <2>5. StoreInv' /\ LinesCounted'
    BY <1>0, <2>2, <2>3, <2>4, CrashInAppendInv, CrashInAppendCounted DEF IInv
  <2> QED  BY <1>0, <2>1, <2>5, LoseWorkersInv
<1>3. ASSUME NEW w \in Workers, CrashInUpdate(w)
      PROVE  IInv'
  <2>1. PICK form \in CrashForms :
          /\ pc[w] \in {"update", "apply", "note"}
          /\ CrashInAppend(draft[w], form)
          /\ LoseWorkers
          /\ recorded' = IF pc[w] = "note" /\ form # "cut"
                         THEN [recorded EXCEPT ![draft[w].id] = @ + 1]
                         ELSE recorded
    BY <1>3 DEF CrashInUpdate
  <2>2. form = "sync" /\ pc[w] # "idle"
    BY <2>1 DEF CleanAppends
  <2>3. Writable(draft[w]) /\ CrashInAppend(draft[w], "sync")
    BY <2>1, <2>2, DraftIsWritable
  <2>4. /\ draft[w].id \in Ids /\ draft[w].attempts \in Nat
        /\ recorded[draft[w].id] \in Nat
        /\ pc[w] # "note" => draft[w].attempts <= recorded[draft[w].id]
        /\ draft[w].attempts <= recorded[draft[w].id] + 1
    BY <2>2, DraftCounted
  <2>5. RecordedGrows /\ draft[w].attempts <= recorded'[draft[w].id]
    <3>1. \A id \in Ids : recorded[id] \in Nat
      BY DEF IInv, Typed, TypeOK
    <3>2. CASE pc[w] = "note"
      <4>1. recorded' = [recorded EXCEPT ![draft[w].id] = @ + 1]
        BY <2>1, <2>2, <3>2
      <4> QED  BY <2>4, <3>1, <4>1 DEF RecordedGrows, IInv, Typed, TypeOK
    <3>3. CASE pc[w] # "note"
      BY <2>1, <2>4, <3>1, <3>3 DEF RecordedGrows
    <3> QED  BY <3>2, <3>3
  <2>6. StoreInv' /\ LinesCounted'
    BY <1>0, <2>3, <2>5, CrashInAppendInv, CrashInAppendCounted DEF IInv
  <2> QED  BY <1>0, <2>1, <2>6, LoseWorkersInv
<1> QED  BY <1>1, <1>2, <1>3 DEF CrashIn

LEMMA ServiceInvariant ==
    ASSUME CleanAppends
    PROVE  Spec => []IInv
<1>1. Init => IInv
  <2> SUFFICES ASSUME Init PROVE IInv
    OBVIOUS
  <2>1. StoreTypeOK /\ DOMAIN lines = {}
    <3>1. StoreInit
      BY DEF Init
    <3>2. StoreTypeOK
      BY <3>1, StoreInitType
    <3>3. DOMAIN lines = {}
      BY <3>1 DEF StoreInit
    <3> QED  BY <3>2, <3>3
  <2>2. Typed
    BY <2>1 DEF Init, Typed, TypeOK, DraftTyped
  <2>3. FileIsWhole /\ OneIdPerKey /\ LinesCounted
    BY <2>1 DEF Init, StoreInit, FileIsWhole, OneIdPerKey, LinesCounted
  <2>4. MemoryIsReplay /\ Forgotten
    <3>1. \A id \in Ids : Replayed(id) = NULL
      BY <2>1 DEF Replayed, LinesOf, GoodLines
    <3>2. \A k \in Keys : ReplayedIndex(k) = NULL
      BY <2>1 DEF ReplayedIndex, LinesFor, GoodLines
    <3> QED  BY <3>1, <3>2 DEF Init, StoreInit, NoRecords, NoIndex, MemoryIsReplay, Forgotten
  <2>5. \A w \in Workers : DraftOK(w)
    BY DEF Init, DraftOK
  <2> QED  BY <2>1, <2>2, <2>3, <2>4, <2>5 DEF IInv, StoreInv
<1>2. IInv /\ [Next]_vars => IInv'
  <2> SUFFICES ASSUME IInv, [Next]_vars PROVE IInv'
    OBVIOUS
  <2>1. CASE \E w \in Workers : Request(w)
    BY <2>1, RequestInv
  <2>2. CASE \E w \in Workers : Continue(w)
    BY <2>2, ContinueInv
  <2>3. CASE CrashBetweenWrites \/ \E w \in Workers : CrashIn(w)
    BY <2>3, StopInv
  <2>4. CASE StartAgain
    <3>1. StoreInv'
      BY <2>4, RestartInv DEF StartAgain, IInv
    <3>2. \A w \in Workers : pc[w] = "idle"
      BY <2>4 DEF StartAgain, Restart, IInv, DraftOK
    <3>3. (\A w \in Workers : DraftOK(w)') /\ LinesCounted'
      BY <2>4, <3>2 DEF StartAgain, Restart, workerVars, historyVars, DraftOK, LinesCounted, IInv
    <3>4. Typed'
      BY <2>4, <3>1 DEF StartAgain, workerVars, historyVars, IInv, StoreInv,
                        Typed, TypeOK, DraftTyped
    <3> QED  BY <3>1, <3>3, <3>4 DEF IInv
  <2>5. CASE UNCHANGED vars
    <3>1. UNCHANGED storeVars /\ UNCHANGED <<pc, draft, recorded>>
      BY <2>5 DEF vars, workerVars, historyVars
    <3>2. \A w \in Workers : DraftOK(w)'
      BY <3>1, OthersStay
    <3>3. Typed'
      BY <2>5, StoreUnchangedTyped DEF vars, workerVars, historyVars, IInv,
                                       Typed, TypeOK, DraftTyped
    <3>4. StoreInv' /\ LinesCounted'
      BY <3>1, StoreUnchangedInv DEF IInv, LinesCounted, storeVars
    <3> QED  BY <3>2, <3>3, <3>4 DEF IInv
  <2> QED  BY <2>1, <2>2, <2>3, <2>4, <2>5 DEF Next
<1> QED  BY <1>1, <1>2, PTL DEF Spec

\* An order key belongs to one payment and a webhook finds that payment.
THEOREM ServiceIndexAgrees ==
    ASSUME CleanAppends
    PROVE  Spec => []IndexAgrees
<1>1. IInv => IndexAgrees
  BY InvIndexAgrees DEF IInv
<1> QED  BY <1>1, ServiceInvariant, PTL

\* A crash takes nothing back of what a running process serves.
THEOREM ServiceMemoryIsReplay ==
    ASSUME CleanAppends
    PROVE  Spec => []MemoryIsReplay
<1>1. IInv => MemoryIsReplay
  BY DEF IInv, StoreInv
<1> QED  BY <1>1, ServiceInvariant, PTL
=============================================================================
