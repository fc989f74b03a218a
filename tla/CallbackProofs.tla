--------------------------- MODULE CallbackProofs ---------------------------
(***************************************************************************)
(* No callback is recorded that was not tried.  The argument counts the    *)
(* requests between their delivery and the record of its outcome: with     *)
(* those added to what is recorded, the sum never exceeds the tries.       *)
(***************************************************************************)
EXTENDS PaymentServiceProofs, FiniteSetTheorems

Owes(w, id) == pc[w] \in {"delivered", "refused", "note"} /\ draft[w].id = id

Owing(id) == {w \in Workers : Owes(w, id)}

TriesCounted == \A id \in Ids : recorded[id] + Cardinality(Owing(id)) <= tries[id]

PInv == IInv /\ TriesCounted

LEMMA OwingIsFinite ==
    ASSUME IsFiniteSet(Workers), NEW id
    PROVE  IsFiniteSet(Owing(id)) /\ Cardinality(Owing(id)) \in Nat
<1>1. Owing(id) \in SUBSET Workers
  BY DEF Owing
<1> QED  BY <1>1, FS_Subset, FS_CardinalityType

\* A step that neither delivers nor records, and after which the same requests
\* owe a record, keeps the count.
LEMMA SameOwing ==
    ASSUME TriesCounted, UNCHANGED historyVars,
           \A v \in Workers, id \in Ids : Owes(v, id)' <=> Owes(v, id)
    PROVE  TriesCounted'
<1>1. \A id \in Ids : Owing(id)' = Owing(id)
  BY DEF Owing
<1> QED  BY <1>1 DEF TriesCounted, historyVars

\* Only the request that takes the step changes.
LEMMA OneMoves ==
    ASSUME TypeOK, NEW w \in Workers, NEW label, NEW q, Goto(w, label, q)
    PROVE  /\ pc'[w] = label /\ draft'[w] = q
           /\ \A v \in Workers : v # w => pc'[v] = pc[v] /\ draft'[v] = draft[v]
  BY DEF Goto, TypeOK

LEMMA MovesUnowing ==
    ASSUME TypeOK, TriesCounted, NEW w \in Workers, NEW label, NEW q, Goto(w, label, q),
           pc[w] \notin {"delivered", "refused", "note"},
           label \notin {"delivered", "refused", "note"},
           UNCHANGED historyVars
    PROVE  TriesCounted'
<1>1. \A v \in Workers, id \in Ids : Owes(v, id)' <=> Owes(v, id)
  BY OneMoves DEF Owes
<1> QED  BY <1>1, SameOwing

LEMMA RequestCounted ==
    ASSUME PInv, NEW w \in Workers, Request(w)
    PROVE  TriesCounted'
<1>1. pc[w] = "idle" /\ UNCHANGED historyVars
  BY DEF Request, CreatePayment, ClosePayment, Webhook, MarkLost, RetryCallback, Accept, CanAccept
<1>2. \/ UNCHANGED workerVars
      \/ \E label \in {"update", "apply", "post"} : \E q : Goto(w, label, q)
  BY DEF Request, CreatePayment, ClosePayment, Webhook, MarkLost, RetryCallback
<1>3. CASE UNCHANGED workerVars
  <2>1. \A v \in Workers, id \in Ids : Owes(v, id)' <=> Owes(v, id)
    BY <1>3 DEF Owes, workerVars
  <2> QED  BY <1>1, <2>1, SameOwing DEF PInv
<1>4. CASE \E label \in {"update", "apply", "post"} : \E q : Goto(w, label, q)
  BY <1>1, <1>4, MovesUnowing DEF PInv, IInv, Typed
<1> QED  BY <1>2, <1>3, <1>4

\* Storing a draft that is not a callback's outcome.
LEMMA WriteCounted ==
    ASSUME PInv, NEW w \in Workers, pc[w] \in {"update", "apply"},
           NEW next \in {"post", "idle"}, NEW o, WriteDraft(w, next, o), UNCHANGED recorded
    PROVE  TriesCounted'
<1>1. UNCHANGED historyVars
  BY DEF WriteDraft, historyVars
<1>2. \E label \in {"post", "idle"} : \E q : Goto(w, label, q)
  BY DEF WriteDraft
<1> QED  BY <1>1, <1>2, MovesUnowing DEF PInv, IInv, Typed

LEMMA PostCounted ==
    ASSUME IsFiniteSet(Workers), PInv, NEW w \in Workers, PostCallback(w)
    PROVE  TriesCounted'
<1>1. draft[w] \in Payment /\ draft[w].id \in Ids
  BY DEF PostCallback, PInv, IInv, DraftOK, Payment
<1> SUFFICES ASSUME NEW id \in Ids
             PROVE  recorded'[id] + Cardinality(Owing(id)') <= tries'[id]
  BY DEF TriesCounted
<1>2. /\ recorded[id] + Cardinality(Owing(id)) <= tries[id]
      /\ recorded[id] \in Nat /\ tries[id] \in Nat /\ Cardinality(Owing(id)) \in Nat
  BY OwingIsFinite DEF PInv, TriesCounted, IInv, Typed, TypeOK
<1>3. UNCHANGED <<draft, recorded>> /\ tries' = [tries EXCEPT ![draft[w].id] = @ + 1]
  BY DEF PostCallback
<1>4. /\ pc[w] = "post" /\ pc'[w] \in {"delivered", "refused"}
      /\ \A v \in Workers : v # w => pc'[v] = pc[v]
  BY DEF PostCallback, PInv, IInv, Typed, TypeOK
<1>5. CASE id = draft[w].id
  <2>1. Owing(id)' = Owing(id) \cup {w} /\ w \notin Owing(id)
    BY <1>3, <1>4, <1>5 DEF Owing, Owes
  <2>2. Cardinality(Owing(id)') = Cardinality(Owing(id)) + 1
    BY <2>1, OwingIsFinite, FS_AddElement
  <2>3. tries'[id] = tries[id] + 1
    BY <1>1, <1>3, <1>5 DEF PInv, IInv, Typed, TypeOK
  <2> QED  BY <1>2, <1>3, <2>2, <2>3
<1>6. CASE id # draft[w].id
  <2>1. Owing(id)' = Owing(id)
    BY <1>3, <1>4, <1>6 DEF Owing, Owes
  <2>2. tries'[id] = tries[id]
    BY <1>1, <1>3, <1>6 DEF PInv, IInv, Typed, TypeOK
  <2> QED  BY <1>2, <1>3, <2>1, <2>2
<1> QED  BY <1>5, <1>6

LEMMA ReadCounted ==
    ASSUME PInv, NEW w \in Workers, RecordRead(w)
    PROVE  TriesCounted'
<1>1. draft[w].id \in Ids /\ records[draft[w].id] # NULL
  BY DEF RecordRead, PInv, IInv, DraftOK, Payment
<1>2. records[draft[w].id] \in Payment /\ records[draft[w].id].id = draft[w].id
  BY <1>1, RecordCounted DEF PInv
<1>3. PICK success : \E q \in Reworded(Called(records[draft[w].id], success)) :
                        Goto(w, "note", q)
  BY DEF RecordRead
<1>4. \A q \in Reworded(Called(records[draft[w].id], success)) : q.id = draft[w].id
  BY <1>2, CalledRevises, RewordedRevises DEF Revises
<1>5. pc[w] \in {"delivered", "refused"} /\ UNCHANGED historyVars
  BY DEF RecordRead
<1>6. \A v \in Workers, id \in Ids : Owes(v, id)' <=> Owes(v, id)
  BY <1>3, <1>4, <1>5, OneMoves DEF Owes, PInv, IInv, Typed
<1> QED  BY <1>5, <1>6, SameOwing DEF PInv

\* One record more, and one request less that owes one.
LEMMA NoteCounted ==
    ASSUME IsFiniteSet(Workers), PInv, NEW w \in Workers, RecordWrite(w)
    PROVE  TriesCounted'
<1>1. draft[w].id \in Ids /\ pc[w] = "note"
  BY DEF RecordWrite, PInv, IInv, DraftOK, Payment
<1>2. Goto(w, "idle", NULL) /\ UNCHANGED tries
  BY DEF RecordWrite, WriteDraft
<1>3. /\ pc'[w] = "idle"
      /\ \A v \in Workers : v # w => pc'[v] = pc[v] /\ draft'[v] = draft[v]
  BY <1>2, OneMoves DEF PInv, IInv, Typed
<1>4. \/ recorded' = recorded
      \/ recorded' = [recorded EXCEPT ![draft[w].id] = @ + 1]
  BY DEF RecordWrite
<1> SUFFICES ASSUME NEW id \in Ids
             PROVE  recorded'[id] + Cardinality(Owing(id)') <= tries'[id]
  BY DEF TriesCounted
<1>5. /\ recorded[id] + Cardinality(Owing(id)) <= tries[id]
      /\ recorded[id] \in Nat /\ tries[id] \in Nat /\ Cardinality(Owing(id)) \in Nat
  BY OwingIsFinite DEF PInv, TriesCounted, IInv, Typed, TypeOK
<1>6. CASE id = draft[w].id
  <2>1. Owing(id)' = Owing(id) \ {w} /\ w \in Owing(id)
    BY <1>1, <1>3, <1>6 DEF Owing, Owes
  <2>2. Cardinality(Owing(id)') = Cardinality(Owing(id)) - 1
    BY <2>1, OwingIsFinite, FS_RemoveElement
  <2>3. recorded'[id] = recorded[id] \/ recorded'[id] = recorded[id] + 1
    BY <1>4, <1>6 DEF PInv, IInv, Typed, TypeOK
  <2> QED  BY <1>2, <1>5, <2>2, <2>3
<1>7. CASE id # draft[w].id
  <2>1. Owing(id)' = Owing(id)
    BY <1>1, <1>3, <1>7 DEF Owing, Owes
  <2>2. recorded'[id] = recorded[id]
    BY <1>4, <1>7 DEF PInv, IInv, Typed, TypeOK
  <2> QED  BY <1>2, <1>5, <2>1, <2>2
<1> QED  BY <1>6, <1>7

LEMMA NobodyOwes ==
    ASSUME LoseWorkers, NEW id
    PROVE  Owing(id)' = {}
  BY DEF LoseWorkers, Owing, Owes

\* A crash ends every request.  It records at most what one of them owed.
LEMMA CrashCounted ==
    ASSUME IsFiniteSet(Workers), PInv, LoseWorkers,
           \/ UNCHANGED recorded
           \/ \E w \in Workers :
                /\ pc[w] = "note"
                /\ recorded' = [recorded EXCEPT ![draft[w].id] = @ + 1]
    PROVE  TriesCounted'
<1> SUFFICES ASSUME NEW id \in Ids
             PROVE  recorded'[id] + Cardinality(Owing(id)') <= tries'[id]
  BY DEF TriesCounted
<1>1. Cardinality(Owing(id)') = 0 /\ tries' = tries
  BY NobodyOwes, FS_EmptySet DEF LoseWorkers
<1>2. /\ recorded[id] + Cardinality(Owing(id)) <= tries[id]
      /\ recorded[id] \in Nat /\ tries[id] \in Nat /\ Cardinality(Owing(id)) \in Nat
  BY OwingIsFinite DEF PInv, TriesCounted, IInv, Typed, TypeOK
<1>3. CASE UNCHANGED recorded
  BY <1>1, <1>2, <1>3
<1>4. ASSUME NEW w \in Workers, pc[w] = "note",
             recorded' = [recorded EXCEPT ![draft[w].id] = @ + 1]
      PROVE  recorded'[id] + Cardinality(Owing(id)') <= tries'[id]
  <2>1. CASE id = draft[w].id
    <3>1. w \in Owing(id)
      BY <1>4, <2>1 DEF Owing, Owes
    <3>2. Cardinality(Owing(id)) # 0
      BY <3>1, OwingIsFinite, FS_EmptySet
    <3>3. recorded'[id] = recorded[id] + 1
      BY <1>4, <2>1 DEF PInv, IInv, Typed, TypeOK
    <3> QED  BY <1>1, <1>2, <3>2, <3>3
  <2>2. CASE id # draft[w].id
    <3>1. recorded'[id] = recorded[id]
      BY <1>4, <2>2 DEF PInv, IInv, Typed, TypeOK
    <3> QED  BY <1>1, <1>2, <3>1
  <2> QED  BY <2>1, <2>2
<1> QED  BY <1>3, <1>4

\* Each payment's callback_attempts were recorded, and each record is of a
\* delivery that was tried.
THEOREM ServiceCallbacksAccounted ==
    ASSUME CleanAppends, IsFiniteSet(Workers)
    PROVE  Spec => []CallbacksAccounted
<1>1. Init => TriesCounted
  <2> SUFFICES ASSUME Init, NEW id \in Ids
               PROVE  recorded[id] + Cardinality(Owing(id)) <= tries[id]
    BY DEF TriesCounted
  <2>1. Owing(id) = {}
    BY DEF Init, Owing, Owes
  <2>2. recorded[id] = 0 /\ tries[id] = 0
    BY DEF Init
  <2> QED  BY <2>1, <2>2, FS_EmptySet
<1>2. PInv /\ [Next]_vars => TriesCounted'
  <2> SUFFICES ASSUME PInv, [Next]_vars PROVE TriesCounted'
    OBVIOUS
  <2>1. CASE \E w \in Workers : Request(w)
    BY <2>1, RequestCounted
  <2>2. ASSUME NEW w \in Workers, Continue(w) PROVE TriesCounted'
    <3>1. CASE WriteUpdate(w)
      BY <3>1, WriteCounted DEF WriteUpdate
    <3>2. CASE WriteApplied(w)
      BY <3>2, WriteCounted DEF WriteApplied
    <3>3. CASE PostCallback(w)
      BY <3>3, PostCounted
    <3>4. CASE RecordRead(w)
      BY <3>4, ReadCounted
    <3>5. CASE RecordWrite(w)
      BY <3>5, NoteCounted
    <3> QED  BY <2>2, <3>1, <3>2, <3>3, <3>4, <3>5 DEF Continue
  <2>3. CASE CrashBetweenWrites
    BY <2>3, CrashCounted DEF CrashBetweenWrites
  <2>4. CASE \E w \in Workers : CrashIn(w)
    BY <2>4, CrashCounted DEF CrashIn, CrashInCreate, CrashInUpdate
  <2>5. CASE StartAgain \/ UNCHANGED vars
    <3>1. UNCHANGED historyVars /\ UNCHANGED workerVars
      BY <2>5 DEF StartAgain, vars
    <3>2. \A v \in Workers, id \in Ids : Owes(v, id)' <=> Owes(v, id)
      BY <3>1 DEF Owes, workerVars
    <3> QED  BY <3>1, <3>2, SameOwing DEF PInv
  <2> QED  BY <2>1, <2>2, <2>3, <2>4, <2>5 DEF Next
<1>3. IInv /\ TriesCounted => CallbacksAccounted
  <2> SUFFICES ASSUME IInv, TriesCounted PROVE CallbacksAccounted
    OBVIOUS
  <2>1. AttemptsRecorded
    BY RecordCounted DEF IInv, LinesCounted, GoodLines, AttemptsRecorded
  <2>2. ASSUME NEW id \in Ids PROVE recorded[id] <= tries[id]
    <3>1. /\ recorded[id] + Cardinality(Owing(id)) <= tries[id]
          /\ recorded[id] \in Nat /\ tries[id] \in Nat /\ Cardinality(Owing(id)) \in Nat
      BY OwingIsFinite DEF TriesCounted, IInv, Typed, TypeOK
    <3> QED  BY <3>1
  <2> QED  BY <2>1, <2>2 DEF CallbacksAccounted
<1> QED  BY <1>1, <1>2, <1>3, ServiceInvariant, PTL DEF Spec, PInv
=============================================================================
