---------------------------- MODULE LedgerProofs ----------------------------
(***************************************************************************)
(* PaymentService implements PaymentLedger.  What a request stores was     *)
(* computed from a version of the payment that was in the file then, and   *)
(* the file only grows: so it still follows from a version in the file.    *)
(* Requests that do not overlap follow from the version that is stored, and*)
(* then nothing is overwritten: the ledger is strict.                      *)
(***************************************************************************)
EXTENDS PaymentServiceProofs

\* Where the copy each request holds comes from.
Derived(w) ==
    /\ pc[w] \in {"update", "apply", "note"} =>
          \E i \in DOMAIN lines : Ledger!LegalChange(lines[i], draft[w])
    /\ pc[w] \in {"post", "delivered", "refused"} =>
          \E i \in DOMAIN lines : lines[i].id = draft[w].id /\ lines[i].notify

OneOrderPerId ==
    \A i, j \in DOMAIN lines :
        lines[i].id = lines[j].id => Ledger!SameOrder(lines[i], lines[j])

Origins == OneOrderPerId /\ \A w \in Workers : Derived(w)

LInv == IInv /\ Origins

LedgerStep == [Ledger!Next]_(Ledger!ledgerVars)

StrictStep == [Ledger!StrictNext]_(Ledger!ledgerVars)
-----------------------------------------------------------------------------
(* What each operation makes of a payment is a legal change of it. *)

LEMMA AnsweredIsLegal ==
    ASSUME NEW p \in Payment, NEW ok \in BOOLEAN
    PROVE  Ledger!LegalChange(p, Answered(p, ok))
<1>1. CASE ok
  BY <1>1 DEF Answered, Ledger!LegalChange, Ledger!SameOrder, Ledger!Moved,
         Ledger!indexKey, Payment
<1>2. CASE ~ ok
  BY <1>2 DEF Answered, Ledger!LegalChange, Ledger!SameOrder, Ledger!Moved,
         Ledger!indexKey, Payment
<1> QED  BY <1>1, <1>2

LEMMA ClosedIsLegal ==
    ASSUME NEW p \in Payment
    PROVE  Ledger!LegalChange(p, Closed(p))
  BY DEF Closed, Ledger!LegalChange, Ledger!SameOrder, Ledger!Moved,
         Ledger!indexKey, Payment

LEMMA AppliedIsLegal ==
    ASSUME NEW p \in Payment, NEW status \in PaymentStatus
    PROVE  Ledger!LegalChange(p, Applied(p, status))
  BY DEF Applied, Ledger!LegalChange, Ledger!SameOrder, Ledger!Moved,
         Ledger!indexKey, Payment

LEMMA LostIsLegal ==
    ASSUME NEW p \in Payment
    PROVE  Ledger!LegalChange(p, Lost(p))
  BY DEF Lost, Ledger!LegalChange, Ledger!SameOrder, Ledger!Moved,
         Ledger!indexKey, Payment

LEMMA CalledIsLegal ==
    ASSUME NEW p \in Payment, p.notify, NEW success
    PROVE  Ledger!LegalChange(p, Called(p, success))
<1> DEFINE outcome == IF success THEN "success" ELSE "failed"
<1>1. outcome \in {"success", "failed"}
  OBVIOUS
<1> HIDE DEF outcome
<1>2. Called(p, success) = [p EXCEPT !.attempts = @ + 1, !.callback = outcome]
  BY DEF Called, outcome
<1> QED  BY <1>1, <1>2
         DEF Ledger!LegalChange, Ledger!SameOrder, Ledger!Reported,
             Ledger!indexKey, Payment

\* A legal change stays one when its texts are longer or shorter.
LEMMA RewordedIsLegal ==
    ASSUME NEW p, NEW q \in Payment, Ledger!LegalChange(p, q), NEW v \in Reworded(q)
    PROVE  Ledger!LegalChange(p, v)
  BY RewordedType DEF Ledger!LegalChange, Ledger!SameOrder, Ledger!Reported,
                      Ledger!Moved, Ledger!indexKey, indexKey

LEMMA LegalIsSameOrder ==
    ASSUME NEW p, NEW q, Ledger!LegalChange(p, q)
    PROVE  Ledger!SameOrder(p, q) /\ q.id = p.id
  BY DEF Ledger!LegalChange, Ledger!SameOrder
-----------------------------------------------------------------------------
(* The file as a ledger. *)

LEMMA VersionIsLine ==
    ASSUME FileIsWhole, NEW id, NEW q
    PROVE  q \in VersionsOf(id) <=> \E i \in DOMAIN lines : lines[i].id = id /\ lines[i] = q
  BY GarbageAssumption DEF VersionsOf, LinesOf, GoodLines, FileIsWhole

LEMMA LinesAfterAppend ==
    ASSUME StoreTypeOK, NEW p \in Payment, lines' = Append(lines, p)
    PROVE  /\ \A i \in DOMAIN lines : i \in DOMAIN lines' /\ lines'[i] = lines[i]
           /\ \E n \in DOMAIN lines' : lines'[n] = p
           /\ \A i \in DOMAIN lines' : i \in DOMAIN lines \/ lines'[i] = p
<1>1. /\ Len(lines) \in Nat /\ DOMAIN lines = 1..Len(lines)
      /\ DOMAIN lines' = 1..(Len(lines) + 1)
      /\ \A i \in 1..Len(lines) : lines'[i] = lines[i]
      /\ lines'[Len(lines) + 1] = p
  BY DEF StoreTypeOK
<1> QED  BY <1>1

\* Appending a payment makes it its current version and one of its past.
LEMMA VersionsGrow ==
    ASSUME StoreTypeOK, FileIsWhole, FileIsWhole', NEW p \in Payment,
           lines' = Append(lines, p)
    PROVE  /\ LastVersion' = [LastVersion EXCEPT ![p.id] = p]
           /\ AllVersions' = [AllVersions EXCEPT ![p.id] = @ \cup {p}]
<1>1. p.id \in Ids
  BY KeyType
<1>2. \A id \in Ids : Replayed(id)' = IF id = p.id THEN p ELSE Replayed(id)
  BY ReplayAfterAppend
<1>3. LastVersion' = [LastVersion EXCEPT ![p.id] = p]
  BY <1>1, <1>2 DEF LastVersion
<1>4. ASSUME NEW id \in Ids
      PROVE  VersionsOf(id)' = IF id = p.id THEN VersionsOf(id) \cup {p} ELSE VersionsOf(id)
  <2>1. ASSUME NEW q
        PROVE  q \in VersionsOf(id)' <=> \E i \in DOMAIN lines' : lines'[i].id = id /\ lines'[i] = q
    BY GarbageAssumption DEF VersionsOf, LinesOf, GoodLines, FileIsWhole
  <2>2. ASSUME NEW q
        PROVE  q \in VersionsOf(id)' <=> q \in VersionsOf(id) \/ (id = p.id /\ q = p)
    BY <2>1, LinesAfterAppend, VersionIsLine
  <2> HIDE DEF VersionsOf
  <2> QED  BY <2>2
<1>5. AllVersions' = [AllVersions EXCEPT ![p.id] = @ \cup {p}]
  BY <1>1, <1>4 DEF AllVersions
<1> QED  BY <1>3, <1>5

LEMMA SameFileStutters ==
    ASSUME lines' = lines
    PROVE  LedgerStep /\ StrictStep
<1>1. LastVersion' = LastVersion
  BY DEF LastVersion, Replayed, LinesOf, GoodLines
<1>2. AllVersions' = AllVersions
  BY DEF AllVersions, VersionsOf, LinesOf, GoodLines
<1> QED  BY <1>1, <1>2 DEF LedgerStep, StrictStep, Ledger!ledgerVars

\* A payment appended as a legal change of a version in the file revises it.
LEMMA AppendRevises ==
    ASSUME StoreTypeOK, FileIsWhole, FileIsWhole', NEW p \in Payment,
           lines' = Append(lines, p),
           NEW i \in DOMAIN lines, Ledger!LegalChange(lines[i], p)
    PROVE  LedgerStep
<1>1. p.id \in Ids /\ lines[i].id = p.id /\ p # NULL
  BY KeyType, LegalIsSameOrder, NullAssumption
<1>2. LastVersion' = [LastVersion EXCEPT ![p.id] = p]
      /\ AllVersions' = [AllVersions EXCEPT ![p.id] = @ \cup {p}]
  BY VersionsGrow
<1>3. LastVersion'[p.id] = p
  BY <1>1, <1>2 DEF LastVersion
<1>4. LastVersion[p.id] # NULL
  BY <1>1, ReplayedLine DEF LastVersion
<1>5. lines[i] \in AllVersions[p.id]
  BY <1>1, VersionIsLine DEF AllVersions
<1>6. Ledger!Enter(p.id, LastVersion'[p.id])
  BY <1>2, <1>3 DEF Ledger!Enter
<1>7. Ledger!Revising(p.id, AllVersions[p.id])
  BY <1>1, <1>3, <1>4, <1>5, <1>6 DEF Ledger!Revising
<1> QED  BY <1>1, <1>7 DEF LedgerStep, Ledger!Next

\* A new payment under an id and a key that are not in the file opens them.
LEMMA AppendOpens ==
    ASSUME StoreTypeOK, FileIsWhole, FileIsWhole', NEW p \in Payment,
           lines' = Append(lines, p),
           p.status = "created", p.callback = "none", p.attempts = 0,
           \A i \in DOMAIN lines : lines[i].id # p.id /\ indexKey(lines[i]) # indexKey(p)
    PROVE  LedgerStep /\ StrictStep
<1>1. p.id \in Ids /\ p # NULL
  BY KeyType, NullAssumption
<1>2. LastVersion' = [LastVersion EXCEPT ![p.id] = p]
      /\ AllVersions' = [AllVersions EXCEPT ![p.id] = @ \cup {p}]
  BY VersionsGrow
<1>3. LastVersion'[p.id] = p
  BY <1>1, <1>2 DEF LastVersion
<1>4. LastVersion[p.id] = NULL
  BY <1>1, ReplayedLine DEF LastVersion
<1>5. ASSUME NEW id \in Ids, LastVersion[id] # NULL
      PROVE  Ledger!indexKey(LastVersion[id]) # Ledger!indexKey(p)
  <2>1. PICK i \in DOMAIN lines : LastVersion[id] = lines[i]
    BY <1>5, ReplayedLine DEF LastVersion
  <2> QED  BY <2>1 DEF Ledger!indexKey, indexKey
<1>6. Ledger!Open(LastVersion'[p.id])
  BY <1>3, <1>5 DEF Ledger!Open
<1>7. Ledger!Enter(p.id, LastVersion'[p.id])
  BY <1>2, <1>3 DEF Ledger!Enter
<1>8. Ledger!Opening(p.id)
  BY <1>1, <1>3, <1>4, <1>6, <1>7 DEF Ledger!Opening
<1> QED  BY <1>1, <1>8 DEF LedgerStep, StrictStep, Ledger!Next, Ledger!StrictNext
-----------------------------------------------------------------------------
(* The invariant under an append. *)

LEMMA OrderIsEquivalence ==
    ASSUME NEW p, NEW q, NEW r, Ledger!SameOrder(p, q), Ledger!SameOrder(p, r)
    PROVE  Ledger!SameOrder(q, r) /\ Ledger!SameOrder(q, p) /\ Ledger!SameOrder(q, q)
  BY DEF Ledger!SameOrder, Ledger!indexKey

LEMMA AppendKeepsOrder ==
    ASSUME StoreTypeOK, OneOrderPerId, NEW p \in Payment, lines' = Append(lines, p),
           \A i \in DOMAIN lines : lines[i].id = p.id => Ledger!SameOrder(lines[i], p)
    PROVE  OneOrderPerId'
<1>1. ASSUME NEW i \in DOMAIN lines', NEW j \in DOMAIN lines', lines'[i].id = lines'[j].id
      PROVE  Ledger!SameOrder(lines'[i], lines'[j])
  <2>1. /\ i \in DOMAIN lines \/ lines'[i] = p
        /\ j \in DOMAIN lines \/ lines'[j] = p
        /\ i \in DOMAIN lines => lines'[i] = lines[i]
        /\ j \in DOMAIN lines => lines'[j] = lines[j]
    BY LinesAfterAppend
  <2>2. CASE i \in DOMAIN lines /\ j \in DOMAIN lines
    BY <1>1, <2>1, <2>2 DEF OneOrderPerId
  <2>3. CASE lines'[i] = p /\ lines'[j] = p
    BY <2>3 DEF Ledger!SameOrder
  <2>4. CASE i \in DOMAIN lines /\ lines'[j] = p
    BY <1>1, <2>1, <2>4
  <2>5. CASE lines'[i] = p /\ j \in DOMAIN lines
    <3>1. Ledger!SameOrder(lines[j], p)
      BY <1>1, <2>1, <2>5
    <3> QED  BY <2>1, <2>5, <3>1 DEF Ledger!SameOrder
  <2> QED  BY <2>1, <2>2, <2>3, <2>4, <2>5
<1> QED  BY <1>1 DEF OneOrderPerId, Ledger!SameOrder, Ledger!indexKey

LEMMA DerivedStays ==
    ASSUME StoreTypeOK, NEW p \in Payment, lines' \in {lines, Append(lines, p)},
           NEW v \in Workers, Derived(v), pc'[v] = pc[v], draft'[v] = draft[v]
    PROVE  Derived(v)'
<1>1. \A i \in DOMAIN lines : i \in DOMAIN lines' /\ lines'[i] = lines[i]
  <2>1. CASE lines' = lines
    BY <2>1
  <2>2. CASE lines' = Append(lines, p)
    BY <2>2, LinesAfterAppend
  <2> QED  BY <2>1, <2>2
<1> QED  BY <1>1 DEF Derived, Ledger!LegalChange, Ledger!SameOrder, Ledger!indexKey,
                     Ledger!Reported, Ledger!Moved

LEMMA IdleIsDerived ==
    ASSUME NEW v \in Workers, pc'[v] = "idle"
    PROVE  Derived(v)'
  BY DEF Derived
-----------------------------------------------------------------------------
(* The steps that only read. *)

\* A request's move leaves the copies of the others where they came from.
LEMMA ReaderStep ==
    ASSUME LInv, lines' = lines, NEW w \in Workers, Derived(w)',
           \A v \in Workers : v # w => pc'[v] = pc[v] /\ draft'[v] = draft[v]
    PROVE  Origins' /\ LedgerStep
<1>1. OneOrderPerId'
  BY DEF LInv, Origins, OneOrderPerId, Ledger!SameOrder, Ledger!indexKey
<1>2. ASSUME NEW v \in Workers, v # w PROVE Derived(v)'
  BY <1>2 DEF LInv, Origins, Derived, Ledger!LegalChange, Ledger!SameOrder,
              Ledger!indexKey, Ledger!Reported, Ledger!Moved
<1>3. \A v \in Workers : Derived(v)'
  BY <1>2
<1> QED  BY <1>1, <1>3, SameFileStutters DEF Origins

LEMMA RecordIsLine ==
    ASSUME LInv, NEW id \in Ids, records[id] # NULL
    PROVE  /\ records[id] \in Payment
           /\ \E i \in DOMAIN lines : lines[i].id = id /\ records[id] = lines[i]
<1>1. proc = "up" /\ records[id] \in Payment
  BY RecordCounted DEF LInv
<1>2. records[id] = Replayed(id)
  BY <1>1 DEF LInv, IInv, StoreInv, MemoryIsReplay
<1> QED  BY <1>1, <1>2, ReplayedLine DEF LInv, IInv, StoreInv

LEMMA GotoMoves ==
    ASSUME LInv, NEW w \in Workers, NEW label, NEW q, Goto(w, label, q)
    PROVE  /\ pc'[w] = label /\ draft'[w] = q
           /\ \A v \in Workers : v # w => pc'[v] = pc[v] /\ draft'[v] = draft[v]
  BY DEF Goto, LInv, IInv, Typed, TypeOK

LEMMA ReadStep ==
    ASSUME LInv, NEW w \in Workers, NEW id \in Ids, records[id] # NULL,
           NEW q, Ledger!LegalChange(records[id], q),
           NEW label \in {"update", "apply", "note"}, Goto(w, label, q), lines' = lines
    PROVE  Origins' /\ LedgerStep
<1>1. PICK i \in DOMAIN lines : records[id] = lines[i]
  BY RecordIsLine
<1>2. pc'[w] = label /\ draft'[w] = q
  BY GotoMoves
<1>3. Ledger!LegalChange(lines'[i], draft'[w])
  BY <1>1, <1>2
<1>4. Derived(w)'
  BY <1>2, <1>3 DEF Derived, Ledger!LegalChange, Ledger!SameOrder, Ledger!indexKey,
                    Ledger!Reported, Ledger!Moved
<1> QED  BY <1>4, GotoMoves, ReaderStep

LEMMA RetryStep ==
    ASSUME LInv, NEW w \in Workers, RetryCallback(w)
    PROVE  Origins' /\ LedgerStep
<1>1. PICK id \in Ids : /\ records[id] # NULL /\ records[id].notify
                        /\ Goto(w, "post", records[id]) /\ UNCHANGED storeVars
  BY DEF RetryCallback
<1>2. PICK i \in DOMAIN lines : records[id] = lines[i]
  BY <1>1, RecordIsLine
<1>3. lines' = lines /\ pc'[w] = "post" /\ draft'[w] = lines[i]
  BY <1>1, <1>2, GotoMoves DEF storeVars
<1>4. Derived(w)'
  BY <1>1, <1>2, <1>3 DEF Derived
<1> QED  BY <1>1, <1>3, <1>4, GotoMoves, ReaderStep

LEMMA PostStep ==
    ASSUME LInv, NEW w \in Workers, PostCallback(w)
    PROVE  Origins' /\ LedgerStep
<1>1. /\ pc[w] = "post" /\ pc'[w] \in {"delivered", "refused"} /\ draft' = draft
      /\ lines' = lines /\ \A v \in Workers : v # w => pc'[v] = pc[v]
  BY DEF PostCallback, storeVars, LInv, IInv, Typed, TypeOK
<1>2. Derived(w)'
  BY <1>1 DEF Derived, LInv, Origins
<1> QED  BY <1>1, <1>2, ReaderStep

LEMMA RecordReadStep ==
    ASSUME LInv, NEW w \in Workers, RecordRead(w)
    PROVE  Origins' /\ LedgerStep
<1> DEFINE id == draft[w].id
<1>1. id \in Ids /\ records[id] # NULL
  BY DEF RecordRead, LInv, IInv, DraftOK, Payment
<1>2. PICK i \in DOMAIN lines : lines[i].id = id /\ lines[i].notify
  BY DEF RecordRead, LInv, Origins, Derived
<1>3. PICK j \in DOMAIN lines : lines[j].id = id /\ records[id] = lines[j]
  BY <1>1, RecordIsLine
<1>4. records[id] \in Payment /\ records[id].notify
  BY <1>1, <1>2, <1>3, RecordIsLine DEF LInv, Origins, OneOrderPerId, Ledger!SameOrder
<1>5. PICK success : \E q \in Reworded(Called(records[id], success)) : Goto(w, "note", q)
  BY DEF RecordRead
<1>6. \A q \in Reworded(Called(records[id], success)) : Ledger!LegalChange(records[id], q)
  BY <1>4, CalledRevises, CalledIsLegal, RewordedIsLegal DEF Revises
<1>7. lines' = lines
  BY DEF RecordRead, storeVars
<1> QED  BY <1>1, <1>5, <1>6, <1>7, ReadStep

-----------------------------------------------------------------------------
(* The steps that write. *)

LEMMA DraftStep ==
    ASSUME LInv, FileIsWhole', NEW w \in Workers, pc[w] \in {"update", "apply", "note"},
           lines' \in {lines, Append(lines, draft[w])}
    PROVE  OneOrderPerId' /\ LedgerStep
<1>1. draft[w] \in Payment /\ StoreTypeOK /\ FileIsWhole
  BY DEF LInv, IInv, DraftOK, StoreInv
<1>2. CASE lines' = lines
  BY <1>2, SameFileStutters DEF LInv, Origins, OneOrderPerId, Ledger!SameOrder, Ledger!indexKey
<1>3. CASE lines' = Append(lines, draft[w])
  <2>1. PICK i \in DOMAIN lines : Ledger!LegalChange(lines[i], draft[w])
    BY DEF LInv, Origins, Derived
  <2>2. LedgerStep
    BY <1>1, <1>3, <2>1, AppendRevises
  <2>3. Ledger!SameOrder(lines[i], draft[w]) /\ lines[i].id = draft[w].id
    BY <2>1, LegalIsSameOrder
  <2>4. ASSUME NEW j \in DOMAIN lines, lines[j].id = draft[w].id
        PROVE  Ledger!SameOrder(lines[j], draft[w])
    <3>1. Ledger!SameOrder(lines[i], lines[j])
      BY <2>3, <2>4 DEF LInv, Origins, OneOrderPerId
    <3> QED  BY <2>3, <3>1, OrderIsEquivalence
  <2>5. OneOrderPerId'
    BY <1>1, <1>3, <2>4, AppendKeepsOrder DEF LInv, Origins
  <2> QED  BY <2>2, <2>5
<1> QED  BY <1>2, <1>3

LEMMA WriteDraftStep ==
    ASSUME CleanAppends, LInv, FileIsWhole', NEW w \in Workers,
           pc[w] \in {"update", "apply", "note"},
           NEW next \in {"post", "idle"}, next = "post" => draft[w].notify,
           NEW o \in Outcomes, WriteDraft(w, next, o)
    PROVE  Origins' /\ LedgerStep
<1>1. draft[w] \in Payment /\ StoreTypeOK /\ openTail = FALSE
  BY DEF LInv, IInv, DraftOK, StoreInv, FileIsWhole
<1>2. o \in {"ok", "none"} /\ append(draft[w], o)
  BY DEF CleanAppends, Outcomes, WriteDraft, Update, AppendAndRemember
<1>3. lines' = IF o = "none" THEN lines ELSE Append(lines, draft[w])
  BY <1>1, <1>2, AppendWhole
<1>4. OneOrderPerId' /\ LedgerStep
  BY <1>3, DraftStep
<1>5. ASSUME NEW v \in Workers PROVE Derived(v)'
  <2>1. CASE v # w
    <3>1. pc'[v] = pc[v] /\ draft'[v] = draft[v]
      BY <2>1, GotoMoves DEF WriteDraft
    <3> QED  BY <1>1, <1>3, <3>1, DerivedStays DEF LInv, Origins
  <2>2. CASE v = w /\ pc'[w] = "idle"
    BY <2>2, IdleIsDerived
  <2>3. CASE v = w /\ pc'[w] # "idle"
    <3>1. o = "ok" /\ next = "post" /\ Goto(w, "post", draft[w])
      BY <2>3, GotoMoves DEF WriteDraft
    <3>2. pc'[w] = "post" /\ draft'[w] = draft[w] /\ draft[w].notify
      BY <3>1, GotoMoves
    <3>3. \E n \in DOMAIN lines' : lines'[n] = draft[w]
      BY <1>1, <1>3, <3>1, LinesAfterAppend
    <3> QED  BY <2>3, <3>2, <3>3 DEF Derived
  <2> QED  BY <2>1, <2>2, <2>3
<1> QED  BY <1>4, <1>5 DEF Origins

\* The id of a new payment is not in the file, nor is the key it may open.
LEMMA NewIsNotInFile ==
    ASSUME IInv, NEW id \in Ids, NEW key \in Keys,
           NEW notify \in BOOLEAN, NEW big \in BOOLEAN,
           Fresh(id), CanCreate(NewPayment(id, key, notify, big))
    PROVE  \A i \in DOMAIN lines : lines[i].id # id /\ indexKey(lines[i]) # key
<1>1. StoreTypeOK /\ FileIsWhole /\ MemoryIsReplay
  BY DEF IInv, StoreInv
<1>2. \A i \in DOMAIN lines : lines[i].id # id
  BY <1>1, GarbageAssumption DEF Fresh, LinesOf, GoodLines, FileIsWhole
<1>3. indexKey(NewPayment(id, key, notify, big)) = key
  BY NewPaymentType
<1>4. ReplayedIndex(key) = NULL
  BY <1>1, <1>3 DEF CanCreate, MemoryIsReplay
<1> QED  BY <1>1, <1>2, <1>4, ReplayedIndexLine

LEMMA OpenStep ==
    ASSUME LInv, FileIsWhole', NEW id \in Ids, NEW key \in Keys,
           NEW notify \in BOOLEAN, NEW big \in BOOLEAN,
           Fresh(id), CanCreate(NewPayment(id, key, notify, big)),
           lines' \in {lines, Append(lines, NewPayment(id, key, notify, big))}
    PROVE  OneOrderPerId' /\ LedgerStep
<1> DEFINE p == NewPayment(id, key, notify, big)
<1>1. /\ p \in Payment /\ p.id = id /\ indexKey(p) = key
      /\ p.status = "created" /\ p.callback = "none" /\ p.attempts = 0
  BY NewPaymentType DEF NewPayment
<1>2. StoreTypeOK /\ FileIsWhole
  BY DEF LInv, IInv, StoreInv
<1>3. \A i \in DOMAIN lines : lines[i].id # id /\ indexKey(lines[i]) # key
  BY NewIsNotInFile DEF LInv
<1> HIDE DEF p
<1>4. CASE lines' = lines
  BY <1>4, SameFileStutters DEF LInv, Origins, OneOrderPerId, Ledger!SameOrder, Ledger!indexKey
<1>5. CASE lines' = Append(lines, p)
  <2>1. LedgerStep
    BY <1>1, <1>2, <1>3, <1>5, AppendOpens
  <2>2. OneOrderPerId'
    BY <1>1, <1>2, <1>3, <1>5, AppendKeepsOrder DEF LInv, Origins
  <2> QED  BY <2>1, <2>2
<1> QED  BY <1>4, <1>5 DEF p

LEMMA CreateStep ==
    ASSUME CleanAppends, LInv, FileIsWhole', NEW w \in Workers, CreatePayment(w)
    PROVE  Origins' /\ LedgerStep
<1>1. PICK id \in Ids, key \in Keys, notify \in Notifies, big \in Sizes :
        /\ Fresh(id)
        /\ \/ /\ Create(NewPayment(id, key, notify, big), "ok")
              /\ \E ok \in ProviderAnswers :
                    \E q \in Reworded(Answered(NewPayment(id, key, notify, big), ok)) :
                       Goto(w, "update", q)
           \/ \E fault \in WriteFaults :
                 Create(NewPayment(id, key, notify, big), fault) /\ UNCHANGED workerVars
  BY DEF CreatePayment
<1> DEFINE p == NewPayment(id, key, notify, big)
<1>2. notify \in BOOLEAN /\ big \in BOOLEAN
  BY ServiceAssumption, SizesAssumption
<1>3. p \in Payment
  BY <1>2, NewPaymentType
<1>4. StoreTypeOK /\ openTail = FALSE
  BY DEF LInv, IInv, StoreInv, FileIsWhole
<1>5. CanCreate(p) /\ \E o \in {"ok", "none"} : append(p, o)
  BY <1>1 DEF CleanAppends, Create, AppendAndRemember
<1>6. lines' \in {lines, Append(lines, p)}
  BY <1>4, <1>5, AppendWhole
<1>7. OneOrderPerId' /\ LedgerStep
  BY <1>1, <1>2, <1>5, <1>6, OpenStep
<1> HIDE DEF p
<1>8. CASE /\ Create(p, "ok")
           /\ \E ok \in ProviderAnswers :
                 \E q \in Reworded(Answered(p, ok)) : Goto(w, "update", q)
  <2>0. PICK ok \in ProviderAnswers : \E q \in Reworded(Answered(p, ok)) :
                                        Goto(w, "update", q)
    BY <1>8
  <2>1. PICK q \in Reworded(Answered(p, ok)) : Create(p, "ok") /\ Goto(w, "update", q)
    BY <1>8, <2>0
  <2>2. lines' = Append(lines, p)
    BY <1>4, <2>1, AppendWhole DEF Create, AppendAndRemember
  <2>3. PICK n \in DOMAIN lines' : lines'[n] = p
    BY <1>3, <1>4, <2>2, LinesAfterAppend
  <2>4. pc'[w] = "update" /\ draft'[w] = q
    BY <2>1, GotoMoves
  <2>5. ok \in BOOLEAN
    BY ServiceAssumption
  <2>6. Ledger!LegalChange(lines'[n], draft'[w])
    BY <1>3, <2>3, <2>4, <2>5, AnsweredRevises, AnsweredIsLegal, RewordedIsLegal
       DEF Revises
  <2>7. Derived(w)'
    BY <2>4, <2>6 DEF Derived, Ledger!LegalChange, Ledger!SameOrder, Ledger!indexKey,
                      Ledger!Reported, Ledger!Moved
  <2>8. ASSUME NEW v \in Workers, v # w PROVE Derived(v)'
    <3>1. pc'[v] = pc[v] /\ draft'[v] = draft[v]
      BY <2>1, <2>8, GotoMoves
    <3> QED  BY <1>3, <1>4, <2>2, <3>1, DerivedStays DEF LInv, Origins
  <2> QED  BY <1>7, <2>7, <2>8 DEF Origins
<1>9. CASE UNCHANGED workerVars
  <2>1. \A v \in Workers : pc'[v] = pc[v] /\ draft'[v] = draft[v]
    BY <1>9 DEF workerVars
  <2>2. \A v \in Workers : Derived(v)'
    BY <1>3, <1>4, <1>6, <2>1, DerivedStays DEF LInv, Origins
  <2> QED  BY <1>7, <2>2 DEF Origins
<1> QED  BY <1>1, <1>8, <1>9 DEF p

LEMMA RequestStep ==
    ASSUME CleanAppends, LInv, FileIsWhole', NEW w \in Workers, Request(w)
    PROVE  Origins' /\ LedgerStep
<1>1. CASE CreatePayment(w)
  BY <1>1, CreateStep
<1>2. CASE ClosePayment(w)
  <2>1. PICK id \in Ids : /\ records[id] # NULL
                          /\ Goto(w, "update", Closed(records[id]))
                          /\ lines' = lines
    BY <1>2 DEF ClosePayment, storeVars
  <2> QED  BY <2>1, RecordIsLine, ClosedIsLegal, ReadStep
<1>3. CASE Webhook(w)
  <2>1. PICK k \in Keys, status \in WebhookStatuses :
          /\ FindByOutTradeNo(k) # NULL
          /\ \E p \in Reworded(Applied(FindByOutTradeNo(k), status)) : Goto(w, "apply", p)
          /\ lines' = lines
    BY <1>3 DEF Webhook, storeVars
  <2>2. /\ outIndex[k] \in Ids /\ FindByOutTradeNo(k) = records[outIndex[k]]
        /\ FindByOutTradeNo(k) \in Payment
    BY <2>1, FoundIsPayment DEF LInv, IInv, StoreInv
  <2>3. status \in PaymentStatus
    BY ServiceAssumption
  <2> DEFINE read == records[outIndex[k]]
  <2>4. \A p \in Reworded(Applied(read, status)) : Ledger!LegalChange(read, p)
    BY <2>2, <2>3, AppliedRevises, AppliedIsLegal, RewordedIsLegal DEF Revises
  <2> QED  BY <2>1, <2>2, <2>4, ReadStep
<1>4. CASE MarkLost(w)
  <2>1. PICK id \in Ids : /\ records[id] # NULL
                          /\ \E p \in Reworded(Lost(records[id])) : Goto(w, "update", p)
                          /\ lines' = lines
    BY <1>4 DEF MarkLost, storeVars
  <2>2. \A p \in Reworded(Lost(records[id])) : Ledger!LegalChange(records[id], p)
    BY <2>1, RecordIsLine, LostRevises, LostIsLegal, RewordedIsLegal DEF Revises
  <2> QED  BY <2>1, <2>2, ReadStep
<1>5. CASE RetryCallback(w)
  BY <1>5, RetryStep
<1> QED  BY <1>1, <1>2, <1>3, <1>4, <1>5 DEF Request

LEMMA ContinueStep ==
    ASSUME CleanAppends, LInv, FileIsWhole', NEW w \in Workers, Continue(w)
    PROVE  Origins' /\ LedgerStep
<1>1. CASE WriteUpdate(w)
  BY <1>1, WriteDraftStep DEF WriteUpdate
<1>2. CASE WriteApplied(w)
  <2>1. PICK o \in Outcomes : WriteDraft(w, IF draft[w].notify THEN "post" ELSE "idle", o)
    BY <1>2 DEF WriteApplied
  <2>2. pc[w] = "apply"
    BY <1>2 DEF WriteApplied
  <2>3. CASE draft[w].notify
    BY <2>1, <2>2, <2>3, WriteDraftStep
  <2>4. CASE ~ draft[w].notify
    BY <2>1, <2>2, <2>4, WriteDraftStep
  <2> QED  BY <2>3, <2>4
<1>3. CASE PostCallback(w)
  BY <1>3, PostStep
<1>4. CASE RecordRead(w)
  BY <1>4, RecordReadStep
<1>5. CASE RecordWrite(w)
  BY <1>5, WriteDraftStep DEF RecordWrite
<1> QED  BY <1>1, <1>2, <1>3, <1>4, <1>5 DEF Continue

\* A crash leaves no request; what it leaves in the file is a legal line.
LEMMA StopStep ==
    ASSUME CleanAppends, LInv, FileIsWhole',
           CrashBetweenWrites \/ \E w \in Workers : CrashIn(w)
    PROVE  Origins' /\ LedgerStep
<1>1. \A v \in Workers : Derived(v)'
  BY IdleIsDerived DEF CrashBetweenWrites, CrashIn, CrashInCreate, CrashInUpdate, LoseWorkers
<1>2. StoreTypeOK /\ openTail = FALSE
  BY DEF LInv, IInv, StoreInv, FileIsWhole
<1>3. CASE CrashBetweenWrites
  <2>1. lines' = lines
    BY <1>3 DEF CrashBetweenWrites, Crash
  <2> QED  BY <1>1, <2>1, SameFileStutters
           DEF Origins, LInv, OneOrderPerId, Ledger!SameOrder, Ledger!indexKey
<1>4. ASSUME NEW w \in Workers, CrashInCreate(w)
      PROVE  Origins' /\ LedgerStep
  <2>1. PICK id \in Ids, key \in Keys, notify \in Notifies, big \in Sizes, form \in CrashForms :
          /\ Fresh(id)
          /\ CanCreate(NewPayment(id, key, notify, big))
          /\ append(NewPayment(id, key, notify, big), form)
    BY <1>4 DEF CrashInCreate, CrashInAppend
  <2>2. notify \in BOOLEAN /\ big \in BOOLEAN /\ form = "sync"
    BY ServiceAssumption, SizesAssumption DEF CleanAppends
  <2>3. lines' = Append(lines, NewPayment(id, key, notify, big))
    BY <1>2, <2>1, <2>2, AppendWhole
  <2> QED  BY <1>1, <2>1, <2>2, <2>3, OpenStep DEF Origins
<1>5. ASSUME NEW w \in Workers, CrashInUpdate(w)
      PROVE  Origins' /\ LedgerStep
  <2>1. PICK form \in CrashForms : append(draft[w], form)
    BY <1>5 DEF CrashInUpdate, CrashInAppend
  <2>2. form = "sync" /\ pc[w] \in {"update", "apply", "note"}
    BY <1>5 DEF CleanAppends, CrashInUpdate
  <2>3. lines' = Append(lines, draft[w])
    BY <1>2, <2>1, <2>2, AppendWhole
  <2> QED  BY <1>1, <2>2, <2>3, DraftStep DEF Origins
<1> QED  BY <1>3, <1>4, <1>5 DEF CrashIn

-----------------------------------------------------------------------------
\* Requests that overlap, with crashes between any two of their steps, store
\* only payments that follow from an earlier version by one legal change, and
\* never open one order twice: the service implements the ledger.
THEOREM ServiceImplementsLedger ==
    ASSUME CleanAppends
    PROVE  Spec => LedgerSpec
<1>1. Init => Origins /\ Ledger!Init
  <2> SUFFICES ASSUME Init PROVE Origins /\ Ledger!Init
    OBVIOUS
  <2>1. DOMAIN lines = {} /\ \A w \in Workers : pc[w] = "idle"
    BY DEF Init, StoreInit
  <2>2. Origins
    BY <2>1 DEF Origins, OneOrderPerId, Derived
  <2>3. \A id \in Ids : LinesOf(id) = {}
    BY <2>1 DEF LinesOf, GoodLines
  <2>4. LastVersion = [id \in Ids |-> NULL]
    BY <2>3 DEF LastVersion, Replayed
  <2>5. \A id \in Ids : VersionsOf(id) = {}
    <3> SUFFICES ASSUME NEW id \in Ids, NEW q \in VersionsOf(id) PROVE FALSE
      OBVIOUS
    <3> QED  BY <2>3 DEF VersionsOf
  <2>6. AllVersions = [id \in Ids |-> {}]
    BY <2>5 DEF AllVersions
  <2> QED  BY <2>2, <2>4, <2>6 DEF Ledger!Init
<1>2. LInv /\ IInv' /\ [Next]_vars => Origins' /\ LedgerStep
  <2> SUFFICES ASSUME LInv, IInv', [Next]_vars PROVE Origins' /\ LedgerStep
    OBVIOUS
  <2>0. FileIsWhole'
    BY DEF IInv, StoreInv
  <2>1. CASE \E w \in Workers : Request(w)
    BY <2>0, <2>1, RequestStep
  <2>2. CASE \E w \in Workers : Continue(w)
    BY <2>0, <2>2, ContinueStep
  <2>3. CASE CrashBetweenWrites \/ \E w \in Workers : CrashIn(w)
    BY <2>0, <2>3, StopStep
  <2>4. CASE StartAgain \/ UNCHANGED vars
    <3>1. UNCHANGED <<lines, pc, draft>>
      BY <2>4 DEF StartAgain, Restart, vars, storeVars, workerVars
    <3>2. Origins'
      BY <3>1 DEF LInv, Origins, OneOrderPerId, Derived, Ledger!LegalChange,
                  Ledger!SameOrder, Ledger!indexKey, Ledger!Reported, Ledger!Moved
    <3> QED  BY <3>1, <3>2, SameFileStutters
  <2> QED  BY <2>1, <2>2, <2>3, <2>4 DEF Next
<1>3. Init => Ledger!Init
  BY <1>1
<1>4. LInv /\ IInv' /\ [Next]_vars => Origins' /\ [Ledger!Next]_(Ledger!ledgerVars)
  BY <1>2 DEF LedgerStep
<1> QED  BY <1>1, <1>4, ServiceInvariant, PTL DEF Spec, LInv, LedgerSpec, Ledger!Spec

-----------------------------------------------------------------------------
(* Requests that do not overlap.  The copy a request holds is then never   *)
(* stale: it follows from the payment as it is stored.                     *)

OneAtATime == \A v, w \in Workers : v = w

\* What a request at label l may hold, of a payment r that is stored.
Suits(l, r, d) ==
    /\ l \in {"update", "apply", "note"} => Ledger!LegalChange(r, d)
    /\ l \in {"update", "apply"} => d.attempts = r.attempts
    /\ l = "note" => d.attempts = r.attempts + 1
    /\ l = "update" => /\ r.callback = "none" \/ d.callback \in {r.callback, "lost"}
                       /\ d.status = "closed" => r.status # "paid"
    /\ l \in {"post", "delivered", "refused"} => d = r /\ r.notify

Fits(w) == pc[w] # "idle" => Suits(pc[w], records[draft[w].id], draft[w])

\* The last line of a payment counts every outcome recorded for it.
Exact == \A id \in Ids : recorded[id] = IF Replayed(id) = NULL THEN 0 ELSE Replayed(id).attempts

SInv == IInv /\ Exact /\ \A w \in Workers : Fits(w)

\* What a step adds to the file, and to the history of outcomes.
Rests == lines' = lines /\ recorded' = recorded

Stores(w) ==
    /\ pc[w] \in {"update", "apply", "note"}
    /\ lines' = Append(lines, draft[w])
    /\ recorded' = IF pc[w] = "note" THEN [recorded EXCEPT ![draft[w].id] = @ + 1] ELSE recorded

Opens(id, key, notify, big) ==
    /\ Fresh(id) /\ CanCreate(NewPayment(id, key, notify, big))
    /\ lines' = Append(lines, NewPayment(id, key, notify, big))
    /\ recorded' = recorded

Adds ==
    \/ Rests
    \/ \E w \in Workers : Stores(w)
    \/ \E id \in Ids, key \in Keys, notify \in BOOLEAN, big \in BOOLEAN :
          Opens(id, key, notify, big)

LEMMA WriteAdds ==
    ASSUME CleanAppends, IInv, NEW w \in Workers, pc[w] \in {"update", "apply", "note"},
           NEW next, NEW o \in Outcomes, WriteDraft(w, next, o),
           recorded' = IF pc[w] = "note" /\ o # "none"
                       THEN [recorded EXCEPT ![draft[w].id] = @ + 1] ELSE recorded
    PROVE  Adds
<1>1. openTail = FALSE
  BY DEF IInv, StoreInv, FileIsWhole
<1>2. o \in {"ok", "none"} /\ append(draft[w], o)
  BY DEF CleanAppends, Outcomes, WriteDraft, Update, AppendAndRemember
<1>3. lines' = IF o = "none" THEN lines ELSE Append(lines, draft[w])
  BY <1>1, <1>2, AppendWhole DEF IInv, StoreInv
<1>4. CASE o = "none"
  BY <1>3, <1>4 DEF Adds, Rests
<1>5. CASE o # "none"
  BY <1>3, <1>5 DEF Adds, Stores
<1> QED  BY <1>4, <1>5

LEMMA CreateAdds ==
    ASSUME CleanAppends, IInv, NEW w \in Workers, CreatePayment(w)
    PROVE  Adds
<1>1. PICK id \in Ids, key \in Keys, notify \in Notifies, big \in Sizes, o \in Outcomes :
        /\ Fresh(id) /\ recorded' = recorded
        /\ Create(NewPayment(id, key, notify, big), o)
  BY DEF CreatePayment, Accept, historyVars, Outcomes
<1> DEFINE p == NewPayment(id, key, notify, big)
<1>2. notify \in BOOLEAN /\ big \in BOOLEAN
  BY ServiceAssumption, SizesAssumption
<1>3. p \in Payment /\ StoreTypeOK /\ openTail = FALSE
  BY <1>2, NewPaymentType DEF IInv, StoreInv, FileIsWhole
<1>4. CanCreate(p) /\ append(p, o) /\ o \in {"ok", "none"}
  BY <1>1 DEF CleanAppends, Outcomes, Create, AppendAndRemember
<1>5. lines' = IF o = "none" THEN lines ELSE Append(lines, p)
  BY <1>3, <1>4, AppendWhole
<1>6. CASE o = "none"
  BY <1>1, <1>5, <1>6 DEF Adds, Rests
<1>7. CASE o # "none"
  <2>1. Opens(id, key, notify, big)
    BY <1>1, <1>4, <1>5, <1>7 DEF Opens
  <2> QED  BY <1>2, <2>1 DEF Adds
<1> QED  BY <1>6, <1>7

\* Every step adds a draft, a new payment or nothing.
LEMMA StepAdds ==
    ASSUME CleanAppends, IInv, [Next]_vars
    PROVE  Adds
<1>1. ASSUME NEW w \in Workers, Request(w), ~ CreatePayment(w)
      PROVE  Adds
  <2>1. UNCHANGED storeVars /\ UNCHANGED historyVars
    BY <1>1 DEF Request, ClosePayment, Webhook, MarkLost, RetryCallback, Accept
  <2> QED  BY <2>1 DEF Adds, Rests, storeVars, historyVars
<1>2. ASSUME NEW w \in Workers, PostCallback(w) \/ RecordRead(w)
      PROVE  Adds
  BY <1>2 DEF PostCallback, RecordRead, Adds, Rests, storeVars, historyVars
<1>3. ASSUME NEW w \in Workers, WriteUpdate(w)
      PROVE  Adds
  <2>1. pc[w] = "update" /\ recorded' = recorded
    BY <1>3 DEF WriteUpdate
  <2> QED  BY <1>3, <2>1, WriteAdds DEF WriteUpdate
<1>4. ASSUME NEW w \in Workers, WriteApplied(w)
      PROVE  Adds
  <2>1. pc[w] = "apply" /\ recorded' = recorded
    BY <1>4 DEF WriteApplied
  <2>2. PICK o \in Outcomes : WriteDraft(w, IF draft[w].notify THEN "post" ELSE "idle", o)
    BY <1>4 DEF WriteApplied
  <2> QED  BY <2>1, <2>2, WriteAdds
<1>5. ASSUME NEW w \in Workers, RecordWrite(w)
      PROVE  Adds
  <2>1. pc[w] = "note"
    BY <1>5 DEF RecordWrite
  <2>2. PICK o \in Outcomes :
          /\ WriteDraft(w, "idle", o)
          /\ recorded' = IF o \in {"ok", "nonl", "sync"}
                         THEN [recorded EXCEPT ![draft[w].id] = @ + 1] ELSE recorded
    BY <1>5 DEF RecordWrite
  <2>3. o \in {"ok", "none"}
    BY DEF CleanAppends, Outcomes
  <2> QED  BY <2>1, <2>2, <2>3, WriteAdds
<1>6. CASE CrashBetweenWrites \/ StartAgain \/ UNCHANGED vars
  BY <1>6 DEF CrashBetweenWrites, Crash, StartAgain, Restart, vars, storeVars, historyVars,
              Adds, Rests
<1>7. ASSUME NEW w \in Workers, CrashInCreate(w)
      PROVE  Adds
  <2>1. PICK id \in Ids, key \in Keys, notify \in Notifies, big \in Sizes, form \in CrashForms :
          /\ Fresh(id) /\ CanCreate(NewPayment(id, key, notify, big))
          /\ append(NewPayment(id, key, notify, big), form)
          /\ recorded' = recorded
    BY <1>7 DEF CrashInCreate, CrashInAppend
  <2>2. notify \in BOOLEAN /\ big \in BOOLEAN /\ form = "sync"
    BY ServiceAssumption, SizesAssumption DEF CleanAppends
  <2>3. StoreTypeOK /\ openTail = FALSE
    BY DEF IInv, StoreInv, FileIsWhole
  <2>4. lines' = Append(lines, NewPayment(id, key, notify, big))
    BY <2>1, <2>2, <2>3, AppendWhole
  <2>5. Opens(id, key, notify, big)
    BY <2>1, <2>4 DEF Opens
  <2> QED  BY <2>2, <2>5 DEF Adds
<1>8. ASSUME NEW w \in Workers, CrashInUpdate(w)
      PROVE  Adds
  <2>1. PICK form \in CrashForms :
          /\ append(draft[w], form)
          /\ recorded' = IF pc[w] = "note" /\ form # "cut"
                         THEN [recorded EXCEPT ![draft[w].id] = @ + 1] ELSE recorded
    BY <1>8 DEF CrashInUpdate, CrashInAppend
  <2>2. form = "sync" /\ pc[w] \in {"update", "apply", "note"}
    BY <1>8 DEF CleanAppends, CrashInUpdate
  <2>3. StoreTypeOK /\ openTail = FALSE
    BY DEF IInv, StoreInv, FileIsWhole
  <2>4. lines' = Append(lines, draft[w])
    BY <2>1, <2>2, <2>3, AppendWhole
  <2>5. Stores(w)
    BY <2>1, <2>2, <2>4 DEF Stores
  <2> QED  BY <2>5 DEF Adds
<1> QED  BY <1>1, <1>2, <1>3, <1>4, <1>5, <1>6, <1>7, <1>8, CreateAdds
         DEF Next, Request, Continue, CrashIn

\* The stored payment that a request's copy is to replace.
LEMMA StoredDraft ==
    ASSUME IInv, NEW w \in Workers, pc[w] # "idle"
    PROVE  /\ proc = "up" /\ draft[w] \in Payment /\ draft[w].id \in Ids
           /\ records[draft[w].id] # NULL /\ records[draft[w].id] \in Payment
           /\ records[draft[w].id].id = draft[w].id
           /\ records[draft[w].id] = Replayed(draft[w].id)
<1>1. proc = "up" /\ draft[w] \in Payment /\ records[draft[w].id] # NULL
  BY DEF IInv, DraftOK
<1>2. draft[w].id \in Ids
  BY <1>1, KeyType
<1>3. records[draft[w].id] \in Payment /\ records[draft[w].id].id = draft[w].id
  BY <1>1, <1>2, RecordCounted
<1>4. records[draft[w].id] = Replayed(draft[w].id)
  BY <1>1, <1>2 DEF IInv, StoreInv, MemoryIsReplay
<1> QED  BY <1>1, <1>2, <1>3, <1>4

\* A payment appended as a legal change of its current version revises that one.
LEMMA AppendFollows ==
    ASSUME StoreTypeOK, FileIsWhole, FileIsWhole', NEW p \in Payment,
           lines' = Append(lines, p),
           LastVersion[p.id] # NULL, Ledger!LegalChange(LastVersion[p.id], p)
    PROVE  StrictStep
<1>1. p.id \in Ids /\ p # NULL
  BY KeyType, NullAssumption
<1>2. LastVersion' = [LastVersion EXCEPT ![p.id] = p]
      /\ AllVersions' = [AllVersions EXCEPT ![p.id] = @ \cup {p}]
  BY VersionsGrow
<1>3. LastVersion'[p.id] = p
  BY <1>1, <1>2 DEF LastVersion
<1>4. Ledger!Enter(p.id, LastVersion'[p.id])
  BY <1>2, <1>3 DEF Ledger!Enter
<1>5. Ledger!Revising(p.id, {LastVersion[p.id]})
  BY <1>1, <1>3, <1>4 DEF Ledger!Revising
<1> QED  BY <1>1, <1>5 DEF StrictStep, Ledger!StrictNext

LEMMA StrictFile ==
    ASSUME CleanAppends, SInv, FileIsWhole', [Next]_vars
    PROVE  StrictStep
<1>1. StoreTypeOK /\ FileIsWhole
  BY DEF SInv, IInv, StoreInv
<1>2. CASE Rests
  BY <1>2, SameFileStutters DEF Rests
<1>3. ASSUME NEW w \in Workers, Stores(w)
      PROVE  StrictStep
  <2>1. pc[w] \in {"update", "apply", "note"} /\ lines' = Append(lines, draft[w])
    BY <1>3 DEF Stores
  <2>2. /\ draft[w] \in Payment /\ draft[w].id \in Ids
        /\ LastVersion[draft[w].id] = records[draft[w].id]
        /\ LastVersion[draft[w].id] # NULL
    BY <2>1, StoredDraft DEF SInv, LastVersion
  <2>3. Ledger!LegalChange(records[draft[w].id], draft[w])
    BY <2>1 DEF SInv, Fits, Suits
  <2> QED  BY <1>1, <2>1, <2>2, <2>3, AppendFollows
<1>4. ASSUME NEW id \in Ids, NEW key \in Keys, NEW notify \in BOOLEAN, NEW big \in BOOLEAN,
             Opens(id, key, notify, big)
      PROVE  StrictStep
  <2> DEFINE p == NewPayment(id, key, notify, big)
  <2>1. /\ p \in Payment /\ p.id = id /\ indexKey(p) = key
        /\ p.status = "created" /\ p.callback = "none" /\ p.attempts = 0
    BY NewPaymentType DEF NewPayment
  <2>2. lines' = Append(lines, p) /\ Fresh(id) /\ CanCreate(p)
    BY <1>4 DEF Opens
  <2>3. \A i \in DOMAIN lines : lines[i].id # id /\ indexKey(lines[i]) # key
    BY <2>2, NewIsNotInFile DEF SInv
  <2> HIDE DEF p
  <2> QED  BY <1>1, <2>1, <2>2, <2>3, AppendOpens
<1> QED  BY <1>2, <1>3, <1>4, StepAdds DEF SInv, Adds

LEMMA ExactStep ==
    ASSUME CleanAppends, SInv, [Next]_vars
    PROVE  Exact'
<1>1. /\ StoreTypeOK /\ recorded \in [Ids -> Nat]
      /\ \A id \in Ids : recorded[id] = IF Replayed(id) = NULL THEN 0 ELSE Replayed(id).attempts
  BY DEF SInv, IInv, StoreInv, Typed, TypeOK, Exact
<1>2. CASE Rests
  <2>1. \A id \in Ids : Replayed(id)' = Replayed(id)
    BY <1>2 DEF Rests, Replayed, LinesOf, GoodLines
  <2> QED  BY <1>1, <1>2, <2>1 DEF Exact, Rests
<1>3. ASSUME NEW w \in Workers, Stores(w)
      PROVE  Exact'
  <2>1. pc[w] # "idle" /\ pc[w] \in {"update", "apply", "note"}
    BY <1>3 DEF Stores
  <2>2. /\ draft[w] \in Payment /\ draft[w].id \in Ids
        /\ recorded[draft[w].id] = records[draft[w].id].attempts
    BY <1>1, <2>1, StoredDraft DEF SInv
  <2>3. \A id \in Ids : Replayed(id)' = IF id = draft[w].id THEN draft[w] ELSE Replayed(id)
    BY <1>1, <1>3, <2>2, ReplayAfterAppend DEF Stores
  <2>4. \A id \in Ids : id # draft[w].id => recorded'[id] = recorded[id]
    BY <1>1, <1>3, <2>2 DEF Stores
  <2>5. recorded'[draft[w].id] = draft[w].attempts
    <3>1. CASE pc[w] = "note"
      <4>1. recorded'[draft[w].id] = recorded[draft[w].id] + 1
        BY <1>1, <1>3, <2>2, <3>1 DEF Stores
      <4>2. draft[w].attempts = records[draft[w].id].attempts + 1
        BY <3>1 DEF SInv, Fits, Suits
      <4> QED  BY <2>2, <4>1, <4>2
    <3>2. CASE pc[w] # "note"
      BY <1>3, <2>1, <2>2, <3>2 DEF Stores, SInv, Fits, Suits
    <3> QED  BY <3>1, <3>2
  <2> QED  BY <1>1, <2>2, <2>3, <2>4, <2>5, NullAssumption DEF Exact
<1>4. ASSUME NEW id \in Ids, NEW key \in Keys, NEW notify \in BOOLEAN, NEW big \in BOOLEAN,
             Opens(id, key, notify, big)
      PROVE  Exact'
  <2> DEFINE p == NewPayment(id, key, notify, big)
  <2>1. p \in Payment /\ p.id = id /\ p.attempts = 0 /\ p # NULL
    BY NewPaymentType, NullAssumption DEF NewPayment
  <2>2. lines' = Append(lines, p) /\ LinesOf(id) = {} /\ recorded' = recorded
    BY <1>4 DEF Opens, Fresh
  <2> HIDE DEF p
  <2>3. \A d \in Ids : Replayed(d)' = IF d = id THEN p ELSE Replayed(d)
    BY <1>1, <2>1, <2>2, ReplayAfterAppend
  <2>4. recorded[id] = 0
    BY <1>1, <2>2 DEF Replayed
  <2> QED  BY <1>1, <2>1, <2>2, <2>3, <2>4 DEF Exact
<1> QED  BY <1>2, <1>3, <1>4, StepAdds DEF SInv, Adds

LEMMA RewordedSuits ==
    ASSUME NEW l \in {"update", "apply", "note"}, NEW p, NEW q \in Payment,
           Suits(l, p, q), NEW v \in Reworded(q)
    PROVE  Suits(l, p, v) /\ v.id = q.id
<1>1. /\ v.id = q.id
      /\ <<v.status, v.callback, v.attempts>> = <<q.status, q.callback, q.attempts>>
  BY RewordedType
<1>2. Ledger!LegalChange(p, v)
  BY RewordedIsLegal DEF Suits
<1> QED  BY <1>1, <1>2 DEF Suits

\* What each operation makes of the payment it read suits that payment.
LEMMA AnsweredSuits ==
    ASSUME NEW p \in Payment, p.callback = "none", NEW ok \in BOOLEAN
    PROVE  \A q \in Reworded(Answered(p, ok)) : Suits("update", p, q) /\ q.id = p.id
<1>1. Answered(p, ok).status \in {"pending", "failed"}
  BY DEF Answered, Payment
<1>2. Answered(p, ok).attempts = p.attempts /\ Answered(p, ok).id = p.id
  BY AnsweredRevises DEF Revises
<1>3. Suits("update", p, Answered(p, ok)) /\ Answered(p, ok) \in Payment
  BY <1>1, <1>2, AnsweredRevises, AnsweredIsLegal DEF Suits, Revises
<1> QED  BY <1>1, <1>2, <1>3, RewordedSuits

LEMMA ClosedSuits ==
    ASSUME NEW p \in Payment, Closable(p)
    PROVE  Suits("update", p, Closed(p)) /\ Closed(p).id = p.id
<1>1. Closed(p).callback = p.callback /\ p.status # "paid"
  BY DEF Closed, Closable, Payment
<1>2. Closed(p).attempts = p.attempts /\ Closed(p).id = p.id
  BY ClosedRevises DEF Revises
<1> QED  BY <1>1, <1>2, ClosedIsLegal DEF Suits

LEMMA LostSuits ==
    ASSUME NEW p \in Payment
    PROVE  \A q \in Reworded(Lost(p)) : Suits("update", p, q) /\ q.id = p.id
<1>1. Lost(p).callback = "lost" /\ Lost(p).status = "lost"
  BY DEF Lost, Payment
<1>2. Lost(p).attempts = p.attempts /\ Lost(p).id = p.id
  BY LostRevises DEF Revises
<1>3. Suits("update", p, Lost(p)) /\ Lost(p) \in Payment
  BY <1>1, <1>2, LostRevises, LostIsLegal DEF Suits, Revises
<1> QED  BY <1>1, <1>2, <1>3, RewordedSuits

LEMMA AppliedSuits ==
    ASSUME NEW p \in Payment, NEW status \in PaymentStatus
    PROVE  \A q \in Reworded(Applied(p, status)) : Suits("apply", p, q) /\ q.id = p.id
<1>1. Applied(p, status).attempts = p.attempts /\ Applied(p, status).id = p.id
  BY AppliedRevises DEF Revises
<1>2. Suits("apply", p, Applied(p, status)) /\ Applied(p, status) \in Payment
  BY <1>1, AppliedRevises, AppliedIsLegal DEF Suits, Revises
<1> QED  BY <1>1, <1>2, RewordedSuits

LEMMA CalledSuits ==
    ASSUME NEW p \in Payment, p.notify, NEW success
    PROVE  \A q \in Reworded(Called(p, success)) : Suits("note", p, q) /\ q.id = p.id
<1>1. Called(p, success).attempts = p.attempts + 1 /\ Called(p, success).id = p.id
  BY CalledRevises DEF Revises
<1>2. Suits("note", p, Called(p, success)) /\ Called(p, success) \in Payment
  BY <1>1, CalledRevises, CalledIsLegal DEF Suits, Revises
<1> QED  BY <1>1, <1>2, RewordedSuits

\* A request that moves on with a copy that suits, or with none.
LEMMA MovesFit ==
    ASSUME OneAtATime, TypeOK, NEW w \in Workers, NEW label, NEW q, Goto(w, label, q),
           label # "idle" => Suits(label, records'[q.id], q)
    PROVE  \A v \in Workers : Fits(v)'
<1>1. pc'[w] = label /\ draft'[w] = q
  BY DEF Goto, TypeOK
<1>2. pc'[w] # "idle" => Suits(pc'[w], records'[draft'[w].id], draft'[w])
  BY <1>1
<1>3. Fits(w)'
  BY <1>2 DEF Fits, Suits, Ledger!LegalChange, Ledger!SameOrder, Ledger!Reported,
              Ledger!Moved, Ledger!indexKey
<1> QED  BY <1>3 DEF OneAtATime

LEMMA IdleFits ==
    ASSUME \A v \in Workers : pc'[v] = "idle"
    PROVE  \A v \in Workers : Fits(v)'
  BY DEF Fits

LEMMA CreateFits ==
    ASSUME OneAtATime, SInv, NEW w \in Workers, CreatePayment(w)
    PROVE  \A v \in Workers : Fits(v)'
<1>1. PICK id \in Ids, key \in Keys, notify \in Notifies, big \in Sizes :
        \/ /\ Create(NewPayment(id, key, notify, big), "ok")
           /\ \E ok \in ProviderAnswers :
                 \E q \in Reworded(Answered(NewPayment(id, key, notify, big), ok)) :
                    Goto(w, "update", q)
        \/ UNCHANGED workerVars
  BY DEF CreatePayment
<1> DEFINE p == NewPayment(id, key, notify, big)
<1>2. p \in Payment /\ p.id \in Ids /\ p.callback = "none"
  BY ServiceAssumption, SizesAssumption, NewPaymentType, KeyType DEF NewPayment
<1> HIDE DEF p
<1>3. CASE /\ Create(p, "ok")
           /\ \E ok \in ProviderAnswers :
                 \E q \in Reworded(Answered(p, ok)) : Goto(w, "update", q)
  <2>0. PICK ok \in ProviderAnswers : \E q \in Reworded(Answered(p, ok)) :
                                        Goto(w, "update", q)
    BY <1>3
  <2>1. PICK q \in Reworded(Answered(p, ok)) : Create(p, "ok") /\ Goto(w, "update", q)
    BY <1>3, <2>0
  <2>2. records'[p.id] = p
    BY <1>2, <2>1 DEF Create, AppendAndRemember, SInv, IInv, StoreInv, StoreTypeOK
  <2>3. Suits("update", p, q) /\ q.id = p.id
    BY <1>2, ServiceAssumption, AnsweredSuits
  <2> QED  BY <2>1, <2>2, <2>3, MovesFit DEF SInv, IInv, Typed
<1>4. CASE UNCHANGED workerVars
  <2>1. \A v \in Workers : pc'[v] = "idle"
    BY <1>4 DEF CreatePayment, Accept, CanAccept, workerVars, OneAtATime
  <2> QED  BY <2>1, IdleFits
<1> QED  BY <1>1, <1>3, <1>4 DEF p

LEMMA RequestFits ==
    ASSUME OneAtATime, SInv, NEW w \in Workers, Request(w)
    PROVE  \A v \in Workers : Fits(v)'
<1>0. TypeOK /\ StoreTypeOK
  BY DEF SInv, IInv, Typed, StoreInv
<1>1. CASE CreatePayment(w)
  BY <1>1, CreateFits
<1>2. CASE ClosePayment(w)
  <2>1. PICK id \in Ids : /\ records[id] # NULL /\ Closable(records[id])
                          /\ Goto(w, "update", Closed(records[id]))
                          /\ records' = records
    BY <1>2 DEF ClosePayment, storeVars
  <2>2. records[id] \in Payment /\ records[id].id = id
    BY <2>1, RecordCounted DEF SInv
  <2>3. Suits("update", records[id], Closed(records[id])) /\ Closed(records[id]).id = id
    BY <2>1, <2>2, ClosedSuits
  <2> QED  BY <1>0, <2>1, <2>3, MovesFit
<1>3. CASE Webhook(w)
  <2>1. PICK k \in Keys, status \in WebhookStatuses :
          /\ FindByOutTradeNo(k) # NULL
          /\ \E p \in Reworded(Applied(FindByOutTradeNo(k), status)) : Goto(w, "apply", p)
          /\ records' = records
    BY <1>3 DEF Webhook, storeVars
  <2>2. PICK id \in Ids : FindByOutTradeNo(k) = records[id]
    BY <1>0, <2>1, FoundIsPayment
  <2>3. records[id] \in Payment /\ records[id].id = id /\ status \in PaymentStatus
    BY <2>1, <2>2, RecordCounted, ServiceAssumption DEF SInv
  <2>4. \A p \in Reworded(Applied(records[id], status)) :
            Suits("apply", records[id], p) /\ p.id = id
    BY <2>3, AppliedSuits
  <2> QED  BY <1>0, <2>1, <2>2, <2>4, MovesFit
<1>4. CASE MarkLost(w)
  <2>1. PICK id \in Ids : /\ records[id] # NULL
                          /\ \E p \in Reworded(Lost(records[id])) : Goto(w, "update", p)
                          /\ records' = records
    BY <1>4 DEF MarkLost, storeVars
  <2>2. records[id] \in Payment /\ records[id].id = id
    BY <2>1, RecordCounted DEF SInv
  <2>3. \A p \in Reworded(Lost(records[id])) : Suits("update", records[id], p) /\ p.id = id
    BY <2>2, LostSuits
  <2> QED  BY <1>0, <2>1, <2>3, MovesFit
<1>5. CASE RetryCallback(w)
  <2>1. PICK id \in Ids : /\ records[id] # NULL /\ records[id].notify
                          /\ Goto(w, "post", records[id])
                          /\ records' = records
    BY <1>5 DEF RetryCallback, storeVars
  <2>2. records[id].id = id
    BY <2>1, RecordCounted DEF SInv
  <2>3. Suits("post", records[id], records[id])
    BY <2>1 DEF Suits
  <2> QED  BY <1>0, <2>1, <2>2, <2>3, MovesFit
<1> QED  BY <1>1, <1>2, <1>3, <1>4, <1>5 DEF Request

\* The payment that was just stored is the one to post.
LEMMA WriteFits ==
    ASSUME OneAtATime, SInv, NEW w \in Workers, pc[w] # "idle",
           NEW next \in {"post", "idle"}, next = "post" => draft[w].notify,
           NEW o, WriteDraft(w, next, o)
    PROVE  \A v \in Workers : Fits(v)'
<1>1. TypeOK /\ draft[w].id \in Ids
  BY StoredDraft DEF SInv, IInv, Typed
<1>2. CASE o = "ok" /\ next = "post"
  <2>1. Goto(w, "post", draft[w]) /\ AppendAndRemember(draft[w], "ok")
    BY <1>2 DEF WriteDraft, Update
  <2>2. records'[draft[w].id] = draft[w]
    BY <1>1, <2>1 DEF AppendAndRemember, TypeOK, StoreTypeOK
  <2>3. Suits("post", draft[w], draft[w])
    BY <1>2 DEF Suits
  <2> QED  BY <1>1, <2>1, <2>2, <2>3, MovesFit
<1>3. CASE ~ (o = "ok" /\ next = "post")
  <2>1. Goto(w, "idle", NULL)
    BY <1>3 DEF WriteDraft
  <2> QED  BY <1>1, <2>1, MovesFit
<1> QED  BY <1>2, <1>3

LEMMA ContinueFits ==
    ASSUME OneAtATime, SInv, NEW w \in Workers, Continue(w)
    PROVE  \A v \in Workers : Fits(v)'
<1>1. CASE WriteUpdate(w)
  BY <1>1, WriteFits DEF WriteUpdate
<1>2. CASE WriteApplied(w)
  <2>1. PICK o \in Outcomes : WriteDraft(w, IF draft[w].notify THEN "post" ELSE "idle", o)
    BY <1>2 DEF WriteApplied
  <2>2. pc[w] # "idle"
    BY <1>2 DEF WriteApplied
  <2> QED  BY <2>1, <2>2, WriteFits
<1>3. CASE PostCallback(w)
  <2>1. /\ pc[w] = "post" /\ pc'[w] \in {"delivered", "refused"}
        /\ draft' = draft /\ records' = records
    BY <1>3 DEF PostCallback, storeVars, SInv, IInv, Typed, TypeOK
  <2>2. Fits(w)'
    BY <2>1 DEF SInv, Fits, Suits
  <2> QED  BY <2>2 DEF OneAtATime
<1>4. CASE RecordRead(w)
  <2> DEFINE r == records[draft[w].id]
  <2>1. /\ pc[w] \in {"delivered", "refused"} /\ records' = records
        /\ \E q \in Reworded(Called(r, pc[w] = "delivered")) : Goto(w, "note", q)
    BY <1>4 DEF RecordRead, storeVars
  <2>2. r \in Payment /\ r.id = draft[w].id /\ r.notify /\ TypeOK
    BY <2>1, StoredDraft DEF SInv, Fits, Suits, IInv, Typed
  <2> HIDE DEF r
  <2>3. \A q \in Reworded(Called(r, pc[w] = "delivered")) : Suits("note", r, q) /\ q.id = r.id
    BY <2>2, CalledSuits
  <2>4. records'[r.id] = r
    BY <2>1, <2>2 DEF r
  <2> QED  BY <2>1, <2>2, <2>3, <2>4, MovesFit
<1>5. CASE RecordWrite(w)
  BY <1>5, WriteFits DEF RecordWrite
<1> QED  BY <1>1, <1>2, <1>3, <1>4, <1>5 DEF Continue

LEMMA FitsStep ==
    ASSUME OneAtATime, SInv, [Next]_vars
    PROVE  \A v \in Workers : Fits(v)'
<1>1. CASE CrashBetweenWrites \/ \E w \in Workers : CrashIn(w)
  BY <1>1, IdleFits DEF CrashBetweenWrites, CrashIn, CrashInCreate, CrashInUpdate, LoseWorkers
<1>2. CASE StartAgain
  <2>1. \A v \in Workers : pc'[v] = "idle"
    BY <1>2 DEF StartAgain, Restart, workerVars, SInv, IInv, DraftOK
  <2> QED  BY <2>1, IdleFits
<1>3. CASE UNCHANGED vars
  <2>1. UNCHANGED <<pc, draft, records>>
    BY <1>3 DEF vars, storeVars, workerVars
  <2> QED  BY <2>1 DEF SInv, Fits, Suits, Ledger!LegalChange, Ledger!SameOrder,
                       Ledger!Reported, Ledger!Moved, Ledger!indexKey
<1> QED  BY <1>1, <1>2, <1>3, RequestFits, ContinueFits DEF Next

LEMMA SerialInit == Init => Exact /\ (\A w \in Workers : Fits(w)) /\ Ledger!Init
<1> SUFFICES ASSUME Init PROVE Exact /\ (\A w \in Workers : Fits(w)) /\ Ledger!Init
  OBVIOUS
<1>1. DOMAIN lines = {} /\ \A w \in Workers : pc[w] = "idle"
  BY DEF Init, StoreInit
<1>2. \A id \in Ids : Replayed(id) = NULL /\ VersionsOf(id) = {}
  BY <1>1 DEF Replayed, VersionsOf, LinesOf, GoodLines
<1>3. Exact
  BY <1>2 DEF Exact, Init
<1>4. LastVersion = [id \in Ids |-> NULL] /\ AllVersions = [id \in Ids |-> {}]
  BY <1>2 DEF LastVersion, AllVersions
<1> QED  BY <1>1, <1>3, <1>4 DEF Fits, Ledger!Init

LEMMA SerialInvariant ==
    ASSUME CleanAppends, OneAtATime
    PROVE  Spec => []SInv
<1>1. SInv /\ IInv' /\ [Next]_vars => SInv'
  BY ExactStep, FitsStep DEF SInv
<1>2. Init => Exact /\ \A w \in Workers : Fits(w)
  BY SerialInit
<1>3. IInv /\ Exact /\ (\A w \in Workers : Fits(w)) => SInv
  BY DEF SInv
<1> QED  BY <1>1, <1>2, <1>3, ServiceInvariant, PTL DEF Spec

\* When requests do not overlap, no outcome of a callback is ever lost.
THEOREM SerialCallbacksCounted ==
    ASSUME CleanAppends, OneAtATime
    PROVE  Spec => []EveryCallbackCounted
<1>1. SInv => EveryCallbackCounted
  <2> SUFFICES ASSUME SInv, proc = "up", NEW id \in Ids, records[id] # NULL
               PROVE  records[id].attempts = recorded[id]
    BY DEF EveryCallbackCounted
  <2>1. records[id] = Replayed(id)
    BY DEF SInv, IInv, StoreInv, MemoryIsReplay
  <2> QED  BY <2>1 DEF SInv, Exact
<1> QED  BY <1>1, SerialInvariant, PTL

\* When requests do not overlap, what is posted is the payment as it is stored.
THEOREM SerialBodyIsLatest ==
    ASSUME CleanAppends, OneAtATime
    PROVE  Spec => []BodyIsLatest
<1>1. SInv => BodyIsLatest
  BY DEF SInv, Fits, Suits, BodyIsLatest
<1> QED  BY <1>1, SerialInvariant, PTL

\* When requests do not overlap, each version of a payment follows from the one
\* just before it: no update is lost, whenever the process ends.
THEOREM SerialImplementsStrictLedger ==
    ASSUME CleanAppends, OneAtATime
    PROVE  Spec => StrictLedgerSpec
<1>1. Init => Ledger!Init
  BY SerialInit
<1>2. SInv /\ SInv' /\ [Next]_vars => [Ledger!StrictNext]_(Ledger!ledgerVars)
  <2>1. SInv' => FileIsWhole'
    BY DEF SInv, IInv, StoreInv
  <2> QED  BY <2>1, StrictFile DEF StrictStep
<1> QED  BY <1>1, <1>2, SerialInvariant, PTL DEF Spec, StrictLedgerSpec, Ledger!StrictSpec

\* A stored payment changes only to the copy that a request held of it.
LEMMA ChangedByDraft ==
    ASSUME CleanAppends, SInv, SInv', [Next]_vars,
           NEW id \in Ids, records[id] # NULL, records'[id] # NULL
    PROVE  \/ records'[id] = records[id]
           \/ \E w \in Workers : /\ pc[w] \in {"update", "apply", "note"}
                                 /\ draft[w].id = id /\ records'[id] = draft[w]
<1>1. StoreTypeOK /\ records[id] = Replayed(id)
  <2>1. proc = "up"
    BY RecordCounted DEF SInv
  <2> QED  BY <2>1 DEF SInv, IInv, StoreInv, MemoryIsReplay
<1>2. records'[id] = Replayed(id)'
  BY DEF SInv, IInv, StoreInv, MemoryIsReplay, Forgotten, NoRecords
<1>3. CASE Rests
  <2>1. Replayed(id)' = Replayed(id)
    BY <1>3 DEF Rests, Replayed, LinesOf, GoodLines
  <2> QED  BY <1>1, <1>2, <2>1
<1>4. ASSUME NEW w \in Workers, Stores(w)
      PROVE  \/ records'[id] = records[id]
             \/ draft[w].id = id /\ records'[id] = draft[w]
  <2>1. draft[w] \in Payment
    BY <1>4, StoredDraft DEF Stores, SInv
  <2>2. Replayed(id)' = IF id = draft[w].id THEN draft[w] ELSE Replayed(id)
    BY <1>1, <1>4, <2>1, ReplayAfterAppend DEF Stores
  <2> QED  BY <1>1, <1>2, <2>2
<1>5. ASSUME NEW d \in Ids, NEW key \in Keys, NEW notify \in BOOLEAN, NEW big \in BOOLEAN,
             Opens(d, key, notify, big)
      PROVE  records'[id] = records[id]
  <2> DEFINE p == NewPayment(d, key, notify, big)
  <2>1. p \in Payment /\ p.id = d
    BY NewPaymentType DEF NewPayment
  <2>2. lines' = Append(lines, p) /\ LinesOf(d) = {}
    BY <1>5 DEF Opens, Fresh
  <2> HIDE DEF p
  <2>3. Replayed(id)' = IF id = d THEN p ELSE Replayed(id)
    BY <1>1, <2>1, <2>2, ReplayAfterAppend
  <2>4. id # d
    BY <1>1, <2>2 DEF Replayed
  <2> QED  BY <1>1, <1>2, <2>3, <2>4
<1> QED  BY <1>3, <1>4, <1>5, StepAdds DEF SInv, Adds, Stores

\* When requests do not overlap, a recorded failure of a callback stays until a
\* webhook, a new attempt or an operator's decision replaces it.
THEOREM SerialFailureStays ==
    ASSUME CleanAppends, OneAtATime
    PROVE  Spec => FailureStaysRecorded
<1>1. ASSUME SInv, SInv', [Next]_vars, NEW id \in Ids,
             records[id] # NULL, records[id].callback = "failed",
             records'[id] # NULL, records'[id].callback # "failed"
      PROVE  \/ records'[id].attempts > records[id].attempts
             \/ records'[id].callback = "lost"
             \/ \E w \in Workers : pc[w] = "apply" /\ draft[w].id = id
  <2>1. PICK w \in Workers : /\ pc[w] \in {"update", "apply", "note"}
                             /\ draft[w].id = id /\ records'[id] = draft[w]
    BY <1>1, ChangedByDraft
  <2>2. Suits(pc[w], records[id], draft[w]) /\ records[id] \in Payment
    BY <1>1, <2>1, StoredDraft DEF SInv, Fits
  <2>3. CASE pc[w] = "update"
    BY <1>1, <2>1, <2>2, <2>3 DEF Suits
  <2>4. CASE pc[w] = "note"
    <3>1. draft[w].attempts = records[id].attempts + 1 /\ records[id].attempts \in Nat
      BY <2>2, <2>4 DEF Suits, Payment
    <3> QED  BY <2>1, <3>1
  <2> QED  BY <2>1, <2>3, <2>4
<1>2. SInv /\ SInv' /\ [Next]_vars =>
        [\A id \in Ids :
          (/\ records[id] # NULL
           /\ records[id].callback = "failed"
           /\ records'[id] # NULL
           /\ records'[id].callback # "failed")
          => \/ records'[id].attempts > records[id].attempts
             \/ records'[id].callback = "lost"
             \/ \E w \in Workers : pc[w] = "apply" /\ draft[w].id = id]_vars
  BY <1>1
<1> QED  BY <1>2, SerialInvariant, PTL DEF Spec, FailureStaysRecorded

\* When requests do not overlap, Close takes no paid payment away.
THEOREM SerialPaidStays ==
    ASSUME CleanAppends, OneAtATime
    PROVE  Spec => PaidIsNotClosed
<1>1. ASSUME SInv, SInv', [Next]_vars, NEW id \in Ids,
             records[id] # NULL, records[id].status = "paid",
             records'[id] # NULL, records'[id].status = "closed"
      PROVE  \E w \in Workers : pc[w] = "apply" /\ draft[w].id = id
  <2>1. PICK w \in Workers : /\ pc[w] \in {"update", "apply", "note"}
                             /\ draft[w].id = id /\ records'[id] = draft[w]
    BY <1>1, ChangedByDraft
  <2>2. Suits(pc[w], records[id], draft[w]) /\ records[id] \in Payment
    BY <1>1, <2>1, StoredDraft DEF SInv, Fits
  <2>3. pc[w] # "update"
    BY <1>1, <2>1, <2>2 DEF Suits
  <2>4. pc[w] # "note"
    <3> SUFFICES ASSUME pc[w] = "note" PROVE FALSE
      OBVIOUS
    <3>1. draft[w].attempts = records[id].attempts + 1 /\ records[id].attempts \in Nat
      BY <2>2 DEF Suits, Payment
    <3>2. Ledger!Reported(records[id], draft[w])
      BY <2>2, <3>1 DEF Suits, Ledger!LegalChange, Ledger!Moved
    <3> QED  BY <1>1, <2>1, <3>2 DEF Ledger!Reported
  <2> QED  BY <2>1, <2>3, <2>4
<1>2. SInv /\ SInv' /\ [Next]_vars =>
        [\A id \in Ids :
          (/\ records[id] # NULL
           /\ records[id].status = "paid"
           /\ records'[id] # NULL
           /\ records'[id].status = "closed")
          => \E w \in Workers : pc[w] = "apply" /\ draft[w].id = id]_vars
  BY <1>1
<1> QED  BY <1>2, SerialInvariant, PTL DEF Spec, PaidIsNotClosed
=============================================================================
