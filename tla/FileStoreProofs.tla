--------------------------- MODULE FileStoreProofs ---------------------------
(***************************************************************************)
(* What FileStore promises, for any number of ids, keys and lines: what a  *)
(* new process replays, that acknowledged writes last, that it starts, and *)
(* that its two maps agree.                                                *)
(***************************************************************************)
EXTENDS FileStore, SequenceTheorems, WellFoundedInduction, TLAPS

\* A set of naturals that is not empty has a least element.
LEMMA LeastNatural ==
    ASSUME NEW S \in SUBSET Nat, S # {}
    PROVE  \E n \in S : \A m \in S : n <= m
<1>1. \A x, y \in Nat : <<y, x>> \in OpToRel(<, Nat) <=> y < x
  BY DEF OpToRel
<1>2. \E R : IsWellFoundedOn(R, Nat) /\ \A x, y \in Nat : <<y, x>> \in R <=> y < x
  BY <1>1, NatLessThanWellFounded, Zenon
<1>3. PICK R : IsWellFoundedOn(R, Nat) /\ \A x, y \in Nat : <<y, x>> \in R <=> y < x
  BY <1>2
<1>4. PICK x \in S : \A y \in S : ~ (<<y, x>> \in R)
  BY <1>3, WFMin
<1>5. \A y \in S : ~ (y < x)
  BY <1>3, <1>4
<1> QED  BY <1>5

\* A non-empty set of positions in a file has a last one, and Max returns it.
LEMMA MaxOfPositions ==
    ASSUME NEW n \in Nat, NEW S \in SUBSET (1..n), S # {}
    PROVE  Max(S) \in S /\ \A i \in S : i <= Max(S)
<1> DEFINE T == {n - i : i \in S}
<1>1. T \subseteq Nat /\ T # {}
  <2>1. \A i \in S : n - i \in Nat
    BY \A i \in S : i \in 1..n
  <2> QED  BY <2>1
<1>2. PICK t \in T : \A u \in T : t <= u
  BY <1>1, LeastNatural
<1>3. PICK m \in S : t = n - m
  OBVIOUS
<1>4. \A i \in S : m >= i
  <2> TAKE i \in S
  <2>1. n - i \in T /\ n - i \in Nat /\ t \in Nat
    OBVIOUS
  <2>2. t <= n - i
    BY <1>2, <2>1
  <2> QED  BY <1>3, <2>2
<1> QED  BY <1>4 DEF Max

\* A line that is read back becomes a payment under its own id.
LEMMA ReplayedIsPayment ==
    ASSUME StoreTypeOK, NEW id \in Ids, Replayed(id) # NULL
    PROVE  Replayed(id) \in Payment /\ Replayed(id).id = id
<1>1. LinesOf(id) # {} /\ Replayed(id) = lines[Max(LinesOf(id))]
  BY DEF Replayed
<1>2. LinesOf(id) \subseteq 1..Len(lines) /\ Len(lines) \in Nat
  BY DEF LinesOf, GoodLines, StoreTypeOK
<1>3. Max(LinesOf(id)) \in LinesOf(id)
  BY <1>1, <1>2, MaxOfPositions
<1> QED  BY <1>1, <1>3 DEF LinesOf, GoodLines, StoreTypeOK

\* The index read back maps keys to ids.
LEMMA ReplayedIndexIsId ==
    ASSUME StoreTypeOK, NEW k \in Keys, ReplayedIndex(k) # NULL
    PROVE  ReplayedIndex(k) \in Ids
<1>1. LinesFor(k) # {} /\ ReplayedIndex(k) = lines[Max(LinesFor(k))].id
  BY DEF ReplayedIndex
<1>2. LinesFor(k) \subseteq 1..Len(lines) /\ Len(lines) \in Nat
  BY DEF LinesFor, GoodLines, StoreTypeOK
<1>3. Max(LinesFor(k)) \in LinesFor(k)
  BY <1>1, <1>2, MaxOfPositions
<1> QED  BY <1>1, <1>3 DEF LinesFor, GoodLines, StoreTypeOK, Payment

\* What append leaves in the file is a file.
LEMMA AppendType ==
    ASSUME StoreTypeOK, NEW p \in Payment, NEW o, append(p, o)
    PROVE  /\ lines' \in Seq(Payment \cup {GARBAGE})
           /\ openTail' \in BOOLEAN
<1> DEFINE kept == IF openTail THEN SubSeq(lines, 1, Len(lines) - 1) ELSE lines
           line == IF openTail \/ o = "cut" THEN GARBAGE ELSE p
<1>1. lines \in Seq(Payment \cup {GARBAGE}) /\ openTail \in BOOLEAN
  BY DEF StoreTypeOK
<1>2. kept \in Seq(Payment \cup {GARBAGE})
  <2>1. \A i \in 1..(Len(lines) - 1) : lines[i] \in Payment \cup {GARBAGE}
    BY <1>1
  <2> QED  BY <1>1, <2>1, SubSeqProperties
<1>3. line \in Payment \cup {GARBAGE}
  OBVIOUS
<1>4. CASE o = "none"
  BY <1>1, <1>4 DEF append
<1>5. CASE o # "none"
  BY <1>2, <1>3, <1>5 DEF append
<1> QED  BY <1>4, <1>5

\* A payment appended to the file is what a new process finds under its id and
\* its key; what it finds under the others stays the same.
LEMMA ReplayAfterAppend ==
    ASSUME StoreTypeOK, NEW p \in Payment, lines' = Append(lines, p)
    PROVE  /\ \A id \in Ids :
                 Replayed(id)' = IF id = p.id THEN p ELSE Replayed(id)
           /\ \A k \in Keys :
                 ReplayedIndex(k)' = IF k = indexKey(p) THEN p.id ELSE ReplayedIndex(k)
<1> DEFINE n == Len(lines)
<1>1. /\ n \in Nat
      /\ DOMAIN lines = 1..n /\ DOMAIN lines' = 1..(n+1)
      /\ \A i \in 1..n : lines'[i] = lines[i]
      /\ lines'[n+1] = p
  BY DEF StoreTypeOK
<1>2. p # GARBAGE
  BY GarbageAssumption
<1>3. \A S \in SUBSET (1..n) : Max(S \cup {n+1}) = n+1
  <2> TAKE S \in SUBSET (1..n)
  <2>1. S \cup {n+1} \subseteq 1..(n+1) /\ n+1 \in Nat
    <3>1. \A i \in S : i \in 1..n
      OBVIOUS
    <3>2. \A i \in S \cup {n+1} : i \in 1..(n+1)
      BY <1>1, <3>1
    <3>3. S \cup {n+1} \subseteq 1..(n+1)
      BY <3>2, Zenon
    <3>4. n+1 \in Nat
      BY <1>1
    <3> QED  BY <3>3, <3>4
  <2>2. /\ Max(S \cup {n+1}) \in S \cup {n+1}
        /\ n+1 <= Max(S \cup {n+1})
    BY <2>1, MaxOfPositions
  <2> QED  BY <1>1, <2>2
<1>4. \A S \in SUBSET (1..n) : S # {} => Max(S) \in 1..n
  BY <1>1, MaxOfPositions
<1>5. ASSUME NEW id \in Ids
      PROVE  Replayed(id)' = IF id = p.id THEN p ELSE Replayed(id)
  <2>1. LinesOf(id) \in SUBSET (1..n)
    BY <1>1 DEF LinesOf, GoodLines
  <2>2. CASE id = p.id
    <3>1. LinesOf(id)' = LinesOf(id) \cup {n+1}
      BY <1>1, <1>2, <2>2 DEF LinesOf, GoodLines
    <3> QED  BY <1>1, <1>3, <2>1, <2>2, <3>1 DEF Replayed
  <2>3. CASE id # p.id
    <3>1. LinesOf(id)' = LinesOf(id)
      BY <1>1, <2>3 DEF LinesOf, GoodLines
    <3> QED  BY <1>1, <1>4, <2>1, <2>3, <3>1 DEF Replayed
  <2> QED  BY <2>2, <2>3
<1>6. ASSUME NEW k \in Keys
      PROVE  ReplayedIndex(k)' = IF k = indexKey(p) THEN p.id ELSE ReplayedIndex(k)
  <2>1. LinesFor(k) \in SUBSET (1..n)
    BY <1>1 DEF LinesFor, GoodLines
  <2>2. CASE k = indexKey(p)
    <3>1. LinesFor(k)' = LinesFor(k) \cup {n+1}
      BY <1>1, <1>2, <2>2 DEF LinesFor, GoodLines, indexKey
    <3> QED  BY <1>1, <1>3, <2>1, <2>2, <3>1 DEF ReplayedIndex
  <2>3. CASE k # indexKey(p)
    <3>1. LinesFor(k)' = LinesFor(k)
      BY <1>1, <2>3 DEF LinesFor, GoodLines, indexKey
    <3> QED  BY <1>1, <1>4, <2>1, <2>3, <3>1 DEF ReplayedIndex
  <2> QED  BY <2>2, <2>3
<1> QED  BY <1>5, <1>6

-----------------------------------------------------------------------------
(* Types. *)

LEMMA NewPaymentType ==
    ASSUME NEW id \in Ids, NEW key \in Keys, NEW notify \in BOOLEAN, NEW big \in BOOLEAN
    PROVE  /\ NewPayment(id, key, notify, big) \in Payment
           /\ NewPayment(id, key, notify, big).id = id
           /\ indexKey(NewPayment(id, key, notify, big)) = key
  BY DEF NewPayment, Payment, Keys, indexKey, PaymentStatus, CallbackStatus

LEMMA KeyType ==
    ASSUME NEW p \in Payment
    PROVE  p.id \in Ids /\ indexKey(p) \in Keys
  BY DEF Payment, Keys, indexKey

LEMMA RememberType ==
    ASSUME StoreTypeOK, NEW p \in Payment, NEW o, AppendAndRemember(p, o)
    PROVE  StoreTypeOK'
<1>1. append(p, o) /\ UNCHANGED proc
  BY DEF AppendAndRemember
<1>2. lines' \in Seq(Payment \cup {GARBAGE}) /\ openTail' \in BOOLEAN
  BY <1>1, AppendType
<1>3. Len(lines') \in Nat
  BY <1>2
<1>4. CASE o = "ok"
  BY <1>1, <1>2, <1>3, <1>4, KeyType DEF AppendAndRemember, StoreTypeOK
<1>5. CASE o # "ok"
  BY <1>1, <1>2, <1>5 DEF AppendAndRemember, StoreTypeOK
<1> QED  BY <1>4, <1>5

LEMMA ForgetType ==
    ASSUME StoreTypeOK, Forget
    PROVE  /\ records' \in [Ids -> Payment \cup {NULL}]
           /\ outIndex' \in [Keys -> Ids \cup {NULL}]
           /\ proc' \in {"up", "closed", "down", "failed"}
           /\ acked' \in [Ids -> Nat]
  BY DEF Forget, StoreTypeOK, NoRecords, NoIndex

LEMMA CrashType ==
    ASSUME StoreTypeOK, Crash
    PROVE  StoreTypeOK'
<1>1. Forget /\ UNCHANGED <<lines, openTail>>
  BY DEF Crash
<1> QED  BY <1>1, ForgetType DEF StoreTypeOK

LEMMA CrashInAppendType ==
    ASSUME StoreTypeOK, NEW p \in Payment, NEW form, CrashInAppend(p, form)
    PROVE  StoreTypeOK'
<1>1. append(p, form) /\ Forget
  BY DEF CrashInAppend
<1> QED  BY <1>1, AppendType, ForgetType DEF StoreTypeOK

\* What the maps hold of the positions of an id or of a key.
LastOf(S) == IF S = {} THEN NULL ELSE lines[Max(S)]
LastIdOf(S) == IF S = {} THEN NULL ELSE lines[Max(S)].id

UpTo(S, n) == {i \in S : i <= n}

\* The maps after the first n lines.
MapsAfter(n) ==
    [ recs  |-> [id \in Ids |-> LastOf(UpTo(LinesOf(id), n))],
      index |-> [k \in Keys |-> LastIdOf(UpTo(LinesFor(k), n))] ]

\* A position comes after all those before it.
LEMMA NextPosition ==
    ASSUME NEW N \in Nat, NEW S \in SUBSET (1..N), NEW n \in 1..N
    PROVE  /\ n \in S => UpTo(S, n) # {} /\ Max(UpTo(S, n)) = n
           /\ n \notin S => UpTo(S, n) = UpTo(S, n - 1)
<1>0. \A i \in S : i \in 1..N /\ i \in Int
  OBVIOUS
<1>1. ASSUME n \in S
      PROVE  UpTo(S, n) # {} /\ Max(UpTo(S, n)) = n
  <2>1. n \in UpTo(S, n) /\ UpTo(S, n) \subseteq 1..N
    <3>1. n <= n /\ UpTo(S, n) \subseteq S
      BY DEF UpTo
    <3> QED  BY <3>1, <1>0, <1>1 DEF UpTo
  <2>2. Max(UpTo(S, n)) \in UpTo(S, n) /\ n <= Max(UpTo(S, n))
    BY <2>1, MaxOfPositions
  <2>3. Max(UpTo(S, n)) <= n /\ Max(UpTo(S, n)) \in Int
    BY <1>0, <2>2 DEF UpTo
  <2> QED  BY <2>1, <2>2, <2>3
<1>2. ASSUME n \notin S
      PROVE  UpTo(S, n) = UpTo(S, n - 1)
  <2>1. \A i \in S : i <= n <=> i <= n - 1
    BY <1>0, <1>2
  <2> QED  BY <2>1 DEF UpTo
<1> QED  BY <1>1, <1>2

LEMMA OneMoreLine ==
    ASSUME StoreTypeOK, Readable, NEW n \in DOMAIN lines
    PROVE  MapsAfter(n) =
              [ recs  |-> [MapsAfter(n - 1).recs EXCEPT ![lines[n].id] = lines[n]],
                index |-> [MapsAfter(n - 1).index EXCEPT
                              ![indexKey(lines[n])] = lines[n].id] ]
<1>1. lines[n] \in Payment /\ lines[n].id \in Ids /\ indexKey(lines[n]) \in Keys
  <2>1. lines[n] \in Payment
    BY DEF StoreTypeOK, Readable
  <2> QED  BY <2>1, KeyType DEF Payment
<1>2. Len(lines) \in Nat /\ n \in 1..Len(lines)
  BY DEF StoreTypeOK
<1>3. ASSUME NEW id \in Ids
      PROVE  LastOf(UpTo(LinesOf(id), n)) =
                IF id = lines[n].id THEN lines[n] ELSE LastOf(UpTo(LinesOf(id), n - 1))
  <2>1. LinesOf(id) \subseteq 1..Len(lines) /\ (n \in LinesOf(id) <=> lines[n].id = id)
    BY <1>2 DEF LinesOf, GoodLines, Readable, StoreTypeOK
  <2> QED  BY <2>1, <1>2, NextPosition DEF LastOf
<1>4. ASSUME NEW k \in Keys
      PROVE  LastIdOf(UpTo(LinesFor(k), n)) =
                IF k = indexKey(lines[n]) THEN lines[n].id
                ELSE LastIdOf(UpTo(LinesFor(k), n - 1))
  <2>1. LinesFor(k) \subseteq 1..Len(lines) /\ (n \in LinesFor(k) <=> indexKey(lines[n]) = k)
    BY <1>2 DEF LinesFor, GoodLines, Readable, StoreTypeOK
  <2>2. k = indexKey(lines[n]) => LastIdOf(UpTo(LinesFor(k), n)) = lines[n].id
    BY <2>1, <1>2, NextPosition DEF LastIdOf
  <2>3. k # indexKey(lines[n]) => UpTo(LinesFor(k), n) = UpTo(LinesFor(k), n - 1)
    <3> DEFINE S == LinesFor(k)
    <3>1. S \in SUBSET (1..Len(lines)) /\ (k # indexKey(lines[n]) => n \notin S)
      BY <2>1
    <3> HIDE DEF S
    <3>2. n \notin S => UpTo(S, n) = UpTo(S, n - 1)
      BY <3>1, <1>2, NextPosition
    <3> QED  BY <3>1, <3>2 DEF S
  <2> QED  BY <2>2, <2>3
<1>5. MapsAfter(n).recs = [MapsAfter(n - 1).recs EXCEPT ![lines[n].id] = lines[n]]
  BY <1>1, <1>3 DEF MapsAfter
<1>6. MapsAfter(n).index = [MapsAfter(n - 1).index EXCEPT ![indexKey(lines[n])] = lines[n].id]
  BY <1>1, <1>4 DEF MapsAfter
<1> QED  BY <1>5, <1>6 DEF MapsAfter

\* The loop ends with the last line of each id and of each key.
LEMMA LoadEnds ==
    ASSUME StoreTypeOK, Readable
    PROVE  LoadLoop = [ recs  |-> [id \in Ids |-> Replayed(id)],
                        index |-> [k \in Keys |-> ReplayedIndex(k)] ]
<1> DEFINE N == Len(lines)
           Body(f) == [ n \in 0..N |->
              IF n = 0 THEN [recs |-> NoRecords, index |-> NoIndex]
              ELSE LET before == f[n-1]
                       p == lines[n]
                   IN  [ recs  |-> [before.recs EXCEPT ![p.id] = p],
                         index |-> [before.index EXCEPT ![indexKey(p)] = p.id] ] ]
           after == CHOOSE f : f = Body(f)
<1>1. LoadLoop = after[N]
  BY DEF LoadLoop
<1>2. N \in Nat /\ DOMAIN lines = 1..N
  BY DEF StoreTypeOK
<1>3. MapsAfter(0) = [recs |-> NoRecords, index |-> NoIndex]
  <2>1. \A id \in Ids : UpTo(LinesOf(id), 0) = {}
    BY <1>2 DEF UpTo, LinesOf, GoodLines
  <2>2. \A k \in Keys : UpTo(LinesFor(k), 0) = {}
    BY <1>2 DEF UpTo, LinesFor, GoodLines
  <2> QED  BY <2>1, <2>2 DEF MapsAfter, LastOf, LastIdOf, NoRecords, NoIndex
<1>4. after = Body(after)
  <2> DEFINE f == [n \in 0..N |-> MapsAfter(n)]
  <2>1. \A n \in 0..N : n # 0 => n \in DOMAIN lines /\ n - 1 \in 0..N
    BY <1>2
  <2>2. f = Body(f)
    BY <2>1, <1>3, OneMoreLine
  <2> HIDE DEF f, Body
  <2> QED  BY <2>2
<1> HIDE DEF after
<1>5. after[0] = MapsAfter(0)
  BY <1>2, <1>3, <1>4
<1>6. ASSUME NEW n \in 1..N, after[n - 1] = MapsAfter(n - 1)
      PROVE  after[n] = MapsAfter(n)
  <2>1. n \in DOMAIN lines /\ n \in 0..N /\ n # 0
    BY <1>2
  <2>2. after[n] = [ recs  |-> [after[n-1].recs EXCEPT ![lines[n].id] = lines[n]],
                     index |-> [after[n-1].index EXCEPT ![indexKey(lines[n])] = lines[n].id] ]
    BY <2>1, <1>4
  <2> QED  BY <2>1, <2>2, <1>6, OneMoreLine
<1>7. after[N] = MapsAfter(N)
  <2> DEFINE Wrong == {n \in 0..N : after[n] # MapsAfter(n)}
  <2>1. SUFFICES ASSUME Wrong # {} PROVE FALSE
    BY <1>2
  <2>2. PICK n \in Wrong : \A m \in Wrong : n <= m
    <3>1. Wrong \in SUBSET Nat
      BY <1>2
    <3> HIDE DEF Wrong
    <3> QED  BY <2>1, <3>1, LeastNatural
  <2>3. n \in 1..N /\ n - 1 \in 0..N /\ n - 1 \notin Wrong
    BY <2>2, <1>2, <1>5
  <2> QED  BY <2>2, <2>3, <1>6
<1>8. MapsAfter(N) = [ recs  |-> [id \in Ids |-> Replayed(id)],
                       index |-> [k \in Keys |-> ReplayedIndex(k)] ]
  <2>1. \A id \in Ids : UpTo(LinesOf(id), N) = LinesOf(id)
    BY <1>2 DEF UpTo, LinesOf, GoodLines
  <2>2. \A k \in Keys : UpTo(LinesFor(k), N) = LinesFor(k)
    BY <1>2 DEF UpTo, LinesFor, GoodLines
  <2> QED  BY <2>1, <2>2 DEF MapsAfter, LastOf, LastIdOf, Replayed, ReplayedIndex
<1> QED  BY <1>1, <1>7, <1>8

\* A new process holds what the file says, or does not run.
LEMMA RestartReplays ==
    ASSUME StoreTypeOK, Restart
    PROVE  /\ UNCHANGED <<lines, openTail, acked>>
           /\ Readable => /\ records' = [id \in Ids |-> Replayed(id)]
                          /\ outIndex' = [k \in Keys |-> ReplayedIndex(k)]
                          /\ proc' = "up"
           /\ ~ Readable => proc' = "failed" /\ UNCHANGED <<records, outIndex>>
  BY LoadEnds DEF Restart

LEMMA RestartType ==
    ASSUME StoreTypeOK, Restart
    PROVE  StoreTypeOK'
<1>1. \A id \in Ids : Replayed(id) \in Payment \cup {NULL}
  BY ReplayedIsPayment
<1>2. \A k \in Keys : ReplayedIndex(k) \in Ids \cup {NULL}
  BY ReplayedIndexIsId
<1>3. CASE Readable
  BY <1>1, <1>2, <1>3, RestartReplays DEF StoreTypeOK
<1>4. CASE ~ Readable
  BY <1>4, RestartReplays DEF StoreTypeOK
<1> QED  BY <1>3, <1>4

\* Other texts change the length of a line at most.
LEMMA RewordedType ==
    ASSUME NEW p \in Payment, NEW q \in Reworded(p)
    PROVE  /\ q \in Payment
           /\ q.big \in Sizes \cup {p.big} /\ q.id = p.id /\ indexKey(q) = indexKey(p)
           /\ <<q.notify, q.status, q.callback, q.attempts>>
                 = <<p.notify, p.status, p.callback, p.attempts>>
  BY SizesAssumption DEF Reworded, Payment, indexKey

LEMMA StatusChangeType ==
    ASSUME NEW p \in Payment, NEW s \in StatusesWritten,
           NEW q \in Reworded([p EXCEPT !.status = s])
    PROVE  /\ q \in Payment /\ q.id = p.id /\ indexKey(q) = indexKey(p)
           /\ q.big \in Sizes \cup {p.big}
<1>1. [p EXCEPT !.status = s] \in Payment
  BY DEF Payment, PaymentStatus, StatusesWritten
<1> QED  BY <1>1, RewordedType DEF indexKey, Payment

LEMMA StoreInitType ==
    ASSUME StoreInit
    PROVE  StoreTypeOK
<1>1. lines \in Seq(Payment \cup {GARBAGE})
  BY EmptySeq DEF StoreInit
<1>2. records \in [Ids -> Payment \cup {NULL}] /\ outIndex \in [Keys -> Ids \cup {NULL}]
  BY DEF StoreInit, NoRecords, NoIndex
<1>3. /\ openTail \in BOOLEAN /\ acked \in [Ids -> Nat]
      /\ proc \in {"up", "closed", "down", "failed"}
  BY DEF StoreInit
<1> QED  BY <1>1, <1>2, <1>3 DEF StoreTypeOK

\* Whatever its callers write back and whatever an append leaves behind, the
\* store's maps hold payments and ids, and its file is a sequence of lines.
THEOREM StoreTypes == StoreSpec => []StoreTypeOK
<1>1. StoreInit => StoreTypeOK
  BY StoreInitType
<1>2. StoreTypeOK /\ [StoreNext]_storeVars => StoreTypeOK'
  <2> SUFFICES ASSUME StoreTypeOK, [StoreNext]_storeVars PROVE StoreTypeOK'
    OBVIOUS
  <2>1. CASE StoreCreate
    <3>1. PICK id \in Ids, k \in Keys, big \in Sizes, o \in Outcomes :
                 Create(NewPayment(id, k, FALSE, big), o)
      BY <2>1 DEF StoreCreate
    <3>2. NewPayment(id, k, FALSE, big) \in Payment
      BY SizesAssumption, NewPaymentType
    <3> QED  BY <3>1, <3>2, RememberType DEF Create
  <2>2. CASE StoreUpdate
    <3>1. PICK id \in Ids, s \in StatusesWritten, o \in Outcomes :
                 /\ records[id] # NULL
                 /\ \E p \in Reworded([records[id] EXCEPT !.status = s]) : Update(p, o)
      BY <2>2 DEF StoreUpdate
    <3>2. Reworded([records[id] EXCEPT !.status = s]) \subseteq Payment
      BY <3>1, StatusChangeType DEF StoreTypeOK
    <3> QED  BY <3>1, <3>2, RememberType DEF Update
  <2>3. CASE StoreCrashInCreate
    <3>1. PICK id \in Ids, k \in Keys, big \in Sizes, form \in CrashForms :
                 CrashInAppend(NewPayment(id, k, FALSE, big), form)
      BY <2>3 DEF StoreCrashInCreate
    <3>2. NewPayment(id, k, FALSE, big) \in Payment
      BY SizesAssumption, NewPaymentType
    <3> QED  BY <3>1, <3>2, CrashInAppendType
  <2>4. CASE StoreCrashInUpdate
    <3>1. PICK id \in Ids, s \in StatusesWritten, form \in CrashForms :
                 /\ records[id] # NULL
                 /\ \E p \in Reworded([records[id] EXCEPT !.status = s]) :
                       CrashInAppend(p, form)
      BY <2>4 DEF StoreCrashInUpdate
    <3>2. Reworded([records[id] EXCEPT !.status = s]) \subseteq Payment
      BY <3>1, StatusChangeType DEF StoreTypeOK
    <3> QED  BY <3>1, <3>2, CrashInAppendType
  <2>5. CASE Close
    BY <2>5 DEF Close, StoreTypeOK
  <2>6. CASE Crash
    BY <2>6, CrashType
  <2>7. CASE Restart
    BY <2>7, RestartType
  <2>8. CASE UNCHANGED storeVars
    BY <2>8 DEF storeVars, StoreTypeOK
  <2> QED  BY <2>1, <2>2, <2>3, <2>4, <2>5, <2>6, <2>7, <2>8 DEF StoreNext
<1> QED  BY <1>1, <1>2, PTL DEF StoreSpec

-----------------------------------------------------------------------------
(* Durability.  It needs appends that leave a whole line or nothing: the   *)
(* line may be unsynced and the caller may be told of an error.            *)

WholeLines ==
    /\ WriteFaults \subseteq {"none", "sync"}
    /\ CrashForms \subseteq {"sync"}

\* Without tearing the file is its lines with one more at most.
LEMMA AppendWhole ==
    ASSUME openTail = FALSE, NEW p, NEW o \in {"ok", "none", "sync"}, append(p, o)
    PROVE  /\ openTail' = FALSE
           /\ lines' = IF o = "none" THEN lines ELSE Append(lines, p)
<1>1. CASE o = "none"
  BY <1>1 DEF append
<1>2. CASE o # "none"
  <2>1. lines' = Append(lines, p) /\ openTail' = (o \in {"cut", "nonl"})
    BY <1>2 DEF append
  <2>2. (o \in {"cut", "nonl"}) = FALSE
    BY SMT
  <2> QED  BY <1>2, <2>1, <2>2
<1> QED  BY <1>1, <1>2

\* A line once written is still there after an append.
LEMMA LinesStay ==
    ASSUME StoreTypeOK, NEW p \in Payment, lines' \in {lines, Append(lines, p)},
           NEW id \in Ids, NEW i \in LinesOf(id)
    PROVE  i \in LinesOf(id)' /\ lines'[i] = lines[i]
<1>1. i \in 1..Len(lines) /\ Len(lines) \in Nat
  BY DEF LinesOf, GoodLines, StoreTypeOK
<1>2. i \in DOMAIN lines' /\ lines'[i] = lines[i]
  BY <1>1 DEF StoreTypeOK
<1> QED  BY <1>2 DEF LinesOf, GoodLines

\* A payment appended to the file is on its last line.
LEMMA LastLine ==
    ASSUME StoreTypeOK, NEW p \in Payment, lines' = Append(lines, p)
    PROVE  Len(lines') \in LinesOf(p.id)' /\ lines'[Len(lines')] = p
<1>1. Len(lines') \in DOMAIN lines' /\ lines'[Len(lines')] = p
  BY DEF StoreTypeOK
<1>2. p # GARBAGE
  BY GarbageAssumption
<1> QED  BY <1>1, <1>2 DEF LinesOf, GoodLines

\* What a new process serves is at least as late as any line of the payment.
LEMMA ReplayedIsLatest ==
    ASSUME StoreTypeOK, NEW id \in Ids, NEW a \in LinesOf(id)
    PROVE  \E i \in LinesOf(id) : i >= a /\ Replayed(id) = lines[i]
<1>1. LinesOf(id) \subseteq 1..Len(lines) /\ Len(lines) \in Nat /\ LinesOf(id) # {}
  BY DEF LinesOf, GoodLines, StoreTypeOK
<1>2. Max(LinesOf(id)) \in LinesOf(id) /\ a <= Max(LinesOf(id))
  BY <1>1, MaxOfPositions
<1>3. Max(LinesOf(id)) >= a
  BY <1>1, <1>2
<1> QED  BY <1>1, <1>2, <1>3 DEF Replayed

Durable == StoreTypeOK /\ openTail = FALSE /\ AckedDurable

LEMMA RememberDurable ==
    ASSUME Durable, proc = "up", NEW p \in Payment, NEW o \in {"ok", "none", "sync"},
           AppendAndRemember(p, o)
    PROVE  Durable'
<1>1. StoreTypeOK'
  BY RememberType DEF Durable
<1>2. openTail' = FALSE /\ lines' = IF o = "none" THEN lines ELSE Append(lines, p)
  BY AppendWhole DEF Durable, AppendAndRemember
<1>3. ASSUME NEW id \in Ids, acked'[id] # 0
      PROVE  /\ acked'[id] \in LinesOf(id)'
             /\ \E i \in LinesOf(id)' : i >= acked'[id] /\ records'[id] = lines'[i]
  <2>1. CASE o = "ok" /\ id = p.id
    <3>1. lines' = Append(lines, p) /\ acked'[id] = Len(lines') /\ records'[id] = p
      BY <1>2, <2>1 DEF AppendAndRemember, Durable, StoreTypeOK
    <3>2. Len(lines') \in LinesOf(id)' /\ lines'[Len(lines')] = p /\ Len(lines') \in Nat
      BY <1>1, <2>1, <3>1, LastLine DEF Durable, StoreTypeOK
    <3>3. Len(lines') >= acked'[id]
      BY <3>1, <3>2
    <3> QED  BY <3>1, <3>2, <3>3
  <2>2. CASE ~ (o = "ok" /\ id = p.id)
    <3>1. acked'[id] = acked[id] /\ records'[id] = records[id]
      BY <2>2 DEF AppendAndRemember, Durable, StoreTypeOK
    <3>2. PICK i \in LinesOf(id) : i >= acked[id] /\ records[id] = lines[i]
      BY <1>3, <3>1 DEF Durable, AckedDurable
    <3>3. acked[id] \in LinesOf(id)
      BY <1>3, <3>1 DEF Durable, AckedDurable
    <3>4. /\ acked[id] \in LinesOf(id)'
          /\ i \in LinesOf(id)' /\ lines'[i] = lines[i]
      BY <1>2, <3>2, <3>3, LinesStay DEF Durable
    <3> QED  BY <3>1, <3>2, <3>4
  <2> QED  BY <2>1, <2>2
<1> QED  BY <1>1, <1>2, <1>3 DEF Durable, AckedDurable

LEMMA CrashInAppendDurable ==
    ASSUME Durable, NEW p \in Payment, NEW form \in {"sync"}, CrashInAppend(p, form)
    PROVE  Durable'
<1>1. StoreTypeOK'
  BY CrashInAppendType DEF Durable
<1>2. openTail' = FALSE /\ lines' = Append(lines, p)
  BY AppendWhole DEF Durable, CrashInAppend
<1>3. proc' # "up" /\ acked' = acked
  BY DEF CrashInAppend, Forget
<1>4. ASSUME NEW id \in Ids, acked[id] # 0
      PROVE  acked[id] \in LinesOf(id)'
  BY <1>2, <1>4, LinesStay DEF Durable, AckedDurable
<1> QED  BY <1>1, <1>2, <1>3, <1>4 DEF Durable, AckedDurable

LEMMA RestartDurable ==
    ASSUME Durable, Restart
    PROVE  Durable'
<1>1. StoreTypeOK'
  BY RestartType DEF Durable
<1>2. UNCHANGED <<lines, openTail, acked>>
  BY RestartReplays DEF Durable
<1>3. \A id \in Ids : LinesOf(id)' = LinesOf(id)
  BY <1>2 DEF LinesOf, GoodLines
<1>4. CASE Readable
  <2>1. \A id \in Ids : records'[id] = Replayed(id)
    BY <1>4, RestartReplays DEF Durable
  <2>2. \A id \in Ids : acked[id] # 0 =>
           \E i \in LinesOf(id) : i >= acked[id] /\ Replayed(id) = lines[i]
    BY ReplayedIsLatest DEF Durable, AckedDurable
  <2> QED  BY <1>1, <1>2, <1>3, <2>1, <2>2 DEF Durable, AckedDurable
<1>5. CASE ~ Readable
  <2>1. proc' # "up"
    BY <1>5, RestartReplays DEF Durable
  <2> QED  BY <1>1, <1>2, <1>3, <2>1 DEF Durable, AckedDurable
<1> QED  BY <1>4, <1>5

LEMMA StopDurable ==
    ASSUME Durable, Crash \/ Close \/ UNCHANGED storeVars
    PROVE  Durable'
<1>1. /\ UNCHANGED <<lines, openTail, acked>>
      /\ proc' = "up" => proc = "up" /\ records' = records
  BY DEF Crash, Close, Forget, storeVars
<1>2. StoreTypeOK'
  BY CrashType DEF Durable, Close, storeVars, StoreTypeOK
<1>3. \A id \in Ids : LinesOf(id)' = LinesOf(id)
  BY <1>1 DEF LinesOf, GoodLines
<1> QED  BY <1>1, <1>2, <1>3 DEF Durable, AckedDurable

\* As long as no line is torn, nothing that Create or Update acknowledged is
\* lost: for any number of ids, keys and lines, through crashes, restarts and
\* appends that fail before or after their line is in the file.
THEOREM AcknowledgedIsDurable ==
    ASSUME WholeLines
    PROVE  StoreSpec => []AckedDurable
<1>1. StoreInit => Durable
  <2> SUFFICES ASSUME StoreInit PROVE Durable
    OBVIOUS
  <2>1. StoreTypeOK
    BY StoreInitType
  <2>2. openTail = FALSE /\ \A id \in Ids : acked[id] = 0
    BY DEF StoreInit
  <2> QED  BY <2>1, <2>2 DEF Durable, AckedDurable
<1>2. Durable /\ [StoreNext]_storeVars => Durable'
  <2> SUFFICES ASSUME Durable, [StoreNext]_storeVars PROVE Durable'
    OBVIOUS
  <2>1. CASE StoreCreate
    <3>1. PICK id \in Ids, k \in Keys, big \in Sizes, o \in Outcomes :
                 Create(NewPayment(id, k, FALSE, big), o)
      BY <2>1 DEF StoreCreate
    <3>2. NewPayment(id, k, FALSE, big) \in Payment
      BY SizesAssumption, NewPaymentType
    <3>3. o \in {"ok", "none", "sync"}
      BY DEF WholeLines, Outcomes
    <3> QED  BY <3>1, <3>2, <3>3, RememberDurable DEF Create, CanCreate
  <2>2. CASE StoreUpdate
    <3>1. PICK id \in Ids, s \in StatusesWritten, o \in Outcomes :
                 /\ records[id] # NULL
                 /\ \E p \in Reworded([records[id] EXCEPT !.status = s]) : Update(p, o)
      BY <2>2 DEF StoreUpdate
    <3>2. Reworded([records[id] EXCEPT !.status = s]) \subseteq Payment
      BY <3>1, StatusChangeType DEF Durable, StoreTypeOK
    <3>3. o \in {"ok", "none", "sync"}
      BY DEF WholeLines, Outcomes
    <3> QED  BY <3>1, <3>2, <3>3, RememberDurable DEF Update, CanUpdate
  <2>3. CASE StoreCrashInCreate
    <3>1. PICK id \in Ids, k \in Keys, big \in Sizes, form \in CrashForms :
                 CrashInAppend(NewPayment(id, k, FALSE, big), form)
      BY <2>3 DEF StoreCrashInCreate
    <3>2. NewPayment(id, k, FALSE, big) \in Payment
      BY SizesAssumption, NewPaymentType
    <3> QED  BY <3>1, <3>2, CrashInAppendDurable DEF WholeLines
  <2>4. CASE StoreCrashInUpdate
    <3>1. PICK id \in Ids, s \in StatusesWritten, form \in CrashForms :
                 /\ records[id] # NULL
                 /\ \E p \in Reworded([records[id] EXCEPT !.status = s]) :
                       CrashInAppend(p, form)
      BY <2>4 DEF StoreCrashInUpdate
    <3>2. Reworded([records[id] EXCEPT !.status = s]) \subseteq Payment
      BY <3>1, StatusChangeType DEF Durable, StoreTypeOK
    <3> QED  BY <3>1, <3>2, CrashInAppendDurable DEF WholeLines
  <2>5. CASE Close \/ Crash \/ UNCHANGED storeVars
    BY <2>5, StopDurable
  <2>6. CASE Restart
    BY <2>6, RestartDurable
  <2> QED  BY <2>1, <2>2, <2>3, <2>4, <2>5, <2>6 DEF StoreNext
<1>3. Durable => AckedDurable
  BY DEF Durable
<1> QED  BY <1>1, <1>2, <1>3, PTL DEF StoreSpec

-----------------------------------------------------------------------------
(* Starting again.  It needs whole lines that fit the scanner, too.        *)

SmallLines == Sizes \subseteq {FALSE}

Startable ==
    /\ StoreTypeOK
    /\ openTail = FALSE
    /\ \A i \in DOMAIN lines : lines[i] \in Payment /\ ~ lines[i].big
    /\ \A id \in Ids : records[id] # NULL => ~ records[id].big
    /\ proc # "failed"

LEMMA AppendStartable ==
    ASSUME Startable, NEW p \in Payment, ~ p.big,
           NEW o \in {"ok", "none", "sync"}, append(p, o)
    PROVE  /\ openTail' = FALSE
           /\ \A i \in DOMAIN lines' : lines'[i] \in Payment /\ ~ lines'[i].big
<1>1. openTail' = FALSE /\ lines' = IF o = "none" THEN lines ELSE Append(lines, p)
  BY AppendWhole DEF Startable
<1>2. CASE o = "none"
  BY <1>1, <1>2 DEF Startable
<1>3. CASE o # "none"
  BY <1>1, <1>3 DEF Startable, StoreTypeOK
<1> QED  BY <1>1, <1>2, <1>3

LEMMA RememberStartable ==
    ASSUME Startable, NEW p \in Payment, ~ p.big,
           NEW o \in {"ok", "none", "sync"}, AppendAndRemember(p, o)
    PROVE  Startable'
<1>1. append(p, o) /\ UNCHANGED proc
  BY DEF AppendAndRemember
<1>2. StoreTypeOK'
  BY RememberType DEF Startable
<1>3. \A id \in Ids : records'[id] # NULL => ~ records'[id].big
  BY DEF AppendAndRemember, Startable, StoreTypeOK
<1> QED  BY <1>1, <1>2, <1>3, AppendStartable DEF Startable

LEMMA CrashInAppendStartable ==
    ASSUME Startable, NEW p \in Payment, ~ p.big,
           NEW form \in {"sync"}, CrashInAppend(p, form)
    PROVE  Startable'
<1>1. append(p, form) /\ Forget
  BY DEF CrashInAppend
<1>2. StoreTypeOK'
  BY CrashInAppendType DEF Startable
<1> QED  BY <1>1, <1>2, AppendStartable DEF Startable, Forget, NoRecords

LEMMA RestartStartable ==
    ASSUME Startable, Restart
    PROVE  Startable'
<1>1. StoreTypeOK' /\ UNCHANGED <<lines, openTail>>
  BY RestartType, RestartReplays DEF Startable
<1>2. Readable
  BY GarbageAssumption DEF Readable, Startable
<1>3. \A id \in Ids : Replayed(id) # NULL => ~ Replayed(id).big
  <2> SUFFICES ASSUME NEW id \in Ids, LinesOf(id) # {}
               PROVE  ~ lines[Max(LinesOf(id))].big
    BY DEF Replayed
  <2>1. LinesOf(id) \subseteq 1..Len(lines) /\ Len(lines) \in Nat
    BY DEF LinesOf, GoodLines, Startable, StoreTypeOK
  <2>2. Max(LinesOf(id)) \in DOMAIN lines
    BY <2>1, MaxOfPositions DEF LinesOf, GoodLines
  <2> QED  BY <2>2 DEF Startable
<1> QED  BY <1>1, <1>2, <1>3, RestartReplays DEF Startable

\* As long as no line is torn and every line fits the scanner's buffer, each
\* crash can be followed by a new start.
THEOREM StartsAgain ==
    ASSUME WholeLines, SmallLines
    PROVE  StoreSpec => []RestartSucceeds
<1>1. StoreInit => Startable
  <2> SUFFICES ASSUME StoreInit PROVE Startable
    OBVIOUS
  <2>1. StoreTypeOK
    BY StoreInitType
  <2>2. DOMAIN lines = {} /\ records = NoRecords /\ openTail = FALSE /\ proc = "up"
    BY DEF StoreInit
  <2> QED  BY <2>1, <2>2 DEF Startable, NoRecords
<1>2. Startable /\ [StoreNext]_storeVars => Startable'
  <2> SUFFICES ASSUME Startable, [StoreNext]_storeVars PROVE Startable'
    OBVIOUS
  <2>1. CASE StoreCreate
    <3>1. PICK id \in Ids, k \in Keys, big \in Sizes, o \in Outcomes :
                 Create(NewPayment(id, k, FALSE, big), o)
      BY <2>1 DEF StoreCreate
    <3>2. NewPayment(id, k, FALSE, big) \in Payment /\ ~ NewPayment(id, k, FALSE, big).big
      BY SizesAssumption, NewPaymentType DEF SmallLines, NewPayment
    <3>3. o \in {"ok", "none", "sync"}
      BY DEF WholeLines, Outcomes
    <3> QED  BY <3>1, <3>2, <3>3, RememberStartable DEF Create
  <2>2. CASE StoreUpdate
    <3>1. PICK id \in Ids, s \in StatusesWritten, o \in Outcomes :
                 /\ records[id] # NULL
                 /\ \E p \in Reworded([records[id] EXCEPT !.status = s]) : Update(p, o)
      BY <2>2 DEF StoreUpdate
    <3>2. records[id] \in Payment /\ ~ records[id].big
      BY <3>1 DEF Startable, StoreTypeOK
    <3>3. Sizes \cup {records[id].big} \subseteq {FALSE}
      BY <3>2, SizesAssumption DEF SmallLines, Payment
    <3>4. \A p \in Reworded([records[id] EXCEPT !.status = s]) : p \in Payment /\ ~ p.big
      BY <3>1, <3>2, <3>3, StatusChangeType DEF StoreTypeOK
    <3>5. o \in {"ok", "none", "sync"}
      BY DEF WholeLines, Outcomes
    <3> QED  BY <3>1, <3>4, <3>5, RememberStartable DEF Update
  <2>3. CASE StoreCrashInCreate
    <3>1. PICK id \in Ids, k \in Keys, big \in Sizes, form \in CrashForms :
                 CrashInAppend(NewPayment(id, k, FALSE, big), form)
      BY <2>3 DEF StoreCrashInCreate
    <3>2. NewPayment(id, k, FALSE, big) \in Payment /\ ~ NewPayment(id, k, FALSE, big).big
      BY SizesAssumption, NewPaymentType DEF SmallLines, NewPayment
    <3> QED  BY <3>1, <3>2, CrashInAppendStartable DEF WholeLines
  <2>4. CASE StoreCrashInUpdate
    <3>1. PICK id \in Ids, s \in StatusesWritten, form \in CrashForms :
                 /\ records[id] # NULL
                 /\ \E p \in Reworded([records[id] EXCEPT !.status = s]) :
                       CrashInAppend(p, form)
      BY <2>4 DEF StoreCrashInUpdate
    <3>2. records[id] \in Payment /\ ~ records[id].big
      BY <3>1 DEF Startable, StoreTypeOK
    <3>3. Sizes \cup {records[id].big} \subseteq {FALSE}
      BY <3>2, SizesAssumption DEF SmallLines, Payment
    <3>4. \A p \in Reworded([records[id] EXCEPT !.status = s]) : p \in Payment /\ ~ p.big
      BY <3>1, <3>2, <3>3, StatusChangeType DEF StoreTypeOK
    <3> QED  BY <3>1, <3>4, CrashInAppendStartable DEF WholeLines
  <2>5. CASE Close
    BY <2>5 DEF Close, Startable, StoreTypeOK
  <2>6. CASE Crash
    BY <2>6, CrashType DEF Crash, Forget, NoRecords, Startable
  <2>7. CASE Restart
    BY <2>7, RestartStartable
  <2>8. CASE UNCHANGED storeVars
    BY <2>8 DEF storeVars, Startable, StoreTypeOK
  <2> QED  BY <2>1, <2>2, <2>3, <2>4, <2>5, <2>6, <2>7, <2>8 DEF StoreNext
<1>3. Startable => RestartSucceeds
  BY DEF Startable, RestartSucceeds
<1> QED  BY <1>1, <1>2, <1>3, PTL DEF StoreSpec

-----------------------------------------------------------------------------
(* The two maps.  A payment never changes its order key, so that all of    *)
(* its lines, also those whose append returned an error, lead to one key.  *)

KeysStay ==
    /\ \A i, j \in GoodLines :
          lines[i].id = lines[j].id => indexKey(lines[i]) = indexKey(lines[j])
    /\ \A id \in Ids : records[id] # NULL =>
          /\ records[id].id = id
          /\ \A i \in LinesOf(id) : indexKey(lines[i]) = indexKey(records[id])

Resolving == StoreTypeOK /\ KeysStay /\ IndexResolves

\* What append adds to the lines that can be read is its payment.
LEMMA AppendAddsOne ==
    ASSUME StoreTypeOK, NEW p \in Payment, NEW o, append(p, o)
    PROVE  \A i \in GoodLines' :
              lines'[i] = p \/ (i \in GoodLines /\ lines'[i] = lines[i])
<1> DEFINE kept == IF openTail THEN SubSeq(lines, 1, Len(lines) - 1) ELSE lines
           line == IF openTail \/ o = "cut" THEN GARBAGE ELSE p
           L == Payment \cup {GARBAGE}
<1>1. lines \in Seq(L) /\ line \in L /\ line \in {p, GARBAGE}
  BY DEF StoreTypeOK
<1>2. kept \in Seq(L) /\ \A i \in DOMAIN kept : i \in DOMAIN lines /\ kept[i] = lines[i]
  <2>1. \A i \in 1..(Len(lines) - 1) : lines[i] \in L
    BY <1>1
  <2> QED  BY <1>1, <2>1, SubSeqProperties
<1>3. CASE o = "none"
  BY <1>3 DEF append, GoodLines
<1>4. CASE o # "none"
  <2>1. lines' = Append(kept, line)
    BY <1>4 DEF append
  <2> HIDE DEF kept, line, L
  <2>2. /\ DOMAIN lines' = DOMAIN kept \cup {Len(kept) + 1}
        /\ \A i \in DOMAIN kept : lines'[i] = kept[i]
        /\ lines'[Len(kept) + 1] = line
    BY <1>1, <1>2, <2>1
  <2> QED  BY <1>1, <1>2, <2>2 DEF GoodLines
<1> QED  BY <1>3, <1>4

\* A payment that keeps the key of its lines may be appended.
KeepsItsKey(p) ==
    /\ \A i \in LinesOf(p.id) : indexKey(lines[i]) = indexKey(p)
    /\ records[p.id] # NULL => indexKey(records[p.id]) = indexKey(p)

LEMMA AppendKeepsKeys ==
    ASSUME Resolving, NEW p \in Payment, NEW o, append(p, o), KeepsItsKey(p)
    PROVE  \A i, j \in GoodLines' :
              lines'[i].id = lines'[j].id => indexKey(lines'[i]) = indexKey(lines'[j])
<1> SUFFICES ASSUME NEW i \in GoodLines', NEW j \in GoodLines', lines'[i].id = lines'[j].id
             PROVE  indexKey(lines'[i]) = indexKey(lines'[j])
  OBVIOUS
<1>1. lines'[i] = p \/ (i \in GoodLines /\ lines'[i] = lines[i])
  BY AppendAddsOne DEF Resolving
<1>2. lines'[j] = p \/ (j \in GoodLines /\ lines'[j] = lines[j])
  BY AppendAddsOne DEF Resolving
<1> QED  BY <1>1, <1>2 DEF Resolving, KeysStay, KeepsItsKey, LinesOf

LEMMA RememberResolves ==
    ASSUME Resolving, NEW p \in Payment, NEW o, AppendAndRemember(p, o), KeepsItsKey(p)
    PROVE  Resolving'
<1>1. append(p, o) /\ StoreTypeOK /\ StoreTypeOK'
  BY RememberType DEF AppendAndRemember, Resolving
<1>2. p.id \in Ids /\ indexKey(p) \in Keys /\ p # NULL /\ p.id # NULL
  BY KeyType, NullAssumption
<1>3. \A i \in GoodLines' : lines'[i] = p \/ (i \in GoodLines /\ lines'[i] = lines[i])
  BY <1>1, AppendAddsOne
<1>4. \A i, j \in GoodLines' :
         lines'[i].id = lines'[j].id => indexKey(lines'[i]) = indexKey(lines'[j])
  BY <1>1, AppendKeepsKeys
<1>5. CASE o = "ok"
  <2>1. /\ records' = [records EXCEPT ![p.id] = p]
        /\ outIndex' = [outIndex EXCEPT ![indexKey(p)] = p.id]
    BY <1>5 DEF AppendAndRemember
  <2>2. /\ \A id \in Ids : records'[id] = IF id = p.id THEN p ELSE records[id]
        /\ \A k \in Keys : outIndex'[k] = IF k = indexKey(p) THEN p.id ELSE outIndex[k]
    BY <2>1, <1>1, <1>2 DEF StoreTypeOK
  <2>3. KeysStay'
    <3> SUFFICES ASSUME NEW id \in Ids, records'[id] # NULL
                 PROVE  /\ records'[id].id = id
                        /\ \A i \in GoodLines' : lines'[i].id = id
                              => indexKey(lines'[i]) = indexKey(records'[id])
      BY <1>4 DEF KeysStay, LinesOf, indexKey
    <3>1. CASE id = p.id
      BY <3>1, <1>3, <2>2 DEF KeepsItsKey, LinesOf
    <3>2. CASE id # p.id
      BY <3>2, <1>3, <2>2 DEF Resolving, KeysStay, LinesOf
    <3> QED  BY <3>1, <3>2
  <2>4. ASSUME NEW k \in Keys, outIndex'[k] # NULL
        PROVE  records'[outIndex'[k]] # NULL /\ indexKey(records'[outIndex'[k]]) = k
    <3>1. CASE k = indexKey(p)
      BY <3>1, <1>2, <2>2
    <3>2. CASE k # indexKey(p)
      <4>1. /\ outIndex'[k] = outIndex[k] /\ outIndex[k] \in Ids
            /\ records[outIndex[k]] # NULL /\ indexKey(records[outIndex[k]]) = k
        BY <3>2, <2>2, <2>4, <1>1 DEF Resolving, IndexResolves, FindByOutTradeNo, StoreTypeOK
      <4>2. outIndex[k] # p.id
        BY <3>2, <4>1 DEF KeepsItsKey
      <4> QED  BY <4>1, <4>2, <2>2
    <3> QED  BY <3>1, <3>2
  <2>5. ASSUME NEW id \in Ids, records'[id] # NULL
        PROVE  outIndex'[indexKey(records'[id])] # NULL
    <3>1. CASE id = p.id
      BY <3>1, <1>2, <2>2
    <3>2. CASE id # p.id
      <4>1. records'[id] = records[id] /\ records[id] \in Payment
        BY <3>2, <2>2, <2>5, <1>1 DEF StoreTypeOK
      <4>2. indexKey(records[id]) \in Keys /\ outIndex[indexKey(records[id])] # NULL
        BY <4>1, <2>5, KeyType DEF Resolving, IndexResolves
      <4> QED  BY <4>1, <4>2, <2>2, <1>2
    <3> QED  BY <3>1, <3>2
  <2>6. IndexResolves'
    BY <2>4, <2>5 DEF IndexResolves, FindByOutTradeNo, indexKey
  <2> QED  BY <1>1, <2>3, <2>6 DEF Resolving
<1>6. CASE o # "ok"
  <2>1. UNCHANGED <<records, outIndex>>
    BY <1>6 DEF AppendAndRemember
  <2>2. KeysStay'
    <3> SUFFICES ASSUME NEW id \in Ids, records[id] # NULL
                 PROVE  /\ records[id].id = id
                        /\ \A i \in GoodLines' : lines'[i].id = id
                              => indexKey(lines'[i]) = indexKey(records[id])
      BY <1>4, <2>1 DEF KeysStay, LinesOf, indexKey
    <3>1. records[id].id = id
      BY DEF Resolving, KeysStay
    <3>2. ASSUME NEW i \in GoodLines', lines'[i].id = id
          PROVE  indexKey(lines'[i]) = indexKey(records[id])
      BY <3>2, <1>3 DEF Resolving, KeysStay, LinesOf, KeepsItsKey
    <3> QED  BY <3>1, <3>2
  <2>3. IndexResolves'
    BY <2>1 DEF Resolving, IndexResolves, FindByOutTradeNo, indexKey
  <2> QED  BY <1>1, <2>2, <2>3 DEF Resolving
<1> QED  BY <1>5, <1>6

\* Empty maps resolve into each other.
LEMMA ForgetResolves ==
    ASSUME Resolving, StoreTypeOK', Forget,
           \A i, j \in GoodLines' :
              lines'[i].id = lines'[j].id => indexKey(lines'[i]) = indexKey(lines'[j])
    PROVE  Resolving'
<1>1. records' = NoRecords /\ outIndex' = NoIndex
  BY DEF Forget
<1>2. (\A id \in Ids : records'[id] = NULL) /\ (\A k \in Keys : outIndex'[k] = NULL)
  BY <1>1 DEF NoRecords, NoIndex
<1>3. KeysStay' /\ IndexResolves'
  BY <1>2 DEF KeysStay, IndexResolves, indexKey
<1> QED  BY <1>3 DEF Resolving

LEMMA CrashInAppendResolves ==
    ASSUME Resolving, NEW p \in Payment, NEW form, CrashInAppend(p, form), KeepsItsKey(p)
    PROVE  Resolving'
<1>1. append(p, form) /\ Forget /\ StoreTypeOK'
  BY CrashInAppendType DEF CrashInAppend, Resolving
<1> QED  BY <1>1, AppendKeepsKeys, ForgetResolves

\* The last line of a key has the key of all lines of its payment.
LEMMA RestartResolves ==
    ASSUME Resolving, Restart
    PROVE  Resolving'
<1>1. StoreTypeOK /\ StoreTypeOK' /\ lines' = lines
  BY RestartType, RestartReplays DEF Resolving
<1>2. CASE Readable
  <2>1. /\ \A id \in Ids : records'[id] = Replayed(id)
        /\ \A k \in Keys : outIndex'[k] = ReplayedIndex(k)
    BY <1>1, <1>2, RestartReplays
  <2>2. Len(lines) \in Nat /\ DOMAIN lines = 1..Len(lines) /\ GoodLines = DOMAIN lines
        /\ \A i \in DOMAIN lines : lines[i] \in Payment
    <3>1. Len(lines) \in Nat /\ DOMAIN lines = 1..Len(lines)
      BY <1>1 DEF StoreTypeOK
    <3>2. \A i \in DOMAIN lines : lines[i] \in Payment
      BY <1>1, <1>2 DEF StoreTypeOK, Readable
    <3>3. GoodLines = DOMAIN lines
      BY <1>2 DEF GoodLines, Readable
    <3> QED  BY <3>1, <3>2, <3>3
  <2>3. ASSUME NEW id \in Ids, LinesOf(id) # {}
        PROVE  \E i \in LinesOf(id) : Replayed(id) = lines[i]
    <3>1. LinesOf(id) \in SUBSET (1..Len(lines))
      BY <2>2 DEF LinesOf
    <3> QED  BY <3>1, <2>2, <2>3, MaxOfPositions DEF Replayed
  <2>4. ASSUME NEW k \in Keys, LinesFor(k) # {}
        PROVE  \E i \in LinesFor(k) : ReplayedIndex(k) = lines[i].id
    <3>1. LinesFor(k) \in SUBSET (1..Len(lines))
      BY <2>2 DEF LinesFor
    <3> QED  BY <3>1, <2>2, <2>4, MaxOfPositions DEF ReplayedIndex
  <2>5. KeysStay'
    <3> SUFFICES ASSUME NEW id \in Ids, records'[id] # NULL
                 PROVE  /\ records'[id].id = id
                        /\ \A i \in LinesOf(id) : indexKey(lines[i]) = indexKey(records'[id])
      BY <1>1 DEF Resolving, KeysStay, GoodLines, LinesOf, indexKey
    <3>1. PICK i \in LinesOf(id) : records'[id] = lines[i]
      BY <2>1, <2>3 DEF Replayed
    <3> QED  BY <3>1 DEF LinesOf, Resolving, KeysStay
  <2>6. ASSUME NEW k \in Keys, outIndex'[k] # NULL
        PROVE  records'[outIndex'[k]] # NULL /\ indexKey(records'[outIndex'[k]]) = k
    <3>1. PICK i \in LinesFor(k) : outIndex'[k] = lines[i].id
      BY <2>1, <2>4, <2>6 DEF ReplayedIndex
    <3>2. lines[i] \in Payment /\ i \in LinesOf(lines[i].id) /\ lines[i].id \in Ids
      BY <3>1, <2>2, KeyType DEF LinesFor, LinesOf
    <3>3. PICK j \in LinesOf(lines[i].id) : records'[lines[i].id] = lines[j]
      BY <3>2, <2>1, <2>3
    <3>4. indexKey(lines[j]) = indexKey(lines[i]) /\ indexKey(lines[i]) = k
      BY <3>1, <3>2, <3>3 DEF LinesOf, LinesFor, Resolving, KeysStay
    <3>5. lines[j] # NULL
      BY <3>3, <2>2, NullAssumption DEF LinesOf
    <3> QED  BY <3>1, <3>3, <3>4, <3>5
  <2>7. ASSUME NEW id \in Ids, records'[id] # NULL
        PROVE  outIndex'[indexKey(records'[id])] # NULL
    <3>1. PICK i \in LinesOf(id) : records'[id] = lines[i]
      BY <2>1, <2>3, <2>7 DEF Replayed
    <3>2. lines[i] \in Payment /\ indexKey(lines[i]) \in Keys /\ i \in LinesFor(indexKey(lines[i]))
      BY <3>1, <2>2, KeyType DEF LinesFor, LinesOf
    <3>3. PICK j \in LinesFor(indexKey(lines[i])) : outIndex'[indexKey(lines[i])] = lines[j].id
      BY <3>2, <2>1, <2>4
    <3>4. lines[j].id # NULL
      BY <3>3, <2>2, KeyType, NullAssumption DEF LinesFor
    <3> QED  BY <3>1, <3>3, <3>4
  <2>8. IndexResolves'
    BY <2>6, <2>7 DEF IndexResolves, FindByOutTradeNo, indexKey
  <2> QED  BY <1>1, <2>5, <2>8 DEF Resolving
<1>3. CASE ~ Readable
  <2>1. UNCHANGED <<records, outIndex, lines>>
    BY <1>1, <1>3, RestartReplays
  <2> QED  BY <1>1, <2>1 DEF Resolving, KeysStay, IndexResolves, FindByOutTradeNo,
              GoodLines, LinesOf, indexKey
<1> QED  BY <1>2, <1>3

\* A new payment has no lines, and a changed one keeps its key.
LEMMA FreshFits ==
    ASSUME NEW id \in Ids, NEW k \in Keys, NEW big \in Sizes, Fresh(id)
    PROVE  NewPayment(id, k, FALSE, big) \in Payment /\ KeepsItsKey(NewPayment(id, k, FALSE, big))
<1>1. /\ NewPayment(id, k, FALSE, big) \in Payment
      /\ NewPayment(id, k, FALSE, big).id = id
  BY SizesAssumption, NewPaymentType
<1> QED  BY <1>1 DEF KeepsItsKey, Fresh

LEMMA ChangeFits ==
    ASSUME Resolving, NEW id \in Ids, records[id] # NULL, NEW s \in StatusesWritten,
           NEW p \in Reworded([records[id] EXCEPT !.status = s])
    PROVE  p \in Payment /\ KeepsItsKey(p)
<1>1. records[id] \in Payment /\ records[id].id = id
  BY DEF Resolving, StoreTypeOK, KeysStay
<1>2. p \in Payment /\ p.id = id /\ indexKey(p) = indexKey(records[id])
  BY <1>1, StatusChangeType
<1> QED  BY <1>2 DEF KeepsItsKey, Resolving, KeysStay

\* An order key leads to a payment with that key and every payment's key is
\* taken, whatever appends fail or are torn and however often the process stops.
THEOREM MapsResolve == StoreSpec => []IndexResolves
<1>1. StoreInit => Resolving
  <2> SUFFICES ASSUME StoreInit PROVE Resolving
    OBVIOUS
  <2>1. StoreTypeOK
    BY StoreInitType
  <2>2. /\ \A id \in Ids : records[id] = NULL
        /\ \A k \in Keys : outIndex[k] = NULL
        /\ GoodLines = {}
    BY DEF StoreInit, NoRecords, NoIndex, GoodLines
  <2> QED  BY <2>1, <2>2 DEF Resolving, KeysStay, IndexResolves
<1>2. Resolving /\ [StoreNext]_storeVars => Resolving'
  <2> SUFFICES ASSUME Resolving, [StoreNext]_storeVars PROVE Resolving'
    OBVIOUS
  <2>1. CASE StoreCreate
    <3>1. PICK id \in Ids, k \in Keys, big \in Sizes, o \in Outcomes :
                 Fresh(id) /\ Create(NewPayment(id, k, FALSE, big), o)
      BY <2>1 DEF StoreCreate
    <3> QED  BY <3>1, FreshFits, RememberResolves DEF Create
  <2>2. CASE StoreUpdate
    <3>1. PICK id \in Ids, s \in StatusesWritten, o \in Outcomes :
                 /\ records[id] # NULL
                 /\ \E p \in Reworded([records[id] EXCEPT !.status = s]) : Update(p, o)
      BY <2>2 DEF StoreUpdate
    <3> QED  BY <3>1, ChangeFits, RememberResolves DEF Update
  <2>3. CASE StoreCrashInCreate
    <3>1. PICK id \in Ids, k \in Keys, big \in Sizes, form \in CrashForms :
                 Fresh(id) /\ CrashInAppend(NewPayment(id, k, FALSE, big), form)
      BY <2>3 DEF StoreCrashInCreate
    <3> QED  BY <3>1, FreshFits, CrashInAppendResolves
  <2>4. CASE StoreCrashInUpdate
    <3>1. PICK id \in Ids, s \in StatusesWritten, form \in CrashForms :
                 /\ records[id] # NULL
                 /\ \E p \in Reworded([records[id] EXCEPT !.status = s]) :
                       CrashInAppend(p, form)
      BY <2>4 DEF StoreCrashInUpdate
    <3> QED  BY <3>1, ChangeFits, CrashInAppendResolves
  <2>5. CASE Close
    BY <2>5 DEF Close, Resolving, StoreTypeOK, KeysStay, IndexResolves, FindByOutTradeNo,
       GoodLines, LinesOf, indexKey
  <2>6. CASE Crash
    <3>1. Forget /\ lines' = lines /\ StoreTypeOK'
      BY <2>6, CrashType DEF Crash, Resolving
    <3> QED  BY <3>1, ForgetResolves DEF Resolving, KeysStay, GoodLines
  <2>7. CASE Restart
    BY <2>7, RestartResolves
  <2>8. CASE UNCHANGED storeVars
    BY <2>8 DEF storeVars, Resolving, StoreTypeOK, KeysStay, IndexResolves,
       FindByOutTradeNo, GoodLines, LinesOf, indexKey
  <2> QED  BY <2>1, <2>2, <2>3, <2>4, <2>5, <2>6, <2>7, <2>8 DEF StoreNext
<1>3. Resolving => IndexResolves
  BY DEF Resolving
<1> QED  BY <1>1, <1>2, <1>3, PTL DEF StoreSpec
=============================================================================
