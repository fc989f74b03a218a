------------------------------ MODULE FileStore ------------------------------
(***************************************************************************)
(* FileStore (internal/payment/store.go): two maps in memory, records and  *)
(* outIndex, in front of an append-only file with one JSON payment per     *)
(* line.  Create and Update append the whole payment and then change the   *)
(* maps, under one mutex, so each is one step.  A new process rebuilds the *)
(* maps from the file, and refuses to start when a line cannot be read.    *)
(*                                                                         *)
(* What an append may leave in the file is a parameter:                    *)
(*   "ok"    the line is written and synced                                *)
(*   "none"  nothing is written, an error is returned                      *)
(*   "cut"   a proper prefix of the line is written (a full disk)          *)
(*   "nonl"  all of the line but its newline is written                    *)
(*   "sync"  the line is written, then Sync fails                          *)
(***************************************************************************)
EXTENDS PaymentTypes, Sequences, FiniteSetsExt

CONSTANTS
    GARBAGE,      \* a line that is not one JSON value
    WriteFaults,  \* what an append that returns an error may leave behind
    CrashForms,   \* what an append cut short by the end of the process may leave
    Sizes,        \* the values "big" takes when texts are set
    MaxLines      \* bound of the runs of StoreSpec: lines in the file

ASSUME GarbageAssumption == GARBAGE \notin Payment /\ GARBAGE # NULL

ASSUME FaultAssumption ==
    /\ WriteFaults \subseteq {"none", "cut", "nonl", "sync"}
    /\ CrashForms \subseteq {"cut", "nonl", "sync"}

ASSUME SizesAssumption == Sizes \subseteq BOOLEAN

VARIABLES
    records,   \* map from id to payment
    outIndex,  \* map from order key to id
    lines,     \* the file
    openTail,  \* the file does not end in a newline
    proc,      \* "up"; "closed": store.Close was called; "down"; "failed": load failed
    acked      \* history: the line of the last successful Create or Update of an id

storeVars == <<records, outIndex, lines, openTail, proc, acked>>

Outcomes == {"ok"} \cup WriteFaults

NoRecords == [id \in Ids |-> NULL]
NoIndex == [k \in Keys |-> NULL]

StoreInit ==
    /\ records = NoRecords
    /\ outIndex = NoIndex
    /\ lines = <<>>
    /\ openTail = FALSE
    /\ proc = "up"
    /\ acked = [id \in Ids |-> 0]

-----------------------------------------------------------------------------
(* Reading the file back. *)

GoodLines == {i \in DOMAIN lines : lines[i] # GARBAGE}

LinesOf(id) == {i \in GoodLines : lines[i].id = id}
LinesFor(k) == {i \in GoodLines : indexKey(lines[i]) = k}

\* What the file says of an id, and of a key: its last line decides.
Replayed(id) ==
    IF LinesOf(id) = {} THEN NULL ELSE lines[Max(LinesOf(id))]

ReplayedIndex(k) ==
    IF LinesFor(k) = {} THEN NULL ELSE lines[Max(LinesFor(k))].id

\* Mutant of LoadLoop: the index maps to the order number.
LoadLoopByTrade ==
    LET after[n \in 0..Len(lines)] ==
            IF n = 0 THEN [recs |-> NoRecords, index |-> NoIndex]
            ELSE LET before == after[n-1]
                     p == lines[n]
                 IN  [ recs  |-> [before.recs EXCEPT ![p.id] = p],
                       index |-> [before.index EXCEPT ![indexKey(p)] = p.trade] ]
    IN  after[Len(lines)]

\* The scanner loop of load: one line after the other is put in the maps, over
\* what an earlier one left there.
LoadLoop ==
    LET after[n \in 0..Len(lines)] ==
            IF n = 0 THEN [recs |-> NoRecords, index |-> NoIndex]
            ELSE LET before == after[n-1]
                     p == lines[n]
                 IN  [ recs  |-> [before.recs EXCEPT ![p.id] = p],
                       index |-> [before.index EXCEPT ![indexKey(p)] = p.id] ]
    IN  after[Len(lines)]

\* No line makes json.Unmarshal or the scanner fail.
Readable == \A i \in DOMAIN lines : lines[i] # GARBAGE /\ ~ lines[i].big

-----------------------------------------------------------------------------
(* The operations. *)

\* Mutant of append: no newline after the line.
appendBare(p, o) ==
    /\ o # "none"
    /\ lines' = IF openTail
                THEN Append(SubSeq(lines, 1, Len(lines) - 1), GARBAGE)
                ELSE Append(lines, p)
    /\ openTail' = TRUE

\* After a write that ended without its newline, the next line goes on where
\* that one stopped, and two payments on one line are not JSON.
append(p, o) ==
    LET kept == IF openTail THEN SubSeq(lines, 1, Len(lines) - 1) ELSE lines
        line == IF openTail \/ o = "cut" THEN GARBAGE ELSE p
    IN  IF o = "none"
        THEN UNCHANGED <<lines, openTail>>
        ELSE /\ lines' = Append(kept, line)
             /\ openTail' = (o \in {"cut", "nonl"})

\* Mutant of AppendAndRemember: the maps change before append is tried.
RememberThenAppend(p, o) ==
    /\ append(p, o)
    /\ records' = [records EXCEPT ![p.id] = p]
    /\ outIndex' = [outIndex EXCEPT ![indexKey(p)] = p.id]
    /\ acked' = IF o = "ok" THEN [acked EXCEPT ![p.id] = Len(lines')] ELSE acked
    /\ UNCHANGED proc

\* Mutant of AppendAndRemember: the index is left to load.
AppendAndKeep(p, o) ==
    /\ append(p, o)
    /\ IF o = "ok"
       THEN /\ records' = [records EXCEPT ![p.id] = p]
            /\ acked' = [acked EXCEPT ![p.id] = Len(lines')]
       ELSE UNCHANGED <<records, acked>>
    /\ UNCHANGED <<outIndex, proc>>

\* The maps change only when append returned no error.
AppendAndRemember(p, o) ==
    /\ append(p, o)
    /\ IF o = "ok"
       THEN /\ records' = [records EXCEPT ![p.id] = p]
            /\ outIndex' = [outIndex EXCEPT ![indexKey(p)] = p.id]
            /\ acked' = [acked EXCEPT ![p.id] = Len(lines')]
       ELSE UNCHANGED <<records, outIndex, acked>>
    /\ UNCHANGED proc

\* Mutant of CanCreate: no duplicate check.
CanAlwaysCreate(p) == proc = "up"

\* ErrDuplicatePayment is the key's presence in outIndex.
CanCreate(p) == proc = "up" /\ outIndex[indexKey(p)] = NULL

Create(p, o) == CanCreate(p) /\ AppendAndRemember(p, o)

\* ErrPaymentNotFound is the id's absence from records.
CanUpdate(p) == proc = "up" /\ records[p.id] # NULL

Update(p, o) == CanUpdate(p) /\ AppendAndRemember(p, o)

FindByOutTradeNo(k) ==
    IF outIndex[k] = NULL THEN NULL ELSE records[outIndex[k]]

\* Every later append returns os.ErrClosed and changes nothing; the maps can
\* still be read.
Close ==
    /\ proc = "up"
    /\ proc' = "closed"
    /\ UNCHANGED <<records, outIndex, lines, openTail, acked>>

\* The process ends and its memory with it.
Forget ==
    /\ records' = NoRecords
    /\ outIndex' = NoIndex
    /\ proc' = "down"
    /\ UNCHANGED acked

Crash ==
    /\ proc \in {"up", "closed"}
    /\ Forget
    /\ UNCHANGED <<lines, openTail>>

\* The process ends inside the append of Create or Update, before the caller
\* learns of it.
CrashInAppend(p, form) ==
    /\ append(p, form)
    /\ Forget

\* NewFileStore: load, then open for appending.  main exits on an error.
Restart ==
    /\ proc = "down"
    /\ IF Readable
       THEN /\ records' = LoadLoop.recs
            /\ outIndex' = LoadLoop.index
            /\ proc' = "up"
       ELSE /\ proc' = "failed"
            /\ UNCHANGED <<records, outIndex>>
    /\ UNCHANGED <<lines, openTail, acked>>
-----------------------------------------------------------------------------
(* The store by itself, under any caller that writes back a payment it got *)
(* from the store with another status and other texts.                     *)

StatusesWritten == {"pending", "paid"}

\* p stored with other texts: its line may become longer or shorter.
Reworded(p) == {[p EXCEPT !.big = big] : big \in Sizes \cup {p.big}}

\* newID draws 12 random bytes: an id is never drawn twice.
Fresh(id) == records[id] = NULL /\ LinesOf(id) = {}

StoreCreate ==
    \E id \in Ids, k \in Keys, big \in Sizes, o \in Outcomes :
        Fresh(id) /\ Create(NewPayment(id, k, FALSE, big), o)

StoreUpdate ==
    \E id \in Ids, s \in StatusesWritten, o \in Outcomes :
        /\ records[id] # NULL
        /\ \E p \in Reworded([records[id] EXCEPT !.status = s]) : Update(p, o)

StoreCrashInCreate ==
    \E id \in Ids, k \in Keys, big \in Sizes, form \in CrashForms :
        LET p == NewPayment(id, k, FALSE, big)
        IN  Fresh(id) /\ CanCreate(p) /\ CrashInAppend(p, form)

StoreCrashInUpdate ==
    \E id \in Ids, s \in StatusesWritten, form \in CrashForms :
        /\ records[id] # NULL
        /\ \E p \in Reworded([records[id] EXCEPT !.status = s]) :
              CanUpdate(p) /\ CrashInAppend(p, form)

StoreNext ==
    \/ Len(lines) < MaxLines /\ StoreCreate
    \/ Len(lines) < MaxLines /\ StoreUpdate
    \/ Len(lines) < MaxLines /\ StoreCrashInCreate
    \/ Len(lines) < MaxLines /\ StoreCrashInUpdate
    \/ Close
    \/ Crash
    \/ Restart

StoreSpec == StoreInit /\ [][StoreNext]_storeVars
-----------------------------------------------------------------------------
(* Properties. *)

\* The state of the store has the types of its Go declarations.
StoreTypeOK ==
    /\ records \in [Ids -> Payment \cup {NULL}]
    /\ outIndex \in [Keys -> Ids \cup {NULL}]
    /\ lines \in Seq(Payment \cup {GARBAGE})
    /\ openTail \in BOOLEAN
    /\ proc \in {"up", "closed", "down", "failed"}
    /\ acked \in [Ids -> Nat]

\* What Create or Update acknowledged is never lost: its line stays in the
\* file, and a running process answers Get with that line or with a later one
\* of the same payment, across any number of crashes, restarts and failed
\* appends (README.md: "orders and operation history survive process restarts").
AckedDurable ==
    \A id \in Ids : acked[id] # 0 =>
        /\ acked[id] \in LinesOf(id)
        /\ proc = "up" =>
              \E i \in LinesOf(id) : i >= acked[id] /\ records[id] = lines[i]

\* A process can always be started from the file the last one left.
RestartSucceeds == proc # "failed"

\* The two maps resolve into each other: an order key leads to a payment with
\* that key, and every payment's key is taken, so that neither a webhook nor
\* the duplicate check of Create can miss a payment that Get returns.
IndexResolves ==
    /\ \A k \in Keys : outIndex[k] # NULL =>
          /\ FindByOutTradeNo(k) # NULL
          /\ indexKey(FindByOutTradeNo(k)) = k
    /\ \A id \in Ids : records[id] # NULL => outIndex[indexKey(records[id])] # NULL
=============================================================================
