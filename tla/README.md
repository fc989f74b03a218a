# A TLA+ model of pay233-server

pay233-server is a payment center: merchants create payments on configured
channels, providers report their outcome by webhook, and the server tells the
merchant with a callback; operators watch and repair this from an admin console.
This directory models the parts that keep state: the payments and the file they
live in, the health of the channels, the operators' accounts and the audit log,
and the rotation of the log files. It checks them with TLC on small instances
and proves the main invariants with TLAPS for all instances.

`src/` below is the repository. Everything is translated from the Go code; the
documentation is only quoted where a property states what it promises.

## 1. Inventory

| component | code | state | operations | status |
|---|---|---|---|---|
| Payment types | `internal/payment/types.go` | – | the data | partly |
| FileStore | `internal/payment/store.go` | `records`, `outIndex`, the file | Create, Update, Get, FindByOutTradeNo, Close, load | modelled |
| MemoryStore | same file | the two maps | the same, no file | modelled |
| Payment service | `internal/payment/service.go` | none of its own | Create, Close, ApplyWebhook, MarkLost, RecordMerchantCallback | modelled |
| HTTP payment handlers, merchant callback | `internal/httpapi/server.go`, `admin.go` | requests in progress | create, close, webhook, mark lost, retry callback | modelled |
| Providers | `internal/payment/mock_provider.go` | none | create, close, parse webhook, health | partly |
| Process start and stop | `cmd/pay233-server/main.go` | the process | open stores, serve, shut down | partly |
| Channel registry, health monitor | `internal/payment/registry.go`, `main.go:142-194` | `health`, `previous` | check one, check all, tick, manual check | modelled |
| Admin users | `internal/admin/store.go:59-246` | users, a file | Create, Delete, load, save | modelled |
| Audit log | `internal/admin/store.go:312-480` | entries, a file | Write, PruneBefore, load | modelled |
| Admin sessions and roles | `internal/httpapi/admin.go:82-129, 294-386` | cookies | login, logout, role check, audit | modelled |
| Dashboard and lists | `internal/payment/service.go:139-158, 195-324` | none | list, filter, abnormal payments, sums | partly |
| Configuration | `internal/config/config.go` | none | load | partly (the channels) |
| Daily log writer | `internal/logging/daily.go` | a file, a date | write, rotate, clean up, close | modelled |
| Request signature | `internal/httpapi/signature.go` | none | verify | not modelled |
| Admin pages | `internal/httpapi/adminstatic/` | browser | – | not modelled |

**How they interact.** Every HTTP request runs in a goroutine. A handler calls
the service, the service calls the store, and the store guards its two maps and
its file with one `RWMutex`. The service itself holds no lock: it *reads* a
payment under the read lock, changes its copy, and *writes* the whole copy under
the write lock. A webhook handler goes on to POST the payment to the merchant
(up to 10 s) and then calls the service again to record the outcome, which is
another read and another write. The health monitor is a goroutine that shares
the registry and the audit log with the admin handlers. An operator's request is let
in by the role its cookie's account has, does its work in one of the stores,
looks the account up again and writes an audit entry; accounts and entries have
a map or list in memory and a file each, under a mutex of their own.

**What is hard.** Lost updates between the read and the write of two requests;
a crash between the two writes of Create, or between a webhook and its callback
record; an append that fails before, in the middle of or after its line; the
order of file and memory inside one append; a callback that times out although
the merchant took it; a callback body that is no longer the payment; an account
deleted, a session expired or a file not written while a request of that
operator is in progress. The full list, with the line where each bites and the properties that cover it, is under
`hazards` in `PROJECT.json`.

## 2. Modules

    PaymentTypes            the data
      FileStore             the store and its file
        PaymentService      requests in progress over one FileStore
          Dashboard         what an operator sees of the payments at any moment
      MemoryStore           the store without a file (abstract)
      PaymentLedger         what the history of each payment promises (abstract)
    ChannelConfig           the channels of the configuration, as targets
      ChannelHealth         the registry's health, its monitor and manual checks
    UserStore               the accounts and their file
    AuditStore              the audit entries and their file
      AdminServer           the operators' requests over both, and the process
    DailyLog                one log file per day
    MCFileStore, MCPaymentService, MCChannelHealth, MCAdminServer
                            instances for TLC
    FileStoreProofs         theorems about FileStore
    PaymentServiceProofs    the service's invariant and what follows from it
      CallbackProofs        the accounting of callbacks, on top of it
      LedgerProofs          the service implements PaymentLedger, the strict one
                            as long as requests do not overlap
      MemoryProofs          the service implements MemoryStore; the abnormal list
    HealthProofs            theorems about ChannelConfig and ChannelHealth
    AdminProofs             theorems about AdminServer
    LogProofs               theorems about DailyLog

**PaymentTypes.** A `Payment` keeps the fields on which a decision or a
property depends. Amount, subject, metadata, trade number, pay URL, error texts
and timestamps are carried along by the code without a decision; the one thing
they decide is the length of the JSON line, and `big` says that the line does
not fit the 64 KiB token of the scanner in `load`. `indexKey` is the triple that
the code joins with NUL bytes.

**FileStore.** `records` and `outIndex` are the Go maps (`NULL` is an absent
key), `lines` the file, `openTail` whether the file ends without a newline,
`proc` the process. `append` has the outcomes a write and a sync can have:
written and synced, nothing written, cut in the middle, all but the newline, or
written with a failing sync. A line appended after an open tail continues it and
is not JSON any more (`GARBAGE`). `AppendAndRemember` is the body Create and
Update share: append first, change the maps only if it returned no error. Both
hold the write lock throughout, so each is one action. `Restart` is
`NewFileStore`: it runs `LoadLoop`, the loop of `load` as it is written, or
fails. `Replayed` and `ReplayedIndex` say of a file what the loop comes to, the
last line of an id or of a key, for the properties that relate memory to the
file. `StoreSpec` is the store under any caller that writes back what it read,
with other texts (`Reworded`: a reason as long as a request body can make a small
payment's line too long for `load`, and a shorter one can make it fit again);
`acked` is a history variable for the durability property.

**PaymentService.** A worker is a request in progress; `pc` says where it is and
`draft` is the copy it holds. One action per request of the API (`CreatePayment`,
`ClosePayment`, `Webhook`, `MarkLost`, `RetryCallback`) reads, checks the guards
of the code and computes the draft (`Answered`, `Closed`, `Applied`, `Lost`);
`WriteUpdate` and `WriteApplied` store it; `PostCallback` is the delivery, with
all its ends: also a body or a notify_url that makes no request at all is tried and
refused, and recorded like the others;
`RecordRead` and `RecordWrite` are the two halves of `RecordMerchantCallback`.
Calls between a read and the write that follows it (a provider's ClosePayment,
`registry.Get`) change nothing and are inside the gap. The first action of
Create contains the store's Create, because nothing is read before it; the
provider's answer is chosen in the same step, since nobody else can see it
before the Update. The process may end between any two steps
(`CrashBetweenWrites`) or inside an append (`CrashInCreate`, `CrashInUpdate`): the
line may be in the file and the maps and workers are gone. A graceful shutdown
waits 10 s for requests and then exits, so it is one of these crashes.
`tries`, `recorded` and `confirmed` are history variables: the deliveries tried, the
outcomes stored, and the statuses in the bodies that the merchant answered with 2xx. The one provider of the
repository never fails to create a payment; `ProviderAnswers = {TRUE, FALSE}`
also takes the branch of `Service.Create` for one that does.

**PaymentLedger** has no file, map, worker or crash: a payment has a current
version and a set of past ones; it is opened once under a key of its own and
then revised by legal changes: a callback was reported (`Reported`) or the
status moved (`Moved`), never the order itself. `StrictSpec` wants each version
to follow from the one just before it, `Spec` from *some* earlier version. The
service implements the first as long as requests do not overlap and the second
always; the difference is exactly the lost update. The refinement mapping reads
both from the file: `current` is the last line of an id, `past` all its lines.

**MemoryStore** is the Go type, two maps and two operations, and at the same time
what the interface `Store` promises. `Dashboard` instantiates it with the file as
the next process would load it: `MemoryStoreSpec` says that the service over a
file, with its crashes, takes the steps of a service over a memory that survives
them. The ledger says what a version may contain, this says that nothing is
stored but by a Create under a free key or an Update of what is there.

**Dashboard** has the operators that the admin console shows: the list, its
filter by environment and the abnormal payments. They are functions of the
store's state, so a property of them is an invariant of the service:
`UnreportedIsListed` says that a payment that is settled with a status no body of
which the merchant ever answered with 2xx (`confirmed`) is in the list from which an
operator can retry its callback. It compares what the merchant was told with what
is stored, not one field of the payment with another, and so it needs requests that do
not overlap: `RecordMerchantCallback` sets `success` on whatever version it reads. A
retry may post an older, pending copy, a webhook store `paid` meanwhile, and the
answer to the older body is then recorded on the paid payment; if the process ends
before the webhook's own POST, the merchant never hears of it and the list does not
show it.

**ChannelConfig** turns the channels of `config.json` into targets and modes:
disabled channels are dropped, of channels of one name the last enabled one is the
provider (`Registered`; the configuration is not checked for it), while the health
keys of the others stay (`HealthKeys`) without being asked for; environments get the shared options with their own
laid over them, a fixed `health_status` comes before a `health_url`.

**ChannelHealth.** A *target* is a channel in one environment; a *checker* is the
monitor's goroutine or an operator's request. `health` is `Registry.health` with
the status shown and the time the check began (`LastCheckedAt`), which a clock
that only orders stands for. A sweep asks the targets in turn (`Ask`, `Hear`),
stores each result under the lock (`Publish`), and then turns the results
into audit entries one by one (`Record`; an operator's sweep first records that
it was made, `Announce`). `known` is what results are compared with: the monitor's
`previous`, which only it changes, or `before`, an operator's look at the registry.
`Expire` is the end of a context: the deadline, a browser that went away, or
`stopMonitor`. After `Stop` a tick the monitor still sees begins with a context that is
done, and operators' requests are served until the listener is closed. `endpoint` is the channel's own health_url and may change at any
time or hang. The targets are those of `ChannelConfig`; `main` registers them
before the first check. `audit` is the list that `AuditStore.List` shows, which gets an entry even when
its file does not.

**UserStore, AuditStore** are the two stores of `internal/admin/store.go`, each a
module of operations without an initial state of its own: their process and
their callers are in AdminServer. An account is its role, an entry its action,
target, actor, role and time. A save or a rewrite replaces the file as a whole
(`os.Rename`) or leaves it; an append may also be cut, lack its newline or fail in
Sync. An entry without its newline (`unended`) is read by the next start as long as it
is the last line, and is on one line with the next entry after that. `undeleted` and
`acked` are history variables.

**AdminServer** runs the operators' requests, one worker each: `Accept` is
`withRoles`, `Act` the handler's work, `Look` the second `currentAdmin`, `Record` the
call of `audit` and the answer. Creating an account looks before it acts, the
others after. `Login` and `Logout` go straight to `Record`. A cookie is a name and an
expiry; the server keeps none, so cookies survive restarts and logging out only
takes the cookie from the browser. `Start` opens both stores and prunes, as `main`
does, under any of the names the configuration may give to root. Time passes in
ticks that are longer than the retention and a session, because both only ever
compare with a limit. `deeds`, `removed` and `missed` record what requests did, for
the properties that relate the audit log to it. The payment of a mark-lost or a
retry is in PaymentService and the entries of health checks are in ChannelHealth;
here both are an action that may fail.

**DailyLog** is `DailyWriter` with its directory, one operation per action under the
writer's mutex. Time runs in half days, so that a day has its midnight and a later
moment; the clock may go on within a rotation, which reads it twice, and may be
set back. A write that fails may leave a part of its line (0 among the lines of a
file), a cleanup any of the files it should remove. `faults` counts the operations
that failed at the cost of a line.

## 3. Runs

| run | instance | shows |
|---|---|---|
| `store_faults` | 3 ids, 2 keys, 4 lines, crashes anywhere, appends that write nothing or fail in Sync | `StoreTypeOK`, `AckedDurable`, `RestartSucceeds`, `IndexResolves` |
| `service_race` | 2 workers, 2 ids, 1 key, 4 requests, 1 crash, appends that fail cleanly | `TypeOK`, `IndexAgrees`, `MemoryIsReplay`, `CallbacksAccounted`, and the service implements the ledger |
| `service_serial` | 1 worker, 2 ids, 2 environments of one order number, 4 requests, 1 crash, with and without notify_url, provider errors, webhooks for paid and closed | `EveryCallbackCounted`, `BodyIsLatest`, `UnreportedIsListed`, `FailureStaysRecorded`, `PaidIsNotClosed`, and the service implements the strict ledger and the memory store |
| `service_live` | 2 workers, 4 requests, webhooks for paid and failed, no faults, fair | `EveryTryRecorded`, `CallbackDecided` |
| `health_overlap` | the monitor (2 sweeps) and an operator (1), a health_url, a channel with a fixed status of its own for release, one of the same name before it and one that is not enabled, 1 change of the endpoint | `TypeOK`, `TrailIsChained`, `UnhealthyIsRecorded`, `OwnStatusShown`, `SweepEnds` |
| `admin_requests` | 2 workers, 2 accounts, 3 requests, 1 crash, 1 tick; saves and rewrites that fail, appends that are cut or lack their newline | `TypeOK`, `AccountsAgree`, `RootStays`, `EntriesDurable`, `EntryIsTrue`, `DeedsRecorded` |
| `log_rotation` | days 0 to 3, retention of 2 days, 3 lines, 2 failing operations, each removal may fail | `TypeOK`, `LinesKept`, `OldFilesGo`, `LossHasFault` |
| `store_torn` | appends may be cut | **violates** `RestartSucceeds` |
| `store_oversize` | payments may be big | **violates** `RestartSucceeds` |
| `paid_closed` | 2 workers, 1 id, no crash, no fault | **violates** `PaidIsNotClosed` |
| `health_older` | monitor and operator, 1 channel, 1 sweep each, 2 changes | **violates** `LatestShown` |
| `audit_gap` | 2 workers, saves that may fail | **violates** `RemovalsRecorded` |

The violated properties of the payments hold as soon as their cause is taken away:
`RestartSucceeds` in `store_faults`, `PaidIsNotClosed` in `service_serial`. That of the
channels needs two checkers at work on one channel, that of the accounts a save
that fails. The five disagreements with the documentation or the code's own checks
are under `findings`:

- a line cut by a full disk is never repaired, and every later start fails;
- a payment with more than 64 KiB of JSON is accepted, and every later start fails;
- a payment may go from paid to closed although Close refuses paid payments;
- the dashboard may go back to the result of an older health check;
- an account whose deletion could not be saved is gone until the next start, and
  the audit log does not say so.

`FailureStaysRecorded`, `BodyIsLatest`, `EveryCallbackCounted` and `UnreportedIsListed`
are checked for requests that do not overlap (`service_serial`). With two at a time they
fail for the same reason as `PaidIsNotClosed`: a request writes back, or posts, or
confirms, another version than the one that is stored. `LedgerSpec` and
`CallbacksAccounted` hold then, too; they bound what overlapping requests may lose and
do not say that nothing is lost. No document promises more.

**Bounds.** `MaxLines`, `MaxRequests`, `MaxCrashes`, `MaxChecks`, `MaxChanges`, `MaxTime`
and `MaxFaults` are the only ones, and they stand in guards. Four lines let two ids compete for one key and be updated after
a crash; a lost update needs two requests after the Create, and four requests
let a further one act on its result; two workers are what two
overlapping requests need, and no step involves a third. One channel and one
order number give one key, on which both ids compete; `store_faults` and
`service_serial` have two keys. Ids and workers are interchangeable, so the runs without liveness use
symmetry. `CHECK_DEADLOCK FALSE` stands in the runs where the bound on
requests ends every behaviour, and in those where no process can start.

A second sweep of the monitor is what meets its own first results again, and one
sweep of an operator in between is what can make the registry differ from them.

In `admin_requests` three requests let one operator delete another whose own
request is in progress, and a third write, prune or save after it; with
`Retention` and `SessionLife` zero one tick expires every session and entry and leaves
those of the new time. Two accounts and two names for root allow a configuration
renamed to an account that exists, also to one that is not a root. `FirstUsers` are the
empty file and one that an earlier process left. In `log_rotation` four days are one
more than the retention keeps, three lines can go to three of them, and after two
faults the writer must have recovered once. An append of `admin_requests` that fails
leaves something in the file; one that writes nothing is among the outcomes of the
theorems.

**Fairness.** `FairSpec` has weak fairness of `Continue(w)` for each worker: a
request that was accepted goes on, because its goroutine is scheduled, the
mutex is handed on and the POST ends within its timeout. Nothing forces a
request to arrive, a crash, or a new process after a crash. `EveryTryRecorded`
has no crash and no failing append; `CallbackDecided` is stated for behaviours
without a crash, because nothing in the code delivers a callback after a
restart. In `ChannelHealth` it has weak fairness of `GoOn(c)` for each checker: its
goroutine is scheduled, and when nothing else can happen the deadline passes.
No tick, request, stop or answer of an endpoint is forced. The admin server and the
log writer have no liveness property: nothing in them waits for anything but a mutex.

## 4. Theorems

All are proved for every value of the constants, without the bounds on ids,
workers, requests, lines and crashes that the runs need.

| theorem | assumption | says |
|---|---|---|
| `StoreTypes` | – | `StoreSpec => []StoreTypeOK` |
| `AcknowledgedIsDurable` | `WholeLines` | `StoreSpec => []AckedDurable` |
| `StartsAgain` | `WholeLines`, `SmallLines` | `StoreSpec => []RestartSucceeds` |
| `MapsResolve` | – | `StoreSpec => []IndexResolves` |
| `ServiceTypes` | – | `Spec => []TypeOK` |
| `ServiceIndexAgrees` | `CleanAppends` | `Spec => []IndexAgrees` |
| `ServiceMemoryIsReplay` | `CleanAppends` | `Spec => []MemoryIsReplay` |
| `ServiceCallbacksAccounted` | `CleanAppends`, `Workers` finite | `Spec => []CallbacksAccounted` |
| `ServiceImplementsLedger` | `CleanAppends` | `Spec => LedgerSpec` |
| `ServiceImplementsMemoryStore` | `CleanAppends` | `Spec => MemoryStoreSpec` |
| `SerialUnreportedListed` | `CleanAppends`, `OneAtATime` | `Spec => []UnreportedIsListed` |
| `SerialCallbacksCounted` | `CleanAppends`, `OneAtATime` | `Spec => []EveryCallbackCounted` |
| `SerialBodyIsLatest` | `CleanAppends`, `OneAtATime` | `Spec => []BodyIsLatest` |
| `SerialImplementsStrictLedger` | `CleanAppends`, `OneAtATime` | `Spec => StrictLedgerSpec` |
| `SerialFailureStays` | `CleanAppends`, `OneAtATime` | `Spec => FailureStaysRecorded` |
| `SerialPaidStays` | `CleanAppends`, `OneAtATime` | `Spec => PaidIsNotClosed` |
| `HealthTypes` | – | `Spec => []TypeOK` |
| `TrailStaysChained` | – | `Spec => []TrailIsChained` |
| `UnhealthyStaysRecorded` | – | `Spec => []UnhealthyIsRecorded` |
| `OwnStatusIsShown` | – | `Spec => []OwnStatusShown` |
| `AdminTypes` | – | `Spec => []TypeOK` |
| `AdminAccountsAgree` | – | `Spec => []AccountsAgree` |
| `AdminRootStays` | – | `Spec => []RootStays` |
| `AdminEntriesDurable` | – | `Spec => []EntriesDurable` |
| `AdminEntryIsTrue` | – | `Spec => []EntryIsTrue` |
| `AdminDeedsRecorded` | – | `Spec => []DeedsRecorded` |
| `LogTypes` | – | `Spec => []TypeOK` |
| `LinesAreKept` | – | `Spec => []LinesKept` |
| `OldFilesAreGone` | – | `Spec => []OldFilesGo` |
| `LossesHaveFaults` | – | `Spec => []LossHasFault` |

`WholeLines` excludes appends that leave a part of a line; `SmallLines` excludes
payments that do not fit the scanner. `store_torn` and `store_oversize` show that
neither can be dropped. `CleanAppends` excludes in addition an append that
writes its line and then reports an error to a process that goes on: then the
file is ahead of the maps (`store.go:239`), and `MemoryIsReplay` is false.
`OneAtATime` says that any two workers are the same one, so that no two requests
overlap; the number of requests, payments and crashes stays open. Without it these
six properties are false: a request writes back, or posts, the copy that it read
before another one stored its own (`paid_closed` is such a behaviour). A theorem that
has no assumption holds for every fault the model has, whatever the caller's
requests, the endpoints, the clock and the configuration do.

**The arguments.** The store's durability needs more than `AckedDurable`: the
file only grows (`LinesStay`), and a running process holds for each id a line at
or after the acknowledged one (`ReplayedIsLatest` after a restart,
`RememberDurable` after a write).

`MapsResolve` needs neither whole nor small lines. The two maps stay each other's
inverse, as far as a lookup can tell, because a payment never changes its key
(`KeysStay`): any readable line of an id, acknowledged or not, leads to the same key,
so replay of any file gives maps that resolve. Every theorem about a restart rests on
the lemma `LoadEnds`, an induction over the lines: the loop of `load` ends with
`Replayed` and `ReplayedIndex`. `MapsAfter(n)` are the maps that the first n lines give,
`OneMoreLine` is the loop's body, and a least line at which the two differ cannot be.
`RestartReplays` is what a start does, said with it.

The service's invariant is `IInv`: the types; the file is whole and has one id
per key (`FileIsWhole`, `OneIdPerKey`); memory is what replay of the file gives,
or is empty when no process runs; every draft in progress is a payment of an
order already in the file (`DraftOK`); and no line or draft claims more attempts
than were recorded. `DraftOK` is what makes it inductive: drafts are old
copies, written blindly, and the maps stay each other's inverse only
because a draft has the id and key of a payment that is already there. The
attempts argument works for the same reason: recorded counts only grow, so a
claim that was true when the copy was read is true when it is written.
`ReplayAfterAppend` is the lemma both use: after an append of whole lines, the
replay of the file is the old replay changed at one id and one key.

`CallbackProofs` adds the other side of the account, `TriesCounted`: what was
recorded plus the requests that tried to deliver and have not recorded yet (`Owing`)
never exceeds the tries. A request enters `Owing` when it tries and leaves it when it
records or crashes; counting them needs finitely many workers.

`LedgerProofs` adds `Origins`. Every copy that a request holds between its read
and its write is a legal change of *some* line of the file (`Derived`), and lines of
one id describe one order (`OneOrderPerId`). The file only grows, so that line
is still there when the copy is written, however many others were written in
between, and the write maps to a `Revising` of the ledger. This is why only the weak
ledger is implemented: nothing says that the line is the last one. A crash,
a restart and every step that leaves the file alone map to a stutter.

For requests that do not overlap, `SInv` adds that the copy a worker holds follows
from the payment as it is stored *now* (`Fits`), and that the last line of a payment
counts every outcome recorded for it (`Exact`). A request establishes `Fits` when it
reads, and nobody else stores anything before it writes. `StepAdds` sums up every step
of the service, crashes included, by what it adds to the file: nothing, a new
payment, or the copy of the one worker. The five properties follow from `SInv` and
that; a crash between the two writes of a request costs the second one, not the first.

`MemoryProofs` needs no more than `IInv`: every step leaves the file alone or appends
a payment that is `Writable`, and by `ReplayAfterAppend` and `MemoryIsReplay` that is
exactly a `Create` or an `Update` of the maps a new process would load. A crash in an
append is the same step, taken before the maps of the old process could change.
`SerialUnreportedListed` adds two facts to `SInv` (together `KInv`). A version with
notify_url and status paid, when its merchant has not confirmed paid, has a callback that
is failed, lost or pending (`Known`; a payment with status failed is listed by that alone):
this holds of every line of the file (`LinesKnown`) and of the draft of every request
about to store one (`WorkersKnow`, which also says that after a confirmed POST the status
of its body is in `confirmed`). The step that needs requests not to overlap is
`RecordRead`: the version it reads has the status of the body that was posted, because
the last line is still the one the draft was taken from (`Fits`).

`HealthProofs` begins with the targets: `Targets` goes through the configuration, and
that it holds exactly the registered channels in their environments is an induction over
it; of each name one channel is registered (`OneProvider`), so `Mode` is well defined
although names may be given twice. The chain of the monitor's entries (`TrailIsChained`) is kept because only the
monitor writes such entries and changes its `known`; before its first look there is
none (`TrailInv`). `UnhealthyInv` says where the record of a bad status can be: in the
audit log, or in the results of some sweep, not yet turned into an entry
(`Underway`). A sweep passes over a result only when it is `ok`, and about those
nothing is claimed. `OwnInv` covers the time between the answer of a target with a status of its
own and the moment it is stored. Nothing is assumed of how sweeps interleave.

`AdminProofs` has an invariant of seven parts, each kept by every step that keeps the
ones before it. `AckedInv` says that the entry without its newline is not among the
acknowledged ones, so that the one entry an append may take out of the file with it is
none of those `EntriesDurable` is about. `AccountsInv` adds to `AccountsAgree` that a file without a root is
the empty file the first process finds: a start under a name that is an ordinary
account in the file adds no root, and there must be one already. `DeedsInv`
follows a deed from its request to its entry. Requests have different numbers and a
request that has not done its deed has none (`Undone`), so one that fails takes no
deed's account with it; an entry is not older than its deed, so pruning it means that
the deed's time is over, too; and of a stopped server `Kept` asks for an acknowledged
entry, which `EntriesDurable` brings back at the next start. `TruthInv` says of each
request that what its entry will say is already true (`TrueWorker`): the operator's
role is the one that was let in, or the account was deleted at some time, because no
account gets another role without being deleted first (`RolesStay`).

`LogProofs` adds two facts to the properties. The file that is open is the one of
`currentDate`, and if it is not in the directory any more then only its age took it
(`OpenInv`); a line is therefore written to a file a reader finds, or one no reader may
expect. And lines are numbered one after the other (`NumberInv`), so that a new line is
none of those written before. The clock may be set back, but the latest moment it
ever showed never is, and that decides what a reader may expect.

**Only model-checked**: the liveness properties `EveryTryRecorded`, `CallbackDecided`
and `SweepEnds`, because the prover has no rule for ENABLED and so none for fairness.
Every invariant and action property of a passing run has a theorem. Of the violated
ones, `RestartSucceeds` and `PaidIsNotClosed` have theirs under the assumptions whose
absence the runs show; `LatestShown` and `RemovalsRecorded` have none.

## 5. Not modelled

- The content of the fields no decision depends on: amounts, subjects, texts.
  With them the sums, rates and groupings of the dashboard, which nothing in the
  server reads, and its cut at 50 abnormal payments, which an instance that TLC
  can check does not reach.
- HMAC and password hashing, and the window of signature timestamps: pure
  functions of one request, without state.
- Request and response encoding, the defaults of the configuration, the
  listener, the text of the logs and the admin pages.
- The size of audit lines. `loadAudit` has the limit of 64 KiB that
  `store_oversize` shows for the payment file.
- Changes of the time zone's offset in `DailyLog`.

Time is left out of the payments: no operation there decides by it, except the
POST's timeout, which is one of the ways a POST is refused. A health check has its
deadline (`Expire`), sessions and retention have the ticks of `AdminServer`.

## 6. Plan

1. **A middle way between `CleanAppends` and every fault**: what the service still
   promises when an append may write its line and report an error. The file is then
   ahead of the maps, and the accounting holds of the file instead of memory.
2. **`AckedDurable` for the requests of the service**, not for the store alone.
