----------------------------- MODULE AdminProofs -----------------------------
(***************************************************************************)
(* What the operators can rely on, for any number of accounts, workers,    *)
(* requests and restarts, whatever saves, appends and rewrites fail.       *)
(*                                                                         *)
(* The invariant has several parts.  Each is kept by every step that keeps    *)
(* the ones before it.                                                     *)
(***************************************************************************)
EXTENDS AdminServer, TLAPS

-----------------------------------------------------------------------------
(* The invariant. *)

Labels == {"idle", "act", "look", "record"}

\* A request belongs to a running process, has a number of its own and, to
\* create or delete an account, names one.
JobsInv ==
    /\ \A w \in InProgress :
          /\ up /\ job[w].req \in 1..requests
          /\ job[w].action \in {"create", "delete"} => job[w].target \in Names
    /\ \A v, w \in InProgress : v # w => job[v].req # job[w].req
    /\ \A e \in entries \cup auditLines \cup acked : e.req \in 1..requests

\* An entry is acknowledged when its request ends, and then its newline is in
\* the file.
AckedInv ==
    /\ \A w \in InProgress : \A e \in acked : e.req # job[w].req
    /\ unended \cap acked = {}

HasRoot(map) == \E n \in Names : map[n] = "root"

\* A file without a root is the empty file that the first process finds.
AccountsInv ==
    /\ usersFile = NoUsers \/ HasRoot(usersFile)
    /\ up => HasRoot(users) /\ HasRoot(usersFile)
    /\ AccountsAgree

DeedSet == [ req : Nat, action : Actions \cup {"login", "login_failed", "logout"},
             target : Names \cup {NULL}, by : Names, as : Role \cup {NULL},
             until : Nat, at : Nat ]

\* The worker has not done its deed yet.
Undone(w) == pc[w] = "act" \/ (pc[w] = "look" /\ job[w].action = "create")

\* An entry in S about the deed, not older than it.
RecordedIn(S, d) == \E e \in S : e.req = d.req /\ d.at <= e.at

Working(d) == \E w \in InProgress : job[w].req = d.req

\* Accounted, in the entries that will be there again after a stop.
Kept(d) ==
    \/ RecordedIn(IF up THEN entries ELSE acked, d)
    \/ Working(d) \/ Expired(d) \/ d.req \in missed

DeedsInv ==
    /\ deeds \subseteq DeedSet
    /\ \A d \in deeds : d.req \in 1..requests /\ d.at <= now
    /\ \A w \in InProgress : Undone(w) => \A d \in deeds : d.req # job[w].req
    /\ \A d \in deeds : Kept(d)

Deleted(n) == \E r \in removed : r.name = n

\* What an entry of time t may say about who was let in as r.by.
NamesActor(r, t) ==
    \/ <<r.actor, r.role>> = <<r.by, r.as>>
    \/ r.actor = r.by /\ Deleted(r.by)
    \/ <<r.actor, r.role>> = <<"anonymous", NULL>> /\ (Deleted(r.by) \/ r.until < t)

DeedOf(r) ==
    \E d \in deeds : /\ <<d.req, d.action, d.target>> = <<r.req, r.action, r.target>>
                     /\ <<d.by, d.as, d.until>> = <<r.by, r.as, r.until>>

\* What the entry of w will say is true, whenever it is written.
TrueWorker(w) ==
    /\ NamesActor(job[w], now)
    /\ ~Undone(w) => DeedOf(job[w])
    /\ pc[w] \in {"act", "look"} =>
          job[w].as # NULL /\ (users[job[w].by] = job[w].as \/ Deleted(job[w].by))

TruthInv == (\A w \in InProgress : TrueWorker(w)) /\ EntryIsTrue

IInv == TypeOK /\ JobsInv /\ AckedInv /\ AccountsInv /\ EntriesDurable /\ DeedsInv /\ TruthInv
-----------------------------------------------------------------------------
(* Types. *)

LEMMA RequestIsJob ==
    ASSUME TypeOK, NEW action \in Actions \cup {"login", "login_failed", "logout"},
           NEW target \in Names \cup {NULL}, NEW by \in Names, NEW as \in Role \cup {NULL},
           NEW until \in Nat
    PROVE  Request(action, target, by, as, until) \in Job
<1>1. requests + 1 \in Nat
  BY DEF TypeOK
<1> QED  BY <1>1 DEF Request, Job

\* Looking the operator up changes what the entry will say, and nothing else.
LEMMA NamedIsJob ==
    ASSUME TypeOK, NEW r \in Job
    PROVE  /\ Named(r) \in Job
           /\ <<Named(r).req, Named(r).action, Named(r).target>> = <<r.req, r.action, r.target>>
           /\ <<Named(r).by, Named(r).as, Named(r).until>> = <<r.by, r.as, r.until>>
BY DEF TypeOK, Named, CurrentRole, Job, Role, Accounts

LEMMA EntryOfIsEntry ==
    ASSUME TypeOK, NEW r \in Job
    PROVE  EntryOf(r) \in Entry
BY DEF TypeOK, EntryOf, Entry, Job

LEMMA WorkerHasJob ==
    ASSUME TypeOK, NEW w \in Workers, pc[w] # "idle"
    PROVE  up /\ w \in InProgress /\ job[w] \in Job
BY DEF TypeOK, InProgress

WorkersTyped ==
    /\ pc \in [Workers -> Labels]
    /\ job \in [Workers -> Job \cup {NULL}]
    /\ \A w \in Workers : pc[w] = "idle" <=> job[w] = NULL

LEMMA ServeTyped ==
    ASSUME TypeOK, NEW w \in Workers, NEW label \in Labels \ {"idle"}, NEW r \in Job,
           Serve(w, label, r)
    PROVE  WorkersTyped'
BY NullAssumption DEF TypeOK, Serve, WorkersTyped, Labels

LEMMA LeaveTyped ==
    ASSUME TypeOK, NEW w \in Workers, Leave(w)
    PROVE  WorkersTyped'
BY DEF TypeOK, Serve, Leave, WorkersTyped, Labels

LEMMA CookieTyped ==
    ASSUME now \in Nat, NEW n \in Names
    PROVE  Cookie(n) \in [name : Names, until : Nat]
BY AdminAssumption DEF Cookie

LEMMA InitTypes ==
    ASSUME Init
    PROVE  TypeOK
<1>1. usersFile \in Accounts /\ NoUsers \in Accounts
  BY AdminAssumption DEF Init, Accounts, NoUsers
<1>2. sessions \subseteq [name : Names, until : Nat]
  BY CookieTyped DEF Init
<1>3. WorkersTyped /\ InProgress = {}
  BY DEF Init, WorkersTyped, InProgress, Labels
<1>4. {now, requests} \subseteq Nat /\ missed \subseteq 1..requests
  BY DEF Init
<1>5. entries \cup auditLines \cup acked = {} /\ undeleted = {}
      /\ torn = "no" /\ unended = {} /\ up = FALSE
  BY DEF Init
<1> QED  BY <1>1, <1>2, <1>3, <1>4, <1>5 DEF Init, TypeOK, WorkersTyped, Labels

\* What a request does to the accounts and the entries.
StoresTyped ==
    /\ {users, usersFile} \subseteq Accounts
    /\ undeleted \subseteq Names
    /\ entries \cup auditLines \cup acked \subseteq Entry
    /\ torn \in {"no", "open", "yes"} /\ unended \subseteq auditLines

\* A step of a worker keeps the types if its stores and workers do.
LEMMA WorkerTypes ==
    ASSUME TypeOK, up, up' = up, now' = now, StoresTyped', WorkersTyped',
           sessions' \subseteq [name : Names, until : Nat],
           missed' = missed, requests' \in {requests, requests + 1}
    PROVE  TypeOK'
<1>1. 1..requests \subseteq 1..requests' /\ {now', requests'} \subseteq Nat
  BY DEF TypeOK
<1> QED  BY <1>1 DEF TypeOK, StoresTyped, WorkersTyped, Labels

LEMMA ArriveTypes ==
    ASSUME TypeOK, NEW w \in Workers, Accept(w) \/ Login(w) \/ Logout(w)
    PROVE  TypeOK'
<1>1. ASSUME NEW s \in sessions
      PROVE  s.name \in Names /\ s.until \in Nat /\ CurrentRole(s) \in Role \cup {NULL}
  BY <1>1 DEF TypeOK, CurrentRole, Accounts
<1>2. WorkersTyped'
  <2>1. CASE Accept(w)
    <3>1. PICK s \in sessions, action \in Actions : \E target \in Targets(action) :
              Serve(w, First(action), Request(action, target, s.name, CurrentRole(s), s.until))
      BY <2>1 DEF Accept
    <3>2. PICK target \in Targets(action) :
              Serve(w, First(action), Request(action, target, s.name, CurrentRole(s), s.until))
      BY <3>1
    <3>3. Request(action, target, s.name, CurrentRole(s), s.until) \in Job
      BY <1>1, <3>2, RequestIsJob DEF Targets
    <3>4. First(action) \in Labels \ {"idle"}
      BY DEF First, Labels
    <3> QED  BY <3>2, <3>3, <3>4, ServeTyped
  <2>2. CASE Login(w)
    <3>1. PICK n \in Names :
              \/ Serve(w, "record", Request("login", NULL, n, users[n], Cookie(n).until))
              \/ Serve(w, "record", Request("login_failed", NULL, n, NULL, now))
      BY <2>2 DEF Login
    <3>2. users[n] \in Role \cup {NULL} /\ Cookie(n).until \in Nat /\ now \in Nat
      BY CookieTyped DEF TypeOK, Accounts
    <3>3. /\ Request("login", NULL, n, users[n], Cookie(n).until) \in Job
          /\ Request("login_failed", NULL, n, NULL, now) \in Job
      BY <3>2, RequestIsJob
    <3> QED  BY <3>1, <3>3, ServeTyped DEF Labels
  <2>3. CASE Logout(w)
    <3>1. PICK s \in sessions :
              Serve(w, "record", Request("logout", NULL, s.name, CurrentRole(s), s.until))
      BY <2>3 DEF Logout
    <3>2. Request("logout", NULL, s.name, CurrentRole(s), s.until) \in Job
      BY <1>1, RequestIsJob
    <3> QED  BY <3>1, <3>2, ServeTyped DEF Labels
  <2> QED  BY <2>1, <2>2, <2>3
<1>3. up /\ UNCHANGED <<userVars, auditVars, up, sessions, missed>> /\ requests' = requests + 1
  BY DEF Accept, Login, Logout, CanAccept
<1>4. StoresTyped' /\ sessions' \subseteq [name : Names, until : Nat]
  BY <1>3 DEF TypeOK, StoresTyped, userVars, auditVars, auditFile
<1> QED  BY <1>2, <1>3, <1>4, WorkerTypes DEF auditVars, auditFile

LEMMA UnexpiredTyped ==
    ASSUME NEW S
    PROVE  Unexpired(S) \subseteq S
BY DEF Unexpired

LEMMA DoneTyped ==
    ASSUME TypeOK, NEW w \in Workers, pc[w] = "act", NEW ok, Done(w, ok)
    PROVE  WorkersTyped'
<1>1. job[w] \in Job
  BY WorkerHasJob
<1>2. \/ Leave(w)
      \/ Serve(w, "record", job[w])
      \/ Serve(w, "look", job[w])
  BY DEF Done
<1> QED  BY <1>1, <1>2, ServeTyped, LeaveTyped DEF Labels

\* The accounts after a Create or a Delete are accounts.
LEMMA EditTyped ==
    ASSUME TypeOK, NEW n, NEW role \in Role \cup {NULL}
    PROVE  [users EXCEPT ![n] = role] \in Accounts
BY DEF TypeOK, Accounts

LEMMA ActTypes ==
    ASSUME TypeOK, JobsInv, NEW w \in Workers, Act(w)
    PROVE  TypeOK'
<1>1. pc[w] = "act" /\ up /\ w \in InProgress
  BY WorkerHasJob DEF Act
<1>2. WorkersTyped'
  <2>1. \E ok : Done(w, ok)
    BY DEF Act, ActCreate, ActDelete, ActPrune, ActPayment
  <2> QED  BY <1>1, <2>1, DoneTyped
<1>3. StoresTyped' /\ UNCHANGED <<now, sessions, up, missed, requests>>
  <2>1. UNCHANGED <<up, sessions, missed, requests>>
    BY DEF Act, counters
  <2>2. CASE ActCreate(w)
    <3>1. UNCHANGED auditVars
      BY <2>2 DEF ActCreate
    <3>2. CASE UNCHANGED userVars
      BY <2>1, <3>1, <3>2 DEF TypeOK, StoresTyped, userVars, auditVars, auditFile
    <3>3. CASE \E role \in {"admin", "employee"}, o \in SaveOutcomes :
                   Create(job[w].target, role, o)
      <4>1. PICK role \in {"admin", "employee"}, o \in SaveOutcomes :
                Create(job[w].target, role, o)
        BY <3>3
      <4>2. [users EXCEPT ![job[w].target] = role] \in Accounts
        BY EditTyped DEF Role
      <4>3. {users', usersFile'} \subseteq Accounts /\ undeleted' \subseteq Names
        BY <4>1, <4>2 DEF TypeOK, Create, save
      <4> QED  BY <2>1, <3>1, <4>3 DEF TypeOK, StoresTyped, auditVars, auditFile
    <3> QED  BY <2>2, <3>2, <3>3 DEF ActCreate
  <2>3. CASE ActDelete(w)
    <3>1. UNCHANGED auditVars /\ job[w].target \in Names
      BY <1>1, <2>3 DEF ActDelete, JobsInv
    <3>2. CASE UNCHANGED userVars
      BY <2>1, <3>1, <3>2 DEF TypeOK, StoresTyped, userVars, auditVars, auditFile
    <3>3. CASE \E o \in SaveOutcomes : Delete(job[w].target, o)
      <4>1. PICK o \in SaveOutcomes : Delete(job[w].target, o)
        BY <3>3
      <4>2. [users EXCEPT ![job[w].target] = NULL] \in Accounts
        BY EditTyped
      <4>3. {users', usersFile'} \subseteq Accounts /\ undeleted' \subseteq Names
        BY <3>1, <4>1, <4>2 DEF TypeOK, Delete, save
      <4> QED  BY <2>1, <3>1, <4>3 DEF TypeOK, StoresTyped, auditVars, auditFile
    <3> QED  BY <2>3, <3>2, <3>3 DEF ActDelete
  <2>4. CASE ActPrune(w)
    <3>1. PICK o \in RewriteOutcomes : Prune(o) /\ UNCHANGED userVars
      BY <2>4 DEF ActPrune
    <3>2. /\ entries' \subseteq entries
          /\ auditLines' \subseteq entries \cup auditLines
          /\ torn' \in {torn, "no"}
          /\ unended' = {} \/ UNCHANGED <<auditLines, unended>>
      BY <3>1, UnexpiredTyped DEF Prune, rewrite, auditFile
    <3> QED  BY <2>1, <3>1, <3>2 DEF TypeOK, StoresTyped, userVars, Prune
  <2>5. CASE ActPayment(w)
    BY <2>1, <2>5 DEF ActPayment, TypeOK, StoresTyped, userVars, auditVars, auditFile
  <2> QED  BY <2>2, <2>3, <2>4, <2>5 DEF Act
<1> QED  BY <1>1, <1>2, <1>3, WorkerTypes DEF TypeOK

LEMMA LookTypes ==
    ASSUME TypeOK, NEW w \in Workers, Look(w)
    PROVE  TypeOK'
<1>1. up /\ Named(job[w]) \in Job
  BY WorkerHasJob, NamedIsJob DEF Look
<1>2. WorkersTyped'
  BY <1>1, ServeTyped DEF Look, Labels
<1>3. StoresTyped'
  BY DEF TypeOK, StoresTyped, Look, userVars, auditVars, auditFile
<1> QED  BY <1>1, <1>2, <1>3, WorkerTypes DEF TypeOK, Look, auditVars, auditFile, counters

LEMMA RecordTypes ==
    ASSUME TypeOK, NEW w \in Workers, Record(w)
    PROVE  TypeOK'
<1>1. up /\ job[w] \in Job /\ EntryOf(job[w]) \in Entry
  BY WorkerHasJob, EntryOfIsEntry DEF Record
<1>2. WorkersTyped'
  BY LeaveTyped DEF Record
<1>3. sessions' \subseteq [name : Names, until : Nat]
  <2>1. [name |-> job[w].by, until |-> job[w].until] \in [name : Names, until : Nat]
    BY <1>1 DEF Job
  <2> QED  BY <2>1 DEF Record, TypeOK
<1>4. PICK o \in AppendOutcomes : Write(EntryOf(job[w]), o)
  BY DEF Record
<1>5. StoresTyped'
  BY <1>1, <1>4 DEF TypeOK, StoresTyped, Record, userVars, Write, appendLine
<1> QED  BY <1>1, <1>2, <1>3, <1>4, <1>5, WorkerTypes DEF Record, Write, counters

\* What the end of the process leaves of the file has its types.
LEMMA CrashStoresTyped ==
    ASSUME TypeOK, CrashBetweenWrites \/ \E w \in Workers : CrashInWrite(w)
    PROVE  /\ usersFile' \in Accounts /\ auditLines' \subseteq Entry
           /\ torn' \in {"no", "open", "yes"} /\ unended' \subseteq auditLines'
<1>1. CASE CrashBetweenWrites
  BY <1>1 DEF CrashBetweenWrites, auditFile, TypeOK
<1>2. ASSUME NEW w \in Workers, CrashInWrite(w)
      PROVE  /\ usersFile' \in Accounts /\ auditLines' \subseteq Entry
             /\ torn' \in {"no", "open", "yes"} /\ unended' \subseteq auditLines'
  <2>1. CASE /\ pc[w] = "record"
             /\ \E o \in AppendOutcomes \ {"ok", "none"} : appendLine(EntryOf(job[w]), o)
             /\ UNCHANGED usersFile
    <3>1. EntryOf(job[w]) \in Entry
      BY <2>1, WorkerHasJob, EntryOfIsEntry
    <3> QED  BY <2>1, <3>1 DEF TypeOK, appendLine
  <2>2. ASSUME NEW n, NEW role \in {"admin", "employee", NULL},
               save([users EXCEPT ![n] = role], "ok"), UNCHANGED auditFile
        PROVE  /\ usersFile' \in Accounts /\ auditLines' \subseteq Entry
               /\ torn' \in {"no", "open", "yes"} /\ unended' \subseteq auditLines'
    <3>1. [users EXCEPT ![n] = role] \in Accounts
      BY EditTyped DEF Role
    <3> QED  BY <2>2, <3>1 DEF TypeOK, save, auditFile
  <2>3. CASE Unexpired(entries) # entries /\ rewrite /\ UNCHANGED usersFile
    BY <2>3, UnexpiredTyped DEF TypeOK, rewrite
  <2>4. \/ /\ pc[w] = "record"
           /\ \E o \in AppendOutcomes \ {"ok", "none"} : appendLine(EntryOf(job[w]), o)
           /\ UNCHANGED usersFile
        \/ /\ \E n : \E role \in {"admin", "employee", NULL} :
                  save([users EXCEPT ![n] = role], "ok")
           /\ UNCHANGED auditFile
        \/ Unexpired(entries) # entries /\ rewrite /\ UNCHANGED usersFile
    BY <1>2 DEF CrashInWrite
  <2> QED  BY <2>1, <2>2, <2>3, <2>4
<1> QED  BY <1>1, <1>2

LEMMA CrashTypes ==
    ASSUME TypeOK, JobsInv, CrashBetweenWrites \/ \E w \in Workers : CrashInWrite(w)
    PROVE  TypeOK'
<1>1. Forget
  BY DEF CrashBetweenWrites, CrashInWrite
<1>2. InProgress' = {} /\ WorkersTyped'
  BY <1>1 DEF Forget, InProgress, WorkersTyped, Labels
<1>3. missed' \subseteq 1..requests
  BY <1>1 DEF Forget, TypeOK, JobsInv
<1>4. NoUsers \in Accounts
  BY DEF NoUsers, Accounts
<1> QED  BY <1>1, <1>2, <1>3, <1>4, CrashStoresTyped DEF Forget, TypeOK, WorkersTyped, Labels

LEMMA StartTypes ==
    ASSUME TypeOK, Start
    PROVE  TypeOK'
<1>1. ~up /\ UNCHANGED <<undeleted, torn, acked, now, sessions, pc, job, missed, requests>>
  BY DEF Start, workerVars, counters
<1>2. PICK name \in RootNames, saved \in SaveOutcomes :
          /\ save(WithRoot(usersFile, name), saved)
          /\ users' \in {users, WithRoot(usersFile, name)}
  BY DEF Start
<1>3. WithRoot(usersFile, name) \in Accounts
  BY DEF TypeOK, WithRoot, Accounts, Role
<1>4. {users', usersFile'} \subseteq Accounts
  BY <1>2, <1>3 DEF TypeOK, save
<1>5. entries' \cup auditLines' \subseteq entries \cup auditLines
  BY UnexpiredTyped DEF Start
<1>6. up' \in BOOLEAN /\ (~up' => users' = users /\ entries' = entries)
  BY DEF Start
<1>7. InProgress' = InProgress
  BY <1>1 DEF InProgress
<1>8. unended' \subseteq auditLines'
  BY DEF TypeOK, Start
<1> QED  BY <1>1, <1>4, <1>5, <1>6, <1>7, <1>8 DEF TypeOK

LEMMA TickTypes ==
    ASSUME TypeOK, Tick
    PROVE  TypeOK'
<1>1. now' \in Nat /\ sessions' \subseteq sessions
  BY DEF TypeOK, Tick
<1>2. InProgress' = InProgress
  BY DEF Tick, workerVars, InProgress
<1> QED  BY <1>1, <1>2 DEF TypeOK, Tick, userVars, auditFile, workerVars, counters

LEMMA UnchangedTypes ==
    ASSUME TypeOK, UNCHANGED vars
    PROVE  TypeOK'
BY DEF TypeOK, vars, userVars, auditVars, auditFile, workerVars, counters, InProgress

LEMMA NextTypes ==
    ASSUME TypeOK, JobsInv, [Next]_vars
    PROVE  TypeOK'
BY ArriveTypes, ActTypes, LookTypes, RecordTypes, CrashTypes, StartTypes, TickTypes,
   UnchangedTypes DEF Next
-----------------------------------------------------------------------------
(* Requests. *)

AllEntries == entries \cup auditLines \cup acked

\* The entries a step adds are about requests that came before it.
Numbered == \A e \in AllEntries' : e.req \in 1..requests

\* What keeps the request of w, or ends it.
GoesOn(w) ==
    \/ Leave(w)
    \/ \E label, r : /\ label \in Labels /\ Serve(w, label, r)
                      /\ r.req = job[w].req
                      /\ r.action = job[w].action
                      /\ r.target = job[w].target

LEMMA OthersStay ==
    ASSUME TypeOK, NEW w \in Workers, NEW label, NEW r, Serve(w, label, r)
    PROVE  \A v \in Workers : v # w => pc'[v] = pc[v] /\ job'[v] = job[v]
BY DEF TypeOK, Serve

LEMMA GoOnKeepsJobs ==
    ASSUME TypeOK, JobsInv, NEW w \in InProgress, GoesOn(w), Numbered,
           UNCHANGED <<up, requests>>
    PROVE  JobsInv'
<1>1. w \in Workers /\ \A v \in Workers : v # w => pc'[v] = pc[v] /\ job'[v] = job[v]
  BY OthersStay DEF GoesOn, Leave, InProgress
<1>2. \/ pc'[w] = "idle"
      \/ /\ job'[w].req = job[w].req
         /\ job'[w].action = job[w].action
         /\ job'[w].target = job[w].target
  BY <1>1 DEF GoesOn, Leave, Serve, TypeOK
<1>3. InProgress' \subseteq InProgress
  BY <1>1 DEF InProgress
<1>4. \A v \in InProgress' : /\ job'[v].req = job[v].req
                             /\ job'[v].action = job[v].action
                             /\ job'[v].target = job[v].target
  BY <1>1, <1>2 DEF InProgress
<1> QED  BY <1>3, <1>4 DEF JobsInv, Numbered, AllEntries

\* A request that arrives has a number that no one had before.
LEMMA ArrivalKeepsJobs ==
    ASSUME TypeOK, JobsInv, NEW w \in Workers, NEW label, NEW r, pc[w] = "idle", up,
           Serve(w, label, r), r.req = requests + 1, requests' = requests + 1,
           r.action \in {"create", "delete"} => r.target \in Names,
           UNCHANGED <<up, entries, auditLines, acked>>
    PROVE  JobsInv'
<1>1. \A v \in Workers : v # w => pc'[v] = pc[v] /\ job'[v] = job[v]
  BY OthersStay
<1>2. job'[w] = r /\ InProgress' \subseteq InProgress \cup {w}
  BY <1>1 DEF Serve, TypeOK, InProgress
<1>3. requests \in Nat /\ 1..requests' = 1..requests \cup {requests + 1}
      /\ requests + 1 \notin 1..requests
  BY DEF TypeOK
<1>4. \A v \in InProgress' : v # w => v \in InProgress /\ job'[v] = job[v]
  BY <1>1 DEF InProgress
<1> QED  BY <1>2, <1>3, <1>4 DEF JobsInv

LEMMA ArriveRequests ==
    ASSUME TypeOK, JobsInv, NEW w \in Workers, Accept(w) \/ Login(w) \/ Logout(w)
    PROVE  JobsInv'
<1>1. PICK label, action, target, by, as, until :
          /\ Serve(w, label, Request(action, target, by, as, until))
          /\ action \in {"create", "delete"} => target \in Names
  <2>1. CASE Accept(w)
    BY <2>1 DEF Accept, Targets
  <2>2. CASE Login(w) \/ Logout(w)
    BY <2>2 DEF Login, Logout
  <2> QED  BY <2>1, <2>2
<1>2. /\ up /\ pc[w] = "idle" /\ requests' = requests + 1
      /\ UNCHANGED <<up, entries, auditLines, acked>>
  BY DEF Accept, Login, Logout, CanAccept, auditVars, auditFile
<1>3. LET r == Request(action, target, by, as, until)
      IN  r.req = requests + 1 /\ r.action = action /\ r.target = target
  BY DEF Request
<1> QED  BY <1>1, <1>2, <1>3, ArrivalKeepsJobs

LEMMA PruneShrinks ==
    ASSUME NEW o, Prune(o)
    PROVE  AllEntries' \subseteq AllEntries
BY UnexpiredTyped DEF Prune, rewrite, auditFile, AllEntries

LEMMA DoneGoesOn ==
    ASSUME NEW w \in Workers, NEW ok, Done(w, ok)
    PROVE  GoesOn(w)
BY DEF Done, GoesOn, Labels

LEMMA ActRequests ==
    ASSUME TypeOK, JobsInv, NEW w \in Workers, Act(w)
    PROVE  JobsInv'
<1>1. w \in InProgress
  BY DEF Act, InProgress
<1>2. \E ok : Done(w, ok)
  BY DEF Act, ActCreate, ActDelete, ActPrune, ActPayment
<1>3. AllEntries' \subseteq AllEntries
  <2>1. CASE UNCHANGED auditVars
    BY <2>1 DEF AllEntries, auditVars, auditFile
  <2>2. CASE \E o : Prune(o)
    BY <2>2, PruneShrinks
  <2> QED  BY <2>1, <2>2 DEF Act, ActCreate, ActDelete, ActPrune, ActPayment
<1>4. Numbered
  BY <1>3 DEF Numbered, JobsInv, AllEntries
<1> QED  BY <1>1, <1>2, <1>4, DoneGoesOn, GoOnKeepsJobs DEF Act, counters

LEMMA LookRequests ==
    ASSUME TypeOK, JobsInv, NEW w \in Workers, Look(w)
    PROVE  JobsInv'
<1>1. w \in InProgress /\ job[w] \in Job
  BY WorkerHasJob DEF Look
<1>2. /\ Named(job[w]).req = job[w].req
      /\ Named(job[w]).action = job[w].action
      /\ Named(job[w]).target = job[w].target
  BY <1>1, NamedIsJob
<1>3. GoesOn(w)
  BY <1>2 DEF Look, GoesOn, Labels
<1>4. Numbered
  BY DEF Numbered, JobsInv, AllEntries, Look, auditVars, auditFile
<1> QED  BY <1>1, <1>3, <1>4, GoOnKeepsJobs DEF Look, counters

LEMMA RecordRequests ==
    ASSUME TypeOK, JobsInv, NEW w \in Workers, Record(w)
    PROVE  JobsInv'
<1>1. w \in InProgress /\ GoesOn(w)
  BY WorkerHasJob DEF Record, GoesOn
<1>2. EntryOf(job[w]).req \in 1..requests
  BY <1>1 DEF EntryOf, JobsInv
<1>3. AllEntries' \subseteq AllEntries \cup {EntryOf(job[w])}
  BY DEF Record, Write, appendLine, AllEntries
<1>4. Numbered
  BY <1>2, <1>3 DEF Numbered, JobsInv, AllEntries
<1> QED  BY <1>1, <1>4, GoOnKeepsJobs DEF Record, counters

\* A new process has no requests.
LEMMA CrashRequests ==
    ASSUME TypeOK, JobsInv, CrashBetweenWrites \/ \E w \in Workers : CrashInWrite(w)
    PROVE  JobsInv'
<1>1. Forget
  BY DEF CrashBetweenWrites, CrashInWrite
<1>2. InProgress' = {} /\ entries' = {} /\ acked' = acked /\ requests' = requests
  BY <1>1 DEF Forget, InProgress
<1>3. \A e \in auditLines' : e.req \in 1..requests
  <2>1. CASE CrashBetweenWrites
    BY <2>1 DEF CrashBetweenWrites, auditFile, JobsInv
  <2>2. ASSUME NEW w \in Workers, CrashInWrite(w)
        PROVE  \A e \in auditLines' : e.req \in 1..requests
    <3>1. CASE UNCHANGED auditLines
      BY <3>1 DEF JobsInv
    <3>2. CASE rewrite
      BY <3>2, UnexpiredTyped DEF rewrite, JobsInv
    <3>3. CASE pc[w] = "record" /\ \E o : appendLine(EntryOf(job[w]), o)
      <4>1. EntryOf(job[w]).req \in 1..requests
        BY <3>3 DEF EntryOf, JobsInv, InProgress
      <4> QED  BY <3>3, <4>1 DEF appendLine, JobsInv
    <3> QED  BY <2>2, <3>1, <3>2, <3>3 DEF CrashInWrite, auditFile
  <2> QED  BY <2>1, <2>2
<1> QED  BY <1>2, <1>3 DEF JobsInv

LEMMA QuietRequests ==
    ASSUME TypeOK, JobsInv, Start \/ Tick \/ UNCHANGED vars
    PROVE  JobsInv'
<1>1. UNCHANGED <<pc, job, requests, acked>>
  BY DEF Start, Tick, vars, workerVars, counters, auditVars, auditFile
<1>2. entries' \cup auditLines' \subseteq entries \cup auditLines
  BY UnexpiredTyped DEF Start, Tick, vars, auditVars, auditFile
<1>3. InProgress' = InProgress
  BY <1>1 DEF InProgress
<1>4. InProgress # {} => up' = up
  BY DEF Start, Tick, vars, TypeOK
<1> QED  BY <1>1, <1>2, <1>3, <1>4 DEF JobsInv

LEMMA NextRequests ==
    ASSUME TypeOK, JobsInv, [Next]_vars
    PROVE  JobsInv'
BY ArriveRequests, ActRequests, LookRequests, RecordRequests, CrashRequests, QuietRequests
   DEF Next
-----------------------------------------------------------------------------
(* Acknowledged entries. *)

\* A step that acknowledges nothing and leaves the end of the file alone.
LEMMA QuietAcked ==
    ASSUME TypeOK, AckedInv, acked' = acked, unended' \in {unended, {}},
           \A v \in InProgress' :
              \A e \in acked : e.req = job'[v].req => v \in InProgress /\ job[v].req = e.req
    PROVE  AckedInv'
BY DEF AckedInv

LEMMA ArriveAcked ==
    ASSUME TypeOK, JobsInv, AckedInv, NEW w \in Workers, Accept(w) \/ Login(w) \/ Logout(w)
    PROVE  AckedInv'
<1>1. PICK label, r : Serve(w, label, r) /\ r.req = requests + 1
  <2>1. PICK label, action, target, by, as, until :
            Serve(w, label, Request(action, target, by, as, until))
    BY DEF Accept, Login, Logout
  <2> QED  BY <2>1 DEF Request
<1>2. UNCHANGED <<acked, unended>>
  BY DEF Accept, Login, Logout, auditVars, auditFile
<1>3. job'[w] = r /\ \A v \in Workers : v # w => pc'[v] = pc[v] /\ job'[v] = job[v]
  BY <1>1, OthersStay DEF Serve, TypeOK
<1>4. \A e \in acked : e.req \in 1..requests /\ e.req # requests + 1
  BY DEF JobsInv, TypeOK
<1> QED  BY <1>1, <1>2, <1>3, <1>4, QuietAcked DEF InProgress

LEMMA WorkerAcked ==
    ASSUME TypeOK, JobsInv, AckedInv, NEW w \in Workers, Act(w) \/ Look(w)
    PROVE  AckedInv'
<1>1. w \in InProgress
  BY DEF Act, Look, InProgress
<1>2. GoesOn(w)
  <2>1. CASE Act(w)
    BY <2>1, DoneGoesOn DEF Act, ActCreate, ActDelete, ActPrune, ActPayment
  <2>2. CASE Look(w)
    BY <2>2, WorkerHasJob, NamedIsJob DEF Look, GoesOn, Labels
  <2> QED  BY <2>1, <2>2
<1>3. acked' = acked /\ unended' \in {unended, {}}
  BY DEF Act, ActCreate, ActDelete, ActPrune, ActPayment, Prune, rewrite, Look, auditVars, auditFile
<1>4. \A v \in Workers : v # w => pc'[v] = pc[v] /\ job'[v] = job[v]
  BY <1>1, <1>2, OthersStay DEF GoesOn, Leave
<1>5. pc'[w] = "idle" \/ job'[w].req = job[w].req
  BY <1>2 DEF GoesOn, Leave, Serve, TypeOK
<1> QED  BY <1>1, <1>3, <1>4, <1>5, QuietAcked DEF InProgress

\* The entry is acknowledged as its request ends; what has no newline is not
\* acknowledged.
LEMMA RecordAcked ==
    ASSUME TypeOK, JobsInv, AckedInv, NEW w \in Workers, Record(w)
    PROVE  AckedInv'
<1>1. w \in InProgress /\ EntryOf(job[w]).req = job[w].req
  BY DEF Record, InProgress, EntryOf
<1>2. PICK o \in AppendOutcomes : Write(EntryOf(job[w]), o)
  BY DEF Record
<1>3. \A v \in InProgress' : v \in InProgress /\ v # w /\ job'[v] = job[v]
  <2>1. pc'[w] = "idle"
    BY DEF Record, Leave, Serve, TypeOK
  <2>2. \A v \in Workers : v # w => pc'[v] = pc[v] /\ job'[v] = job[v]
    BY OthersStay DEF Record, Leave
  <2> QED  BY <2>1, <2>2 DEF InProgress
<1>4. acked' = acked \cup (IF o = "ok" THEN {EntryOf(job[w])} ELSE {})
  BY <1>2 DEF Write
<1>5. \A v \in InProgress' : \A e \in acked' : e.req # job'[v].req
  BY <1>1, <1>3, <1>4 DEF AckedInv, JobsInv
<1>6. unended' \cap acked' = {}
  <2>1. EntryOf(job[w]) \notin acked
    BY <1>1 DEF AckedInv
  <2>2. o = "ok" => unended' = {}
    BY <1>2 DEF Write, appendLine
  <2>3. o # "ok" => unended' \subseteq unended \cup {EntryOf(job[w])} /\ acked' = acked
    BY <1>2, <1>4 DEF Write, appendLine
  <2> QED  BY <2>1, <2>2, <2>3 DEF AckedInv
<1> QED  BY <1>5, <1>6 DEF AckedInv

LEMMA CrashAcked ==
    ASSUME TypeOK, AckedInv, CrashBetweenWrites \/ \E w \in Workers : CrashInWrite(w)
    PROVE  AckedInv'
<1>1. InProgress' = {} /\ acked' = acked
  BY DEF CrashBetweenWrites, CrashInWrite, Forget, InProgress
<1>2. unended' \cap acked = {}
  <2>1. ASSUME NEW w \in Workers, pc[w] = "record", NEW o, appendLine(EntryOf(job[w]), o)
        PROVE  unended' \cap acked = {}
    <3>1. EntryOf(job[w]) \notin acked
      BY <2>1 DEF AckedInv, InProgress, EntryOf
    <3> QED  BY <2>1, <3>1 DEF AckedInv, appendLine
  <2>2. CASE rewrite \/ UNCHANGED auditFile
    BY <2>2 DEF AckedInv, rewrite, auditFile
  <2> QED  BY <2>1, <2>2 DEF CrashBetweenWrites, CrashInWrite
<1> QED  BY <1>1, <1>2 DEF AckedInv

LEMMA NextAcked ==
    ASSUME TypeOK, JobsInv, AckedInv, [Next]_vars
    PROVE  AckedInv'
<1>1. CASE Start \/ Tick \/ UNCHANGED vars
  <2>1. UNCHANGED <<pc, job, acked>> /\ unended' \in {unended, {}}
    BY <1>1 DEF Start, Tick, vars, workerVars, auditVars, auditFile
  <2> QED  BY <2>1, QuietAcked DEF InProgress
<1> QED  BY <1>1, ArriveAcked, WorkerAcked, RecordAcked, CrashAcked DEF Next
-----------------------------------------------------------------------------
(* Accounts. *)

\* An account that is not a root comes or goes: every root stays.
LEMMA EditKeepsRoot ==
    ASSUME TypeOK, HasRoot(users), NEW n \in Names, users[n] # "root",
           NEW role \in Role \cup {NULL}
    PROVE  HasRoot([users EXCEPT ![n] = role])
BY DEF TypeOK, HasRoot, Accounts

LEMMA CreateAgrees ==
    ASSUME TypeOK, AccountsInv, up, up' = up, NEW n \in Names, NEW role, NEW o \in SaveOutcomes,
           Create(n, role, o)
    PROVE  AccountsInv'
<1>1. role \in Role /\ users[n] # "root"
  BY AdminAssumption DEF Create, CanCreate, Role
<1>2. HasRoot([users EXCEPT ![n] = role])
  BY <1>1, EditKeepsRoot DEF AccountsInv
<1>3. \/ usersFile' = users' /\ HasRoot(users')
      \/ UNCHANGED <<users, usersFile, undeleted>>
  BY <1>2 DEF Create, save
<1> QED  BY <1>3 DEF AccountsInv, AccountsAgree, UsersAgree, HasRoot

LEMMA DeleteAgrees ==
    ASSUME TypeOK, AccountsInv, up, up' = up, NEW n \in Names, NEW o \in SaveOutcomes,
           Delete(n, o)
    PROVE  AccountsInv'
<1>1. users[n] # NULL /\ users[n] # "root"
  BY DEF Delete, CanDelete
<1>2. users' = [users EXCEPT ![n] = NULL] /\ HasRoot(users')
  BY <1>1, EditKeepsRoot DEF AccountsInv, Delete
<1>3. CASE o = "ok"
  BY <1>2, <1>3 DEF Delete, save, AccountsInv, AccountsAgree, UsersAgree, HasRoot
<1>4. CASE o # "ok"
  <2>1. usersFile' = usersFile /\ undeleted' = undeleted \cup {n}
    BY <1>4 DEF Delete, save
  \* The file still has the account that memory had.
  <2>2. usersFile[n] = users[n]
    BY <1>1 DEF AccountsInv, AccountsAgree, UsersAgree
  <2>3. users'[n] = NULL /\ \A m \in Names : m # n => users'[m] = users[m]
    BY <1>2 DEF TypeOK, Accounts
  <2> QED  BY <1>1, <1>2, <2>1, <2>2, <2>3 DEF AccountsInv, AccountsAgree, UsersAgree, HasRoot
<1> QED  BY <1>3, <1>4

LEMMA CrashAgrees ==
    ASSUME TypeOK, JobsInv, AccountsInv, CrashBetweenWrites \/ \E w \in Workers : CrashInWrite(w)
    PROVE  AccountsInv'
<1>1. up /\ ~up'
  BY DEF CrashBetweenWrites, CrashInWrite, Forget
<1>2. HasRoot(usersFile')
  <2>1. CASE UNCHANGED usersFile
    BY <1>1, <2>1 DEF AccountsInv
  <2>2. ASSUME NEW w \in Workers, CrashInWrite(w), pc[w] = "act",
               job[w].action \in {"create", "delete"}
        PROVE  HasRoot(usersFile')
    <3>1. job[w].target \in Names
      BY <2>2 DEF JobsInv, InProgress
    <3>2. users[job[w].target] # "root"
      BY <2>2, AdminAssumption DEF CrashInWrite, CanCreate, CanDelete, Role
    <3>3. \E role \in Role \cup {NULL} : usersFile' = [users EXCEPT ![job[w].target] = role]
      BY <2>2 DEF CrashInWrite, save, Role
    <3> QED  BY <1>1, <3>1, <3>2, <3>3, EditKeepsRoot DEF AccountsInv
  <2> QED  BY <2>1, <2>2 DEF CrashBetweenWrites, CrashInWrite
<1> QED  BY <1>1, <1>2 DEF AccountsInv, AccountsAgree, UsersAgree, HasRoot

\* Under whatever name main starts, the file gets a root or has one.
LEMMA StartAgrees ==
    ASSUME TypeOK, AccountsInv, Start
    PROVE  AccountsInv'
<1>1. PICK name \in RootNames, saved \in SaveOutcomes :
          /\ save(WithRoot(usersFile, name), saved)
          /\ up' => /\ users' = WithRoot(usersFile, name)
                    /\ users' # usersFile => saved = "ok"
  BY DEF Start
<1>2. HasRoot(WithRoot(usersFile, name))
  <2>1. name \in Names
    BY AdminAssumption
  <2>2. CASE usersFile[name] = NULL
    BY <2>1, <2>2 DEF TypeOK, Accounts, WithRoot, HasRoot
  <2>3. CASE usersFile[name] # NULL
    BY <2>1, <2>3 DEF AccountsInv, NoUsers, WithRoot, HasRoot
  <2> QED  BY <2>2, <2>3
<1>3. usersFile' = usersFile \/ HasRoot(usersFile')
  BY <1>1, <1>2 DEF save
<1>4. up' => users' = usersFile'
  BY <1>1 DEF save
<1> QED  BY <1>1, <1>2, <1>3, <1>4 DEF AccountsInv, AccountsAgree, UsersAgree, HasRoot

LEMMA QuietAgrees ==
    ASSUME AccountsInv, UNCHANGED <<userVars, up>>
    PROVE  AccountsInv'
BY DEF AccountsInv, AccountsAgree, UsersAgree, HasRoot, userVars

LEMMA ActAgrees ==
    ASSUME TypeOK, JobsInv, AccountsInv, NEW w \in Workers, Act(w)
    PROVE  AccountsInv'
<1>1. up /\ up' = up
  BY WorkerHasJob DEF Act
<1>2. job[w].action \in {"create", "delete"} => job[w].target \in Names
  BY DEF Act, JobsInv, InProgress
<1>3. CASE ActCreate(w)
  BY <1>1, <1>2, <1>3, CreateAgrees, QuietAgrees DEF ActCreate
<1>4. CASE ActDelete(w)
  BY <1>1, <1>2, <1>4, DeleteAgrees, QuietAgrees DEF ActDelete
<1>5. CASE ActPrune(w) \/ ActPayment(w)
  BY <1>1, <1>5, QuietAgrees DEF ActPrune, ActPayment
<1> QED  BY <1>3, <1>4, <1>5 DEF Act

LEMMA NextAgrees ==
    ASSUME TypeOK, JobsInv, AccountsInv, [Next]_vars
    PROVE  AccountsInv'
<1>1. ASSUME NEW w \in Workers, Accept(w) \/ Login(w) \/ Logout(w) \/ Look(w) \/ Record(w)
      PROVE  AccountsInv'
  BY <1>1, QuietAgrees DEF Accept, Login, Logout, Look, Record
<1>2. CASE Tick \/ UNCHANGED vars
  BY <1>2, QuietAgrees DEF Tick, vars
<1> QED  BY <1>1, <1>2, ActAgrees, CrashAgrees, StartAgrees DEF Next
-----------------------------------------------------------------------------
(* Entries. *)

\* An append takes no entry out of the file but the one without its newline,
\* and a broken file stays broken.
LEMMA AppendKeeps ==
    ASSUME NEW e, NEW o, appendLine(e, o)
    PROVE  /\ auditLines \ unended \subseteq auditLines'
           /\ ~CanLoad => ~CanLoad'
           /\ auditLines' \subseteq auditLines \cup {e}
           /\ o = "ok" => (e \in auditLines' \/ ~CanLoad') /\ unended' = {}
           /\ unended' \subseteq unended \cup (IF o = "nonl" THEN {e} ELSE {})
BY DEF appendLine, CanLoad, Continues

LEMMA AppendIsDurable ==
    ASSUME TypeOK, AckedInv, EntriesDurable, NEW e \in Entry, NEW o, Write(e, o),
           UNCHANGED up
    PROVE  EntriesDurable'
<1>1. appendLine(e, o) /\ entries' = entries \cup {e} /\ now' = now
  BY DEF Write
<1>2. acked' \subseteq acked \cup (IF o = "ok" THEN {e} ELSE {})
  BY DEF Write
<1>3. ASSUME NEW a \in Unexpired(acked), a \in auditLines \/ ~CanLoad
      PROVE  a \in auditLines' \/ ~CanLoad'
  BY <1>1, <1>3, AppendKeeps DEF AckedInv, Unexpired
<1> QED  BY <1>1, <1>2, <1>3, AppendKeeps DEF EntriesDurable, AuditDurable, Unexpired, Expired

LEMMA PruneIsDurable ==
    ASSUME EntriesDurable, up, UNCHANGED up, NEW o, Prune(o)
    PROVE  EntriesDurable'
<1>1. UNCHANGED <<acked, now>>
  BY DEF Prune
<1>2. Unexpired(acked) \subseteq Unexpired(entries)
  BY DEF EntriesDurable, AuditDurable, CanLoad, Unexpired
<1>3. \/ UNCHANGED auditFile
      \/ auditLines' = Unexpired(entries)
  BY DEF Prune, rewrite
<1> QED  BY <1>1, <1>2, <1>3 DEF auditFile, EntriesDurable, AuditDurable, CanLoad, Unexpired,
                             Expired, Prune

\* Of an expired entry nothing is promised, and it stays expired.
LEMMA QuietIsDurable ==
    ASSUME TypeOK, EntriesDurable, now' \in {now, now + 1},
           UNCHANGED <<up, entries, auditLines, torn, acked>>
    PROVE  EntriesDurable'
<1>1. \A e \in acked : e.at \in Nat
  BY DEF TypeOK, Entry
<1>2. \A e \in acked : Expired(e) => Expired(e)'
  BY <1>1, AuditAssumption DEF Expired, TypeOK
<1> QED  BY <1>2 DEF EntriesDurable, AuditDurable, CanLoad, Unexpired

LEMMA CrashIsDurable ==
    ASSUME TypeOK, AckedInv, EntriesDurable,
           CrashBetweenWrites \/ \E w \in Workers : CrashInWrite(w)
    PROVE  EntriesDurable'
<1>1. up /\ ~up' /\ UNCHANGED <<acked, now>>
  BY DEF CrashBetweenWrites, CrashInWrite, Forget
<1>2. CASE UNCHANGED auditFile
  BY <1>1, <1>2 DEF auditFile, EntriesDurable, AuditDurable, CanLoad, Unexpired, Expired
<1>3. ASSUME NEW e, NEW o, appendLine(e, o)
      PROVE  EntriesDurable'
  <2>1. ASSUME NEW a \in Unexpired(acked)
        PROVE  a \in auditLines' \/ ~CanLoad'
    BY <1>3, AppendKeeps DEF AckedInv, EntriesDurable, AuditDurable, Unexpired
  <2> QED  BY <1>1, <2>1 DEF EntriesDurable, AuditDurable, Unexpired, Expired
<1>4. CASE rewrite
  BY <1>1, <1>4 DEF rewrite, EntriesDurable, AuditDurable, Unexpired, Expired
<1> QED  BY <1>2, <1>3, <1>4 DEF CrashBetweenWrites, CrashInWrite

LEMMA StartIsDurable ==
    ASSUME EntriesDurable, Start
    PROVE  EntriesDurable'
<1>1. UNCHANGED <<torn, acked, now>>
  BY DEF Start
<1>2. CASE up'
  <2>1. torn = "no" /\ entries' = Unexpired(auditLines) /\ auditLines' = Unexpired(auditLines)
    BY <1>2 DEF Start, CanLoad
  <2> QED  BY <1>1, <2>1 DEF EntriesDurable, AuditDurable, CanLoad, Unexpired, Expired
<1>3. CASE ~up'
  <2>1. auditLines' = auditLines
    BY <1>3 DEF Start
  <2> QED  BY <1>1, <1>3, <2>1 DEF EntriesDurable, AuditDurable, CanLoad, Unexpired, Expired
<1> QED  BY <1>2, <1>3

LEMMA NextIsDurable ==
    ASSUME TypeOK, AckedInv, EntriesDurable, [Next]_vars
    PROVE  EntriesDurable'
<1>1. ASSUME NEW w \in Workers, Accept(w) \/ Login(w) \/ Logout(w) \/ Look(w)
      PROVE  EntriesDurable'
  BY <1>1, QuietIsDurable DEF Accept, Login, Logout, Look, auditVars, auditFile
<1>2. ASSUME NEW w \in Workers, Act(w)
      PROVE  EntriesDurable'
  <2>1. up /\ UNCHANGED up
    BY <1>2, WorkerHasJob DEF Act
  <2>2. CASE UNCHANGED auditVars
    BY <2>1, <2>2, QuietIsDurable DEF auditVars, auditFile
  <2>3. CASE ActPrune(w)
    BY <2>1, <2>3, PruneIsDurable DEF ActPrune
  <2> QED  BY <1>2, <2>2, <2>3 DEF Act, ActCreate, ActDelete, ActPayment
<1>3. ASSUME NEW w \in Workers, Record(w)
      PROVE  EntriesDurable'
  <2>1. EntryOf(job[w]) \in Entry
    BY <1>3, WorkerHasJob, EntryOfIsEntry DEF Record
  <2> QED  BY <1>3, <2>1, AppendIsDurable DEF Record
<1>4. CASE Tick \/ UNCHANGED vars
  BY <1>4, QuietIsDurable DEF Tick, vars, auditVars, auditFile
<1> QED  BY <1>1, <1>2, <1>3, <1>4, CrashIsDurable, StartIsDurable DEF Next
-----------------------------------------------------------------------------
(* Deeds. *)

LEMMA DeedTyped ==
    ASSUME TypeOK, NEW r \in Job
    PROVE  Deed(r) \in DeedSet /\ Deed(r).req = r.req /\ Deed(r).at = now
BY DEF TypeOK, Deed, Job, DeedSet

\* A step of w that adds at most its own deed, and keeps w at work on it.
LEMMA WorkerKeepsDeeds ==
    ASSUME TypeOK, DeedsInv, NEW w \in Workers, NEW label \in Labels \ {"idle"}, NEW r \in Job,
           Serve(w, label, r), UNCHANGED <<up, now, missed, acked>>,
           requests' \in {requests, requests + 1}, r.req \in 1..requests',
           w \in InProgress => r.req = job[w].req,
           \A v \in InProgress : v # w => job[v].req # r.req,
           deeds' \in {deeds, deeds \cup {Deed(r)}},
           label = "act" \/ (label = "look" /\ r.action = "create")
              => deeds' = deeds /\ \A d \in deeds : d.req # r.req,
           \A e \in entries : e \in entries' \/ Expired(e)
    PROVE  DeedsInv'
<1>1. \A v \in Workers : v # w => pc'[v] = pc[v] /\ job'[v] = job[v]
  BY OthersStay
<1>2. pc'[w] = label /\ job'[w] = r /\ w \in InProgress'
  BY DEF Serve, TypeOK, Labels, InProgress
<1>3. \A v \in InProgress : v \in InProgress' /\ job'[v].req = job[v].req
  BY <1>1, <1>2 DEF InProgress
<1>4. 1..requests \subseteq 1..requests'
  BY DEF TypeOK
<1>5. Deed(r) \in DeedSet /\ Deed(r).req = r.req /\ Deed(r).at = now /\ now \in Nat
  BY DeedTyped DEF TypeOK
<1>6. /\ deeds' \subseteq DeedSet
      /\ \A d \in deeds' : d.req \in 1..requests' /\ d.at <= now'
  BY <1>4, <1>5 DEF DeedsInv
<1>7. ASSUME NEW v \in InProgress', Undone(v)', NEW d \in deeds'
      PROVE  d.req # job'[v].req
  <2>1. CASE v = w
    BY <1>2, <1>7, <2>1 DEF Undone
  <2>2. CASE v # w
    <3>1. v \in InProgress /\ Undone(v) /\ job'[v] = job[v]
      BY <1>1, <1>7, <2>2 DEF Undone, InProgress
    <3> QED  BY <1>5, <1>7, <2>2, <3>1 DEF DeedsInv
  <2> QED  BY <2>1, <2>2
<1>8. ASSUME NEW d \in deeds'
      PROVE  Kept(d)'
  <2>1. CASE d = Deed(r)
    BY <1>2, <1>5, <2>1 DEF Kept, Working
  <2>2. CASE d \in deeds
    <3>1. Working(d) => Working(d)'
      BY <1>3 DEF Working
    <3>2. Expired(d) => Expired(d)'
      BY DEF Expired
    <3>3. ASSUME up, RecordedIn(entries, d)
          PROVE  RecordedIn(entries', d) \/ Expired(d)
      <4>1. PICK e \in entries : e.req = d.req /\ d.at <= e.at
        BY <3>3 DEF RecordedIn
      <4>2. CASE e \in entries'
        BY <4>1, <4>2 DEF RecordedIn
      <4>3. CASE Expired(e)
        <5>1. e.at \in Nat /\ d.at \in Nat
          BY <2>2 DEF TypeOK, Entry, DeedsInv, DeedSet
        <5> QED  BY <4>1, <4>3, <5>1, AuditAssumption DEF Expired, TypeOK
      <4> QED  BY <4>2, <4>3
    <3> QED  BY <2>2, <3>1, <3>2, <3>3 DEF DeedsInv, Kept, RecordedIn
  <2> QED  BY <2>1, <2>2
<1> QED  BY <1>6, <1>7, <1>8 DEF DeedsInv

LEMMA ArriveDeeds ==
    ASSUME TypeOK, JobsInv, DeedsInv, NEW w \in Workers, Accept(w) \/ Login(w) \/ Logout(w)
    PROVE  DeedsInv'
<1>1. /\ pc[w] = "idle" /\ w \notin InProgress /\ requests' = requests + 1
      /\ UNCHANGED <<up, now, missed, acked, entries>>
  BY DEF Accept, Login, Logout, CanAccept, InProgress, auditVars, auditFile
<1>2. PICK label, r : /\ label \in Labels \ {"idle"} /\ Serve(w, label, r)
                      /\ r.req = requests + 1
                      /\ deeds' \in {deeds, deeds \cup {Deed(r)}}
                      /\ label # "record" => deeds' = deeds
  <2>1. CASE Accept(w)
    BY <2>1 DEF Accept, First, Request, Labels
  <2>2. CASE Login(w)
    BY <2>2 DEF Login, Request, Labels
  <2>3. CASE Logout(w)
    BY <2>3 DEF Logout, Request, Labels
  <2> QED  BY <2>1, <2>2, <2>3
<1>3. r \in Job
  <2>1. job'[w] = r /\ pc'[w] = label
    BY <1>2 DEF Serve, TypeOK
  <2> QED  BY <1>2, <2>1, ArriveTypes DEF TypeOK
<1>4. requests \in Nat /\ r.req \in 1..requests' /\ r.req \notin 1..requests
  BY <1>1, <1>2 DEF TypeOK
<1>5. /\ \A v \in InProgress : job[v].req # r.req
      /\ \A d \in deeds : d.req # r.req
  BY <1>4 DEF JobsInv, DeedsInv
<1> QED  BY <1>1, <1>2, <1>3, <1>4, <1>5, WorkerKeepsDeeds

\* A request that ends leaves no deed behind that only it accounts for.
LEMMA LeaveKeepsDeeds ==
    ASSUME TypeOK, JobsInv, DeedsInv, NEW w \in InProgress, Leave(w),
           UNCHANGED <<up, now, missed, requests, deeds>>,
           \/ Undone(w) /\ \A e \in entries : e \in entries' \/ Expired(e)
           \/ /\ entries \subseteq entries'
              /\ \A d \in deeds : d.req = job[w].req => RecordedIn(entries', d)
    PROVE  DeedsInv'
<1>1. w \in Workers /\ \A v \in Workers : v # w => pc'[v] = pc[v] /\ job'[v] = job[v]
  BY OthersStay DEF Leave, InProgress
<1>2. /\ InProgress' = InProgress \ {w} /\ up
      /\ \A v \in InProgress' : job'[v] = job[v] /\ pc'[v] = pc[v]
  BY <1>1, WorkerHasJob DEF Leave, Serve, TypeOK, InProgress
<1>3. \A v \in InProgress' : Undone(v)' => \A d \in deeds' : d.req # job'[v].req
  BY <1>2 DEF DeedsInv, Undone
<1>4. ASSUME NEW d \in deeds
      PROVE  Kept(d)'
  <2>1. Expired(d) => Expired(d)'
    BY DEF Expired
  <2>2. Working(d) => Working(d)' \/ d.req = job[w].req
    BY <1>2 DEF Working
  <2>3. d.req = job[w].req => RecordedIn(entries', d)
    BY DEF DeedsInv
  <2>4. ASSUME RecordedIn(entries, d)
        PROVE  RecordedIn(entries', d) \/ Expired(d)
    <3>1. PICK e \in entries : e.req = d.req /\ d.at <= e.at
      BY <2>4 DEF RecordedIn
    <3>2. CASE e \in entries'
      BY <3>1, <3>2 DEF RecordedIn
    <3>3. CASE Expired(e)
      <4>1. e.at \in Nat /\ d.at \in Nat
        BY DEF TypeOK, Entry, DeedsInv, DeedSet
      <4> QED  BY <3>1, <3>3, <4>1, AuditAssumption DEF Expired, TypeOK
    <3> QED  BY <3>2, <3>3
  <2> QED  BY <1>2, <2>1, <2>2, <2>3, <2>4 DEF DeedsInv, Kept, RecordedIn
<1> QED  BY <1>3, <1>4 DEF DeedsInv

LEMMA ActDeeds ==
    ASSUME TypeOK, JobsInv, DeedsInv, NEW w \in Workers, Act(w)
    PROVE  DeedsInv'
<1>1. /\ pc[w] = "act" /\ w \in InProgress /\ job[w] \in Job /\ Undone(w)
      /\ UNCHANGED <<up, now, missed, acked, requests>>
  BY WorkerHasJob DEF Act, ActCreate, ActDelete, ActPrune, ActPayment, Prune, auditVars, auditFile,
                      counters, Undone
<1>2. \A e \in entries : e \in entries' \/ Expired(e)
  BY DEF Act, ActCreate, ActDelete, ActPrune, ActPayment, Prune, auditVars, auditFile, Unexpired
<1>3. PICK ok : Done(w, ok)
  BY DEF Act, ActCreate, ActDelete, ActPrune, ActPayment
<1>4. CASE ok
  <2>1. PICK label \in {"record", "look"} :
            /\ Serve(w, label, job[w]) /\ deeds' = deeds \cup {Deed(job[w])}
            /\ label = "look" => job[w].action # "create"
    BY <1>3, <1>4 DEF Done
  <2>2. /\ job[w].req \in 1..requests
        /\ \A v \in InProgress : v # w => job[v].req # job[w].req
    BY <1>1 DEF JobsInv
  <2> QED  BY <1>1, <1>2, <2>1, <2>2, WorkerKeepsDeeds DEF Labels
<1>5. CASE ~ok
  BY <1>1, <1>2, <1>3, <1>5, LeaveKeepsDeeds DEF Done
<1> QED  BY <1>4, <1>5

LEMMA LookDeeds ==
    ASSUME TypeOK, JobsInv, DeedsInv, NEW w \in Workers, Look(w)
    PROVE  DeedsInv'
<1>1. /\ w \in InProgress /\ job[w] \in Job /\ pc[w] = "look"
      /\ UNCHANGED <<up, now, missed, acked, requests, deeds, entries>>
  BY WorkerHasJob DEF Look, auditVars, auditFile, counters
<1>2. PICK label \in {"act", "record"} :
          Serve(w, label, Named(job[w])) /\ (label = "act" => job[w].action = "create")
  BY DEF Look
<1>3. Named(job[w]) \in Job /\ Named(job[w]).req = job[w].req
  BY <1>1, NamedIsJob
<1>4. label = "act" => \A d \in deeds : d.req # job[w].req
  BY <1>1, <1>2 DEF DeedsInv, Undone
<1>5. /\ job[w].req \in 1..requests
      /\ \A v \in InProgress : v # w => job[v].req # job[w].req
  BY <1>1 DEF JobsInv
<1> QED  BY <1>1, <1>2, <1>3, <1>4, <1>5, WorkerKeepsDeeds DEF Labels

LEMMA RecordDeeds ==
    ASSUME TypeOK, JobsInv, DeedsInv, NEW w \in Workers, Record(w)
    PROVE  DeedsInv'
<1>1. w \in InProgress /\ Leave(w) /\ UNCHANGED <<up, missed, requests, deeds>>
  BY DEF Record, InProgress, counters
<1>2. PICK o \in AppendOutcomes : Write(EntryOf(job[w]), o)
  BY DEF Record
<1>3. entries' = entries \cup {EntryOf(job[w])} /\ now' = now
  BY <1>2 DEF Write
<1>4. EntryOf(job[w]).req = job[w].req /\ EntryOf(job[w]).at = now
  BY DEF EntryOf
<1>5. \A d \in deeds : d.req = job[w].req => RecordedIn(entries', d)
  BY <1>3, <1>4 DEF DeedsInv, RecordedIn
<1> QED  BY <1>1, <1>3, <1>5, LeaveKeepsDeeds

\* The process ends on a request, or on an entry that was not acknowledged.
LEMMA CrashDeeds ==
    ASSUME TypeOK, DeedsInv, CrashBetweenWrites \/ \E w \in Workers : CrashInWrite(w)
    PROVE  DeedsInv'
<1>1. Forget
  BY DEF CrashBetweenWrites, CrashInWrite
<1>2. /\ up /\ ~up' /\ InProgress' = {} /\ UNCHANGED <<acked, now, deeds, requests>>
      /\ missed' = missed \cup {job[w].req : w \in InProgress}
                          \cup {e.req : e \in entries \ acked}
  BY <1>1 DEF Forget, InProgress
<1>3. ASSUME NEW d \in deeds
      PROVE  Kept(d)'
  <2>1. Working(d) => d.req \in missed'
    BY <1>2 DEF Working
  <2>2. RecordedIn(entries, d) => RecordedIn(acked, d) \/ d.req \in missed'
    BY <1>2 DEF RecordedIn
  <2>3. Expired(d) => Expired(d)'
    BY <1>2 DEF Expired
  <2> QED  BY <1>2, <2>1, <2>2, <2>3 DEF DeedsInv, Kept, RecordedIn
<1> QED  BY <1>2, <1>3 DEF DeedsInv

\* What was acknowledged is in the file, and a server that starts shows it.
LEMMA StartDeeds ==
    ASSUME TypeOK, EntriesDurable, DeedsInv, Start
    PROVE  DeedsInv'
<1>1. ~up /\ UNCHANGED <<torn, acked, now, pc, job, deeds, missed, requests>>
  BY DEF Start, workerVars, counters
<1>2. InProgress' = InProgress /\ InProgress = {}
  BY <1>1 DEF InProgress, TypeOK
<1>3. ASSUME NEW d \in deeds
      PROVE  Kept(d)'
  <2>1. Expired(d) => Expired(d)'
    BY <1>1 DEF Expired
  <2>2. CASE ~up'
    BY <1>1, <1>2, <2>1, <2>2 DEF DeedsInv, Kept, RecordedIn, Working
  <2>3. CASE up' /\ RecordedIn(acked, d)
    <3>1. PICK e \in acked : e.req = d.req /\ d.at <= e.at
      BY <2>3 DEF RecordedIn
    <3>2. CASE Expired(e)
      <4>1. e.at \in Nat /\ d.at \in Nat
        BY DEF TypeOK, Entry, DeedsInv, DeedSet
      <4>2. Expired(d)
        BY <3>1, <3>2, <4>1, AuditAssumption DEF Expired, TypeOK
      <4> QED  BY <2>1, <4>2 DEF Kept
    <3>3. CASE ~Expired(e)
      <4>1. torn = "no" /\ entries' = Unexpired(auditLines)
        BY <2>3 DEF Start, CanLoad
      <4>2. e \in entries'
        BY <3>1, <3>3, <4>1 DEF EntriesDurable, AuditDurable, CanLoad, Unexpired
      <4> QED  BY <2>3, <3>1, <4>2 DEF Kept, RecordedIn
    <3> QED  BY <3>2, <3>3
  <2> QED  BY <1>1, <1>2, <2>1, <2>2, <2>3 DEF DeedsInv, Kept, Working
<1> QED  BY <1>1, <1>2, <1>3 DEF DeedsInv

LEMMA QuietDeeds ==
    ASSUME TypeOK, DeedsInv, Tick \/ UNCHANGED vars
    PROVE  DeedsInv'
<1>1. /\ UNCHANGED <<up, entries, acked, pc, job, deeds, missed, requests>>
      /\ now' \in {now, now + 1} /\ now \in Nat
  BY DEF Tick, vars, workerVars, counters, auditVars, auditFile, TypeOK
<1>2. InProgress' = InProgress
  BY <1>1 DEF InProgress
<1>3. ASSUME NEW d \in deeds
      PROVE  Kept(d)' /\ d.at <= now'
  <2>1. d.at \in Nat
    BY DEF DeedsInv, DeedSet
  <2>2. Expired(d) => Expired(d)'
    BY <1>1, <2>1, AuditAssumption DEF Expired
  <2>3. d.at <= now'
    BY <1>1, <2>1 DEF DeedsInv
  <2> QED  BY <1>1, <1>2, <2>2, <2>3 DEF DeedsInv, Kept, Working, RecordedIn
<1> QED  BY <1>1, <1>2, <1>3 DEF DeedsInv, Undone

LEMMA NextDeeds ==
    ASSUME TypeOK, JobsInv, EntriesDurable, DeedsInv, [Next]_vars
    PROVE  DeedsInv'
BY ArriveDeeds, ActDeeds, LookDeeds, RecordDeeds, CrashDeeds, StartDeeds, QuietDeeds DEF Next

LEMMA KeptIsAccounted ==
    ASSUME DeedsInv
    PROVE  DeedsRecorded
BY DEF DeedsInv, Kept, RecordedIn, Working, DeedsRecorded, Accounted
-----------------------------------------------------------------------------
(* Entries tell the truth. *)

TrueEntry(e) ==
    \E d \in deeds :
        /\ <<d.req, d.action, d.target>> = <<e.req, e.action, e.target>>
        /\ \/ <<e.actor, e.role>> = <<d.by, d.as>>
           \/ e.actor = d.by /\ Deleted(d.by)
           \/ <<e.actor, e.role>> = <<"anonymous", NULL>> /\ (Deleted(d.by) \/ d.until < e.at)

LEMMA EveryEntryTrue == EntryIsTrue <=> \A e \in entries \cup auditLines : TrueEntry(e)
BY DEF EntryIsTrue, TrueEntry, Deleted

\* Deeds and deletions are only added.
HistoryGrows == deeds \subseteq deeds' /\ removed \subseteq removed' /\ now' \in {now, now + 1}

LEMMA NextGrows ==
    ASSUME [Next]_vars
    PROVE  HistoryGrows
BY DEF HistoryGrows, Next, Accept, Login, Logout, Act, ActCreate, ActDelete, ActPrune, ActPayment,
       Done, Look, Record, Write, Prune, CrashInWrite, CrashBetweenWrites, Forget, Start, Tick,
       vars, auditVars, auditFile

LEMMA TrueEntryStays ==
    ASSUME HistoryGrows, NEW e, TrueEntry(e)
    PROVE  TrueEntry(e)'
BY DEF HistoryGrows, TrueEntry, Deleted

LEMMA EntriesStayTrue ==
    ASSUME EntryIsTrue, HistoryGrows,
           \A e \in entries' \cup auditLines' : e \in entries \cup auditLines \/ TrueEntry(e)
    PROVE  EntryIsTrue'
<1>1. ASSUME NEW e \in entries' \cup auditLines'
      PROVE  TrueEntry(e)'
  BY <1>1, EveryEntryTrue, TrueEntryStays
<1>2. EntryIsTrue' <=> \A e \in entries' \cup auditLines' : TrueEntry(e)'
  BY DEF EntryIsTrue, TrueEntry, Deleted
<1> QED  BY <1>1, <1>2

LEMMA RecordedIsTrue ==
    ASSUME TypeOK, TruthInv, NEW w \in Workers, pc[w] = "record"
    PROVE  TrueEntry(EntryOf(job[w]))
<1>1. w \in InProgress /\ ~Undone(w)
  BY DEF InProgress, Undone
<1>2. NamesActor(job[w], now) /\ DeedOf(job[w])
  BY <1>1 DEF TruthInv, TrueWorker
<1> QED  BY <1>2 DEF NamesActor, DeedOf, TrueEntry, EntryOf

\* No account gets another role unless it was deleted before.
RolesStay == \A n \in Names : users[n] \in {users'[n], NULL} \/ Deleted(n)'

LEMMA OthersStayTrue ==
    ASSUME TypeOK, TruthInv, HistoryGrows, RolesStay, NEW v \in InProgress,
           pc'[v] = pc[v], job'[v] = job[v]
    PROVE  TrueWorker(v)'
<1>1. TrueWorker(v) /\ job[v] \in Job /\ now \in Nat
  BY WorkerHasJob DEF TruthInv, InProgress, TypeOK
<1>2. NamesActor(job[v], now)'
  BY <1>1 DEF TrueWorker, NamesActor, HistoryGrows, Deleted, Job
<1>3. ~Undone(v)' => DeedOf(job[v])'
  BY <1>1 DEF TrueWorker, Undone, DeedOf, HistoryGrows
<1>4. pc'[v] \in {"act", "look"} =>
          job'[v].as # NULL /\ (users'[job'[v].by] = job'[v].as \/ Deleted(job[v].by)')
  BY <1>1 DEF TrueWorker, Deleted, HistoryGrows, RolesStay, Job
<1> QED  BY <1>2, <1>3, <1>4 DEF TrueWorker

\* A step of w needs a look at w only.
LEMMA WorkerStaysTrue ==
    ASSUME TypeOK, TruthInv, HistoryGrows, RolesStay, EntryIsTrue', NEW w \in Workers,
           NEW label, NEW r, Serve(w, label, r),
           w \in InProgress' => TrueWorker(w)'
    PROVE  TruthInv'
<1>1. \A v \in Workers : v # w => pc'[v] = pc[v] /\ job'[v] = job[v]
  BY OthersStay
<1>2. \A v \in InProgress' : v # w => v \in InProgress
  BY <1>1 DEF InProgress
<1>3. \A v \in InProgress' : TrueWorker(v)'
  BY <1>1, <1>2, OthersStayTrue DEF InProgress
<1> QED  BY <1>3 DEF TruthInv

LEMMA SameRoles ==
    ASSUME UNCHANGED userVars
    PROVE  RolesStay
BY DEF RolesStay, userVars

LEMMA DoneIsDeed ==
    ASSUME NEW w \in Workers, NEW r, job'[w] = r, deeds' = deeds \cup {Deed(r)}
    PROVE  DeedOf(job[w])'
<1>1. PICK d \in deeds' : d = Deed(r)
  OBVIOUS
<1>2. /\ d.req = r.req /\ d.action = r.action /\ d.target = r.target
      /\ d.by = r.by /\ d.as = r.as /\ d.until = r.until
  BY <1>1 DEF Deed
<1> QED  BY <1>2 DEF DeedOf

LEMMA ArriveTrue ==
    ASSUME TypeOK, TruthInv, HistoryGrows, NEW w \in Workers, Accept(w) \/ Login(w) \/ Logout(w)
    PROVE  TruthInv'
<1>1. RolesStay /\ UNCHANGED <<users, entries, auditLines>>
  BY SameRoles DEF Accept, Login, Logout, userVars, auditVars, auditFile
<1>2. EntryIsTrue'
  BY <1>1, EntriesStayTrue DEF TruthInv
<1>3. CASE Accept(w)
  <2>1. PICK s \in sessions, action \in Actions :
            /\ CurrentRole(s) \in RolesFor(action)
            /\ \E target \in Targets(action) :
                  Serve(w, First(action), Request(action, target, s.name, CurrentRole(s), s.until))
    BY <1>3 DEF Accept
  <2>2. PICK target \in Targets(action) :
            Serve(w, First(action), Request(action, target, s.name, CurrentRole(s), s.until))
    BY <2>1
  <2>3. CurrentRole(s) # NULL /\ CurrentRole(s) = users[s.name]
    BY <2>1, AdminAssumption DEF RolesFor, Role, CurrentRole
  <2>4. pc'[w] = First(action)
        /\ job'[w] = Request(action, target, s.name, CurrentRole(s), s.until)
    BY <2>2 DEF Serve, TypeOK
  <2>5. TrueWorker(w)'
    BY <1>1, <2>3, <2>4 DEF TrueWorker, NamesActor, Undone, Request, First
  <2> QED  BY <1>1, <1>2, <2>2, <2>5, WorkerStaysTrue
<1>4. CASE Login(w) \/ Logout(w)
  <2>1. PICK r : /\ Serve(w, "record", r) /\ deeds' = deeds \cup {Deed(r)}
                 /\ r.actor = r.by /\ r.role = r.as
    <3>1. CASE Login(w)
      BY <3>1 DEF Login, Request
    <3>2. CASE Logout(w)
      BY <3>2 DEF Logout, Request
    <3> QED  BY <1>4, <3>1, <3>2
  <2>2. pc'[w] = "record" /\ job'[w] = r
    BY <2>1 DEF Serve, TypeOK
  <2>3. DeedOf(job[w])'
    BY <2>1, <2>2, DoneIsDeed
  <2>4. TrueWorker(w)'
    BY <2>1, <2>2, <2>3 DEF TrueWorker, NamesActor
  <2> QED  BY <1>1, <1>2, <2>1, <2>4, WorkerStaysTrue
<1> QED  BY <1>3, <1>4

\* A created account did not exist; a deleted one is remembered.
LEMMA ActRoles ==
    ASSUME TypeOK, JobsInv, NEW w \in Workers, Act(w)
    PROVE  RolesStay
<1>1. CASE UNCHANGED userVars
  BY <1>1, SameRoles
<1>2. ASSUME NEW n, NEW role, NEW o, Create(n, role, o)
      PROVE  RolesStay
  BY <1>2 DEF Create, CanCreate, RolesStay, TypeOK, Accounts
<1>3. ASSUME NEW n, NEW o, NEW req, Delete(n, o),
             removed' = removed \cup {[name |-> n, req |-> req, at |-> now]}
      PROVE  RolesStay
  <2>1. Deleted(n)'
    <3>1. PICK r \in removed' : r = [name |-> n, req |-> req, at |-> now]
      BY <1>3
    <3> QED  BY <3>1 DEF Deleted
  <2>2. \A m \in Names : m # n => users'[m] = users[m]
    BY <1>3 DEF Delete, TypeOK, Accounts
  <2> QED  BY <2>1, <2>2 DEF RolesStay, Deleted
<1> QED  BY <1>1, <1>2, <1>3 DEF Act, ActCreate, ActDelete, ActPrune, ActPayment

LEMMA ActTrue ==
    ASSUME TypeOK, JobsInv, TruthInv, HistoryGrows, NEW w \in Workers, Act(w)
    PROVE  TruthInv'
<1>1. pc[w] = "act" /\ w \in InProgress /\ job[w] \in Job /\ RolesStay
  BY WorkerHasJob, ActRoles DEF Act
<1>2. EntryIsTrue'
  <2>1. entries' \cup auditLines' \subseteq entries \cup auditLines
    BY UnexpiredTyped DEF Act, ActCreate, ActDelete, ActPrune, ActPayment, Prune, rewrite, auditVars, auditFile
  <2> QED  BY <2>1, EntriesStayTrue DEF TruthInv
<1>3. PICK ok : Done(w, ok)
  BY DEF Act, ActCreate, ActDelete, ActPrune, ActPayment
<1>4. CASE ok
  <2>1. PICK label \in {"record", "look"} :
            Serve(w, label, job[w]) /\ deeds' = deeds \cup {Deed(job[w])}
    BY <1>3, <1>4 DEF Done
  <2>2. pc'[w] = label /\ job'[w] = job[w] /\ now \in Nat
    BY <2>1 DEF Serve, TypeOK
  <2>3. DeedOf(job[w])'
    BY <2>1, <2>2, DoneIsDeed
  <2>4. TrueWorker(w)
    BY <1>1 DEF TruthInv
  <2>5. NamesActor(job[w], now)'
    BY <1>1, <2>2, <2>4 DEF TrueWorker, NamesActor, Deleted, HistoryGrows, Job
  <2>6. job'[w].as # NULL /\ (users'[job'[w].by] = job'[w].as \/ Deleted(job[w].by)')
    BY <1>1, <2>2, <2>4 DEF TrueWorker, Deleted, HistoryGrows, RolesStay, Job
  <2>7. TrueWorker(w)'
    BY <2>3, <2>5, <2>6 DEF TrueWorker
  <2> QED  BY <1>1, <1>2, <2>1, <2>7, WorkerStaysTrue
<1>5. CASE ~ok
  <2>1. Serve(w, "idle", NULL) /\ w \notin InProgress'
    BY <1>3, <1>5 DEF Done, Leave, Serve, TypeOK, InProgress
  <2> QED  BY <1>1, <1>2, <2>1, WorkerStaysTrue
<1> QED  BY <1>4, <1>5

\* The second look finds the operator as the first did, or has a reason not to.
LEMMA LookTrue ==
    ASSUME TypeOK, TruthInv, HistoryGrows, NEW w \in Workers, Look(w)
    PROVE  TruthInv'
<1>1. /\ pc[w] = "look" /\ w \in InProgress /\ job[w] \in Job /\ TrueWorker(w)
      /\ UNCHANGED <<users, now, removed, deeds, entries, auditLines>> /\ RolesStay
  BY WorkerHasJob, SameRoles DEF Look, TruthInv, userVars, auditVars, auditFile
<1>2. EntryIsTrue'
  BY <1>1, EntriesStayTrue DEF TruthInv
<1>3. PICK r : /\ r = Named(job[w])
               /\ <<r.req, r.action, r.target>> = <<job[w].req, job[w].action, job[w].target>>
               /\ <<r.by, r.as, r.until>> = <<job[w].by, job[w].as, job[w].until>>
  BY <1>1, NamedIsJob
<1>4. LET found == CurrentRole([name |-> job[w].by, until |-> job[w].until])
      IN  /\ r.actor = IF found = NULL THEN "anonymous" ELSE r.by
          /\ r.role = found
  BY <1>1, <1>3 DEF Named, Job
<1>5. \/ <<r.actor, r.role>> = <<r.by, users[r.by]>>
      \/ /\ <<r.actor, r.role>> = <<"anonymous", NULL>>
         /\ users[r.by] = NULL \/ r.until < now
  BY <1>1, <1>3, <1>4 DEF CurrentRole, Valid, Job, TypeOK
<1>6. NamesActor(r, now)
  BY <1>1, <1>3, <1>5 DEF TrueWorker, NamesActor
<1>7. /\ job'[w] = r
      /\ pc'[w] = IF job[w].action = "create" THEN "act" ELSE "record"
  BY <1>3 DEF Look, Serve, TypeOK
<1>8. NamesActor(job[w], now)'
  BY <1>1, <1>6, <1>7 DEF NamesActor, Deleted
<1>9. ~Undone(w)' => DeedOf(job[w])'
  BY <1>1, <1>3, <1>7 DEF TrueWorker, Undone, DeedOf
<1>10. job'[w].as # NULL /\ (users'[job'[w].by] = job'[w].as \/ Deleted(job[w].by)')
  BY <1>1, <1>3, <1>7 DEF TrueWorker, Deleted
<1>11. TrueWorker(w)'
  BY <1>8, <1>9, <1>10 DEF TrueWorker
<1> QED  BY <1>1, <1>2, <1>11, WorkerStaysTrue DEF Look

LEMMA RecordTrue ==
    ASSUME TypeOK, TruthInv, HistoryGrows, NEW w \in Workers, Record(w)
    PROVE  TruthInv'
<1>1. RolesStay /\ pc[w] = "record"
  BY SameRoles DEF Record
<1>2. TrueEntry(EntryOf(job[w]))
  BY <1>1, RecordedIsTrue
<1>3. entries' \cup auditLines' \subseteq entries \cup auditLines \cup {EntryOf(job[w])}
  BY DEF Record, Write, appendLine
<1>4. EntryIsTrue'
  <2>1. ASSUME NEW e \in entries' \cup auditLines'
        PROVE  e \in entries \cup auditLines \/ TrueEntry(e)
    BY <1>2, <1>3, <2>1
  <2> QED  BY <2>1, EntriesStayTrue DEF TruthInv
<1>5. Serve(w, "idle", NULL) /\ w \notin InProgress'
  BY DEF Record, Leave, Serve, TypeOK, InProgress
<1> QED  BY <1>1, <1>4, <1>5, WorkerStaysTrue

LEMMA CrashTrue ==
    ASSUME TypeOK, TruthInv, HistoryGrows,
           CrashBetweenWrites \/ \E w \in Workers : CrashInWrite(w)
    PROVE  TruthInv'
<1>1. Forget
  BY DEF CrashBetweenWrites, CrashInWrite
<1>2. InProgress' = {} /\ entries' = {}
  BY <1>1 DEF Forget, InProgress
<1>3. EntryIsTrue'
  <2>1. CASE auditLines' \subseteq entries \cup auditLines
    BY <1>2, <2>1, EntriesStayTrue DEF TruthInv
  <2>2. ASSUME NEW w \in Workers, pc[w] = "record", NEW o, appendLine(EntryOf(job[w]), o)
        PROVE  EntryIsTrue'
    <3>1. TrueEntry(EntryOf(job[w]))
      BY <2>2, RecordedIsTrue
    <3>2. entries' \cup auditLines' \subseteq entries \cup auditLines \cup {EntryOf(job[w])}
      BY <1>2, <2>2, AppendKeeps
    <3>3. ASSUME NEW e \in entries' \cup auditLines'
          PROVE  e \in entries \cup auditLines \/ TrueEntry(e)
      BY <3>1, <3>2, <3>3
    <3> QED  BY <3>3, EntriesStayTrue DEF TruthInv
  <2>3. CASE rewrite \/ UNCHANGED auditFile
    BY <2>1, <2>3, UnexpiredTyped DEF rewrite, auditFile
  <2> QED  BY <2>1, <2>2, <2>3 DEF CrashBetweenWrites, CrashInWrite
<1> QED  BY <1>2, <1>3 DEF TruthInv

LEMMA QuietTrue ==
    ASSUME TypeOK, TruthInv, HistoryGrows, Start \/ Tick \/ UNCHANGED vars
    PROVE  TruthInv'
<1>1. UNCHANGED <<pc, job>> /\ InProgress' = InProgress
  BY DEF Start, Tick, vars, workerVars, InProgress
<1>2. entries' \cup auditLines' \subseteq entries \cup auditLines
  BY UnexpiredTyped DEF Start, Tick, vars, auditVars, auditFile
<1>3. EntryIsTrue'
  BY <1>2, EntriesStayTrue DEF TruthInv
<1>4. InProgress # {} => RolesStay
  BY SameRoles DEF Start, Tick, vars, TypeOK
<1>5. \A v \in InProgress : TrueWorker(v)'
  BY <1>1, <1>4, OthersStayTrue
<1> QED  BY <1>1, <1>3, <1>5 DEF TruthInv

LEMMA NextTrue ==
    ASSUME TypeOK, JobsInv, TruthInv, [Next]_vars
    PROVE  TruthInv'
BY NextGrows, ArriveTrue, ActTrue, LookTrue, RecordTrue, CrashTrue, QuietTrue DEF Next
-----------------------------------------------------------------------------
(* Theorems. *)

LEMMA InitInvariant == Init => IInv
<1> SUFFICES ASSUME Init PROVE IInv
  OBVIOUS
<1>1. TypeOK
  BY InitTypes
<1>2. /\ InProgress = {} /\ entries \cup auditLines \cup acked = {} /\ deeds = {} /\ ~up
      /\ usersFile = NoUsers \/ HasRoot(usersFile)
  BY AdminAssumption DEF Init, InProgress, HasRoot
<1>3. JobsInv /\ AckedInv /\ AccountsInv
  BY <1>2 DEF JobsInv, AckedInv, AccountsInv, AccountsAgree, UsersAgree
<1>4. EntriesDurable /\ DeedsInv /\ TruthInv
  BY <1>2 DEF EntriesDurable, AuditDurable, Unexpired, DeedsInv, TruthInv, EntryIsTrue
<1> QED  BY <1>1, <1>3, <1>4 DEF IInv

\* The invariant holds in every reachable state.
THEOREM AdminInvariant == Spec => []IInv
<1>1. IInv /\ [Next]_vars => IInv'
  BY NextTypes, NextRequests, NextAcked, NextAgrees, NextIsDurable, NextDeeds, NextTrue DEF IInv
<1> QED  BY InitInvariant, <1>1, PTL DEF Spec

\* Every variable keeps its type, and only a running process has memory.
THEOREM AdminTypes == Spec => []TypeOK
<1>1. IInv => TypeOK
  BY DEF IInv
<1> QED  BY <1>1, AdminInvariant, PTL

\* What Create and Delete acknowledged is what a restart brings back, however
\* saves fail and requests overlap.
THEOREM AdminAccountsAgree == Spec => []AccountsAgree
<1>1. IInv => AccountsAgree
  BY DEF IInv, AccountsInv
<1> QED  BY <1>1, AdminInvariant, PTL

\* A running server has a root in memory, and the root is in the file, too:
\* neither deletes nor starts under other names take the last one away.
THEOREM AdminRootStays == Spec => []RootStays
<1>1. IInv => RootStays
  <2> SUFFICES ASSUME IInv, up PROVE \E n \in Names : users[n] = "root" /\ usersFile[n] = "root"
    BY DEF RootStays
  <2>1. PICK n \in Names : users[n] = "root"
    BY DEF IInv, AccountsInv, HasRoot
  \* What was deleted in memory only is not in memory.
  <2>2. users[n] # NULL
    BY <2>1, AdminAssumption DEF Role
  <2> QED  BY <2>1, <2>2 DEF IInv, AccountsInv, AccountsAgree, UsersAgree
<1> QED  BY <1>1, AdminInvariant, PTL

\* An acknowledged audit entry is not lost before its time.
THEOREM AdminEntriesDurable == Spec => []EntriesDurable
<1>1. IInv => EntriesDurable
  BY DEF IInv
<1> QED  BY <1>1, AdminInvariant, PTL

\* Every entry is of a deed that was done, and names who was allowed to do it,
\* unless that account was ever deleted or the session expired.
THEOREM AdminEntryIsTrue == Spec => []EntryIsTrue
<1>1. IInv => EntryIsTrue
  BY DEF IInv, TruthInv
<1> QED  BY <1>1, AdminInvariant, PTL

\* What a handler did and reported as done is in the audit log, unless the
\* process ended on it or its time is over.
THEOREM AdminDeedsRecorded == Spec => []DeedsRecorded
<1>1. IInv => DeedsRecorded
  BY KeptIsAccounted DEF IInv
<1> QED  BY <1>1, AdminInvariant, PTL
=============================================================================
