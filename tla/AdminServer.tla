----------------------------- MODULE AdminServer -----------------------------
(***************************************************************************)
(* The operators' requests (internal/httpapi/admin.go) over the UserStore  *)
(* and the AuditStore, and the process that holds both                     *)
(* (cmd/pay233-server/main.go).                                            *)
(*                                                                         *)
(* A request runs in a goroutine of its own, a worker.  It looks its       *)
(* operator up twice: withRoles does before the handler, to see whether    *)
(* the role may act, and the handler does to name the actor in the audit   *)
(* entry.  In between the deed is done, and others delete accounts:        *)
(*                                                                         *)
(*   idle --Accept--> act --Act---> look --Look--> record --Record--> idle *)
(*        --Accept--> look -Look--> act --Act----> record     (create)     *)
(*        --Login, Logout-------------------------> record                 *)
(*                                                                         *)
(* Marking a payment lost and retrying its callback are one deed here,     *)
(* "payment"; what they do to it is in PaymentService.  The entries of     *)
(* health checks are in ChannelHealth.  A request that is refused changes  *)
(* nothing.                                                                *)
(***************************************************************************)
EXTENDS UserStore, AuditStore

CONSTANTS
    Workers,       \* requests that may be in progress at the same time
    RootNames,     \* the names main's configuration may give to root
    FirstUsers,    \* what the users file may hold in the beginning
    SessionLife,   \* 12 hours, in ticks of the clock
    MaxRequests,   \* bound: requests
    MaxCrashes,    \* bound: times the process ends
    MaxTime        \* bound: ticks of the clock

ASSUME AdminAssumption ==
    /\ RootNames \subseteq Names /\ RootNames # {}
    /\ FirstUsers \subseteq Accounts
    \* a file comes from an earlier process, which had a root
    /\ \A map \in FirstUsers : map = NoUsers \/ \E n \in Names : map[n] = "root"
    /\ {SessionLife, MaxRequests, MaxCrashes, MaxTime} \subseteq Nat
    /\ NULL \notin Names \cup Role

VARIABLES
    up,        \* the process runs
    sessions,  \* cookies in browsers: whose, and until when
    pc, job,   \* where each worker is, and its request
    deeds,     \* history: what requests did, and who was allowed to
    removed,   \* history: accounts that left the memory of a process
    missed,    \* history: requests whose entry ended with a process
    requests, crashes  \* bound counters

workerVars == <<pc, job>>
counters == <<requests, crashes>>
vars == <<userVars, auditVars, up, sessions, workerVars, deeds, removed, missed, counters>>

Cookie(n) == [name |-> n, until |-> now + SessionLife]

\* The server keeps no sessions: a cookie outlives the process that made it.
Init ==
    /\ usersFile \in FirstUsers
    /\ users = NoUsers /\ undeleted = {}
    /\ entries = {} /\ auditLines = {} /\ torn = "no" /\ unended = {} /\ acked = {} /\ now = 0
    /\ up = FALSE
    /\ sessions = {Cookie(n) : n \in {m \in Names : usersFile[m] # NULL}}
    /\ pc = [w \in Workers |-> "idle"]
    /\ job = [w \in Workers |-> NULL]
    /\ deeds = {} /\ removed = {} /\ missed = {}
    /\ requests = 0 /\ crashes = 0

-----------------------------------------------------------------------------
(* Who asks. *)

\* verifyAdminToken
Valid(s) == s.until >= now

\* currentAdmin: the account the cookie names, as it is now.
CurrentRole(s) == IF Valid(s) THEN users[s.name] ELSE NULL

\* The withRoles of Routes.
RolesFor(action) == IF action = "payment" THEN {"root", "admin"} ELSE {"root"}

Actions == {"create", "delete", "prune", "payment"}

\* A request.  by, as: who was let in; actor, role: who is named in the entry.
Job == [ req : Nat, action : Actions \cup {"login", "login_failed", "logout"},
         target : Names \cup {NULL}, by : Names, as : Role \cup {NULL}, until : Nat,
         actor : Names \cup {"anonymous"}, role : Role \cup {NULL} ]

ASSUME NullAssumption == NULL \notin Job

\* What a request is about: an account, or nothing.
Targets(action) == IF action \in {"create", "delete"} THEN Names ELSE {NULL}

Request(action, target, by, as, until) ==
    [ req |-> requests + 1, action |-> action, target |-> target,
      by |-> by, as |-> as, until |-> until, actor |-> by, role |-> as ]

Deed(r) ==
    [ req |-> r.req, action |-> r.action, target |-> r.target,
      by |-> r.by, as |-> r.as, until |-> r.until, at |-> now ]

CanAccept(w) == up /\ pc[w] = "idle" /\ requests < MaxRequests

First(action) == IF action = "create" THEN "look" ELSE "act"

Serve(w, label, r) ==
    /\ pc' = [pc EXCEPT ![w] = label]
    /\ job' = [job EXCEPT ![w] = r]

Leave(w) == Serve(w, "idle", NULL)

\* withRoles lets the request pass to its handler.
Accept(w) ==
    /\ CanAccept(w)
    /\ requests' = requests + 1
    /\ \E s \in sessions, action \in Actions : \E target \in Targets(action) :
          /\ CurrentRole(s) \in RolesFor(action)
          /\ Serve(w, First(action), Request(action, target, s.name, CurrentRole(s), s.until))
    /\ UNCHANGED <<userVars, auditVars, up, sessions, deeds, removed, missed, crashes>>

\* Who logs in knows the password of the account, or does not.
Login(w) ==
    /\ CanAccept(w)
    /\ requests' = requests + 1
    /\ \E n \in Names :
          LET known == Request("login", NULL, n, users[n], Cookie(n).until)
              unknown == Request("login_failed", NULL, n, NULL, now)
          IN  \/ users[n] # NULL /\ Serve(w, "record", known) /\ deeds' = deeds \cup {Deed(known)}
              \/ Serve(w, "record", unknown) /\ deeds' = deeds \cup {Deed(unknown)}
    /\ UNCHANGED <<userVars, auditVars, up, sessions, removed, missed, crashes>>

\* Only who is still logged in gets an entry.
Logout(w) ==
    /\ CanAccept(w)
    /\ requests' = requests + 1
    /\ \E s \in sessions :
          LET r == Request("logout", NULL, s.name, CurrentRole(s), s.until)
          IN  /\ CurrentRole(s) # NULL
              /\ Serve(w, "record", r)
              /\ deeds' = deeds \cup {Deed(r)}
    /\ UNCHANGED <<userVars, auditVars, up, sessions, removed, missed, crashes>>
-----------------------------------------------------------------------------
(* What the handler does. *)

\* Mutant of Done: the entry is written before the deed can fail.
DoneAnyway(w, ok) ==
    /\ deeds' = IF ok THEN deeds \cup {Deed(job[w])} ELSE deeds
    /\ Serve(w, IF job[w].action = "create" THEN "record" ELSE "look", job[w])

\* An error ends the request without an entry.
Done(w, ok) ==
    /\ deeds' = IF ok THEN deeds \cup {Deed(job[w])} ELSE deeds
    /\ IF ok THEN Serve(w, IF job[w].action = "create" THEN "record" ELSE "look", job[w])
             ELSE Leave(w)

ActCreate(w) ==
    LET n == job[w].target
    IN  /\ job[w].action = "create"
        /\ \/ \E role \in {"admin", "employee"}, o \in SaveOutcomes :
                 Create(n, role, o) /\ Done(w, o = "ok")
           \/ users[n] # NULL /\ UNCHANGED userVars /\ Done(w, FALSE)
        /\ UNCHANGED <<auditVars, removed>>

ActDelete(w) ==
    LET n == job[w].target
    IN  /\ job[w].action = "delete"
        /\ \/ \E o \in SaveOutcomes :
                 /\ Delete(n, o) /\ Done(w, o = "ok")
                 /\ removed' = removed \cup {[name |-> n, req |-> job[w].req, at |-> now]}
           \/ ~CanDelete(n) /\ UNCHANGED <<userVars, removed>> /\ Done(w, FALSE)
        /\ UNCHANGED auditVars

\* PruneExpired returns no error when it has nothing to rewrite.
ActPrune(w) ==
    /\ job[w].action = "prune"
    /\ \E o \in RewriteOutcomes : Prune(o) /\ Done(w, o = "ok" \/ entries' = entries)
    /\ UNCHANGED <<userVars, removed>>

\* A retry whose POST fails is reported as done, too; only a payment that is
\* not there, has no notify_url or cannot be stored ends without an entry.
ActPayment(w) ==
    /\ job[w].action = "payment"
    /\ \E ok \in BOOLEAN : Done(w, ok)
    /\ UNCHANGED <<userVars, auditVars, removed>>

Act(w) ==
    /\ pc[w] = "act"
    /\ ActCreate(w) \/ ActDelete(w) \/ ActPrune(w) \/ ActPayment(w)
    /\ UNCHANGED <<up, sessions, missed, counters>>

\* Mutant of Named: audit does not replace the empty name.
NamedOrNot(r) ==
    LET role == CurrentRole([name |-> r.by, until |-> r.until])
    IN  [r EXCEPT !.actor = IF role = NULL THEN NULL ELSE r.by, !.role = role]

\* The second currentAdmin: who is gone is "anonymous" and has no role.
Named(r) ==
    LET role == CurrentRole([name |-> r.by, until |-> r.until])
    IN  [r EXCEPT !.actor = IF role = NULL THEN "anonymous" ELSE r.by, !.role = role]

\* Mutant of Look: no actor, no entry, as in adminLogout.
LookOrLeave(w) ==
    /\ pc[w] = "look"
    /\ IF Named(job[w]).role = NULL /\ job[w].action # "create"
       THEN Leave(w)
       ELSE Serve(w, IF job[w].action = "create" THEN "act" ELSE "record", Named(job[w]))
    /\ UNCHANGED <<userVars, auditVars, up, sessions, deeds, removed, missed, counters>>

Look(w) ==
    /\ pc[w] = "look"
    /\ Serve(w, IF job[w].action = "create" THEN "act" ELSE "record", Named(job[w]))
    /\ UNCHANGED <<userVars, auditVars, up, sessions, deeds, removed, missed, counters>>

EntryOf(r) ==
    [ req |-> r.req, action |-> r.action, target |-> r.target,
      actor |-> r.actor, role |-> r.role, at |-> now ]

\* audit, whose errors are only logged, and then the answer: it gives the
\* browser a cookie, or takes it away.  To the server a cookie stays good.
Record(w) ==
    LET cookie == [name |-> job[w].by, until |-> job[w].until]
    IN  /\ pc[w] = "record"
        /\ \E o \in AppendOutcomes : Write(EntryOf(job[w]), o)
        /\ sessions' = CASE job[w].action = "login" -> sessions \cup {cookie}
                         [] job[w].action = "logout" -> sessions \ {cookie}
                         [] OTHER -> sessions
        /\ Leave(w)
        /\ UNCHANGED <<userVars, up, deeds, removed, missed, counters>>
-----------------------------------------------------------------------------
(* The process.                                                            *)

InProgress == {w \in Workers : pc[w] # "idle"}

\* Memory and requests are gone.
Forget ==
    /\ up /\ up' = FALSE
    /\ crashes < MaxCrashes /\ crashes' = crashes + 1
    /\ users' = NoUsers /\ undeleted' = {} /\ entries' = {}
    /\ pc' = [w \in Workers |-> "idle"]
    /\ job' = [w \in Workers |-> NULL]
    /\ missed' = missed \cup {job[w].req : w \in InProgress}
                        \cup {e.req : e \in entries \ acked}
    /\ UNCHANGED <<acked, now, sessions, deeds, removed, requests>>

CrashBetweenWrites == Forget /\ UNCHANGED <<usersFile, auditFile>>

\* A worker's file is written or renamed, and the process ends before the
\* worker is told; or it ends in the middle of a line.
CrashInWrite(w) ==
    /\ Forget
    /\ \/ /\ pc[w] = "record"
          /\ \E o \in AppendOutcomes \ {"ok", "none"} : appendLine(EntryOf(job[w]), o)
          /\ UNCHANGED usersFile
       \/ /\ pc[w] = "act" /\ job[w].action = "create"
          /\ \E role \in {"admin", "employee"} :
                /\ CanCreate(job[w].target, role)
                /\ save([users EXCEPT ![job[w].target] = role], "ok")
          /\ UNCHANGED auditFile
       \/ /\ pc[w] = "act" /\ job[w].action = "delete"
          /\ CanDelete(job[w].target)
          /\ save([users EXCEPT ![job[w].target] = NULL], "ok")
          /\ UNCHANGED auditFile
       \/ /\ pc[w] = "act" /\ job[w].action = "prune"
          /\ Unexpired(entries) # entries /\ rewrite
          /\ UNCHANGED usersFile

\* main opens both stores and prunes; any error ends it, but what it saved by
\* then stays.  The name in the configuration may be another one each time.
Start ==
    \E name \in RootNames, saved \in SaveOutcomes, pruned \in RewriteOutcomes :
        LET map == WithRoot(usersFile, name)
            kept == Unexpired(auditLines)
            saves == map # usersFile
            prunes == kept # auditLines
            fails == \/ saves /\ saved # "ok"
                     \/ ~CanLoad
                     \/ prunes /\ pruned # "ok"
        IN  /\ ~up /\ up' = ~fails
            /\ save(map, saved)
            /\ users' = IF fails THEN users ELSE map
            /\ entries' = IF fails THEN entries ELSE kept
            /\ auditLines' = IF fails THEN auditLines ELSE kept
            /\ unended' = IF ~fails /\ prunes THEN {} ELSE unended
            /\ UNCHANGED <<undeleted, torn, acked, now, sessions, workerVars,
                           deeds, removed, missed, counters>>

\* A browser forgets a cookie when it expires.
Tick ==
    /\ now < MaxTime
    /\ now' = now + 1
    /\ sessions' = {s \in sessions : s.until >= now'}
    /\ UNCHANGED <<userVars, entries, auditFile, acked, up, workerVars,
                   deeds, removed, missed, counters>>

Next ==
    \/ \E w \in Workers :
           \/ Accept(w) \/ Login(w) \/ Logout(w)
           \/ Act(w) \/ Look(w) \/ Record(w)
           \/ CrashInWrite(w)
    \/ CrashBetweenWrites
    \/ Start
    \/ Tick

Spec == Init /\ [][Next]_vars
-----------------------------------------------------------------------------
(* Properties. *)

Entry == [ req : Nat, action : Actions \cup {"login", "login_failed", "logout"},
           target : Names \cup {NULL}, actor : Names \cup {"anonymous"},
           role : Role \cup {NULL}, at : Nat ]

\* Every variable keeps its type, and only a running process has memory.
TypeOK ==
    /\ {users, usersFile} \subseteq Accounts
    /\ undeleted \subseteq Names
    /\ entries \cup auditLines \cup acked \subseteq Entry
    /\ torn \in {"no", "open", "yes"} /\ unended \subseteq auditLines
    /\ up \in BOOLEAN
    /\ sessions \subseteq [name : Names, until : Nat]
    /\ pc \in [Workers -> {"idle", "act", "look", "record"}]
    /\ job \in [Workers -> Job \cup {NULL}]
    /\ \A w \in Workers : pc[w] = "idle" <=> job[w] = NULL
    /\ {now, requests} \subseteq Nat
    /\ missed \subseteq 1..requests
    /\ ~up => users = NoUsers /\ entries = {} /\ InProgress = {}

\* What Create and Delete acknowledged is what a restart brings back, however
\* saves fail and requests overlap.
AccountsAgree == UsersAgree(up)

\* There is always a root to log in with, in memory and in the file: neither
\* deletes nor restarts under another configured name take the last one
\* (README.md: "`root`: full access").
RootStays == up => \E n \in Names : users[n] = "root" /\ usersFile[n] = "root"

\* An acknowledged audit entry is not lost before its time.
EntriesDurable == AuditDurable(up)

\* The audit log tells the truth: whatever entry it shows is of a deed that was
\* done, and names who was allowed to do it.  Only one whose account was ever
\* deleted has another role there, or no name, and one whose session expired no
\* name.
EntryIsTrue ==
    \A e \in entries \cup auditLines : \E d \in deeds :
        LET deleted == \E r \in removed : r.name = d.by
        IN  /\ <<d.req, d.action, d.target>> = <<e.req, e.action, e.target>>
            /\ \/ <<e.actor, e.role>> = <<d.by, d.as>>
               \/ e.actor = d.by /\ deleted
               \/ /\ <<e.actor, e.role>> = <<"anonymous", NULL>>
                  /\ (deleted \/ d.until < e.at)

\* There is an entry about request d.req, or there will be, or its time is over,
\* or the process ended on it.
Accounted(d) ==
    \/ \E e \in entries : e.req = d.req
    \/ \E w \in InProgress : job[w].req = d.req
    \/ Expired(d)
    \/ d.req \in missed

\* Whatever a handler did and reported as done is in the audit log that List
\* shows, even when its operator's account or session ended meanwhile or the
\* append failed; only the end of the process takes a request's entry away.
DeedsRecorded == up => \A d \in deeds : Accounted(d)

\* README.md:102, "All login, account, payment-operation, callback-retry, and
\* audit-prune actions are written to the append-only audit log": no account
\* leaves the server without an entry.
RemovalsRecorded == up => \A r \in removed : Accounted(r)
=============================================================================
