---------------------------- MODULE ChannelHealth ----------------------------
(***************************************************************************)
(* The health of the payment channels: Registry (internal/payment/         *)
(* registry.go), its monitor (cmd/pay233-server/main.go) and the manual    *)
(* check of an operator (internal/httpapi/admin.go).                       *)
(*                                                                         *)
(* A checker, the monitor or an operator's request, asks one target after  *)
(* the other under one deadline, publishes each answer in the registry,    *)
(* and then writes the audit entries for the answers it found:             *)
(*                                                                         *)
(*   starting -> idle -> asking <-> waiting -> publishing -> announcing    *)
(*                                                        -> recording     *)
(*                                                                         *)
(* Checkers overlap.  A target is a channel in one environment; which ones *)
(* there are is fixed before the first check.  Nothing here outlives the   *)
(* process but the audit log.                                              *)
(***************************************************************************)
EXTENDS ChannelConfig

CONSTANTS
    Monitor,     \* the goroutine that checks at every tick
    Admins,      \* operators who may check by hand, one request each
    MaxChecks,   \* bound: sweeps that each checker begins
    MaxChanges   \* bound: times an endpoint changes

Keys == HealthKeys
Remote == {k \in Range(Targets) : Mode[k] = "url"}
Checkers == {Monitor} \cup Admins

ASSUME HealthAssumption ==
    /\ Targets # <<>>
    /\ Monitor \notin Admins
    /\ MaxChecks \in [Checkers -> Nat]
    /\ MaxChanges \in Nat

VARIABLES
    endpoint,  \* what each health_url would answer; "hangs": nothing
    health,    \* Registry.health: the status shown and when its check began
    pc, at,    \* where each checker is, and at which target
    stamp,     \* when the check in progress began (LastCheckedAt)
    answer,    \* what the provider returned
    found,     \* the results still to be recorded
    known,     \* what a checker compares them with: previous, or before
    expired,   \* the checker's context is done
    stopped,   \* stopMonitor was called
    audit,     \* the audit log as AuditStore.List shows it
    clock, checks, changes  \* a clock that only orders, two bound counters

checkerVars == <<pc, at, stamp, answer, found, known, expired>>
vars == <<endpoint, health, checkerVars, stopped, audit, clock, checks, changes>>

Shown == [k \in Keys |-> health[k].status]

\* Register puts Info() in the map: "ok", and never checked.  An endpoint that
\* is down from the start is one that changes before the first check.
Init ==
    /\ endpoint = [k \in Remote |-> "ok"]
    /\ health = [k \in Keys |-> [status |-> "ok", checked |-> 0]]
    /\ pc = [c \in Checkers |-> IF c = Monitor THEN "starting" ELSE "idle"]
    /\ at = [c \in Checkers |-> 1]
    /\ stamp = [c \in Checkers |-> 0]
    /\ answer = [c \in Checkers |-> "ok"]
    /\ found = [c \in Checkers |-> <<>>]
    /\ known = [c \in Checkers |-> Shown]
    /\ expired = [c \in Checkers |-> FALSE]
    /\ stopped = FALSE
    /\ audit = <<>>
    /\ clock = 0 /\ changes = 0
    /\ checks = [c \in Checkers |-> 0]

Sweeping(c) == pc[c] \notin {"starting", "idle", "returned"}

-----------------------------------------------------------------------------
\* The monitor's goroutine takes its first look at the registry, which an
\* operator may have changed already.
Start ==
    /\ pc[Monitor] = "starting"
    /\ pc' = [pc EXCEPT ![Monitor] = "idle"]
    /\ known' = [known EXCEPT ![Monitor] = Shown]
    /\ UNCHANGED <<endpoint, health, at, stamp, answer, found, expired, stopped,
                   audit, clock, checks, changes>>

\* Mutant of Baseline: the monitor, too, compares with the registry.
RegistryBaseline(c) == Shown

\* The monitor keeps its own results, a manual check looks at the registry.
Baseline(c) == IF c = Monitor THEN known[c] ELSE Shown

\* A tick, or a request.  After Stop the monitor may still see the tick first,
\* with a context that is done already, and the server still takes requests
\* until Shutdown closes its listener.
Begin(c) ==
    /\ pc[c] = "idle"
    /\ checks[c] < MaxChecks[c]
    /\ pc' = [pc EXCEPT ![c] = "asking"]
    /\ at' = [at EXCEPT ![c] = 1]
    /\ known' = [known EXCEPT ![c] = Baseline(c)]
    /\ expired' = [expired EXCEPT ![c] = stopped /\ c = Monitor]
    /\ checks' = [checks EXCEPT ![c] = @ + 1]
    /\ UNCHANGED <<endpoint, health, stamp, answer, found, stopped, audit, clock, changes>>

\* CheckHealth notes the time and sends its request.
Ask(c) ==
    /\ pc[c] = "asking"
    /\ clock' = clock + 1
    /\ stamp' = [stamp EXCEPT ![c] = clock + 1]
    /\ pc' = [pc EXCEPT ![c] = "waiting"]
    /\ UNCHANGED <<endpoint, health, at, answer, found, known, expired, stopped,
                   audit, checks, changes>>

\* Mutants of Answers: a failed request leaves the status unset; the request is
\* sent without the context.
AnswersOrNothing(c) ==
    LET k == Targets[at[c]]
    IN  IF k \notin Remote THEN {Mode[k]}
        ELSE IF expired[c] THEN {""} ELSE {endpoint[k]} \ {"hangs"}

AnswersInItsTime(c) ==
    LET k == Targets[at[c]]
    IN  IF k \notin Remote THEN {Mode[k]} ELSE {endpoint[k]} \ {"hangs"}

\* What CheckHealth can return now.  A fixed status needs no request; a context
\* that is done fails every other target.
Answers(c) ==
    LET k == Targets[at[c]]
    IN  IF k \notin Remote THEN {Mode[k]}
        ELSE IF expired[c] THEN {"down"} ELSE {endpoint[k]} \ {"hangs"}

Hear(c) ==
    /\ pc[c] = "waiting"
    /\ \E s \in Answers(c) : answer' = [answer EXCEPT ![c] = s]
    /\ pc' = [pc EXCEPT ![c] = "publishing"]
    /\ UNCHANGED <<endpoint, health, at, stamp, found, known, expired, stopped,
                   audit, clock, checks, changes>>

\* The deadline passes, the operator's browser goes away, or the monitor's
\* context was cancelled: whatever the sweep has not asked yet fails.
Expire(c) ==
    /\ pc[c] \in {"asking", "waiting", "publishing"}
    /\ ~expired[c]
    /\ expired' = [expired EXCEPT ![c] = TRUE]
    /\ UNCHANGED <<endpoint, health, pc, at, stamp, answer, found, known, stopped,
                   audit, clock, checks, changes>>

\* CheckChannelHealthForEnv stores the result under the lock, whatever is
\* there.  After the last one nothing depends on the context any more.
Publish(c) ==
    LET k == Targets[at[c]]
        last == at[c] = Len(Targets)
    IN  /\ pc[c] = "publishing"
        /\ health' = [health EXCEPT ![k] = [status |-> answer[c], checked |-> stamp[c]]]
        /\ found' = [found EXCEPT ![c] =
               Append(@, [target |-> k, status |-> answer[c], check |-> stamp[c]])]
        /\ at' = [at EXCEPT ![c] = IF last THEN 1 ELSE @ + 1]
        /\ stamp' = [stamp EXCEPT ![c] = 0]
        /\ answer' = [answer EXCEPT ![c] = "ok"]
        /\ expired' = [expired EXCEPT ![c] = @ \/ last]
        /\ pc' = [pc EXCEPT ![c] = CASE ~last -> "asking"
                                     [] last /\ c = Monitor -> "recording"
                                     [] OTHER -> "announcing"]
        /\ UNCHANGED <<endpoint, known, stopped, audit, clock, checks, changes>>

\* A manual check first records that it was made.
Announce(c) ==
    /\ pc[c] = "announcing"
    /\ audit' = Append(audit, [actor |-> c, action |-> "manual_check"])
    /\ pc' = [pc EXCEPT ![c] = "recording"]
    /\ UNCHANGED <<endpoint, health, at, stamp, answer, found, known, expired,
                   stopped, clock, checks, changes>>

\* Mutant of Notable: only changes are recorded.
NotableChange(old, new) == old # new

Notable(old, new) == new # "ok" \/ old # new

\* One turn of the loop over the results.  Write keeps the entry in memory even
\* when the file fails, and both callers go on.
Record(c) ==
    LET info == Head(found[c])
        old == known[c][info.target]
        entry == [actor |-> c, action |-> "status", target |-> info.target,
                  previous |-> old, status |-> info.status, check |-> info.check]
    IN  /\ pc[c] = "recording"
        /\ audit' = IF Notable(old, info.status) THEN Append(audit, entry) ELSE audit
        /\ known' = IF c = Monitor
                    THEN [known EXCEPT ![c][info.target] = info.status]
                    ELSE known
        /\ found' = [found EXCEPT ![c] = Tail(@)]
        /\ pc' = [pc EXCEPT ![c] = IF Len(found[c]) = 1 THEN "idle" ELSE @]
        /\ UNCHANGED <<endpoint, health, at, stamp, answer, expired, stopped, clock,
                       checks, changes>>

\* A signal: main calls stopMonitor and waits for the requests in progress.
Stop ==
    /\ ~stopped
    /\ stopped' = TRUE
    /\ expired' = [expired EXCEPT ![Monitor] = TRUE]
    /\ UNCHANGED <<endpoint, health, pc, at, stamp, answer, found, known, audit,
                   clock, checks, changes>>

Return ==
    /\ stopped /\ pc[Monitor] = "idle"
    /\ pc' = [pc EXCEPT ![Monitor] = "returned"]
    /\ UNCHANGED <<endpoint, health, at, stamp, answer, found, known, expired,
                   stopped, audit, clock, checks, changes>>

\* The channel's own endpoint.
EndpointChanges ==
    /\ changes < MaxChanges
    /\ changes' = changes + 1
    /\ \E k \in Remote, s \in Status \cup {"hangs"} :
           endpoint' = [endpoint EXCEPT ![k] = s]
    /\ UNCHANGED <<health, checkerVars, stopped, audit, clock, checks>>

GoOn(c) == Ask(c) \/ Hear(c) \/ Expire(c) \/ Publish(c) \/ Announce(c) \/ Record(c)

Next ==
    \/ Start \/ Stop \/ Return \/ EndpointChanges
    \/ \E c \in Checkers : Begin(c) \/ GoOn(c)

Spec == Init /\ [][Next]_vars

\* A sweep's goroutine is scheduled, the locks are handed on, and a request
\* that is not answered ends at the deadline.
FairSpec == Spec /\ \A c \in Checkers : WF_vars(GoOn(c))
-----------------------------------------------------------------------------
Result == [target : Keys, status : Status, check : Nat]

Entry == [actor : Checkers, action : {"manual_check"}]
    \cup [actor : Checkers, action : {"status"}, target : Keys, previous : Status,
          status : Status, check : Nat]

\* The variables keep their types: registry.go, main.go and admin.go agree on
\* what a status is and where a sweep can be.
TypeOK ==
    /\ endpoint \in [Remote -> Status \cup {"hangs"}]
    /\ health \in [Keys -> [status : Status, checked : Nat]]
    /\ pc \in [Checkers -> {"starting", "idle", "asking", "waiting", "publishing",
                            "announcing", "recording", "returned"}]
    /\ at \in [Checkers -> DOMAIN Targets]
    /\ stamp \in [Checkers -> Nat]
    /\ answer \in [Checkers -> Status]
    /\ found \in [Checkers -> Seq(Result)]
    /\ \A c \in Checkers : pc[c] = "recording" => found[c] # <<>>
    /\ known \in [Checkers -> [Keys -> Status]]
    /\ expired \in [Checkers -> BOOLEAN]
    /\ stopped \in BOOLEAN
    /\ audit \in Seq(Entry)
    /\ clock \in Nat /\ changes \in Nat
    /\ checks \in [Checkers -> Nat]

About(k) == {i \in DOMAIN audit : audit[i].action = "status" /\ audit[i].target = k}
Automatic(k) == {i \in About(k) : audit[i].actor = Monitor}

\* The automatic entries about a target are a history without gaps: each starts
\* from the status the one before it ended with, and the last one ends with
\* what the monitor knows, however manual checks change the registry meanwhile.
TrailIsChained ==
    \A k \in Keys : \A i \in Automatic(k) :
        LET later == {j \in Automatic(k) : j > i}
        IN  IF later = {}
            THEN known[Monitor][k] = audit[i].status
            ELSE \E j \in later : /\ \A l \in later : j <= l
                                  /\ audit[j].previous = audit[i].status

\* Whatever unhealthy status the dashboard shows has an audit entry of the very
\* check that found it, or its checker is still on the way to write it.
UnhealthyIsRecorded ==
    \A k \in Keys : health[k].status # "ok" =>
        \/ \E i \in About(k) : /\ audit[i].check = health[k].checked
                               /\ audit[i].status = health[k].status
        \/ \E c \in Checkers : \E i \in DOMAIN found[c] :
               found[c][i].check = health[k].checked

\* README.md:174, "Top-level `credentials` and `options` are shared defaults.
\* Environment blocks override only the keys they define": once checked, a target
\* shows the health_status that its environment gives it, or else the shared
\* one, whatever the other environments, channels and endpoints do.  Of several
\* channels of one name this is the last enabled one.
OwnStatusShown ==
    \A c \in Providers : \A env \in Range(HealthEnvironments(c)) :
        LET shared == Option(c.options, "health_status")
            own == IF env \in DOMAIN c.environments THEN c.environments[env] ELSE <<>>
            wanted == IF "health_status" \in DOMAIN own THEN own.health_status ELSE shared
        IN  health[<<c.name, env>>].checked # 0 /\ wanted # ""
                => health[<<c.name, env>>].status = Fixed(wanted)

\* A sweep ends, whether the endpoints answer or not: the monitor never stays
\* with a channel that hangs, and an operator gets an answer.
SweepEnds == \A c \in Checkers : []<>~Sweeping(c)

\* README.md:130, "The dashboard shows each channel's latest health": no result
\* replaces the result of a check that began later.
LatestShown == [][\A k \in Keys : health'[k].checked >= health[k].checked]_health
=============================================================================
