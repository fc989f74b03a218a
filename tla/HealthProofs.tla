----------------------------- MODULE HealthProofs -----------------------------
(***************************************************************************)
(* What the dashboard and the audit log say of the channels, for any       *)
(* configuration, any number of operators and sweeps, however the          *)
(* endpoints, the deadlines and the sweeps of others interfere.            *)
(***************************************************************************)
EXTENDS ChannelHealth, SequenceTheorems, WellFoundedInduction, TLAPS

-----------------------------------------------------------------------------
(* The targets. *)

\* A set of naturals that is not empty has a least element.
LEMMA LeastNatural ==
    ASSUME NEW S \in SUBSET Nat, S # {}
    PROVE  \E n \in S : \A m \in S : n <= m
<1>1. \A x, y \in Nat : <<y, x>> \in OpToRel(<, Nat) <=> y < x
  BY DEF OpToRel
<1>2. \E R : IsWellFoundedOn(R, Nat) /\ \A x, y \in Nat : <<y, x>> \in R <=> y < x
  BY <1>1, NatLessThanWellFounded, Zenon
<1>3. PICK R : IsWellFoundedOn(R, Nat) /\ \A x, y \in Nat : <<y, x>> \in R <=> y < x
  BY <1>2
<1>4. PICK x \in S : \A y \in S : ~ (<<y, x>> \in R)
  BY <1>3, WFMin
<1>5. \A y \in S : ~ (y < x)
  BY <1>3, <1>4
<1> QED  BY <1>5

\* A set that holds zero and with each number the next one holds all naturals.
LEMMA Induction ==
    ASSUME NEW S \in SUBSET Nat, 0 \in S, \A n \in Nat : n \in S => n + 1 \in S
    PROVE  S = Nat
<1> SUFFICES ASSUME Nat \ S # {} PROVE FALSE
  OBVIOUS
<1>1. PICK n \in Nat \ S : \A m \in Nat \ S : n <= m
  BY LeastNatural
<1>2. n - 1 \in Nat /\ n = (n - 1) + 1
  BY <1>1
<1>3. n - 1 \in S
  BY <1>1, <1>2
<1> QED  BY <1>1, <1>2, <1>3

Environments == {"", "test", "release"}

Enabled == {c \in Range(Config) : c.enabled}

Target == {c.name : c \in Enabled} \X Environments

LEMMA EnvironmentsType ==
    ASSUME NEW channel
    PROVE  HealthEnvironments(channel) \in Seq(Environments)
<1>1. "" \in Environments /\ "test" \in Environments /\ "release" \in Environments
  BY DEF Environments
<1>2. \A env \in Environments : <<env>> \in Seq(Environments)
  OBVIOUS
<1>3. <<>> \in Seq(Environments)
  OBVIOUS
<1>4. Given(channel, "test") \in Seq(Environments)
  BY <1>1, <1>2, <1>3 DEF Given
<1>5. Given(channel, "release") \in Seq(Environments)
  BY <1>1, <1>2, <1>3 DEF Given
<1>6. Given(channel, "test") \o Given(channel, "release") \in Seq(Environments)
  BY <1>4, <1>5, ConcatProperties
<1> QED  BY <1>1, <1>2, <1>6 DEF HealthEnvironments

LEMMA TargetsOfType ==
    ASSUME NEW channel \in Enabled
    PROVE  /\ TargetsOf(channel) \in Seq(Target)
           /\ \A env \in Range(HealthEnvironments(channel)) :
                 <<channel.name, env>> \in Range(TargetsOf(channel))
<1> DEFINE envs == HealthEnvironments(channel)
<1>1. envs \in Seq(Environments)
  BY EnvironmentsType
<1>2. TargetsOf(channel) = [i \in DOMAIN envs |-> <<channel.name, envs[i]>>]
  BY DEF TargetsOf
<1> HIDE DEF envs
<1>3. Len(envs) \in Nat /\ DOMAIN envs = 1..Len(envs)
  BY <1>1
<1>4. \A i \in 1..Len(envs) : <<channel.name, envs[i]>> \in Target
  <2>1. channel.name \in {c.name : c \in Enabled}
    OBVIOUS
  <2>2. \A i \in 1..Len(envs) : envs[i] \in Environments
    BY <1>1
  <2> QED  BY <2>1, <2>2 DEF Target
<1>5. TargetsOf(channel) \in Seq(Target)
  <2>1. [i \in 1..Len(envs) |-> <<channel.name, envs[i]>>] \in Seq(Target)
    BY <1>3, <1>4, IsASeq
  <2> QED  BY <1>2, <1>3, <2>1
<1>6. \A env \in Range(envs) : <<channel.name, env>> \in Range(TargetsOf(channel))
  BY <1>2 DEF Range
<1> QED  BY <1>5, <1>6 DEF envs

\* What the channel at n adds to the targets.
Part(n) == IF Registered(n) THEN TargetsOf(Config[n]) ELSE <<>>

LEMMA PartType ==
    ASSUME NEW n \in DOMAIN Config
    PROVE  /\ Part(n) \in Seq(Target)
           /\ Range(Part(n)) \subseteq HealthKeys
<1>1. CASE Registered(n)
  <2>1. Config[n] \in Enabled /\ Part(n) = TargetsOf(Config[n])
    BY <1>1 DEF Registered, Enabled, Part, Range
  <2>2. Range(TargetsOf(Config[n])) \subseteq HealthKeys
    BY <2>1 DEF HealthKeys, Enabled
  <2> QED  BY <2>1, <2>2, TargetsOfType
<1>2. CASE ~ Registered(n)
  BY <1>2 DEF Part, Range
<1> QED  BY <1>1, <1>2

\* The function in the definition of Targets, for the first N channels.
First(f, N) ==
    [n \in 0..N |-> IF n = 0 THEN <<>> ELSE f[n-1] \o Part(n)]

LEMMA FirstExists == \A N \in Nat : \E f : f = First(f, N)
<1> DEFINE S == {N \in Nat : \E f : f = First(f, N)}
<1>1. 0 \in S
  <2> DEFINE f == [n \in 0..0 |-> <<>>]
  <2>1. f = First(f, 0)
    BY DEF First
  <2> QED  BY <2>1
<1>2. ASSUME NEW N \in Nat, N \in S
      PROVE  N + 1 \in S
  <2>1. PICK f : f = First(f, N)
    BY <1>2
  <2> DEFINE g == [n \in 0..(N+1) |-> IF n <= N THEN f[n] ELSE f[N] \o Part(N+1)]
  <2>2. \A n \in 0..(N+1) : g[n] = IF n = 0 THEN <<>> ELSE g[n-1] \o Part(n)
    <3> SUFFICES ASSUME NEW n \in 0..(N+1)
                 PROVE  g[n] = IF n = 0 THEN <<>> ELSE g[n-1] \o Part(n)
      OBVIOUS
    <3>1. CASE n = 0
      BY <2>1, <3>1 DEF First
    <3>2. CASE n \in 1..N
      <4>0. n \in 0..N /\ n # 0
        BY <3>2
      <4>1. f[n] = f[n-1] \o Part(n)
        BY <2>1, <4>0 DEF First
      <4>2. n <= N /\ n - 1 <= N /\ n - 1 \in 0..(N+1) /\ n # 0
        BY <3>2
      <4>3. g[n] = f[n] /\ g[n-1] = f[n-1]
        BY <4>2
      <4> HIDE DEF g
      <4> QED  BY <4>1, <4>2, <4>3
    <3>3. CASE n = N + 1
      <4>1. n - 1 = N /\ n # 0 /\ ~ (n <= N) /\ N \in 0..(N+1) /\ N <= N
        BY <3>3
      <4>2. g[N] = f[N] /\ g[n] = f[N] \o Part(N+1)
        BY <4>1
      <4> QED  BY <3>3, <4>1, <4>2
    <3> QED  BY <3>1, <3>2, <3>3
  <2>3. DOMAIN g = 0..(N+1) /\ g = [n \in 0..(N+1) |-> g[n]]
    OBVIOUS
  <2> HIDE DEF g
  <2>4. g = First(g, N+1)
    BY <2>2, <2>3 DEF First
  <2> QED  BY <2>4
<1> HIDE DEF S
<1>3. S = Nat
  <2>1. S \in SUBSET Nat
    BY DEF S
  <2> QED  BY <1>1, <1>2, <2>1, Induction
<1> QED  BY <1>3 DEF S

\* The targets are a sequence of keys of the registry, and each environment
\* that the health checks of a provider go through is among them.
LEMMA TargetsType ==
    /\ Targets \in Seq(Target)
    /\ Range(Targets) \subseteq Keys
    /\ \A c \in Providers : \A env \in Range(HealthEnvironments(c)) :
          <<c.name, env>> \in Range(Targets)
<1> DEFINE N == Len(Config)
           first == CHOOSE f : f = First(f, N)
           Covers(n) == /\ \A i \in 1..n : Range(Part(i)) \subseteq Range(first[n])
                        /\ Range(first[n]) \subseteq HealthKeys
           S == {n \in Nat : n <= N => first[n] \in Seq(Target) /\ Covers(n)}
<1>1. Targets = first[N]
  BY DEF Targets, First, Part
<1>2. N \in Nat /\ DOMAIN Config = 1..N
  BY ConfigAssumption
<1>3. first = First(first, N)
  BY <1>2, FirstExists
<1> HIDE DEF first
<1>4. 0 \in S
  <2>1. first[0] = <<>>
    BY <1>2, <1>3 DEF First
  <2>2. first[0] \in Seq(Target)
    BY <2>1
  <2>3. Covers(0)
    BY <2>1 DEF Range
  <2> HIDE DEF Covers
  <2> QED  BY <2>2, <2>3
<1>5. ASSUME NEW n \in Nat, n \in S
      PROVE  n + 1 \in S
  <2> SUFFICES ASSUME n + 1 <= N
               PROVE  first[n+1] \in Seq(Target) /\ Covers(n+1)
    OBVIOUS
  <2>1. n <= N /\ n + 1 \in 0..N /\ n + 1 # 0 /\ (n + 1) - 1 = n /\ n + 1 \in DOMAIN Config
    BY <1>2
  <2>2. first[n+1] = first[n] \o Part(n+1)
    BY <1>3, <2>1 DEF First
  <2>3. first[n] \in Seq(Target) /\ Covers(n)
    BY <1>5, <2>1
  <2>4. Part(n+1) \in Seq(Target) /\ Range(Part(n+1)) \subseteq HealthKeys
    BY <2>1, PartType
  <2>5. /\ first[n+1] \in Seq(Target)
        /\ Range(first[n+1]) = Range(first[n]) \cup Range(Part(n+1))
    BY <2>2, <2>3, <2>4, ConcatProperties, RangeConcatenation
  <2>6. \A i \in 1..(n+1) : i \in 1..n \/ i = n + 1
    OBVIOUS
  <2>7. Covers(n+1)
    BY <2>3, <2>4, <2>5, <2>6
  <2> QED  BY <2>5, <2>7
<1>6. S = Nat
  <2>1. S \in SUBSET Nat
    OBVIOUS
  <2> HIDE DEF S
  <2> QED  BY <1>4, <1>5, <2>1, Induction
<1>7. /\ Targets \in Seq(Target) /\ Range(Targets) \subseteq Keys
      /\ \A i \in 1..N : Range(Part(i)) \subseteq Range(Targets)
  BY <1>1, <1>2, <1>6 DEF Keys
<1>8. ASSUME NEW c \in Providers, NEW env \in Range(HealthEnvironments(c))
      PROVE  <<c.name, env>> \in Range(Targets)
  <2>1. PICK i \in 1..N : c = Config[i] /\ Registered(i)
    BY <1>2 DEF Providers
  <2>2. c \in Enabled /\ Part(i) = TargetsOf(c)
    BY <1>2, <2>1 DEF Registered, Enabled, Part, Range
  <2> QED  BY <1>7, <2>1, <2>2, TargetsOfType
<1> QED  BY <1>7, <1>8

\* Of the channels of one name one is the provider.
LEMMA OneProvider ==
    ASSUME NEW c \in Providers, NEW d \in Providers, c.name = d.name
    PROVE  c = d
<1>1. DOMAIN Config = 1..Len(Config) /\ Len(Config) \in Nat
  BY ConfigAssumption
<1>2. PICK i \in DOMAIN Config : c = Config[i] /\ Registered(i)
  BY DEF Providers
<1>3. PICK j \in DOMAIN Config : d = Config[j] /\ Registered(j)
  BY DEF Providers
<1>4. ~ (i > j) /\ ~ (j > i)
  BY <1>2, <1>3 DEF Registered
<1>5. i = j
  BY <1>1, <1>4
<1> QED  BY <1>2, <1>3, <1>5

\* How a target is checked depends on its own provider and environment only.
LEMMA ModeType ==
    /\ \A k \in Range(Targets) : Mode[k] \in Status \cup {"url"}
    /\ \A c \in Providers : \A env \in Range(HealthEnvironments(c)) :
          Mode[<<c.name, env>>] = ModeIn(runtimeFor(c, env))
<1>1. \A options : ModeIn(options) \in Status \cup {"url"}
  BY DEF ModeIn, Fixed, Status
<1>2. \A k \in Range(Targets) :
          Mode[k] = ModeIn(runtimeFor(CHOOSE c \in Providers : c.name = k[1], k[2]))
  BY DEF Mode
<1>3. ASSUME NEW c \in Providers, NEW env \in Range(HealthEnvironments(c))
      PROVE  Mode[<<c.name, env>>] = ModeIn(runtimeFor(c, env))
  <2>1. <<c.name, env>> \in Range(Targets)
    BY TargetsType
  <2>2. \A d \in Providers : d.name = c.name => d = c
    BY OneProvider
  <2>3. (CHOOSE d \in Providers : d.name = c.name) = c
    BY <2>2
  <2> QED  BY <1>2, <2>1, <2>3
<1> QED  BY <1>1, <1>2, <1>3

-----------------------------------------------------------------------------
(* The invariant. *)

\* A sweep that reached its end has results to record.
ResultsInv ==
    \A c \in Checkers : pc[c] \in {"announcing", "recording"} => found[c] # <<>>

\* The monitor writes nothing before its first look at the registry.
TrailInv ==
    /\ pc[Monitor] = "starting" => \A k \in Keys : Automatic(k) = {}
    /\ TrailIsChained

\* An audit entry of the status that is shown, and of the check that found it.
Recorded(k) ==
    \E i \in About(k) : audit[i].check = health[k].checked /\ audit[i].status = health[k].status

\* The result that is shown, on its way to the audit log.
Underway(k) ==
    \E c \in Checkers : \E i \in DOMAIN found[c] :
        found[c][i] = [target |-> k, status |-> health[k].status, check |-> health[k].checked]

UnhealthyInv == \A k \in Keys : health[k].status # "ok" => Recorded(k) \/ Underway(k)

OwnInv ==
    /\ \A k \in Range(Targets) \ Remote : health[k].checked # 0 => health[k].status = Mode[k]
    /\ \A c \in Checkers : pc[c] = "publishing" /\ Targets[at[c]] \notin Remote
                              => answer[c] = Mode[Targets[at[c]]]

IInv == TypeOK /\ ResultsInv /\ TrailInv /\ UnhealthyInv /\ OwnInv

-----------------------------------------------------------------------------
(* Types. *)

LEMMA TargetAt ==
    ASSUME TypeOK, NEW c \in Checkers
    PROVE  /\ Targets[at[c]] \in Range(Targets) /\ Targets[at[c]] \in Keys
           /\ at[c] \in 1..Len(Targets)
           /\ Len(Targets) \in Nat /\ 1 \in DOMAIN Targets
<1>1. Targets \in Seq(Target) /\ Targets # <<>> /\ Range(Targets) \subseteq Keys
  BY TargetsType, HealthAssumption
<1>2. at[c] \in DOMAIN Targets /\ DOMAIN Targets = 1..Len(Targets)
  BY <1>1 DEF TypeOK
<1>3. Targets[at[c]] \in Range(Targets)
  BY <1>2 DEF Range
<1> QED  BY <1>1, <1>2, <1>3

\* Whatever a provider answers is a status.
LEMMA AnswerType ==
    ASSUME TypeOK, NEW c \in Checkers, NEW s \in Answers(c)
    PROVE  s \in Status
<1>1. Targets[at[c]] \in Range(Targets)
  BY TargetAt
<1>2. CASE Targets[at[c]] \notin Remote
  BY <1>1, <1>2, ModeType DEF Answers, Remote
<1>3. CASE Targets[at[c]] \in Remote
  BY <1>3 DEF Answers, TypeOK, Status
<1> QED  BY <1>2, <1>3

ResultOf(c) == [target |-> Targets[at[c]], status |-> answer[c], check |-> stamp[c]]

LEMMA ResultType ==
    ASSUME TypeOK, NEW c \in Checkers
    PROVE  ResultOf(c) \in Result
  BY TargetAt DEF ResultOf, Result, TypeOK

StatusEntry(c, info) ==
    [actor |-> c, action |-> "status", target |-> info.target,
     previous |-> known[c][info.target], status |-> info.status, check |-> info.check]

LEMMA EntryType ==
    ASSUME TypeOK, NEW c \in Checkers
    PROVE  /\ [actor |-> c, action |-> "manual_check"] \in Entry
           /\ \A info \in Result : StatusEntry(c, info) \in Entry
<1>1. ASSUME NEW info \in Result
      PROVE  StatusEntry(c, info) \in Entry
  <2>1. info.target \in Keys /\ info.status \in Status /\ info.check \in Nat
    BY DEF Result
  <2>2. known[c][info.target] \in Status
    BY <2>1 DEF TypeOK
  <2> QED  BY <2>1, <2>2 DEF StatusEntry, Entry
<1> QED  BY <1>1 DEF Entry

\* The result at the head of those found is the one recorded.
LEMMA HeadType ==
    ASSUME TypeOK, ResultsInv, NEW c \in Checkers, pc[c] = "recording"
    PROVE  /\ Head(found[c]) \in Result /\ Head(found[c]) = found[c][1]
           /\ Tail(found[c]) \in Seq(Result)
           /\ Len(found[c]) \in Nat \ {0}
           /\ Len(Tail(found[c])) = Len(found[c]) - 1
           /\ \A i \in 1..(Len(found[c]) - 1) : Tail(found[c])[i] = found[c][i+1]
           /\ Len(found[c]) = 1 \/ Tail(found[c]) # <<>>
<1> DEFINE s == found[c]
<1>1. s \in Seq(Result) /\ s # <<>>
  BY DEF TypeOK, ResultsInv
<1> HIDE DEF s
<1>2. Len(s) \in Nat \ {0} /\ Head(s) = s[1] /\ Head(s) \in Result
  BY <1>1, EmptySeq
<1>3. /\ Tail(s) \in Seq(Result) /\ Len(Tail(s)) = Len(s) - 1
      /\ \A i \in 1..(Len(s) - 1) : Tail(s)[i] = s[i+1]
  BY <1>1, <1>2, HeadTailProperties
<1>4. Len(s) = 1 \/ Tail(s) # <<>>
  BY <1>2, <1>3
<1> QED  BY <1>2, <1>3, <1>4 DEF s

\* A sequence with something appended is not empty.
LEMMA NeverEmpty ==
    ASSUME NEW S, NEW s \in Seq(S), NEW e
    PROVE  Append(s, e) # <<>>
<1>1. Len(Append(s, e)) = Len(s) + 1 /\ Len(s) \in Nat
  OBVIOUS
<1>2. ASSUME Append(s, e) = <<>>
      PROVE  FALSE
  <2>1. Len(Append(s, e)) = 0
    BY <1>2
  <2> QED  BY <1>1, <2>1
<1> QED  BY <1>2

LEMMA BeginType ==
    ASSUME TypeOK, NEW c \in Checkers, Begin(c)
    PROVE  TypeOK'
<1>1. Baseline(c) \in [Keys -> Status]
  BY DEF Baseline, Shown, TypeOK
<1>2. /\ pc' \in [Checkers -> {"starting", "idle", "asking", "waiting", "publishing",
                               "announcing", "recording", "returned"}]
      /\ \A d \in Checkers : pc'[d] = "recording" => pc[d] = "recording"
  BY DEF Begin, TypeOK
<1>3. /\ at' \in [Checkers -> DOMAIN Targets]
      /\ checks' \in [Checkers -> Nat]
      /\ expired' \in [Checkers -> BOOLEAN]
  BY TargetAt DEF Begin, TypeOK
<1>4. known' \in [Checkers -> [Keys -> Status]]
  BY <1>1 DEF Begin, TypeOK
<1> QED  BY <1>2, <1>3, <1>4 DEF Begin, TypeOK

LEMMA PublishType ==
    ASSUME TypeOK, NEW c \in Checkers, Publish(c)
    PROVE  TypeOK'
<1> DEFINE k == Targets[at[c]]
<1>1. /\ k \in Keys /\ at[c] \in 1..Len(Targets) /\ Len(Targets) \in Nat
      /\ DOMAIN Targets = 1..Len(Targets) /\ 1 \in DOMAIN Targets
  BY TargetAt, TargetsType
<1>2. health' = [health EXCEPT ![k] = [status |-> answer[c], checked |-> stamp[c]]]
      /\ found' = [found EXCEPT ![c] = Append(found[c], ResultOf(c))]
      /\ at' = [at EXCEPT ![c] = IF at[c] = Len(Targets) THEN 1 ELSE at[c] + 1]
      /\ stamp' = [stamp EXCEPT ![c] = 0]
      /\ answer' = [answer EXCEPT ![c] = "ok"]
      /\ expired' = [expired EXCEPT ![c] = expired[c] \/ at[c] = Len(Targets)]
      /\ UNCHANGED <<endpoint, known, stopped, audit, clock, checks, changes>>
  BY DEF Publish, ResultOf
<1>3. \E l \in {"asking", "recording", "announcing"} : pc' = [pc EXCEPT ![c] = l]
  BY DEF Publish
<1>4. health' \in [Keys -> [status : Status, checked : Nat]]
  BY <1>1, <1>2 DEF TypeOK
<1>5. /\ found' \in [Checkers -> Seq(Result)]
      /\ found'[c] = Append(found[c], ResultOf(c))
      /\ \A d \in Checkers : d # c => found'[d] = found[d]
  BY <1>2, ResultType DEF TypeOK
<1>6. at' \in [Checkers -> DOMAIN Targets]
  <2>1. (IF at[c] = Len(Targets) THEN 1 ELSE at[c] + 1) \in DOMAIN Targets
    BY <1>1
  <2> QED  BY <1>2, <2>1 DEF TypeOK
<1>7. stamp' \in [Checkers -> Nat] /\ answer' \in [Checkers -> Status]
  BY <1>2 DEF TypeOK, Status
<1>8. expired' \in [Checkers -> BOOLEAN]
  <2>1. (expired[c] \/ at[c] = Len(Targets)) \in BOOLEAN
    OBVIOUS
  <2> QED  BY <1>2, <2>1 DEF TypeOK
<1>9. /\ pc' \in [Checkers -> {"starting", "idle", "asking", "waiting", "publishing",
                               "announcing", "recording", "returned"}]
      /\ \A d \in Checkers : d # c => pc'[d] = pc[d]
  BY <1>3 DEF TypeOK
<1>10. \A d \in Checkers : pc'[d] = "recording" => found'[d] # <<>>
  <2>1. found'[c] # <<>>
    BY <1>5, NeverEmpty DEF TypeOK
  <2> QED  BY <1>5, <1>9, <2>1 DEF TypeOK
<1> QED  BY <1>2, <1>4, <1>5, <1>6, <1>7, <1>8, <1>9, <1>10 DEF TypeOK

LEMMA RecordType ==
    ASSUME TypeOK, ResultsInv, NEW c \in Checkers, Record(c)
    PROVE  TypeOK'
<1> DEFINE info == Head(found[c])
<1>1. pc[c] = "recording"
  BY DEF Record
<1>2. /\ info \in Result /\ Tail(found[c]) \in Seq(Result)
      /\ Len(found[c]) = 1 \/ Tail(found[c]) # <<>>
  BY <1>1, HeadType
<1>3. /\ audit' = audit \/ audit' = Append(audit, StatusEntry(c, info))
      /\ known' = known \/ known' = [known EXCEPT ![c][info.target] = info.status]
      /\ found' = [found EXCEPT ![c] = Tail(found[c])]
      /\ pc' = [pc EXCEPT ![c] = IF Len(found[c]) = 1 THEN "idle" ELSE pc[c]]
      /\ UNCHANGED <<endpoint, health, at, stamp, answer, expired, stopped, clock,
                     checks, changes>>
  BY DEF Record, StatusEntry
<1> HIDE DEF info
<1>4. audit' \in Seq(Entry)
  <2>1. StatusEntry(c, info) \in Entry /\ audit \in Seq(Entry)
    BY <1>2, EntryType DEF TypeOK
  <2> QED  BY <1>3, <2>1, AppendProperties
<1>5. known' \in [Checkers -> [Keys -> Status]]
  <2>1. info.status \in Status /\ known[c] \in [Keys -> Status]
    BY <1>2 DEF TypeOK, Result
  <2>2. [known[c] EXCEPT ![info.target] = info.status] \in [Keys -> Status]
    BY <2>1
  <2> QED  BY <1>3, <2>2 DEF TypeOK
<1>6. /\ found' \in [Checkers -> Seq(Result)]
      /\ \A d \in Checkers : d # c => found'[d] = found[d] /\ pc'[d] = pc[d]
      /\ found'[c] = Tail(found[c])
  BY <1>2, <1>3 DEF TypeOK
<1>7. /\ pc' \in [Checkers -> {"starting", "idle", "asking", "waiting", "publishing",
                               "announcing", "recording", "returned"}]
      /\ pc'[c] = "recording" => Len(found[c]) # 1
  BY <1>1, <1>3 DEF TypeOK
<1>8. \A d \in Checkers : pc'[d] = "recording" => found'[d] # <<>>
  BY <1>2, <1>6, <1>7 DEF TypeOK
<1> QED  BY <1>3, <1>4, <1>5, <1>6, <1>7, <1>8 DEF TypeOK

LEMMA GoOnType ==
    ASSUME TypeOK, ResultsInv, NEW c \in Checkers, GoOn(c)
    PROVE  TypeOK'
<1>1. CASE Ask(c)
  <2>1. stamp' \in [Checkers -> Nat] /\ clock' \in Nat
    BY <1>1 DEF Ask, TypeOK
  <2> QED  BY <1>1, <2>1 DEF Ask, TypeOK
<1>2. CASE Hear(c)
  <2>1. answer' \in [Checkers -> Status]
    BY <1>2, AnswerType DEF Hear, TypeOK
  <2> QED  BY <1>2, <2>1 DEF Hear, TypeOK
<1>3. CASE Expire(c)
  BY <1>3 DEF Expire, TypeOK
<1>4. CASE Announce(c)
  <2>1. audit' \in Seq(Entry)
    BY <1>4, EntryType DEF Announce, TypeOK
  <2>2. \A d \in Checkers : pc'[d] = "recording" => found[d] # <<>>
    BY <1>4 DEF Announce, TypeOK, ResultsInv
  <2> QED  BY <1>4, <2>1, <2>2 DEF Announce, TypeOK
<1> QED  BY <1>1, <1>2, <1>3, <1>4, PublishType, RecordType DEF GoOn

LEMMA OtherType ==
    ASSUME TypeOK, Start \/ Stop \/ Return \/ EndpointChanges \/ UNCHANGED vars
    PROVE  TypeOK'
<1>1. Monitor \in Checkers
  BY DEF Checkers
<1>2. CASE Start
  <2>1. Shown \in [Keys -> Status]
    BY DEF Shown, TypeOK
  <2> QED  BY <1>1, <1>2, <2>1 DEF Start, TypeOK
<1>3. CASE Stop \/ Return
  BY <1>1, <1>3 DEF Stop, Return, TypeOK
<1>4. CASE EndpointChanges
  BY <1>4 DEF EndpointChanges, checkerVars, TypeOK
<1>5. CASE UNCHANGED vars
  BY <1>5 DEF vars, checkerVars, TypeOK
<1> QED  BY <1>2, <1>3, <1>4, <1>5

LEMMA TypeStep == TypeOK /\ ResultsInv /\ [Next]_vars => TypeOK'
  BY BeginType, GoOnType, OtherType DEF Next

\* A sweep that reached its end has results until the last one is recorded.
LEMMA ResultsStep ==
    ASSUME TypeOK, ResultsInv, [Next]_vars
    PROVE  ResultsInv'
<1>1. CASE \E c \in Checkers : Publish(c)
  <2>1. PICK c \in Checkers : Publish(c)
    BY <1>1
  <2>2. /\ found'[c] = Append(found[c], ResultOf(c)) /\ found[c] \in Seq(Result)
        /\ \A d \in Checkers : d # c => found'[d] = found[d] /\ pc'[d] = pc[d]
    BY <2>1 DEF Publish, TypeOK, ResultOf
  <2>3. found'[c] # <<>>
    BY <2>2, NeverEmpty
  <2> QED  BY <2>2, <2>3 DEF ResultsInv
<1>2. CASE \E c \in Checkers : Record(c)
  <2>1. PICK c \in Checkers : Record(c)
    BY <1>2
  <2>2. /\ pc[c] = "recording"
        /\ found'[c] = Tail(found[c]) /\ pc'[c] = IF Len(found[c]) = 1 THEN "idle" ELSE pc[c]
        /\ \A d \in Checkers : d # c => found'[d] = found[d] /\ pc'[d] = pc[d]
    BY <2>1 DEF Record, TypeOK
  <2> QED  BY <2>2, HeadType DEF ResultsInv
<1>3. ASSUME NEW c \in Checkers, Begin(c) \/ Ask(c) \/ Hear(c) \/ Expire(c) \/ Announce(c)
      PROVE  ResultsInv'
  BY <1>3 DEF Begin, Ask, Hear, Expire, Announce, ResultsInv, TypeOK
<1>4. CASE Start \/ Stop \/ Return \/ EndpointChanges \/ UNCHANGED vars
  BY <1>4 DEF Start, Stop, Return, EndpointChanges, vars, checkerVars, ResultsInv, TypeOK, Checkers
<1> QED  BY <1>1, <1>2, <1>3, <1>4 DEF Next, GoOn

-----------------------------------------------------------------------------
(* The audit log and the registry. *)

AutomaticIn(log, k) ==
    {i \in DOMAIN log : log[i].action = "status" /\ log[i].target = k /\ log[i].actor = Monitor}

\* The history of one target in a log, up to the status that it ends with.
ChainedIn(log, k, last) ==
    \A i \in AutomaticIn(log, k) :
        LET later == {j \in AutomaticIn(log, k) : j > i}
        IN  IF later = {} THEN last = log[i].status
            ELSE \E j \in later : (\A l \in later : j <= l) /\ log[j].previous = log[i].status

RecordedIn(log, k, shown) ==
    \E i \in DOMAIN log : /\ log[i].action = "status" /\ log[i].target = k
                          /\ log[i].check = shown.checked /\ log[i].status = shown.status

\* What a new entry leaves as it was.
LEMMA EntryAdded ==
    ASSUME NEW log \in Seq(Entry), NEW e \in Entry
    PROVE  /\ Len(log) \in Nat /\ DOMAIN log = 1..Len(log)
           /\ DOMAIN Append(log, e) = DOMAIN log \cup {Len(log) + 1}
           /\ Len(log) + 1 \notin DOMAIN log
           /\ \A i \in DOMAIN log : Append(log, e)[i] = log[i] /\ i < Len(log) + 1
           /\ Append(log, e)[Len(log) + 1] = e
<1>1. Len(log) \in Nat /\ DOMAIN log = 1..Len(log)
  OBVIOUS
<1>2. /\ Append(log, e) \in Seq(Entry) /\ Len(Append(log, e)) = Len(log) + 1
      /\ \A i \in 1..Len(log) : Append(log, e)[i] = log[i]
      /\ Append(log, e)[Len(log) + 1] = e
  BY AppendProperties
<1>3. DOMAIN Append(log, e) = 1..(Len(log) + 1)
  BY <1>2
<1>4. 1..(Len(log) + 1) = 1..Len(log) \cup {Len(log) + 1}
  BY <1>1
<1> QED  BY <1>1, <1>2, <1>3, <1>4

\* An entry of another kind or about another target leaves a history as it is.
LEMMA ChainStays ==
    ASSUME NEW log \in Seq(Entry), NEW e \in Entry, NEW k, NEW last,
           ~ (e.action = "status" /\ e.target = k /\ e.actor = Monitor)
    PROVE  /\ AutomaticIn(Append(log, e), k) = AutomaticIn(log, k)
           /\ ChainedIn(log, k, last) => ChainedIn(Append(log, e), k, last)
<1> DEFINE t == Append(log, e)
<1>1. AutomaticIn(t, k) = AutomaticIn(log, k)
  BY EntryAdded DEF AutomaticIn
<1>2. \A i \in AutomaticIn(log, k) : t[i] = log[i]
  BY EntryAdded DEF AutomaticIn
<1> HIDE DEF t
<1>3. ChainedIn(log, k, last) => ChainedIn(t, k, last)
  BY <1>1, <1>2 DEF ChainedIn
<1> QED  BY <1>1, <1>3 DEF t

\* An automatic entry that starts from the last status continues the history.
LEMMA ChainGrows ==
    ASSUME NEW log \in Seq(Entry), NEW e \in Entry, NEW k,
           e.action = "status", e.target = k, e.actor = Monitor,
           ChainedIn(log, k, e.previous)
    PROVE  ChainedIn(Append(log, e), k, e.status)
<1> DEFINE t == Append(log, e)
           n == Len(log) + 1
           A == AutomaticIn(log, k)
           B == AutomaticIn(t, k)
<1>1. B = A \cup {n}
  BY EntryAdded DEF AutomaticIn
<1>2. /\ n \in Nat /\ t[n] = e
      /\ \A i \in A : i \in Nat /\ i < n /\ t[i] = log[i]
  BY EntryAdded DEF AutomaticIn
<1>3. \A i \in A : IF {j \in A : j > i} = {} THEN e.previous = log[i].status
                   ELSE \E j \in {j \in A : j > i} :
                            (\A l \in {l \in A : l > i} : j <= l) /\ log[j].previous = log[i].status
  BY DEF ChainedIn
<1> HIDE DEF t, n, A, B
<1>4. ASSUME NEW i \in B
      PROVE  IF {j \in B : j > i} = {} THEN e.status = t[i].status
             ELSE \E j \in {j \in B : j > i} :
                      (\A l \in {l \in B : l > i} : j <= l) /\ t[j].previous = t[i].status
  <2>1. CASE i = n
    <3>1. \A j \in A : ~ (j > n)
      BY <1>2
    <3>2. ~ (n > n)
      BY <1>2
    <3>3. {j \in B : j > i} = {}
      BY <1>1, <2>1, <3>1, <3>2
    <3> QED  BY <1>2, <2>1, <3>3
  <2>2. CASE i \in A /\ {j \in A : j > i} = {}
    <3>1. {j \in B : j > i} = {n}
      BY <1>1, <1>2, <2>2
    <3>2. t[n].previous = t[i].status
      BY <1>2, <1>3, <2>2
    <3> QED  BY <1>2, <3>1, <3>2
  <2>3. CASE i \in A /\ {j \in A : j > i} # {}
    <3>1. PICK j \in A : /\ j > i /\ log[j].previous = log[i].status
                         /\ \A l \in A : l > i => j <= l
      BY <1>3, <2>3
    <3>2. j \in B /\ t[j].previous = t[i].status
      BY <1>1, <1>2, <2>3, <3>1
    <3>3. \A l \in B : l > i => j <= l
      BY <1>1, <1>2, <3>1
    <3> QED  BY <3>1, <3>2, <3>3
  <2> QED  BY <1>1, <2>1, <2>2, <2>3
<1>5. ChainedIn(t, k, e.status)
  BY <1>4 DEF ChainedIn, B
<1> QED  BY <1>5 DEF t

\* A new entry is in the log, and those before it stay.
LEMMA RecordedGrows ==
    ASSUME NEW log \in Seq(Entry), NEW e \in Entry, NEW k, NEW shown
    PROVE  /\ RecordedIn(log, k, shown) => RecordedIn(Append(log, e), k, shown)
           /\ /\ e.action = "status" /\ e.target = k
              /\ e.check = shown.checked /\ e.status = shown.status
              => RecordedIn(Append(log, e), k, shown)
<1> DEFINE t == Append(log, e)
           n == Len(log) + 1
<1>1. /\ n \in DOMAIN t /\ t[n] = e
      /\ \A i \in DOMAIN log : i \in DOMAIN t /\ t[i] = log[i]
  BY EntryAdded
<1> HIDE DEF t, n
<1>2. RecordedIn(log, k, shown) => RecordedIn(t, k, shown)
  BY <1>1 DEF RecordedIn
<1>3. /\ e.action = "status" /\ e.target = k
      /\ e.check = shown.checked /\ e.status = shown.status
      => RecordedIn(t, k, shown)
  BY <1>1 DEF RecordedIn
<1> QED  BY <1>2, <1>3 DEF t

LEMMA TrailIs ==
    /\ TrailInv <=>
        /\ pc[Monitor] = "starting" => \A k \in Keys : AutomaticIn(audit, k) = {}
        /\ \A k \in Keys : ChainedIn(audit, k, known[Monitor][k])
    /\ TrailInv' <=>
        /\ pc'[Monitor] = "starting" => \A k \in Keys : AutomaticIn(audit', k) = {}
        /\ \A k \in Keys : ChainedIn(audit', k, known'[Monitor][k])
<1>1. /\ \A k : Automatic(k) = AutomaticIn(audit, k)
      /\ \A k : Automatic(k)' = AutomaticIn(audit', k)
  BY DEF Automatic, About, AutomaticIn
<1> QED  BY <1>1 DEF TrailInv, TrailIsChained, ChainedIn

\* What an entry that is none of the monitor's does to the histories.
LEMMA TrailStays ==
    ASSUME TypeOK, TrailInv, known'[Monitor] = known[Monitor],
           pc'[Monitor] = "starting" => pc[Monitor] = "starting",
           \/ audit' = audit
           \/ \E e \in Entry : /\ audit' = Append(audit, e)
                               /\ ~ (e.action = "status" /\ e.actor = Monitor)
    PROVE  TrailInv'
<1>1. CASE audit' = audit
  BY <1>1, TrailIs
<1>2. ASSUME NEW e \in Entry, audit' = Append(audit, e),
             ~ (e.action = "status" /\ e.actor = Monitor)
      PROVE  TrailInv'
  <2>1. audit \in Seq(Entry)
    BY DEF TypeOK
  <2>2. ASSUME NEW k \in Keys
        PROVE  /\ AutomaticIn(audit', k) = AutomaticIn(audit, k)
               /\ ChainedIn(audit', k, known'[Monitor][k])
    BY <1>2, <2>1, TrailIs, ChainStays
  <2> QED  BY <2>2, TrailIs
<1> QED  BY <1>1, <1>2

\* The monitor's own entry continues the history of its target; a result that
\* is not worth an entry is the status known already.
LEMMA MonitorRecords ==
    ASSUME TypeOK, ResultsInv, TrailInv, Record(Monitor)
    PROVE  TrailInv'
<1> DEFINE info == Head(found[Monitor])
           e == StatusEntry(Monitor, info)
<1>1. Monitor \in Checkers /\ pc[Monitor] = "recording"
  BY DEF Checkers, Record
<1>2. info \in Result /\ e \in Entry /\ audit \in Seq(Entry)
  BY <1>1, HeadType, EntryType DEF TypeOK
<1>3. /\ e.action = "status" /\ e.actor = Monitor /\ e.target = info.target
      /\ e.previous = known[Monitor][info.target] /\ e.status = info.status
  BY DEF StatusEntry
<1>4. /\ known' = [known EXCEPT ![Monitor][info.target] = info.status]
      /\ audit' = IF Notable(known[Monitor][info.target], info.status)
                  THEN Append(audit, e) ELSE audit
      /\ pc'[Monitor] # "starting"
  BY <1>1 DEF Record, StatusEntry, TypeOK
<1>5. info.target \in Keys
  BY <1>2 DEF Result
<1> HIDE DEF info, e
<1>6. /\ known'[Monitor][info.target] = info.status
      /\ \A k \in Keys : k # info.target => known'[Monitor][k] = known[Monitor][k]
  BY <1>1, <1>4, <1>5 DEF TypeOK
<1>7. CASE Notable(known[Monitor][info.target], info.status)
  <2>1. audit' = Append(audit, e)
    BY <1>4, <1>7
  <2>2. ASSUME NEW k \in Keys
        PROVE  ChainedIn(audit', k, known'[Monitor][k])
    <3>1. ChainedIn(audit, k, known[Monitor][k])
      BY TrailIs
    <3>2. CASE k = info.target
      BY <1>2, <1>3, <1>6, <2>1, <3>1, <3>2, ChainGrows
    <3>3. CASE k # info.target
      BY <1>2, <1>3, <1>6, <2>1, <3>1, <3>3, ChainStays
    <3> QED  BY <3>2, <3>3
  <2> QED  BY <1>4, <2>2, TrailIs
<1>8. CASE ~ Notable(known[Monitor][info.target], info.status)
  <2>1. \A k \in Keys : known'[Monitor][k] = known[Monitor][k]
    BY <1>6, <1>8 DEF Notable
  <2> QED  BY <1>4, <1>8, <2>1, TrailIs
<1> QED  BY <1>7, <1>8

LEMMA TrailStep ==
    ASSUME TypeOK, ResultsInv, TrailInv, [Next]_vars
    PROVE  TrailInv'
<1>1. Monitor \in Checkers /\ Monitor \notin Admins
  BY HealthAssumption DEF Checkers
<1>2. CASE Start
  <2>1. \A k \in Keys : AutomaticIn(audit, k) = {}
    BY <1>2, TrailIs DEF Start
  <2>2. audit' = audit /\ pc'[Monitor] # "starting"
    BY <1>1, <1>2 DEF Start, TypeOK
  <2> QED  BY <2>1, <2>2, TrailIs DEF ChainedIn
<1>3. CASE Stop \/ Return \/ EndpointChanges \/ UNCHANGED vars
  <2>1. audit' = audit /\ known' = known /\ (pc'[Monitor] = "starting" => pc[Monitor] = "starting")
    BY <1>1, <1>3 DEF Stop, Return, EndpointChanges, vars, checkerVars, TypeOK
  <2> QED  BY <2>1, TrailStays
<1>4. ASSUME NEW c \in Checkers, Begin(c)
      PROVE  TrailInv'
  <2>1. /\ audit' = audit
        /\ pc'[Monitor] = "starting" => pc[Monitor] = "starting"
        /\ known' = [known EXCEPT ![c] = Baseline(c)]
    BY <1>1, <1>4 DEF Begin, TypeOK
  <2>2. known'[Monitor] = known[Monitor]
    BY <1>1, <2>1 DEF Baseline, TypeOK
  <2> QED  BY <2>1, <2>2, TrailStays
<1>5. ASSUME NEW c \in Checkers, Ask(c) \/ Hear(c) \/ Expire(c)
      PROVE  TrailInv'
  <2>1. audit' = audit /\ known' = known /\ (pc'[Monitor] = "starting" => pc[Monitor] = "starting")
    BY <1>1, <1>5 DEF Ask, Hear, Expire, TypeOK
  <2> QED  BY <2>1, TrailStays
<1>6. ASSUME NEW c \in Checkers, Publish(c)
      PROVE  TrailInv'
  <2>1. audit' = audit /\ known' = known
    BY <1>6 DEF Publish
  <2>2. pc'[Monitor] = "starting" => pc[Monitor] = "starting"
    <3>1. \E l \in {"asking", "recording", "announcing"} : pc' = [pc EXCEPT ![c] = l]
      BY <1>6 DEF Publish
    <3> QED  BY <1>1, <3>1 DEF TypeOK
  <2> QED  BY <2>1, <2>2, TrailStays
<1>7. ASSUME NEW c \in Checkers, Announce(c)
      PROVE  TrailInv'
  <2> DEFINE e == [actor |-> c, action |-> "manual_check"]
  <2>1. e \in Entry /\ e.action = "manual_check"
    BY EntryType
  <2>2. /\ audit' = Append(audit, e) /\ known' = known
        /\ pc'[Monitor] = "starting" => pc[Monitor] = "starting"
    BY <1>1, <1>7 DEF Announce, TypeOK
  <2> HIDE DEF e
  <2> QED  BY <2>1, <2>2, TrailStays
<1>8. ASSUME NEW c \in Checkers, Record(c), c # Monitor
      PROVE  TrailInv'
  <2> DEFINE e == StatusEntry(c, Head(found[c]))
  <2>1. e \in Entry
    BY <1>8, HeadType, EntryType DEF Record
  <2>2. e.actor # Monitor
    BY <1>8 DEF StatusEntry
  <2>3. /\ audit' = audit \/ audit' = Append(audit, e)
        /\ known' = known
        /\ pc'[Monitor] = "starting" => pc[Monitor] = "starting"
    BY <1>1, <1>8 DEF Record, StatusEntry, TypeOK
  <2> HIDE DEF e
  <2> QED  BY <2>1, <2>2, <2>3, TrailStays
<1> QED  BY <1>2, <1>3, <1>4, <1>5, <1>6, <1>7, <1>8, MonitorRecords DEF Next, GoOn

\* The result shown is recorded, or among those that a checker still records.
UnderwayIn(results, k, shown) ==
    \E i \in DOMAIN results :
        results[i] = [target |-> k, status |-> shown.status, check |-> shown.checked]

LEMMA UnhealthyIs ==
    /\ UnhealthyInv <=>
        \A k \in Keys : health[k].status # "ok" =>
            \/ RecordedIn(audit, k, health[k])
            \/ \E c \in Checkers : UnderwayIn(found[c], k, health[k])
    /\ UnhealthyInv' <=>
        \A k \in Keys : health'[k].status # "ok" =>
            \/ RecordedIn(audit', k, health'[k])
            \/ \E c \in Checkers : UnderwayIn(found'[c], k, health'[k])
<1>1. /\ \A k : Recorded(k) <=> RecordedIn(audit, k, health[k])
      /\ \A k : Recorded(k)' <=> RecordedIn(audit', k, health'[k])
  BY DEF Recorded, About, RecordedIn
<1>2. /\ \A k : Underway(k) <=> \E c \in Checkers : UnderwayIn(found[c], k, health[k])
      /\ \A k : Underway(k)' <=> \E c \in Checkers : UnderwayIn(found'[c], k, health'[k])
  BY DEF Underway, UnderwayIn
<1> QED  BY <1>1, <1>2 DEF UnhealthyInv

\* A result that is found is on its way, with those found before it.
LEMMA UnderwayGrows ==
    ASSUME NEW results \in Seq(Result), NEW r \in Result, NEW k, NEW shown
    PROVE  /\ UnderwayIn(results, k, shown) => UnderwayIn(Append(results, r), k, shown)
           /\ r = [target |-> k, status |-> shown.status, check |-> shown.checked]
              => UnderwayIn(Append(results, r), k, shown)
<1> DEFINE t == Append(results, r)
           n == Len(results) + 1
<1>1. Len(results) \in Nat /\ DOMAIN results = 1..Len(results)
  OBVIOUS
<1>2. /\ t \in Seq(Result) /\ Len(t) = n
      /\ \A i \in 1..Len(results) : t[i] = results[i]
      /\ t[n] = r
  BY AppendProperties
<1>3. DOMAIN t = 1..n
  BY <1>2
<1>4. n \in DOMAIN t /\ \A i \in DOMAIN results : i \in DOMAIN t
  BY <1>1, <1>3
<1> HIDE DEF t, n
<1>5. UnderwayIn(results, k, shown) => UnderwayIn(t, k, shown)
  BY <1>1, <1>2, <1>4 DEF UnderwayIn
<1>6. r = [target |-> k, status |-> shown.status, check |-> shown.checked]
      => UnderwayIn(t, k, shown)
  BY <1>2, <1>4 DEF UnderwayIn
<1> QED  BY <1>5, <1>6 DEF t

\* A result published is a result found.
LEMMA PublishUnderway ==
    ASSUME TypeOK, UnhealthyInv, NEW c \in Checkers, Publish(c)
    PROVE  UnhealthyInv'
<1> DEFINE r == ResultOf(c)
<1>1. r \in Result /\ r.target \in Keys /\ found[c] \in Seq(Result)
  BY ResultType DEF Result, TypeOK
<1>2. /\ health' = [health EXCEPT ![r.target] = [status |-> r.status, checked |-> r.check]]
      /\ found' = [found EXCEPT ![c] = Append(found[c], r)]
      /\ audit' = audit
  BY DEF Publish, ResultOf
<1>3. r = [target |-> r.target, status |-> r.status, check |-> r.check]
  BY DEF ResultOf
<1> HIDE DEF r
<1>4. /\ health'[r.target] = [status |-> r.status, checked |-> r.check]
      /\ \A k \in Keys : k # r.target => health'[k] = health[k]
  BY <1>1, <1>2 DEF TypeOK
<1>5. /\ found'[c] = Append(found[c], r)
      /\ \A d \in Checkers : d # c => found'[d] = found[d]
  BY <1>2 DEF TypeOK
<1>6. ASSUME NEW k \in Keys, health'[k].status # "ok"
      PROVE  \/ RecordedIn(audit', k, health'[k])
             \/ \E d \in Checkers : UnderwayIn(found'[d], k, health'[k])
  <2>1. CASE k = r.target
    <3>1. r = [target |-> k, status |-> health'[k].status, check |-> health'[k].checked]
      BY <1>3, <1>4, <2>1
    <3>2. UnderwayIn(found'[c], k, health'[k])
      BY <1>1, <1>5, <3>1, UnderwayGrows
    <3> QED  BY <3>2
  <2>2. CASE k # r.target
    <3>1. health'[k] = health[k]
      BY <1>4, <2>2
    <3>2. CASE RecordedIn(audit, k, health[k])
      BY <1>2, <3>1, <3>2
    <3>3. ASSUME NEW d \in Checkers, UnderwayIn(found[d], k, health[k])
          PROVE  UnderwayIn(found'[d], k, health'[k])
      BY <1>1, <1>5, <3>1, <3>3, UnderwayGrows
    <3> QED  BY <1>6, <3>1, <3>2, <3>3, UnhealthyIs
  <2> QED  BY <2>1, <2>2
<1> QED  BY <1>6, UnhealthyIs

\* The result that leaves the list is the one recorded: an unhealthy one always
\* gets its entry.
LEMMA RecordUnderway ==
    ASSUME TypeOK, ResultsInv, UnhealthyInv, NEW c \in Checkers, Record(c)
    PROVE  UnhealthyInv'
<1> DEFINE info == Head(found[c])
           e == StatusEntry(c, info)
           rest == Tail(found[c])
           N == Len(found[c])
<1>1. pc[c] = "recording"
  BY DEF Record
<1>2. /\ info \in Result /\ info = found[c][1]
      /\ rest \in Seq(Result) /\ N \in Nat \ {0} /\ Len(rest) = N - 1
      /\ \A i \in 1..(N - 1) : rest[i] = found[c][i+1]
  BY <1>1, HeadType
<1>3. e \in Entry /\ audit \in Seq(Entry) /\ DOMAIN found[c] = 1..N /\ DOMAIN rest = 1..(N - 1)
  <2>1. e \in Entry /\ audit \in Seq(Entry) /\ found[c] \in Seq(Result)
    BY <1>2, EntryType DEF TypeOK
  <2>2. DOMAIN found[c] = 1..N
    BY <2>1
  <2> HIDE DEF rest, N
  <2>3. DOMAIN rest = 1..(N - 1)
    BY <1>2
  <2> QED  BY <2>1, <2>2, <2>3
<1>4. e.action = "status" /\ e.target = info.target /\ e.status = info.status /\ e.check = info.check
  BY DEF StatusEntry
<1>5. /\ health' = health /\ found' = [found EXCEPT ![c] = rest]
      /\ audit' = IF Notable(known[c][info.target], info.status)
                  THEN Append(audit, e) ELSE audit
  BY DEF Record, StatusEntry
<1> HIDE DEF info, e, rest, N
<1>6. /\ found'[c] = rest
      /\ \A d \in Checkers : d # c => found'[d] = found[d]
  BY <1>5 DEF TypeOK
<1>7. ASSUME NEW k \in Keys, health[k].status # "ok"
      PROVE  \/ RecordedIn(audit', k, health[k])
             \/ \E d \in Checkers : UnderwayIn(found'[d], k, health[k])
  <2>1. CASE RecordedIn(audit, k, health[k])
    BY <1>3, <1>5, <2>1, RecordedGrows
  <2>2. ASSUME NEW d \in Checkers, d # c, UnderwayIn(found[d], k, health[k])
        PROVE  UnderwayIn(found'[d], k, health[k])
    BY <1>6, <2>2
  <2>3. CASE UnderwayIn(found[c], k, health[k])
    <3>1. PICK i \in 1..N :
              found[c][i] = [target |-> k, status |-> health[k].status, check |-> health[k].checked]
      BY <1>3, <2>3 DEF UnderwayIn
    <3>2. CASE i = 1
      <4>1. info.target = k /\ info.status = health[k].status /\ info.check = health[k].checked
        BY <1>2, <3>1, <3>2
      <4>2. audit' = Append(audit, e)
        BY <1>5, <1>7, <4>1 DEF Notable
      <4> QED  BY <1>3, <1>4, <4>1, <4>2, RecordedGrows
    <3>3. CASE i # 1
      <4>1. i - 1 \in 1..(N - 1) /\ (i - 1) + 1 = i
        BY <1>2, <3>3
      <4>2. rest[i-1] = found[c][i]
        BY <1>2, <4>1
      <4>3. UnderwayIn(rest, k, health[k])
        BY <1>3, <3>1, <4>1, <4>2 DEF UnderwayIn
      <4> QED  BY <1>6, <4>3
    <3> QED  BY <3>2, <3>3
  <2> QED  BY <1>7, <2>1, <2>2, <2>3, UnhealthyIs
<1> QED  BY <1>5, <1>7, UnhealthyIs

LEMMA UnhealthyStep ==
    ASSUME TypeOK, ResultsInv, UnhealthyInv, [Next]_vars
    PROVE  UnhealthyInv'
<1>1. CASE health' = health /\ found' = found /\ audit' = audit
  BY <1>1, UnhealthyIs
<1>2. ASSUME NEW c \in Checkers, Announce(c)
      PROVE  UnhealthyInv'
  <2> DEFINE e == [actor |-> c, action |-> "manual_check"]
  <2>1. e \in Entry /\ audit \in Seq(Entry)
    BY EntryType DEF TypeOK
  <2>2. audit' = Append(audit, e) /\ health' = health /\ found' = found
    BY <1>2 DEF Announce
  <2> HIDE DEF e
  <2>3. \A k \in Keys : RecordedIn(audit, k, health[k]) => RecordedIn(audit', k, health[k])
    BY <2>1, <2>2, RecordedGrows
  <2> QED  BY <2>2, <2>3, UnhealthyIs
<1>3. ASSUME NEW c \in Checkers, Begin(c) \/ Ask(c) \/ Hear(c) \/ Expire(c)
      PROVE  health' = health /\ found' = found /\ audit' = audit
  BY <1>3 DEF Begin, Ask, Hear, Expire
<1>4. CASE Start \/ Stop \/ Return \/ EndpointChanges \/ UNCHANGED vars
  BY <1>1, <1>4 DEF Start, Stop, Return, EndpointChanges, vars, checkerVars
<1> QED  BY <1>1, <1>2, <1>3, <1>4, PublishUnderway, RecordUnderway DEF Next, GoOn

\* What is published of a target without an endpoint is the status its own
\* configuration fixes.
LEMMA OwnStep ==
    ASSUME TypeOK, OwnInv, [Next]_vars
    PROVE  OwnInv'
<1>1. CASE health' = health /\ at' = at /\ answer' = answer
           /\ \A c \in Checkers : pc'[c] = "publishing" => pc[c] = "publishing"
  BY <1>1 DEF OwnInv
<1>2. ASSUME NEW c \in Checkers, Begin(c)
      PROVE  OwnInv'
  <2>1. /\ health' = health /\ answer' = answer
        /\ \A d \in Checkers : pc'[d] = "publishing" => d # c /\ pc[d] = "publishing"
        /\ \A d \in Checkers : d # c => at'[d] = at[d]
    BY <1>2 DEF Begin, TypeOK
  <2> QED  BY <2>1 DEF OwnInv
<1>3. ASSUME NEW c \in Checkers, Hear(c)
      PROVE  OwnInv'
  <2>1. PICK s \in Answers(c) : answer' = [answer EXCEPT ![c] = s]
    BY <1>3 DEF Hear
  <2>2. /\ health' = health /\ at' = at /\ answer'[c] = s
        /\ \A d \in Checkers : d # c => answer'[d] = answer[d] /\ pc'[d] = pc[d]
    BY <1>3, <2>1 DEF Hear, TypeOK
  <2>3. Targets[at[c]] \notin Remote => s = Mode[Targets[at[c]]]
    BY DEF Answers
  <2> QED  BY <2>2, <2>3 DEF OwnInv
<1>4. ASSUME NEW c \in Checkers, Publish(c)
      PROVE  OwnInv'
  <2> DEFINE k == Targets[at[c]]
  <2>1. k \in Keys /\ Range(Targets) \subseteq Keys
    BY TargetAt, TargetsType
  <2>2. /\ pc[c] = "publishing"
        /\ health' = [health EXCEPT ![k] = [status |-> answer[c], checked |-> stamp[c]]]
        /\ \E p : at' = [at EXCEPT ![c] = p]
        /\ answer' = [answer EXCEPT ![c] = "ok"]
        /\ \E l \in {"asking", "recording", "announcing"} : pc' = [pc EXCEPT ![c] = l]
    BY <1>4 DEF Publish
  <2> HIDE DEF k
  <2>3. /\ pc'[c] # "publishing"
        /\ \A d \in Checkers : d # c => pc'[d] = pc[d] /\ at'[d] = at[d] /\ answer'[d] = answer[d]
    BY <2>2 DEF TypeOK
  <2>4. /\ health'[k].status = answer[c]
        /\ \A l \in Keys : l # k => health'[l] = health[l]
    BY <2>1, <2>2 DEF TypeOK
  <2>5. k \notin Remote => answer[c] = Mode[k]
    BY <2>2 DEF OwnInv, k
  <2>6. \A l \in Range(Targets) \ Remote :
           health'[l].checked # 0 => health'[l].status = Mode[l]
    <3> SUFFICES ASSUME NEW l \in Range(Targets) \ Remote, health'[l].checked # 0
                 PROVE  health'[l].status = Mode[l]
      OBVIOUS
    <3> QED  BY <2>1, <2>4, <2>5 DEF OwnInv
  <2>7. \A d \in Checkers : pc'[d] = "publishing" /\ Targets[at'[d]] \notin Remote
                               => answer'[d] = Mode[Targets[at'[d]]]
    BY <2>3 DEF OwnInv
  <2> QED  BY <2>6, <2>7 DEF OwnInv
<1>5. ASSUME NEW c \in Checkers, Ask(c) \/ Expire(c) \/ Announce(c)
      PROVE  OwnInv'
  BY <1>1, <1>5 DEF Ask, Expire, Announce, TypeOK
<1>6. ASSUME NEW c \in Checkers, Record(c)
      PROVE  OwnInv'
  <2>1. \E l : l # "publishing" /\ pc' = [pc EXCEPT ![c] = l]
    BY <1>6 DEF Record
  <2>2. health' = health /\ at' = at /\ answer' = answer
    BY <1>6 DEF Record
  <2> QED  BY <1>1, <2>1, <2>2 DEF TypeOK
<1>7. CASE Start \/ Stop \/ Return \/ EndpointChanges \/ UNCHANGED vars
  BY <1>1, <1>7 DEF Start, Stop, Return, EndpointChanges, vars, checkerVars, TypeOK
<1> QED  BY <1>2, <1>3, <1>4, <1>5, <1>6, <1>7 DEF Next, GoOn

-----------------------------------------------------------------------------
(* The theorems. *)

LEMMA InitIInv == Init => IInv
<1> SUFFICES ASSUME Init PROVE IInv
  OBVIOUS
<1>1. 1 \in DOMAIN Targets /\ Monitor \in Checkers
  BY TargetsType, HealthAssumption DEF Checkers
<1>2. Shown \in [Keys -> Status]
  BY DEF Init, Shown, Status
<1>3. /\ endpoint \in [Remote -> Status \cup {"hangs"}]
      /\ health \in [Keys -> [status : Status, checked : Nat]]
      /\ answer \in [Checkers -> Status]
  BY DEF Init, Status
<1>4. /\ pc \in [Checkers -> {"starting", "idle", "asking", "waiting", "publishing",
                              "announcing", "recording", "returned"}]
      /\ \A c \in Checkers : pc[c] \in {"starting", "idle"}
  BY DEF Init
<1>5. /\ at \in [Checkers -> DOMAIN Targets]
      /\ stamp \in [Checkers -> Nat]
      /\ found \in [Checkers -> Seq(Result)]
      /\ known \in [Checkers -> [Keys -> Status]]
      /\ expired \in [Checkers -> BOOLEAN]
  BY <1>1, <1>2 DEF Init
<1>6. /\ stopped \in BOOLEAN /\ audit \in Seq(Entry) /\ clock \in Nat /\ changes \in Nat
      /\ checks \in [Checkers -> Nat]
  <2>1. audit \in Seq(Entry)
    <3>1. <<>> \in Seq(Entry)
      OBVIOUS
    <3> QED  BY <3>1 DEF Init
  <2>2. checks \in [Checkers -> Nat]
    BY DEF Init
  <2> QED  BY <2>1, <2>2 DEF Init
<1>7. TypeOK
  BY <1>3, <1>4, <1>5, <1>6 DEF TypeOK
<1>8. ResultsInv
  BY <1>4 DEF ResultsInv
<1>9. TrailInv
  BY DEF Init, TrailInv, TrailIsChained, Automatic, About
<1>10. UnhealthyInv /\ OwnInv
  BY <1>4, TargetsType DEF Init, UnhealthyInv, OwnInv
<1> QED  BY <1>7, <1>8, <1>9, <1>10 DEF IInv

LEMMA Inductive == IInv /\ [Next]_vars => IInv'
  BY TypeStep, ResultsStep, TrailStep, UnhealthyStep, OwnStep DEF IInv

\* The variables keep their types: what a status is and where a sweep can be.
THEOREM HealthTypes == Spec => []TypeOK
<1>1. IInv => TypeOK
  BY DEF IInv
<1> QED  BY <1>1, InitIInv, Inductive, PTL DEF Spec

\* The monitor's entries about a target are a history without gaps, for any
\* number of sweeps and operators that check the same targets meanwhile.
THEOREM TrailStaysChained == Spec => []TrailIsChained
<1>1. IInv => TrailIsChained
  BY DEF IInv, TrailInv
<1> QED  BY <1>1, InitIInv, Inductive, PTL DEF Spec

\* An unhealthy status that the dashboard shows has an entry in the audit log,
\* or its checker is still on the way to write it.
THEOREM UnhealthyStaysRecorded == Spec => []UnhealthyIsRecorded
<1>1. ASSUME UnhealthyInv
      PROVE  UnhealthyIsRecorded
  <2>1. ASSUME NEW k \in Keys, Underway(k)
        PROVE  \E c \in Checkers : \E i \in DOMAIN found[c] :
                   found[c][i].check = health[k].checked
    BY <2>1 DEF Underway
  <2> QED  BY <1>1, <2>1 DEF UnhealthyInv, UnhealthyIsRecorded, Recorded
<1>2. IInv => UnhealthyIsRecorded
  BY <1>1 DEF IInv
<1> QED  BY <1>2, InitIInv, Inductive, PTL DEF Spec

\* A checked target shows the status that its environment fixes, or else the
\* one its channel shares.  Of channels of one name this is the last enabled one.
THEOREM OwnStatusIsShown == Spec => []OwnStatusShown
<1>1. ASSUME OwnInv
      PROVE  OwnStatusShown
  <2> SUFFICES ASSUME NEW c \in Providers, NEW env \in Range(HealthEnvironments(c))
               PROVE  LET shared == Option(c.options, "health_status")
                          own == IF env \in DOMAIN c.environments
                                 THEN c.environments[env] ELSE <<>>
                          wanted == IF "health_status" \in DOMAIN own
                                    THEN own.health_status ELSE shared
                      IN  health[<<c.name, env>>].checked # 0 /\ wanted # ""
                              => health[<<c.name, env>>].status = Fixed(wanted)
    BY DEF OwnStatusShown
  <2> DEFINE shared == Option(c.options, "health_status")
             own == IF env \in DOMAIN c.environments THEN c.environments[env] ELSE <<>>
             wanted == IF "health_status" \in DOMAIN own THEN own.health_status ELSE shared
             k == <<c.name, env>>
             options == runtimeFor(c, env)
  <2>1. Option(options, "health_status") = wanted
    <3>1. CASE env \in DOMAIN c.environments
      BY <3>1 DEF runtimeFor, mergeStringMaps, Option
    <3>2. CASE env \notin DOMAIN c.environments
      <4>1. own = <<>> /\ options = c.options
        BY <3>2 DEF runtimeFor
      <4>2. "health_status" \notin DOMAIN <<>>
        OBVIOUS
      <4>3. wanted = shared
        BY <4>1, <4>2
      <4> QED  BY <4>1, <4>3
    <3> QED  BY <3>1, <3>2
  <2>2. k \in Range(Targets) /\ Mode[k] = ModeIn(options)
    BY TargetsType, ModeType
  <2> SUFFICES ASSUME health[k].checked # 0, wanted # ""
               PROVE  health[k].status = Fixed(wanted)
    OBVIOUS
  <2> HIDE DEF wanted, k, options
  <2>3. ModeIn(options) = Fixed(wanted)
    BY <2>1 DEF ModeIn, Option
  <2>4. Fixed(wanted) # "url"
    BY DEF Fixed, Status
  <2>5. k \notin Remote
    BY <2>2, <2>3, <2>4 DEF Remote
  <2> QED  BY <1>1, <2>2, <2>3, <2>5 DEF OwnInv
<1>2. IInv => OwnStatusShown
  BY <1>1 DEF IInv
<1> QED  BY <1>2, InitIInv, Inductive, PTL DEF Spec
=============================================================================
