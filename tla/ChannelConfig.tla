---------------------------- MODULE ChannelConfig ----------------------------
(***************************************************************************)
(* The channels of config.json and what RegisterConfiguredProviders and    *)
(* ConfiguredProvider (internal/payment/registry.go, mock_provider.go)     *)
(* make of them for the health checks: which targets there are and how     *)
(* each of them is checked.                                                *)
(***************************************************************************)
EXTENDS Naturals, Sequences, Functions

CONSTANT
    Config  \* the channels, in the order of their names, those of one name as in
            \* the file; each with its options and those of its environments

Status == {"ok", "degraded", "down"}

\* config.Load rejects any other environment.
ASSUME ConfigAssumption ==
    /\ Config \in Seq(Range(Config))
    /\ \A i \in DOMAIN Config :
           DOMAIN Config[i].environments \subseteq {"test", "release"}

Given(channel, env) == IF env \in DOMAIN channel.environments THEN <<env>> ELSE <<>>

\* HealthEnvironments: without environments a channel is one target.
HealthEnvironments(channel) ==
    IF DOMAIN channel.environments = {}
    THEN <<"">>
    ELSE Given(channel, "test") \o Given(channel, "release")

TargetsOf(channel) ==
    LET envs == HealthEnvironments(channel)
    IN  [i \in DOMAIN envs |-> <<channel.name, envs[i]>>]

\* RegisterConfiguredProviders leaves out a channel that is not enabled, and
\* Register puts a provider in the place of an earlier one of that name.
Registered(n) ==
    /\ Config[n].enabled
    /\ \A m \in DOMAIN Config : m > n => ~ (Config[m].enabled /\ Config[m].name = Config[n].name)

Providers == {Config[n] : n \in {m \in DOMAIN Config : Registered(m)}}

\* The order in which CheckAllHealth goes through the targets.
Targets ==
    LET first[n \in 0..Len(Config)] ==
            IF n = 0 THEN <<>>
            ELSE first[n-1] \o IF Registered(n) THEN TargetsOf(Config[n]) ELSE <<>>
    IN  first[Len(Config)]

\* The keys of the registry's health map.  Those of a provider that was replaced
\* stay in it, and only a target of the other one that has the same key is checked.
HealthKeys == UNION {Range(TargetsOf(c)) : c \in {d \in Range(Config) : d.enabled}}

Option(options, key) == IF key \in DOMAIN options THEN options[key] ELSE ""

\* Mutant of mergeStringMaps: what is shared wins.
mergeUnder(base, override) ==
    [ key \in DOMAIN base \cup DOMAIN override |->
        IF key \in DOMAIN base THEN base[key] ELSE override[key] ]

mergeStringMaps(base, override) ==
    [ key \in DOMAIN base \cup DOMAIN override |->
        IF key \in DOMAIN override THEN override[key] ELSE base[key] ]

runtimeFor(channel, env) ==
    IF env \in DOMAIN channel.environments
    THEN mergeStringMaps(channel.options, channel.environments[env])
    ELSE channel.options

\* A health_status is shown as it is, and for down when it is none of the three.
Fixed(status) == IF status \in Status THEN status ELSE "down"

\* How CheckHealth finds the status of a target: "url" asks the health_url.
ModeIn(options) ==
    IF Option(options, "health_status") # "" THEN Fixed(options.health_status)
    ELSE IF Option(options, "health_url") # "" THEN "url" ELSE "ok"

Mode == [ k \in Range(Targets) |->
            LET channel == CHOOSE c \in Providers : c.name = k[1]
            IN  ModeIn(runtimeFor(channel, k[2])) ]
=============================================================================
