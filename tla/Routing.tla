------------------------------ MODULE Routing ------------------------------
(***************************************************************************)
(* From the channels and the routing section of the configuration to the   *)
(* channels of an event: Config.Validate (internal/config), the registry   *)
(* of channels, the compiled rules and their first match                   *)
(* (internal/routing), and the mistakes the log of the start warns of      *)
(* (internal/app).                                                         *)
(*                                                                         *)
(* A value of the configuration or of an event is a text as compared and a *)
(* flag: odd when it was written with spaces around it or, where case does *)
(* not count, in other case.  Sources and categories are sequences of      *)
(* letters, in which patterns may have "*".                                *)
(***************************************************************************)
EXTENDS Domain, SequencesExt

CONSTANTS
    Configs,    \* the channels and the routing section a file may have
    NoRouting,  \* a file without a routing section
    Events      \* what is reported, or asked of the preview

\* A channel as configured: complete when its required fields and addresses
\* are in order; without a fallback it names "".
Channel == [kind : STRING, name : STRING, complete : BOOLEAN, fallback : STRING]

\* A text as written, and a source or category.
Written == [text : STRING, odd : BOOLEAN]

Lettered == [text : Seq(STRING), odd : BOOLEAN]

\* RoutingMatch, RoutingRule and Routing as YAML decodes them.
RoutingMatch ==
    [type : Seq(Written), severity : Seq(Written), minSeverity : Written,
     source : Seq(Lettered), category : Seq(Lettered)]

RoutingSection ==
    [rules : Seq([name : Written, match : RoutingMatch, channels : Seq(Written)]), default : Seq(Written)]

ASSUME RoutingAssumption ==
    /\ \A c \in Configs :
          c.channels \in Seq(Channel) /\ (c.routing = NoRouting \/ c.routing \in RoutingSection)
    /\ Events \subseteq [type : Written, severity : Written, source : Lettered, category : Lettered]

VARIABLES
    config,     \* what Load returned
    phase,      \* off, loaded, refused, valid, registered, broken, built or serving
    registry,   \* the channels that will send, in order
    router,     \* the compiled rules
    warned,     \* what logRoutingTable warned of
    routed      \* the last event and where it went

startVars == <<config, phase, registry, router, warned, routed>>

section == config.routing

\* The names Validate has seen.
Channels == {config.channels[i].name : i \in DOMAIN config.channels}

\* Each channel that names a fallback, and that fallback.
Fallbacks ==
    [c \in {config.channels[i].name : i \in {j \in DOMAIN config.channels : config.channels[j].fallback # ""}} |->
        LET i == SelectLastInSeq(config.channels, LAMBDA x : x.name = c /\ x.fallback # "")
        IN config.channels[i].fallback]

\* TrimSpace, ToLower.
Normalize(v) == v.text

NormalizeAll(values) == {Normalize(values[i]) : i \in DOMAIN values}

\* IndexByte, counted from one; zero without a "*".
StarAt(text) == SelectInSeq(text, LAMBDA letter : letter = "*")
-----------------------------------------------------------------------------
(********************************* validate ********************************)

\* Fault: names are compared within a kind of channel only.
UniqueInKind(channels) ==
    /\ \A i \in DOMAIN channels : channels[i].name # ""
    /\ \A i, j \in DOMAIN channels :
          channels[i].name = channels[j].name /\ channels[i].kind = channels[j].kind => i = j

\* checkName: every channel has a name, and no two the same.
UniqueChannels(channels) ==
    /\ \A i \in DOMAIN channels : channels[i].name # ""
    /\ \A i, j \in DOMAIN channels : channels[i].name = channels[j].name => i = j

ValidChannels ==
    /\ UniqueChannels(config.channels)
    /\ \A i \in DOMAIN config.channels : config.channels[i].complete
    /\ \A c \in DOMAIN Fallbacks : Fallbacks[c] # c /\ Fallbacks[c] \in Channels

\* Only a trailing "*".
ValidPattern(v) == StarAt(Normalize(v)) \in {0, Len(Normalize(v))}

ValidMatch(m) ==
    /\ NormalizeAll(m.type) \subseteq EventTypes
    /\ NormalizeAll(m.severity) \subseteq AllSeverities
    /\ Normalize(m.minSeverity) \in AllSeverities \cup {""}
    /\ \A v \in ToSet(m.source) \cup ToSet(m.category) : ValidPattern(v)

\* Every rule has a name, and no two the same.
UniqueNames(rules) ==
    /\ \A i \in DOMAIN rules : Normalize(rules[i].name) # ""
    /\ \A i, j \in DOMAIN rules : Normalize(rules[i].name) = Normalize(rules[j].name) => i = j

ValidRouting(s) ==
    /\ UniqueNames(s.rules)
    /\ \A i \in DOMAIN s.rules :
          ValidMatch(s.rules[i].match) /\ NormalizeAll(s.rules[i].channels) \subseteq Channels
    /\ NormalizeAll(s.default) \subseteq Channels

\* Config.Validate, the part about channels and routing.
Valid == ValidChannels /\ (section = NoRouting \/ ValidRouting(section))
-----------------------------------------------------------------------------
(******************************* routing.New *******************************)

\* A pattern compiles to a literal or a prefix.
CompilePattern(v) ==
    LET text == Normalize(v)
    IN IF StarAt(text) = 0 THEN [value |-> text, prefix |-> FALSE]
       ELSE [value |-> Front(text), prefix |-> TRUE]

CompilePatterns(values) == {CompilePattern(values[i]) : i \in DOMAIN values}

Compile(m) ==
    [types       |-> NormalizeAll(m.type),
     severities  |-> NormalizeAll(m.severity),
     minSeverity |-> IF Normalize(m.minSeverity) = "" THEN 0 ELSE SeverityRank(Normalize(m.minSeverity)),
     sources     |-> CompilePatterns(m.source),
     categories  |-> CompilePatterns(m.category)]

\* The errors of compile and compilePatterns.
Compiles(m) ==
    /\ Normalize(m.minSeverity) = "" \/ SeverityRank(Normalize(m.minSeverity)) # 0
    /\ \A v \in ToSet(m.source) \cup ToSet(m.category) :
          StarAt(Normalize(v)) \in {0, Len(Normalize(v))}

\* Where a name is met for the first time (NewRegistry).
FirstPlaces ==
    {i \in DOMAIN config.channels : \A j \in 1 .. i - 1 : config.channels[j].name # config.channels[i].name}

\* The names of the registry: a name that comes again keeps its first place.
Targets ==
    [n \in 1 .. Cardinality(FirstPlaces) |->
       LET place == CHOOSE i \in FirstPlaces : Cardinality({j \in FirstPlaces : j < i}) = n - 1
       IN config.channels[place].name]

\* resolve: the names, trimmed, when each is a channel.
Resolve(names) == [i \in DOMAIN names |-> Normalize(names[i])]

Resolves(names) == NormalizeAll(names) \subseteq ToSet(registry)

CompileRule(r) ==
    [name |-> Normalize(r.name), match |-> Compile(r.match), channels |-> Resolve(r.channels)]

NewFails(s) ==
    \/ \E i \in DOMAIN s.rules : ~Resolves(s.rules[i].channels) \/ ~Compiles(s.rules[i].match)
    \/ ~Resolves(s.default)

New(s) ==
    [configured |-> TRUE,
     rules      |-> [i \in DOMAIN s.rules |-> CompileRule(s.rules[i])],
     default    |-> Resolve(s.default)]

\* Without a routing section every event goes to every channel.
NewAllChannels == [configured |-> FALSE, rules |-> <<>>, default |-> registry]
-----------------------------------------------------------------------------
(********************************** Route **********************************)

MatchesAny(patterns, text) ==
    \E p \in patterns : IF p.prefix THEN IsPrefix(p.value, text) ELSE text = p.value

\* Fault: min_severity is exclusive.
MatchesAbove(m, e) ==
    /\ m.types = {} \/ Normalize(e.type) \in m.types
    /\ m.severities = {} \/ Normalize(e.severity) \in m.severities
    /\ m.minSeverity = 0 \/ SeverityRank(Normalize(e.severity)) > m.minSeverity
    /\ m.sources = {} \/ MatchesAny(m.sources, Normalize(e.source))
    /\ m.categories = {} \/ MatchesAny(m.categories, Normalize(e.category))

\* Values inside a field are OR-ed, fields are AND-ed.
Matches(m, e) ==
    /\ m.types = {} \/ Normalize(e.type) \in m.types
    /\ m.severities = {} \/ Normalize(e.severity) \in m.severities
    /\ m.minSeverity = 0 \/ SeverityRank(Normalize(e.severity)) >= m.minSeverity
    /\ m.sources = {} \/ MatchesAny(m.sources, Normalize(e.source))
    /\ m.categories = {} \/ MatchesAny(m.categories, Normalize(e.category))

\* The first matching rule, or the default.
Route(r, e) ==
    LET i == SelectInSeq(r.rules, LAMBDA rule : Matches(rule.match, e))
    IN IF i = 0 THEN [matched |-> FALSE, rule |-> "", channels |-> r.default]
       ELSE [matched |-> TRUE, rule |-> r.rules[i].name, channels |-> r.rules[i].channels]
-----------------------------------------------------------------------------
(***************************** logRoutingTable *****************************)

CatchAll(m) ==
    m.types = {} /\ m.severities = {} /\ m.minSeverity = 0 /\ m.sources = {} /\ m.categories = {}

\* The names below the first catch-all rule.
UnreachableRules(r) ==
    LET i == SelectInSeq(r.rules, LAMBDA rule : CatchAll(rule.match))
    IN IF i = 0 THEN {} ELSE {r.rules[j].name : j \in i + 1 .. Len(r.rules)}

UnusedChannels(r) ==
    IF r.configured
      THEN ToSet(registry) \ (ToSet(r.default) \cup UNION {ToSet(r.rules[i].channels) : i \in DOMAIN r.rules})
      ELSE {}

\* Fallback channels are not warned of.
Warnings(r) ==
    [unreachable |-> UnreachableRules(r), unused |-> UnusedChannels(r) \ ToSet(Fallbacks)]
-----------------------------------------------------------------------------
Nothing == <<>>

StartInit ==
    /\ config \in Configs /\ phase = "loaded"
    /\ registry = Nothing /\ router = Nothing /\ warned = Nothing /\ routed = Nothing

Validate ==
    /\ phase = "loaded"
    /\ phase' = IF Valid THEN "valid" ELSE "refused"
    /\ UNCHANGED <<config, registry, router, warned, routed>>

BuildRegistry ==
    /\ phase = "valid"
    /\ phase' = "registered" /\ registry' = Targets
    /\ UNCHANGED <<config, router, warned, routed>>

BuildRouter ==
    /\ phase = "registered"
    /\ IF section # NoRouting /\ NewFails(section)
         THEN phase' = "broken" /\ UNCHANGED router
         ELSE phase' = "built" /\ router' = IF section = NoRouting THEN NewAllChannels ELSE New(section)
    /\ UNCHANGED <<config, registry, warned, routed>>

LogRoutingTable ==
    /\ phase = "built"
    /\ phase' = "serving" /\ warned' = Warnings(router)
    /\ UNCHANGED <<config, registry, router, routed>>

\* Ingest routes an event, or the preview does.
RouteEvent(e) ==
    /\ phase = "serving"
    /\ routed' = [event |-> e, decision |-> Route(router, e)]
    /\ UNCHANGED <<config, phase, registry, router, warned>>

StartNext ==
    Validate \/ BuildRegistry \/ BuildRouter \/ LogRoutingTable \/ \E e \in Events : RouteEvent(e)

StartSpec == StartInit /\ [][StartNext]_startVars
-----------------------------------------------------------------------------
(******************************* properties ********************************)

\* What the routing section says of an event, read as the README explains it.
Says(values, Test(_)) == values = <<>> \/ \E i \in DOMAIN values : Test(values[i].text)

\* A pattern covers the text: its letters, then anything if it ends in "*".
Covers(pattern, text) ==
    IF pattern # <<>> /\ Last(pattern) = "*"
      THEN \E n \in 0..Len(text) : SubSeq(text, 1, n) \o <<"*">> = pattern
      ELSE text = pattern

Admits(m, e) ==
    /\ Says(m.type, LAMBDA text : text = e.type.text)
    /\ Says(m.severity, LAMBDA text : text = e.severity.text)
    /\ m.minSeverity.text # "" => SeverityRank(e.severity.text) >= SeverityRank(m.minSeverity.text)
    /\ Says(m.source, LAMBDA text : Covers(text, e.source.text))
    /\ Says(m.category, LAMBDA text : Covers(text, e.category.text))

\* A configuration that passed Config.Validate builds, and as it was written:
\* the checks of patterns, severities and names made there and in routing.New
\* agree, every channel sends under its own name, none replaces another one in
\* the registry, and a dead letter has somewhere else to go where a fallback is
\* named (validate, checkName, NewRegistry, New).
ValidatedBuilds ==
    /\ phase # "broken"
    /\ phase = "serving" =>
        /\ Len(registry) = Len(config.channels)
        /\ \A i \in DOMAIN config.channels :
              /\ registry[i] = config.channels[i].name
              /\ config.channels[i].fallback # "" =>
                    \E j \in DOMAIN registry : j # i /\ registry[j] = config.channels[i].fallback

\* An event goes to the channels of the first rule that admits it, to the
\* default when none does, and everywhere without a routing section; the name
\* in the answer belongs to that rule alone (validate, compile, Route).  Nor does
\* a rule decide that the log calls unreachable, or is anything sent to a channel
\* it calls unused, by the route or as a fallback (UnreachableRules,
\* UnusedChannels).
RoutedAsWritten ==
    routed # Nothing =>
        LET d == routed.decision
            admitting == IF section = NoRouting THEN {}
                         ELSE {i \in DOMAIN section.rules : Admits(section.rules[i].match, routed.event)}
            direct == ToSet(d.channels)
        IN /\ IF section = NoRouting THEN direct = Channels /\ ~d.matched
              ELSE IF admitting = {}
                THEN ~d.matched /\ d.channels = Resolve(section.default)
                ELSE \E i \in admitting :
                       /\ \A j \in admitting : i <= j
                       /\ d.matched /\ d.channels = Resolve(section.rules[i].channels)
                       /\ \A j \in DOMAIN section.rules : section.rules[j].name.text = d.rule <=> j = i
           /\ d.matched => d.rule \notin warned.unreachable
           /\ warned.unused \cap (direct \cup {Fallbacks[c] : c \in direct \cap DOMAIN Fallbacks}) = {}
=============================================================================
