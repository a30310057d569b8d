--------------------------- MODULE Configuration ----------------------------
(***************************************************************************)
(* config.Load and the checks that follow it at a start: references to     *)
(* environment variables are filled in, the file is decoded over the       *)
(* built-in settings, keys nobody reads are refused, and main asks for a   *)
(* credential and a valid configuration (internal/config, internal/app,    *)
(* cmd/alertloop).  An operator whose start was refused does what the      *)
(* refusal asks for and starts again.                                      *)
(*                                                                         *)
(* A file is a set of lines, one per key.  A key is the sequence of its    *)
(* words: a dotted key, which looks like a path, has several.  A line      *)
(* holds a scalar, a list of scalars, the start of a section, or refers to *)
(* the value its anchor stands on: an alias ("key: *anchor") takes it for  *)
(* its own, a merge ("<<: *anchor") puts its keys beside the section's own.*)
(***************************************************************************)
EXTENDS Naturals, FiniteSets, SequencesExt

CONSTANTS
    Settings,       \* path -> the type of its field: text, number, list, section
    BuiltIn,        \* path -> its built-in value (Default)
    Files,
    Environments,   \* variable -> its value; a variable not set is not there
    AnchorWords,    \* words that begin with "x-"
    Texts,          \* what a scalar or a variable may hold
    Numbers,        \* texts that read as a number
    Blank,          \* a text of spaces
    Filled,         \* what the operator puts into a variable
    NoDefault,      \* ${VAR}, without ":-"
    NoList,         \* a list that is not there
    MaxReportedKeys \* unknown keys a refusal names at most

Null == "null"  \* one of YAML's spellings of "no value"

ApiKeys == <<"api_keys">>

Sources == <<"api_keys", "sources">>

\* The words of a key, and where a line stands: the keys above it and its own.
Key == Seq(STRING) \ {<<>>}

Path == Seq(Key) \ {<<>>}

ScalarValue ==
    [form : {"plain", "quoted"}, text : Texts]
    \cup [form : {"ref"}, var : STRING, default : Texts \cup {NoDefault}]

Value ==
    ScalarValue \cup [form : {"list"}, items : Seq(ScalarValue)]
    \cup [form : {"section"}] \cup [form : {"merge", "alias"}, anchor : Path]

Merges(lines) == {l \in lines : l.value.form = "merge"}

References(lines) == {l \in lines : l.value.form \in {"merge", "alias"}}

\* A document as yaml.v3 parses it: no key comes twice at a place, keys stand in
\* sections, a section has one merge at most, and every anchor is there.
\* References are modelled one deep: there is none on an anchor or below it.
WellFormed(lines) ==
    /\ lines \subseteq [path : Path, value : Value]
    /\ \A k, l \in lines : k.path = l.path => k = l
    /\ \A l \in lines : \A n \in 1 .. Len(l.path) - 1 :
          \E k \in lines : k.path = SubSeq(l.path, 1, n) /\ k.value.form = "section"
    /\ \A k, m \in Merges(lines) : Front(k.path) = Front(m.path) => k = m
    /\ \A m \in References(lines) :
          /\ \E a \in lines : a.path = m.value.anchor /\ (m \in Merges(lines) => a.value.form = "section")
          /\ \A k \in References(lines) : ~IsPrefix(k.value.anchor, m.path)

ASSUME ConfigurationAssumption ==
    /\ DOMAIN Settings \subseteq Seq(STRING) \ {<<>>}
    /\ \A p \in DOMAIN Settings : Settings[p] \in {"text", "number", "list", "section"}
    /\ DOMAIN BuiltIn \subseteq DOMAIN Settings
    /\ ApiKeys \in DOMAIN Settings /\ Settings[ApiKeys] = "section" /\ ApiKeys[1] \notin AnchorWords
    /\ Sources \in DOMAIN BuiltIn /\ Settings[Sources] = "list" /\ BuiltIn[Sources] = NoList
    /\ {"", Null, Filled} \subseteq Texts /\ Filled # ""
    /\ NoList \notin Seq(Texts)
    /\ MaxReportedKeys \in Nat \ {0}
    /\ \A f \in Files : WellFormed(f)
    /\ \A e \in Environments : \A x \in DOMAIN e : e[x] \in Texts

VARIABLES
    file,
    env,
    stage,      \* off, read, refused, loaded, serving or unfit
    settings,   \* the Config: path -> value
    report,     \* what the last refusal of Load named
    fallbacks,  \* Config.Warnings: the lines it names
    refusals    \* refusals over variables and keys so far

loadVars == <<file, env, stage, settings, report, fallbacks, refusals>>
-----------------------------------------------------------------------------
(****************************** substituteEnv ******************************)

HasText(var) == var \in DOMAIN env /\ env[var] # ""

\* A reference with neither value nor default.
Unresolved(v) == v.form = "ref" /\ ~HasText(v.var) /\ v.default = NoDefault

\* Fault: what a variable holds is read as YAML.
ResolveUnpinned(v) ==
    CASE v.form # "ref"           -> [text |-> v.text, str |-> v.form = "quoted"]
      [] v.form = "ref" /\ HasText(v.var) -> [text |-> env[v.var], str |-> FALSE]
      [] Unresolved(v)            -> [text |-> "${VAR}", str |-> FALSE]
      [] OTHER                    -> [text |-> v.default, str |-> FALSE]

\* resolveScalar: the text of a scalar and whether it is pinned as text.
ResolveScalar(v) ==
    CASE v.form # "ref"           -> [text |-> v.text, str |-> v.form = "quoted"]
      [] v.form = "ref" /\ HasText(v.var) -> [text |-> env[v.var], str |-> env[v.var] = Null]
      [] Unresolved(v)            -> [text |-> "${VAR}", str |-> FALSE]
      [] OTHER                    -> [text |-> v.default, str |-> FALSE]

Scalar(v) == v.form \in {"plain", "quoted", "ref"}

\* The scalars on a line; what is referred to is substituted where it stands.
ScalarsOf(l) ==
    CASE Scalar(l.value)        -> {l.value}
      [] l.value.form = "list"  -> ToSet(l.value.items)
      [] OTHER                  -> {}

MissingVariables == {l \in file : \E v \in ScalarsOf(l) : Unresolved(v)}

\* The fallback of a variable that is there and empty.
FallbackFired(v) ==
    v.form = "ref" /\ v.var \in DOMAIN env /\ env[v.var] = "" /\ v.default \notin {NoDefault, ""}

FallbacksFired == {l \in file : \E v \in ScalarsOf(l) : FallbackFired(v)}
-----------------------------------------------------------------------------
(******************************** walkKeys *********************************)

\* Where a reference puts what stands below its anchor.
Place(m) == IF m \in Merges(file) THEN Front(m.path) ELSE m.path

\* The path of a line below the anchor, where the reference puts it.
PutAt(m, path) == Place(m) \o SubSeq(path, Len(m.value.anchor) + 1, Len(path))

BroughtBy(m) ==
    {[path |-> PutAt(m, l.path), value |-> l.value, from |-> l.path] :
        l \in {x \in file : IsStrictPrefix(m.value.anchor, x.path)}}

Brought == UNION {BroughtBy(m) : m \in References(file)}

Own == {[path |-> l.path, value |-> l.value, from |-> l.path] : l \in file \ Merges(file)}

\* Every key at its place, with the line it comes from.
Lines == Own \cup Brought

\* keyName: a dotted key is not a plain one.
Plain(path) == \A i \in DOMAIN path : Len(path[i]) = 1

\* joinPath, of plain keys.
Joined(path) == [i \in DOMAIN path |-> path[i][1]]

UnderX(path) == path[1][1] \in AnchorWords

KnownPath(path) == Joined(path) \in DOMAIN Settings

Descend(path) ==
    ~UnderX(path) /\ Plain(path) /\ KnownPath(path) /\ Settings[Joined(path)] = "section"

Visited(l) == \A n \in 1 .. Len(l.path) - 1 : Descend(SubSeq(l.path, 1, n))

\* Fault: a dotted key passes for the path it looks like.
ReadByPath(path) == FlattenSeq(path) \in DOMAIN Settings

\* A key of the schema.
Read(path) == Plain(path) /\ KnownPath(path)

\* checkUnknownKeys.
UnknownKeys == {l \in Lines : Visited(l) /\ ~UnderX(l.path) /\ ~Read(l.path)}

IsNull(v) == Scalar(v) /\ LET s == ResolveScalar(v) IN ~s.str /\ s.text \in {"", Null}

\* checkNullSources: scalars without a value; an alias is none.
NullSources ==
    {l \in Lines : Visited(l) /\ Plain(l.path) /\ Joined(l.path) = Sources /\ IsNull(l.value)}
-----------------------------------------------------------------------------
(********************************* Decode **********************************)

At(p) == [i \in DOMAIN p |-> <<p[i]>>]

\* A merge is shallow: a key of the section's own hides all that is merged
\* under that key.
Hidden(m, path) ==
    \E k \in file \ Merges(file) : k.path = SubSeq(path, 1, Len(Place(m)) + 1)

\* The lines that are decoded.
Taken == Own \cup UNION {{l \in BroughtBy(m) : ~Hidden(m, l.path)} : m \in References(file)}

\* An alias has the value of its anchor.
Content(v) == IF v.form = "alias" THEN (CHOOSE l \in file : l.path = v.anchor).value ELSE v

\* The value the decoder takes for a path.
Values(p) == {Content(l.value) : l \in {x \in Taken : x.path = At(p)}}

Fits(type, v) ==
    \/ IsNull(v)
    \/ CASE type = "text"    -> Scalar(v)
         [] type = "number"  -> Scalar(v) /\ ~ResolveScalar(v).str /\ ResolveScalar(v).text \in Numbers
         [] type = "list"    -> v.form = "list"
         [] type = "section" -> v.form = "section"

Misfits == {p \in DOMAIN Settings : \E v \in Values(p) : ~Fits(Settings[p], v)}

\* An item that is null decodes as the empty string.
ItemText(v) == IF IsNull(v) THEN "" ELSE ResolveScalar(v).text

\* Null leaves a field as it is; a list it empties.
DecodeField(p, v) ==
    CASE IsNull(v)                -> BuiltIn[p]
      [] ~IsNull(v) /\ Scalar(v)  -> ResolveScalar(v).text
      [] OTHER                    -> [i \in DOMAIN v.items |-> ItemText(v.items[i])]

\* The one value of a path.
OneOf(values) == CHOOSE v \in values : TRUE

Decode ==
    [p \in DOMAIN BuiltIn |->
       IF Values(p) = {} THEN BuiltIn[p] ELSE DecodeField(p, OneOf(Values(p)))]

\* An entry of api_keys is there.
HasKey == \E v \in Values(ApiKeys) : v.form = "section"
-----------------------------------------------------------------------------
(********************************** Load ***********************************)

TrimText(text) == IF text = Blank THEN "" ELSE text

\* dsn is a PostgreSQL address.
InferDriver(dsn) == IF dsn = "postgres://db" THEN "postgres" ELSE "sqlite"

\* The scope, sources and driver are completed.
Normalized(c) ==
    [c EXCEPT
       ![<<"api_keys", "scope">>] = IF HasKey /\ @ = "" THEN "full" ELSE @,
       ![Sources] = IF @ = NoList THEN @ ELSE [i \in DOMAIN @ |-> TrimText(@[i])],
       ![<<"database", "driver">>] = IF @ = "" THEN InferDriver(c[<<"database", "dsn">>]) ELSE @]

Faulty == MissingVariables # {} \/ UnknownKeys # {} \/ NullSources # {}

\* The unknown keys a refusal names: all of them, or as many as the list holds.
Named ==
    {named \in SUBSET UnknownKeys :
        \/ named = UnknownKeys /\ Cardinality(named) <= MaxReportedKeys
        \/ Cardinality(named) = MaxReportedKeys}

\* errors.Join; "... and n more" stands for the keys it does not name.
Report(named) ==
    [missing |-> MissingVariables, unknown |-> named, more |-> UnknownKeys \ named, nulls |-> NullSources]

NothingFound == [missing |-> {}, unknown |-> {}, more |-> {}, nulls |-> {}]

Load ==
    /\ stage = "read"
    /\ \/ /\ Faulty
          /\ stage' = "refused" /\ refusals' = refusals + 1
          /\ \E named \in Named : report' = Report(named)
          /\ UNCHANGED <<settings, fallbacks>>
       \/ /\ ~Faulty /\ Misfits # {}
          /\ stage' = "refused" /\ report' = NothingFound
          /\ UNCHANGED <<settings, fallbacks, refusals>>
       \/ /\ ~Faulty /\ Misfits = {}
          /\ stage' = "loaded" /\ settings' = Normalized(Decode) /\ fallbacks' = FallbacksFired
          /\ UNCHANGED <<report, refusals>>
    /\ UNCHANGED <<file, env>>
-----------------------------------------------------------------------------
(************************ RequireCredential, Validate **********************)

Credential == settings[<<"admin_token">>] # "" \/ HasKey

ValidKey(c) ==
    /\ c[<<"api_keys", "key">>] # ""
    /\ c[<<"api_keys", "scope">>] \in {"ingest", "read", "full"}
    /\ c[Sources] # NoList =>
          /\ c[<<"api_keys", "scope">>] = "ingest"
          /\ c[Sources] # <<>> /\ "" \notin ToSet(c[Sources])

\* Config.Validate without channels and routing, which are module Routing.
ValidSettings(c) ==
    /\ c[<<"database", "driver">>] \in {"sqlite", "postgres"} /\ c[<<"database", "dsn">>] # ""
    /\ HasKey => ValidKey(c)
    /\ c[<<"log", "level">>] \in {"", "debug", "info", "warn", "warning", "error"}

CheckSettings ==
    /\ stage = "loaded"
    /\ stage' = IF Credential /\ ValidSettings(settings) THEN "serving" ELSE "unfit"
    /\ UNCHANGED <<file, env, settings, report, fallbacks, refusals>>
-----------------------------------------------------------------------------
(******************************** operator *********************************)

\* The variables a line refers to.
VariablesOf(l) == {v.var : v \in {x \in ScalarsOf(l) : x.form = "ref"}}

\* The file without lines, what is below them and what refers to it.
Without(lines) ==
    LET Gone(path) == \E g \in lines : IsPrefix(g.from, path)
    IN {l \in file : ~Gone(l.path) /\ (l \in References(file) => ~Gone(l.value.anchor))}

\* Sets the variables and removes the lines a refusal names; a value of the
\* wrong type is removed too.
Correct ==
    /\ stage = "refused"
    /\ LET asked == UNION {VariablesOf(l) : l \in report.missing}
       IN env' = [x \in DOMAIN env \cup asked |-> IF x \in asked /\ ~HasText(x) THEN Filled ELSE env[x]]
    /\ file' = IF report = NothingFound
                 THEN Without({l \in Lines : \E p \in Misfits : l.path = At(p)})
                 ELSE Without(report.unknown \cup report.nulls)
    /\ stage' = "read"
    /\ UNCHANGED <<settings, report, fallbacks, refusals>>

LoadInit ==
    /\ file \in Files /\ env \in Environments /\ stage = "read"
    /\ settings = BuiltIn /\ report = NothingFound /\ fallbacks = {} /\ refusals = 0

LoadNext == Load \/ CheckSettings \/ Correct

LoadSpec == LoadInit /\ [][LoadNext]_loadVars
-----------------------------------------------------------------------------
(******************************* properties ********************************)

Loaded == stage \in {"loaded", "serving"}

\* The sources of the key are an alias of a value that is null.
AliasedNullSources ==
    \E l \in Own : l.path = At(Sources) /\ l.value.form = "alias" /\ IsNull(Content(l.value))

\* A setting never quietly runs on less than what was written.  One written as a
\* reference to a variable, where it stands, under an alias or in a merge, holds
\* what its variable holds, letter for letter, or the default the file gives,
\* and not the built-in value because a variable was missing, empty or spelled
\* "null" (substituteEnv: "a setting emptied by a typo in a variable name must
\* not run as if it had been left empty on purpose"; resolveScalar).  A key
\* written with sources does not serve as one for every source, whether the list
\* is written, merged, aliased, empty, blank or substituted by nothing
\* (checkNullSources, Validate), with one exception: sources that are an alias
\* of a null.  checkNullSources looks at scalars only, so that such a key is
\* accepted and serves for all, although its comment says that it "refuses an
\* api_keys entry whose sources key is there with no value".
SettingsHold ==
    /\ Loaded =>
        \A p \in DOMAIN BuiltIn : \A v \in Values(p) :
            v.form = "ref" =>
                IF HasText(v.var) THEN settings[p] = env[v.var]
                ELSE /\ v.default # NoDefault
                     /\ v.default \notin {"", Null} => settings[p] = v.default
    /\ stage = "serving" /\ HasKey /\ Values(Sources) # {} =>
        /\ settings[Sources] = NoList <=> AliasedNullSources
        /\ ~AliasedNullSources => settings[Sources] # <<>> /\ "" \notin ToSet(settings[Sources])

\* In a file that loads every line is a setting where it stands, or keeps an
\* anchor under an "x-" key, and so is what a reference brings in, unless a key
\* of the section's own hides the part it is in; and a fallback that took the
\* place of an empty variable is in the warnings.
AllAccounted ==
    /\ \A l \in file \ Merges(file) : l.path[1][1] \in AnchorWords \/ \E p \in DOMAIN Settings : l.path = At(p)
    /\ \A m \in References(file), l \in file :
          IsStrictPrefix(m.value.anchor, l.path) =>
             \/ PutAt(m, l.path)[1][1] \in AnchorWords
             \/ \E p \in DOMAIN Settings : PutAt(m, l.path) = At(p)
             \/ Hidden(m, PutAt(m, l.path))
    /\ \A p \in DOMAIN BuiltIn : \A v \in Values(p) :
          v.form = "ref" /\ v.var \in DOMAIN env /\ settings[p] # env[v.var] /\ v.default # ""
          => \E l \in fallbacks : l.value = v

\* Nothing an operator should know goes unmentioned.  A file that loads has no
\* line without effect and no fallback without a warning (checkUnknownKeys,
\* walkKeys, fallbackWarning).  Whoever does what a refusal asks for is refused
\* again only over unknown keys it had no room to name, and it leaves keys out
\* only when it names MaxReportedKeys of them (Load: "both are reported together
\* rather than one per restart"; checkUnknownKeys: "Every unknown key in the file
\* is reported at once ... maxReportedKeys bounds the list").
NothingUnmentioned ==
    /\ [](Loaded => AllAccounted)
    /\ [](report.more # {} => Cardinality(report.unknown) = MaxReportedKeys)
    /\ [][refusals' > refusals /\ refusals > 0 =>
            /\ report'.missing = {} /\ report'.nulls = {}
            /\ report'.unknown \cup report'.more \subseteq report.more]_loadVars

\* Database.Driver: "When empty it is inferred from DSN": a file whose driver
\* line is empty runs on the driver its dsn is for.
DriverFollowsDSN ==
    Loaded /\ (\E v \in Values(<<"database", "driver">>) : IsNull(v) \/ v = [form |-> "quoted", text |-> ""])
    => settings[<<"database", "driver">>] = InferDriver(settings[<<"database", "dsn">>])
=============================================================================
