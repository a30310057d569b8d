-------------------------- MODULE MCConfiguration ---------------------------
(* Files and environments for model-checking Configuration. *)
EXTENDS Configuration

MCSettings ==
    (<<"admin_token">> :> "text") @@ (<<"retention_days">> :> "number")
    @@ (<<"log">> :> "section") @@ (<<"log", "level">> :> "text")
    @@ (<<"database">> :> "section") @@ (<<"database", "driver">> :> "text") @@ (<<"database", "dsn">> :> "text")
    @@ (<<"api_keys">> :> "section") @@ (<<"api_keys", "key">> :> "text")
    @@ (<<"api_keys", "scope">> :> "text") @@ (<<"api_keys", "sources">> :> "list")

MCBuiltIn ==
    (<<"admin_token">> :> "") @@ (<<"retention_days">> :> "30") @@ (<<"log", "level">> :> "info")
    @@ (<<"database", "driver">> :> "sqlite") @@ (<<"database", "dsn">> :> "alertloop.db")
    @@ (<<"api_keys", "key">> :> "") @@ (<<"api_keys", "scope">> :> "") @@ (<<"api_keys", "sources">> :> NoList)

MCTexts == {"", " ", "7", Null, "word", "debug", "warn", "error", "ingest", "postgres://db"}

Unquoted(text) == [form |-> "plain", text |-> text]

Quoted(text) == [form |-> "quoted", text |-> text]

Ref(var, default) == [form |-> "ref", var |-> var, default |-> default]

List(items) == [form |-> "list", items |-> items]

Section == [form |-> "section"]

\* A line under keys of one word each.
Line(words, value) == [path |-> At(words), value |-> value]

\* A line whose last key is dotted.
Dotted(words, value) == [path |-> <<words>>, value |-> value]

Merge(words, anchor) ==
    [path |-> At(words) \o <<<<"<<">>>>, value |-> [form |-> "merge", anchor |-> At(anchor)]]

Alias(anchor) == [form |-> "alias", anchor |-> At(anchor)]

Tokens ==
    {{Line(<<"admin_token">>, v)} : v \in {Unquoted("word"), Ref("A", NoDefault), Ref("A", ""), Ref("A", "word")}}

Retentions ==
    {{}} \cup {{Line(<<"retention_days">>, v)} : v \in {Ref("A", NoDefault), Ref("A", "7"), Ref("B", Null), Section}}

Logs ==
    {{},
     {Dotted(<<"log", "level">>, Unquoted("debug"))},
     {Line(<<"logs">>, Section), Line(<<"logs", "level">>, Ref("B", NoDefault))},
     {Line(<<"log">>, Section), Line(<<"log", "levl">>, Unquoted("debug")), Line(<<"log", "level">>, Ref("B", "debug"))},
     {Line(<<"x-base">>, Section), Line(<<"x-base", "level">>, Ref("A", "warn")), Line(<<"log">>, Section), Merge(<<"log">>, <<"x-base">>)},
     {Line(<<"x-base">>, Section), Line(<<"x-base", "levl">>, Unquoted("debug")), Line(<<"log">>, Section), Merge(<<"log">>, <<"x-base">>)},
     {Line(<<"x-base">>, Section), Line(<<"x-base", "level">>, Ref("B", NoDefault)),
      Line(<<"log">>, Section), Line(<<"log", "level">>, Unquoted("error")), Merge(<<"log">>, <<"x-base">>)},
     {Line(<<"x-base">>, Section), Line(<<"x-base", "level">>, Section), Line(<<"x-base", "level", "levl">>, Unquoted("7")),
      Line(<<"log">>, Section), Line(<<"log", "level">>, Unquoted("error")), Merge(<<"log">>, <<"x-base">>)},
     {Line(<<"x-base">>, Section), Line(<<"x-base", "levl">>, Unquoted("7")), Line(<<"x-log">>, Section),
      Merge(<<"x-log">>, <<"x-base">>)},
     {Line(<<"x-base">>, Section), Line(<<"x-base", "level">>, Ref("A", "warn")),
      Line(<<"log">>, Section), Line(<<"log", "level">>, Alias(<<"x-base", "level">>))},
     {Line(<<"x-base">>, Section), Line(<<"x-base", "level">>, Ref("B", NoDefault)),
      Line(<<"x-base", "levl">>, Unquoted("7")), Line(<<"log">>, Alias(<<"x-base">>)), Line(<<"logs">>, Unquoted("7")),
      Dotted(<<"log", "level">>, Unquoted("debug"))},
     {Line(<<"x-base">>, Section), Line(<<"x-base", "log">>, Section), Line(<<"x-base", "log", "level">>, Ref("A", "warn")),
      Line(<<"log">>, Section), Merge(<<>>, <<"x-base">>)}}

\* The sources of an ingest key, written or merged in.
Keys ==
    {{}, {Line(<<"api_keys">>, Section), Line(<<"api_keys", "key">>, Unquoted("word"))}}
    \cup {{Line(<<"api_keys">>, Section), Line(<<"api_keys", "key">>, Unquoted("word")),
           Line(<<"api_keys", "scope">>, Unquoted("ingest")), Line(<<"api_keys", "sources">>, v)} :
            v \in {Unquoted(Null), Ref("B", ""), List(<<>>), List(<<Unquoted("word"), Unquoted(Null)>>),
                   List(<<Ref("B", Blank)>>), List(<<Ref("A", NoDefault)>>)}}
    \cup {{Line(<<"x-keys">>, Section), Line(<<"x-keys", "sources">>, v),
           Line(<<"api_keys">>, Section), Line(<<"api_keys", "key">>, Unquoted("word")),
           Line(<<"api_keys", "scope">>, Unquoted("ingest")),
           Merge(<<"api_keys">>, <<"x-keys">>)} :
            v \in {Unquoted(Null), Ref("B", ""), List(<<Unquoted("word")>>)}}
    \cup {{Line(<<"x-none">>, v), Line(<<"api_keys">>, Section), Line(<<"api_keys", "key">>, Unquoted("word")),
           Line(<<"api_keys", "scope">>, Unquoted("ingest")), Line(<<"api_keys", "sources">>, Alias(<<"x-none">>))} :
            v \in {Unquoted(Null), List(<<Ref("A", NoDefault)>>)}}

Databases ==
    {{}} \cup {{Line(<<"database">>, Section), Line(<<"database", "dsn">>, Unquoted("postgres://db"))} \cup d :
                 d \in {{}} \cup {{Line(<<"database", "driver">>, v)} : v \in {Unquoted(""), Quoted(""), Ref("A", "")}}}

\* A token with two of the other parts, or keys and a log section alone.
MCFiles ==
    {t \cup r \cup l : t \in Tokens, r \in Retentions, l \in Logs}
    \cup {t \cup r \cup k : t \in Tokens, r \in Retentions, k \in Keys}
    \cup {l \cup k : l \in Logs, k \in Keys}
    \cup {t \cup d : t \in Tokens, d \in Databases}

\* Each variable not set, empty, a word, a number or the text "null".
MCEnvironments ==
    {Restrict([v \in {"A", "B"} |-> IF v = "A" THEN a ELSE b], s) :
        s \in SUBSET {"A", "B"}, a \in {"", "debug", "7", Null}, b \in {"", "debug"}}
=============================================================================
