----------------------------- MODULE MCRouting -----------------------------
(* Channels, routing sections and events for model-checking Routing. *)
EXTENDS Routing

Tidy(text) == [text |-> text, odd |-> FALSE]

Odd(text) == [text |-> text, odd |-> TRUE]

AnyMatch == [type |-> <<>>, severity |-> <<>>, minSeverity |-> Tidy(""), source |-> <<>>, category |-> <<>>]

\* Conditions on one field: known and unknown values, several of them, and
\* patterns with a "*" in every place.
Conditions ==
    {AnyMatch}
    \cup {[AnyMatch EXCEPT !.type = t] : t \in {<<Odd("incident")>>, <<Tidy("alarm")>>}}
    \cup {[AnyMatch EXCEPT !.severity = t] : t \in {<<Tidy("info"), Odd("error")>>, <<Tidy("fatal")>>}}
    \cup {[AnyMatch EXCEPT !.minSeverity = t] : t \in {Tidy("success"), Odd("error"), Tidy("fatal")}}
    \cup {[AnyMatch EXCEPT !.source = t] : t \in {<<Tidy(<<"a">>)>>, <<Tidy(<<"a", "*">>), Tidy(<<"b">>)>>}}
    \cup {[AnyMatch EXCEPT !.category = t] : t \in
            {<<Odd(<<"a", "*">>)>>, <<Tidy(<<"*">>)>>, <<Tidy(<<>>)>>,
             <<Tidy(<<"*", "a">>)>>, <<Tidy(<<"a", "*", "*">>)>>}}

\* Conditions on two fields.
Both ==
    {[AnyMatch EXCEPT !.minSeverity = Tidy("error"), !.category = <<Tidy(<<"a", "*">>)>>],
     [AnyMatch EXCEPT !.type = <<Tidy("incident")>>, !.source = <<Tidy(<<"a">>)>>]}

Rules(name) ==
    {[name |-> name, match |-> m, channels |-> c] :
        m \in Conditions \cup Both, c \in {<<>>, <<Odd("mail")>>, <<Tidy("chat"), Tidy("mail")>>}}

RoutingSections ==
    {[rules |-> <<first, second>>, default |-> d] :
        first \in Rules(Tidy("first")),
        second \in Rules(Tidy("second")) \cup {[name |-> n, match |-> AnyMatch, channels |-> c] :
            n \in {Odd("first"), Tidy("")}, c \in {<<Tidy("mail")>>, <<Tidy("fax")>>}},
        d \in {<<>>, <<Tidy("sms")>>, <<Tidy("fax")>>}}
    \cup {[rules |-> <<>>, default |-> d] : d \in {<<>>, <<Tidy("sms")>>}}

MCEvents ==
    {[type |-> Tidy(t), severity |-> Tidy(s), source |-> a, category |-> c] :
        t \in {"incident", ""}, s \in {"info", "error"},
        a \in {Odd(<<"a">>), Tidy(<<"a", "b">>)}, c \in {Tidy(<<>>), Odd(<<"a", "b">>)}}

Chan(kind, name, fallback) == [kind |-> kind, name |-> name, complete |-> TRUE, fallback |-> fallback]

\* Five channels, of which chat falls back to pager.
FiveChannels ==
    <<Chan("email", "mail", ""), Chan("webhook", "hook", ""), Chan("slack", "chat", "pager"),
      Chan("ntfy", "sms", ""), Chan("pushover", "pager", "")>>

\* Three channels with every name and fallback, some of them mistakes.
ChannelLists ==
    {<<>>} \cup
    {<<Chan("email", a, f), Chan("slack", b, g), [Chan("ntfy", "sms", "") EXCEPT !.complete = ok]>> :
        a \in {"mail", "", "sms", "mail "}, b \in {"chat", "mail"},
        f \in {"", "mail", "chat", "fax"}, g \in {"", "mail", "sms"}, ok \in BOOLEAN}

MailOrChat ==
    [rules |-> <<[name |-> Tidy("first"), match |-> [AnyMatch EXCEPT !.minSeverity = Tidy("error")], channels |-> <<Odd("mail")>>]>>,
     default |-> <<Tidy("chat")>>]

MCConfigs ==
    {[channels |-> FiveChannels, routing |-> s] : s \in RoutingSections \cup {NoRouting}}
    \cup {[channels |-> l, routing |-> s] : l \in ChannelLists, s \in {NoRouting, MailOrChat}}
=============================================================================
