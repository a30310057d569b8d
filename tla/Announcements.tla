----------------------------- MODULE Announcements -----------------------------
(***************************************************************************)
(* What the store promises the people behind the channels, without queue   *)
(* states, claims, retries or workers (the contract that storage.go writes *)
(* over EventStore and DeliveryStore): which notices an incident owes, when *)
(* one may be told, and which are given up or withdrawn.  Store implements *)
(* it (module StoreAnnounces).                                             *)
(***************************************************************************)
EXTENDS Naturals

VARIABLES
    incidents,  \* id -> "open" or "closed"
    notices     \* id -> [incident, channel, kind, follows, copyOf, fate]

announceVars == <<incidents, notices>>

None == 0   \* a notice that follows no alert, or is no copy

\* A lost notice can be revived by hand; a told or withdrawn one is final.
Fates == {"owed", "told", "lost", "withdrawn"}

AlertsOn(i) == {n \in DOMAIN notices : notices[n].incident = i /\ notices[n].kind = "alert"}

RecoveriesOn(i) == {n \in DOMAIN notices : notices[n].incident = i /\ notices[n].kind = "recovery"}

Owed(i, channel, kind, follows, copyOf) ==
    [incident |-> i, channel |-> channel, kind |-> kind,
     follows |-> follows, copyOf |-> copyOf, fate |-> "owed"]

\* The new notices of a step, under ids that no notice has.
Fresh == DOMAIN notices' \ DOMAIN notices

\* Notice n turns to fate and is otherwise what it was.
Turns(n, fate) ==
    n \in DOMAIN notices' /\ notices'[n] = [notices[n] EXCEPT !.fate = fate]

\* Every old notice but those in changed stays as it is.
KeepsAllBut(changed) ==
    /\ DOMAIN notices \subseteq DOMAIN notices'
    /\ \A n \in DOMAIN notices \ changed : notices'[n] = notices[n]

\* New alerts of incident i, on channels not taken.
FreshAlerts(i, taken) ==
    \A n \in Fresh : LET channel == notices'[n].channel IN
        /\ channel \notin taken
        /\ notices'[n] = Owed(i, channel, "alert", None, None)
-----------------------------------------------------------------------------
AnnounceInit == incidents = <<>> /\ notices = <<>>

\* An incident begins: its alerts are owed.
Open ==
    \E i \in DOMAIN incidents' \ DOMAIN incidents :
        /\ incidents' = [x \in DOMAIN incidents \cup {i} |->
                            IF x = i THEN "open" ELSE incidents[x]]
        /\ KeepsAllBut({})
        /\ FreshAlerts(i, {})

\* It gets worse: channels that have had no alert of it are alerted too.
Widen ==
    /\ UNCHANGED incidents
    /\ Fresh # {}
    /\ KeepsAllBut({})
    /\ \E i \in DOMAIN incidents :
          /\ incidents[i] = "open"
          /\ FreshAlerts(i, {notices[n].channel : n \in AlertsOn(i)})

\* It ends, quietly or with exactly one recovery owed for every alert that was
\* not withdrawn, on the alert's channel.
Close ==
    \E i \in DOMAIN incidents :
        /\ incidents[i] = "open"
        /\ incidents' = [incidents EXCEPT ![i] = "closed"]
        /\ KeepsAllBut({})
        /\ LET alerts == {n \in AlertsOn(i) : notices[n].fate # "withdrawn"}
           IN \/ Fresh = {}
              \/ /\ \A r \in Fresh : \E a \in alerts :
                        notices'[r] = Owed(i, notices[a].channel, "recovery", a, None)
                 /\ \A a \in alerts : \E r \in Fresh :
                        \A s \in Fresh : notices'[s].follows = a <=> s = r

\* A notice is told; a recovery only to those who were told of its alert.
Tell ==
    /\ UNCHANGED incidents
    /\ Fresh = {}
    /\ \E n \in DOMAIN notices :
          /\ notices[n].fate = "owed"
          /\ Turns(n, "told")
          /\ notices[n].kind = "recovery" => notices[notices[n].follows].fate = "told"
          /\ KeepsAllBut({n})

\* Alerts of open incidents are called off before they are told.
Withdraw ==
    /\ UNCHANGED incidents
    /\ Fresh = {}
    /\ \E called \in SUBSET {n \in DOMAIN notices : /\ notices[n].fate = "owed"
                                                    /\ notices[n].kind = "alert"
                                                    /\ incidents[notices[n].incident] = "open"} :
          /\ called # {}
          /\ \A n \in called : Turns(n, "withdrawn")
          /\ KeepsAllBut(called)

\* The copy of alert n on one other channel, made at most once; when the close
\* of the incident was already announced, it owes a recovery of its own.
Copied(n) ==
    LET i    == notices[n].incident
        late == incidents[i] = "closed" /\ RecoveriesOn(i) # {}
    IN /\ notices[n].kind = "alert"
       /\ notices[n].copyOf = None
       /\ \A c \in DOMAIN notices : notices[c].copyOf # n
       /\ \E c \in Fresh : LET channel == notices'[c].channel IN
             /\ channel # notices[n].channel
             /\ notices'[c] = Owed(i, channel, "alert", None, n)
             /\ \/ ~late /\ Fresh = {c}
                \/ /\ late
                   /\ \E r \in Fresh \ {c} :
                         /\ Fresh = {c, r}
                         /\ notices'[r] = Owed(i, channel, "recovery", c, None)

\* A notice is given up, an alert perhaps for a copy.
GiveUp ==
    /\ UNCHANGED incidents
    /\ \E n \in DOMAIN notices :
          /\ notices[n].fate = "owed"
          /\ Turns(n, "lost")
          /\ KeepsAllBut({n})
          /\ Fresh = {} \/ Copied(n)

\* An operator asks for a lost notice again.
Revive ==
    /\ UNCHANGED incidents
    /\ Fresh = {}
    /\ \E n \in DOMAIN notices :
          /\ notices[n].fate = "lost"
          /\ Turns(n, "owed")
          /\ KeepsAllBut({n})

\* Old incidents are forgotten, with every notice of theirs.
Forget ==
    \E old \in SUBSET DOMAIN incidents :
        /\ old # {}
        /\ incidents' = [i \in DOMAIN incidents \ old |-> incidents[i]]
        /\ notices' = [n \in {m \in DOMAIN notices : notices[m].incident \notin old} |-> notices[n]]

\* Work inside the queue, which nobody is told of.
Unnoticed == UNCHANGED announceVars

AnnounceNext ==
    \/ Unnoticed
    \/ Open
    \/ Widen
    \/ Close
    \/ Tell
    \/ Withdraw
    \/ GiveUp
    \/ Revive
    \/ Forget

AnnounceSpec == AnnounceInit /\ [][AnnounceNext]_announceVars
=============================================================================
