---------------------------- MODULE SpoolProofs -----------------------------
(***************************************************************************)
(* The spool of the Monit integration, for any number of overlapping runs, *)
(* checks, kills and lost answers: what is reported as kept is kept, and   *)
(* the events of runs that held the lock arrive in the order of the lock.  *)
(*                                                                         *)
(* The files of such runs are in the spool in the order of their ids       *)
(* (InOrder), the run that holds the lock goes on from all of them         *)
(* (LockedFiles), and its own event comes after them.                      *)
(***************************************************************************)
EXTENDS Spool, FiniteSetTheorems, WellFoundedInduction, TLAPS

Keys == {r.key : r \in Reports}

Event == [id : Nat, key : Keys, says : {r.says : r \in Reports},
          valid : {r.valid : r \in Reports}, underLock : BOOLEAN]

File == [name : Nat, event : Event]

Steps == {"idle", "flush", "sent", "post", "compare", "name", "write", "list", "drop"}

Run == [pc : Steps, event : Event \cup {NoReport}, files : SUBSET File, tries : Nat, name : Nat]

\* Files written by runs that held the lock.
LockedFiles == {f \in spool : f.event.underLock}

SpoolIds == {f.event.id : f \in spool}

UnderLock(p) == p # Timer /\ runs[p].pc # "idle" /\ runs[p].event.underLock

\* The event of p is not in the spool yet.
BeforeWrite == {"flush", "sent", "post", "compare", "name", "write"}

(********** What holds of each run **********)

RunTypeOK(p) ==
    /\ runs[p] \in Run
    /\ p = Timer => runs[p].pc \in {"idle", "flush", "sent"}
    /\ p # Timer /\ runs[p].pc # "idle" => runs[p].event \in Event /\ runs[p].event.id <= given
    /\ runs[p].name <= clock

\* Only the holder of the lock sends, and its event is marked so.
SendsLocked(p) ==
    /\ runs[p].pc \in {"flush", "sent", "post"} => holder = p /\ (p # Timer => UnderLock(p))
    /\ UnderLock(p) => holder = p

\* The files of earlier holders are all in its listing, and sent before its own event.
FilesFirst(p) ==
    /\ runs[p].pc \in {"flush", "sent"} => LockedFiles \subseteq runs[p].files
    /\ runs[p].pc = "post" => LockedFiles = {}

\* Its own event comes after them.
ComesAfter(p) ==
    UnderLock(p) /\ runs[p].pc \in BeforeWrite =>
        /\ latest[runs[p].event.key].underLock <= runs[p].event.id
        /\ \A f \in LockedFiles :
              /\ f.event.id < runs[p].event.id
              /\ runs[p].pc = "write" => f.name < runs[p].name

\* What it is about to remove, or has written, is accounted for.
LeavesNoGap(p) ==
    /\ runs[p].pc = "sent" => runs[p].files # {} /\ NextFile(p).event.id \in accounted
    /\ runs[p].pc \in {"list", "drop"} => runs[p].event.id \in accounted \cup SpoolIds
    /\ runs[p].pc = "drop" => \A f \in runs[p].files : f.name < clock

RunOK(p) == RunTypeOK(p) /\ SendsLocked(p) /\ FilesFirst(p) /\ ComesAfter(p) /\ LeavesNoGap(p)

(********** What holds of the directory and of what arrived **********)

DirectoryTypeOK ==
    /\ clock \in Nat /\ given \in Nat
    /\ spool \subseteq File
    /\ \A f \in spool : f.name <= clock /\ f.event.id <= given
    /\ latest \in [Keys -> [last : Event \cup {NoReport}, underLock : Nat]]
    /\ \A k \in Keys : latest[k].underLock <= given

\* The order of names is that of the lock, and what arrived comes before.
InOrder ==
    /\ \A f, g \in LockedFiles : f.name <= g.name => f.event.id <= g.event.id
    /\ \A f \in LockedFiles : latest[f.event.key].underLock <= f.event.id

NothingLost == kept \subseteq accounted \cup SpoolIds

SpoolInv ==
    /\ DOMAIN runs = RunIds
    /\ DirectoryTypeOK /\ InOrder /\ NothingLost
    /\ \A p \in RunIds : RunOK(p)

(********** Oldest and newest **********)

LEMMA LeastNumber ==
    ASSUME NEW S \in SUBSET Nat, S # {}
    PROVE  \E n \in S : \A m \in S : n <= m
  <1>1. PICK n \in S : \A m \in S : ~(<<m, n>> \in OpToRel(<, Nat))
    BY NatLessThanWellFounded, WFMin
  <1>2. \A m \in S : ~(m < n)
    BY <1>1 DEF OpToRel
  <1> QED
    BY <1>2

LEMMA OldestFound ==
    ASSUME NEW S \in SUBSET File, S # {}
    PROVE  Oldest(S) \in S /\ \A g \in S : Oldest(S).name <= g.name
  <1>1. {f.name : f \in S} \in SUBSET Nat /\ {f.name : f \in S} # {}
    BY DEF File
  <1>2. PICK n \in {f.name : f \in S} : \A m \in {f.name : f \in S} : n <= m
    BY <1>1, LeastNumber
  <1>3. PICK f \in S : f.name = n
    BY <1>2
  <1>4. \A g \in S : f.name <= g.name
    BY <1>2, <1>3
  <1> QED
    BY <1>4 DEF Oldest

LEMMA NewestFound ==
    ASSUME NEW S \in SUBSET File, S # {}, clock \in Nat, \A f \in S : f.name <= clock
    PROVE  Newest(S) \in S
  <1>1. {clock - f.name : f \in S} \in SUBSET Nat /\ {clock - f.name : f \in S} # {}
    BY DEF File
  <1>2. PICK n \in {clock - f.name : f \in S} : \A m \in {clock - f.name : f \in S} : n <= m
    BY <1>1, LeastNumber
  <1>3. PICK f \in S : clock - f.name = n
    BY <1>2
  <1>4. ASSUME NEW g \in S PROVE g.name <= f.name
    <2>1. clock - f.name <= clock - g.name
      BY <1>2, <1>3
    <2>2. f.name \in Nat /\ g.name \in Nat
      BY DEF File
    <2> QED
      BY <2>1, <2>2
  <1> QED
    BY <1>4 DEF Newest

(********** Steps **********)

\* What p leaves true of another run.
LEMMA OthersKept ==
    ASSUME NEW p, NEW q \in RunIds, q # p, RunOK(q), DirectoryTypeOK,
           clock' \in Nat, given' \in Nat,
           runs'[q] = runs[q], clock <= clock', given <= given',
           accounted \subseteq accounted', SpoolIds \subseteq accounted' \cup SpoolIds',
           holder = q => holder' = q /\ LockedFiles' \subseteq LockedFiles /\ latest' = latest
    PROVE  RunOK(q)'
  <1>1. RunTypeOK(q)'
    BY DEF RunOK, RunTypeOK, Run, Event, NoReport, DirectoryTypeOK
  <1>2. UnderLock(q)' = UnderLock(q)
    BY DEF UnderLock
  <1>3. SendsLocked(q)'
    BY <1>2 DEF RunOK, SendsLocked
  <1>4. FilesFirst(q)'
    BY <1>2 DEF RunOK, SendsLocked, FilesFirst
  <1>5. ComesAfter(q)'
    BY <1>2 DEF RunOK, SendsLocked, ComesAfter
  <1>6. NextFile(q)' = NextFile(q)
    BY DEF NextFile, Oldest
  <1>7. ASSUME runs[q].pc = "drop", NEW f \in runs[q].files
        PROVE  f.name < clock'
    <2>1. f.name \in Nat /\ f.name < clock
      BY <1>7 DEF RunOK, RunTypeOK, LeavesNoGap, Run, File
    <2> QED
      BY <2>1 DEF DirectoryTypeOK
  <1>8. LeavesNoGap(q)'
    BY <1>6, <1>7 DEF RunOK, LeavesNoGap
  <1> QED
    BY <1>1, <1>3, <1>4, <1>5, <1>8 DEF RunOK

LEMMA StepKeeps ==
    ASSUME SpoolInv, NEW p \in RunIds, NEW r, Proceed(p, r),
           DirectoryTypeOK', InOrder', NothingLost', RunOK(p)',
           clock <= clock', given <= given',
           accounted \subseteq accounted', SpoolIds \subseteq accounted' \cup SpoolIds',
           \A q \in RunIds \ {p} :
              holder = q => holder' = q /\ LockedFiles' \subseteq LockedFiles /\ latest' = latest
    PROVE  SpoolInv'
  <1>1. DOMAIN runs' = RunIds /\ \A q \in RunIds \ {p} : runs'[q] = runs[q]
    BY DEF Proceed, SpoolInv
  <1>2. ASSUME NEW q \in RunIds \ {p} PROVE RunOK(q)'
    <2>1. RunOK(q) /\ DirectoryTypeOK /\ clock' \in Nat /\ given' \in Nat
      BY DEF SpoolInv, DirectoryTypeOK
    <2> QED
      BY <1>1, <2>1, OthersKept
  <1> QED
    BY <1>1, <1>2 DEF SpoolInv

\* A run that has ended.
LEMMA RestOK ==
    ASSUME NEW p \in RunIds, runs'[p] = Rest, clock' \in Nat
    PROVE  RunOK(p)'
  <1>1. Rest \in Run
    BY DEF Rest, Run, Steps
  <1>2. Rest.pc = "idle" /\ Rest.name = 0
    BY DEF Rest
  <1>3. ~UnderLock(p)'
    BY <1>2 DEF UnderLock
  <1> QED
    BY <1>1, <1>2, <1>3 DEF RunOK, RunTypeOK, SendsLocked, FilesFirst, ComesAfter, LeavesNoGap, BeforeWrite

\* A step that leaves the spool and what arrived alone.
LEMMA QuietStep ==
    ASSUME SpoolInv, NEW p \in RunIds, NEW r, Proceed(p, r),
           UNCHANGED <<spool, latest, given, accounted>>,
           clock' \in Nat, clock <= clock', NothingLost', RunOK(p)',
           \A q \in RunIds \ {p} : holder = q => holder' = q
    PROVE  SpoolInv'
  <1>1. DirectoryTypeOK'
    <2>1. \A f \in spool : f.name \in Nat
      BY DEF SpoolInv, DirectoryTypeOK, File
    <2> QED
      BY <2>1 DEF SpoolInv, DirectoryTypeOK
  <1>2. InOrder'
    BY DEF SpoolInv, InOrder, LockedFiles
  <1>3. given <= given'
    BY DEF SpoolInv, DirectoryTypeOK
  <1>4. LockedFiles' = LockedFiles /\ SpoolIds' = SpoolIds
    BY DEF LockedFiles, SpoolIds
  <1> QED
    BY <1>1, <1>2, <1>3, <1>4, StepKeeps

LEMMA ExitQuietly ==
    ASSUME SpoolInv, NEW p \in RunIds, Exit(p),
           UNCHANGED <<spool, latest, given, clock, accounted>>, NothingLost'
    PROVE  SpoolInv'
  <1>1. Proceed(p, Rest) /\ runs'[p] = Rest
    BY DEF Exit, Proceed, SpoolInv
  <1>2. clock' \in Nat /\ clock <= clock'
    BY DEF SpoolInv, DirectoryTypeOK
  <1>3. \A q \in RunIds \ {p} : holder = q => holder' = q
    BY DEF Exit
  <1> QED
    BY <1>1, <1>2, <1>3, RestOK, QuietStep

LEMMA KeptStill ==
    ASSUME SpoolInv, UNCHANGED <<spool, accounted, kept>>
    PROVE  NothingLost'
  BY DEF SpoolInv, NothingLost, SpoolIds

\* A run that goes on with its own event, if it has one, and leaves the spool alone.
LEMMA GoesOn ==
    ASSUME SpoolInv, NEW p \in RunIds, NEW r \in Run, Proceed(p, r), r.event = runs[p].event,
           runs[p].pc # "idle", r.pc # "idle", r.name <= clock', clock' \in Nat,
           UNCHANGED <<spool, given, holder>>, accounted \subseteq accounted',
           latest' = latest \/ (UnderLock(p) => latest'[runs[p].event.key].underLock <= runs[p].event.id),
           p = Timer => r.pc \in {"flush", "sent"},
           r.pc \in {"flush", "sent", "post"} => holder = p /\ (p # Timer => UnderLock(p)),
           r.pc \in {"flush", "sent"} => LockedFiles \subseteq r.files,
           r.pc = "post" => LockedFiles = {},
           r.pc \in BeforeWrite => runs[p].pc \in BeforeWrite,
           r.pc = "write" => \A f \in LockedFiles : f.name < r.name,
           r.pc = "sent" => r.files # {} /\ Oldest(r.files).event.id \in accounted',
           r.pc \in {"list", "drop"} => runs[p].event.id \in accounted \cup SpoolIds,
           r.pc = "drop" => \A f \in r.files : f.name < clock'
    PROVE  RunOK(p)'
  <1>1. runs'[p] = r
    BY DEF Proceed, SpoolInv
  <1>2. RunOK(p) /\ runs[p] \in Run
    BY DEF SpoolInv, RunOK, RunTypeOK
  <1>3. UnderLock(p)' = UnderLock(p)
    BY <1>1 DEF UnderLock
  <1>4. LockedFiles' = LockedFiles /\ SpoolIds' = SpoolIds
    BY DEF LockedFiles, SpoolIds
  <1>5. NextFile(p)' = Oldest(r.files)
    BY <1>1 DEF NextFile, Oldest
  <1>6. RunTypeOK(p)'
    BY <1>1, <1>2 DEF RunOK, RunTypeOK, Run
  <1>7. SendsLocked(p)' /\ FilesFirst(p)'
    BY <1>1, <1>2, <1>3, <1>4 DEF RunOK, SendsLocked, FilesFirst
  <1>8. ComesAfter(p)'
    BY <1>1, <1>2, <1>3, <1>4 DEF RunOK, ComesAfter
  <1>9. LeavesNoGap(p)'
    BY <1>1, <1>4, <1>5 DEF LeavesNoGap
  <1> QED
    BY <1>6, <1>7, <1>8, <1>9 DEF RunOK

LEMMA RunRecord ==
    ASSUME SpoolInv, NEW p \in RunIds
    PROVE  RunOK(p) /\ runs[p] \in Run
  BY DEF SpoolInv, RunOK, RunTypeOK

LEMMA FlushedKeeps ==
    ASSUME SpoolInv, NEW p \in RunIds, Flushed(p)
    PROVE  SpoolInv'
  <1>1. NothingLost'
    BY KeptStill DEF Flushed
  <1>2. CASE p = Timer
    BY <1>1, <1>2, ExitQuietly DEF Flushed
  <1>3. CASE p # Timer
    <2>1. PICK r \in Run : Proceed(p, r) /\ r.pc = "post" /\ r.event = runs[p].event /\ r.name = runs[p].name
      BY <1>3, RunRecord DEF Flushed, Steps, Run
    <2>2. /\ RunOK(p) /\ runs[p] \in Run /\ runs[p].pc = "flush" /\ runs[p].files = {}
          /\ clock \in Nat /\ runs[p].name <= clock
      BY RunRecord DEF Flushed, RunOK, RunTypeOK, SpoolInv, DirectoryTypeOK
    <2>3. holder = p /\ UnderLock(p) /\ LockedFiles = {}
      BY <1>3, <2>2 DEF RunOK, SendsLocked, FilesFirst
    <2>4. UNCHANGED <<spool, latest, given, accounted, holder, clock>>
      BY <1>3 DEF Flushed
    <2>5. RunOK(p)'
      BY <1>3, <2>1, <2>2, <2>3, <2>4, GoesOn DEF BeforeWrite
    <2> QED
      BY <1>1, <2>1, <2>2, <2>4, <2>5, QuietStep
  <1> QED
    BY <1>2, <1>3

LEMMA FlushMissingKeeps ==
    ASSUME SpoolInv, NEW p \in RunIds, FlushMissing(p)
    PROVE  SpoolInv'
  <1>1. NothingLost' /\ UNCHANGED <<spool, latest, given, accounted, clock>>
    BY KeptStill DEF FlushMissing
  <1>2. CASE p = Timer
    BY <1>1, <1>2, ExitQuietly DEF FlushMissing, FlushFails
  <1>3. CASE p # Timer
    <2> DEFINE r == [runs[p] EXCEPT !.pc = "compare", !.files = {}]
    <2>1. /\ r \in Run /\ Proceed(p, r) /\ UNCHANGED holder
          /\ r.pc = "compare" /\ r.event = runs[p].event /\ r.name = runs[p].name
      BY <1>3, RunRecord DEF FlushMissing, FlushFails, Steps, Run
    <2> HIDE DEF r
    <2>2. /\ runs[p] \in Run /\ runs[p].pc = "flush"
          /\ clock \in Nat /\ runs[p].name <= clock
      BY RunRecord DEF FlushMissing, Flushing, RunOK, RunTypeOK, SpoolInv, DirectoryTypeOK
    <2>3. RunOK(p)'
      BY <1>1, <1>3, <2>1, <2>2, GoesOn DEF BeforeWrite
    <2> QED
      BY <1>1, <2>1, <2>2, <2>3, QuietStep
  <1> QED
    BY <1>2, <1>3

LEMMA CompareKeeps ==
    ASSUME SpoolInv, NEW p \in RunIds, Compare(p)
    PROVE  SpoolInv'
  <1> DEFINE e == runs[p].event
  <1>1. UNCHANGED <<spool, latest, given, accounted, clock>> /\ runs[p].pc = "compare"
    BY DEF Compare
  <1>2. CASE AlreadySpooled(e)
    <2>1. OfKey(e.key) \in SUBSET File /\ OfKey(e.key) # {} /\ OfKey(e.key) \subseteq spool
          /\ clock \in Nat /\ \A f \in OfKey(e.key) : f.name <= clock
      BY <1>2 DEF AlreadySpooled, OfKey, SpoolInv, DirectoryTypeOK
    <2>2. Newest(OfKey(e.key)) \in spool
      BY <2>1, NewestFound
    <2>3. kept' = kept \cup {Newest(OfKey(e.key)).event.id} /\ Exit(p)
      BY <1>2 DEF Compare
    <2>4. NothingLost'
      BY <1>1, <2>2, <2>3 DEF SpoolInv, NothingLost, SpoolIds
    <2> QED
      BY <1>1, <2>3, <2>4, ExitQuietly
  <1>3. CASE ~AlreadySpooled(e)
    <2>1. PICK r \in Run : /\ Proceed(p, r) /\ UNCHANGED <<holder, kept>>
                           /\ r.pc = "name" /\ r.event = runs[p].event /\ r.name = runs[p].name
      BY <1>3, RunRecord DEF Compare, Steps, Run
    <2>2. /\ runs[p] \in Run /\ p # Timer
          /\ clock \in Nat /\ runs[p].name <= clock
      BY <1>1, RunRecord DEF RunOK, RunTypeOK, SpoolInv, DirectoryTypeOK
    <2>3. RunOK(p)'
      BY <1>1, <2>1, <2>2, GoesOn DEF BeforeWrite
    <2>4. NothingLost'
      BY <1>1, <2>1, KeptStill
    <2> QED
      BY <1>1, <2>1, <2>2, <2>3, <2>4, QuietStep
  <1> QED
    BY <1>2, <1>3

\* The name is later than every other.
LEMMA NameKeeps ==
    ASSUME SpoolInv, NEW p \in RunIds, Name(p)
    PROVE  SpoolInv'
  <1>1. UNCHANGED <<spool, latest, given, accounted, holder>> /\ runs[p].pc = "name" /\ clock' = clock + 1
    BY DEF Name
  <1>2. NothingLost' /\ clock + 1 \in Nat
    BY KeptStill DEF Name, SpoolInv, DirectoryTypeOK
  <1> DEFINE r == [runs[p] EXCEPT !.pc = "write", !.name = clock + 1]
  <1>6. r \in Run /\ Proceed(p, r) /\ r.pc = "write" /\ r.event = runs[p].event /\ r.name = clock + 1
    BY <1>2, RunRecord DEF Name, Steps, Run
  <1> HIDE DEF r
  <1>3. runs[p] \in Run /\ p # Timer /\ clock \in Nat /\ \A f \in spool : f.name \in Nat /\ f.name <= clock
    BY <1>1, RunRecord DEF RunOK, RunTypeOK, SpoolInv, DirectoryTypeOK, File
  <1>4. \A f \in LockedFiles : f.name < clock + 1
    BY <1>3 DEF LockedFiles
  <1>5. RunOK(p)'
    BY <1>1, <1>2, <1>3, <1>4, <1>6, GoesOn DEF BeforeWrite
  <1> QED
    BY <1>1, <1>2, <1>3, <1>5, <1>6, QuietStep

LEMMA WriteFailsKeeps ==
    ASSUME SpoolInv, NEW p \in RunIds, WriteFails(p) \/ Kill(p)
    PROVE  SpoolInv'
  <1>1. UNCHANGED <<spool, clock, given, kept, accounted, latest>> /\ Exit(p)
    BY DEF WriteFails, Kill
  <1> QED
    BY <1>1, KeptStill, ExitQuietly

LEMMA SpooledKeeps ==
    ASSUME SpoolInv, NEW p \in RunIds, Spooled(p)
    PROVE  SpoolInv'
  <1>1. UNCHANGED <<spool, clock, given, accounted, latest>> /\ Exit(p)
    BY DEF Spooled
  <1>2. runs[p].event.id \in accounted \cup SpoolIds
    BY RunRecord DEF Spooled, RunOK, LeavesNoGap
  <1>3. NothingLost'
    BY <1>1, <1>2 DEF Spooled, SpoolInv, NothingLost, SpoolIds
  <1> QED
    BY <1>1, <1>3, ExitQuietly

\* SpoolMax newer files follow a file that is to go: it is not the newest.
LEMMA ListKeeps ==
    ASSUME SpoolInv, NEW p \in RunIds, List(p)
    PROVE  SpoolInv'
  <1>1. UNCHANGED <<spool, holder, clock, given, kept, accounted, latest>> /\ runs[p].pc = "list"
    BY DEF List
  <1>2. NothingLost'
    BY <1>1, KeptStill
  <1>3. /\ runs[p] \in Run /\ p # Timer /\ clock \in Nat /\ runs[p].name <= clock
        /\ spool \in SUBSET File /\ \A f \in spool : f.name \in Nat /\ f.name <= clock
        /\ runs[p].event.id \in accounted \cup SpoolIds
    BY <1>1, RunRecord DEF RunOK, RunTypeOK, LeavesNoGap, SpoolInv, DirectoryTypeOK, File
  <1>4. ASSUME NEW f \in PastTheLimit PROVE f.name < clock
    <2>1. f \in spool /\ Cardinality({g \in spool : g.name > f.name}) >= SpoolMax
      BY DEF PastTheLimit
    <2>2. {g \in spool : g.name > f.name} # {}
      BY <2>1, FS_EmptySet, SpoolAssumption
    <2> QED
      BY <1>3, <2>1, <2>2
  <1>5. PastTheLimit \in SUBSET File
    BY <1>3 DEF PastTheLimit
  <1> DEFINE r == [runs[p] EXCEPT !.pc = "drop", !.files = PastTheLimit]
  <1>6. /\ r \in Run /\ Proceed(p, r) /\ r.pc = "drop" /\ r.event = runs[p].event
        /\ r.name = runs[p].name /\ r.files = PastTheLimit
    BY <1>5, RunRecord DEF List, Steps, Run
  <1> HIDE DEF r
  <1>7. RunOK(p)'
    BY <1>1, <1>2, <1>3, <1>4, <1>6, GoesOn DEF BeforeWrite
  <1> QED
    BY <1>1, <1>2, <1>3, <1>6, <1>7, QuietStep

\* A step that adds to neither the spool nor what arrived, but may give out an id.
LEMMA PlaceStep ==
    ASSUME SpoolInv, NEW p \in RunIds, NEW r, Proceed(p, r),
           UNCHANGED <<spool, latest, clock, accounted, kept>>,
           given' \in Nat, given <= given', RunOK(p)',
           \A q \in RunIds \ {p} : holder = q => holder' = q
    PROVE  SpoolInv'
  <1>1. /\ clock \in Nat /\ given \in Nat /\ \A k \in Keys : latest[k].underLock \in Nat
        /\ \A f \in spool : f.event.id \in Nat
    BY DEF SpoolInv, DirectoryTypeOK, File, Event
  <1>2. DirectoryTypeOK'
    BY <1>1 DEF SpoolInv, DirectoryTypeOK
  <1>3. InOrder' /\ NothingLost'
    BY KeptStill DEF SpoolInv, InOrder, LockedFiles
  <1>4. LockedFiles' = LockedFiles /\ SpoolIds' = SpoolIds
    BY DEF LockedFiles, SpoolIds
  <1> QED
    BY <1>1, <1>2, <1>3, <1>4, StepKeeps

\* The id of a new event is later than every other.
LEMMA PlacedLocked ==
    ASSUME SpoolInv, NEW p \in RunIds, NEW run \in Run, Place(p, run, TRUE)
    PROVE  \E r \in Run :
              /\ Proceed(p, r) /\ r.pc = run.pc /\ r.files = run.files /\ r.name = run.name
              /\ r.event \in Event /\ r.event.id = given + 1 /\ r.event.underLock
  <1>1. PICK a \in Reports :
           Proceed(p, [run EXCEPT !.event =
              [id |-> given + 1, key |-> a.key, says |-> a.says, valid |-> a.valid, underLock |-> TRUE]])
    BY DEF Place
  <1> DEFINE e == [id |-> given + 1, key |-> a.key, says |-> a.says, valid |-> a.valid, underLock |-> TRUE]
             r == [run EXCEPT !.event = e]
  <1>2. e \in Event /\ e.id = given + 1 /\ e.underLock
    BY DEF Event, Keys, SpoolInv, DirectoryTypeOK
  <1>3. Proceed(p, r)
    BY <1>1
  <1> HIDE DEF e
  <1>4. r \in Run /\ r.pc = run.pc /\ r.files = run.files /\ r.name = run.name /\ r.event = e
    BY <1>2 DEF Run
  <1> HIDE DEF r
  <1> QED
    BY <1>2, <1>3, <1>4

LEMMA PlacedUnlocked ==
    ASSUME SpoolInv, NEW p \in RunIds, NEW run \in Run, Place(p, run, FALSE)
    PROVE  \E r \in Run :
              /\ Proceed(p, r) /\ r.pc = run.pc /\ r.files = run.files /\ r.name = run.name
              /\ r.event \in Event /\ r.event.id = given + 1 /\ r.event.underLock = FALSE
  <1>1. PICK a \in Reports :
           Proceed(p, [run EXCEPT !.event =
              [id |-> given + 1, key |-> a.key, says |-> a.says, valid |-> a.valid, underLock |-> FALSE]])
    BY DEF Place
  <1> DEFINE e == [id |-> given + 1, key |-> a.key, says |-> a.says, valid |-> a.valid, underLock |-> FALSE]
             r == [run EXCEPT !.event = e]
  <1>2. e \in Event /\ e.id = given + 1 /\ e.underLock = FALSE
    BY DEF Event, Keys, SpoolInv, DirectoryTypeOK
  <1>3. Proceed(p, r)
    BY <1>1
  <1> HIDE DEF e
  <1>4. r \in Run /\ r.pc = run.pc /\ r.files = run.files /\ r.name = run.name /\ r.event = e
    BY <1>2 DEF Run
  <1> HIDE DEF r
  <1> QED
    BY <1>2, <1>3, <1>4

LEMMA TakeLockKeeps ==
    ASSUME SpoolInv, NEW p \in RunIds, TakeLock(p)
    PROVE  SpoolInv'
  <1> DEFINE flush == [Rest EXCEPT !.pc = "flush", !.files = spool]
  <1>1. /\ holder = Nobody /\ holder' = p
        /\ UNCHANGED <<spool, clock, kept, accounted, latest>>
        /\ IF p = Timer THEN Proceed(p, flush) /\ UNCHANGED given ELSE Place(p, flush, TRUE)
    BY DEF TakeLock
  <1>2. /\ spool \in SUBSET File /\ clock \in Nat /\ given \in Nat
        /\ latest \in [Keys -> [last : Event \cup {NoReport}, underLock : Nat]]
        /\ \A k \in Keys : latest[k].underLock <= given
        /\ \A f \in spool : f.event \in Event /\ f.event.id <= given
    BY DEF SpoolInv, DirectoryTypeOK, File
  <1>3. flush \in Run /\ flush.pc = "flush" /\ flush.files = spool /\ flush.name = 0
    BY <1>2 DEF Run, Rest, Steps
  <1> HIDE DEF flush
  <1>4. \A q \in RunIds \ {p} : holder = q => holder' = q
    BY <1>1, SpoolAssumption DEF RunIds
  <1>5. CASE p = Timer
    <2>1. Proceed(p, flush) /\ given' = given
      BY <1>1, <1>5
    <2>2. runs'[p] = flush
      BY <2>1 DEF Proceed, SpoolInv
    <2>3. ~UnderLock(p)'
      BY <1>5 DEF UnderLock
    <2>4. RunOK(p)'
      BY <1>1, <1>2, <1>3, <1>5, <2>2, <2>3
      DEF RunOK, RunTypeOK, SendsLocked, FilesFirst, ComesAfter, LeavesNoGap, LockedFiles
    <2> QED
      BY <1>1, <1>2, <1>4, <2>1, <2>4, PlaceStep
  <1>6. CASE p # Timer
    <2>1. given' = given + 1
      BY <1>1, <1>6 DEF Place
    <2>2. PICK r \in Run :
              /\ Proceed(p, r) /\ r.pc = "flush" /\ r.files = spool /\ r.name = 0
              /\ r.event \in Event /\ r.event.id = given + 1 /\ r.event.underLock
      <3>1. Place(p, flush, TRUE)
        BY <1>1, <1>6
      <3> QED
        BY <1>3, <3>1, PlacedLocked
    <2>3. runs'[p] = r
      BY <2>2 DEF Proceed, SpoolInv
    <2>4. UnderLock(p)'
      BY <1>6, <2>2, <2>3 DEF UnderLock
    <2>5. RunTypeOK(p)'
      BY <1>1, <1>2, <1>6, <2>1, <2>2, <2>3 DEF RunTypeOK
    <2>6. SendsLocked(p)' /\ FilesFirst(p)' /\ LeavesNoGap(p)'
      BY <1>1, <2>2, <2>3, <2>4 DEF SendsLocked, FilesFirst, LeavesNoGap, LockedFiles
    <2>7. latest[r.event.key].underLock \in Nat /\ latest[r.event.key].underLock <= given
      BY <1>2, <2>2 DEF Event
    <2>8. \A f \in spool : f.event.id < given + 1
      BY <1>2 DEF Event
    <2>9. ComesAfter(p)'
      BY <1>1, <1>2, <2>2, <2>3, <2>7, <2>8 DEF ComesAfter, LockedFiles
    <2>10. RunOK(p)'
      BY <2>5, <2>6, <2>9 DEF RunOK
    <2> QED
      BY <1>1, <1>2, <1>4, <2>1, <2>2, <2>10, PlaceStep
  <1> QED
    BY <1>5, <1>6

LEMMA LockTimesOutKeeps ==
    ASSUME SpoolInv, NEW p \in RunIds, LockTimesOut(p)
    PROVE  SpoolInv'
  <1> DEFINE run == [Rest EXCEPT !.pc = "compare"]
  <1>1. /\ p # Timer /\ Place(p, run, FALSE) /\ given' = given + 1
        /\ UNCHANGED <<spool, holder, clock, kept, accounted, latest>>
    BY SpoolAssumption DEF LockTimesOut, Place
  <1>2. run \in Run /\ run.pc = "compare" /\ run.name = 0
    BY DEF Run, Rest, Steps
  <1> HIDE DEF run
  <1>3. PICK r \in Run :
            /\ Proceed(p, r) /\ r.pc = "compare" /\ r.name = 0
            /\ r.event \in Event /\ r.event.id = given + 1 /\ r.event.underLock = FALSE
    <2>1. Place(p, run, FALSE)
      BY <1>1
    <2> QED
      BY <1>2, <2>1, PlacedUnlocked
  <1>4. runs'[p] = r
    BY <1>3 DEF Proceed, SpoolInv
  <1>5. ~UnderLock(p)'
    BY <1>3, <1>4 DEF UnderLock
  <1>6. clock \in Nat /\ given \in Nat
    BY DEF SpoolInv, DirectoryTypeOK
  <1>7. RunOK(p)'
    BY <1>1, <1>3, <1>4, <1>5, <1>6
    DEF RunOK, RunTypeOK, SendsLocked, FilesFirst, ComesAfter, LeavesNoGap
  <1> QED
    BY <1>1, <1>3, <1>6, <1>7, PlaceStep

\* The name of p was given after those of all files of earlier holders.
LEMMA WriteKeeps ==
    ASSUME SpoolInv, NEW p \in RunIds, Write(p)
    PROVE  SpoolInv'
  <1> DEFINE file == [name |-> runs[p].name, event |-> runs[p].event]
             r == [runs[p] EXCEPT !.pc = "list", !.name = 0]
  <1>1. /\ runs[p].pc = "write" /\ spool' = spool \cup {file} /\ Proceed(p, r)
        /\ UNCHANGED <<holder, clock, given, kept, accounted, latest>>
    BY DEF Write
  <1>2. /\ RunOK(p) /\ runs[p] \in Run /\ p # Timer /\ runs[p].event \in Event
        /\ runs[p].event.id <= given /\ runs[p].name \in Nat /\ runs[p].name <= clock
    BY <1>1, RunRecord DEF RunOK, RunTypeOK, Run
  <1>3. r \in Run /\ r.pc = "list" /\ r.name = 0 /\ r.event = runs[p].event /\ runs'[p] = r
    BY <1>1, <1>2 DEF Run, Steps, Proceed, SpoolInv
  <1>4. file \in File /\ file.name = runs[p].name /\ file.event = runs[p].event
    BY <1>2 DEF File
  <1> HIDE DEF file, r
  <1>5. DirectoryTypeOK'
    BY <1>1, <1>2, <1>4 DEF SpoolInv, DirectoryTypeOK
  <1>6. SpoolIds' = SpoolIds \cup {file.event.id}
    BY <1>1 DEF SpoolIds
  <1>7. NothingLost'
    BY <1>1, <1>6 DEF SpoolInv, NothingLost
  <1>8. UnderLock(p) <=> file.event.underLock
    BY <1>1, <1>2, <1>4 DEF UnderLock
  <1>9. LockedFiles' = IF file.event.underLock THEN LockedFiles \cup {file} ELSE LockedFiles
    BY <1>1 DEF LockedFiles
  <1>10. InOrder'
    <2>1. CASE ~file.event.underLock
      BY <1>1, <1>9, <2>1 DEF SpoolInv, InOrder
    <2>2. CASE file.event.underLock
      <3>1. /\ latest[file.event.key].underLock <= file.event.id
            /\ \A f \in LockedFiles : f.event.id < file.event.id /\ f.name < file.name
        BY <1>1, <1>2, <1>4, <1>8, <2>2 DEF RunOK, ComesAfter, BeforeWrite
      <3>2. /\ file.name \in Nat /\ file.event.id \in Nat
            /\ \A f \in LockedFiles : f.name \in Nat /\ f.event.id \in Nat
        BY <1>4 DEF LockedFiles, SpoolInv, DirectoryTypeOK, File, Event
      <3>3. ASSUME NEW f \in LockedFiles \cup {file}, NEW g \in LockedFiles \cup {file}, f.name <= g.name
            PROVE  f.event.id <= g.event.id
        BY <3>1, <3>2, <3>3 DEF SpoolInv, InOrder
      <3>4. \A f \in LockedFiles \cup {file} : latest[f.event.key].underLock <= f.event.id
        BY <3>1 DEF SpoolInv, InOrder
      <3> QED
        BY <1>1, <1>9, <2>2, <3>3, <3>4 DEF InOrder
    <2> QED
      BY <2>1, <2>2
  <1>11. RunOK(p)'
    <2>1. UnderLock(p)' <=> UnderLock(p)
      BY <1>1, <1>3 DEF UnderLock
    <2>2. RunTypeOK(p)'
      BY <1>1, <1>2, <1>3, <1>5 DEF RunTypeOK, DirectoryTypeOK
    <2>3. SendsLocked(p)' /\ FilesFirst(p)' /\ ComesAfter(p)'
      BY <1>1, <1>2, <1>3, <2>1 DEF RunOK, SendsLocked, FilesFirst, ComesAfter, BeforeWrite
    <2>4. LeavesNoGap(p)'
      BY <1>3, <1>4, <1>6 DEF LeavesNoGap
    <2> QED
      BY <2>2, <2>3, <2>4 DEF RunOK
  <1>12. ASSUME NEW q \in RunIds \ {p}, holder = q
         PROVE  LockedFiles' \subseteq LockedFiles
    BY <1>2, <1>8, <1>9, <1>12 DEF RunOK, SendsLocked
  <1>13. clock <= clock' /\ given <= given' /\ accounted \subseteq accounted'
         /\ SpoolIds \subseteq accounted' \cup SpoolIds'
    BY <1>1, <1>6 DEF SpoolInv, DirectoryTypeOK
  <1> QED
    BY <1>1, <1>5, <1>7, <1>10, <1>11, <1>12, <1>13, StepKeeps

(********** Files leave the spool **********)

\* A step of p that removes its next file, which is accounted for.
LEMMA RemovalKeeps ==
    ASSUME SpoolInv, NEW p \in RunIds, NEW r \in Run, Proceed(p, r), NEW file,
           spool' = spool \ {file}, file.event.id \in accounted', accounted \subseteq accounted',
           UNCHANGED <<holder, clock, given, kept, latest>>,
           r.event = runs[p].event, r.name = runs[p].name, r.files = runs[p].files \ {file},
           r.pc = runs[p].pc \/ (r.pc = "flush" /\ runs[p].pc = "sent"),
           runs[p].pc # "idle", r.pc \in {"flush", "drop"}
    PROVE  SpoolInv'
  <1>1. LockedFiles' = LockedFiles \ {file} /\ SpoolIds \subseteq accounted' \cup SpoolIds'
    BY DEF LockedFiles, SpoolIds
  <1>2. DirectoryTypeOK' /\ InOrder'
    BY <1>1 DEF SpoolInv, DirectoryTypeOK, InOrder
  <1>3. NothingLost'
    BY <1>1 DEF SpoolInv, NothingLost
  <1>4. RunOK(p) /\ runs'[p] = r
    BY RunRecord DEF Proceed, SpoolInv
  <1>5. UnderLock(p)' <=> UnderLock(p)
    BY <1>4 DEF UnderLock
  <1>6. RunTypeOK(p)' /\ SendsLocked(p)'
    BY <1>4, <1>5 DEF RunOK, RunTypeOK, SendsLocked
  <1>7. FilesFirst(p)' /\ ComesAfter(p)'
    BY <1>1, <1>4, <1>5 DEF RunOK, FilesFirst, ComesAfter, BeforeWrite
  <1>8. LeavesNoGap(p)'
    BY <1>1, <1>4 DEF RunOK, LeavesNoGap
  <1>9. RunOK(p)'
    BY <1>6, <1>7, <1>8 DEF RunOK
  <1>10. clock <= clock' /\ given <= given'
    BY DEF SpoolInv, DirectoryTypeOK
  <1> QED
    BY <1>1, <1>2, <1>3, <1>9, <1>10, StepKeeps

LEMMA FlushRefusedKeeps ==
    ASSUME SpoolInv, NEW p \in RunIds, FlushRefused(p)
    PROVE  SpoolInv'
  <1> DEFINE r == [runs[p] EXCEPT !.files = @ \ {NextFile(p)}]
  <1>1. /\ r \in Run /\ r.pc = "flush" /\ r.event = runs[p].event /\ r.name = runs[p].name
        /\ r.files = runs[p].files \ {NextFile(p)}
        /\ runs[p].pc = "flush"
    BY RunRecord DEF FlushRefused, Flushing, Run
  <1>2. /\ Proceed(p, r) /\ spool' = spool \ {NextFile(p)}
        /\ NextFile(p).event.id \in accounted' /\ accounted \subseteq accounted'
        /\ UNCHANGED <<holder, clock, given, kept, latest>>
    <2>1. Proceed(p, r)
      BY Zenon DEF FlushRefused
    <2> QED
      BY <2>1 DEF FlushRefused
  <1> HIDE DEF r
  <1> QED
    BY <1>1, <1>2, RemovalKeeps

LEMMA RemoveSentKeeps ==
    ASSUME SpoolInv, NEW p \in RunIds, RemoveSent(p)
    PROVE  SpoolInv'
  <1> DEFINE r == [runs[p] EXCEPT !.pc = "flush", !.files = @ \ {NextFile(p)}]
  <1>1. /\ r \in Run /\ r.pc = "flush" /\ r.event = runs[p].event /\ r.name = runs[p].name
        /\ r.files = runs[p].files \ {NextFile(p)}
        /\ runs[p].pc = "sent"
    BY RunRecord DEF RemoveSent, Run, Steps
  <1>2. NextFile(p).event.id \in accounted
    BY <1>1, RunRecord DEF RunOK, LeavesNoGap
  <1>3. /\ Proceed(p, r) /\ spool' = spool \ {NextFile(p)}
        /\ NextFile(p).event.id \in accounted' /\ accounted \subseteq accounted'
        /\ UNCHANGED <<holder, clock, given, kept, latest>>
    BY <1>2 DEF RemoveSent
  <1> HIDE DEF r
  <1> QED
    BY <1>1, <1>3, RemovalKeeps

LEMMA DropKeeps ==
    ASSUME SpoolInv, NEW p \in RunIds, Drop(p)
    PROVE  SpoolInv'
  <1> DEFINE r == [runs[p] EXCEPT !.files = @ \ {NextFile(p)}]
  <1>1. /\ r \in Run /\ r.pc = "drop" /\ r.event = runs[p].event /\ r.name = runs[p].name
        /\ r.files = runs[p].files \ {NextFile(p)}
        /\ runs[p].pc = "drop"
    BY RunRecord DEF Drop, Run
  <1>2. /\ Proceed(p, r) /\ spool' = spool \ {NextFile(p)}
        /\ NextFile(p).event.id \in accounted' /\ accounted \subseteq accounted'
        /\ UNCHANGED <<holder, clock, given, kept, latest>>
    <2>1. Proceed(p, r)
      BY Zenon DEF Drop
    <2> QED
      BY <2>1 DEF Drop
  <1> HIDE DEF r
  <1> QED
    BY <1>1, <1>2, RemovalKeeps

(********** Events arrive **********)

\* What a step of the holder p makes arrive: nothing, or an event e that comes
\* before all that may still be sent under the lock.
MayTake(e) ==
    \/ UNCHANGED <<accounted, latest>>
    \/ Arrives(e)

LEMMA ArrivalKeeps ==
    ASSUME SpoolInv, NEW p \in RunIds, holder = p, NEW r, Proceed(p, r),
           NEW e \in Event, e.id <= given, MayTake(e),
           e.underLock => latest[e.key].underLock <= e.id /\ \A f \in LockedFiles : e.id <= f.event.id,
           UNCHANGED <<spool, clock, given, kept>>, RunOK(p)'
    PROVE  SpoolInv'
  <1>1. LockedFiles' = LockedFiles /\ SpoolIds' = SpoolIds /\ accounted \subseteq accounted'
    BY DEF LockedFiles, SpoolIds, MayTake, Arrives
  <1>2. /\ latest \in [Keys -> [last : Event \cup {NoReport}, underLock : Nat]]
        /\ latest' \in [Keys -> [last : Event \cup {NoReport}, underLock : Nat]]
        /\ \A k \in Keys : latest'[k].underLock = latest[k].underLock
                           \/ (k = e.key /\ e.underLock /\ latest'[k].underLock = e.id)
    <2>1. latest \in [Keys -> [last : Event \cup {NoReport}, underLock : Nat]] /\ e.key \in Keys
      BY DEF SpoolInv, DirectoryTypeOK, Event
    <2>2. CASE UNCHANGED latest
      BY <2>1, <2>2
    <2>3. CASE Arrives(e)
      <3> DEFINE n == IF e.underLock THEN e.id ELSE latest[e.key].underLock
                 t == [last |-> e, underLock |-> n]
      <3>1. n \in Nat
        BY <2>1 DEF Event
      <3>2. latest' = [latest EXCEPT ![e.key] = t]
        BY <2>3 DEF Arrives
      <3>3. t \in [last : Event \cup {NoReport}, underLock : Nat] /\ t.underLock = n
        <4> HIDE DEF n
        <4> QED
          BY <3>1
      <3> HIDE DEF t
      <3> QED
        BY <2>1, <3>2, <3>3
    <2> QED
      BY <2>2, <2>3 DEF MayTake
  <1>3. DirectoryTypeOK'
    BY <1>2 DEF SpoolInv, DirectoryTypeOK
  <1>4. \A f \in LockedFiles : f.event.key \in Keys
    BY DEF LockedFiles, SpoolInv, DirectoryTypeOK, File, Event
  <1>5. InOrder'
    BY <1>1, <1>2, <1>4 DEF SpoolInv, InOrder
  <1>6. NothingLost'
    BY <1>1 DEF SpoolInv, NothingLost
  <1>7. clock <= clock' /\ given <= given'
    BY DEF SpoolInv, DirectoryTypeOK
  <1> QED
    BY <1>1, <1>3, <1>5, <1>6, <1>7, StepKeeps

\* The next file of a flush comes before all others of the lock.
LEMMA NextComesFirst ==
    ASSUME SpoolInv, NEW p \in RunIds, Flushing(p), NextFile(p) \in spool
    PROVE  /\ holder = p /\ NextFile(p).event \in Event /\ NextFile(p).event.id <= given
           /\ NextFile(p) \in runs[p].files
           /\ NextFile(p).event.underLock =>
                /\ latest[NextFile(p).event.key].underLock <= NextFile(p).event.id
                /\ \A f \in LockedFiles : NextFile(p).event.id <= f.event.id
                /\ UnderLock(p) => NextFile(p).event.id < runs[p].event.id
  <1>1. RunOK(p) /\ runs[p].files \in SUBSET File /\ runs[p].files # {} /\ runs[p].pc = "flush"
    BY RunRecord DEF Run, Flushing
  <1>2. NextFile(p) \in runs[p].files /\ \A g \in runs[p].files : NextFile(p).name <= g.name
    BY <1>1, OldestFound DEF NextFile
  <1>3. holder = p /\ LockedFiles \subseteq runs[p].files
    BY <1>1 DEF RunOK, SendsLocked, FilesFirst
  <1>4. NextFile(p).event \in Event /\ NextFile(p).event.id <= given
    BY DEF SpoolInv, DirectoryTypeOK, File
  <1>5. ASSUME NextFile(p).event.underLock PROVE NextFile(p) \in LockedFiles
    BY <1>5 DEF LockedFiles
  <1> QED
    BY <1>1, <1>2, <1>3, <1>4, <1>5 DEF SpoolInv, InOrder, RunOK, ComesAfter, BeforeWrite

\* What arrives of the spool is not later than the event of the run.
LEMMA TakenBefore ==
    ASSUME SpoolInv, NEW p \in RunIds, runs[p].pc \in BeforeWrite, NEW e \in Event, MayTake(e),
           UnderLock(p) /\ e.underLock => e.id <= runs[p].event.id
    PROVE  UnderLock(p) => latest'[runs[p].event.key].underLock <= runs[p].event.id
  <1>1. SUFFICES ASSUME UnderLock(p)
                 PROVE  latest'[runs[p].event.key].underLock <= runs[p].event.id
    OBVIOUS
  <1>2. /\ latest[runs[p].event.key].underLock <= runs[p].event.id
        /\ runs[p].event.key \in Keys
    BY <1>1, RunRecord DEF RunOK, RunTypeOK, ComesAfter, UnderLock, Event
  <1>3. CASE UNCHANGED latest
    BY <1>2, <1>3
  <1>4. CASE Arrives(e)
    <2> DEFINE t == [last |-> e, underLock |-> IF e.underLock THEN e.id ELSE latest[e.key].underLock]
    <2>1. t.underLock = IF e.underLock THEN e.id ELSE latest[e.key].underLock
      OBVIOUS
    <2>2. latest' = [latest EXCEPT ![e.key] = t] /\ DOMAIN latest = Keys
      BY <1>4 DEF Arrives, SpoolInv, DirectoryTypeOK
    <2> HIDE DEF t
    <2> QED
      BY <1>1, <1>2, <2>1, <2>2
  <1> QED
    BY <1>3, <1>4 DEF MayTake

LEMMA FlushAcceptedKeeps ==
    ASSUME SpoolInv, NEW p \in RunIds, FlushAccepted(p)
    PROVE  SpoolInv'
  <1> DEFINE r == [runs[p] EXCEPT !.pc = "sent"]
             e == NextFile(p).event
  <1>1. /\ Flushing(p) /\ NextFile(p) \in spool /\ Arrives(e) /\ Proceed(p, r)
        /\ UNCHANGED <<spool, holder, clock, given, kept>>
    BY DEF FlushAccepted
  <1>2. /\ r \in Run /\ r.pc = "sent" /\ r.event = runs[p].event /\ r.name = runs[p].name
        /\ r.files = runs[p].files /\ runs[p].pc = "flush" /\ runs[p].files # {}
    BY <1>1, RunRecord DEF Flushing, Run, Steps
  <1> HIDE DEF r
  <1>3. MayTake(e) /\ accounted \subseteq accounted' /\ e.id \in accounted'
    BY <1>1 DEF MayTake, Arrives
  <1>4. Oldest(r.files).event.id \in accounted'
    BY <1>2, <1>3 DEF NextFile
  <1>5. /\ holder = p /\ e \in Event /\ e.id <= given
        /\ e.underLock => latest[e.key].underLock <= e.id /\ \A f \in LockedFiles : e.id <= f.event.id
        /\ UnderLock(p) /\ e.underLock => e.id < runs[p].event.id
    BY <1>1, NextComesFirst
  <1>6. UnderLock(p) => runs[p].event.id \in Nat
    BY RunRecord DEF RunOK, RunTypeOK, UnderLock, Event
  <1>7. e.id \in Nat
    BY <1>5 DEF Event
  <1> HIDE DEF e
  <1>8. UnderLock(p) => latest'[runs[p].event.key].underLock <= runs[p].event.id
    BY <1>2, <1>3, <1>5, <1>6, <1>7, TakenBefore DEF BeforeWrite
  <1>9. RunOK(p) /\ clock \in Nat /\ runs[p].name <= clock
    BY RunRecord DEF RunOK, RunTypeOK, SpoolInv, DirectoryTypeOK
  <1>10. /\ p # Timer => UnderLock(p)
         /\ LockedFiles \subseteq r.files
    BY <1>2, <1>9 DEF RunOK, SendsLocked, FilesFirst
  <1>11. RunOK(p)'
    BY <1>1, <1>2, <1>3, <1>4, <1>5, <1>8, <1>9, <1>10, GoesOn DEF BeforeWrite
  <1> QED
    BY <1>1, <1>3, <1>5, <1>11, ArrivalKeeps

LEMMA FlushUnsentKeeps ==
    ASSUME SpoolInv, NEW p \in RunIds, FlushUnsent(p)
    PROVE  SpoolInv'
  <1> DEFINE e == NextFile(p).event
  <1>1. /\ Flushing(p) /\ NextFile(p) \in spool /\ MayTake(e) /\ FlushFails(p)
        /\ UNCHANGED <<spool, clock, given, kept>>
    BY DEF FlushUnsent, MayArrive, MayTake
  <1>2. accounted \subseteq accounted'
    BY <1>1 DEF MayTake, Arrives
  <1>3. /\ holder = p /\ e \in Event /\ e.id <= given
        /\ e.underLock => latest[e.key].underLock <= e.id /\ \A f \in LockedFiles : e.id <= f.event.id
        /\ UnderLock(p) /\ e.underLock => e.id < runs[p].event.id
    BY <1>1, NextComesFirst
  <1>4. UnderLock(p) => runs[p].event.id \in Nat
    BY RunRecord DEF RunOK, RunTypeOK, UnderLock, Event
  <1>5. e.id \in Nat /\ runs[p].pc = "flush" /\ clock \in Nat
    BY <1>1, <1>3 DEF Event, Flushing, SpoolInv, DirectoryTypeOK
  <1> HIDE DEF e
  <1>6. UnderLock(p) => latest'[runs[p].event.key].underLock <= runs[p].event.id
    BY <1>1, <1>3, <1>4, <1>5, TakenBefore DEF BeforeWrite
  <1>7. CASE p = Timer
    <2>1. Proceed(p, Rest)
      BY <1>1, <1>7 DEF FlushFails, Exit
    <2>2. RunOK(p)'
      BY <1>1, <1>5, <2>1, RestOK DEF Proceed, SpoolInv
    <2> QED
      BY <1>1, <1>3, <2>1, <2>2, ArrivalKeeps
  <1>8. CASE p # Timer
    <2> DEFINE r == [runs[p] EXCEPT !.pc = "compare", !.files = {}]
    <2>1. /\ r \in Run /\ Proceed(p, r) /\ UNCHANGED holder
          /\ r.pc = "compare" /\ r.event = runs[p].event /\ r.name = runs[p].name
      BY <1>1, <1>8, RunRecord DEF FlushFails, Steps, Run
    <2> HIDE DEF r
    <2>2. RunOK(p) /\ runs[p].name <= clock
      BY RunRecord DEF RunOK, RunTypeOK
    <2>3. RunOK(p)'
      BY <1>1, <1>2, <1>5, <1>6, <1>8, <2>1, <2>2, GoesOn DEF BeforeWrite
    <2> QED
      BY <1>1, <1>3, <2>1, <2>3, ArrivalKeeps
  <1> QED
    BY <1>7, <1>8

\* No file of the lock is left when a run posts its own event.
LEMMA PostComesLast ==
    ASSUME SpoolInv, NEW p \in RunIds, runs[p].pc = "post"
    PROVE  /\ holder = p /\ p # Timer /\ UnderLock(p) /\ runs[p].event \in Event /\ runs[p].event.id <= given
           /\ runs[p].event.id \in Nat
           /\ latest[runs[p].event.key].underLock <= runs[p].event.id
           /\ LockedFiles = {}
  <1>1. RunOK(p) /\ p # Timer
    BY RunRecord DEF RunOK, RunTypeOK
  <1> QED
    BY <1>1 DEF RunOK, RunTypeOK, SendsLocked, FilesFirst, ComesAfter, BeforeWrite, Event

LEMMA PostAnsweredKeeps ==
    ASSUME SpoolInv, NEW p \in RunIds, PostAnswered(p)
    PROVE  SpoolInv'
  <1>1. /\ runs[p].pc = "post" /\ MayTake(runs[p].event) /\ Proceed(p, Rest)
        /\ UNCHANGED <<spool, clock, given, kept>>
    BY DEF PostAnswered, MayArrive, MayTake, Exit
  <1>2. RunOK(p)'
    BY <1>1, RestOK DEF Proceed, SpoolInv, DirectoryTypeOK
  <1> QED
    BY <1>1, <1>2, PostComesLast, ArrivalKeeps

LEMMA PostUnansweredKeeps ==
    ASSUME SpoolInv, NEW p \in RunIds, PostUnanswered(p)
    PROVE  SpoolInv'
  <1> DEFINE r == IF runs[p].tries < RetryCount
                  THEN [runs[p] EXCEPT !.tries = @ + 1]
                  ELSE [runs[p] EXCEPT !.pc = "compare", !.tries = 0]
  <1>1. /\ runs[p].pc = "post" /\ MayTake(runs[p].event) /\ Proceed(p, r)
        /\ UNCHANGED <<spool, holder, clock, given, kept>>
    BY DEF PostUnanswered, MayArrive, MayTake
  <1>2. /\ r \in Run /\ r.pc \in {"post", "compare"}
        /\ r.event = runs[p].event /\ r.name = runs[p].name
    <2> DEFINE again == [runs[p] EXCEPT !.tries = @ + 1]
               late == [runs[p] EXCEPT !.pc = "compare", !.tries = 0]
    <2>1. /\ again \in Run /\ again.pc = "post"
          /\ again.event = runs[p].event /\ again.name = runs[p].name
      BY <1>1, RunRecord DEF Run, Steps
    <2>2. /\ late \in Run /\ late.pc = "compare"
          /\ late.event = runs[p].event /\ late.name = runs[p].name
      BY <1>1, RunRecord DEF Run, Steps
    <2>3. r = again \/ r = late
      BY Zenon
    <2> HIDE DEF again, late, r
    <2> QED
      BY <2>1, <2>2, <2>3
  <1> HIDE DEF r
  <1>3. accounted \subseteq accounted'
    BY <1>1 DEF MayTake, Arrives
  <1>4. RunOK(p) /\ clock \in Nat /\ runs[p].name <= clock
    BY RunRecord DEF RunOK, RunTypeOK, SpoolInv, DirectoryTypeOK
  <1>5. UnderLock(p) => latest'[runs[p].event.key].underLock <= runs[p].event.id
    BY <1>1, PostComesLast, TakenBefore DEF BeforeWrite
  <1>6. RunOK(p)'
    BY <1>1, <1>2, <1>3, <1>4, <1>5, PostComesLast, GoesOn DEF BeforeWrite
  <1> QED
    BY <1>1, <1>6, PostComesLast, ArrivalKeeps

(********** The theorems **********)

LEMMA SpoolInitInv == SpoolInit => SpoolInv
  <1> SUFFICES ASSUME SpoolInit PROVE SpoolInv
    OBVIOUS
  <1>1. Rest \in Run /\ Rest.pc = "idle" /\ Rest.name = 0
    BY DEF Rest, Run, Steps
  <1>2. DOMAIN runs = RunIds /\ \A p \in RunIds : runs[p] = Rest
    BY DEF SpoolInit
  <1>3. \A p \in RunIds : RunOK(p)
    BY <1>1, <1>2
    DEF SpoolInit, RunOK, RunTypeOK, SendsLocked, FilesFirst, ComesAfter, LeavesNoGap, UnderLock, BeforeWrite
  <1>4. DirectoryTypeOK
    BY DEF SpoolInit, DirectoryTypeOK, Keys
  <1>5. InOrder /\ NothingLost
    BY DEF SpoolInit, InOrder, NothingLost, LockedFiles
  <1> QED
    BY <1>2, <1>3, <1>4, <1>5 DEF SpoolInv

LEMMA SpoolNextInv == SpoolInv /\ [SpoolNext]_spoolVars => SpoolInv'
  <1> SUFFICES ASSUME SpoolInv, [SpoolNext]_spoolVars PROVE SpoolInv'
    OBVIOUS
  <1>1. CASE UNCHANGED spoolVars
    <2>1. UNCHANGED <<LockedFiles, SpoolIds>>
      BY <1>1 DEF spoolVars, LockedFiles, SpoolIds
    <2>2. DirectoryTypeOK' /\ InOrder' /\ NothingLost'
      BY <1>1, <2>1 DEF spoolVars, SpoolInv, DirectoryTypeOK, InOrder, NothingLost
    <2>3. ASSUME NEW p \in RunIds PROVE RunOK(p)'
      <3>1. UNCHANGED <<UnderLock(p), NextFile(p)>>
        BY <1>1 DEF spoolVars, UnderLock, NextFile, Oldest
      <3> QED
        BY <1>1, <2>1, <3>1, RunRecord
        DEF spoolVars, RunOK, RunTypeOK, SendsLocked, FilesFirst, ComesAfter, LeavesNoGap
    <2> QED
      BY <1>1, <2>2, <2>3 DEF spoolVars, SpoolInv
  <1>2. ASSUME NEW p \in RunIds, Start(p) \/ Continue(p) \/ Kill(p)
        PROVE  SpoolInv'
    BY <1>2, TakeLockKeeps, LockTimesOutKeeps, FlushMissingKeeps, FlushAcceptedKeeps, FlushUnsentKeeps,
       FlushRefusedKeeps, RemoveSentKeeps, FlushedKeeps, PostAnsweredKeeps, PostUnansweredKeeps,
       CompareKeeps, NameKeeps, WriteKeeps, WriteFailsKeeps, ListKeeps, DropKeeps, SpooledKeeps
    DEF Start, Continue
  <1> QED
    BY <1>1, <1>2 DEF SpoolNext

\* What a run removes for the limit is older than the newest name.
LEMMA DropsOlder ==
    ASSUME SpoolInv, NEW p \in RunIds, Drop(p), NEW f \in spool, f.name = clock
    PROVE  f \in spool'
  <1>1. RunOK(p) /\ runs[p].files \in SUBSET File /\ runs[p].files # {} /\ runs[p].pc = "drop"
    BY RunRecord DEF Run, Drop
  <1>2. NextFile(p) \in runs[p].files
    BY <1>1, OldestFound DEF NextFile
  <1>3. NextFile(p).name < clock
    BY <1>1, <1>2 DEF RunOK, LeavesNoGap
  <1> QED
    BY <1>3 DEF Drop, SpoolInv, DirectoryTypeOK

\* An event reported as kept is in the spool until it arrived or its refusal or
\* loss was told, and a run that removes files for the limit never takes the
\* newest (spool, flush, drop, reject): for any number of overlapping runs.
THEOREM KeptStaysKept == SpoolSpec => KeptIsKept
  <1>1. SpoolInv => kept \subseteq accounted \cup {f.event.id : f \in spool}
    BY DEF SpoolInv, NothingLost, SpoolIds
  <1>2. SpoolInv /\ [SpoolNext]_spoolVars =>
          [\A f \in spool : f.name = clock /\ (\E p \in Senders : Drop(p)) => f \in spool']_spoolVars
    BY DropsOlder DEF RunIds
  <1> QED
    BY <1>1, <1>2, SpoolInitInv, SpoolNextInv, PTL DEF SpoolSpec, KeptIsKept

\* A step that takes an event under the lock takes one behind those before it.
LEMMA TakesInOrder ==
    ASSUME SpoolInv, NEW e \in Event, MayTake(e), NEW k \in DOMAIN latest,
           e.underLock => latest[e.key].underLock <= e.id
    PROVE  latest'[k].underLock >= latest[k].underLock
  <1>1. latest[k].underLock \in Nat
    BY DEF SpoolInv, DirectoryTypeOK
  <1>2. CASE UNCHANGED latest
    BY <1>1, <1>2
  <1>3. CASE Arrives(e)
    <2> DEFINE t == [last |-> e, underLock |-> IF e.underLock THEN e.id ELSE latest[e.key].underLock]
    <2>1. t.underLock = IF e.underLock THEN e.id ELSE latest[e.key].underLock
      OBVIOUS
    <2>2. latest' = [latest EXCEPT ![e.key] = t] /\ e.id \in Nat
      BY <1>3 DEF Arrives, Event
    <2> HIDE DEF t
    <2> QED
      BY <1>1, <2>1, <2>2
  <1> QED
    BY <1>2, <1>3 DEF MayTake

\* The events of one key whose runs held the lock arrive in the order in which
\* they held it, repeated arrivals included (flush, spool, lock): whatever runs
\* overlap, answers are lost, runs are killed or events are queued past the lock.
THEOREM LockOrdersArrivals == SpoolSpec => SentInOrder
  <1> DEFINE Forward == \A k \in DOMAIN latest : latest'[k].underLock >= latest[k].underLock
  <1>1. ASSUME SpoolInv, SpoolNext PROVE Forward
    <2>1. PICK p \in RunIds : Start(p) \/ Continue(p) \/ Kill(p)
      BY <1>1 DEF SpoolNext
    <2>2. CASE FlushAccepted(p) \/ FlushUnsent(p)
      <3>1. Flushing(p) /\ NextFile(p) \in spool /\ MayTake(NextFile(p).event)
        BY <2>2 DEF FlushAccepted, FlushUnsent, MayArrive, MayTake
      <3> QED
        BY <1>1, <3>1, NextComesFirst, TakesInOrder
    <2>3. CASE PostAnswered(p) \/ PostUnanswered(p)
      <3>1. runs[p].pc = "post" /\ MayTake(runs[p].event)
        BY <2>3 DEF PostAnswered, PostUnanswered, MayArrive, MayTake
      <3> QED
        BY <1>1, <3>1, PostComesLast, TakesInOrder
    <2>4. CASE UNCHANGED latest
      BY <1>1, <2>4 DEF SpoolInv, DirectoryTypeOK
    <2> QED
      BY <2>1, <2>2, <2>3, <2>4
      DEF Start, Continue, TakeLock, LockTimesOut, FlushMissing, FlushRefused, RemoveSent, Flushed,
          Compare, Name, Write, WriteFails, List, Drop, Spooled, Kill
  <1>2. SpoolInv /\ [SpoolNext]_spoolVars => [Forward]_spoolVars
    BY <1>1
  <1> QED
    BY <1>2, SpoolInitInv, SpoolNextInv, PTL DEF SpoolSpec, SentInOrder

=============================================================================
