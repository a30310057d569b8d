---------------------------- MODULE ProcessProofs ----------------------------
(***************************************************************************)
(* A process of AlertLoop beside others, for every number of processes,    *)
(* releases, crashes and requests: the schema is migrated once and in      *)
(* order, the database is closed when nothing uses it any more, and, for   *)
(* every file, environment and event, settings hold what was written and   *)
(* what was checked at the start is what routes.                           *)
(***************************************************************************)
EXTENDS Migrations, Lifecycle, Routing, Configuration,
        FiniteSetTheorems, SequenceTheorems, WellFoundedInduction, TLAPS

(***************************************************************************)
(* Migrations.  What a process has read of the ledger, and added to it     *)
(* itself, is a prefix of it: when its next version is not recorded, it is *)
(* therefore the one that comes after the last.                            *)
(***************************************************************************)
ReadsPrefix ==
    \A p \in Processes : pc[p] \in {"migrating", "commit"} =>
        \E k \in 0 .. Len(schema) :
            /\ applied[p] = 1 .. k
            /\ k <= Ships[p]
            /\ pc[p] = "commit" => k < Ships[p]

MigrateInv ==
    /\ schema \in Seq(Nat)
    /\ DOMAIN pc = Processes
    /\ DOMAIN applied = Processes
    /\ AppliedOnceInOrder
    /\ ReadsPrefix

LEMMA NextInOrder ==
    ASSUME NEW p \in Processes, NEW k \in Nat, applied[p] = 1 .. k, k < Ships[p]
    PROVE  NextVersion(p) = k + 1
  <1>1. Ships[p] \in Nat
    BY MigrationsAssumption
  <1>2. k + 1 \in Missing(p) /\ \A w \in Missing(p) : k + 1 <= w /\ w \in Nat
    BY <1>1 DEF Missing
  <1>3. \A v \in Missing(p) : (\A w \in Missing(p) : v <= w) => v = k + 1
    BY <1>2
  <1>4. \E v \in Missing(p) : \A w \in Missing(p) : v <= w
    BY <1>2
  <1> QED
    BY <1>3, <1>4 DEF NextVersion

\* A step of p that leaves the schema alone.
LEMMA SchemaRests ==
    ASSUME MigrateInv, NEW p \in Processes, UNCHANGED <<schema, ledger>>,
           NEW to, Go(p, to),
           \A q \in Processes \ {p} : applied'[q] = applied[q],
           DOMAIN applied' = Processes,
           to = "serving" => 1 .. Ships[p] \subseteq ledger,
           to \in {"migrating", "commit"} =>
              \E k \in 0 .. Len(schema) :
                  /\ applied'[p] = 1 .. k
                  /\ k <= Ships[p]
                  /\ to = "commit" => k < Ships[p]
    PROVE  MigrateInv'
  <1>1. /\ DOMAIN pc' = Processes
        /\ pc'[p] = to
        /\ \A q \in Processes \ {p} : pc'[q] = pc[q]
    BY DEF Go, MigrateInv
  <1>2. AppliedOnceInOrder'
    BY <1>1 DEF MigrateInv, AppliedOnceInOrder
  <1>3. ReadsPrefix'
    <2> SUFFICES ASSUME NEW q \in Processes, pc'[q] \in {"migrating", "commit"}
                 PROVE  \E k \in 0 .. Len(schema') :
                           /\ applied'[q] = 1 .. k
                           /\ k <= Ships[q]
                           /\ pc'[q] = "commit" => k < Ships[q]
      BY DEF ReadsPrefix
    <2>1. CASE q = p
      BY <1>1, <2>1
    <2>2. CASE q # p
      BY <1>1, <2>2 DEF MigrateInv, ReadsPrefix
    <2> QED
      BY <2>1, <2>2
  <1> QED
    BY <1>1, <1>2, <1>3 DEF MigrateInv

LEMMA MigrateStep ==
    ASSUME MigrateInv, [MigrateNext]_migrateVars
    PROVE  MigrateInv'
  <1>1. /\ schema \in Seq(Nat) /\ Len(schema) \in Nat
        /\ ledger = 1 .. Len(schema)
        /\ DOMAIN applied = Processes
        /\ schema = [v \in 1 .. Len(schema) |-> v]
    BY DEF MigrateInv, AppliedOnceInOrder
  <1>2. ASSUME NEW p \in Processes, Start(p) \/ Restart(p) \/ Crash(p) PROVE MigrateInv'
    <2>1. PICK to \in {"starting", "failed", "off"} :
              Go(p, to) /\ UNCHANGED <<schema, ledger, applied>>
      BY <1>2 DEF Start, Restart, Crash
    <2> QED
      BY <1>1, <2>1, SchemaRests
  <1>3. ASSUME NEW p \in Processes, ReadApplied(p) PROVE MigrateInv'
    <2>1. /\ applied' = [applied EXCEPT ![p] = ledger]
          /\ Go(p, IF RefuseNewerSchema(p) THEN "refused" ELSE "migrating")
          /\ UNCHANGED <<schema, ledger>>
      BY <1>3 DEF ReadApplied
    <2>2. /\ DOMAIN applied' = Processes
          /\ applied'[p] = 1 .. Len(schema)
          /\ \A q \in Processes \ {p} : applied'[q] = applied[q]
      BY <1>1, <2>1
    <2>3. CASE RefuseNewerSchema(p)
      BY <2>1, <2>2, <2>3, SchemaRests
    <2>4. CASE ~RefuseNewerSchema(p)
      <3>1. Ships[p] \in Nat /\ Len(schema) \in 0 .. Len(schema)
        BY <1>1, MigrationsAssumption
      <3>2. Len(schema) <= Ships[p]
        <4>1. ~(Len(schema) > Ships[p])
          <5>1. Len(schema) > Ships[p] => Len(schema) \in ledger
            BY <1>1, <3>1
          <5> QED
            BY <2>4, <5>1 DEF RefuseNewerSchema
        <4> QED
          BY <1>1, <3>1, <4>1
      <3> QED
        BY <2>1, <2>2, <2>4, <3>1, <3>2, SchemaRests
    <2> QED
      BY <2>3, <2>4
  <1>4. ASSUME NEW p \in Processes, RunStatements(p) PROVE MigrateInv'
    <2>1. /\ pc[p] = "migrating" /\ Missing(p) # {} /\ Go(p, "commit")
          /\ UNCHANGED <<schema, ledger, applied>>
      BY <1>4 DEF RunStatements
    <2>2. PICK k \in 0 .. Len(schema) : applied[p] = 1 .. k /\ k <= Ships[p]
      BY <2>1 DEF MigrateInv, ReadsPrefix
    <2>3. k < Ships[p]
      BY <1>1, <2>1, <2>2, MigrationsAssumption DEF Missing
    <2> QED
      BY <1>1, <2>1, <2>2, <2>3, SchemaRests
  <1>5. ASSUME NEW p \in Processes, Serve(p) PROVE MigrateInv'
    <2>1. /\ pc[p] = "migrating" /\ Missing(p) = {} /\ Go(p, "serving")
          /\ UNCHANGED <<schema, ledger, applied>>
      BY <1>5 DEF Serve
    <2>2. PICK k \in 0 .. Len(schema) : applied[p] = 1 .. k
      BY <2>1 DEF MigrateInv, ReadsPrefix
    <2>3. 1 .. Ships[p] \subseteq ledger
      BY <1>1, <2>1, <2>2, MigrationsAssumption DEF Missing
    <2> QED
      BY <1>1, <2>1, <2>3, SchemaRests
  <1>6. ASSUME NEW p \in Processes, Commit(p) PROVE MigrateInv'
    <2>1. pc[p] = "commit"
      BY <1>6 DEF Commit
    <2>2. PICK k \in 0 .. Len(schema) : applied[p] = 1 .. k /\ k < Ships[p]
      BY <2>1 DEF MigrateInv, ReadsPrefix
    <2>3. k \in Nat /\ NextVersion(p) = k + 1
      BY <1>1, <2>2, NextInOrder
    <2>4. CASE k + 1 \in ledger
      <3>1. Go(p, "failed") /\ UNCHANGED <<schema, ledger, applied>>
        BY <1>6, <2>3, <2>4 DEF Commit
      <3> QED
        BY <1>1, <3>1, SchemaRests
    <2>5. CASE k + 1 \notin ledger
      <3>1. /\ schema' = Append(schema, k + 1) /\ ledger' = ledger \cup {k + 1}
            /\ applied' = [applied EXCEPT ![p] = @ \cup {k + 1}]
            /\ pc' = [pc EXCEPT ![p] = "migrating"]
        BY <1>6, <2>3, <2>5 DEF Commit, Go
      \* The version that is missing is the next one of the schema.
      <3>2. k = Len(schema)
        <4>1. Len(schema) \in Nat /\ ledger = 1 .. Len(schema)
          BY <1>1
        <4> QED
          BY <2>3, <2>5, <4>1
      <3>3. schema' \in Seq(Nat) /\ Len(schema') = k + 1
        BY <1>1, <2>3, <3>1, <3>2
      <3>4. schema' = [v \in 1 .. Len(schema') |-> v]
        <4>1. \A v \in 1 .. (k + 1) : schema'[v] = IF v <= k THEN schema[v] ELSE k + 1
          BY <1>1, <2>3, <3>1, <3>2
        <4>2. \A v \in 1 .. k : schema[v] = v
          BY <1>1, <3>2
        <4>3. \A v \in 1 .. (k + 1) : schema'[v] = v
          BY <2>3, <4>1, <4>2
        <4>4. DOMAIN schema' = 1 .. (k + 1) /\ schema' = [v \in DOMAIN schema' |-> schema'[v]]
          BY <3>3
        <4> QED
          BY <3>3, <4>3, <4>4
      <3>5. ledger' = 1 .. Len(schema')
        BY <1>1, <2>3, <3>1, <3>2, <3>3
      <3>6. /\ DOMAIN pc' = Processes /\ pc'[p] = "migrating"
            /\ DOMAIN applied' = Processes
            /\ \A q \in Processes \ {p} : pc'[q] = pc[q] /\ applied'[q] = applied[q]
        BY <3>1 DEF MigrateInv
      <3>7. applied'[p] = 1 .. (k + 1)
        BY <1>1, <2>2, <2>3, <3>1
      <3>8. k + 1 <= Ships[p] /\ k + 1 \in 0 .. Len(schema')
        BY <2>2, <2>3, <3>3, MigrationsAssumption
      <3>9. AppliedOnceInOrder'
        <4>1. \A q \in Processes : pc'[q] = "serving" => 1 .. Ships[q] \subseteq ledger'
          BY <3>1, <3>6 DEF MigrateInv, AppliedOnceInOrder
        <4> QED
          BY <3>4, <3>5, <4>1 DEF AppliedOnceInOrder
      <3>10. ReadsPrefix'
        <4>1. \A n \in 0 .. Len(schema) : n \in 0 .. Len(schema')
          BY <1>1, <3>2, <3>3
        <4> QED
          BY <3>6, <3>7, <3>8, <4>1 DEF MigrateInv, ReadsPrefix
      <3> QED
        BY <3>3, <3>6, <3>9, <3>10 DEF MigrateInv
    <2> QED
      BY <2>4, <2>5
  <1>7. CASE UNCHANGED migrateVars
    BY <1>7 DEF migrateVars, MigrateInv, AppliedOnceInOrder, ReadsPrefix
  <1> QED
    BY <1>2, <1>3, <1>4, <1>5, <1>6, <1>7 DEF MigrateNext, Step

(***************************************************************************)
(* Every migration takes effect once, in order and without gaps, and no    *)
(* process serves on less than it ships, however many processes of         *)
(* whatever releases start, race and crash (migrate, applyMigration).      *)
(***************************************************************************)
THEOREM MigratedOnceInOrder == MigrateSpec => []AppliedOnceInOrder
  <1>1. MigrateInit => MigrateInv
    <2> SUFFICES ASSUME MigrateInit PROVE MigrateInv
      OBVIOUS
    <2>1. schema = <<>> /\ Len(schema) = 0 /\ schema \in Seq(Nat)
      BY DEF MigrateInit
    <2>2. 1 .. 0 = {} /\ <<>> = [v \in 1 .. 0 |-> v]
      OBVIOUS
    <2> QED
      BY <2>1, <2>2 DEF MigrateInit, MigrateInv, AppliedOnceInOrder, ReadsPrefix
  <1>2. MigrateInv /\ [MigrateNext]_migrateVars => MigrateInv'
    BY MigrateStep
  <1>3. MigrateInv => AppliedOnceInOrder
    BY DEF MigrateInv
  <1> QED
    BY <1>1, <1>2, <1>3, PTL DEF MigrateSpec
-----------------------------------------------------------------------------
(***************************************************************************)
(* The end of a process.  Each half that has returned has left nothing     *)
(* behind, and stays returned; so what main finds when both have is final. *)
(***************************************************************************)

\* What a server that has stopped listening, and one that has returned, left.
ServerLeft ==
    /\ server # "running" => listener \in {"off", "closed", "failed"}
    /\ server \in {"off", "returned"} => requests = 0
    /\ server = "failed" => overran \/ listener = "failed"

\* What a worker whose Run has returned, and one that has returned, left.
WorkerLeft ==
    /\ worker \in {"off", "waiting", "returned"} => sends = 0 /\ reaper \in {"off", "done"}
    /\ worker \in {"off", "returned"} => retention \in {"off", "done"}

\* RunAll has the error of the server, and no other.
ErrorsKept == mode = "all" => (AnyError = (server = "failed"))

\* Main has waited for both halves.
MainWaited == main # "running" => BothReturned /\ (exitError = (server = "failed"))

RunInv ==
    /\ errCh \in Seq(BOOLEAN) /\ requests \in Nat /\ sends \in Nat
    /\ ServerLeft /\ WorkerLeft /\ ErrorsKept /\ MainWaited

LEMMA ErrorAdded ==
    ASSUME NEW s \in Seq(BOOLEAN), NEW err \in BOOLEAN
    PROVE  /\ Append(s, err) \in Seq(BOOLEAN)
           /\ (\E i \in DOMAIN Append(s, err) : Append(s, err)[i])
                = ((\E i \in DOMAIN s : s[i]) \/ err)
  <1>1. /\ Append(s, err) \in Seq(BOOLEAN)
        /\ DOMAIN s = 1 .. Len(s) /\ Len(s) \in Nat
        /\ DOMAIN Append(s, err) = 1 .. Len(s) + 1
    OBVIOUS
  <1>2. \A i \in 1 .. Len(s) : Append(s, err)[i] = s[i]
    OBVIOUS
  <1>3. Append(s, err)[Len(s) + 1] = err
    OBVIOUS
  <1>4. \A i \in 1 .. Len(s) + 1 : i \in 1 .. Len(s) \/ i = Len(s) + 1
    BY <1>1
  <1>5. 1 .. Len(s) \subseteq 1 .. Len(s) + 1 /\ Len(s) + 1 \in 1 .. Len(s) + 1
    BY <1>1
  <1>6. ASSUME NEW i \in DOMAIN Append(s, err), Append(s, err)[i]
        PROVE  (\E j \in DOMAIN s : s[j]) \/ err
    BY <1>1, <1>2, <1>3, <1>4, <1>6
  <1>7. ASSUME (\E j \in DOMAIN s : s[j]) \/ err
        PROVE  \E i \in DOMAIN Append(s, err) : Append(s, err)[i]
    BY <1>1, <1>2, <1>3, <1>5, <1>7
  <1> QED
    BY <1>1, <1>6, <1>7

\* A half that returns hands its error to RunAll.
LEMMA HalfReturnsError ==
    ASSUME RunInv, NEW err \in BOOLEAN, HalfReturns(err), mode' = mode
    PROVE  /\ errCh' \in Seq(BOOLEAN)
           /\ mode = "all" => (AnyError' = (AnyError \/ err))
  BY ErrorAdded DEF RunInv, HalfReturns, AnyError

\* The half that does not move, and the errors of one that does not return.
LEMMA HalfRests ==
    ASSUME RunInv
    PROVE  /\ UNCHANGED serverVars => ServerLeft'
           /\ UNCHANGED <<worker, sends, reaper, retention>> => WorkerLeft'
           /\ UNCHANGED <<mode, server, errCh>> => ErrorsKept'
           /\ UNCHANGED <<main, exitError, server, worker>> => MainWaited'
  <1>1. UNCHANGED serverVars => ServerLeft'
    BY DEF RunInv, ServerLeft, serverVars
  <1>2. UNCHANGED <<worker, sends, reaper, retention>> => WorkerLeft'
    BY DEF RunInv, WorkerLeft
  <1>3. UNCHANGED <<mode, server, errCh>> => ErrorsKept'
    BY DEF RunInv, ErrorsKept, AnyError
  <1>4. UNCHANGED <<main, exitError, server, worker>> => MainWaited'
    BY DEF RunInv, MainWaited, BothReturned, ServerReturned
  <1> QED
    BY <1>1, <1>2, <1>3, <1>4

\* A step of the server that does not return.
LEMMA ServerMoves ==
    ASSUME RunInv, UNCHANGED <<mode, main, exitError, workerVars, errCh>>,
           server = "running" \/ UNCHANGED server,
           server = "running" => server' \in {"running", "shutdown"},
           requests' \in Nat, ServerLeft'
    PROVE  RunInv'
  <1>1. WorkerLeft'
    BY HalfRests DEF workerVars
  <1>2. MainWaited'
    BY DEF RunInv, workerVars, MainWaited, BothReturned, ServerReturned
  <1>3. ErrorsKept'
    BY DEF RunInv, ErrorsKept, AnyError
  <1> QED
    BY <1>1, <1>2, <1>3 DEF RunInv, workerVars

\* A step of the worker that does not return.
LEMMA WorkerMoves ==
    ASSUME RunInv, UNCHANGED <<mode, main, exitError, serverVars, errCh>>,
           UNCHANGED worker \/ (worker \notin {"off", "returned"} /\ worker' # "off"),
           sends' \in Nat, WorkerLeft'
    PROVE  RunInv'
  <1>1. ServerLeft' /\ ErrorsKept'
    BY HalfRests DEF serverVars
  <1>2. MainWaited'
    BY DEF RunInv, serverVars, MainWaited, BothReturned, ServerReturned
  <1> QED
    BY <1>1, <1>2 DEF RunInv, serverVars

LEMMA RunStep ==
    ASSUME RunInv, [RunNext]_runVars
    PROVE  RunInv'
  <1>1. CASE Signal
    BY <1>1, HalfRests DEF Signal, serverVars, workerVars, RunInv
  <1>2. CASE Listen
    <2>1. ServerLeft'
      BY <1>2 DEF Listen, RunInv, ServerLeft
    <2> QED
      BY <1>2, <2>1, ServerMoves DEF Listen, mainVars, RunInv
  <1>3. CASE AcceptFails
    <2>1. ServerLeft'
      BY <1>3 DEF AcceptFails, RunInv, ServerLeft
    <2> QED
      BY <1>3, <2>1, ServerMoves DEF AcceptFails, mainVars, RunInv
  <1>4. CASE RequestArrives
    <2>1. server = "running"
      BY <1>4 DEF RequestArrives, RunInv, ServerLeft
    <2>2. ServerLeft' /\ requests' \in Nat
      BY <1>4, <2>1 DEF RequestArrives, RunInv, ServerLeft
    <2> QED
      BY <1>4, <2>2, ServerMoves DEF RequestArrives, mainVars
  <1>5. CASE RequestEnds
    <2>1. ServerLeft' /\ requests' \in Nat
      BY <1>5 DEF RequestEnds, RunInv, ServerLeft
    <2> QED
      BY <1>5, <2>1, ServerMoves DEF RequestEnds, mainVars
  <1>6. CASE ServerStops
    <2>1. ServerLeft'
      BY <1>6 DEF ServerStops, RunInv, ServerLeft
    <2> QED
      BY <1>6, <2>1, ServerMoves DEF ServerStops, mainVars, RunInv
  <1>7. CASE ShutdownEnds
    <2>1. /\ server = "shutdown" /\ server' = "returned" /\ requests = 0 /\ HalfReturns(FALSE)
          /\ UNCHANGED <<mainVars, listener, requests, overran, workerVars>>
      BY <1>7 DEF ShutdownEnds
    <2>2. errCh' \in Seq(BOOLEAN) /\ (mode = "all" => (AnyError' = AnyError))
      <3>1. mode' = mode /\ FALSE \in BOOLEAN
        BY <2>1 DEF mainVars
      <3>2. /\ errCh' \in Seq(BOOLEAN)
            /\ mode = "all" => (AnyError' = (AnyError \/ FALSE))
        BY <2>1, <3>1, HalfReturnsError
      <3> QED
        BY <3>2 DEF AnyError
    <2>3. ServerLeft' /\ WorkerLeft' /\ ErrorsKept' /\ MainWaited'
      BY <2>1, <2>2, HalfRests DEF RunInv, mainVars, workerVars, ServerLeft, ErrorsKept, MainWaited,
         BothReturned, ServerReturned
    <2> QED
      BY <2>1, <2>2, <2>3 DEF RunInv, workerVars
  <1>8. CASE ShutdownOverruns \/ ServerFails
    <2>1. errCh' \in Seq(BOOLEAN) /\ (mode = "all" => AnyError')
      BY <1>8, HalfReturnsError DEF ShutdownOverruns, ServerFails, mainVars
    <2> QED
      BY <1>8, <2>1 DEF ShutdownOverruns, ServerFails, mainVars, workerVars, RunInv, ServerLeft,
         WorkerLeft, ErrorsKept, MainWaited, BothReturned, ServerReturned
  <1>9. CASE StartSend
    <2>1. WorkerLeft' /\ sends' \in Nat
      BY <1>9 DEF StartSend, RunInv, WorkerLeft
    <2> QED
      BY <1>9, <2>1, WorkerMoves DEF StartSend, mainVars
  <1>10. CASE SendEnds
    <2>1. WorkerLeft' /\ sends' \in Nat
      BY <1>10 DEF SendEnds, RunInv, WorkerLeft
    <2> QED
      BY <1>10, <2>1, WorkerMoves DEF SendEnds, mainVars
  <1>11. CASE WorkerStops \/ RunReturns
    <2>1. WorkerLeft'
      BY <1>11 DEF WorkerStops, RunReturns, RunInv, WorkerLeft
    <2> QED
      BY <1>11, <2>1, WorkerMoves DEF WorkerStops, RunReturns, mainVars, RunInv
  <1>12. CASE Reap \/ Retention
    <2>1. WorkerLeft'
      BY <1>12 DEF Reap, Retention, RunInv, WorkerLeft
    <2> QED
      BY <1>12, <2>1, WorkerMoves DEF Reap, Retention, mainVars, RunInv
  <1>13. CASE WorkerReturns
    <2>1. /\ worker = "waiting" /\ retention = "done" /\ worker' = "returned" /\ HalfReturns(FALSE)
          /\ UNCHANGED <<mainVars, serverVars, sends, reaper, retention>>
      BY <1>13 DEF WorkerReturns
    <2>2. errCh' \in Seq(BOOLEAN) /\ (mode = "all" => (AnyError' = AnyError))
      <3>1. mode' = mode /\ FALSE \in BOOLEAN
        BY <2>1 DEF mainVars
      <3>2. /\ errCh' \in Seq(BOOLEAN)
            /\ mode = "all" => (AnyError' = (AnyError \/ FALSE))
        BY <2>1, <3>1, HalfReturnsError
      <3> QED
        BY <3>2 DEF AnyError
    <2>3. ServerLeft' /\ WorkerLeft' /\ ErrorsKept' /\ MainWaited'
      BY <2>1, <2>2, HalfRests DEF RunInv, mainVars, serverVars, WorkerLeft, ErrorsKept, MainWaited,
         BothReturned, ServerReturned
    <2> QED
      BY <2>1, <2>2, <2>3 DEF RunInv, serverVars
  <1>14. CASE MainReturns \/ Exit
    <2>1. ServerLeft' /\ WorkerLeft' /\ ErrorsKept'
      BY <1>14, HalfRests DEF MainReturns, Exit, serverVars, workerVars
    <2>2. MainWaited'
      BY <1>14 DEF MainReturns, Exit, serverVars, workerVars, RunInv, ErrorsKept, AnyError,
         MainWaited, BothReturned, ServerReturned
    <2> QED
      BY <1>14, <2>1, <2>2 DEF MainReturns, Exit, serverVars, workerVars, RunInv
  <1>15. CASE UNCHANGED runVars
    BY <1>15, HalfRests DEF runVars, serverVars, RunInv
  <1> QED
    BY <1>1, <1>2, <1>3, <1>4, <1>5, <1>6, <1>7, <1>8, <1>9, <1>10, <1>11, <1>12, <1>13, <1>14,
       <1>15 DEF RunNext

(***************************************************************************)
(* When main gets the answer of the runner nothing uses the database any   *)
(* more, and the answer is the error of the server, in every mode and with *)
(* any number of requests and sends (RunAll, RunServer, RunWorker).        *)
(***************************************************************************)
THEOREM DatabaseClosedAfterUse == RunSpec => []ClosedAfterUse
  <1>1. RunInit => RunInv
    <2> SUFFICES ASSUME RunInit PROVE RunInv
      OBVIOUS
    <2>1. mode \in {"server", "worker", "all"}
      BY LifecycleAssumption DEF RunInit
    <2>2. ServerLeft /\ WorkerLeft /\ MainWaited
      BY <2>1 DEF RunInit, Serves, Works, ServerLeft, WorkerLeft, MainWaited
    <2>3. ErrorsKept
      <3>1. errCh = <<>> /\ (server = "running" \/ server = "off")
        BY DEF RunInit
      <3>2. DOMAIN errCh = {} /\ ~(server = "failed")
        BY <3>1
      <3>3. ~AnyError
        BY <3>2 DEF AnyError
      <3> QED
        BY <3>2, <3>3 DEF ErrorsKept, AnyError
    <2>4. errCh \in Seq(BOOLEAN) /\ requests \in Nat /\ sends \in Nat
      BY DEF RunInit
    <2> QED
      BY <2>2, <2>3, <2>4 DEF RunInv
  <1>2. RunInv /\ [RunNext]_runVars => RunInv'
    BY RunStep
  <1>3. RunInv => ClosedAfterUse
    <2> SUFFICES ASSUME RunInv, main # "running" PROVE ClosedAfterUse
      BY DEF ClosedAfterUse
    <2>1. worker \in {"off", "returned"} /\ server \in {"off", "returned", "failed"}
      BY DEF RunInv, MainWaited, BothReturned, ServerReturned
    <2>2. sends = 0 /\ reaper \in {"off", "done"} /\ retention \in {"off", "done"}
      BY <2>1 DEF RunInv, WorkerLeft
    <2>3. requests > 0 => overran \/ listener = "failed"
      BY <2>1 DEF RunInv, ServerLeft
    <2>4. exitError <=> server = "failed"
      BY DEF RunInv, MainWaited
    <2> QED
      BY <2>2, <2>3, <2>4 DEF ClosedAfterUse
  <1> QED
    BY <1>1, <1>2, <1>3, PTL DEF RunSpec
-----------------------------------------------------------------------------
(***************************************************************************)
(* Routing.  The rules are compiled from what Config.Validate accepted, so *)
(* a compiled match accepts what the written one admits; the registry has  *)
(* the channels in their order, so every name resolves.  What each step of *)
(* the start leaves for the next one is the inductive invariant.           *)
(***************************************************************************)

(********** Sequences **********)

LEMMA LeastNumber ==
    ASSUME NEW S \in SUBSET Nat, S # {}
    PROVE  \E n \in S : \A m \in S : n <= m
  <1>1. PICK n \in S : \A m \in S : ~(<<m, n>> \in OpToRel(<, Nat))
    BY NatLessThanWellFounded, WFMin
  <1>2. \A m \in S : ~(m < n)
    BY <1>1 DEF OpToRel
  <1> QED
    BY <1>2

LEMMA MinFound ==
    ASSUME NEW S \in SUBSET Nat, S # {}
    PROVE  Min(S) \in S /\ \A m \in S : Min(S) <= m
    BY LeastNumber DEF Min

\* The first "*" of a text.
LEMMA StarFound ==
    ASSUME NEW text \in Seq(STRING)
    PROVE  /\ StarAt(text) \in 0 .. Len(text)
           /\ \A i \in 1 .. Len(text) : text[i] = "*" => StarAt(text) > 0 /\ StarAt(text) <= i
           /\ StarAt(text) > 0 => text[StarAt(text)] = "*"
  <1> DEFINE I == {i \in 1 .. Len(text) : text[i] = "*"}
  <1>1. StarAt(text) = IF I # {} THEN Min(I) ELSE 0
    BY DEF StarAt, SelectInSeq
  <1>2. Len(text) \in Nat
    OBVIOUS
  <1>3. I # {} => Min(I) \in I /\ \A m \in I : Min(I) <= m
    <2>1. I \in SUBSET Nat
      BY <1>2
    <2> HIDE DEF I
    <2> QED
      BY <2>1, MinFound
  <1>4. CASE I = {}
    BY <1>1, <1>2, <1>4
  <1>5. CASE I # {}
    <2>1. StarAt(text) \in I /\ \A m \in I : StarAt(text) <= m
      BY <1>1, <1>3, <1>5
    <2> QED
      BY <1>2, <2>1
  <1> QED
    BY <1>4, <1>5

\* A pattern of a checked configuration covers a text when its compiled form does.
LEMMA PatternCovers ==
    ASSUME NEW v \in Lettered, NEW text \in Seq(STRING), ValidPattern(v)
    PROVE  LET p == CompilePattern(v)
           IN (IF p.prefix THEN IsPrefix(p.value, text) ELSE text = p.value) <=> Covers(v.text, text)
  <1> DEFINE s == v.text
  <1>1. s \in Seq(STRING) /\ StarAt(s) \in {0, Len(s)} /\ Len(s) \in Nat
    BY DEF Lettered, ValidPattern, Normalize
  <1>2. CASE StarAt(s) = 0
    <2>1. CompilePattern(v).value = s /\ CompilePattern(v).prefix = FALSE
      BY <1>2 DEF CompilePattern, Normalize
    <2>2. ~(s # <<>> /\ Last(s) = "*")
      <3>1. s # <<>> => Len(s) \in 1 .. Len(s)
        BY <1>1
      <3> QED
        BY <1>1, <1>2, <3>1, StarFound DEF Last
    <2> QED
      BY <2>1, <2>2 DEF Covers
  <1>3. CASE StarAt(s) # 0
    <2>1. /\ StarAt(s) = Len(s) /\ Len(s) > 0 /\ s[Len(s)] = "*" /\ s # <<>>
      BY <1>1, <1>3, StarFound
    <2>2. CompilePattern(v).value = Front(s) /\ CompilePattern(v).prefix = TRUE
      BY <1>3 DEF CompilePattern, Normalize
    <2> DEFINE f == Front(s)
               n == Len(s) - 1
    <2>3. /\ n \in Nat /\ f \in Seq(STRING) /\ Len(f) = n
          /\ \A i \in 1 .. n : f[i] = s[i]
      BY <1>1, <2>1 DEF Front
    <2>4. Covers(s, text) <=> \E k \in 0 .. Len(text) : SubSeq(text, 1, k) \o <<"*">> = s
      BY <2>1 DEF Covers, Last
    <2>5. Len(text) \in Nat
      OBVIOUS
    <2>6. ASSUME IsPrefix(f, text) PROVE Covers(s, text)
      <3>1. n \in 0 .. Len(text) /\ SubSeq(f, 1, n) = SubSeq(text, 1, n)
        BY <2>3, <2>5, <2>6 DEF IsPrefix
      <3>2. \A i \in 1 .. n : text[i] = s[i]
        <4> SUFFICES ASSUME NEW i \in 1 .. n PROVE text[i] = s[i]
          OBVIOUS
        <4>1. SubSeq(f, 1, n)[i] = f[i] /\ SubSeq(text, 1, n)[i] = text[i]
          BY <2>3, <2>5, <3>1
        <4> QED
          BY <2>3, <3>1, <4>1
      <3> DEFINE t == SubSeq(text, 1, n)
                 u == t \o <<"*">>
      <3>3. t \in Seq(STRING) /\ Len(t) = n /\ \A i \in 1 .. n : t[i] = text[i]
        BY <2>3, <2>5, <3>1
      <3> HIDE DEF t
      <3>4. /\ u \in Seq(STRING) /\ Len(u) = n + 1 /\ u[n + 1] = "*"
            /\ \A i \in 1 .. n : u[i] = t[i]
        <4>1. <<"*">> \in Seq(STRING) /\ Len(<<"*">>) = 1 /\ <<"*">>[1] = "*"
          <5>1. s[Len(s)] \in STRING
            BY <1>1, <2>1
          <5> QED
            BY <2>1, <5>1
        <4> HIDE DEF n
        <4> QED
          BY <2>3, <3>3, <4>1, ConcatProperties
      <3> HIDE DEF u
      <3>5. \A i \in 1 .. Len(s) : u[i] = s[i]
        <4> SUFFICES ASSUME NEW i \in 1 .. Len(s) PROVE u[i] = s[i]
          OBVIOUS
        <4>1. CASE i = Len(s)
          BY <1>1, <2>1, <2>3, <3>4, <4>1
        <4>2. CASE i # Len(s)
          <5>1. i \in 1 .. n
            BY <1>1, <4>2
          <5> QED
            BY <3>2, <3>3, <3>4, <5>1 DEF t
        <4> QED
          BY <4>1, <4>2
      <3>6. Len(u) = Len(s)
        BY <1>1, <3>4
      <3>7. u = s
        BY <1>1, <3>4, <3>5, <3>6, SeqEqual
      <3> QED
        BY <2>4, <3>1, <3>7 DEF u, t
    <2>7. ASSUME Covers(s, text) PROVE IsPrefix(f, text)
      <3>1. PICK k \in 0 .. Len(text) : SubSeq(text, 1, k) \o <<"*">> = s
        BY <2>4, <2>7
      <3> DEFINE t == SubSeq(text, 1, k)
      <3>2. /\ t \in Seq(STRING) /\ Len(t) = k /\ k \in Nat
        BY <2>5
      <3> HIDE DEF t
      <3>3. Len(t \o <<"*">>) = k + 1 /\ \A i \in 1 .. k : (t \o <<"*">>)[i] = t[i]
        BY <3>2
      <3>4. k = n /\ \A i \in 1 .. n : s[i] = t[i]
        BY <1>1, <3>1, <3>2, <3>3 DEF t
      <3>5. f = t
        BY <2>3, <3>2, <3>4, SeqEqual
      <3>6. SubSeq(f, 1, Len(f)) = f
        BY <2>3, <3>5
      <3> QED
        BY <2>3, <2>5, <3>4, <3>5, <3>6 DEF IsPrefix, t
    <2> QED
      BY <2>2, <2>6, <2>7
  <1> QED
    BY <1>2, <1>3

(********** A match and its compiled form **********)

LEMMA NothingSaid ==
    ASSUME NEW T, NEW values \in Seq(T)
    PROVE  values = <<>> <=> DOMAIN values = {}
  <1>1. DOMAIN values = 1 .. Len(values) /\ Len(values) \in Nat
    OBVIOUS
  <1>2. DOMAIN values = {} => Len(values) = 0
    BY <1>1
  <1> QED
    BY <1>2, EmptySeq

LEMMA ValuesSay ==
    ASSUME NEW values \in Seq(Written), NEW v
    PROVE  (NormalizeAll(values) = {} \/ v \in NormalizeAll(values))
           <=> (values = <<>> \/ \E i \in DOMAIN values : values[i].text = v)
  <1>1. values = <<>> <=> DOMAIN values = {}
    BY NothingSaid
  <1>2. NormalizeAll(values) = {values[i].text : i \in DOMAIN values}
    BY DEF NormalizeAll, Normalize
  <1> QED
    BY <1>1, <1>2

LEMMA PatternsSay ==
    ASSUME NEW values \in Seq(Lettered), NEW text \in Seq(STRING),
           \A v \in ToSet(values) : ValidPattern(v)
    PROVE  (CompilePatterns(values) = {} \/ MatchesAny(CompilePatterns(values), text))
           <=> Says(values, LAMBDA pattern : Covers(pattern, text))
  <1>1. values = <<>> <=> DOMAIN values = {}
    BY NothingSaid
  <1>2. CompilePatterns(values) = {CompilePattern(values[i]) : i \in DOMAIN values}
    BY DEF CompilePatterns
  <1> DEFINE Fit(p) == IF p.prefix THEN IsPrefix(p.value, text) ELSE text = p.value
  <1>3. \A i \in DOMAIN values : Fit(CompilePattern(values[i])) <=> Covers(values[i].text, text)
    <2> SUFFICES ASSUME NEW i \in DOMAIN values
                 PROVE  Fit(CompilePattern(values[i])) <=> Covers(values[i].text, text)
      OBVIOUS
    <2>1. values[i] \in Lettered /\ ValidPattern(values[i])
      BY DEF ToSet
    <2> QED
      BY <2>1, PatternCovers
  <1>4. MatchesAny(CompilePatterns(values), text) <=> \E p \in CompilePatterns(values) : Fit(p)
    BY DEF MatchesAny
  <1> HIDE DEF Fit
  <1>5. MatchesAny(CompilePatterns(values), text) <=> \E i \in DOMAIN values : Covers(values[i].text, text)
    BY <1>2, <1>3, <1>4
  <1> QED
    BY <1>1, <1>2, <1>5 DEF Says

LEMMA RanksKnown ==
    ASSUME NEW s \in AllSeverities
    PROVE  SeverityRank(s) # 0 /\ s # ""
  <1>1. CASE s = "info"
    BY <1>1 DEF SeverityRank
  <1>2. CASE s = "success"
    BY <1>2 DEF SeverityRank
  <1>3. CASE s = "warning"
    BY <1>3 DEF SeverityRank
  <1>4. CASE s = "error"
    BY <1>4 DEF SeverityRank
  <1>5. CASE s = "critical"
    BY <1>5 DEF SeverityRank
  <1> QED
    BY <1>1, <1>2, <1>3, <1>4, <1>5 DEF AllSeverities

\* What a checked rule admits is what its compiled form matches.
LEMMA MatchesAdmitted ==
    ASSUME NEW m \in RoutingMatch, ValidMatch(m), NEW e \in Events
    PROVE  Matches(Compile(m), e) <=> Admits(m, e)
  <1> DEFINE c == Compile(m)
  <1>1. /\ m.type \in Seq(Written) /\ m.severity \in Seq(Written) /\ m.minSeverity \in Written
        /\ m.source \in Seq(Lettered) /\ m.category \in Seq(Lettered)
    BY DEF RoutingMatch
  <1>2. e.source.text \in Seq(STRING) /\ e.category.text \in Seq(STRING)
    <2>1. e \in [type : Written, severity : Written, source : Lettered, category : Lettered]
      BY RoutingAssumption
    <2>2. e.source \in Lettered /\ e.category \in Lettered
      BY <2>1
    <2> QED
      BY <2>2 DEF Lettered
  <1>3. /\ c.types = NormalizeAll(m.type) /\ c.severities = NormalizeAll(m.severity)
        /\ c.minSeverity = IF m.minSeverity.text = "" THEN 0 ELSE SeverityRank(m.minSeverity.text)
        /\ c.sources = CompilePatterns(m.source) /\ c.categories = CompilePatterns(m.category)
    BY DEF Compile, Normalize
  <1> HIDE DEF c
  <1>4. (c.types = {} \/ e.type.text \in c.types) <=> Says(m.type, LAMBDA text : text = e.type.text)
    <2>1. \A v : (NormalizeAll(m.type) = {} \/ v \in NormalizeAll(m.type))
                <=> (m.type = <<>> \/ \E i \in DOMAIN m.type : m.type[i].text = v)
      BY <1>1, ValuesSay
    <2> QED
      BY <1>3, <2>1 DEF Says
  <1>5. (c.severities = {} \/ e.severity.text \in c.severities)
        <=> Says(m.severity, LAMBDA text : text = e.severity.text)
    <2>1. \A v : (NormalizeAll(m.severity) = {} \/ v \in NormalizeAll(m.severity))
                <=> (m.severity = <<>> \/ \E i \in DOMAIN m.severity : m.severity[i].text = v)
      BY <1>1, ValuesSay
    <2> QED
      BY <1>3, <2>1 DEF Says
  <1>6. (c.minSeverity = 0 \/ SeverityRank(e.severity.text) >= c.minSeverity)
        <=> (m.minSeverity.text # "" => SeverityRank(e.severity.text) >= SeverityRank(m.minSeverity.text))
    <2>1. m.minSeverity.text \in AllSeverities \cup {""}
      BY DEF ValidMatch, Normalize
    <2> QED
      BY <1>3, <2>1, RanksKnown
  <1>7. \A v \in ToSet(m.source) \cup ToSet(m.category) : ValidPattern(v)
    BY DEF ValidMatch
  <1>8. (c.sources = {} \/ MatchesAny(c.sources, e.source.text))
        <=> Says(m.source, LAMBDA text : Covers(text, e.source.text))
    BY <1>1, <1>2, <1>3, <1>7, PatternsSay
  <1>9. (c.categories = {} \/ MatchesAny(c.categories, e.category.text))
        <=> Says(m.category, LAMBDA text : Covers(text, e.category.text))
    BY <1>1, <1>2, <1>3, <1>7, PatternsSay
  <1> QED
    BY <1>4, <1>5, <1>6, <1>8, <1>9 DEF Matches, Admits, Normalize, c

(********** The registry **********)

LEMMA ConfigTypes ==
    ASSUME config \in Configs
    PROVE  /\ config.channels \in Seq(Channel)
           /\ DOMAIN config.channels = 1 .. Len(config.channels) /\ Len(config.channels) \in Nat
           /\ \A i \in DOMAIN config.channels : config.channels[i].name \in STRING
           /\ section # NoRouting => section \in RoutingSection
  <1>1. config.channels \in Seq(Channel) /\ (section # NoRouting => section \in RoutingSection)
    BY RoutingAssumption DEF section
  <1>2. DOMAIN config.channels = 1 .. Len(config.channels) /\ Len(config.channels) \in Nat
    BY <1>1
  <1>3. \A i \in DOMAIN config.channels : config.channels[i] \in Channel
    BY <1>1
  <1> QED
    BY <1>1, <1>2, <1>3 DEF Channel

LEMMA CountBelow ==
    ASSUME NEW n \in Nat, NEW i \in 1 .. n
    PROVE  Cardinality({j \in 1 .. n : j < i}) = i - 1
  <1>1. {j \in 1 .. n : j < i} = 1 .. i - 1
    OBVIOUS
  <1>2. 1 \in Int /\ i - 1 \in Int /\ i - 1 >= 0
    OBVIOUS
  <1>3. Cardinality(1 .. i - 1) = IF 1 > i - 1 THEN 0 ELSE i - 1 - 1 + 1
    BY <1>2, FS_Interval
  <1>4. Cardinality(1 .. i - 1) = i - 1
    BY <1>2, <1>3
  <1> QED
    BY <1>1, <1>4

\* With names that are unique the registry has the channels in their order.
LEMMA TargetsInOrder ==
    ASSUME config \in Configs, UniqueChannels(config.channels)
    PROVE  Targets = [i \in 1 .. Len(config.channels) |-> config.channels[i].name]
  <1> DEFINE n == Len(config.channels)
             place(k) == CHOOSE i \in FirstPlaces : Cardinality({j \in FirstPlaces : j < i}) = k - 1
  <1>1. DOMAIN config.channels = 1 .. n /\ n \in Nat
    BY ConfigTypes
  <1>2. FirstPlaces = 1 .. n
    <2>1. FirstPlaces \subseteq 1 .. n
      BY <1>1 DEF FirstPlaces
    <2>2. ASSUME NEW i \in 1 .. n PROVE i \in FirstPlaces
      <3> SUFFICES ASSUME NEW j \in 1 .. i - 1 PROVE config.channels[j].name # config.channels[i].name
        BY <1>1 DEF FirstPlaces
      <3>1. j \in 1 .. n /\ j # i
        BY <1>1
      <3> QED
        BY <1>1, <3>1 DEF UniqueChannels
    <2> QED
      BY <2>1, <2>2
  <1>3. Cardinality(FirstPlaces) = n
    <2>1. Cardinality(1 .. n) = IF 1 > n THEN 0 ELSE n - 1 + 1
      BY <1>1, FS_Interval, SMTT(20)
    <2> QED
      BY <1>1, <1>2, <2>1
  <1>4. ASSUME NEW k \in 1 .. n PROVE place(k) = k
    <2>1. \A i \in 1 .. n : Cardinality({j \in 1 .. n : j < i}) = k - 1 <=> i = k
      <3> SUFFICES ASSUME NEW i \in 1 .. n
                   PROVE  Cardinality({j \in 1 .. n : j < i}) = k - 1 <=> i = k
        OBVIOUS
      <3>1. Cardinality({j \in 1 .. n : j < i}) = i - 1
        BY <1>1, CountBelow
      <3> QED
        BY <1>1, <3>1
    <2> QED
      BY <1>2, <2>1
  <1>5. Targets = [k \in 1 .. n |-> config.channels[place(k)].name]
    BY <1>3 DEF Targets
  <1> HIDE DEF place
  <1> QED
    BY <1>4, <1>5

LEMMA TargetsAreChannels ==
    ASSUME config \in Configs, UniqueChannels(config.channels)
    PROVE  ToSet(Targets) = Channels
  <1>1. /\ DOMAIN Targets = DOMAIN config.channels
        /\ \A i \in DOMAIN config.channels : Targets[i] = config.channels[i].name
    BY TargetsInOrder, ConfigTypes
  <1> QED
    BY <1>1 DEF ToSet, Channels

LEMMA PlaceIsNumber == \A n \in Nat : \A k \in 1 .. n : k \in Nat
    OBVIOUS

LEMMA OnlyOne ==
    ASSUME NEW S, NEW n \in Nat, S = {n}
    PROVE  Max(S) = n
  <1>1. n \in S /\ \A m \in S : n >= m
    OBVIOUS
  <1>2. Max(S) \in S
    BY <1>1 DEF Max
  <1> QED
    BY <1>2

\* The fallback of a channel is the one it names.
LEMMA FallbackNamed ==
    ASSUME config \in Configs, UniqueChannels(config.channels),
           NEW i \in DOMAIN config.channels, config.channels[i].fallback # ""
    PROVE  /\ config.channels[i].name \in DOMAIN Fallbacks
           /\ Fallbacks[config.channels[i].name] = config.channels[i].fallback
  <1> DEFINE c == config.channels[i].name
             I == {j \in 1 .. Len(config.channels) : config.channels[j].name = c /\ config.channels[j].fallback # ""}
  <1>1. c \in DOMAIN Fallbacks
    BY DEF Fallbacks
  <1>2. I = {i}
    <2>1. i \in I
      BY ConfigTypes
    <2>2. ASSUME NEW j \in I PROVE j = i
      <3>1. j \in DOMAIN config.channels /\ config.channels[j].name = config.channels[i].name
        BY ConfigTypes
      <3> QED
        BY <3>1 DEF UniqueChannels
    <2> HIDE DEF I
    <2> QED
      BY <2>1, <2>2
  <1>3. i \in Nat
    <2>1. DOMAIN config.channels = 1 .. Len(config.channels) /\ Len(config.channels) \in Nat
      BY ConfigTypes
    <2> QED
      BY <2>1, PlaceIsNumber, Zenon
  <1>4. Max(I) = i
    BY <1>2, <1>3, OnlyOne
  <1>5. Fallbacks[c] = config.channels[IF I # {} THEN Max(I) ELSE 0].fallback
    BY <1>1 DEF Fallbacks, SelectLastInSeq
  <1> HIDE DEF I
  <1> QED
    BY <1>1, <1>2, <1>4, <1>5

(********** The start **********)

\* What each step of the start leaves for the next one.
StartInv ==
    /\ config \in Configs
    /\ phase \in {"loaded", "refused", "valid", "registered", "built", "serving"}
    /\ phase \in {"valid", "registered", "built", "serving"} => Valid
    /\ phase \in {"registered", "built", "serving"} => registry = Targets
    /\ phase \in {"built", "serving"} =>
          router = IF section = NoRouting THEN NewAllChannels ELSE New(section)
    /\ phase = "serving" => warned = Warnings(router)
    /\ routed # Nothing =>
          /\ phase = "serving" /\ routed.event \in Events
          /\ routed.decision = Route(router, routed.event)

LEMMA ValidNames ==
    ASSUME Valid
    PROVE  UniqueChannels(config.channels) /\ (section # NoRouting => ValidRouting(section))
    BY DEF Valid, ValidChannels

\* What Config.Validate accepts, routing.New accepts.
LEMMA ValidCompiles ==
    ASSUME config \in Configs, Valid, registry = Targets, section # NoRouting
    PROVE  ~NewFails(section)
  <1>1. ToSet(registry) = Channels /\ ValidRouting(section) /\ section \in RoutingSection
    BY TargetsAreChannels, ValidNames, ConfigTypes
  <1>2. Resolves(section.default)
    BY <1>1 DEF ValidRouting, Resolves
  <1>3. ASSUME NEW i \in DOMAIN section.rules
        PROVE  Resolves(section.rules[i].channels) /\ Compiles(section.rules[i].match)
    <2> DEFINE m == section.rules[i].match
    <2>1. ValidMatch(m) /\ NormalizeAll(section.rules[i].channels) \subseteq Channels
      BY <1>1 DEF ValidRouting
    <2> HIDE DEF m
    <2>2. Normalize(m.minSeverity) \in AllSeverities \cup {""}
      BY <2>1 DEF ValidMatch
    <2>3. Normalize(m.minSeverity) = "" \/ SeverityRank(Normalize(m.minSeverity)) # 0
      BY <2>2, RanksKnown
    <2>4. Compiles(m)
      BY <2>1, <2>3 DEF ValidMatch, Compiles, ValidPattern
    <2> QED
      BY <1>1, <2>1, <2>4 DEF Resolves, m
  <1> QED
    BY <1>2, <1>3 DEF NewFails

LEMMA StartInitInv == StartInit => StartInv
    BY DEF StartInit, StartInv

LEMMA SameConfig ==
    ASSUME config' = config
    PROVE  /\ section' = section /\ Targets' = Targets /\ Fallbacks' = Fallbacks
           /\ Valid' <=> Valid
           /\ New(section)' = New(section)
  <1>1. section' = section /\ Channels' = Channels /\ Fallbacks' = Fallbacks /\ FirstPlaces' = FirstPlaces
    BY DEF section, Channels, Fallbacks, FirstPlaces, SelectLastInSeq
  <1>2. Targets' = Targets
    BY <1>1 DEF Targets
  <1>3. ValidChannels' <=> ValidChannels
    BY <1>1 DEF ValidChannels
  <1>4. ValidRouting(section)' <=> ValidRouting(section)
    BY <1>1 DEF ValidRouting
  <1>5. New(section)' = New(section)
    BY <1>1 DEF New
  <1> QED
    BY <1>1, <1>2, <1>3, <1>4, <1>5 DEF Valid

LEMMA SameRouter ==
    ASSUME config' = config, registry' = registry, router' = router
    PROVE  /\ NewAllChannels' = NewAllChannels
           /\ Warnings(router)' = Warnings(router)
  <1>1. Fallbacks' = Fallbacks
    BY SameConfig
  <1>2. UnusedChannels(router)' = UnusedChannels(router) /\ UnreachableRules(router)' = UnreachableRules(router)
    BY DEF UnusedChannels, UnreachableRules, SelectInSeq
  <1> QED
    BY <1>1, <1>2 DEF NewAllChannels, Warnings

LEMMA StartNextInv == StartInv /\ [StartNext]_startVars => StartInv'
  <1> SUFFICES ASSUME StartInv, [StartNext]_startVars PROVE StartInv'
    OBVIOUS
  <1> USE DEF StartInv, Nothing
  <1>1. CASE UNCHANGED startVars
    BY <1>1, SameConfig, SameRouter DEF startVars
  <1>2. CASE Validate
    BY <1>2, SameConfig, SameRouter DEF Validate
  <1>3. CASE BuildRegistry
    BY <1>3, SameConfig DEF BuildRegistry
  <1>4. CASE BuildRouter
    <2>1. config' = config /\ registry' = registry /\ warned' = warned /\ routed' = routed /\ phase = "registered"
      BY <1>4 DEF BuildRouter
    <2>2. NewAllChannels' = NewAllChannels
      BY <2>1 DEF NewAllChannels
    <2>3. /\ phase' = "built"
          /\ router' = IF section = NoRouting THEN NewAllChannels ELSE New(section)
      BY <1>4, <2>1, ValidCompiles DEF BuildRouter
    <2> QED
      BY <2>1, <2>2, <2>3, SameConfig
  <1>5. CASE LogRoutingTable
    BY <1>5, SameConfig, SameRouter DEF LogRoutingTable
  <1>6. ASSUME NEW e \in Events, RouteEvent(e) PROVE StartInv'
    <2>1. /\ UNCHANGED <<config, phase, registry, router, warned>> /\ phase = "serving"
          /\ routed'.event = e /\ routed'.decision = Route(router, e)
      BY <1>6 DEF RouteEvent
    <2>2. routed'.decision = Route(router', routed'.event)
      BY <2>1
    <2> QED
      BY <2>1, <2>2, SameConfig, SameRouter
  <1> QED
    BY <1>1, <1>2, <1>3, <1>4, <1>5, <1>6 DEF StartNext

LEMMA StartInvHolds == StartSpec => []StartInv
  <1> QED
    BY StartInitInv, StartNextInv, PTL DEF StartSpec

\* A configuration that passed Config.Validate never fails in routing.New, and
\* the registry it leaves has every channel, in order and under its own name,
\* with a fallback that is another channel where one is named, whatever the file.
THEOREM ValidatedAlwaysBuilds == StartSpec => []ValidatedBuilds
  <1>1. StartInv => ValidatedBuilds
    <2> SUFFICES ASSUME StartInv, phase = "serving"
                 PROVE  /\ Len(registry) = Len(config.channels)
                        /\ \A i \in DOMAIN config.channels :
                              /\ registry[i] = config.channels[i].name
                              /\ config.channels[i].fallback # "" =>
                                    \E j \in DOMAIN registry : j # i /\ registry[j] = config.channels[i].fallback
      BY DEF StartInv, ValidatedBuilds
    <2>1. /\ config \in Configs /\ Valid /\ registry = Targets /\ UniqueChannels(config.channels)
      BY ValidNames DEF StartInv
    <2> DEFINE n == Len(config.channels)
    <2>2. DOMAIN config.channels = 1 .. n /\ n \in Nat
      BY <2>1, ConfigTypes
    <2>3. registry = [i \in 1 .. n |-> config.channels[i].name]
      BY <2>1, TargetsInOrder
    <2> HIDE DEF n
    <2>4. Len(registry) = n /\ DOMAIN registry = 1 .. n /\ \A i \in 1 .. n : registry[i] = config.channels[i].name
      BY <2>2, <2>3
    <2>5. ASSUME NEW i \in DOMAIN config.channels, config.channels[i].fallback # ""
          PROVE  \E j \in DOMAIN registry : j # i /\ registry[j] = config.channels[i].fallback
      <3>1. /\ config.channels[i].name \in DOMAIN Fallbacks
            /\ Fallbacks[config.channels[i].name] = config.channels[i].fallback
        BY <2>1, <2>5, FallbackNamed
      <3>2. config.channels[i].fallback # config.channels[i].name /\ config.channels[i].fallback \in Channels
        BY <2>1, <3>1 DEF Valid, ValidChannels
      <3>3. PICK j \in DOMAIN config.channels : config.channels[j].name = config.channels[i].fallback
        BY <3>2 DEF Channels
      <3> QED
        BY <2>2, <2>4, <3>2, <3>3
    <2> QED
      BY <2>2, <2>4, <2>5 DEF n
  <1> QED
    BY <1>1, StartInvHolds, PTL

(********** The decision **********)

LEMMA RuleTypes ==
    ASSUME config \in Configs, Valid, section # NoRouting
    PROVE  /\ DOMAIN section.rules = 1 .. Len(section.rules) /\ Len(section.rules) \in Nat
           /\ \A i \in DOMAIN section.rules :
                 section.rules[i].match \in RoutingMatch /\ ValidMatch(section.rules[i].match)
  <1>1. section \in RoutingSection /\ ValidRouting(section)
    BY ConfigTypes, ValidNames
  <1> DEFINE Rule == [name : Written, match : RoutingMatch, channels : Seq(Written)]
  <1>2. section.rules \in Seq(Rule)
    BY <1>1 DEF RoutingSection
  <1> HIDE DEF Rule
  <1>3. /\ DOMAIN section.rules = 1 .. Len(section.rules) /\ Len(section.rules) \in Nat
        /\ \A i \in DOMAIN section.rules : section.rules[i] \in Rule
    BY <1>2
  <1>4. \A i \in DOMAIN section.rules : section.rules[i].match \in RoutingMatch
    BY <1>3 DEF Rule
  <1> QED
    BY <1>1, <1>3, <1>4 DEF ValidRouting

\* The compiled rules, one for each rule as written.
LEMMA CompiledRules ==
    ASSUME config \in Configs, Valid, section # NoRouting
    PROVE  LET r == New(section)
           IN /\ DOMAIN r.rules = DOMAIN section.rules /\ Len(r.rules) = Len(section.rules)
              /\ r.configured = TRUE /\ r.default = Resolve(section.default)
              /\ \A i \in DOMAIN section.rules :
                    /\ r.rules[i].name = section.rules[i].name.text
                    /\ r.rules[i].match = Compile(section.rules[i].match)
                    /\ r.rules[i].channels = Resolve(section.rules[i].channels)
  <1> DEFINE r == New(section)
  <1>1. /\ r.rules = [i \in DOMAIN section.rules |-> CompileRule(section.rules[i])]
        /\ r.configured = TRUE /\ r.default = Resolve(section.default)
    BY DEF New
  <1> HIDE DEF r
  <1>2. DOMAIN r.rules = 1 .. Len(section.rules) /\ Len(section.rules) \in Nat
    BY <1>1, RuleTypes
  <1>3. Len(r.rules) = Len(section.rules)
    <2>1. r.rules = [i \in 1 .. Len(section.rules) |-> CompileRule(section.rules[i])]
      BY <1>1, RuleTypes
    <2> QED
      BY <1>2, <2>1
  <1>4. \A i \in DOMAIN section.rules : r.rules[i] = CompileRule(section.rules[i])
    BY <1>1
  <1> QED
    BY <1>1, <1>3, <1>4 DEF CompileRule, Normalize, r

\* The first rule that admits an event decides of it, or the default does.
LEMMA FirstDecides ==
    ASSUME config \in Configs, Valid, section # NoRouting, NEW e \in Events
    PROVE  LET d == Route(New(section), e)
               admitting == {i \in DOMAIN section.rules : Admits(section.rules[i].match, e)}
           IN /\ admitting = {} => ~d.matched /\ d.channels = Resolve(section.default)
              /\ admitting # {} =>
                    \E i \in admitting :
                       /\ \A j \in admitting : i <= j
                       /\ d.matched /\ d.rule = section.rules[i].name.text
                       /\ d.channels = Resolve(section.rules[i].channels)
  <1> DEFINE r == New(section)
             d == Route(r, e)
             admitting == {i \in DOMAIN section.rules : Admits(section.rules[i].match, e)}
             I == {i \in 1 .. Len(r.rules) : Matches(r.rules[i].match, e)}
  <1>1. I = admitting
    <2>1. DOMAIN section.rules = 1 .. Len(r.rules)
      BY RuleTypes, CompiledRules
    <2>2. \A i \in DOMAIN section.rules : Matches(r.rules[i].match, e) <=> Admits(section.rules[i].match, e)
      <3> SUFFICES ASSUME NEW i \in DOMAIN section.rules
                   PROVE  Matches(r.rules[i].match, e) <=> Admits(section.rules[i].match, e)
        OBVIOUS
      <3>1. r.rules[i].match = Compile(section.rules[i].match)
        BY CompiledRules
      <3>2. section.rules[i].match \in RoutingMatch /\ ValidMatch(section.rules[i].match)
        BY RuleTypes
      <3> QED
        BY <3>1, <3>2, MatchesAdmitted
    <2> HIDE DEF r
    <2> QED
      BY <2>1, <2>2
  <1>2. d = IF (IF I # {} THEN Min(I) ELSE 0) = 0 THEN [matched |-> FALSE, rule |-> "", channels |-> r.default]
            ELSE [matched |-> TRUE, rule |-> r.rules[IF I # {} THEN Min(I) ELSE 0].name,
                  channels |-> r.rules[IF I # {} THEN Min(I) ELSE 0].channels]
    BY DEF Route, SelectInSeq
  <1>3. I # {} => Min(I) \in I /\ (\A m \in I : Min(I) <= m) /\ Min(I) # 0
    <2>1. I \in SUBSET Nat /\ 0 \notin I
      <3>1. DOMAIN section.rules = 1 .. Len(section.rules) /\ Len(section.rules) \in Nat
        BY RuleTypes
      <3> HIDE DEF I
      <3> QED
        BY <1>1, <3>1
    <2> HIDE DEF I
    <2> QED
      BY <2>1, MinFound
  <1>4. /\ r.default = Resolve(section.default)
        /\ \A i \in DOMAIN section.rules :
              r.rules[i].name = section.rules[i].name.text /\ r.rules[i].channels = Resolve(section.rules[i].channels)
    BY CompiledRules
  <1> HIDE DEF I, d, r
  <1>5. CASE admitting = {}
    <2> HIDE DEF admitting
    <2>1. d = [matched |-> FALSE, rule |-> "", channels |-> r.default]
      BY <1>1, <1>2, <1>5
    <2>2. ~d.matched /\ d.channels = Resolve(section.default)
      BY <1>4, <2>1
    <2> QED
      BY <1>5, <2>2 DEF admitting, d, r
  <1>6. CASE admitting # {}
    <2> DEFINE i == Min(I)
    <2>1. i \in admitting /\ i \in DOMAIN section.rules /\ \A j \in admitting : i <= j
      BY <1>1, <1>3, <1>6
    <2>2. d = [matched |-> TRUE, rule |-> r.rules[i].name, channels |-> r.rules[i].channels]
      BY <1>1, <1>2, <1>3, <1>6
    <2> HIDE DEF i, admitting
    <2>3. d.matched /\ d.rule = section.rules[i].name.text /\ d.channels = Resolve(section.rules[i].channels)
      BY <1>4, <2>1, <2>2
    <2> QED
      BY <1>6, <2>1, <2>3 DEF admitting, d, r
  <1> QED
    BY <1>5, <1>6

\* A catch-all rule admits every event.
LEMMA CatchAllMatches ==
    ASSUME NEW m, CatchAll(m), NEW e
    PROVE  Matches(m, e)
    BY DEF CatchAll, Matches

\* The rule that decides is not below a catch-all rule.
LEMMA DecidesReachable ==
    ASSUME config \in Configs, Valid, section # NoRouting, NEW e \in Events,
           NEW i \in DOMAIN section.rules,
           \A j \in DOMAIN section.rules : Admits(section.rules[j].match, e) => i <= j
    PROVE  section.rules[i].name.text \notin UnreachableRules(New(section))
  <1> DEFINE r == New(section)
             n == Len(r.rules)
             I == {j \in 1 .. n : CatchAll(r.rules[j].match)}
  <1>1. /\ DOMAIN section.rules = 1 .. n /\ n \in Nat
        /\ \A j \in 1 .. n : r.rules[j].name = section.rules[j].name.text
                             /\ r.rules[j].match = Compile(section.rules[j].match)
    BY RuleTypes, CompiledRules
  <1>2. UnreachableRules(r) = IF (IF I # {} THEN Min(I) ELSE 0) = 0 THEN {}
                              ELSE {r.rules[j].name : j \in (IF I # {} THEN Min(I) ELSE 0) + 1 .. n}
    BY DEF UnreachableRules, SelectInSeq
  <1>3. I # {} => Min(I) \in I
    <2>1. I \in SUBSET Nat
      BY <1>1
    <2> HIDE DEF I
    <2> QED
      BY <2>1, MinFound
  <1>4. ASSUME NEW k \in I PROVE i <= k
    <2>1. k \in DOMAIN section.rules /\ CatchAll(Compile(section.rules[k].match))
      BY <1>1
    <2>2. section.rules[k].match \in RoutingMatch /\ ValidMatch(section.rules[k].match)
      BY <2>1, RuleTypes
    <2>3. Matches(Compile(section.rules[k].match), e)
      BY <2>1, CatchAllMatches
    <2>4. Admits(section.rules[k].match, e)
      BY <2>2, <2>3, MatchesAdmitted
    <2> QED
      BY <2>1, <2>4
  <1>5. \A j \in 1 .. n : section.rules[i].name.text = section.rules[j].name.text => i = j
    BY <1>1, ValidNames DEF ValidRouting, UniqueNames, Normalize
  <1>6. I \subseteq 1 .. n
    OBVIOUS
  <1> HIDE DEF I, n, r
  <1> SUFFICES ASSUME section.rules[i].name.text \in UnreachableRules(r) PROVE FALSE
    BY DEF r
  <1>7. I # {} /\ section.rules[i].name.text \in {r.rules[j].name : j \in Min(I) + 1 .. n}
    BY <1>2
  <1>8. PICK j \in Min(I) + 1 .. n : section.rules[i].name.text = r.rules[j].name
    BY <1>7
  <1>9. Min(I) \in 1 .. n /\ i <= Min(I) /\ i \in 1 .. n
    BY <1>1, <1>3, <1>4, <1>6, <1>7
  <1>10. j \in 1 .. n /\ i < j
    BY <1>1, <1>8, <1>9
  <1> QED
    BY <1>1, <1>5, <1>8, <1>10

LEMMA DecisionAsWritten == StartInv => RoutedAsWritten
  <1> SUFFICES ASSUME StartInv, routed # Nothing PROVE RoutedAsWritten
    BY DEF RoutedAsWritten
  <1> DEFINE d == routed.decision
             e == routed.event
             direct == ToSet(d.channels)
             admitting == {i \in DOMAIN section.rules : Admits(section.rules[i].match, e)}
  <1>1. /\ config \in Configs /\ Valid /\ registry = Targets /\ e \in Events /\ d = Route(router, e)
        /\ router = IF section = NoRouting THEN NewAllChannels ELSE New(section)
        /\ warned = Warnings(router)
    BY DEF StartInv
  <1>2. /\ warned.unreachable = UnreachableRules(router)
        /\ warned.unused = UnusedChannels(router) \ ToSet(Fallbacks)
    BY <1>1 DEF Warnings
  <1>3. ToSet(registry) = Channels
    BY <1>1, ValidNames, TargetsAreChannels
  <1>4. {Fallbacks[c] : c \in direct \cap DOMAIN Fallbacks} \subseteq ToSet(Fallbacks)
    BY DEF ToSet
  <1>5. CASE section = NoRouting
    <2>1. router.configured = FALSE /\ router.rules = <<>> /\ router.default = registry
      BY <1>1, <1>5 DEF NewAllChannels
    <2>2. Route(router, e) = [matched |-> FALSE, rule |-> "", channels |-> registry]
      <3>1. SelectInSeq(router.rules, LAMBDA rule : Matches(rule.match, e)) = 0
        <4>1. {i \in 1 .. Len(router.rules) : Matches(router.rules[i].match, e)} = {}
          BY <2>1
        <4> QED
          BY <4>1 DEF SelectInSeq
      <3> QED
        BY <2>1, <3>1 DEF Route
    <2>3. ~d.matched /\ direct = Channels
      <3>1. d = [matched |-> FALSE, rule |-> "", channels |-> registry]
        BY <1>1, <2>2
      <3> HIDE DEF d
      <3>2. ~d.matched /\ d.channels = registry
        BY <3>1
      <3> QED
        BY <1>3, <3>2
    <2>4. UnusedChannels(router) = {}
      BY <2>1 DEF UnusedChannels
    <2> HIDE DEF d, e, direct
    <2> QED
      BY <1>2, <1>5, <2>3, <2>4 DEF RoutedAsWritten, d, e, direct
  <1>6. CASE section # NoRouting
    <2>1. router = New(section)
      BY <1>1, <1>6
    <2>2. /\ admitting = {} => ~d.matched /\ d.channels = Resolve(section.default)
          /\ admitting # {} =>
                \E i \in admitting :
                   /\ \A j \in admitting : i <= j
                   /\ d.matched /\ d.rule = section.rules[i].name.text
                   /\ d.channels = Resolve(section.rules[i].channels)
      BY <1>1, <1>6, <2>1, FirstDecides
    <2>3. /\ router.configured = TRUE /\ router.default = Resolve(section.default)
          /\ DOMAIN router.rules = DOMAIN section.rules
          /\ \A i \in DOMAIN section.rules : router.rules[i].channels = Resolve(section.rules[i].channels)
      BY <1>1, <1>6, <2>1, CompiledRules
    <2>4. \A i, j \in DOMAIN section.rules : section.rules[i].name.text = section.rules[j].name.text => i = j
      BY <1>1, <1>6, ValidNames DEF ValidRouting, UniqueNames, Normalize
    <2>5. \/ d.channels = router.default
          \/ \E i \in DOMAIN router.rules : d.channels = router.rules[i].channels
      BY <2>2, <2>3
    <2>6. direct \cap UnusedChannels(router) = {}
      <3>1. UnusedChannels(router) = ToSet(registry) \ (ToSet(router.default)
                \cup UNION {ToSet(router.rules[i].channels) : i \in DOMAIN router.rules})
        BY <2>3 DEF UnusedChannels
      <3>2. direct \subseteq ToSet(router.default) \cup UNION {ToSet(router.rules[i].channels) : i \in DOMAIN router.rules}
        BY <2>5
      <3> HIDE DEF direct
      <3> QED
        BY <3>1, <3>2
    <2>7. warned.unused \cap (direct \cup {Fallbacks[c] : c \in direct \cap DOMAIN Fallbacks}) = {}
      BY <1>2, <1>4, <2>6
    <2>8. CASE admitting = {}
      <3>1. ~d.matched /\ d.channels = Resolve(section.default)
        BY <2>2, <2>8
      <3> QED
        BY <1>6, <2>7, <2>8, <3>1 DEF RoutedAsWritten
    <2>9. CASE admitting # {}
      <3>1. PICK i \in admitting :
                   /\ \A j \in admitting : i <= j
                   /\ d.matched /\ d.rule = section.rules[i].name.text
                   /\ d.channels = Resolve(section.rules[i].channels)
        BY <2>2, <2>9
      <3>2. d.rule \notin warned.unreachable
        BY <1>1, <1>2, <1>6, <2>1, <3>1, DecidesReachable
      <3>3. \A j \in DOMAIN section.rules : section.rules[j].name.text = d.rule <=> j = i
        BY <2>4, <3>1
      <3>4. \E k \in admitting :
                       /\ \A j \in admitting : k <= j
                       /\ d.matched /\ d.channels = Resolve(section.rules[k].channels)
                       /\ \A j \in DOMAIN section.rules : section.rules[j].name.text = d.rule <=> j = k
        BY <3>1, <3>3
      <3> QED
        BY <1>6, <2>7, <2>9, <3>2, <3>4 DEF RoutedAsWritten
    <2> QED
      BY <2>8, <2>9
  <1> QED
    BY <1>5, <1>6

\* An event goes to the channels of the first rule that admits it as the file
\* is written, to the default or everywhere, and the log of the start calls
\* neither that rule unreachable nor those channels unused, whatever the rules,
\* the channels and the event.
THEOREM RoutesAsWritten == StartSpec => []RoutedAsWritten
  <1> QED
    BY DecisionAsWritten, StartInvHolds, PTL
-----------------------------------------------------------------------------
(***************************************************************************)
(* Configuration.  What stands above a line, written or merged, is a       *)
(* section, so the walk over the keys reaches every line or stops at one   *)
(* that is refused; a path has one value, so what a reference resolves to  *)
(* is what the setting holds; and the corrections an operator makes leave  *)
(* nothing to refuse over variables and keys.                              *)
(***************************************************************************)

LEMMA PrefixMeans ==
    ASSUME NEW T, NEW s \in Seq(T), NEW t \in Seq(T)
    PROVE  IsPrefix(s, t) <=> Len(s) <= Len(t) /\ \A i \in 1 .. Len(s) : s[i] = t[i]
  <1>1. Len(s) \in Nat /\ Len(t) \in Nat
    OBVIOUS
  <1>2. SubSeq(s, 1, Len(s)) = s
    BY <1>1, SeqEqual
  <1>3. CASE Len(s) <= Len(t)
    <2> DEFINE u == SubSeq(t, 1, Len(s))
    <2>1. u \in Seq(T) /\ Len(u) = Len(s) /\ \A i \in 1 .. Len(s) : u[i] = t[i]
      BY <1>1, <1>3
    <2> HIDE DEF u
    <2>2. s = u <=> \A i \in 1 .. Len(s) : s[i] = u[i]
      BY <2>1, SeqEqual
    <2> QED
      BY <1>2, <1>3, <2>1, <2>2 DEF IsPrefix, u
  <1> QED
    BY <1>3 DEF IsPrefix

LEMMA RestOf ==
    ASSUME NEW T, NEW s \in Seq(T), NEW a \in Nat, a <= Len(s)
    PROVE  /\ SubSeq(s, a + 1, Len(s)) \in Seq(T)
           /\ Len(SubSeq(s, a + 1, Len(s))) = Len(s) - a
           /\ \A i \in 1 .. Len(s) - a : SubSeq(s, a + 1, Len(s))[i] = s[a + i]
  <1> DEFINE n == Len(s)
  <1>1. n \in Nat
    OBVIOUS
  <1>2. \A i \in a + 1 .. n : s[i] \in T
    BY <1>1
  <1>3. CASE a = n
    BY <1>1, <1>3
  <1>4. CASE a < n
    <2>1. a + 1 \in 1 .. n + 1 /\ n \in 0 .. n /\ a + 1 <= n
      BY <1>1, <1>4
    <2>2. SubSeq(s, a + 1, n) = [i \in 1 .. n - a |-> s[i + (a + 1) - 1]]
      BY <1>1, <2>1
    <2>3. \A i \in 1 .. n - a : i + (a + 1) - 1 = a + i /\ a + i \in 1 .. n
      BY <1>1
    <2>4. SubSeq(s, a + 1, n) = [i \in 1 .. n - a |-> s[a + i]]
      BY <2>2, <2>3
    <2> HIDE DEF n
    <2>5. \A i \in 1 .. n - a : s[a + i] \in T
      BY <1>1, <2>3 DEF n
    <2>6. n - a \in Nat
      BY <1>1, <1>4
    <2> QED
      BY <2>4, <2>5, <2>6 DEF n
  <1> QED
    BY <1>1, <1>3, <1>4

LEMMA Together ==
    ASSUME NEW T, NEW s \in Seq(T), NEW t \in Seq(T)
    PROVE  /\ s \o t \in Seq(T) /\ Len(s \o t) = Len(s) + Len(t)
           /\ \A i \in 1 .. Len(s) : (s \o t)[i] = s[i]
           /\ \A i \in 1 .. Len(t) : (s \o t)[Len(s) + i] = t[i]
    OBVIOUS

LEMMA PathTypes ==
    ASSUME NEW q \in Path
    PROVE  /\ q \in Seq(Key) /\ Len(q) \in Nat /\ Len(q) >= 1 /\ DOMAIN q = 1 .. Len(q)
           /\ \A i \in DOMAIN q : q[i] \in Seq(STRING) /\ Len(q[i]) >= 1
  <1>1. q \in Seq(Key) /\ q # <<>>
    BY DEF Path
  <1>2. Len(q) \in Nat /\ Len(q) >= 1 /\ DOMAIN q = 1 .. Len(q)
    BY <1>1
  <1>3. \A i \in DOMAIN q : q[i] \in Key
    BY <1>1
  <1>4. \A w \in Key : w \in Seq(STRING) /\ Len(w) >= 1
    BY DEF Key
  <1> QED
    BY <1>1, <1>2, <1>3, <1>4

\* A setting's path, as plain keys.
LEMMA AtPlain ==
    ASSUME NEW p \in Seq(STRING)
    PROVE  /\ DOMAIN At(p) = DOMAIN p
           /\ \A i \in DOMAIN p : At(p)[i] = <<p[i]>>
           /\ Plain(At(p)) /\ Joined(At(p)) = p
  <1>1. DOMAIN At(p) = DOMAIN p /\ \A i \in DOMAIN p : At(p)[i] = <<p[i]>>
    BY DEF At
  <1>2. Plain(At(p))
    <2>1. \A x : Len(<<x>>) = 1
      OBVIOUS
    <2>2. \A i \in DOMAIN At(p) : Len(At(p)[i]) = 1
      BY <1>1, <2>1
    <2> QED
      BY <2>2 DEF Plain
  <1>3. Joined(At(p)) = [i \in DOMAIN p |-> p[i]]
    BY <1>1 DEF Joined
  <1>4. [i \in DOMAIN p |-> p[i]] = p
    OBVIOUS
  <1> QED
    BY <1>1, <1>2, <1>3, <1>4

LEMMA PlainAt ==
    ASSUME NEW q \in Path, Plain(q)
    PROVE  q = At(Joined(q))
  <1>1. q \in Seq(Key) /\ \A i \in DOMAIN q : q[i] \in Seq(STRING) /\ Len(q[i]) = 1
    BY PathTypes DEF Plain
  <1>2. \A w \in Seq(STRING) : Len(w) = 1 => w = <<w[1]>>
    OBVIOUS
  <1>3. At(Joined(q)) = [i \in DOMAIN q |-> <<q[i][1]>>]
    BY DEF At, Joined
  <1>4. \A i \in DOMAIN q : <<q[i][1]>> = q[i]
    BY <1>1, <1>2
  <1>5. [i \in DOMAIN q |-> <<q[i][1]>>] = [i \in DOMAIN q |-> q[i]]
    BY <1>4
  <1>6. [i \in DOMAIN q |-> q[i]] = q
    BY <1>1
  <1> QED
    BY <1>3, <1>5, <1>6

LEMMA SettingPaths ==
    ASSUME NEW p \in DOMAIN Settings
    PROVE  p \in Seq(STRING) /\ Settings[p] \in {"text", "number", "list", "section"}
    BY ConfigurationAssumption

\* A key that is read is a setting where it stands.
LEMMA ReadIsSetting ==
    ASSUME NEW q \in Path, Read(q)
    PROVE  Joined(q) \in DOMAIN Settings /\ q = At(Joined(q))
    BY PlainAt DEF Read, KnownPath

(********** The lines of a file **********)

LEMMA FileTypes ==
    ASSUME WellFormed(file), NEW l \in file
    PROVE  l.path \in Path /\ l.value \in Value
  <1>1. l \in [path : Path, value : Value]
    BY DEF WellFormed
  <1> QED
    BY <1>1

LEMMA SameLine ==
    ASSUME WellFormed(file), NEW k \in file, NEW l \in file, k.path = l.path
    PROVE  k = l
    BY DEF WellFormed

LEMMA ReferenceTypes ==
    ASSUME WellFormed(file), NEW m \in References(file)
    PROVE  m \in file /\ m.path \in Path /\ m.value.anchor \in Path
  <1>1. m \in file /\ m.value.form \in {"merge", "alias"}
    BY DEF References
  <1>2. m.path \in Path /\ m.value \in Value
    BY <1>1, FileTypes
  <1>3. m.value \in [form : {"merge", "alias"}, anchor : Path]
    BY <1>1, <1>2 DEF Value, ScalarValue
  <1> QED
    BY <1>1, <1>2, <1>3

LEMMA OwnLine ==
    ASSUME NEW l \in Own
    PROVE  \E x \in file \ Merges(file) : l.path = x.path /\ l.value = x.value /\ l.from = x.path
    BY DEF Own

LEMMA LineOwn ==
    ASSUME NEW x \in file \ Merges(file)
    PROVE  \E l \in Own : l.path = x.path /\ l.value = x.value /\ l.from = x.path
  <1>1. [path |-> x.path, value |-> x.value, from |-> x.path] \in Own
    BY DEF Own
  <1> QED
    BY <1>1

LEMMA BroughtLine ==
    ASSUME NEW m, NEW l \in BroughtBy(m)
    PROVE  \E x \in file :
              /\ IsStrictPrefix(m.value.anchor, x.path)
              /\ l.path = PutAt(m, x.path) /\ l.value = x.value /\ l.from = x.path
  <1>1. PICK x \in {y \in file : IsStrictPrefix(m.value.anchor, y.path)} :
          l = [path |-> PutAt(m, x.path), value |-> x.value, from |-> x.path]
    BY DEF BroughtBy
  <1> QED
    BY <1>1

LEMMA LineBrought ==
    ASSUME NEW m, NEW x \in file, IsStrictPrefix(m.value.anchor, x.path)
    PROVE  \E l \in BroughtBy(m) : l.path = PutAt(m, x.path) /\ l.value = x.value /\ l.from = x.path
  <1>1. [path |-> PutAt(m, x.path), value |-> x.value, from |-> x.path] \in BroughtBy(m)
    BY DEF BroughtBy
  <1> QED
    BY <1>1

\* The first keys of a path.
LEMMA FirstKeys ==
    ASSUME NEW q \in Path, NEW n \in 1 .. Len(q)
    PROVE  /\ SubSeq(q, 1, n) \in Path /\ Len(SubSeq(q, 1, n)) = n
           /\ \A i \in 1 .. n : SubSeq(q, 1, n)[i] = q[i]
  <1>1. q \in Seq(Key) /\ Len(q) \in Nat
    BY PathTypes
  <1>2. /\ SubSeq(q, 1, n) \in Seq(Key) /\ Len(SubSeq(q, 1, n)) = n
        /\ \A i \in 1 .. n : SubSeq(q, 1, n)[i] = q[i]
    BY <1>1
  <1>3. SubSeq(q, 1, n) # <<>>
    BY <1>1, <1>2
  <1> QED
    BY <1>2, <1>3 DEF Path

LEMMA SamePath ==
    ASSUME NEW q \in Path, NEW r \in Path, Len(q) = Len(r), \A i \in 1 .. Len(q) : q[i] = r[i]
    PROVE  q = r
    BY PathTypes, SeqEqual

\* A path with the first n keys of another is what SubSeq takes of it.
LEMMA FirstKeysAre ==
    ASSUME NEW q \in Path, NEW n \in 1 .. Len(q), NEW r \in Path, Len(r) = n, \A i \in 1 .. n : r[i] = q[i]
    PROVE  r = SubSeq(q, 1, n)
  <1> DEFINE f == SubSeq(q, 1, n)
  <1>1. f \in Path /\ Len(f) = n /\ \A i \in 1 .. n : f[i] = q[i]
    BY FirstKeys
  <1> HIDE DEF f
  <1>2. \A i \in 1 .. Len(r) : r[i] = f[i]
    BY <1>1
  <1> QED
    BY <1>1, <1>2, SamePath DEF f

\* Above a line of the file are sections.
LEMMA SectionAt ==
    ASSUME WellFormed(file), NEW x \in file, NEW n \in 1 .. Len(x.path) - 1
    PROVE  \E y \in file \ Merges(file) :
              /\ y.value.form = "section" /\ y.path = SubSeq(x.path, 1, n)
              /\ y.path \in Path /\ Len(y.path) = n /\ \A i \in 1 .. n : y.path[i] = x.path[i]
  <1>1. PICK y \in file : y.path = SubSeq(x.path, 1, n) /\ y.value.form = "section"
    BY DEF WellFormed
  <1>2. y \notin Merges(file)
    BY <1>1 DEF Merges
  <1>3. x.path \in Path /\ Len(x.path) \in Nat
    BY FileTypes, PathTypes
  <1>4. n \in 1 .. Len(x.path)
    BY <1>3
  <1> QED
    BY <1>1, <1>2, <1>3, <1>4, FirstKeys

\* A reference puts what it brings below a line that is no merge: a section, or
\* the alias itself; and so is every key on the way there.
LEMMA PlaceKeys ==
    ASSUME WellFormed(file), NEW m \in References(file)
    PROVE  /\ Place(m) \in Seq(Key) /\ Len(Place(m)) \in Nat
           /\ \A n \in 1 .. Len(Place(m)) :
                 \E y \in file \ Merges(file) :
                    /\ y.path \in Path /\ Len(y.path) = n /\ \A i \in 1 .. n : y.path[i] = Place(m)[i]
                    /\ y.value.form = "section" \/ (y = m /\ n = Len(Place(m)))
  <1>1. /\ m \in file /\ m.path \in Path /\ m.path \in Seq(Key) /\ Len(m.path) \in Nat
        /\ Len(m.path) >= 1 /\ m.path # <<>>
    BY ReferenceTypes, PathTypes DEF Path
  <1> DEFINE f == Place(m)
             u == Len(f)
  <1>2. /\ f \in Seq(Key) /\ u \in Nat /\ \A i \in 1 .. u : f[i] = m.path[i]
        /\ u = IF m \in Merges(file) THEN Len(m.path) - 1 ELSE Len(m.path)
    <2>1. CASE m \in Merges(file)
      <3>1. f = Front(m.path)
        BY <2>1 DEF Place
      <3>2. Front(m.path) \in Seq(Key) /\ Len(Front(m.path)) = Len(m.path) - 1 /\ Len(m.path) - 1 \in Nat
            /\ \A i \in 1 .. Len(m.path) - 1 : Front(m.path)[i] = m.path[i]
        BY <1>1 DEF Front
      <3> HIDE DEF f
      <3> QED
        BY <2>1, <3>1, <3>2
    <2>2. CASE m \notin Merges(file)
      BY <1>1, <2>2 DEF Place
    <2> QED
      BY <2>1, <2>2
  <1> HIDE DEF f, u
  <1>3. ASSUME NEW n \in 1 .. u
        PROVE  \E y \in file \ Merges(file) :
                  /\ y.path \in Path /\ Len(y.path) = n /\ \A i \in 1 .. n : y.path[i] = f[i]
                  /\ y.value.form = "section" \/ (y = m /\ n = u)
    <2>1. CASE n <= Len(m.path) - 1
      <3>1. n \in 1 .. Len(m.path) - 1 /\ \A i \in 1 .. n : i \in 1 .. u
        BY <1>1, <1>2, <2>1
      <3>2. PICK y \in file \ Merges(file) :
               /\ y.value.form = "section" /\ y.path \in Path /\ Len(y.path) = n
               /\ \A i \in 1 .. n : y.path[i] = m.path[i]
        BY <1>1, <3>1, SectionAt
      <3> QED
        BY <1>2, <3>1, <3>2
    <2>2. CASE n > Len(m.path) - 1
      <3>1. m \notin Merges(file) /\ n = Len(m.path) /\ n = u
        BY <1>1, <1>2, <2>2
      <3> QED
        BY <1>1, <1>2, <3>1
    <2> QED
      BY <1>1, <2>1, <2>2
  <1> QED
    BY <1>2, <1>3 DEF f, u

\* The keys of a line that is brought: those of the place, then those below the anchor.
LEMMA BroughtKeys ==
    ASSUME WellFormed(file), NEW m \in References(file), NEW x \in file, IsStrictPrefix(m.value.anchor, x.path)
    PROVE  LET q == PutAt(m, x.path)
               up == Len(Place(m))
               a == Len(m.value.anchor)
           IN /\ q \in Path /\ up \in Nat /\ a \in Nat /\ a < Len(x.path) /\ a >= 1
              /\ Len(q) = up + Len(x.path) - a
              /\ \A i \in 1 .. up : q[i] = Place(m)[i]
              /\ \A i \in 1 .. Len(x.path) - a : q[up + i] = x.path[a + i]
              /\ \A i \in 1 .. a : m.value.anchor[i] = x.path[i]
  <1> DEFINE q == PutAt(m, x.path)
             f == Place(m)
             up == Len(f)
             a == Len(m.value.anchor)
             g == SubSeq(x.path, a + 1, Len(x.path))
  <1>1. /\ m.value.anchor \in Seq(Key) /\ a \in Nat /\ a >= 1
        /\ x.path \in Seq(Key) /\ Len(x.path) \in Nat
    BY ReferenceTypes, FileTypes, PathTypes
  <1>2. /\ Len(m.value.anchor) < Len(x.path)
        /\ \A i \in 1 .. Len(m.value.anchor) : m.value.anchor[i] = x.path[i]
    <2>1. /\ Len(m.value.anchor) <= Len(x.path) /\ m.value.anchor # x.path
          /\ \A i \in 1 .. Len(m.value.anchor) : m.value.anchor[i] = x.path[i]
      BY <1>1, PrefixMeans DEF IsStrictPrefix
    <2> QED
      BY <1>1, <2>1, SeqEqual
  <1>3. f \in Seq(Key) /\ up \in Nat
    BY PlaceKeys
  <1>4. /\ g \in Seq(Key) /\ Len(g) = Len(x.path) - a
        /\ \A i \in 1 .. Len(x.path) - a : g[i] = x.path[a + i]
    <2> HIDE DEF a
    <2>1. a \in Nat /\ a <= Len(x.path)
      BY <1>1, <1>2 DEF a
    <2> QED
      BY <1>1, <2>1, RestOf
  <1>5. a \in Nat /\ a < Len(x.path)
    BY <1>1, <1>2
  <1>6. q = f \o g
    BY DEF PutAt
  <1> HIDE DEF f, g, a
  <1>7. /\ f \o g \in Seq(Key) /\ Len(f \o g) = up + (Len(x.path) - a)
        /\ \A i \in 1 .. up : (f \o g)[i] = f[i]
        /\ \A i \in 1 .. Len(x.path) - a : (f \o g)[up + i] = g[i]
    <2>1. /\ f \o g \in Seq(Key) /\ Len(f \o g) = Len(f) + Len(g)
          /\ \A i \in 1 .. Len(f) : (f \o g)[i] = f[i]
          /\ \A i \in 1 .. Len(g) : (f \o g)[Len(f) + i] = g[i]
      <3>1. \A s, t \in Seq(Key) :
               /\ s \o t \in Seq(Key) /\ Len(s \o t) = Len(s) + Len(t)
               /\ \A i \in 1 .. Len(s) : (s \o t)[i] = s[i]
               /\ \A i \in 1 .. Len(t) : (s \o t)[Len(s) + i] = t[i]
        BY Together
      <3> QED
        BY <1>3, <1>4, <3>1, Zenon
    <2> QED
      BY <1>4, <2>1, Zenon
  <1> HIDE DEF up
  <1>8. q \in Path
    BY <1>1, <1>3, <1>5, <1>6, <1>7 DEF Path
  <1>9. /\ Len(q) = up + Len(x.path) - a
        /\ \A i \in 1 .. up : q[i] = f[i]
        /\ \A i \in 1 .. Len(x.path) - a : q[up + i] = x.path[a + i]
    BY <1>1, <1>3, <1>4, <1>5, <1>6, <1>7
  <1> HIDE DEF q
  <1> QED
    BY <1>1, <1>2, <1>3, <1>5, <1>8, <1>9 DEF q, up, a, f

LEMMA LineTypes ==
    ASSUME WellFormed(file), NEW l \in Lines
    PROVE  /\ l.path \in Path /\ l.value \in Value
           /\ \E x \in file : l.from = x.path /\ l.value = x.value
  <1>1. CASE l \in Own
    BY <1>1, OwnLine, FileTypes
  <1>2. CASE l \in Brought
    <2>1. PICK m \in References(file) : l \in BroughtBy(m)
      BY <1>2 DEF Brought
    <2>2. PICK x \in file :
              /\ IsStrictPrefix(m.value.anchor, x.path)
              /\ l.path = PutAt(m, x.path) /\ l.value = x.value /\ l.from = x.path
      BY <2>1, BroughtLine
    <2>3. PutAt(m, x.path) \in Path
      BY <2>2, BroughtKeys
    <2> QED
      BY <2>2, <2>3, FileTypes
  <1> QED
    BY <1>1, <1>2 DEF Lines

(********** Aliases **********)

LEMMA ContentOfAlias ==
    ASSUME WellFormed(file), NEW m \in References(file), m.value.form = "alias"
    PROVE  \E a \in file : a.path = m.value.anchor /\ Content(m.value) = a.value
  <1>1. \E a \in file : a.path = m.value.anchor
    BY DEF WellFormed
  <1>2. (CHOOSE l \in file : l.path = m.value.anchor) \in file
        /\ (CHOOSE l \in file : l.path = m.value.anchor).path = m.value.anchor
    BY <1>1
  <1> QED
    BY <1>2 DEF Content

LEMMA ContentOfOther ==
    ASSUME NEW v, v.form # "alias"
    PROVE  Content(v) = v
    BY DEF Content

\* What a reference brings refers to nothing.
LEMMA NoneBelowAnchors ==
    ASSUME WellFormed(file), NEW m \in References(file), NEW x \in file, IsStrictPrefix(m.value.anchor, x.path)
    PROVE  x \notin References(file) /\ x \notin Merges(file) /\ Content(x.value) = x.value
  <1>1. x \notin References(file)
    BY DEF WellFormed, IsStrictPrefix
  <1>2. x.value.form \notin {"merge", "alias"}
    BY <1>1 DEF References
  <1> QED
    BY <1>1, <1>2, ContentOfOther DEF Merges

\* What stands on an anchor with lines below it is a section.
LEMMA AnchorIsSection ==
    ASSUME WellFormed(file), NEW m \in References(file), NEW x \in file, IsStrictPrefix(m.value.anchor, x.path),
           m.value.form = "alias"
    PROVE  Content(m.value).form = "section"
  <1>1. PICK a \in file : a.path = m.value.anchor /\ Content(m.value) = a.value
    BY ContentOfAlias
  <1> DEFINE n == Len(m.value.anchor)
  <1>2. /\ m.value.anchor \in Path /\ x.path \in Path /\ Len(x.path) \in Nat
        /\ n \in Nat /\ n >= 1 /\ n < Len(x.path) /\ \A i \in 1 .. n : m.value.anchor[i] = x.path[i]
    BY BroughtKeys, ReferenceTypes, FileTypes, PathTypes
  <1>3. n \in 1 .. Len(x.path) - 1 /\ n \in 1 .. Len(x.path)
    BY <1>2
  <1>4. PICK y \in file : y.value.form = "section" /\ y.path = SubSeq(x.path, 1, n)
    BY <1>3, SectionAt
  <1>5. m.value.anchor = SubSeq(x.path, 1, n)
    BY <1>2, <1>3, FirstKeysAre
  <1> HIDE DEF n
  <1>6. a = y
    <2>1. a.path = y.path
      BY <1>1, <1>4, <1>5
    <2> QED
      BY <2>1, SameLine
  <1> QED
    BY <1>1, <1>4, <1>6

(********** What stands above a line **********)

LEMMA OwnAbove ==
    ASSUME WellFormed(file), NEW l \in Own, NEW n \in 1 .. Len(l.path) - 1
    PROVE  \E a \in Own : a.path = SubSeq(l.path, 1, n) /\ Content(a.value).form = "section"
  <1>1. PICK x \in file \ Merges(file) : l.path = x.path
    BY OwnLine
  <1>2. PICK y \in file \ Merges(file) : y.path = SubSeq(l.path, 1, n) /\ y.value.form = "section"
    BY <1>1, SectionAt
  <1>3. Content(y.value) = y.value
    BY <1>2, ContentOfOther
  <1> QED
    BY <1>2, <1>3, LineOwn

LEMMA BroughtAbove ==
    ASSUME WellFormed(file), NEW m \in References(file), NEW l \in BroughtBy(m), NEW n \in 1 .. Len(l.path) - 1
    PROVE  \E a \in Own \cup {b \in BroughtBy(m) : Len(Place(m)) < n} :
              a.path = SubSeq(l.path, 1, n) /\ Content(a.value).form = "section"
  <1>1. PICK x \in file : IsStrictPrefix(m.value.anchor, x.path) /\ l.path = PutAt(m, x.path)
    BY BroughtLine
  <1> DEFINE q == l.path
             f == Place(m)
             up == Len(f)
             a == Len(m.value.anchor)
  <1>2. /\ q \in Path /\ up \in Nat /\ a \in Nat /\ a < Len(x.path) /\ Len(x.path) \in Nat
        /\ Len(q) = up + Len(x.path) - a
        /\ \A i \in 1 .. up : q[i] = f[i]
        /\ \A i \in 1 .. Len(x.path) - a : q[up + i] = x.path[a + i]
        /\ \A i \in 1 .. a : m.value.anchor[i] = x.path[i]
    <2>1. Len(x.path) \in Nat
      BY FileTypes, PathTypes
    <2> QED
      BY <1>1, <2>1, BroughtKeys, ZenonT(30)
  <1>3. x.path \in Path /\ m.value.anchor \in Path
    BY ReferenceTypes, FileTypes
  <1> HIDE DEF q
  <1>4. n \in 1 .. Len(q) - 1 /\ n \in 1 .. Len(q) /\ n \in Nat /\ Len(q) \in Nat
    <2>1. Len(q) \in Nat
      BY <1>2, PathTypes
    <2>2. n \in 1 .. Len(q) - 1
      BY DEF q
    <2> HIDE DEF up, a, f
    <2> QED
      BY <2>1, <2>2
  <1>5. CASE n <= up
    <2>1. n \in 1 .. up /\ \A i \in 1 .. n : i \in 1 .. up
      BY <1>2, <1>4, <1>5
    <2>2. PICK y \in file \ Merges(file) :
            /\ y.path \in Path /\ Len(y.path) = n /\ \A i \in 1 .. n : y.path[i] = f[i]
            /\ y.value.form = "section" \/ y = m
      BY <2>1, PlaceKeys
    <2>3. \A i \in 1 .. n : y.path[i] = q[i]
      BY <1>2, <2>1, <2>2
    <2>4. y.path = SubSeq(q, 1, n)
      BY <1>2, <1>4, <2>2, <2>3, FirstKeysAre
    <2>5. Content(y.value).form = "section"
      <3>1. CASE y.value.form = "section"
        BY <3>1, ContentOfOther
      <3>2. CASE y = m
        <4>1. m.value.form = "alias"
          BY <2>2, <3>2 DEF References, Merges
        <4> QED
          BY <1>1, <3>2, <4>1, AnchorIsSection
      <3> QED
        BY <2>2, <3>1, <3>2
    <2>6. PICK b \in Own : b.path = y.path /\ b.value = y.value
      BY LineOwn
    <2> QED
      BY <2>4, <2>5, <2>6 DEF q
  <1>6. CASE n > up
    <2> HIDE DEF up, a, f
    <2> DEFINE k == a + (n - up)
    <2>1. /\ k \in 1 .. Len(x.path) - 1 /\ k \in 1 .. Len(x.path) /\ a < k /\ k \in Nat
          /\ up + k - a = n
      <3> DEFINE lx == Len(x.path)
                 lq == Len(q)
      <3>1. /\ a \in Nat /\ up \in Nat /\ lx \in Nat /\ lq \in Nat /\ a < lx /\ lq = up + lx - a
            /\ n \in Nat /\ n \in 1 .. lq - 1 /\ up < n
        BY <1>2, <1>4, <1>6
      <3> HIDE DEF lx, lq
      <3>2. k \in 1 .. lx - 1 /\ k \in 1 .. lx /\ a < k /\ k \in Nat /\ up + k - a = n
        BY <3>1
      <3> HIDE DEF k
      <3> QED
        BY <3>2 DEF lx
    <2> HIDE DEF k
    <2>2. PICK y \in file \ Merges(file) :
             /\ y.value.form = "section" /\ y.path \in Path /\ Len(y.path) = k
             /\ \A i \in 1 .. k : y.path[i] = x.path[i]
      BY <2>1, SectionAt
    <2>3. IsStrictPrefix(m.value.anchor, y.path)
      <3>1. m.value.anchor \in Seq(Key) /\ y.path \in Seq(Key)
        BY <1>3, <2>2, PathTypes
      <3>2. \A i \in 1 .. a : i \in 1 .. k
        BY <1>2, <2>1
      <3>3. \A i \in 1 .. a : m.value.anchor[i] = y.path[i]
        BY <1>2, <2>2, <3>2
      <3>4. Len(m.value.anchor) <= Len(y.path) /\ m.value.anchor # y.path
        BY <1>2, <2>1, <2>2 DEF a
      <3> QED
        BY <3>1, <3>3, <3>4, PrefixMeans DEF IsStrictPrefix, a
    <2> DEFINE r == PutAt(m, y.path)
    <2>4. /\ r \in Path /\ Len(r) = up + k - a
          /\ \A i \in 1 .. up : r[i] = f[i]
          /\ \A i \in 1 .. k - a : r[up + i] = y.path[a + i]
      BY <2>2, <2>3, BroughtKeys DEF up, a, f
    <2> HIDE DEF r
    <2>5. ASSUME NEW i \in 1 .. n PROVE r[i] = q[i]
      <3>1. CASE i <= up
        BY <1>2, <2>4, <3>1
      <3>2. CASE i > up
        <4>1. PICK j \in Nat : j = i - up
          BY <1>2, <3>2
        <4>2. /\ j \in 1 .. k - a /\ j \in 1 .. Len(x.path) - a /\ up + j = i
              /\ a + j \in 1 .. k
          BY <1>2, <1>4, <2>1, <3>2, <4>1
        <4>3. r[up + j] = y.path[a + j] /\ q[up + j] = x.path[a + j]
          BY <1>2, <2>4, <4>2
        <4> QED
          BY <2>2, <4>2, <4>3
      <3> QED
        BY <1>2, <3>1, <3>2
    <2>6. r = SubSeq(q, 1, n)
      BY <1>2, <1>4, <2>1, <2>4, <2>5, FirstKeysAre
    <2>7. PICK b \in BroughtBy(m) : b.path = r /\ b.value = y.value
      BY <2>3, LineBrought DEF r
    <2>8. Content(y.value) = y.value
      BY <2>2, ContentOfOther
    <2>9. b \in {c \in BroughtBy(m) : Len(Place(m)) < n}
      BY <1>6 DEF up, f
    <2> QED
      BY <2>2, <2>6, <2>7, <2>8, <2>9 DEF q
  <1> QED
    BY <1>2, <1>4, <1>5, <1>6

LEMMA SectionFits ==
    ASSUME NEW v, v.form = "section", NEW type \in {"text", "number", "list", "section"}, Fits(type, v)
    PROVE  type = "section"
  <1>1. ~Scalar(v) /\ ~IsNull(v)
    BY DEF Scalar, IsNull
  <1> QED
    BY <1>1 DEF Fits

\* In a file without unknown keys and misfits a line is a setting where it
\* stands, is under an "x-" key, or is below a section that is not decoded.
LEMMA LineAccounted ==
    ASSUME WellFormed(file), UnknownKeys = {}, Misfits = {}, NEW l \in Lines,
           NEW above \in SUBSET Lines,
           \A n \in 1 .. Len(l.path) - 1 :
              \E a \in above : a.path = SubSeq(l.path, 1, n) /\ Content(a.value).form = "section"
    PROVE  \/ UnderX(l.path)
           \/ \E p \in DOMAIN Settings : l.path = At(p)
           \/ \E a \in above \ Taken : \E n \in 1 .. Len(l.path) - 1 : a.path = SubSeq(l.path, 1, n)
  <1>1. l.path \in Path /\ Len(l.path) \in Nat /\ Len(l.path) >= 1
    BY LineTypes, PathTypes
  <1>2. ASSUME NEW a \in Lines, Visited(a) PROVE UnderX(a.path) \/ Read(a.path)
    BY <1>2 DEF UnknownKeys
  <1>3. CASE Visited(l)
    BY <1>1, <1>2, <1>3, ReadIsSetting
  <1>4. CASE ~Visited(l)
    <2> DEFINE B == {n \in 1 .. Len(l.path) - 1 : ~Descend(SubSeq(l.path, 1, n))}
    <2>1. B # {} /\ B \in SUBSET Nat
      BY <1>1, <1>4 DEF Visited
    <2>2. PICK n \in B : \A k \in B : n <= k
      <3> HIDE DEF B
      <3> QED
        BY <2>1, LeastNumber
    <2>3. n \in 1 .. Len(l.path) - 1 /\ n \in 1 .. Len(l.path) /\ ~Descend(SubSeq(l.path, 1, n)) /\ n \in Nat
      BY <1>1
    <2>4. PICK a \in above : a.path = SubSeq(l.path, 1, n) /\ Content(a.value).form = "section"
      BY <2>3
    <2>5. /\ a.path \in Path /\ Len(a.path) = n
          /\ \A i \in 1 .. n : a.path[i] = l.path[i]
      BY <1>1, <2>3, <2>4, FirstKeys
    <2>6. Visited(a)
      <3> SUFFICES ASSUME NEW k \in 1 .. n - 1 PROVE Descend(SubSeq(a.path, 1, k))
        BY <2>5 DEF Visited
      <3>1. k \in 1 .. n /\ k \in 1 .. Len(l.path) /\ k \in 1 .. Len(l.path) - 1 /\ ~(n <= k)
        BY <1>1, <2>3
      <3>2. Descend(SubSeq(l.path, 1, k))
        BY <2>2, <3>1
      <3>3. /\ SubSeq(a.path, 1, k) \in Path /\ Len(SubSeq(a.path, 1, k)) = k
            /\ \A i \in 1 .. k : SubSeq(a.path, 1, k)[i] = a.path[i]
        BY <2>5, <3>1, FirstKeys
      <3>4. \A i \in 1 .. k : i \in 1 .. n
        BY <2>3
      <3>5. \A i \in 1 .. k : SubSeq(a.path, 1, k)[i] = l.path[i]
        BY <2>5, <3>3, <3>4
      <3>6. SubSeq(a.path, 1, k) = SubSeq(l.path, 1, k)
        BY <1>1, <3>1, <3>3, <3>5, FirstKeysAre
      <3> QED
        BY <3>2, <3>6
    <2>7. CASE UnderX(a.path)
      BY <2>3, <2>5, <2>7 DEF UnderX
    <2>8. CASE ~UnderX(a.path)
      <3>1. Read(a.path)
        BY <1>2, <2>6, <2>8
      <3>2. PICK p \in DOMAIN Settings : a.path = At(p) /\ p = Joined(a.path)
        BY <2>5, <3>1, ReadIsSetting
      <3>3. Settings[p] # "section"
        BY <2>3, <2>4, <2>8, <3>1, <3>2 DEF Descend, Read
      <3>4. ASSUME NEW v \in Values(p) PROVE v.form # "section"
        BY <3>2, <3>3, SectionFits, SettingPaths DEF Misfits
      <3>5. Content(a.value) \notin Values(p)
        BY <2>4, <3>4
      <3>6. a \notin Taken
        BY <3>2, <3>5 DEF Values
      <3> QED
        BY <2>3, <2>4, <3>6
    <2> QED
      BY <2>7, <2>8
  <1> QED
    BY <1>3, <1>4

LEMMA OwnAccounted ==
    ASSUME WellFormed(file), UnknownKeys = {}, Misfits = {}, NEW x \in file \ Merges(file)
    PROVE  x.path[1][1] \in AnchorWords \/ \E p \in DOMAIN Settings : x.path = At(p)
  <1>1. PICK l \in Own : l.path = x.path
    BY LineOwn
  <1>2. l \in Lines /\ Own \in SUBSET Lines /\ Own \ Taken = {}
    BY DEF Lines, Taken
  <1>3. \A n \in 1 .. Len(l.path) - 1 :
           \E a \in Own : a.path = SubSeq(l.path, 1, n) /\ Content(a.value).form = "section"
    BY OwnAbove
  <1> QED
    BY <1>1, <1>2, <1>3, LineAccounted DEF UnderX

LEMMA BroughtAccounted ==
    ASSUME WellFormed(file), UnknownKeys = {}, Misfits = {},
           NEW m \in References(file), NEW x \in file, IsStrictPrefix(m.value.anchor, x.path)
    PROVE  \/ PutAt(m, x.path)[1][1] \in AnchorWords
           \/ \E p \in DOMAIN Settings : PutAt(m, x.path) = At(p)
           \/ Hidden(m, PutAt(m, x.path))
  <1>1. PICK l \in BroughtBy(m) : l.path = PutAt(m, x.path)
    BY LineBrought
  <1> DEFINE near(n) == Own \cup {b \in BroughtBy(m) : Len(Place(m)) < n}
             above == {b \in Own \cup BroughtBy(m) : \E n \in 1 .. Len(l.path) - 1 :
                          b \in near(n) /\ b.path = SubSeq(l.path, 1, n)}
  <1>2. l \in Lines /\ above \in SUBSET Lines
    BY DEF Lines, Brought
  <1>3. ASSUME NEW n \in 1 .. Len(l.path) - 1
        PROVE  \E a \in above : a.path = SubSeq(l.path, 1, n) /\ Content(a.value).form = "section"
    <2>1. PICK a \in near(n) : a.path = SubSeq(l.path, 1, n) /\ Content(a.value).form = "section"
      BY BroughtAbove
    <2> QED
      BY <2>1
  <1>4. ASSUME NEW a \in above \ Taken PROVE Hidden(m, l.path)
    <2>1. PICK n \in 1 .. Len(l.path) - 1 : a \in near(n) /\ a.path = SubSeq(l.path, 1, n)
      OBVIOUS
    <2>2. a \in BroughtBy(m) /\ Len(Place(m)) < n /\ Hidden(m, a.path)
      <3>1. Own \subseteq Taken
        BY DEF Taken
      <3>2. a \in BroughtBy(m) /\ Len(Place(m)) < n
        BY <2>1, <3>1
      <3>3. ~Hidden(m, a.path) => a \in Taken
        BY <3>2 DEF Taken
      <3> HIDE DEF above, near
      <3> QED
        BY <3>2, <3>3
    <2> DEFINE u == Len(Place(m)) + 1
    <2>3. l.path \in Path /\ Len(l.path) \in Nat /\ Len(Place(m)) \in Nat
      BY <1>2, LineTypes, PathTypes, PlaceKeys
    <2>4. u \in 1 .. n /\ u \in 1 .. Len(l.path) /\ n \in 1 .. Len(l.path) /\ n \in Nat
      BY <2>2, <2>3
    <2> HIDE DEF u
    <2>5. /\ a.path \in Path /\ Len(a.path) = n /\ \A i \in 1 .. n : a.path[i] = l.path[i]
      BY <2>1, <2>3, <2>4, FirstKeys
    <2> DEFINE b == SubSeq(a.path, 1, u)
    <2>6. b \in Path /\ Len(b) = u /\ \A i \in 1 .. u : b[i] = a.path[i]
      BY <2>4, <2>5, FirstKeys
    <2>7. \A i \in 1 .. u : i \in 1 .. n
      BY <2>4
    <2> HIDE DEF b, above
    <2>8. \A i \in 1 .. u : b[i] = l.path[i]
      BY <2>5, <2>6, <2>7
    <2>9. b = SubSeq(l.path, 1, u)
      BY <2>3, <2>4, <2>6, <2>8, FirstKeysAre
    <2> QED
      BY <2>2, <2>9 DEF Hidden, u, b
  <1> HIDE DEF above
  <1> QED
    BY <1>1, <1>2, <1>3, <1>4, LineAccounted DEF UnderX

(********** The value of a setting **********)

LEMMA TakenIsLine == Taken \subseteq Lines
    BY DEF Taken, Lines, Brought

LEMMA ValueLine ==
    ASSUME NEW p, NEW v \in Values(p)
    PROVE  \E l \in Taken : l.path = At(p) /\ Content(l.value) = v
    BY DEF Values

LEMMA ValueFromFile ==
    ASSUME WellFormed(file), NEW p, NEW v \in Values(p)
    PROVE  v \in Value /\ \E x \in file : x.value = v
  <1>1. PICK l \in Taken : Content(l.value) = v
    BY ValueLine
  <1>2. PICK x \in file : l.value = x.value
    BY TakenIsLine, LineTypes
  <1>3. CASE x.value.form # "alias"
    BY <1>1, <1>2, <1>3, ContentOfOther, FileTypes
  <1>4. CASE x.value.form = "alias"
    <2>1. x \in References(file)
      BY <1>4 DEF References
    <2> QED
      BY <1>1, <1>2, <1>4, <2>1, ContentOfAlias, FileTypes
  <1> QED
    BY <1>3, <1>4

\* A line of the file that stands where a reference puts keys hides them.
LEMMA OwnHides ==
    ASSUME WellFormed(file), NEW m \in References(file), NEW q \in Path, NEW y \in file \ Merges(file),
           Len(Place(m)) < Len(y.path), Len(y.path) <= Len(q), \A i \in 1 .. Len(y.path) : y.path[i] = q[i]
    PROVE  Hidden(m, q)
  <1> DEFINE n == Len(Place(m)) + 1
  <1>1. /\ Len(Place(m)) \in Nat /\ y.path \in Path /\ Len(y.path) \in Nat /\ Len(q) \in Nat
    BY PlaceKeys, FileTypes, PathTypes
  <1>2. n \in 1 .. Len(y.path) /\ n \in 1 .. Len(q) /\ n \in Nat
    BY <1>1
  <1> HIDE DEF n
  <1>3. \E z \in file \ Merges(file) : z.path = SubSeq(q, 1, n)
    <2>1. CASE n = Len(y.path)
      BY <1>1, <1>2, <2>1, FirstKeysAre
    <2>2. CASE n # Len(y.path)
      <3>1. n \in 1 .. Len(y.path) - 1 /\ \A i \in 1 .. n : i \in 1 .. Len(y.path)
        BY <1>1, <1>2, <2>2
      <3>2. PICK z \in file \ Merges(file) :
              z.path \in Path /\ Len(z.path) = n /\ \A i \in 1 .. n : z.path[i] = y.path[i]
        BY <3>1, SectionAt
      <3>3. \A i \in 1 .. n : z.path[i] = q[i]
        BY <3>1, <3>2
      <3> QED
        BY <1>2, <3>2, <3>3, FirstKeysAre
    <2> QED
      BY <2>1, <2>2
  <1> QED
    BY <1>3 DEF Hidden, n

\* A key is not an alias and a section with a merge at once.
LEMMA NotBoth ==
    ASSUME WellFormed(file), NEW m \in References(file), NEW k \in References(file),
           m \in Merges(file), k \notin Merges(file), Place(m) = Place(k)
    PROVE  FALSE
  <1> DEFINE n == Len(Place(m))
  <1>1. Place(m) = k.path /\ k \in file /\ k.path \in Path /\ Len(k.path) \in Nat /\ Len(k.path) >= 1
    BY ReferenceTypes, PathTypes DEF Place
  <1>2. n \in 1 .. n
    BY <1>1
  <1>3. PICK z \in file \ Merges(file) :
           /\ z.path \in Path /\ Len(z.path) = n /\ \A i \in 1 .. n : z.path[i] = Place(m)[i]
           /\ z.value.form = "section" \/ z = m
    BY <1>2, PlaceKeys
  <1>4. z.path = k.path
    BY <1>1, <1>3, SamePath
  <1>5. z = k
    BY <1>1, <1>3, <1>4 DEF WellFormed
  <1> QED
    BY <1>3, <1>5 DEF References, Merges

LEMMA OneReference ==
    ASSUME WellFormed(file), NEW m \in References(file), NEW k \in References(file), NEW x \in file, NEW y \in file,
           IsStrictPrefix(m.value.anchor, x.path), IsStrictPrefix(k.value.anchor, y.path),
           PutAt(m, x.path) = PutAt(k, y.path), ~Hidden(m, PutAt(m, x.path)), Len(Place(m)) <= Len(Place(k))
    PROVE  m = k
  <1> DEFINE q == PutAt(m, x.path)
             u == Len(Place(m))
             w == Len(Place(k))
  <1>1. /\ q \in Path /\ u \in Nat /\ w \in Nat
        /\ Place(m) \in Seq(Key) /\ Place(k) \in Seq(Key)
    BY BroughtKeys, PlaceKeys
  <1>2. /\ \A i \in 1 .. u : q[i] = Place(m)[i]
        /\ \A i \in 1 .. w : q[i] = Place(k)[i]
    BY BroughtKeys, ZenonT(30)
  <1>3. w < Len(q) /\ Len(q) \in Nat
    <2>1. /\ Len(k.value.anchor) \in Nat /\ Len(k.value.anchor) < Len(y.path) /\ Len(y.path) \in Nat
          /\ Len(q) = w + Len(y.path) - Len(k.value.anchor)
      BY BroughtKeys, FileTypes, PathTypes
    <2> DEFINE ly == Len(y.path)
               la == Len(k.value.anchor)
               lq == Len(q)
    <2>2. la \in Nat /\ ly \in Nat /\ w \in Nat /\ la < ly /\ lq = w + ly - la
      BY <1>1, <2>1
    <2> HIDE DEF ly, la, lq, w
    <2>3. w < lq /\ lq \in Nat
      BY <2>2
    <2> QED
      BY <2>3 DEF lq
  <1> HIDE DEF q, u, w
  <1>4. CASE u < w
    <2>1. w \in 1 .. w
      BY <1>1, <1>4
    <2>2. PICK z \in file \ Merges(file) :
             z.path \in Path /\ Len(z.path) = w /\ \A i \in 1 .. w : z.path[i] = Place(k)[i]
      BY <2>1, PlaceKeys DEF w
    <2>3. Hidden(m, q)
      BY <1>1, <1>2, <1>3, <1>4, <2>2, OwnHides DEF u
    <2> QED
      BY <2>3 DEF q
  <1>5. CASE u = w
    <2>1. \A i \in 1 .. u : Place(m)[i] = Place(k)[i]
      BY <1>2, <1>5
    <2>2. Place(m) = Place(k)
      BY <1>1, <1>5, <2>1, SeqEqual DEF u, w
    <2>3. m \in file /\ k \in file
      BY ReferenceTypes
    <2>4. CASE m \in Merges(file) /\ k \in Merges(file)
      BY <2>2, <2>4 DEF WellFormed, Place
    <2>5. CASE m \notin Merges(file) /\ k \notin Merges(file)
      BY <2>2, <2>3, <2>5 DEF WellFormed, Place
    <2> QED
      BY <2>2, <2>4, <2>5, NotBoth
  <1>6. u <= w
    BY DEF u, w
  <1> QED
    BY <1>1, <1>4, <1>5, <1>6

LEMMA OneBrought ==
    ASSUME WellFormed(file), NEW m \in References(file), NEW x \in file, NEW y \in file,
           IsStrictPrefix(m.value.anchor, x.path), IsStrictPrefix(m.value.anchor, y.path),
           PutAt(m, x.path) = PutAt(m, y.path)
    PROVE  x = y
  <1> DEFINE q == PutAt(m, x.path)
             up == Len(Place(m))
             a == Len(m.value.anchor)
  <1>1. /\ up \in Nat /\ a \in Nat /\ a < Len(x.path) /\ a < Len(y.path)
        /\ Len(q) = up + Len(x.path) - a /\ Len(q) = up + Len(y.path) - a
        /\ \A i \in 1 .. Len(x.path) - a : q[up + i] = x.path[a + i]
        /\ \A i \in 1 .. Len(y.path) - a : q[up + i] = y.path[a + i]
        /\ \A i \in 1 .. a : m.value.anchor[i] = x.path[i]
        /\ \A i \in 1 .. a : m.value.anchor[i] = y.path[i]
    BY BroughtKeys, ZenonT(30)
  <1>2. /\ x.path \in Path /\ y.path \in Path /\ Len(x.path) \in Nat /\ Len(y.path) \in Nat
    BY FileTypes, PathTypes
  <1> HIDE DEF q, up, a
  <1>5. Len(x.path) = Len(y.path)
    BY <1>1, <1>2
  <1>6. ASSUME NEW i \in 1 .. Len(x.path) PROVE x.path[i] = y.path[i]
    <2>1. CASE i <= a
      BY <1>1, <2>1
    <2>2. CASE i > a
      <3>1. PICK j \in Nat : j = i - a
        BY <1>1, <2>2
      <3>2. j \in 1 .. Len(x.path) - a /\ j \in 1 .. Len(y.path) - a /\ a + j = i
        BY <1>1, <1>2, <1>5, <2>2, <3>1
      <3>3. q[up + j] = x.path[a + j] /\ q[up + j] = y.path[a + j]
        BY <1>1, <3>2
      <3> QED
        BY <3>2, <3>3
    <2> QED
      BY <1>1, <2>1, <2>2
  <1>7. x.path = y.path
    BY <1>2, <1>5, <1>6, SamePath
  <1> QED
    BY <1>7 DEF WellFormed

\* Where a line is taken from: a line of the file, or one that a reference brings
\* and nothing hides.
LEMMA TakenFrom ==
    ASSUME NEW l \in Taken
    PROVE  \/ \E x \in file \ Merges(file) : l.path = x.path /\ l.value = x.value
           \/ \E m \in References(file), x \in file :
                 /\ IsStrictPrefix(m.value.anchor, x.path) /\ ~Hidden(m, l.path)
                 /\ l.path = PutAt(m, x.path) /\ l.value = x.value
  <1>1. CASE l \in Own
    BY <1>1, OwnLine
  <1>2. CASE l \notin Own
    <2>1. PICK m \in References(file) : l \in BroughtBy(m) /\ ~Hidden(m, l.path)
      BY <1>2 DEF Taken
    <2> QED
      BY <2>1, BroughtLine
  <1> QED
    BY <1>1, <1>2

\* The decoder finds one value at a path.
LEMMA OneLine ==
    ASSUME WellFormed(file), NEW k \in Taken, NEW l \in Taken, k.path = l.path
    PROVE  k.value = l.value
  <1>1. ASSUME NEW x \in file \ Merges(file), NEW m \in References(file), NEW y \in file,
               IsStrictPrefix(m.value.anchor, y.path), x.path = PutAt(m, y.path)
        PROVE  Hidden(m, x.path)
    <2>1. /\ x.path \in Path /\ Len(Place(m)) \in Nat /\ Len(y.path) \in Nat /\ Len(m.value.anchor) \in Nat
          /\ Len(m.value.anchor) < Len(y.path)
          /\ Len(x.path) = Len(Place(m)) + Len(y.path) - Len(m.value.anchor)
      BY <1>1, BroughtKeys, FileTypes, PathTypes
    <2> DEFINE u == Len(Place(m))
               ly == Len(y.path)
               la == Len(m.value.anchor)
               lx == Len(x.path)
    <2>2. u < lx /\ lx <= lx
      <3>1. u \in Nat /\ ly \in Nat /\ la \in Nat /\ la < ly /\ lx = u + ly - la
        BY <2>1
      <3> HIDE DEF u, ly, la, lx
      <3> QED
        BY <3>1
    <2> QED
      BY <2>1, <2>2, OwnHides
  <1>2. CASE \E x \in file \ Merges(file) : k.path = x.path /\ k.value = x.value
    <2>1. PICK x \in file \ Merges(file) : k.path = x.path /\ k.value = x.value
      BY <1>2
    <2>2. PICK y \in file \ Merges(file) : l.path = y.path /\ l.value = y.value
      BY <1>1, <2>1, TakenFrom
    <2> QED
      BY <2>1, <2>2 DEF WellFormed
  <1>3. CASE \E m \in References(file), x \in file :
                 /\ IsStrictPrefix(m.value.anchor, x.path) /\ ~Hidden(m, k.path)
                 /\ k.path = PutAt(m, x.path) /\ k.value = x.value
    <2>1. PICK m \in References(file), x \in file :
                 /\ IsStrictPrefix(m.value.anchor, x.path) /\ ~Hidden(m, k.path)
                 /\ k.path = PutAt(m, x.path) /\ k.value = x.value
      BY <1>3
    <2>2. PICK n \in References(file), y \in file :
                 /\ IsStrictPrefix(n.value.anchor, y.path) /\ ~Hidden(n, l.path)
                 /\ l.path = PutAt(n, y.path) /\ l.value = y.value
      <3>1. ASSUME NEW z \in file \ Merges(file), l.path = z.path PROVE FALSE
        <4>1. Hidden(m, z.path)
          BY <1>1, <2>1, <3>1
        <4> QED
          BY <2>1, <3>1, <4>1
      <3> QED
        BY <3>1, TakenFrom
    <2>3. Len(Place(m)) <= Len(Place(n)) \/ Len(Place(n)) <= Len(Place(m))
      BY PlaceKeys
    <2>4. m = n
      BY <2>1, <2>2, <2>3, OneReference
    <2>5. x = y
      BY <2>1, <2>2, <2>4, OneBrought
    <2> QED
      BY <2>1, <2>2, <2>5
  <1> QED
    BY <1>2, <1>3, TakenFrom

LEMMA OneTaken ==
    ASSUME WellFormed(file), NEW p, NEW v \in Values(p)
    PROVE  OneOf(Values(p)) = v
  <1>1. OneOf(Values(p)) \in Values(p)
    BY DEF OneOf
  <1>2. PICK k \in Taken : k.path = At(p) /\ Content(k.value) = v
    BY ValueLine
  <1>3. PICK l \in Taken : l.path = At(p) /\ Content(l.value) = OneOf(Values(p))
    BY <1>1, ValueLine
  <1>4. k.value = l.value
    BY <1>2, <1>3, OneLine
  <1> QED
    BY <1>2, <1>3, <1>4

LEMMA SameFile ==
    ASSUME file' = file, env' = env
    PROVE  /\ MissingVariables' = MissingVariables /\ UnknownKeys' = UnknownKeys /\ NullSources' = NullSources
           /\ Misfits' = Misfits /\ FallbacksFired' = FallbacksFired
           /\ Normalized(Decode)' = Normalized(Decode)
           /\ HasKey' <=> HasKey
  <1>1. \A x : HasText(x)' <=> HasText(x)
    BY DEF HasText
  <1>2. \A v : Unresolved(v)' <=> Unresolved(v)
    BY <1>1 DEF Unresolved
  <1>3. \A v : ResolveScalar(v)' = ResolveScalar(v)
    BY <1>1, <1>2 DEF ResolveScalar
  <1>4. \A v : IsNull(v)' <=> IsNull(v)
    BY <1>3 DEF IsNull
  <1>5. MissingVariables' = MissingVariables
    BY <1>2 DEF MissingVariables
  <1>6. FallbacksFired' = FallbacksFired
    BY DEF FallbacksFired, FallbackFired
  <1>7. Merges(file)' = Merges(file) /\ References(file)' = References(file) /\ Own' = Own
    BY DEF Own
  <1>8. \A m : Place(m)' = Place(m)
    BY DEF Place
  <1>9. \A m : BroughtBy(m)' = BroughtBy(m)
    BY <1>8 DEF BroughtBy, PutAt
  <1>10. Lines' = Lines
    BY <1>7, <1>9 DEF Brought, Lines
  <1>11. UnknownKeys' = UnknownKeys /\ NullSources' = NullSources
    BY <1>4, <1>10 DEF UnknownKeys, NullSources
  <1>12. \A m, q : Hidden(m, q)' <=> Hidden(m, q)
    BY <1>8 DEF Hidden
  <1>13. Taken' = Taken
    BY <1>7, <1>9, <1>12 DEF Taken
  <1>14. \A v : Content(v)' = Content(v)
    BY DEF Content
  <1>15. \A p : Values(p)' = Values(p)
    BY <1>13, <1>14 DEF Values
  <1>16. \A type, v : Fits(type, v)' <=> Fits(type, v)
    BY <1>3, <1>4 DEF Fits
  <1>17. Misfits' = Misfits
    BY <1>15, <1>16 DEF Misfits
  <1>18. \A p, v : DecodeField(p, v)' = DecodeField(p, v)
    BY <1>3, <1>4 DEF DecodeField, ItemText
  <1>19. Decode' = Decode
    BY <1>15, <1>18 DEF Decode
  <1>20. HasKey' <=> HasKey
    BY <1>15 DEF HasKey
  <1>21. Normalized(Decode)' = Normalized(Decode)
    BY <1>19, <1>20 DEF Normalized
  <1> QED
    BY <1>5, <1>6, <1>11, <1>17, <1>20, <1>21

(********** What Load leaves **********)

\* Nothing is refused twice: a report tells all there is to refuse, apart from
\* the keys it has no room for, and once it is acted upon only those are left;
\* and what was loaded is what was decoded.
LoadInv ==
    /\ WellFormed(file)
    /\ \A x \in DOMAIN env : env[x] \in Texts
    /\ report.more # {} => Cardinality(report.unknown) = MaxReportedKeys
    /\ stage = "refused" =>
          /\ report.missing = MissingVariables /\ report.nulls = NullSources
          /\ report.unknown \cup report.more = UnknownKeys
          /\ report = NothingFound <=> ~Faulty
    /\ refusals \in Nat
    /\ stage = "read" /\ refusals > 0 =>
          MissingVariables = {} /\ NullSources = {} /\ UnknownKeys \subseteq report.more
    /\ Loaded =>
          /\ ~Faulty /\ Misfits = {}
          /\ settings = Normalized(Decode) /\ fallbacks = FallbacksFired
    /\ stage = "serving" => ValidSettings(settings)

LEMMA LoadInitInv == LoadInit => LoadInv
  <1>1. LoadInit => WellFormed(file) /\ \A x \in DOMAIN env : env[x] \in Texts
    BY ConfigurationAssumption DEF LoadInit
  <1>2. NothingFound.more = {}
    BY DEF NothingFound
  <1> QED
    BY <1>1, <1>2 DEF LoadInit, LoadInv, Loaded

LEMMA Reported ==
    ASSUME NEW named \in Named
    PROVE  LET r == Report(named)
           IN /\ r.missing = MissingVariables /\ r.nulls = NullSources /\ r.unknown \cup r.more = UnknownKeys
              /\ r.more # {} => Cardinality(r.unknown) = MaxReportedKeys
              /\ r = NothingFound <=> ~Faulty
  <1> DEFINE r == Report(named)
  <1>1. /\ r.missing = MissingVariables /\ r.nulls = NullSources /\ r.unknown = named
        /\ r.more = UnknownKeys \ named
    BY DEF Report
  <1>2. named \subseteq UnknownKeys /\ (named = UnknownKeys \/ Cardinality(named) = MaxReportedKeys)
    BY DEF Named
  <1>3. r.unknown \cup r.more = UnknownKeys
    BY <1>1, <1>2
  <1>4. r.more # {} => Cardinality(r.unknown) = MaxReportedKeys
    BY <1>1, <1>2
  <1>5. r = NothingFound => ~Faulty
    <2> SUFFICES ASSUME r = NothingFound PROVE ~Faulty
      OBVIOUS
    <2>1. r.missing = {} /\ r.nulls = {} /\ r.unknown = {} /\ r.more = {}
      BY DEF NothingFound
    <2> QED
      BY <1>1, <1>3, <2>1 DEF Faulty
  <1>6. ~Faulty => r = NothingFound
    BY <1>2 DEF Faulty, Report, NothingFound
  <1> HIDE DEF r
  <1> QED
    BY <1>1, <1>3, <1>4, <1>5, <1>6 DEF r

\* A file stays one when lines are taken out with all below them and all that
\* refers to them.
LEMMA WithoutWellFormed ==
    ASSUME WellFormed(file), NEW lines \in SUBSET Lines
    PROVE  WellFormed(Without(lines))
  <1> DEFINE left == Without(lines)
             Gone(path) == \E g \in lines : IsPrefix(g.from, path)
  <1>1. left \subseteq file
        /\ \A l \in file : l \in left <=> ~Gone(l.path) /\ (l \in References(file) => ~Gone(l.value.anchor))
    BY DEF Without
  <1> HIDE DEF left
  <1>2. ASSUME NEW l \in left, NEW n \in 1 .. Len(l.path) - 1
        PROVE  \E k \in left : k.path = SubSeq(l.path, 1, n) /\ k.value.form = "section"
    <2>1. PICK k \in file : k.path = SubSeq(l.path, 1, n) /\ k.value.form = "section"
      BY <1>1 DEF WellFormed
    <2>2. l.path \in Path /\ Len(l.path) \in Nat /\ l.path \in Seq(Key)
      BY <1>1, FileTypes, PathTypes
    <2>3. n \in 1 .. Len(l.path) /\ n \in Nat
      BY <2>2
    <2>4. /\ k.path \in Path /\ Len(k.path) = n /\ k.path \in Seq(Key)
          /\ \A i \in 1 .. n : k.path[i] = l.path[i]
      BY <2>1, <2>2, <2>3, FirstKeys, PathTypes
    <2>5. ASSUME NEW g \in lines, IsPrefix(g.from, k.path) PROVE FALSE
      <3>1. g.from \in Seq(Key) /\ Len(g.from) \in Nat
        BY LineTypes, FileTypes, PathTypes
      <3>2. Len(g.from) <= n /\ \A i \in 1 .. Len(g.from) : g.from[i] = k.path[i]
        BY <2>4, <2>5, <3>1, PrefixMeans
      <3>3. \A i \in 1 .. Len(g.from) : i \in 1 .. n
        BY <2>3, <3>1, <3>2
      <3>4. Len(g.from) <= Len(l.path) /\ \A i \in 1 .. Len(g.from) : g.from[i] = l.path[i]
        BY <2>2, <2>3, <2>4, <3>1, <3>2, <3>3
      <3>5. IsPrefix(g.from, l.path)
        BY <2>2, <3>1, <3>4, PrefixMeans
      <3> QED
        BY <1>1, <3>5
    <2>6. k \notin References(file)
      BY <2>1 DEF References
    <2> QED
      BY <1>1, <2>1, <2>5, <2>6
  <1>3. left \subseteq [path : Path, value : Value]
    BY <1>1 DEF WellFormed
  <1>4. \A k, l \in left : k.path = l.path => k = l
    BY <1>1 DEF WellFormed
  <1>5. Merges(left) \subseteq Merges(file) /\ References(left) \subseteq References(file) /\ References(left) \subseteq left
    BY <1>1 DEF Merges, References
  <1>6. \A k, m \in Merges(left) : Front(k.path) = Front(m.path) => k = m
    BY <1>5 DEF WellFormed
  <1>7. ASSUME NEW m \in References(left)
        PROVE  /\ \E a \in left : a.path = m.value.anchor /\ (m \in Merges(left) => a.value.form = "section")
               /\ \A k \in References(left) : ~IsPrefix(k.value.anchor, m.path)
    <2>1. m \in References(file) /\ m \in left /\ m \in file
      BY <1>1, <1>5
    <2>2. PICK a \in file : a.path = m.value.anchor /\ (m \in Merges(file) => a.value.form = "section")
      BY <2>1 DEF WellFormed
    <2>3. ~Gone(a.path)
      BY <1>1, <2>1, <2>2
    <2>4. a \notin References(file)
      <3>1. IsPrefix(m.value.anchor, a.path)
        BY <2>1, <2>2, ReferenceTypes, PathTypes, PrefixMeans
      <3> QED
        BY <2>1, <3>1 DEF WellFormed
    <2>5. a \in left
      BY <1>1, <2>3, <2>4
    <2>6. \A k \in References(left) : ~IsPrefix(k.value.anchor, m.path)
      BY <1>5, <2>1 DEF WellFormed
    <2> QED
      BY <1>5, <2>2, <2>5, <2>6
  <1> QED
    BY <1>2, <1>3, <1>4, <1>6, <1>7 DEF WellFormed, left

LEMMA PrefixOfItself ==
    ASSUME NEW q \in Path
    PROVE  IsPrefix(q, q)
    BY PathTypes, PrefixMeans

\* Correct takes lines out and sets variables.
LEMMA CorrectSteps ==
    ASSUME LoadInv, Correct
    PROVE  /\ \E lines \in SUBSET Lines :
                 file' = Without(lines) /\ (Faulty => report.unknown \cup NullSources \subseteq lines)
           /\ \A x : HasText(x) => HasText(x)'
           /\ \A l \in MissingVariables : \A x \in VariablesOf(l) : HasText(x)'
           /\ \A x \in DOMAIN env' : env'[x] \in Texts
  <1> DEFINE asked == UNION {VariablesOf(l) : l \in report.missing}
  <1>1. /\ env' = [x \in DOMAIN env \cup asked |-> IF x \in asked /\ ~HasText(x) THEN Filled ELSE env[x]]
        /\ report = NothingFound <=> ~Faulty
        /\ file' = IF report = NothingFound
                     THEN Without({l \in Lines : \E p \in Misfits : l.path = At(p)})
                     ELSE Without(report.unknown \cup report.nulls)
    BY DEF LoadInv, Correct
  <1>2. /\ report.missing = MissingVariables /\ report.nulls = NullSources
        /\ report.unknown \subseteq UnknownKeys
    BY DEF LoadInv, Correct
  <1>3. Filled \in Texts /\ Filled # ""
    BY ConfigurationAssumption
  <1>4. \A l \in MissingVariables : \A x \in VariablesOf(l) : x \in asked
    BY <1>2
  <1> HIDE DEF asked
  <1>5. DOMAIN env' = DOMAIN env \cup asked
        /\ \A x \in DOMAIN env' : env'[x] = IF x \in asked /\ ~HasText(x) THEN Filled ELSE env[x]
    BY <1>1
  <1>6. \A x : HasText(x) => HasText(x)'
    BY <1>5 DEF HasText
  <1>7. \A x \in asked : HasText(x)'
    BY <1>3, <1>5, <1>6 DEF HasText
  <1>8. ASSUME NEW x \in DOMAIN env' PROVE env'[x] \in Texts
    <2>1. (x \in asked /\ ~HasText(x)) \/ x \in DOMAIN env
      BY <1>5 DEF HasText
    <2>2. \A y \in DOMAIN env : env[y] \in Texts
      BY DEF LoadInv
    <2> QED
      BY <1>3, <1>5, <2>1, <2>2
  <1>9. \E lines \in SUBSET Lines :
           file' = Without(lines) /\ (Faulty => report.unknown \cup NullSources \subseteq lines)
    <2>1. CASE report = NothingFound
      BY <1>1, <2>1
    <2>2. CASE report # NothingFound
      <3>1. report.unknown \cup NullSources \in SUBSET Lines
        BY <1>2 DEF UnknownKeys, NullSources
      <3> QED
        BY <1>1, <1>2, <2>2, <3>1
    <2> QED
      BY <2>1, <2>2
  <1> QED
    BY <1>4, <1>6, <1>7, <1>8, <1>9

\* A line with a value is left where it was, or gone.
LEMMA FewerLines ==
    ASSUME file' \subseteq file
    PROVE  /\ Lines' \subseteq Lines
           /\ \A l \in Lines' : \E x \in file' : x.path = l.from /\ x.value = l.value
  <1>1. /\ References(file') \subseteq References(file) /\ References(file') \subseteq file'
        /\ file' \ Merges(file') \subseteq file \ Merges(file)
        /\ \A x \in file' : x \in Merges(file') <=> x \in Merges(file)
    BY DEF References, Merges
  <1>2. Own' = {[path |-> l.path, value |-> l.value, from |-> l.path] : l \in file' \ Merges(file')}
    BY DEF Own
  <1>3. Own' \subseteq Own
    BY <1>1, <1>2 DEF Own
  <1>4. ASSUME NEW m \in References(file') PROVE BroughtBy(m)' \subseteq BroughtBy(m)
    <2>1. Place(m)' = Place(m)
      BY <1>1 DEF Place
    <2>2. \A q : PutAt(m, q)' = PutAt(m, q)
      BY <2>1 DEF PutAt
    <2>3. BroughtBy(m)' = {[path |-> PutAt(m, l.path), value |-> l.value, from |-> l.path] :
                             l \in {x \in file' : IsStrictPrefix(m.value.anchor, x.path)}}
      BY <2>2 DEF BroughtBy
    <2> QED
      BY <2>3 DEF BroughtBy
  <1>5. Brought' = UNION {BroughtBy(m)' : m \in References(file')}
    BY DEF Brought
  <1>6. Brought' \subseteq Brought
    BY <1>1, <1>4, <1>5 DEF Brought
  <1>7. ASSUME NEW l \in Own' PROVE \E x \in file' : x.path = l.from /\ x.value = l.value
    BY <1>2
  <1>8. ASSUME NEW l \in Brought' PROVE \E x \in file' : x.path = l.from /\ x.value = l.value
    <2>1. PICK m \in References(file') : l \in BroughtBy(m)'
      BY <1>5
    <2>2. PICK x \in {y \in file' : IsStrictPrefix(m.value.anchor, y.path)} :
            l = [path |-> PutAt(m, x.path)', value |-> x.value, from |-> x.path]
      BY <2>1 DEF BroughtBy
    <2> QED
      BY <2>2
  <1> QED
    BY <1>3, <1>6, <1>7, <1>8 DEF Lines

\* After a correction only keys that the refusal did not name are left.
LEMMA CorrectLeavesUnnamed ==
    ASSUME LoadInv, Correct
    PROVE  /\ MissingVariables' = {} /\ NullSources' = {} /\ UnknownKeys' \subseteq report.more
           /\ WellFormed(file') /\ \A x \in DOMAIN env' : env'[x] \in Texts
  <1>1. PICK lines \in SUBSET Lines :
           file' = Without(lines) /\ (Faulty => report.unknown \cup NullSources \subseteq lines)
    BY CorrectSteps
  <1>2. WellFormed(file) /\ report.unknown \cup report.more = UnknownKeys
    BY DEF LoadInv, Correct
  <1>3. WellFormed(file') /\ file' \subseteq file
    BY <1>1, <1>2, WithoutWellFormed DEF Without
  <1>4. Lines' \subseteq Lines /\ \A l \in Lines' : \E x \in file' : x.path = l.from /\ x.value = l.value
    BY <1>3, FewerLines
  <1>5. ASSUME NEW l \in Lines', l \in report.unknown \cup NullSources PROVE FALSE
    <2>1. Faulty
      BY <1>2, <1>5 DEF Faulty
    <2>2. l \in lines
      BY <1>1, <1>5, <2>1
    <2>3. PICK x \in file' : x.path = l.from
      BY <1>4
    <2>4. x.path \in Path
      BY <1>2, <1>3, FileTypes
    <2>5. IsPrefix(l.from, x.path)
      BY <2>3, <2>4, PrefixOfItself
    <2> QED
      BY <1>1, <2>2, <2>5 DEF Without
  <1>6. /\ \A x : HasText(x) => HasText(x)'
        /\ \A l \in MissingVariables : \A x \in VariablesOf(l) : HasText(x)'
    BY CorrectSteps
  <1>7. MissingVariables' = {}
    <2> SUFFICES ASSUME NEW l \in MissingVariables' PROVE FALSE
      OBVIOUS
    <2>1. PICK v \in ScalarsOf(l) : Unresolved(v)' /\ l \in file
      BY <1>3 DEF MissingVariables
    <2>2. Unresolved(v) /\ v.form = "ref" /\ ~HasText(v.var)'
      BY <1>6, <2>1 DEF Unresolved
    <2>3. l \in MissingVariables /\ v.var \in VariablesOf(l)
      BY <2>1, <2>2 DEF MissingVariables, VariablesOf
    <2> QED
      BY <1>6, <2>2, <2>3
  <1>8. UnknownKeys' \subseteq report.more
    <2> SUFFICES ASSUME NEW l \in UnknownKeys' PROVE l \in report.more
      OBVIOUS
    <2>1. l \in Lines' /\ l \in UnknownKeys
      BY <1>4 DEF UnknownKeys
    <2> QED
      BY <1>2, <1>5, <2>1
  <1>9. \A v : IsNull(v)' => IsNull(v)
    <2> SUFFICES ASSUME NEW v, IsNull(v)' PROVE IsNull(v)
      OBVIOUS
    <2>1. Scalar(v) /\ ~ResolveScalar(v)'.str /\ ResolveScalar(v)'.text \in {"", Null}
      BY DEF IsNull
    <2>2. CASE v.form # "ref"
      <3>1. ResolveScalar(v)' = ResolveScalar(v)
        BY <2>2 DEF ResolveScalar, Unresolved
      <3> QED
        BY <2>1, <3>1 DEF IsNull
    <2>3. CASE v.form = "ref"
      <3>1. ~HasText(v.var)'
        <4> SUFFICES ASSUME HasText(v.var)' PROVE FALSE
          OBVIOUS
        <4>1. /\ ResolveScalar(v)'.text = env'[v.var] /\ ResolveScalar(v)'.str = (env'[v.var] = Null)
              /\ env'[v.var] # ""
          BY <2>3 DEF ResolveScalar, HasText, Unresolved
        <4> QED
          BY <2>1, <4>1
      <3>2. ~HasText(v.var)
        BY <1>6, <3>1
      <3>3. ResolveScalar(v)' = ResolveScalar(v)
        BY <2>3, <3>1, <3>2 DEF ResolveScalar, Unresolved
      <3> QED
        BY <2>1, <3>3 DEF IsNull
    <2> QED
      BY <2>2, <2>3
  <1>10. NullSources' = {}
    <2> SUFFICES ASSUME NEW l \in NullSources' PROVE FALSE
      OBVIOUS
    <2>1. l \in Lines' /\ l \in NullSources
      BY <1>4, <1>9 DEF NullSources
    <2> QED
      BY <1>5, <2>1
  <1> QED
    BY <1>3, <1>7, <1>8, <1>10, CorrectSteps

LEMMA LoadNextInv == LoadInv /\ [LoadNext]_loadVars => LoadInv'
  <1> SUFFICES ASSUME LoadInv, [LoadNext]_loadVars PROVE LoadInv'
    OBVIOUS
  <1>1. CASE UNCHANGED loadVars
    <2>1. Faulty' <=> Faulty
      BY <1>1, SameFile DEF loadVars, Faulty
    <2> QED
      BY <1>1, <2>1, SameFile DEF loadVars, LoadInv, Loaded, ValidSettings, NothingFound
  <1>2. CASE Load
    <2>1. file' = file /\ env' = env /\ stage = "read"
      BY <1>2 DEF Load
    <2>2. Faulty' <=> Faulty
      BY <2>1, SameFile DEF Faulty
    <2>3. CASE Faulty
      <3>1. PICK named \in Named : report' = Report(named)
        BY <1>2, <2>3 DEF Load
      <3>2. stage' = "refused" /\ refusals' = refusals + 1 /\ refusals \in Nat
        BY <1>2, <2>3 DEF Load, LoadInv
      <3>3. /\ report'.missing = MissingVariables /\ report'.nulls = NullSources
            /\ report'.unknown \cup report'.more = UnknownKeys
            /\ report'.more # {} => Cardinality(report'.unknown) = MaxReportedKeys
            /\ report' = NothingFound <=> ~Faulty
        BY <3>1, Reported
      <3> QED
        BY <2>1, <2>2, <3>2, <3>3, SameFile DEF LoadInv, Loaded, NothingFound
    <2>4. CASE ~Faulty /\ Misfits # {}
      <3>1. stage' = "refused" /\ report' = NothingFound /\ refusals' = refusals
        BY <1>2, <2>4 DEF Load
      <3>2. /\ report'.missing = {} /\ report'.nulls = {} /\ report'.unknown = {} /\ report'.more = {}
        BY <3>1 DEF NothingFound
      <3> QED
        BY <2>1, <2>2, <2>4, <3>1, <3>2, SameFile DEF LoadInv, Loaded, NothingFound, Faulty
    <2>5. CASE ~Faulty /\ Misfits = {}
      <3>1. /\ stage' = "loaded" /\ settings' = Normalized(Decode) /\ fallbacks' = FallbacksFired
            /\ refusals' = refusals /\ report' = report
        BY <1>2, <2>5 DEF Load
      <3> QED
        BY <2>1, <2>2, <2>5, <3>1, SameFile DEF LoadInv, Loaded
    <2> QED
      BY <2>3, <2>4, <2>5
  <1>3. CASE CheckSettings
    <2>1. /\ file' = file /\ env' = env /\ settings' = settings /\ fallbacks' = fallbacks /\ refusals' = refusals
          /\ report' = report
          /\ stage = "loaded" /\ stage' = IF Credential /\ ValidSettings(settings) THEN "serving" ELSE "unfit"
      BY <1>3 DEF CheckSettings
    <2>2. ValidSettings(settings)' <=> ValidSettings(settings)
      BY <2>1, SameFile DEF ValidSettings
    <2>3. Faulty' <=> Faulty
      BY <2>1, SameFile DEF Faulty
    <2> QED
      BY <2>1, <2>2, <2>3, SameFile DEF LoadInv, Loaded
  <1>4. CASE Correct
    <2>1. stage' = "read" /\ refusals' = refusals /\ report' = report
      BY <1>4 DEF Correct
    <2> QED
      BY <1>4, <2>1, CorrectLeavesUnnamed DEF LoadInv, Loaded
  <1> QED
    BY <1>1, <1>2, <1>3, <1>4 DEF LoadNext

LEMMA LoadInvHolds == LoadSpec => []LoadInv
  <1> QED
    BY LoadInitInv, LoadNextInv, PTL DEF LoadSpec

(********** The properties **********)

\* What a reference brings into the file that loads.
LEMMA ReferenceRead ==
    ASSUME LoadInv, Loaded, NEW p \in DOMAIN BuiltIn, NEW v \in Values(p), v.form = "ref"
    PROVE  IF HasText(v.var) THEN settings[p] = env[v.var]
           ELSE /\ v.default # NoDefault
                /\ v.default \notin {"", Null} => settings[p] = v.default
  <1>1. /\ WellFormed(file) /\ MissingVariables = {} /\ Misfits = {} /\ settings = Normalized(Decode)
    BY DEF LoadInv, Faulty
  <1>2. PICK x \in file : x.value = v
    BY <1>1, ValueFromFile
  <1>3. ~Unresolved(v)
    <2>1. v \in ScalarsOf(x)
      BY <1>2 DEF ScalarsOf, Scalar
    <2> QED
      BY <1>1, <2>1 DEF MissingVariables
  <1>4. CASE ~HasText(v.var) /\ v.default \in {"", Null, NoDefault}
    BY <1>3, <1>4 DEF Unresolved
  <1>5. CASE HasText(v.var) \/ v.default \notin {"", Null, NoDefault}
    <2> DEFINE t == ResolveScalar(v).text
    <2>1. /\ t = IF HasText(v.var) THEN env[v.var] ELSE v.default
          /\ t # "" /\ ~IsNull(v)
      <3>1. CASE HasText(v.var)
        <4>1. ResolveScalar(v) = [text |-> env[v.var], str |-> env[v.var] = Null]
          BY <3>1 DEF ResolveScalar, Unresolved
        <4>2. t = env[v.var]
          BY <4>1
        <4>4. ASSUME env[v.var] = Null PROVE ResolveScalar(v).str
          <5>1. ResolveScalar(v) = [text |-> env[v.var], str |-> TRUE]
            BY <3>1, <4>4 DEF ResolveScalar, Unresolved
          <5> QED
            BY <5>1
        <4>3. env[v.var] # ""
          BY <3>1 DEF HasText
        <4> HIDE DEF t
        <4> QED
          BY <3>1, <4>2, <4>3, <4>4 DEF IsNull, t
      <3>2. CASE ~HasText(v.var)
        <4>1. ResolveScalar(v) = [text |-> v.default, str |-> FALSE]
          BY <1>3, <3>2 DEF ResolveScalar
        <4>2. t = v.default
          BY <4>1
        <4>3. v.default \notin {"", Null}
          BY <1>5, <3>2
        <4> HIDE DEF t
        <4> QED
          BY <3>2, <4>2, <4>3 DEF IsNull, t
      <3> QED
        BY <3>1, <3>2
    <2> HIDE DEF t
    <2>2. Decode[p] = t
      <3>1. OneOf(Values(p)) = v
        BY <1>1, OneTaken
      <3>2. Decode[p] = DecodeField(p, v)
        BY <3>1 DEF Decode
      <3>3. Scalar(v)
        BY DEF Scalar
      <3> QED
        BY <2>1, <3>2, <3>3 DEF DecodeField, t
    <2>3. p # Sources
      <3>1. Settings[Sources] = "list" /\ DOMAIN BuiltIn \subseteq DOMAIN Settings
        BY ConfigurationAssumption
      <3>2. Fits(Settings[p], v)
        BY <1>1, <3>1 DEF Misfits
      <3>3. ~Fits("list", v)
        BY <2>1 DEF Fits
      <3> QED
        BY <3>1, <3>2, <3>3
    <2>4. DOMAIN Decode = DOMAIN BuiltIn
      BY DEF Decode
    <2>5. settings[p] = Decode[p]
      <3> DEFINE c == Decode
      <3>1. c[p] # "" /\ p \in DOMAIN c
        BY <2>1, <2>2, <2>4
      <3> HIDE DEF c
      <3>2. Normalized(c)[p] = c[p]
        BY <2>3, <3>1 DEF Normalized
      <3> QED
        BY <1>1, <3>2 DEF c
    <2> QED
      BY <1>3, <2>1, <2>2, <2>5 DEF Unresolved
  <1> QED
    BY <1>4, <1>5

\* A list that decodes is a list of texts.
LEMMA ItemsAreTexts ==
    ASSUME LoadInv, MissingVariables = {}, NEW x \in file, x.value.form = "list"
    PROVE  [i \in DOMAIN x.value.items |-> ItemText(x.value.items[i])] \in Seq(Texts)
  <1> DEFINE items == x.value.items
  <1>1. items \in Seq(ScalarValue)
    <2>1. x.value \in Value
      BY FileTypes DEF LoadInv
    <2>2. x.value \in [form : {"list"}, items : Seq(ScalarValue)]
      BY <2>1 DEF Value, ScalarValue
    <2> QED
      BY <2>2
  <1>2. ASSUME NEW i \in DOMAIN items PROVE ItemText(items[i]) \in Texts
    <2> DEFINE v == items[i]
    <2>1. v \in ScalarValue /\ v \in ToSet(items)
      BY <1>1 DEF ToSet
    <2>2. ~Unresolved(v)
      <3>1. ScalarsOf(x) = ToSet(items)
        BY DEF ScalarsOf, Scalar
      <3> QED
        BY <2>1, <3>1 DEF MissingVariables
    <2> HIDE DEF v
    <2>3. "" \in Texts
      BY ConfigurationAssumption
    <2>4. ResolveScalar(v).text \in Texts
      <3>1. CASE v \in [form : {"plain", "quoted"}, text : Texts]
        <4>1. ResolveScalar(v) = [text |-> v.text, str |-> v.form = "quoted"]
          BY <3>1 DEF ResolveScalar, Unresolved
        <4>2. ResolveScalar(v).text = v.text /\ v.text \in Texts
          BY <3>1, <4>1
        <4> QED
          BY <4>2
      <3>2. CASE v \in [form : {"ref"}, var : STRING, default : Texts \cup {NoDefault}] /\ HasText(v.var)
        <4>1. ResolveScalar(v) = [text |-> env[v.var], str |-> env[v.var] = Null]
          BY <3>2 DEF ResolveScalar, Unresolved
        <4>2. ResolveScalar(v).text = env[v.var]
          BY <4>1
        <4> QED
          BY <3>2, <4>2 DEF LoadInv, HasText
      <3>3. CASE v \in [form : {"ref"}, var : STRING, default : Texts \cup {NoDefault}] /\ ~HasText(v.var)
        <4>1. ResolveScalar(v) = [text |-> v.default, str |-> FALSE]
          BY <2>2, <3>3 DEF ResolveScalar
        <4>2. ResolveScalar(v).text = v.default /\ v.default # NoDefault /\ v.default \in Texts \cup {NoDefault}
          BY <2>2, <3>3, <4>1 DEF Unresolved
        <4> QED
          BY <4>2
      <3> QED
        BY <2>1, <3>1, <3>2, <3>3 DEF ScalarValue
    <2> QED
      BY <2>3, <2>4 DEF ItemText, v
  <1> HIDE DEF items
  <1>3. DOMAIN items = 1 .. Len(items) /\ Len(items) \in Nat
    BY <1>1
  <1>4. [i \in 1 .. Len(items) |-> ItemText(items[i])] \in Seq(Texts)
    BY <1>2, <1>3
  <1> QED
    BY <1>3, <1>4 DEF items

\* A key written with sources keeps a list of them.
LEMMA SourcesKept ==
    ASSUME LoadInv, Loaded, NEW v \in Values(Sources), ~AliasedNullSources
    PROVE  settings[Sources] # NoList
  <1>1. /\ WellFormed(file) /\ MissingVariables = {} /\ NullSources = {} /\ Misfits = {}
        /\ settings = Normalized(Decode)
    BY DEF LoadInv, Faulty
  <1>2. /\ Sources \in DOMAIN BuiltIn /\ Sources \in DOMAIN Settings /\ Settings[Sources] = "list"
        /\ Sources \in Seq(STRING) /\ ApiKeys \in DOMAIN Settings /\ ApiKeys \in Seq(STRING)
        /\ Settings[ApiKeys] = "section" /\ ApiKeys[1] \notin AnchorWords
    BY ConfigurationAssumption
  <1>3. PICK l \in Taken : l.path = At(Sources) /\ Content(l.value) = v
    BY ValueLine
  <1>4. PICK x \in file : x.value = v
    BY <1>1, ValueFromFile
  <1>5. ~IsNull(v)
    <2>1. SubSeq(At(Sources), 1, 1) = At(ApiKeys) /\ Len(At(Sources)) = 2
      BY DEF At, Sources, ApiKeys
    <2>2. Descend(At(ApiKeys))
      <3>1. At(ApiKeys)[1][1] = ApiKeys[1]
        BY DEF At, ApiKeys
      <3>2. Plain(At(ApiKeys)) /\ Joined(At(ApiKeys)) = ApiKeys
        BY <1>2, AtPlain
      <3> QED
        BY <1>2, <3>1, <3>2 DEF Descend, UnderX, KnownPath
    <2>3. Visited(l)
      <3>1. \A n \in 1 .. 2 - 1 : n = 1
        OBVIOUS
      <3>2. \A n \in 1 .. Len(l.path) - 1 : Descend(SubSeq(l.path, 1, n))
        BY <1>3, <2>1, <2>2, <3>1
      <3> QED
        BY <3>2 DEF Visited
    <2>4. Plain(l.path) /\ Joined(l.path) = Sources
      BY <1>2, <1>3, AtPlain
    <2>5. ~IsNull(l.value)
      BY <1>1, <2>3, <2>4, TakenIsLine DEF NullSources
    <2>6. CASE l.value.form # "alias"
      BY <1>3, <2>5, <2>6, ContentOfOther
    <2>7. CASE l.value.form = "alias" /\ l \in Own
      BY <1>3, <2>7 DEF AliasedNullSources
    <2>8. CASE l.value.form = "alias" /\ l \notin Own
      <3>1. PICK m \in References(file) : l \in BroughtBy(m)
        BY <2>8 DEF Taken
      <3>2. PICK y \in file : IsStrictPrefix(m.value.anchor, y.path) /\ l.value = y.value
        BY <3>1, BroughtLine
      <3>3. y \notin References(file)
        BY <1>1, <3>1, <3>2, NoneBelowAnchors
      <3> QED
        BY <2>8, <3>2, <3>3 DEF References
    <2> QED
      BY <2>6, <2>7, <2>8
  <1>6. v.form = "list"
    <2>1. Fits("list", v)
      BY <1>1, <1>2 DEF Misfits
    <2> QED
      BY <1>5, <2>1 DEF Fits
  <1> DEFINE list == [i \in DOMAIN v.items |-> ItemText(v.items[i])]
  <1>7. Decode[Sources] = list /\ DOMAIN Decode = DOMAIN BuiltIn
    <2>1. OneOf(Values(Sources)) = v
      BY <1>1, OneTaken
    <2>2. Decode[Sources] = DecodeField(Sources, v)
      BY <1>2, <2>1 DEF Decode
    <2>3. ~Scalar(v)
      BY <1>6 DEF Scalar
    <2>4. DOMAIN Decode = DOMAIN BuiltIn
      BY DEF Decode
    <2> QED
      BY <1>5, <2>2, <2>3, <2>4 DEF DecodeField
  <1>8. list \in Seq(Texts)
    BY <1>1, <1>4, <1>6, ItemsAreTexts
  <1> HIDE DEF list
  <1>9. NoList \notin Seq(Texts) /\ "" \in Texts
    BY ConfigurationAssumption
  <1>10. settings[Sources] = [i \in DOMAIN list |-> TrimText(list[i])]
    <2> DEFINE c == Decode
    <2>1. c[Sources] = list /\ c[Sources] # NoList /\ Sources \in DOMAIN c
      BY <1>2, <1>7, <1>8, <1>9
    <2>2. /\ Sources # <<"api_keys", "scope">> /\ Sources # <<"database", "driver">>
      BY DEF Sources
    <2> HIDE DEF c
    <2>3. Normalized(c)[Sources] = [i \in DOMAIN list |-> TrimText(list[i])]
      BY <2>1, <2>2 DEF Normalized
    <2> QED
      BY <1>1, <2>3 DEF c
  <1>11. [i \in DOMAIN list |-> TrimText(list[i])] \in Seq(Texts)
    <2>1. DOMAIN list = 1 .. Len(list) /\ Len(list) \in Nat
      BY <1>8
    <2>2. \A i \in 1 .. Len(list) : TrimText(list[i]) \in Texts
      <3>1. \A i \in 1 .. Len(list) : list[i] \in Texts
        BY <1>8, <2>1
      <3>2. \A t \in Texts : TrimText(t) \in Texts
        BY <1>9 DEF TrimText
      <3> QED
        BY <3>1, <3>2
    <2>3. [i \in 1 .. Len(list) |-> TrimText(list[i])] \in Seq(Texts)
      BY <2>1, <2>2
    <2> QED
      BY <2>1, <2>3
  <1> QED
    BY <1>9, <1>10, <1>11

\* A key whose sources are an alias of a null has none.
LEMMA AliasServesAll ==
    ASSUME LoadInv, Loaded, AliasedNullSources
    PROVE  settings[Sources] = NoList
  <1>1. WellFormed(file) /\ settings = Normalized(Decode)
    BY DEF LoadInv
  <1>2. Sources \in DOMAIN BuiltIn /\ BuiltIn[Sources] = NoList
    BY ConfigurationAssumption
  <1>3. PICK l \in Own : l.path = At(Sources) /\ IsNull(Content(l.value))
    BY DEF AliasedNullSources
  <1>4. Content(l.value) \in Values(Sources)
    BY <1>3 DEF Values, Taken
  <1>5. Values(Sources) # {} /\ OneOf(Values(Sources)) = Content(l.value)
    BY <1>1, <1>4, OneTaken
  <1>6. Decode[Sources] = NoList /\ DOMAIN Decode = DOMAIN BuiltIn
    BY <1>2, <1>3, <1>5 DEF Decode, DecodeField
  <1> DEFINE c == Decode
  <1>7. c[Sources] = NoList /\ Sources \in DOMAIN c
    BY <1>2, <1>6
  <1>8. Sources # <<"api_keys", "scope">> /\ Sources # <<"database", "driver">>
    BY DEF Sources
  <1> HIDE DEF c
  <1>9. Normalized(c)[Sources] = NoList
    BY <1>7, <1>8 DEF Normalized
  <1> QED
    BY <1>1, <1>9 DEF c

\* A setting never quietly runs on less than what was written, whatever the
\* file, its merges and aliases and the environment, and however often the start
\* is tried; the sources of a key are lost in one case only, as an alias of a null.
THEOREM SettingsAlwaysHold == LoadSpec => []SettingsHold
  <1>1. LoadInv => SettingsHold
    <2> SUFFICES ASSUME LoadInv PROVE SettingsHold
      OBVIOUS
    <2>1. ASSUME stage = "serving", HasKey, Values(Sources) # {}
          PROVE  /\ settings[Sources] = NoList <=> AliasedNullSources
                 /\ ~AliasedNullSources => settings[Sources] # <<>> /\ "" \notin ToSet(settings[Sources])
      <3>1. ValidKey(settings)
        BY <2>1 DEF LoadInv, ValidSettings
      <3>2. ~AliasedNullSources => settings[Sources] # NoList
        BY <2>1, SourcesKept DEF Loaded
      <3>3. AliasedNullSources => settings[Sources] = NoList
        BY <2>1, AliasServesAll DEF Loaded
      <3> QED
        BY <3>1, <3>2, <3>3 DEF ValidKey
    <2> QED
      BY <2>1, ReferenceRead DEF SettingsHold
  <1> QED
    BY <1>1, LoadInvHolds, PTL

LEMMA LoadedAccounted ==
    ASSUME LoadInv, Loaded
    PROVE  AllAccounted
  <1>1. /\ WellFormed(file) /\ MissingVariables = {} /\ UnknownKeys = {} /\ Misfits = {}
        /\ fallbacks = FallbacksFired
    BY DEF LoadInv, Faulty
  <1>2. ASSUME NEW p \in DOMAIN BuiltIn, NEW v \in Values(p), v.form = "ref", v.var \in DOMAIN env,
               settings[p] # env[v.var], v.default # ""
        PROVE  \E l \in fallbacks : l.value = v
    <2>1. ~HasText(v.var) /\ v.default # NoDefault
      BY <1>2, ReferenceRead
    <2>2. FallbackFired(v)
      BY <1>2, <2>1 DEF FallbackFired, HasText
    <2>3. PICK x \in file : x.value = v
      BY <1>1, ValueFromFile
    <2>4. v \in ScalarsOf(x)
      BY <1>2, <2>3 DEF ScalarsOf, Scalar
    <2>5. x \in FallbacksFired
      BY <2>2, <2>4 DEF FallbacksFired
    <2> QED
      BY <1>1, <2>3, <2>5
  <1> QED
    BY <1>1, <1>2, OwnAccounted, BroughtAccounted DEF AllAccounted

\* A refusal after a correction is about keys the last one had no room for.
LEMMA RefusedAgain ==
    ASSUME LoadInv, [LoadNext]_loadVars, refusals' > refusals, refusals > 0
    PROVE  /\ report'.missing = {} /\ report'.nulls = {}
           /\ report'.unknown \cup report'.more \subseteq report.more
  <1>1. refusals' # refusals
    BY DEF LoadInv
  <1>2. Load /\ Faulty
    BY <1>1 DEF LoadNext, Load, CheckSettings, Correct, loadVars
  <1>3. PICK named \in Named : report' = Report(named)
    BY <1>2 DEF Load
  <1>4. MissingVariables = {} /\ NullSources = {} /\ UnknownKeys \subseteq report.more
    BY <1>2 DEF Load, LoadInv
  <1> QED
    BY <1>3, <1>4, Reported

\* Nothing an operator should know goes unmentioned, whatever the file, the
\* environment and the room of a report: every line, merge and alias of a file
\* that loads is accounted for, every fallback that took the place of an empty
\* variable is warned of, and a start is refused again only over unknown keys
\* that did not fit into a full list.
THEOREM NothingGoesUnmentioned == LoadSpec => NothingUnmentioned
  <1>1. LoadInv => (Loaded => AllAccounted)
    BY LoadedAccounted
  <1>2. LoadInv => (report.more # {} => Cardinality(report.unknown) = MaxReportedKeys)
    BY DEF LoadInv
  <1>3. LoadInv /\ [LoadNext]_loadVars =>
          [refusals' > refusals /\ refusals > 0 =>
             /\ report'.missing = {} /\ report'.nulls = {}
             /\ report'.unknown \cup report'.more \subseteq report.more]_loadVars
    BY RefusedAgain
  <1> QED
    BY <1>1, <1>2, <1>3, LoadInvHolds, PTL DEF LoadSpec, NothingUnmentioned
=============================================================================
