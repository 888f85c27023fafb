---------------------------- MODULE StoreSession ----------------------------
(***************************************************************************)
(* The database session of the scheduler process (db/init.go,              *)
(* db/aws_keyspaces.go, db/migrate.go) and the goroutines that use it.     *)
(*                                                                         *)
(* gSession is guarded by the sync.RWMutex gSessionMutex: every query     *)
(* runs under RLock, and the writers (the schema migration, db.Shutdown    *)
(* and, for AWS Keyspaces, the session refresher every 3 h) take Lock.     *)
(* The refresher closes the old session and creates the new one under one *)
(* Lock; a failed CreateSession leaves gSession holding a nil              *)
(* *gocql.Session, and a query on it dereferences nil and panics.  A panic *)
(* aborts the process, except in a REST handler, whose panic net/http      *)
(* recovers; RUnlock then runs only if the db function deferred it.        *)
(*                                                                         *)
(* sync.RWMutex is modelled as Go implements it: a writer first takes the  *)
(* writer slot, which blocks every later RLock, then waits for the readers *)
(* in flight to leave; Unlock admits the readers that blocked meanwhile.   *)
(***************************************************************************)
EXTENDS Naturals

CONSTANTS
    Callers,       \* goroutines that query the store once the service runs
    Recovering,    \* those that are REST handlers (net/http recovers panics)
    MaxFailures    \* bound on AWS, Cassandra and start-up failures

ASSUME Recovering \subseteq Callers

Main == "main"
Refresher == "refresher"
None == "none"
Readers == Callers \cup {Main}

VARIABLES
    provider,      \* dbConfig.DatabaseType
    migrateOn,     \* dbConfig.SchemaMigrationEnabled
    session,       \* gSession: "open", "closed" or "nil" (no *gocql.Session)
    mpc,           \* main: where it is in main(), db.Init and db.Shutdown
    rpc,           \* awsKeyspacesSessionRefresher's goroutine
    writer,        \* the goroutine holding gSessionMutex's writer slot
    rd,            \* each reader: "idle", "rwait" (blocked in RLock), "hold"
    dfr,           \* the call's RUnlock runs even if it panics
    leaked,        \* a read lock is held by no goroutine
    failures

vars == <<provider, migrateOn, session, mpc, rpc, writer, rd, dfr, leaked,
          failures>>

Fail == failures < MaxFailures /\ failures' = failures + 1

\* The process has neither exited nor crashed.
Alive == mpc \notin {"exited", "crashed"}

\* The goroutines started by scheduler.Init, queuemgr.Init and rest.Init
\* run until the process ends.
ServicesUp == mpc \in {"serving", "shutdown", "closing", "stop"}

-----------------------------------------------------------------------------
(* sync.RWMutex                                                            *)

\* RLock: blocks while a writer holds or waits for the lock.
RLock(g) == rd' = [rd EXCEPT ![g] = IF writer = None THEN "hold" ELSE "rwait"]

\* Lock, first half: take the writer slot; later readers now block.
LockW(g) == writer = None /\ writer' = g

\* Lock, second half: no reader is left inside, leaked ones included.
Drained == (\A r \in Readers : rd[r] # "hold") /\ ~leaked

\* Mutant: Unlock leaves the blocked readers blocked.
AdmitNone(r) == r
\* Unlock wakes every reader that blocked while the writer was in.
Admit(r) == [g \in Readers |-> IF r[g] = "rwait" THEN "hold" ELSE r[g]]

UnlockW == writer' = None /\ rd' = Admit(rd)

\* What the refresher and connectAwsKeyspacesInstance leave in gSession
\* after gocqlx.WrapSession(clusterCfg.CreateSession()).
NewSession(ok) == IF ok THEN "open" ELSE "nil"

Init ==
    /\ provider \in {"cassandra", "aws_keyspaces"} /\ migrateOn \in BOOLEAN
    /\ session = "nil" /\ mpc = "connect" /\ rpc = "off" /\ writer = None
    /\ rd = [g \in Readers |-> "idle"] /\ dfr = [g \in Readers |-> FALSE]
    /\ leaked = FALSE /\ failures = 0

-----------------------------------------------------------------------------
(* main() and db.Init                                                      *)

\* connectCassandraInstance: a failed CreateSession fails db.Init, and
\* main exits.
ConnectCassandra ==
    /\ mpc = "connect" /\ provider = "cassandra"
    /\ \/ session' = "open" /\ mpc' = "migrate" /\ UNCHANGED failures
       \/ Fail /\ mpc' = "exited" /\ UNCHANGED session
    /\ UNCHANGED <<provider, migrateOn, rpc, writer, rd, dfr, leaked>>

\* connectAwsKeyspacesInstance: without a token file db.Init fails;
\* otherwise the first refresh runs (its error is only logged) and the
\* refresher goroutine starts.
ConnectAwsKeyspaces ==
    /\ mpc = "connect" /\ provider = "aws_keyspaces"
    /\ \/ mpc' = "exited" /\ UNCHANGED <<session, rpc, failures>>
       \/ /\ mpc' = "migrate" /\ rpc' = "select"
          /\ \/ Fail /\ UNCHANGED session
             \/ \E ok \in BOOLEAN :
                  /\ session' = NewSession(ok)
                  /\ IF ok THEN UNCHANGED failures ELSE Fail
    /\ UNCHANGED <<provider, migrateOn, writer, rd, dfr, leaked>>

\* migrateDatabaseSchema: skipped when disabled, else under Lock.
MigrateLock ==
    /\ mpc = "migrate"
    /\ \/ ~migrateOn /\ mpc' = "lookup" /\ UNCHANGED writer
       \/ migrateOn /\ LockW(Main) /\ mpc' = "migrating"
    /\ UNCHANGED <<provider, migrateOn, session, rpc, rd, dfr, leaked, failures>>

\* migrate.FromFS on gSession: a nil session panics, an error fails
\* db.Init; Unlock follows.
MigrateSchema ==
    /\ mpc = "migrating" /\ Drained
    /\ \/ session = "nil" /\ mpc' = "crashed" /\ UNCHANGED failures
       \/ session # "nil" /\ mpc' = "lookup" /\ UNCHANGED failures
       \/ session # "nil" /\ Fail /\ mpc' = "exited"
    /\ UnlockW
    /\ UNCHANGED <<provider, migrateOn, session, rpc, dfr, leaked>>

\* initServiceDispatchLookupTable reads the registered services.
LookupRLock ==
    /\ mpc = "lookup" /\ rd[Main] = "idle"
    /\ RLock(Main) /\ mpc' = "looking"
    /\ UNCHANGED <<provider, migrateOn, session, rpc, writer, dfr, leaked,
                   failures>>

LookupQuery ==
    /\ mpc = "looking" /\ rd[Main] = "hold"
    /\ \/ session = "nil" /\ mpc' = "crashed" /\ UNCHANGED <<rd, failures>>
       \/ /\ session # "nil" /\ rd' = [rd EXCEPT ![Main] = "idle"]
          /\ \/ mpc' = "start" /\ UNCHANGED failures
             \/ Fail /\ mpc' = "exited"
    /\ UNCHANGED <<provider, migrateOn, session, rpc, writer, dfr, leaked>>

\* scheduler.Init then queuemgr.Init; a failure shuts the database down.
StartServices ==
    /\ mpc = "start"
    /\ \/ mpc' = "serving" /\ UNCHANGED failures
       \/ Fail /\ mpc' = "shutdown"
    /\ UNCHANGED <<provider, migrateOn, session, rpc, writer, rd, dfr, leaked>>

\* rest.Init returns on SIGINT, SIGTERM or a ListenAndServe error.
Terminate ==
    /\ mpc = "serving" /\ mpc' = "shutdown"
    /\ UNCHANGED <<provider, migrateOn, session, rpc, writer, rd, dfr, leaked,
                   failures>>

-----------------------------------------------------------------------------
(* db.Shutdown                                                             *)

ShutdownLock ==
    /\ mpc = "shutdown" /\ LockW(Main) /\ mpc' = "closing"
    /\ UNCHANGED <<provider, migrateOn, session, rpc, rd, dfr, leaked, failures>>

\* Mutant: the stop is sent whatever the provider.
ShutdownStopsAlways(p) == TRUE
\* Only AWS Keyspaces has a refresher to stop.
ShutdownStops(p) == p = "aws_keyspaces"

\* gSession.Close() (on a nil session it panics), Unlock, then the send
\* on the unbuffered refreshSessionStopChannel.
ShutdownClose ==
    /\ mpc = "closing" /\ Drained
    /\ \/ session = "nil" /\ mpc' = "crashed" /\ UNCHANGED session
       \/ /\ session # "nil" /\ session' = "closed"
          /\ mpc' = IF ShutdownStops(provider) THEN "stop" ELSE "exited"
    /\ UnlockW
    /\ UNCHANGED <<provider, migrateOn, rpc, dfr, leaked, failures>>

\* The send completes when the refresher is in its select.
StopRefresher ==
    /\ mpc = "stop" /\ rpc = "select"
    /\ mpc' = "exited" /\ rpc' = "exited"
    /\ UNCHANGED <<provider, migrateOn, session, writer, rd, dfr, leaked,
                   failures>>

-----------------------------------------------------------------------------
(* awsKeyspacesSessionRefresher and refreshAwsKeyspacesSession             *)

Tick ==
    /\ rpc = "select" /\ rpc' = "creds"
    /\ UNCHANGED <<provider, migrateOn, session, mpc, writer, rd, dfr, leaked,
                   failures>>

\* LoadDefaultConfig and the web-identity credentials, 5 s each at most;
\* an error returns before the lock.
Credentials ==
    /\ rpc = "creds"
    /\ \/ Fail /\ rpc' = "select"
       \/ rpc' = "lock" /\ UNCHANGED failures
    /\ UNCHANGED <<provider, migrateOn, session, mpc, writer, rd, dfr, leaked>>

RefreshLock ==
    /\ rpc = "lock" /\ LockW(Refresher) /\ rpc' = "locked"
    /\ UNCHANGED <<provider, migrateOn, session, mpc, rd, dfr, leaked, failures>>

\* Mutant: the Unlock is called after the error return, not deferred.
RefreshUnlockOnSuccess(ok) == IF ok THEN UnlockW ELSE UNCHANGED <<writer, rd>>
\* The deferred Unlock runs on the error return too.
RefreshUnlock(ok) == UnlockW

\* Close the old session, create the new one; the deferred Unlock.
RefreshSession ==
    /\ rpc = "locked" /\ Drained
    /\ \E ok \in BOOLEAN :
          /\ session' = NewSession(ok)
          /\ IF ok THEN UNCHANGED failures ELSE Fail
          /\ RefreshUnlock(ok)
    /\ rpc' = "select"
    /\ UNCHANGED <<provider, migrateOn, mpc, dfr, leaked>>

-----------------------------------------------------------------------------
(* The goroutines that query the store: the daemon, the queue watchers,    *)
(* the MQTT handlers and the REST handlers.                                *)

\* A db function takes the read lock.  Most call RUnlock after the query;
\* GetScheduledRuns and GetTasksForConsignment register a deferred RUnlock,
\* but only after Query(gSession) has built the query, so a panic there
\* skips it too.  Whether the RUnlock of a call runs when it panics is
\* therefore a free choice, dfr.
BeginCall(c) ==
    /\ ServicesUp /\ rd[c] = "idle"
    /\ RLock(c) /\ \E d \in BOOLEAN : dfr' = [dfr EXCEPT ![c] = d]
    /\ UNCHANGED <<provider, migrateOn, session, mpc, rpc, writer, leaked,
                   failures>>

\* The query on a session returns rows or an error (gocql's
\* ErrSessionClosed once db.Shutdown closed it), then RUnlock.
Query(c) ==
    /\ rd[c] = "hold" /\ session \in {"open", "closed"}
    /\ rd' = [rd EXCEPT ![c] = "idle"]
    /\ UNCHANGED <<provider, migrateOn, session, mpc, rpc, writer, dfr, leaked,
                   failures>>

\* The query dereferences the nil session.  Outside a REST handler the
\* panic aborts the process; in one, net/http recovers it and the read
\* lock stays held unless its RUnlock was deferred.
QueryNilSession(c) ==
    /\ rd[c] = "hold" /\ session = "nil"
    /\ \/ c \notin Recovering /\ mpc' = "crashed" /\ UNCHANGED <<rd, leaked>>
       \/ /\ c \in Recovering /\ rd' = [rd EXCEPT ![c] = "idle"]
          /\ leaked' = (leaked \/ ~dfr[c]) /\ UNCHANGED mpc
    /\ UNCHANGED <<provider, migrateOn, session, rpc, writer, dfr, failures>>

-----------------------------------------------------------------------------
MainStep ==
    \/ ConnectCassandra \/ ConnectAwsKeyspaces \/ MigrateLock \/ MigrateSchema
    \/ LookupRLock \/ LookupQuery \/ StartServices \/ ShutdownLock
    \/ ShutdownClose \/ StopRefresher

RefresherStep == Tick \/ Credentials \/ RefreshLock \/ RefreshSession

CallerStep(c) == Query(c) \/ QueryNilSession(c)

Next ==
    /\ Alive
    /\ \/ MainStep \/ Terminate \/ RefresherStep
       \/ \E c \in Callers : BeginCall(c) \/ CallerStep(c)

\* Every goroutine runs on: the AWS calls are bounded by
\* awsOperationTimeout, the ticker fires every 3 h and the queries by the
\* 1 min cluster timeout.  Signals and new calls come from outside.  While
\* main blocks in its send, the refresher's select finds the stop ready on
\* every pass and Go picks among ready cases at random, so the send is
\* strongly fair.  So is taking the writer slot: sync.Mutex hands itself
\* to a waiter blocked for over 1 ms (starvation mode).
Spec ==
    /\ Init /\ [][Next]_vars
    /\ WF_vars(Alive /\ MainStep) /\ WF_vars(Alive /\ RefresherStep)
    /\ SF_vars(Alive /\ StopRefresher)
    /\ SF_vars(Alive /\ (MigrateLock \/ ShutdownLock)) /\ SF_vars(Alive /\ RefreshLock)
    /\ \A c \in Callers : WF_vars(Alive /\ CallerStep(c))

-----------------------------------------------------------------------------
TypeOK ==
    /\ provider \in {"cassandra", "aws_keyspaces"} /\ migrateOn \in BOOLEAN
    /\ session \in {"open", "closed", "nil"}
    /\ mpc \in {"connect", "migrate", "migrating", "lookup", "looking", "start",
                "serving", "shutdown", "closing", "stop", "exited", "crashed"}
    /\ rpc \in {"off", "select", "creds", "lock", "locked", "exited"}
    /\ writer \in {None, Main, Refresher}
    /\ rd \in [Readers -> {"idle", "rwait", "hold"}] /\ dfr \in [Readers -> BOOLEAN]
    /\ leaked \in BOOLEAN /\ failures \in 0..MaxFailures
    \* a reader blocks in RLock only behind a writer
    /\ \A g \in Readers : rd[g] = "rwait" => writer # None

\* Spec 5 and 7 (a failed query is a transient-storage error): every db
\* call a goroutine starts returns, unless the process has ended.
DbCallsReturn ==
    \A c \in Callers : rd[c] # "idle" ~> (rd[c] = "idle" \/ ~Alive)

\* The only thing that strands a db call is a read lock nobody holds: a
\* call returns, or the process ends, or a recovered panic skipped an
\* RUnlock, however the refresher, the migration and db.Shutdown take
\* gSessionMutex around it and whatever their AWS and Cassandra calls
\* return.  This is about the writer-preferring RWMutex admitting the
\* readers it blocked, and the refresher's deferred Unlock on its error
\* returns.
CallsReturnUnlessLockLeaked ==
    \A c \in Callers :
        rd[c] # "idle" ~> (rd[c] = "idle" \/ ~Alive \/ leaked)

\* Spec 5, cancellation: db.Shutdown returns and the process ends, whether
\* the refresher is in its select, fetching credentials or waiting for the
\* write lock when the close takes it, unless a leaked read lock keeps the
\* close from ever taking it; the stop is sent only to a refresher that
\* exists.
ShutdownReturns == mpc = "shutdown" ~> (~Alive \/ leaked)

=============================================================================
