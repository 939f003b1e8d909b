------------------------------- MODULE Server -------------------------------
(***************************************************************************)
(* The life of the processes that serve the ledger: a replica reads its    *)
(* configuration, connects, migrates the database under an advisory lock,  *)
(* serves, and on a signal drains its requests and then its pool (main).   *)
(* Time passes in seconds.  A timer counts down and None is a timer that   *)
(* is not running; time does not pass over a timer that has reached zero.  *)
(* A restarted replica is another member of Replicas.                      *)
(***************************************************************************)
EXTENDS Integers, FiniteSets

CONSTANTS
    None,
    Garbage,        \* a value that does not parse
    Replicas,       \* processes of a rolling deployment
    Routed,         \* the replicas that are sent requests
    Requests,
    Environments    \* what the processes' environment may be

VARIABLES
    env,            \* the environment: variables that are set, and to what
    phase,          \* how far main() of a replica has come
    timer,          \* a replica's wait: advisory lock, migration, pool.close()
    since,          \* seconds since its shutdown signal
    migrator,       \* the replica whose session holds the advisory lock
    migrated,       \* the schema is in place
    home,           \* the replica a request was sent to
    stage,          \* where its handler is
    deadline,       \* what TimeoutLayer leaves it
    wait,           \* its wait for a connection, or for a lock
    prompt,         \* it asked for its first connection at once, and waits
    told,           \* its response
    session,        \* the database session it has or had
    left            \* what the server-side limits leave that session

replicaVars == <<phase, timer, since, migrator, migrated>>
requestVars == <<home, stage, deadline, wait, prompt, told, session, left>>
vars == <<env, replicaVars, requestVars>>
-----------------------------------------------------------------------------
(***************************************************************************)
(* Configuration.                                                          *)
(***************************************************************************)
Defaults ==
    [DATABASE_MAX_CONNECTIONS |-> 16, DATABASE_MIN_CONNECTIONS |-> 1,
     DATABASE_ACQUIRE_TIMEOUT_SECS |-> 10, DATABASE_STATEMENT_TIMEOUT_SECS |-> 30,
     DATABASE_LOCK_TIMEOUT_SECS |-> 5, DATABASE_IDLE_IN_TXN_TIMEOUT_SECS |-> 30,
     REQUEST_TIMEOUT_SECS |-> 30, SHUTDOWN_GRACE_SECS |-> 20]

\* A value that is set parses as a natural number, or does not parse.
ASSUME EnvironmentsAssumption ==
    \A e \in Environments : \A key \in DOMAIN e \cap DOMAIN Defaults :
        e[key] # Garbage => e[key] \in Nat

EnvParse(key) == IF key \in DOMAIN env THEN env[key] ELSE Defaults[key]

max_connections == EnvParse("DATABASE_MAX_CONNECTIONS")
acquire_timeout == EnvParse("DATABASE_ACQUIRE_TIMEOUT_SECS")
statement_timeout == EnvParse("DATABASE_STATEMENT_TIMEOUT_SECS")
lock_timeout == EnvParse("DATABASE_LOCK_TIMEOUT_SECS")
idle_in_transaction_timeout == EnvParse("DATABASE_IDLE_IN_TXN_TIMEOUT_SECS")
request_timeout == EnvParse("REQUEST_TIMEOUT_SECS")
shutdown_grace == EnvParse("SHUTDOWN_GRACE_SECS")

\* Mutant: a request may be cancelled at the moment it would get a connection.
Validate_RequestTie ==
    /\ max_connections # 0
    /\ EnvParse("DATABASE_MIN_CONNECTIONS") <= max_connections
    /\ request_timeout >= acquire_timeout
    /\ statement_timeout > lock_timeout

\* Mutant: both server-side limits may strike at once.
Validate_StatementTie ==
    /\ max_connections # 0
    /\ EnvParse("DATABASE_MIN_CONNECTIONS") <= max_connections
    /\ request_timeout > acquire_timeout
    /\ statement_timeout >= lock_timeout

Validate ==
    /\ max_connections # 0
    /\ EnvParse("DATABASE_MIN_CONNECTIONS") <= max_connections
    /\ request_timeout > acquire_timeout
    /\ statement_timeout > lock_timeout

\* An unset variable has its default, one that does not parse is an error, and
\* DATABASE_URL has no default.
FromEnv ==
    /\ "DATABASE_URL" \in DOMAIN env
    /\ \A key \in DOMAIN env : env[key] # Garbage
    /\ Validate

\* The three limits are SET in milliseconds, a 32-bit setting of the server.
SettingsAccepted ==
    \A limit \in {statement_timeout, lock_timeout, idle_in_transaction_timeout} :
        limit <= (2147483647 \div 1000)

\* Mutant: the limits are not SET on a new connection.
SessionLimit_Unset(limit) == None

\* What after_connect makes of a limit: zero switches it off.
SessionLimit(limit) == IF limit = 0 THEN None ELSE limit
-----------------------------------------------------------------------------
(***************************************************************************)
(* The steps of main().                                                    *)
(***************************************************************************)
Starting == {"boot", "waiting", "migrating", "binding"}
Draining == {"draining", "closing"}
Ended == {"failed", "exited", "crashed"}

At(p, from, to) == phase[p] = from /\ phase' = [phase EXCEPT ![p] = to]

Open == {"busy", "returning"}
Abandoned == {"orphan", "idle"}

\* The sessions of a replica's pool.
PoolOf(p) == {q \in Requests : home[q] = p /\ session[q] \in Open}

\* The process is gone; its sessions are still there.
AbandonSessions(p) ==
    session' = [q \in Requests |-> IF q \in PoolOf(p) THEN "orphan" ELSE session[q]]

\* from_env fails; the database cannot be reached, or refuses the SETs.
StartFails(p) ==
    /\ At(p, "boot", "failed")
    /\ UNCHANGED <<env, timer, since, migrator, migrated, requestVars>>

\* Config and pool are there: MIGRATOR.run asks for the advisory lock in a
\* session with the pool's limits.
Connect(p) ==
    /\ FromEnv
    /\ SettingsAccepted
    /\ At(p, "boot", "waiting")
    /\ timer' = [timer EXCEPT ![p] =
           IF lock_timeout = 0 THEN SessionLimit(statement_timeout)
                               ELSE SessionLimit(lock_timeout)]
    /\ UNCHANGED <<env, since, migrator, migrated, requestVars>>

LockMigrations(p) ==
    /\ migrator = None
    /\ At(p, "waiting", "migrating")
    /\ migrator' = p
    /\ timer' = [timer EXCEPT ![p] = SessionLimit(statement_timeout)]
    /\ UNCHANGED <<env, since, migrated, requestVars>>

\* Applies what is missing, in one transaction, and unlocks.
Migrate(p) ==
    /\ At(p, "migrating", "binding")
    /\ migrated' = TRUE
    /\ migrator' = None
    /\ timer' = [timer EXCEPT ![p] = None]
    /\ UNCHANGED <<env, since, requestVars>>

\* The wait for the lock, or the migration, outlasts its limit: main returns
\* the error and the session goes with the process.
MigrationTimesOut(p) ==
    /\ timer[p] = 0
    /\ At(p, "waiting", "failed") \/ At(p, "migrating", "failed")
    /\ timer' = [timer EXCEPT ![p] = None]
    /\ migrator' = IF migrator = p THEN None ELSE migrator
    /\ UNCHANGED <<env, since, migrated, requestVars>>

Bind(p) ==
    /\ At(p, "binding", "serving") \/ At(p, "binding", "failed")
    /\ UNCHANGED <<env, timer, since, migrator, migrated, requestVars>>

\* SIGINT or SIGTERM.  The handlers are installed when serving begins.
ShutdownSignal(p) ==
    /\ At(p, "serving", "draining")
    /\ since' = [since EXCEPT ![p] = 0]
    /\ UNCHANGED <<env, timer, migrator, migrated, requestVars>>

\* axum waits for connections to close, which is when their requests are answered
\* for every client that has sent its request and reads its response.  One that
\* stalls in the head of a request, or does not read, is outside TimeoutLayer
\* and outside this model.
RequestsDone(p) == \A q \in Requests : home[q] = p => stage[q] = "answered"

\* Mutant: pool.close() is awaited without a timeout.
Drained_NoTimeout(p) ==
    /\ RequestsDone(p)
    /\ At(p, "draining", "closing")
    /\ UNCHANGED <<env, timer, since, migrator, migrated, requestVars>>

\* axum::serve returns when no request is left, and pool.close() begins.
Drained(p) ==
    /\ RequestsDone(p)
    /\ At(p, "draining", "closing")
    /\ timer' = [timer EXCEPT ![p] = shutdown_grace]
    /\ UNCHANGED <<env, since, migrator, migrated, requestVars>>

\* Mutant: the process exits without closing the pool.
Exit_WithoutClose(p) ==
    /\ At(p, "closing", "exited")
    /\ timer' = [timer EXCEPT ![p] = None]
    /\ since' = [since EXCEPT ![p] = 0]
    /\ AbandonSessions(p)
    /\ UNCHANGED <<env, migrator, migrated, home, stage, deadline, wait,
                   prompt, told, left>>

\* The end of main(): every connection is back, or the grace is over.
Exit(p) ==
    /\ At(p, "closing", "exited")
    /\ PoolOf(p) = {} \/ timer[p] = 0
    /\ timer' = [timer EXCEPT ![p] = None]
    /\ since' = [since EXCEPT ![p] = 0]
    /\ AbandonSessions(p)
    /\ UNCHANGED <<env, migrator, migrated, home, stage, deadline, wait,
                   prompt, told, left>>

\* The process is killed, by its host or by a signal before it serves.
Crash(p) ==
    /\ phase[p] \notin Ended
    /\ phase' = [phase EXCEPT ![p] = "crashed"]
    /\ timer' = [timer EXCEPT ![p] = None]
    /\ since' = [since EXCEPT ![p] = 0]
    /\ stage' = [q \in Requests |->
           IF home[q] = p /\ stage[q] # "answered" THEN "lost" ELSE stage[q]]
    /\ deadline' = [q \in Requests |-> IF home[q] = p THEN None ELSE deadline[q]]
    /\ wait' = [q \in Requests |-> IF home[q] = p THEN None ELSE wait[q]]
    /\ AbandonSessions(p)
    /\ UNCHANGED <<env, migrator, migrated, home, prompt, told, left>>

\* The server notices that the session with the advisory lock lost its client.
ReleaseMigrator ==
    /\ migrator # None
    /\ phase[migrator] = "crashed"
    /\ migrator' = None
    /\ UNCHANGED <<env, phase, timer, since, migrated, requestVars>>
-----------------------------------------------------------------------------
(***************************************************************************)
(* Requests.                                                               *)
(***************************************************************************)
InFlight == {"reading", "queued", "executing", "blocked", "waiting"}
InStatement == {"executing", "blocked", "waiting"}

\* What a client may be told, with the stage it was in where a property asks.
Responses == {"answer", "internal_error", "cancelled_while_blocked", "408", "408_in_queue"}

ASSUME NoneAssumption == None \notin Nat \cup Replicas \cup Responses

\* The handler is gone; a connection it had goes back to the pool when its
\* statement is over, after the ROLLBACK.
Answer(q, response) ==
    /\ stage' = [stage EXCEPT ![q] = "answered"]
    /\ told' = [told EXCEPT ![q] = response]
    /\ deadline' = [deadline EXCEPT ![q] = None]
    /\ wait' = [wait EXCEPT ![q] = None]
    /\ session' = [session EXCEPT ![q] = IF @ = "busy" THEN "returning" ELSE @]
    /\ UNCHANGED <<env, replicaVars, home, prompt, left>>

Arrive(q, p) ==
    /\ p \in Routed
    /\ phase[p] = "serving"
    /\ stage[q] = "unsent"
    /\ home' = [home EXCEPT ![q] = p]
    /\ stage' = [stage EXCEPT ![q] = "reading"]
    /\ deadline' = [deadline EXCEPT ![q] = request_timeout]
    /\ UNCHANGED <<env, replicaVars, wait, prompt, told, session, left>>

\* The body is read, and the handler asks the pool for a connection.
AskForConnection(q) ==
    /\ stage[q] = "reading"
    /\ stage' = [stage EXCEPT ![q] = "queued"]
    /\ prompt' = [prompt EXCEPT ![q] = deadline[q] = request_timeout]
    /\ wait' = [wait EXCEPT ![q] = acquire_timeout]
    /\ UNCHANGED <<env, replicaVars, home, deadline, told, session, left>>

\* Mutant: the pool has no limit.
Acquire_Unlimited(q) ==
    /\ stage[q] = "queued"
    /\ stage' = [stage EXCEPT ![q] = "executing"]
    /\ session' = [session EXCEPT ![q] = "busy"]
    /\ wait' = [wait EXCEPT ![q] = None]
    /\ left' = [left EXCEPT ![q] = SessionLimit(statement_timeout)]
    /\ UNCHANGED <<env, replicaVars, home, deadline, prompt, told>>

Acquire(q) ==
    /\ stage[q] = "queued"
    /\ Cardinality(PoolOf(home[q])) < max_connections
    /\ stage' = [stage EXCEPT ![q] = "executing"]
    /\ session' = [session EXCEPT ![q] = "busy"]
    /\ wait' = [wait EXCEPT ![q] = None]
    /\ left' = [left EXCEPT ![q] = SessionLimit(statement_timeout)]
    /\ UNCHANGED <<env, replicaVars, home, deadline, prompt, told>>

AcquireTimesOut(q) ==
    /\ stage[q] = "queued"
    /\ wait[q] = 0
    /\ Answer(q, "internal_error")

\* The statement meets a row lock, from its first moment ("blocked") or later.
MeetLock(q) ==
    /\ stage[q] = "executing"
    /\ stage' = [stage EXCEPT ![q] =
           IF left[q] = SessionLimit(statement_timeout) THEN "blocked" ELSE "waiting"]
    /\ wait' = [wait EXCEPT ![q] = SessionLimit(lock_timeout)]
    /\ UNCHANGED <<env, replicaVars, home, deadline, prompt, told, session, left>>

GetLock(q) ==
    /\ stage[q] \in {"blocked", "waiting"}
    /\ stage' = [stage EXCEPT ![q] = "executing"]
    /\ wait' = [wait EXCEPT ![q] = None]
    /\ UNCHANGED <<env, replicaVars, home, deadline, prompt, told, session, left>>

LockTimesOut(q) ==
    /\ stage[q] \in {"blocked", "waiting"}
    /\ wait[q] = 0
    /\ Answer(q, "internal_error")

StatementTimesOut(q) ==
    /\ stage[q] \in InStatement
    /\ left[q] = 0
    /\ Answer(q, IF stage[q] = "blocked" THEN "cancelled_while_blocked"
                                         ELSE "internal_error")

\* The next statement of the handler, in the same session.
NextStatement(q) ==
    /\ stage[q] = "executing"
    /\ left' = [left EXCEPT ![q] = SessionLimit(statement_timeout)]
    /\ UNCHANGED <<env, replicaVars, home, stage, deadline, wait, prompt, told,
                   session>>

\* A statement outside a transaction gives its connection back, and the next
\* one asks for another.
AskAgain(q) ==
    /\ stage[q] = "executing"
    /\ stage' = [stage EXCEPT ![q] = "queued"]
    /\ session' = [session EXCEPT ![q] = "none"]
    /\ prompt' = [prompt EXCEPT ![q] = FALSE]
    /\ wait' = [wait EXCEPT ![q] = acquire_timeout]
    /\ left' = [left EXCEPT ![q] = None]
    /\ UNCHANGED <<env, replicaVars, home, deadline, told>>

\* The handler returns, by itself or through CatchPanicLayer: a liveness probe
\* and a refused body without a connection, the others with one.
Respond(q) ==
    /\ stage[q] \in {"reading", "executing"}
    /\ Answer(q, "answer")

\* TimeoutLayer drops the handler at whatever await it is in.
RequestTimesOut(q) ==
    /\ stage[q] \in InFlight
    /\ deadline[q] = 0
    /\ Answer(q, IF stage[q] = "queued" THEN "408_in_queue" ELSE "408")

\* The statement and the ROLLBACK are over and the connection is in the pool.
ReturnConnection(q) ==
    /\ session[q] = "returning"
    /\ session' = [session EXCEPT ![q] = "none"]
    /\ left' = [left EXCEPT ![q] = None]
    /\ UNCHANGED <<env, replicaVars, home, stage, deadline, wait, prompt, told>>

\* Mutant: idle_in_transaction_session_timeout is not SET.
StatementEnds_NoIdleLimit(q) ==
    /\ session[q] = "orphan"
    /\ \/ /\ session' = [session EXCEPT ![q] = "none"]
          /\ left' = [left EXCEPT ![q] = None]
       \/ /\ session' = [session EXCEPT ![q] = "idle"]
          /\ left' = [left EXCEPT ![q] = None]
    /\ UNCHANGED <<env, replicaVars, home, stage, deadline, wait, prompt, told>>

\* A session without a client: its statement ends, then it is idle in its
\* transaction, or had none.
StatementEnds(q) ==
    /\ session[q] = "orphan"
    /\ \/ /\ session' = [session EXCEPT ![q] = "none"]
          /\ left' = [left EXCEPT ![q] = None]
       \/ /\ session' = [session EXCEPT ![q] = "idle"]
          /\ left' = [left EXCEPT ![q] = SessionLimit(idle_in_transaction_timeout)]
    /\ UNCHANGED <<env, replicaVars, home, stage, deadline, wait, prompt, told>>

IdleTimesOut(q) ==
    /\ session[q] = "idle"
    /\ left[q] = 0
    /\ session' = [session EXCEPT ![q] = "none"]
    /\ left' = [left EXCEPT ![q] = None]
    /\ UNCHANGED <<env, replicaVars, home, stage, deadline, wait, prompt, told>>
-----------------------------------------------------------------------------
\* A timer is over, or a server has nothing left to wait for: time stands still
\* until the process has taken notice.
Due ==
    \/ \E p \in Replicas : phase[p] = "draining" /\ RequestsDone(p)
    \/ \E p \in Replicas : timer[p] = 0
    \/ \E q \in Requests : 0 \in {deadline[q], wait[q], left[q]}

CountDown(t) == IF t = None THEN None ELSE t - 1

Tick ==
    /\ ~Due
    /\ timer' = [p \in Replicas |-> CountDown(timer[p])]
    /\ deadline' = [q \in Requests |-> CountDown(deadline[q])]
    /\ wait' = [q \in Requests |-> CountDown(wait[q])]
    /\ left' = [q \in Requests |-> CountDown(left[q])]
    /\ since' = [p \in Replicas |-> IF phase[p] \in Draining THEN since[p] + 1 ELSE since[p]]
    /\ UNCHANGED <<env, phase, migrator, migrated, home, stage, prompt, told, session>>

Init ==
    /\ env \in Environments
    /\ phase = [p \in Replicas |-> "boot"]
    /\ timer = [p \in Replicas |-> None]
    /\ since = [p \in Replicas |-> 0]
    /\ migrator = None
    /\ migrated = FALSE
    /\ home = [q \in Requests |-> None]
    /\ stage = [q \in Requests |-> "unsent"]
    /\ deadline = [q \in Requests |-> None]
    /\ wait = [q \in Requests |-> None]
    /\ prompt = [q \in Requests |-> FALSE]
    /\ told = [q \in Requests |-> None]
    /\ session = [q \in Requests |-> "none"]
    /\ left = [q \in Requests |-> None]

\* What main() does by itself.
Main(p) ==
    \/ StartFails(p)
    \/ Connect(p)
    \/ LockMigrations(p)
    \/ Migrate(p)
    \/ MigrationTimesOut(p)
    \/ Bind(p)
    \/ Drained(p)
    \/ Exit(p)

\* What happens to a request when a limit is reached.
Expire(q) ==
    \/ AcquireTimesOut(q)
    \/ LockTimesOut(q)
    \/ StatementTimesOut(q)
    \/ RequestTimesOut(q)
    \/ left[q] = 0 /\ ReturnConnection(q)
    \/ left[q] = 0 /\ StatementEnds(q)
    \/ IdleTimesOut(q)

Next ==
    \/ \E p \in Replicas : Main(p) \/ ShutdownSignal(p) \/ Crash(p)
    \/ ReleaseMigrator
    \/ \E q \in Requests :
          \/ \E p \in Replicas : Arrive(q, p)
          \/ AskForConnection(q)
          \/ Acquire(q)
          \/ MeetLock(q)
          \/ GetLock(q)
          \/ NextStatement(q)
          \/ AskAgain(q)
          \/ Respond(q)
          \/ ReturnConnection(q)
          \/ StatementEnds(q)
          \/ Expire(q)
    \/ Tick

\* Time passes, the runtime runs main() and fires its timers, and the server
\* enforces its limits.  Nothing makes a statement finish, a lock free, or a
\* signal come.
Fairness ==
    /\ WF_vars(Tick)
    /\ \A p \in Replicas : WF_vars(Main(p))
    /\ \A q \in Requests : WF_vars(Expire(q))

Spec == Init /\ [][Next]_vars /\ Fairness
-----------------------------------------------------------------------------
(***************************************************************************)
(* Properties.                                                             *)
(***************************************************************************)
Timers == Nat \cup {None}

\* Type correctness.  A pool never has more sessions than max_connections, and
\* a replica serves only over a migrated schema.
ServerTypeOK ==
    /\ phase \in [Replicas -> Starting \cup {"serving"} \cup Draining \cup Ended]
    /\ timer \in [Replicas -> Timers] /\ since \in [Replicas -> Nat]
    /\ migrator \in Replicas \cup {None} /\ migrated \in BOOLEAN
    /\ home \in [Requests -> Replicas \cup {None}]
    /\ stage \in [Requests -> InFlight \cup {"unsent", "answered", "lost"}]
    /\ deadline \in [Requests -> Timers] /\ wait \in [Requests -> Timers]
    /\ left \in [Requests -> Timers] /\ prompt \in [Requests -> BOOLEAN]
    /\ session \in [Requests -> {"none"} \cup Open \cup Abandoned]
    /\ told \in [Requests -> Responses \cup {None}]
    /\ \A p \in Replicas :
          /\ Cardinality(PoolOf(p)) <= max_connections \/ phase[p] \in Starting \cup Ended
          /\ phase[p] \in {"serving"} \cup Draining => migrated

\* What Config says request_timeout is for: a request that asks for its first
\* connection as soon as it arrives is never cancelled before the pool has had
\* its say.  (One whose body takes time to arrive may be.)
QueuedNotCancelled ==
    \A q \in Requests : prompt[q] => told[q] # "408_in_queue"

\* What Config says statement_timeout is for: a statement that does nothing but
\* wait for a lock is ended by lock_timeout, which names the cause, unless the
\* operator switched lock_timeout off.
CauseReported ==
    lock_timeout # 0 => \A q \in Requests : told[q] # "cancelled_while_blocked"

\* A process that was told to stop is gone when the longest request and the
\* grace period are over, its clients sending and reading (see RequestsDone).
ShutdownBounded ==
    \A p \in Replicas :
        phase[p] \in Draining => since[p] <= request_timeout + shutdown_grace

\* Draining the pool does what main() says it is for, if the grace period is
\* longer than a statement may take: a process that ends in order leaves no
\* session behind.
CleanExit ==
    shutdown_grace > statement_timeout =>
        \A q \in Requests :
            home[q] # None /\ session[q] \in Abandoned => phase[home[q]] # "exited"

\* Whatever becomes of the client and of the process, the session of a request
\* that is over ends, and with it every row lock it holds, unless the operator
\* switched the idle limit off.  (Each request has one session, so that to be
\* rid of all of them again and again is to be rid of each.)
LocksReleased ==
    idle_in_transaction_timeout # 0 =>
        []<>(\A q \in Requests : stage[q] \in {"answered", "lost"} => session[q] = "none")

\* Nobody waits for ever: a replica that starts comes to serve or gives up, even
\* if another died with the advisory lock; one that drains ends; every request
\* is answered or lost with its process.  (A phase is passed once, so that to be
\* settled again and again is to leave each of them.)
EveryoneSettles ==
    []<>(/\ \A p \in Replicas : phase[p] \notin Starting \cup Draining
         /\ \A q \in Requests : stage[q] \notin InFlight)

\* What main() says of the replicas of a rolling deployment: "the others wait, then
\* find nothing to do" (main.rs 23-25).  None gives up its start while another
\* holds the advisory lock.
OthersWait ==
    [][\A p \in Replicas :
          phase[p] = "waiting" /\ migrator # None => phase'[p] # "failed"]_vars

\* What Config says shutdown_grace is: the time requests in flight have to
\* finish after a shutdown signal.  The code gives that time to pool.close(),
\* after the requests, which are limited by request_timeout alone.
GraceGiven ==
    \A q \in Requests :
        stage[q] \in InFlight /\ phase[home[q]] = "draining"
            => since[home[q]] <= shutdown_grace
=============================================================================
