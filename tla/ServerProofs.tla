---------------------------- MODULE ServerProofs ----------------------------
(***************************************************************************)
(* Safety of the server's life for every deployment: any number of         *)
(* replicas and requests, and any environment.  Validate's two             *)
(* inequalities are what keeps the timers of a request in order; the       *)
(* inductive invariant says by how much.                                   *)
(***************************************************************************)
EXTENDS Server, FiniteSetTheorems, TLAPS

\* What FromEnv leaves of an environment: numbers, two of them ordered.
ConfigSound ==
    /\ max_connections \in Nat \ {0}
    /\ acquire_timeout \in Nat /\ request_timeout \in Nat
    /\ statement_timeout \in Nat /\ lock_timeout \in Nat
    /\ idle_in_transaction_timeout \in Nat /\ shutdown_grace \in Nat
    /\ request_timeout > acquire_timeout
    /\ statement_timeout > lock_timeout

\* The types, without the two facts that need the invariant.
Typed ==
    /\ env \in Environments
    /\ phase \in [Replicas -> Starting \cup {"serving"} \cup Draining \cup Ended]
    /\ timer \in [Replicas -> Timers] /\ since \in [Replicas -> Nat]
    /\ migrator \in Replicas \cup {None} /\ migrated \in BOOLEAN
    /\ home \in [Requests -> Replicas \cup {None}]
    /\ stage \in [Requests -> InFlight \cup {"unsent", "answered", "lost"}]
    /\ deadline \in [Requests -> Timers] /\ wait \in [Requests -> Timers]
    /\ left \in [Requests -> Timers] /\ prompt \in [Requests -> BOOLEAN]
    /\ session \in [Requests -> {"none"} \cup Open \cup Abandoned]
    /\ told \in [Requests -> Responses \cup {None}]

\* A replica past its start has a sound configuration and a migrated schema; one
\* that drains is within its time, and pool.close() starts when no request is left.
ReplicaSafe(p) ==
    /\ phase[p] \notin {"boot", "failed", "crashed"} => ConfigSound
    /\ phase[p] \in {"binding", "serving"} \cup Draining => migrated
    /\ phase[p] = "draining" => since[p] <= request_timeout
    /\ phase[p] = "closing" =>
          /\ timer[p] \in Nat
          /\ since[p] + timer[p] <= request_timeout + shutdown_grace
          /\ RequestsDone(p)

PoolSafe(p) ==
    /\ IsFiniteSet(PoolOf(p))
    /\ Cardinality(PoolOf(p)) <= max_connections \/ phase[p] \in Starting \cup Ended

\* Where a request may be, and what has become of its session, with its replica
\* in each phase.
Placed(q) ==
    /\ stage[q] = "unsent" => home[q] = None /\ session[q] = "none"
    /\ stage[q] # "unsent" =>
          /\ home[q] \in Replicas
          /\ ConfigSound
          /\ phase[home[q]] \notin Starting \cup {"failed"}
    /\ stage[q] \in InFlight => phase[home[q]] \in {"serving", "draining"}
    /\ stage[q] = "lost" => phase[home[q]] = "crashed"
    /\ stage[q] # "answered" => told[q] = None
    /\ session[q] = "busy" <=> stage[q] \in InStatement
    /\ session[q] = "returning" => stage[q] = "answered"
    /\ session[q] \in Open => phase[home[q]] \in {"serving"} \cup Draining
    /\ session[q] \in Abandoned => phase[home[q]] \in {"exited", "crashed"}

\* The timers of a request: what each has left against the ones it must not
\* outlive.
Timed(q) ==
    /\ stage[q] \in InFlight => deadline[q] \in Nat /\ deadline[q] <= request_timeout
    /\ stage[q] = "queued" => wait[q] \in Nat
    /\ stage[q] = "queued" /\ prompt[q] => wait[q] < deadline[q]
    /\ session[q] \in Open => left[q] \in Nat /\ left[q] <= statement_timeout
    /\ stage[q] = "blocked" /\ lock_timeout # 0 => wait[q] \in Nat /\ wait[q] < left[q]
    /\ stage[q] \in InFlight /\ phase[home[q]] = "draining" =>
          since[home[q]] + deadline[q] <= request_timeout

\* The grace outlasts the statements when it is the longer of the two.
Outlasted(q) ==
    stage[q] # "unsent" /\ shutdown_grace > statement_timeout =>
        /\ phase[home[q]] = "closing" /\ session[q] \in Open => left[q] < timer[home[q]]
        /\ phase[home[q]] = "exited" => session[q] = "none"

\* What a client was told.
Explained(q) ==
    /\ prompt[q] => told[q] # "408_in_queue"
    /\ lock_timeout # 0 => told[q] # "cancelled_while_blocked"

RequestSafe(q) == Placed(q) /\ Timed(q) /\ Outlasted(q) /\ Explained(q)

\* The inductive invariant.
ServerInv ==
    /\ Typed
    /\ \A p \in Replicas : ReplicaSafe(p) /\ PoolSafe(p)
    /\ \A q \in Requests : RequestSafe(q)
-----------------------------------------------------------------------------
USE DEF replicaVars, requestVars, At, Starting, Draining, Ended, Open, Abandoned, InFlight,
    InStatement

\* An environment that passes from_env is sound: what parses is a number, and
\* validate compares the numbers.
LEMMA FromEnvSound ==
  ASSUME env \in Environments, FromEnv
  PROVE  ConfigSound
<1>1. \A key \in DOMAIN Defaults : EnvParse(key) \in Nat
  BY EnvironmentsAssumption DEF FromEnv, EnvParse, Defaults
<1> QED
  BY <1>1 DEF FromEnv, Validate, ConfigSound, Defaults, max_connections, acquire_timeout,
     request_timeout, statement_timeout, lock_timeout, idle_in_transaction_timeout,
     shutdown_grace

\* The environment does not change, and the configuration with it.
LEMMA ConfigStable ==
  ASSUME env' = env
  PROVE  /\ max_connections' = max_connections
         /\ acquire_timeout' = acquire_timeout /\ request_timeout' = request_timeout
         /\ statement_timeout' = statement_timeout /\ lock_timeout' = lock_timeout
         /\ idle_in_transaction_timeout' = idle_in_transaction_timeout
         /\ shutdown_grace' = shutdown_grace
         /\ ConfigSound' = ConfigSound
  BY DEF ConfigSound, EnvParse, max_connections, acquire_timeout, request_timeout,
     statement_timeout, lock_timeout, idle_in_transaction_timeout, shutdown_grace

\* A limit in a session is a timer; the limit on a statement is never off.
LEMMA Limits ==
  ASSUME ConfigSound
  PROVE  /\ SessionLimit(statement_timeout) = statement_timeout
         /\ lock_timeout # 0 => SessionLimit(lock_timeout) = lock_timeout
         /\ SessionLimit(lock_timeout) \in Timers
         /\ SessionLimit(statement_timeout) \in Timers
         /\ SessionLimit(idle_in_transaction_timeout) \in Timers
  BY DEF ConfigSound, SessionLimit, Timers

\* Nothing of the request o changes.
Same(o) ==
    /\ home'[o] = home[o] /\ stage'[o] = stage[o] /\ deadline'[o] = deadline[o]
    /\ wait'[o] = wait[o] /\ prompt'[o] = prompt[o] /\ told'[o] = told[o]
    /\ session'[o] = session[o] /\ left'[o] = left[o]

\* A request that a step leaves alone, on a replica it leaves alone, stays safe.
LEMMA FrameRequest ==
  ASSUME NEW o \in Requests, RequestSafe(o), env' = env, Same(o),
         stage[o] # "unsent" => /\ phase'[home[o]] = phase[home[o]]
                                /\ timer'[home[o]] = timer[home[o]]
                                /\ since'[home[o]] = since[home[o]]
  PROVE  RequestSafe(o)'
<1> USE ConfigStable DEF Same, RequestSafe
<1>1. Placed(o)'
  BY DEF Placed
<1>2. Timed(o)'
  BY DEF Timed, Placed
<1>3. Outlasted(o)'
  BY DEF Outlasted, Placed
<1>4. Explained(o)'
  BY DEF Explained
<1> QED BY <1>1, <1>2, <1>3, <1>4

\* A pool that only loses sessions stays within its limit.
LEMMA PoolShrinks ==
  ASSUME Typed, NEW p \in Replicas, PoolSafe(p), ReplicaSafe(p), env' = env,
         PoolOf(p)' \subseteq PoolOf(p),
         phase'[p] = phase[p] \/ phase[p] \notin Starting \cup Ended \/ PoolOf(p)' = {},
         ReplicaSafe(p)'
  PROVE  PoolSafe(p)'
<1>1. IsFiniteSet(PoolOf(p)') /\ Cardinality(PoolOf(p)') <= Cardinality(PoolOf(p))
  BY FS_Subset DEF PoolSafe
<1>2. Cardinality(PoolOf(p)') \in Nat /\ Cardinality(PoolOf(p)) \in Nat
  BY <1>1, FS_CardinalityType DEF PoolSafe
<1>3. CASE phase'[p] \in Starting \cup Ended
  BY <1>1, <1>3 DEF PoolSafe
<1>4. CASE phase'[p] \notin Starting \cup Ended /\ PoolOf(p)' = {}
  BY <1>1, <1>4, FS_EmptySet DEF PoolSafe, ReplicaSafe, ConfigSound
<1>5. CASE phase'[p] \notin Starting \cup Ended /\ PoolOf(p)' # {}
  <2>1. Cardinality(PoolOf(p)) <= max_connections /\ max_connections \in Nat
    BY <1>5 DEF PoolSafe, ReplicaSafe, ConfigSound
  <2> QED BY <1>1, <1>2, <2>1, ConfigStable DEF PoolSafe
<1> QED BY <1>3, <1>4, <1>5
-----------------------------------------------------------------------------
(* Steps of a request *)

\* A step of the request q: its replica goes on as before.
StepOf(q) ==
    /\ env' = env /\ UNCHANGED replicaVars
    /\ \A o \in Requests \ {q} : Same(o)

\* What such a step has to keep: the types and q's own safety, and it takes no
\* session the pool does not have.
LEMMA RequestStep ==
  ASSUME ServerInv, NEW q \in Requests, StepOf(q), Typed', RequestSafe(q)',
         \/ session'[q] \notin Open
         \/ session[q] \in Open /\ home'[q] = home[q]
         \/ \A p \in Replicas : PoolSafe(p)'
  PROVE  ServerInv'
<1>1. ASSUME NEW o \in Requests PROVE RequestSafe(o)'
  BY FrameRequest DEF StepOf, ServerInv
<1>2. ASSUME NEW p \in Replicas PROVE ReplicaSafe(p)'
  <2>1. ASSUME phase[p] = "closing" PROVE RequestsDone(p)'
    <3> SUFFICES ASSUME NEW o \in Requests, home'[o] = p PROVE stage'[o] = "answered"
      BY DEF RequestsDone
    <3>1. Placed(o)'
      BY <1>1 DEF RequestSafe
    <3>2. stage'[o] \in InFlight \cup {"unsent", "answered", "lost"} /\ phase'[p] = "closing"
      BY <2>1 DEF Typed, StepOf
    <3> QED BY <3>1, <3>2, NoneAssumption DEF Placed
  <2> QED BY <2>1, ConfigStable DEF ReplicaSafe, StepOf, ServerInv
<1>3. ASSUME NEW p \in Replicas PROVE PoolSafe(p)'
  <2>1. CASE session'[q] \notin Open \/ (session[q] \in Open /\ home'[q] = home[q])
    <3>1. PoolOf(p)' \subseteq PoolOf(p)
      BY <2>1 DEF PoolOf, StepOf, Same
    <3> QED BY <1>2, <3>1, PoolShrinks DEF StepOf, ServerInv
  <2> QED BY <2>1
<1> QED BY <1>1, <1>2, <1>3 DEF ServerInv

\* The end of a request, whatever it is told: its timers stop and its connection
\* goes back, or is on its way.
LEMMA AnswerStep ==
  ASSUME ServerInv, NEW q \in Requests, stage[q] \in InFlight, NEW response \in Responses,
         Answer(q, response),
         prompt[q] => response # "408_in_queue",
         lock_timeout # 0 => response # "cancelled_while_blocked"
  PROVE  ServerInv'
<1>1. Typed /\ RequestSafe(q)
  BY DEF ServerInv
<1>2. StepOf(q)
  BY <1>1 DEF StepOf, Same, Answer, Typed
<1>3. Typed'
  BY <1>1 DEF Answer, Typed, Timers
<1>4. /\ stage'[q] = "answered" /\ told'[q] = response
      /\ session'[q] = IF session[q] = "busy" THEN "returning" ELSE session[q]
      /\ UNCHANGED <<phase, timer, since, env>>
      /\ home'[q] = home[q] /\ prompt'[q] = prompt[q] /\ left'[q] = left[q]
  BY <1>1 DEF Answer, Typed
<1>5. RequestSafe(q)'
  <2> USE <1>1, <1>4, ConfigStable DEF RequestSafe
  <2>1. Placed(q)'
    BY DEF Placed
  <2>2. Timed(q)'
    BY DEF Timed, Placed
  <2>3. Outlasted(q)'
    BY DEF Outlasted, Placed
  <2>4. Explained(q)'
    BY DEF Explained
  <2> QED BY <2>1, <2>2, <2>3, <2>4
<1> QED BY <1>2, <1>3, <1>4, <1>5, RequestStep

\* A request comes in: it has the whole of request_timeout.
LEMMA ArriveStep ==
  ASSUME ServerInv, NEW q \in Requests, NEW p \in Replicas, Arrive(q, p)
  PROVE  ServerInv'
<1>1. Typed /\ RequestSafe(q) /\ ReplicaSafe(p) /\ ConfigSound
  BY DEF ServerInv, Arrive, ReplicaSafe
<1>2. StepOf(q)
  BY <1>1 DEF StepOf, Same, Arrive, Typed
<1>3. Typed'
  BY <1>1 DEF Arrive, Typed, Timers, ConfigSound
<1>4. /\ stage[q] = "unsent" /\ stage'[q] = "reading" /\ home'[q] = p
      /\ phase'[p] = "serving" /\ deadline'[q] = request_timeout
      /\ told'[q] = told[q] /\ session'[q] = session[q] /\ prompt'[q] = prompt[q]
      /\ env' = env
  BY <1>1 DEF Arrive, Typed
<1>5. RequestSafe(q)'
  <2> USE <1>1, <1>4, ConfigStable DEF RequestSafe
  <2>1. Placed(q)'
    BY DEF Placed
  <2>2. Timed(q)'
    BY DEF Timed, Placed, ConfigSound
  <2>3. Outlasted(q)'
    BY DEF Outlasted
  <2>4. Explained(q)'
    BY DEF Explained
  <2> QED BY <2>1, <2>2, <2>3, <2>4
<1>6. session'[q] \notin Open
  BY <1>1, <1>4 DEF RequestSafe, Placed
<1> QED BY <1>2, <1>3, <1>5, <1>6, RequestStep

\* The handler asks the pool for a connection, first or again.  One that asks at
\* once has more time left than the pool will take: request_timeout is longer
\* than acquire_timeout.
LEMMA AskStep ==
  ASSUME ServerInv, NEW q \in Requests, AskForConnection(q) \/ AskAgain(q)
  PROVE  ServerInv'
<1>1. Typed /\ RequestSafe(q) /\ ConfigSound
  BY DEF ServerInv, AskForConnection, AskAgain, RequestSafe, Placed
<1>2. StepOf(q)
  BY <1>1 DEF StepOf, Same, AskForConnection, AskAgain, Typed
<1>3. Typed'
  <2>1. prompt' \in [Requests -> BOOLEAN]
    <3> DEFINE b == deadline[q] = request_timeout
    <3>1. prompt \in [Requests -> BOOLEAN] /\ b \in BOOLEAN
      BY <1>1 DEF Typed
    <3>2. prompt' \in {[prompt EXCEPT ![q] = b], [prompt EXCEPT ![q] = FALSE]}
      BY DEF AskForConnection, AskAgain
    <3> HIDE DEF b
    <3> QED BY <3>1, <3>2
  <2> QED BY <1>1, <2>1 DEF AskForConnection, AskAgain, Typed, Timers, ConfigSound
<1>4. /\ stage[q] \in InFlight /\ stage'[q] = "queued" /\ home'[q] = home[q]
      /\ deadline'[q] = deadline[q] /\ wait'[q] = acquire_timeout
      /\ prompt'[q] => deadline[q] = request_timeout
      /\ told'[q] = told[q] /\ env' = env /\ UNCHANGED <<phase, timer, since>>
  BY <1>1 DEF AskForConnection, AskAgain, Typed
<1>5. session'[q] = "none"
  BY <1>1 DEF AskForConnection, AskAgain, Typed, RequestSafe, Placed
<1>6. RequestSafe(q)'
  <2> USE <1>1, <1>4, <1>5, ConfigStable DEF RequestSafe
  <2>1. Placed(q)'
    BY DEF Placed
  <2>2. Timed(q)'
    BY DEF Timed, Placed, ConfigSound
  <2>3. Outlasted(q)'
    BY DEF Outlasted
  <2>4. Explained(q)'
    BY NoneAssumption DEF Explained, Placed, Responses
  <2> QED BY <2>1, <2>2, <2>3, <2>4
<1> QED BY <1>2, <1>3, <1>5, <1>6, RequestStep

\* The pool hands out a connection: there was one to spare.
LEMMA AcquireStep ==
  ASSUME ServerInv, NEW q \in Requests, Acquire(q)
  PROVE  ServerInv'
<1>1. Typed /\ RequestSafe(q) /\ ConfigSound /\ home[q] \in Replicas
  BY DEF ServerInv, Acquire, RequestSafe, Placed
<1>2. StepOf(q)
  BY <1>1 DEF StepOf, Same, Acquire, Typed
<1>3. Typed'
  BY <1>1, Limits DEF Acquire, Typed, Timers
<1>4. /\ stage[q] = "queued" /\ stage'[q] = "executing" /\ home'[q] = home[q]
      /\ deadline'[q] = deadline[q] /\ left'[q] = statement_timeout
      /\ prompt'[q] = prompt[q] /\ told'[q] = told[q] /\ session'[q] = "busy"
      /\ env' = env /\ UNCHANGED <<phase, timer, since>>
  BY <1>1, Limits DEF Acquire, Typed
<1>5. RequestSafe(q)'
  <2> USE <1>1, <1>4, ConfigStable DEF RequestSafe
  <2>1. Placed(q)'
    BY DEF Placed
  <2>2. Timed(q)'
    BY DEF Timed, Placed, ConfigSound
  <2>3. Outlasted(q)'
    BY DEF Outlasted, Placed
  <2>4. Explained(q)'
    BY DEF Explained
  <2> QED BY <2>1, <2>2, <2>3, <2>4
<1>6. ASSUME NEW p \in Replicas PROVE PoolSafe(p)'
  <2>0. PoolSafe(p)
    BY DEF ServerInv
  <2>1. CASE p = home[q]
    <3>1. PoolOf(p)' = PoolOf(p) \cup {q}
      BY <1>1, <1>2, <1>4, <2>1 DEF PoolOf, StepOf, Same
    <3>f. IsFiniteSet(PoolOf(p)) /\ Cardinality(PoolOf(p)) \in Nat
      BY <2>0, FS_CardinalityType DEF PoolSafe
    <3>a. /\ IsFiniteSet(PoolOf(p)')
          /\ Cardinality(PoolOf(p)') \in {Cardinality(PoolOf(p)), Cardinality(PoolOf(p)) + 1}
      <4> HIDE DEF PoolOf
      <4> QED BY <3>1, <3>f, FS_AddElement
    <3>2. /\ IsFiniteSet(PoolOf(p)')
          /\ Cardinality(PoolOf(p)') <= Cardinality(PoolOf(p)) + 1
      BY <3>a, <3>f
    <3>3. /\ Cardinality(PoolOf(p)) \in Nat /\ Cardinality(PoolOf(p)') \in Nat
          /\ Cardinality(PoolOf(p)) < max_connections
      BY <2>0, <2>1, <3>2, FS_CardinalityType DEF PoolSafe, Acquire
    <3> QED BY <1>1, <1>4, <3>2, <3>3, ConfigStable DEF PoolSafe, ConfigSound
  <2>2. CASE p # home[q]
    <3>1. PoolOf(p)' = PoolOf(p)
      BY <1>1, <1>2, <1>4, <2>2 DEF PoolOf, StepOf, Same
    <3> QED BY <1>4, <2>0, <3>1, ConfigStable DEF PoolSafe
  <2> QED BY <2>1, <2>2
<1> QED BY <1>2, <1>3, <1>5, <1>6, RequestStep

\* A statement meets a lock, gets it, or is followed by the next: one that meets
\* it at once has more time left than lock_timeout.
LEMMA StatementStep ==
  ASSUME ServerInv, NEW q \in Requests, MeetLock(q) \/ GetLock(q) \/ NextStatement(q)
  PROVE  ServerInv'
<1>1. Typed /\ RequestSafe(q) /\ ConfigSound
  BY DEF ServerInv, MeetLock, GetLock, NextStatement, RequestSafe, Placed
<1>2. StepOf(q)
  BY <1>1 DEF StepOf, Same, MeetLock, GetLock, NextStatement, Typed
<1>3. Typed'
  BY <1>1, Limits DEF MeetLock, GetLock, NextStatement, Typed, Timers
<1>4. /\ stage[q] \in InStatement /\ stage'[q] \in InStatement /\ home'[q] = home[q]
      /\ deadline'[q] = deadline[q] /\ session'[q] = session[q]
      /\ prompt'[q] = prompt[q] /\ told'[q] = told[q]
      /\ env' = env /\ UNCHANGED <<phase, timer, since>>
      /\ left'[q] \in {left[q], statement_timeout}
      /\ stage'[q] = "blocked" =>
            /\ left'[q] = statement_timeout
            /\ lock_timeout # 0 => wait'[q] = lock_timeout
  BY <1>1, Limits DEF MeetLock, GetLock, NextStatement, Typed
<1>5. RequestSafe(q)'
  <2> USE <1>1, <1>4, ConfigStable DEF RequestSafe
  <2>1. Placed(q)'
    BY DEF Placed
  <2>2. Timed(q)'
    BY DEF Timed, Placed, ConfigSound
  <2>3. Outlasted(q)'
    BY DEF Outlasted, Placed
  <2>4. Explained(q)'
    BY DEF Explained
  <2> QED BY <2>1, <2>2, <2>3, <2>4
<1>6. session[q] \in Open
  BY <1>1, <1>4 DEF RequestSafe, Placed
<1> QED BY <1>2, <1>3, <1>4, <1>5, <1>6, RequestStep

\* A session that has outlived its handler, or its process, changes or ends.
LEMMA SessionStep ==
  ASSUME ServerInv, NEW q \in Requests,
         ReturnConnection(q) \/ StatementEnds(q) \/ IdleTimesOut(q)
  PROVE  ServerInv'
<1>1. Typed /\ RequestSafe(q) /\ ConfigSound
  BY DEF ServerInv, ReturnConnection, StatementEnds, IdleTimesOut, RequestSafe, Placed
<1>2. StepOf(q)
  BY <1>1 DEF StepOf, Same, ReturnConnection, StatementEnds, IdleTimesOut, Typed
<1>3. Typed'
  BY <1>1, Limits DEF ReturnConnection, StatementEnds, IdleTimesOut, Typed, Timers
<1>4. /\ session[q] \in {"returning"} \cup Abandoned
      /\ \/ session'[q] = "none"
         \/ session'[q] = "idle" /\ session[q] = "orphan"
      /\ UNCHANGED <<phase, timer, since, env, home, stage, deadline, wait, prompt, told>>
  BY <1>1 DEF ReturnConnection, StatementEnds, IdleTimesOut, Typed
<1>5. RequestSafe(q)'
  <2> USE <1>1, <1>4, ConfigStable DEF RequestSafe
  <2>1. Placed(q)'
    BY DEF Placed
  <2>2. Timed(q)'
    BY DEF Timed, Placed
  <2>3. Outlasted(q)'
    BY DEF Outlasted, Placed
  <2>4. Explained(q)'
    BY DEF Explained
  <2> QED BY <2>1, <2>2, <2>3, <2>4
<1>6. session'[q] \notin Open
  BY <1>4
<1> QED BY <1>2, <1>3, <1>5, <1>6, RequestStep

\* A limit strikes: TimeoutLayer cannot find a prompt request in the queue, nor
\* statement_timeout one that was blocked from its first moment.
LEMMA ExpireStep ==
  ASSUME ServerInv, NEW q \in Requests, Expire(q)
  PROVE  ServerInv'
<1>1. Typed /\ RequestSafe(q)
  BY DEF ServerInv
<1>2. ASSUME AcquireTimesOut(q) \/ LockTimesOut(q)
      PROVE  ServerInv'
  BY <1>2, AnswerStep DEF AcquireTimesOut, LockTimesOut, Responses
<1>3. ASSUME StatementTimesOut(q)
      PROVE  ServerInv'
  <2>1. stage[q] = "blocked" => lock_timeout = 0
    BY <1>1, <1>3 DEF StatementTimesOut, RequestSafe, Timed
  <2> QED BY <1>3, <2>1, AnswerStep DEF StatementTimesOut, Responses
<1>4. ASSUME RequestTimesOut(q)
      PROVE  ServerInv'
  <2>1. stage[q] = "queued" => ~prompt[q]
    BY <1>1, <1>4 DEF RequestTimesOut, RequestSafe, Timed
  <2> QED BY <1>4, <2>1, AnswerStep DEF RequestTimesOut, Responses
<1> QED BY <1>2, <1>3, <1>4, SessionStep DEF Expire
-----------------------------------------------------------------------------
(* Steps of a replica *)

\* A step of the replica p: the others, and the requests they serve, go on as
\* before.
StepOfReplica(p) ==
    /\ env' = env /\ home' = home
    /\ \A o \in Replicas \ {p} : phase'[o] = phase[o] /\ timer'[o] = timer[o] /\ since'[o] = since[o]
    /\ \A q \in Requests : home[q] # p => Same(q)

\* What such a step has to keep: the types, the safety of p and of the requests it
\* serves, and it opens no session.
LEMMA ReplicaStep ==
  ASSUME ServerInv, NEW p \in Replicas, StepOfReplica(p), Typed', migrated => migrated',
         ReplicaSafe(p)', \A q \in Requests : home[q] = p => RequestSafe(q)',
         PoolOf(p)' \subseteq PoolOf(p),
         phase'[p] = phase[p] \/ phase[p] \notin Starting \cup Ended \/ PoolOf(p)' = {}
  PROVE  ServerInv'
<1>1. ASSUME NEW q \in Requests PROVE RequestSafe(q)'
  <2>1. CASE home[q] # p
    <3>1. RequestSafe(q) /\ Same(q) /\ env' = env
      BY <2>1 DEF ServerInv, StepOfReplica
    <3>2. stage[q] # "unsent" => home[q] \in Replicas \ {p}
      BY <2>1, <3>1 DEF RequestSafe, Placed
    <3> QED BY <3>1, <3>2, FrameRequest DEF StepOfReplica
  <2> QED BY <2>1
<1>2. ASSUME NEW o \in Replicas \ {p} PROVE ReplicaSafe(o)' /\ PoolSafe(o)'
  <2>1. /\ phase'[o] = phase[o] /\ timer'[o] = timer[o] /\ since'[o] = since[o]
        /\ env' = env /\ ReplicaSafe(o) /\ PoolSafe(o) /\ Typed
    BY DEF StepOfReplica, ServerInv
  <2>2. RequestsDone(o) => RequestsDone(o)'
    BY DEF RequestsDone, StepOfReplica, Same
  <2>3. ReplicaSafe(o)'
    BY <2>1, <2>2, ConfigStable DEF ReplicaSafe
  <2>4. PoolOf(o)' \subseteq PoolOf(o)
    BY DEF PoolOf, StepOfReplica, Same
  <2> QED BY <2>1, <2>3, <2>4, PoolShrinks
<1>3. PoolSafe(p)'
  BY PoolShrinks DEF StepOfReplica, ServerInv
<1> QED BY <1>1, <1>2, <1>3 DEF ServerInv

\* A replica that has not begun to serve has no requests, and its pool no sessions
\* of theirs.
LEMMA NoRequestsYet ==
  ASSUME ServerInv, NEW p \in Replicas, phase[p] \in Starting
  PROVE  (\A q \in Requests : home[q] # p) /\ PoolOf(p) = {}
  BY NoneAssumption DEF ServerInv, RequestSafe, Placed, PoolOf

\* main() up to the first request: nothing gets past from_env but a sound
\* configuration, and nothing past the migration but a migrated schema.
LEMMA StartupStep ==
  ASSUME ServerInv, NEW p \in Replicas,
         StartFails(p) \/ Connect(p) \/ LockMigrations(p) \/ Migrate(p)
             \/ MigrationTimesOut(p) \/ Bind(p)
  PROVE  ServerInv'
<1> USE DEF StartFails, Connect, LockMigrations, Migrate, MigrationTimesOut, Bind
<1>1. Typed /\ ReplicaSafe(p)
  BY DEF ServerInv
<1>2. phase[p] \in Starting /\ UNCHANGED <<env, requestVars, since>>
  OBVIOUS
<1>3. (\A q \in Requests : home[q] # p) /\ PoolOf(p) = {}
  BY <1>2, NoRequestsYet
<1>4. ConfigSound \/ phase[p] = "boot"
  BY <1>1 DEF ReplicaSafe
<1>5. Connect(p) => ConfigSound
  BY <1>1, FromEnvSound DEF Typed
<1>6. Typed'
  <2>1. Timers = Nat \cup {None}
    BY DEF Timers
  <2>2. timer' \in [Replicas -> Timers]
    <3>1. timer \in [Replicas -> Timers] /\ None \in Timers
      BY <1>1, <2>1 DEF Typed
    <3>2. ConfigSound => /\ SessionLimit(statement_timeout) \in Timers
                         /\ SessionLimit(lock_timeout) \in Timers
      BY Limits
    <3>3. timer' = timer \/ \E t \in Timers : timer' = [timer EXCEPT ![p] = t]
      BY <1>4, <1>5, <3>1, <3>2
    <3> QED BY <3>1, <3>3
  <2>3. phase' \in [Replicas -> Starting \cup {"serving"} \cup Draining \cup Ended]
    BY <1>1 DEF Typed
  <2>4. migrator' \in Replicas \cup {None} /\ migrated' \in BOOLEAN
    BY <1>1 DEF Typed
  <2> QED BY <1>1, <1>2, <2>2, <2>3, <2>4 DEF Typed
<1>7. /\ phase'[p] \in Starting \cup {"serving", "failed"}
      /\ phase'[p] \notin {"boot", "failed"} => ConfigSound
      /\ phase'[p] \in {"binding", "serving"} => migrated'
      /\ migrated => migrated'
  BY <1>1, <1>4, <1>5 DEF Typed, ReplicaSafe
<1>8. ReplicaSafe(p)'
  BY <1>2, <1>7, ConfigStable DEF ReplicaSafe
<1>9. StepOfReplica(p)
  BY <1>1, <1>2 DEF StepOfReplica, Same, Typed
<1>10. PoolOf(p)' = {}
  BY <1>2, <1>3 DEF PoolOf
<1> QED BY <1>3, <1>6, <1>7, <1>8, <1>9, <1>10, ReplicaStep

\* The signal: from here the replica takes no request, and each it has ends within
\* request_timeout.
LEMMA SignalStep ==
  ASSUME ServerInv, NEW p \in Replicas, ShutdownSignal(p)
  PROVE  ServerInv'
<1>1. Typed /\ ReplicaSafe(p) /\ ConfigSound
  BY DEF ServerInv, ReplicaSafe, ShutdownSignal
<1>2. /\ phase[p] = "serving" /\ phase'[p] = "draining" /\ since'[p] = 0
      /\ UNCHANGED <<env, timer, migrator, migrated, requestVars>>
  BY <1>1 DEF ShutdownSignal, Typed
<1>3. Typed'
  BY <1>1 DEF ShutdownSignal, Typed
<1>4. ReplicaSafe(p)'
  BY <1>1, <1>2, ConfigStable DEF ReplicaSafe, ConfigSound
<1>5. StepOfReplica(p)
  BY <1>1 DEF StepOfReplica, Same, ShutdownSignal, Typed
<1>6. ASSUME NEW q \in Requests, home[q] = p PROVE RequestSafe(q)'
  <2> USE <1>2, <1>6, ConfigStable DEF RequestSafe
  <2>0. RequestSafe(q) /\ stage[q] # "unsent"
    BY NoneAssumption DEF ServerInv, Placed
  <2>1. Placed(q)'
    BY <2>0 DEF Placed
  <2>2. Timed(q)'
    BY <1>1, <2>0 DEF Timed, ConfigSound
  <2>3. Outlasted(q)'
    BY <2>0 DEF Outlasted
  <2>4. Explained(q)'
    BY <2>0 DEF Explained
  <2> QED BY <2>1, <2>2, <2>3, <2>4
<1>7. PoolOf(p)' = PoolOf(p)
  BY <1>2 DEF PoolOf
<1> QED BY <1>2, <1>3, <1>4, <1>5, <1>6, <1>7, ReplicaStep

\* axum::serve returns and pool.close() begins: every session left is in its last
\* statement, which statement_timeout limits.
LEMMA DrainedStep ==
  ASSUME ServerInv, NEW p \in Replicas, Drained(p)
  PROVE  ServerInv'
<1>1. Typed /\ ReplicaSafe(p) /\ ConfigSound
  BY DEF ServerInv, ReplicaSafe, Drained
<1>2. /\ phase[p] = "draining" /\ phase'[p] = "closing" /\ timer'[p] = shutdown_grace
      /\ UNCHANGED <<env, since, migrator, migrated, requestVars>>
  BY <1>1 DEF Drained, Typed
<1>3. Typed'
  BY <1>1 DEF Drained, Typed, Timers, ConfigSound
<1>4. ReplicaSafe(p)'
  BY <1>1, <1>2, ConfigStable DEF ReplicaSafe, ConfigSound, RequestsDone, Drained, Typed
<1>5. StepOfReplica(p)
  BY <1>1 DEF StepOfReplica, Same, Drained, Typed
<1>6. ASSUME NEW q \in Requests, home[q] = p PROVE RequestSafe(q)'
  <2> USE <1>2, <1>6, ConfigStable DEF RequestSafe
  <2>0. RequestSafe(q) /\ stage[q] = "answered"
    BY DEF ServerInv, Drained, RequestsDone
  <2>1. Placed(q)'
    BY <2>0 DEF Placed
  <2>2. Timed(q)'
    BY <2>0 DEF Timed
  <2>3. Outlasted(q)'
    BY <1>1, <2>0 DEF Outlasted, Timed, ConfigSound
  <2>4. Explained(q)'
    BY <2>0 DEF Explained
  <2> QED BY <2>1, <2>2, <2>3, <2>4
<1>7. PoolOf(p)' = PoolOf(p)
  BY <1>2 DEF PoolOf
<1> QED BY <1>2, <1>3, <1>4, <1>5, <1>6, <1>7, ReplicaStep

\* main() returns.  If the grace is over and it was the longer, no session is left
\* to abandon.
LEMMA ExitStep ==
  ASSUME ServerInv, NEW p \in Replicas, Exit(p)
  PROVE  ServerInv'
<1>1. Typed /\ ReplicaSafe(p) /\ ConfigSound
  BY DEF ServerInv, ReplicaSafe, Exit
<1>2. /\ phase[p] = "closing" /\ phase'[p] = "exited"
      /\ UNCHANGED <<env, migrator, migrated, home, stage, deadline, wait, prompt, told, left>>
  BY <1>1 DEF Exit, Typed
<1>3. Typed'
  BY <1>1 DEF Exit, AbandonSessions, Typed, Timers
<1>4. ReplicaSafe(p)'
  BY <1>1, <1>2, ConfigStable DEF ReplicaSafe
<1>5. StepOfReplica(p)
  BY <1>1 DEF StepOfReplica, Same, Exit, AbandonSessions, PoolOf, Typed
<1>6. ASSUME NEW q \in Requests, home[q] = p PROVE RequestSafe(q)'
  <2> USE <1>2, <1>6, ConfigStable DEF RequestSafe
  <2>0. RequestSafe(q) /\ stage[q] = "answered"
    BY <1>1 DEF ServerInv, ReplicaSafe, RequestsDone
  <2>s. session'[q] = IF session[q] \in Open THEN "orphan" ELSE session[q]
    BY DEF Exit, AbandonSessions, PoolOf
  <2>1. Placed(q)'
    BY <2>0, <2>s DEF Placed
  <2>2. Timed(q)'
    BY <2>0, <2>s DEF Timed
  <2>3. Outlasted(q)'
    <3>1. ASSUME shutdown_grace > statement_timeout PROVE session[q] \notin Open
      <4>1. CASE PoolOf(p) = {}
        BY <4>1 DEF PoolOf
      <4>2. CASE timer[p] = 0
        BY <2>0, <3>1, <4>2 DEF Outlasted, Timed
      <4> QED BY <4>1, <4>2 DEF Exit
    <3>2. session[q] \in {"none"} \cup Open \cup Abandoned
      BY <1>1 DEF Typed
    <3> QED BY <2>0, <2>s, <3>1, <3>2 DEF Outlasted, Placed
  <2>4. Explained(q)'
    BY <2>0 DEF Explained
  <2> QED BY <2>1, <2>2, <2>3, <2>4
<1>7. PoolOf(p)' = {}
  BY DEF PoolOf, Exit, AbandonSessions
<1> QED BY <1>2, <1>3, <1>4, <1>5, <1>6, <1>7, ReplicaStep

\* A process that is killed takes its requests with it and leaves its sessions.
LEMMA CrashStep ==
  ASSUME ServerInv, NEW p \in Replicas, Crash(p)
  PROVE  ServerInv'
<1>1. Typed /\ ReplicaSafe(p)
  BY DEF ServerInv
<1>2. /\ phase'[p] = "crashed" /\ phase[p] \notin Ended
      /\ UNCHANGED <<env, migrator, migrated, home, prompt, told, left>>
  BY <1>1 DEF Crash, Typed
<1>3. Typed'
  BY <1>1 DEF Crash, AbandonSessions, Typed, Timers
<1>4. ReplicaSafe(p)'
  BY <1>1, <1>2, ConfigStable DEF ReplicaSafe
<1>5. StepOfReplica(p)
  BY <1>1 DEF StepOfReplica, Same, Crash, AbandonSessions, PoolOf, Typed
<1>6. ASSUME NEW q \in Requests, home[q] = p PROVE RequestSafe(q)'
  <2> USE <1>2, <1>6, ConfigStable DEF RequestSafe
  <2>0. RequestSafe(q) /\ stage[q] # "unsent"
    BY NoneAssumption DEF ServerInv, Placed
  <2>s. /\ session'[q] = IF session[q] \in Open THEN "orphan" ELSE session[q]
        /\ stage'[q] = IF stage[q] # "answered" THEN "lost" ELSE stage[q]
    BY DEF Crash, AbandonSessions, PoolOf
  <2>1. Placed(q)'
    BY <2>0, <2>s DEF Placed
  <2>2. Timed(q)'
    BY <2>0, <2>s DEF Timed
  <2>3. Outlasted(q)'
    BY DEF Outlasted
  <2>4. Explained(q)'
    BY <2>0 DEF Explained
  <2> QED BY <2>1, <2>2, <2>3, <2>4
<1>7. PoolOf(p)' = {}
  BY DEF PoolOf, Crash, AbandonSessions
<1> QED BY <1>2, <1>3, <1>4, <1>5, <1>6, <1>7, ReplicaStep

\* The server drops the advisory lock of a dead session.
LEMMA ReleaseStep ==
  ASSUME ServerInv, ReleaseMigrator
  PROVE  ServerInv'
<1>1. UNCHANGED <<env, phase, timer, since, migrated, requestVars>> /\ migrator' = None
  BY DEF ReleaseMigrator
<1>2. Typed'
  BY <1>1 DEF ServerInv, Typed
<1>3. ASSUME NEW q \in Requests PROVE RequestSafe(q)'
  BY <1>1, FrameRequest DEF ServerInv, Same
<1>4. ASSUME NEW p \in Replicas PROVE ReplicaSafe(p)' /\ PoolSafe(p)'
  BY <1>1, ConfigStable DEF ServerInv, ReplicaSafe, PoolSafe, PoolOf, RequestsDone
<1> QED BY <1>2, <1>3, <1>4 DEF ServerInv
-----------------------------------------------------------------------------
(* Time *)

\* A timer that runs and is not over has a second less; one that is off stays off.
LEMMA Counted ==
  ASSUME NEW t \in Timers, t # 0
  PROVE  /\ CountDown(t) \in Timers
         /\ t \in Nat => CountDown(t) = t - 1 /\ CountDown(t) \in Nat
  BY NoneAssumption DEF CountDown, Timers

\* Time passes for all timers at once, so that those that run together keep their
\* distance; it stops when a draining replica has no request left, so that since
\* never gains on the last request's deadline.
LEMMA TickStep ==
  ASSUME ServerInv, Tick
  PROVE  ServerInv'
<1>1. Typed
  BY DEF ServerInv
<1>2. /\ \A p \in Replicas : timer[p] # 0
      /\ \A q \in Requests : deadline[q] # 0 /\ wait[q] # 0 /\ left[q] # 0
      /\ \A p \in Replicas : phase[p] = "draining" => ~RequestsDone(p)
  BY DEF Tick, Due
<1>3. UNCHANGED <<env, phase, migrator, migrated, home, stage, prompt, told, session>>
  BY DEF Tick
<1>4. ASSUME NEW q \in Requests
      PROVE  /\ deadline'[q] = CountDown(deadline[q]) /\ deadline'[q] \in Timers
             /\ wait'[q] = CountDown(wait[q]) /\ wait'[q] \in Timers
             /\ left'[q] = CountDown(left[q]) /\ left'[q] \in Timers
             /\ deadline[q] \in Nat => deadline'[q] = deadline[q] - 1 /\ deadline'[q] \in Nat
             /\ wait[q] \in Nat => wait'[q] = wait[q] - 1 /\ wait'[q] \in Nat
             /\ left[q] \in Nat => left'[q] = left[q] - 1 /\ left'[q] \in Nat
  BY <1>1, <1>2, Counted DEF Typed, Tick
<1>5. ASSUME NEW p \in Replicas
      PROVE  /\ timer'[p] = CountDown(timer[p]) /\ timer'[p] \in Timers
             /\ timer[p] \in Nat => timer'[p] = timer[p] - 1 /\ timer'[p] \in Nat
             /\ since'[p] = (IF phase[p] \in Draining THEN since[p] + 1 ELSE since[p])
             /\ since'[p] \in Nat /\ since[p] \in Nat
  BY <1>1, <1>2, Counted DEF Typed, Tick
<1>6. Typed'
  <2>1. /\ deadline' \in [Requests -> Timers] /\ wait' \in [Requests -> Timers]
        /\ left' \in [Requests -> Timers] /\ timer' \in [Replicas -> Timers]
        /\ since' \in [Replicas -> Nat]
    BY <1>4, <1>5 DEF Tick
  <2> QED BY <1>1, <1>3, <2>1 DEF Typed
<1>7. ASSUME NEW q \in Requests PROVE RequestSafe(q)'
  <2> USE <1>3, <1>4, ConfigStable DEF RequestSafe
  <2>0. RequestSafe(q) /\ stage[q] \in InFlight \cup {"unsent", "answered", "lost"}
    BY <1>1 DEF ServerInv, Typed
  <2>c. stage[q] # "unsent" => ConfigSound /\ home[q] \in Replicas
    BY <2>0 DEF Placed
  <2>1. Placed(q)'
    BY <2>0 DEF Placed
  <2>2. Timed(q)'
    <3>1. CASE stage[q] = "unsent"
      BY <2>0, <3>1 DEF Placed, Timed
    <3>2. CASE stage[q] # "unsent"
      <4>1. stage[q] = "blocked" => session[q] \in Open
        BY <2>0 DEF Placed
      <4>2. /\ stage[q] \in InFlight => deadline'[q] \in Nat /\ deadline'[q] <= request_timeout
            /\ session[q] \in Open => left'[q] \in Nat /\ left'[q] <= statement_timeout
        BY <2>0, <2>c, <3>2 DEF Timed, ConfigSound
      <4>3. /\ stage[q] = "queued" => wait'[q] \in Nat
            /\ stage[q] = "queued" /\ prompt[q] => wait'[q] < deadline'[q]
            /\ stage[q] = "blocked" /\ lock_timeout # 0 => wait'[q] \in Nat /\ wait'[q] < left'[q]
        BY <2>0, <4>1 DEF Timed
      <4>4. stage[q] \in InFlight /\ phase[home[q]] = "draining" =>
                since'[home[q]] + deadline'[q] <= request_timeout
        BY <1>5, <2>0, <2>c, <3>2 DEF Timed
      <4> QED BY <4>2, <4>3, <4>4 DEF Timed
    <3> QED BY <3>1, <3>2
  <2>3. Outlasted(q)'
    BY <1>5, <2>0, <2>c DEF Outlasted, Timed, Placed, ReplicaSafe, ServerInv
  <2>4. Explained(q)'
    BY <2>0 DEF Explained
  <2> QED BY <2>1, <2>2, <2>3, <2>4
<1>8. ASSUME NEW p \in Replicas PROVE ReplicaSafe(p)' /\ PoolSafe(p)'
  <2>0. ReplicaSafe(p) /\ PoolSafe(p)
    BY DEF ServerInv
  <2>1. PoolOf(p)' = PoolOf(p) /\ (RequestsDone(p) => RequestsDone(p)')
    BY <1>3 DEF PoolOf, RequestsDone
  <2>2. phase[p] = "draining" => since'[p] <= request_timeout
    <3> SUFFICES ASSUME phase[p] = "draining" PROVE since'[p] <= request_timeout
      OBVIOUS
    <3>1. PICK q \in Requests : home[q] = p /\ stage[q] # "answered"
      BY <1>2 DEF RequestsDone
    <3>2. stage[q] \in InFlight /\ ConfigSound
      BY <1>1, <3>1, NoneAssumption DEF Typed, ServerInv, RequestSafe, Placed
    <3>3. /\ since[p] + deadline[q] <= request_timeout
          /\ deadline[q] \in Nat /\ deadline[q] # 0
      BY <1>2, <3>1, <3>2 DEF ServerInv, RequestSafe, Timed
    <3> QED BY <1>5, <3>2, <3>3 DEF ConfigSound
  <2>3. ReplicaSafe(p)'
    BY <1>3, <1>5, <2>0, <2>1, <2>2, ConfigStable DEF ReplicaSafe, ConfigSound
  <2> QED BY <1>3, <2>0, <2>1, <2>3, ConfigStable DEF PoolSafe
<1> QED BY <1>6, <1>7, <1>8 DEF ServerInv
-----------------------------------------------------------------------------
(* The theorems *)

\* Before anything has started, all is safe.
LEMMA ServerInitially == Init => ServerInv
<1> SUFFICES ASSUME Init PROVE ServerInv
  OBVIOUS
<1>1. Typed
  BY DEF Init, Typed, Timers
<1>2. ASSUME NEW q \in Requests PROVE RequestSafe(q)
  BY <1>2, NoneAssumption DEF Init, RequestSafe, Placed, Timed, Outlasted, Explained, Responses
<1>3. ASSUME NEW p \in Replicas PROVE ReplicaSafe(p) /\ PoolSafe(p)
  <2>1. phase[p] = "boot" /\ PoolOf(p) = {}
    BY DEF Init, PoolOf
  <2> QED BY <2>1, FS_EmptySet DEF ReplicaSafe, PoolSafe
<1> QED BY <1>1, <1>2, <1>3 DEF ServerInv

\* Every step of every actor, and of time, keeps the invariant.
LEMMA ServerStep ==
  ASSUME ServerInv, [Next]_vars
  PROVE  ServerInv'
<1>1. CASE UNCHANGED vars
  <2>1. Typed'
    BY <1>1 DEF vars, ServerInv, Typed
  <2>2. ASSUME NEW q \in Requests PROVE RequestSafe(q)'
    BY <1>1, FrameRequest DEF vars, ServerInv, Same
  <2>3. ASSUME NEW p \in Replicas PROVE ReplicaSafe(p)' /\ PoolSafe(p)'
    BY <1>1, ConfigStable DEF vars, ServerInv, ReplicaSafe, PoolSafe, PoolOf, RequestsDone
  <2> QED BY <2>1, <2>2, <2>3 DEF ServerInv
<1>2. ASSUME NEW p \in Replicas, Main(p) \/ ShutdownSignal(p) \/ Crash(p)
      PROVE  ServerInv'
  BY <1>2, StartupStep, SignalStep, DrainedStep, ExitStep, CrashStep DEF Main
<1>3. ASSUME NEW q \in Requests, Respond(q)
      PROVE  ServerInv'
  BY <1>3, AnswerStep DEF Respond, Responses
<1>4. ASSUME NEW q \in Requests,
             \/ \E p \in Replicas : Arrive(q, p)
             \/ AskForConnection(q)
             \/ Acquire(q)
             \/ MeetLock(q)
             \/ GetLock(q)
             \/ NextStatement(q)
             \/ AskAgain(q)
             \/ ReturnConnection(q)
             \/ StatementEnds(q)
             \/ Expire(q)
      PROVE  ServerInv'
  BY <1>4, ArriveStep, AskStep, AcquireStep, StatementStep, SessionStep, ExpireStep
<1> QED BY <1>1, <1>2, <1>3, <1>4, ReleaseStep, TickStep DEF Next

\* The inductive invariant: whatever the environment, however requests, signals,
\* crashes and time interleave, every timer is where the ones it is compared with
\* allow it to be.
THEOREM ServerInvariant == Spec => []ServerInv
  BY ServerInitially, ServerStep, PTL DEF Spec

\* Type correctness, for any number of replicas and requests: in particular a pool
\* never exceeds max_connections, and no replica serves an unmigrated schema.
THEOREM ServerTypeCorrect == Spec => []ServerTypeOK
<1>1. ServerInv => ServerTypeOK
  BY DEF ServerInv, Typed, ServerTypeOK, PoolSafe, ReplicaSafe
<1> QED BY <1>1, ServerInvariant, PTL

\* request_timeout > acquire_timeout does what Config says it is for, for all values
\* that validate accepts: TimeoutLayer never cancels a request that asked for its
\* first connection at once and is still in the queue.
THEOREM PromptRequestsHeard == Spec => []QueuedNotCancelled
<1>1. ServerInv => QueuedNotCancelled
  BY DEF ServerInv, RequestSafe, Explained, QueuedNotCancelled
<1> QED BY <1>1, ServerInvariant, PTL

\* statement_timeout > lock_timeout does what Config says it is for, for all values
\* that validate accepts: a statement that only waits for a lock ends by
\* lock_timeout.
THEOREM LockTimeoutNamed == Spec => []CauseReported
<1>1. ServerInv => CauseReported
  BY DEF ServerInv, RequestSafe, Explained, CauseReported
<1> QED BY <1>1, ServerInvariant, PTL

\* A shutdown takes request_timeout + shutdown_grace at the most.
THEOREM ShutdownInTime == Spec => []ShutdownBounded
<1>1. ServerInv => ShutdownBounded
  <2> SUFFICES ASSUME ServerInv, NEW p \in Replicas, phase[p] \in Draining
               PROVE  since[p] <= request_timeout + shutdown_grace
    BY DEF ShutdownBounded
  <2>1. ReplicaSafe(p) /\ ConfigSound /\ since[p] \in Nat
    BY DEF ServerInv, ReplicaSafe, Typed
  <2> QED BY <2>1 DEF ReplicaSafe, ConfigSound
<1> QED BY <1>1, ServerInvariant, PTL

\* With a grace longer than a statement may take, an orderly exit abandons no
\* session, in whatever state a request left it.
THEOREM ExitLeavesNothing == Spec => []CleanExit
<1>1. ServerInv => CleanExit
  BY DEF ServerInv, RequestSafe, Outlasted, Placed, CleanExit
<1> QED BY <1>1, ServerInvariant, PTL
=============================================================================
