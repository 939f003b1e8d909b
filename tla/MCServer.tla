------------------------------ MODULE MCServer ------------------------------
(***************************************************************************)
(* Small instances of Server for TLC.                                      *)
(***************************************************************************)
EXTENDS Server, TLC

\* Seconds are few, so that timers meet.
Base ==
    [DATABASE_URL |-> "url",
     DATABASE_MAX_CONNECTIONS |-> 1, DATABASE_MIN_CONNECTIONS |-> 1,
     DATABASE_ACQUIRE_TIMEOUT_SECS |-> 1, DATABASE_STATEMENT_TIMEOUT_SECS |-> 2,
     DATABASE_LOCK_TIMEOUT_SECS |-> 1, DATABASE_IDLE_IN_TXN_TIMEOUT_SECS |-> 1,
     REQUEST_TIMEOUT_SECS |-> 2, SHUTDOWN_GRACE_SECS |-> 3]

With(key, value) == key :> value @@ Base

\* The grace longer than a statement; and shorter, with two limits switched off.
Running ==
    {Base,
     [SHUTDOWN_GRACE_SECS |-> 1, DATABASE_LOCK_TIMEOUT_SECS |-> 0,
      DATABASE_IDLE_IN_TXN_TIMEOUT_SECS |-> 0] @@ Base}

\* Environments that main() refuses.
Refused ==
    {With("DATABASE_ACQUIRE_TIMEOUT_SECS", 2), With("DATABASE_LOCK_TIMEOUT_SECS", 2),
     With("DATABASE_MAX_CONNECTIONS", 0), With("DATABASE_MIN_CONNECTIONS", 2),
     With("DATABASE_MIN_CONNECTIONS", Garbage), With("DATABASE_STATEMENT_TIMEOUT_SECS", 3000000),
     [key \in DOMAIN Base \ {"DATABASE_URL"} |-> Base[key]]}

ServerEnvironments == Running \cup Refused

\* A migration may take longer than a session may wait for a lock.
StartEnvironments == {Base}

\* The grace is shorter than a request may take, as in the defaults.
GraceEnvironments == {With("SHUTDOWN_GRACE_SECS", 1)}
=============================================================================
