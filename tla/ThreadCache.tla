---------------------------- MODULE ThreadCache ----------------------------
(***************************************************************************)
(* The thread rows of PostgreSQL and their copy in Valkey, ai:thread:{id}  *)
(* (services/thread_service.py): get_thread reads through the cache and    *)
(* fills it, the requests of controllers/ai_chat_controller.py invalidate  *)
(* it while their transaction is still open, and the agent worker and the  *)
(* finalizer write the rows with a ThreadRepository of their own.          *)
(*                                                                         *)
(* The readers are all the callers of get_thread: the page that loads a    *)
(* thread or polls it, the handlers that check who owns it, the relay      *)
(* endpoint, and the run that wants the history.  A behaviour is shorter   *)
(* than CACHE_TTL, 24 hours.                                               *)
(***************************************************************************)
EXTENDS Naturals

CONSTANTS
    Readers,            \* the calls of get_thread that may overlap
    MaxTurns,           \* bound: turns of the thread
    NoCopy              \* the key does not exist (a model value)

Turns == 1..MaxTurns
Status == {"absent", "active", "completed", "failed"}
Rows == [Turns -> Status]

VARIABLES
    rows,               \* the committed status of the answer of each turn
    cache,              \* ai:thread:{id}
    request,            \* the turn whose transaction is open, 0 if there is none
    invalidated,        \* it has deleted the key
    reader,             \* where each call of get_thread is
    asked,              \* history: the rows when it was called
    found               \* what it has read, and what it returned

requestVars == <<request, invalidated>>
readerVars == <<reader, asked, found>>
cacheVars == <<rows, cache, requestVars, readerVars>>

CacheInit ==
    /\ rows = [t \in Turns |-> "absent"]
    /\ cache = NoCopy
    /\ request = 0 /\ invalidated = FALSE
    /\ reader = [r \in Readers |-> "returned"]
    /\ asked = [r \in Readers |-> rows]
    /\ found = [r \in Readers |-> rows]

-----------------------------------------------------------------------------
(* The requests create_thread, add_message and regenerate_response.        *)

\* add_message of the service: the rows of turn t are flushed.  The unique
\* index refuses a turn beside an active one.
Flushes(t) ==
    /\ request = 0
    /\ \A u \in Turns : IF u < t THEN rows[u] \in {"completed", "failed"} ELSE rows[u] = "absent"
    /\ request' = t
    /\ UNCHANGED <<rows, cache, invalidated, readerVars>>

\* _invalidate_cache, at the end of add_message and of update_message_metadata
Invalidates ==
    /\ request # 0
    /\ cache' = NoCopy /\ invalidated' = TRUE
    /\ UNCHANGED <<rows, request, readerVars>>

\* session.commit() of _commit_and_enqueue_agent
Commits ==
    /\ request # 0 /\ invalidated
    /\ rows' = [rows EXCEPT ![request] = "active"]
    /\ request' = 0 /\ invalidated' = FALSE
    /\ UNCHANGED <<cache, readerVars>>

\* _save_completed, _save_status("failed") or the stale finalizer
Settles(t) ==
    /\ rows[t] = "active"
    /\ \E s \in {"completed", "failed"} : rows' = [rows EXCEPT ![t] = s]
    /\ UNCHANGED <<cache, requestVars, readerVars>>

-----------------------------------------------------------------------------
(* get_thread with messages                                                *)

Called(r) ==
    /\ reader[r] = "returned"
    /\ reader' = [reader EXCEPT ![r] = "called"]
    /\ asked' = [asked EXCEPT ![r] = rows]
    /\ UNCHANGED <<rows, cache, requestVars, found>>

\* _get_cache
LooksUp(r) ==
    /\ reader[r] = "called"
    /\ \/ /\ cache # NoCopy
          /\ reader' = [reader EXCEPT ![r] = "returned"]
          /\ found' = [found EXCEPT ![r] = cache]
       \/ /\ cache = NoCopy
          /\ reader' = [reader EXCEPT ![r] = "missed"]
          /\ UNCHANGED found
    /\ UNCHANGED <<rows, cache, requestVars, asked>>

ReadsRows(r) ==
    /\ reader[r] = "missed"
    /\ reader' = [reader EXCEPT ![r] = "read"]
    /\ found' = [found EXCEPT ![r] = rows]
    /\ UNCHANGED <<rows, cache, requestVars, asked>>

\* _set_cache; an error of Redis is swallowed.
FillsCache(r) ==
    /\ reader[r] = "read"
    /\ reader' = [reader EXCEPT ![r] = "returned"]
    /\ cache' \in {found[r], cache}
    /\ UNCHANGED <<rows, requestVars, asked, found>>

-----------------------------------------------------------------------------
CacheNext ==
    \/ \E t \in Turns : Flushes(t) \/ Settles(t)
    \/ Invalidates \/ Commits
    \/ \E r \in Readers : Called(r) \/ LooksUp(r) \/ ReadsRows(r) \/ FillsCache(r)

CacheSpec == CacheInit /\ [][CacheNext]_cacheVars

-----------------------------------------------------------------------------
Settled(s) == s \in {"completed", "failed"}

\* An answer that was settled when get_thread was called is not returned as
\* one that is still being made: the worker's write reaches the cache
\* ("Write Path" in the docstring of thread_service.py).  The page takes what
\* it gets for the state of the answer when it loads or polls the thread.
SettledAnswersSeen ==
    \A r \in Readers : reader[r] = "returned" =>
        \A t \in Turns : Settled(asked[r][t]) => Settled(found[r][t])
=============================================================================
