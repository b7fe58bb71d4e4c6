--------------------------- MODULE ReadWriteLock ---------------------------
(***************************************************************************)
(* What src/src/core/shared_atomic_mutex.h promises of the lock, without   *)
(* the bitfield: any number of readers or one writer, and a waiting writer *)
(* keeps new readers out.                                                  *)
(***************************************************************************)
CONSTANT Threads

VARIABLES
    readers,   \* threads with an active shared lock
    writers,   \* threads with the active unique lock
    waiting    \* threads inside lock() or upgrade()

vars == <<readers, writers, waiting>>

Init ==
    /\ readers = {}
    /\ writers = {}
    /\ waiting = {}

Outside(t) == t \notin readers \union writers \union waiting

\* lock(): the request blocks new readers at once.
Request(t) ==
    /\ Outside(t)
    /\ waiting' = waiting \union {t}
    /\ UNCHANGED <<readers, writers>>

\* upgrade(): the reader gives its shared lock up and waits like a writer.
Upgrade(t) ==
    /\ t \in readers
    /\ readers' = readers \ {t}
    /\ waiting' = waiting \union {t}
    /\ UNCHANGED writers

\* The unique lock is handed to a waiting thread once nobody holds the lock.
Grant(t) ==
    /\ t \in waiting
    /\ readers = {}
    /\ writers = {}
    /\ writers' = {t}
    /\ waiting' = waiting \ {t}
    /\ UNCHANGED readers

\* A successful try_lock(): nobody holds the lock, but others may be waiting.
TryUnique(t) ==
    /\ Outside(t)
    /\ readers = {}
    /\ writers = {}
    /\ writers' = {t}
    /\ UNCHANGED <<readers, waiting>>

\* lock_shared() and a successful try_lock_shared(): no writer holds or waits.
Share(t) ==
    /\ Outside(t)
    /\ writers = {}
    /\ waiting = {}
    /\ readers' = readers \union {t}
    /\ UNCHANGED <<writers, waiting>>

Release(t) ==
    /\ t \in readers \union writers
    /\ readers' = readers \ {t}
    /\ writers' = writers \ {t}
    /\ UNCHANGED waiting

Next ==
    \E t \in Threads :
        \/ Request(t) \/ Upgrade(t) \/ Grant(t)
        \/ TryUnique(t) \/ Share(t) \/ Release(t)

Spec == Init /\ [][Next]_vars
============================================================================
