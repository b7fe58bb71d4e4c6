------------------------- MODULE SharedAtomicMutex -------------------------
(***************************************************************************)
(* The 4-byte writer-preferring shared/exclusive spin lock of              *)
(* src/src/core/shared_atomic_mutex.{h,cpp}.  The atomic word is the       *)
(* record of its three fields; every atomic read-modify-write is one step, *)
(* and the value a compare-and-swap loop compares against is read in a     *)
(* step of its own, so it may be stale when it is used.                    *)
(***************************************************************************)
EXTENDS Naturals, FiniteSets

CONSTANTS
    Threads,
    SharedSize,   \* values of the shared count: 2^16 in the code
    UniqueSize    \* values of the unique count: 2^15 in the code

\* Every thread counts at most once in each field, so neither field overflows
\* as long as there are fewer threads than values.
ASSUME SizeAssumption ==
    /\ IsFiniteSet(Threads)
    /\ SharedSize \in Nat /\ Cardinality(Threads) < SharedSize
    /\ UniqueSize \in Nat /\ Cardinality(Threads) < UniqueSize

VARIABLES
    bits,   \* _bitfield: [flag, unique, shared]
    pc,     \* where each thread is
    old     \* each thread's local oldval

vars == <<bits, pc, old>>

Word == [flag : 0..1, unique : 0..(UniqueSize - 1), shared : 0..(SharedSize - 1)]
Zero == [flag |-> 0, unique |-> 0, shared |-> 0]

PCs == {"idle",          \* outside every call, owning nothing
        "shared",        \* owns a shared lock
        "unique",        \* owns the unique lock
        "acquire_load",  \* in _acquire_unique(), before its first load
        "acquire_cas",   \* in the loop of _acquire_unique()
        "shared_cas",    \* in the loop of lock_shared()
        "try_cas",       \* in the loop of try_lock()
        "try_shared_cas" \* in the loop of try_lock_shared()
       }

----------------------------------------------------------------------------
\* Arithmetic on the packed word: a field that overflows carries into the one
\* above it, a field that underflows borrows from it, and the word wraps.

AddFlag(w) == [w EXCEPT !.flag = (@ + 1) % 2]

AddUnique(w) ==
    IF w.unique + 1 < UniqueSize THEN [w EXCEPT !.unique = @ + 1]
                                 ELSE AddFlag([w EXCEPT !.unique = 0])

AddShared(w) ==
    IF w.shared + 1 < SharedSize THEN [w EXCEPT !.shared = @ + 1]
                                 ELSE AddUnique([w EXCEPT !.shared = 0])

SubUnique(w) ==
    IF w.unique > 0 THEN [w EXCEPT !.unique = @ - 1]
                    ELSE AddFlag([w EXCEPT !.unique = UniqueSize - 1])

SubShared(w) ==
    IF w.shared > 0 THEN [w EXCEPT !.shared = @ - 1]
                    ELSE SubUnique([w EXCEPT !.shared = SharedSize - 1])

\* The masks of the two admission tests.
any_shared_no_unique(w) == [Zero EXCEPT !.shared = w.shared]
no_shared_no_unique(w) == [Zero EXCEPT !.unique = w.unique]

\* Mutant: a reader looks at the flag but not at the writers who wait.
any_unique_flag_only(w) == w.flag # 0

any_unique(w) == w.unique # 0 \/ w.flag # 0

----------------------------------------------------------------------------
Init ==
    /\ bits = Zero
    /\ pc = [t \in Threads |-> "idle"]
    /\ old = [t \in Threads |-> Zero]

Goto(t, here, there) == pc[t] = here /\ pc' = [pc EXCEPT ![t] = there]

\* oldval = _bitfield.load(), on the way into a loop.
Load(t, here, there) ==
    /\ Goto(t, here, there)
    /\ old' = [old EXCEPT ![t] = bits]
    /\ UNCHANGED bits

\* The two outcomes of compare_exchange_weak(expected, desired) in a loop:
\* success stores, failure (spurious ones too) refreshes oldval.
CasOk(t, loop, expected, desired, done) ==
    /\ Goto(t, loop, done)
    /\ bits = expected
    /\ bits' = desired
    /\ old' = [old EXCEPT ![t] = Zero]   \* the local goes out of scope

CasFail(t, loop) ==
    /\ pc[t] = loop
    /\ old' = [old EXCEPT ![t] = bits]
    /\ UNCHANGED <<bits, pc>>

GiveUp(t, loop) ==
    /\ Goto(t, loop, "idle")
    /\ old' = [old EXCEPT ![t] = Zero]
    /\ UNCHANGED bits

\* lock(): announce the writer, then _acquire_unique().
Lock(t) ==
    /\ Goto(t, "idle", "acquire_load")
    /\ bits' = AddUnique(bits)
    /\ UNCHANGED old

\* Mutant: the only reader is upgraded on the spot, past the waiting writers.
UpgradeOnTheSpot(t) ==
    IF bits.shared = 1 /\ bits.flag = 0
    THEN /\ Goto(t, "shared", "unique")
         /\ bits' = AddFlag(SubShared(AddUnique(bits)))
         /\ UNCHANGED old
    ELSE /\ Goto(t, "shared", "acquire_load")
         /\ bits' = SubShared(AddUnique(bits))
         /\ UNCHANGED old

\* Mutant: the shared lock is kept in the count while the upgrader waits.
UpgradeKeepsShared(t) ==
    /\ Goto(t, "shared", "acquire_load")
    /\ bits' = AddUnique(bits)
    /\ UNCHANGED old

\* upgrade(): one fetch_add of one_unique_thread - one_shared_thread.
Upgrade(t) ==
    /\ Goto(t, "shared", "acquire_load")
    /\ bits' = SubShared(AddUnique(bits))
    /\ UNCHANGED old

AcquireLoad(t) == Load(t, "acquire_load", "acquire_cas")

AcquireOk(t) ==
    LET masked == no_shared_no_unique(old[t])
    IN  CasOk(t, "acquire_cas", masked, AddFlag(masked), "unique")

\* Mutant: the failed compare-and-swap does not refresh oldval.
AcquireRetryStale(t) == pc[t] = "acquire_cas" /\ UNCHANGED vars

AcquireRetry(t) == CasFail(t, "acquire_cas")

\* Mutant: unlock() clears the flag and leaves the writer's count behind.
UnlockFlagOnly(t) ==
    /\ Goto(t, "unique", "idle")
    /\ bits' = AddFlag(bits)
    /\ UNCHANGED old

\* unlock(): the flag and this writer's count go in one fetch_sub.
Unlock(t) ==
    /\ Goto(t, "unique", "idle")
    /\ bits' = SubUnique(AddFlag(bits))
    /\ UNCHANGED old

TryLockLoad(t) == Load(t, "idle", "try_cas")

\* Mutant: try_lock() overlooks the active readers.
try_lock_busy_flag_only(w) == w.flag # 0

\* The word try_lock() gives up on.
try_lock_busy(w) == w.shared # 0 \/ w.flag # 0

TryLockBusy(t) ==
    /\ try_lock_busy(old[t])
    /\ GiveUp(t, "try_cas")

TryLockOk(t) ==
    /\ ~try_lock_busy(old[t])
    /\ CasOk(t, "try_cas", old[t], AddFlag(AddUnique(old[t])), "unique")

TryLockRetry(t) == ~try_lock_busy(old[t]) /\ CasFail(t, "try_cas")

LockSharedLoad(t) == Load(t, "idle", "shared_cas")

LockSharedOk(t) ==
    LET masked == any_shared_no_unique(old[t])
    IN  CasOk(t, "shared_cas", masked, AddShared(masked), "shared")

LockSharedRetry(t) == CasFail(t, "shared_cas")

TryLockSharedLoad(t) == Load(t, "idle", "try_shared_cas")

TryLockSharedBusy(t) ==
    /\ any_unique(old[t])
    /\ GiveUp(t, "try_shared_cas")

TryLockSharedOk(t) ==
    /\ ~any_unique(old[t])
    /\ CasOk(t, "try_shared_cas", old[t], AddShared(old[t]), "shared")

TryLockSharedRetry(t) == ~any_unique(old[t]) /\ CasFail(t, "try_shared_cas")

UnlockShared(t) ==
    /\ Goto(t, "shared", "idle")
    /\ bits' = SubShared(bits)
    /\ UNCHANGED old

Acquire(t) == AcquireLoad(t) \/ AcquireOk(t) \/ AcquireRetry(t)
TryLock(t) == TryLockLoad(t) \/ TryLockBusy(t) \/ TryLockOk(t) \/ TryLockRetry(t)
LockShared(t) == LockSharedLoad(t) \/ LockSharedOk(t) \/ LockSharedRetry(t)
TryLockShared(t) ==
    TryLockSharedLoad(t) \/ TryLockSharedBusy(t) \/ TryLockSharedOk(t)
        \/ TryLockSharedRetry(t)

ThreadNext(t) ==
    \/ Lock(t) \/ Upgrade(t) \/ Acquire(t) \/ Unlock(t)
    \/ TryLock(t)
    \/ LockShared(t) \/ TryLockShared(t) \/ UnlockShared(t)

Next == \E t \in Threads : ThreadNext(t)

Spec == Init /\ [][Next]_vars

\* A thread inside lock(), upgrade() or lock_shared() keeps running, a holder's
\* section is bounded (the contract of the header), and a compare-and-swap that
\* finds its value keeps failing spuriously for a bounded time only.  Nothing
\* makes a thread call.
Fairness ==
    \A t \in Threads :
        /\ WF_vars(AcquireLoad(t)) /\ WF_vars(AcquireOk(t))
        /\ WF_vars(old[t] # bits /\ AcquireRetry(t))
        /\ WF_vars(LockSharedOk(t))
        /\ WF_vars(old[t] # bits /\ LockSharedRetry(t))
        /\ WF_vars(Unlock(t)) /\ WF_vars(UnlockShared(t))

FairSpec == Spec /\ Fairness

----------------------------------------------------------------------------
SharedHolders == {t \in Threads : pc[t] = "shared"}
UniqueHolders == {t \in Threads : pc[t] = "unique"}
UniqueWaiters == {t \in Threads : pc[t] \in {"acquire_load", "acquire_cas"}}

\* The types of the state, on which the inductive invariant of the proofs builds.
\* The arithmetic wraps inside Word, so that no field runs into its neighbour is
\* not said here: that is CountsExact.
TypeOK ==
    /\ bits \in Word
    /\ pc \in [Threads -> PCs]
    /\ old \in [Threads -> Word]

\* The lock's purpose: a unique lock excludes every other holder, whatever the
\* interleaving of the compare-and-swap loops with fetch_adds of other calls
\* and however stale the value they compare against.
MutualExclusion ==
    \A t \in UniqueHolders : UniqueHolders = {t} /\ SharedHolders = {}

\* num_shared_locks(), num_unique_locks() and is_unique_locked() report what
\* the header says they do, which is also what the asserts of unlock() and
\* unlock_shared() rely on: no call leaks or loses a count.
CountsExact ==
    /\ bits.shared = Cardinality(SharedHolders)
    /\ bits.unique = Cardinality(UniqueWaiters \union UniqueHolders)
    /\ bits.flag = Cardinality(UniqueHolders)

\* Writer preference: no step admits a reader while a thread waits in lock()
\* or upgrade(), not even a reader whose loop read the word before the writer
\* came.
WriterPreference ==
    [][UniqueWaiters # {} => SharedHolders' \subseteq SharedHolders]_vars

\* A waiting writer or upgrader never leaves everyone stuck (two upgraders,
\* say, each waiting for the other's shared lock): while one waits, the unique
\* lock is granted again and again.
WriterProgress == (UniqueWaiters # {}) ~> (UniqueHolders # {})

\* Readers in lock_shared() are not shut out by a lock nobody wants: one of them
\* is let in, or some writer waits or holds.  A count or a flag that any earlier
\* call left behind would keep them all out for ever with nobody to wait for.
ReaderProgress ==
    (\E t \in Threads : pc[t] = "shared_cas") ~>
        (SharedHolders \union UniqueWaiters \union UniqueHolders # {})

\* The abstract lock, its sets read off the threads' positions.
RWL == INSTANCE ReadWriteLock WITH
          readers <- SharedHolders, writers <- UniqueHolders, waiting <- UniqueWaiters

\* Every step of the bitfield lock is a step of the readers/writer lock the
\* header promises, or changes nobody's standing.
RefinesReadWriteLock == RWL!Spec
============================================================================
