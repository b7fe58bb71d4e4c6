---------------------- MODULE SharedAtomicMutexProofs ----------------------
(***************************************************************************)
(* Proofs about SharedAtomicMutex, for any finite set of threads smaller   *)
(* than the two counters.                                                  *)
(*                                                                         *)
(* MutualExclusion is not inductive: a compare-and-swap only looks at the  *)
(* word, so the word must be known to count the holders (CountsExact), and *)
(* the counts must be known not to overflow into each other, which is where*)
(* SizeAssumption enters.  The three together are inductive.               *)
(***************************************************************************)
EXTENDS SharedAtomicMutex, FiniteSetTheorems, TLAPS

Counted == UniqueWaiters \union UniqueHolders

\* The inductive invariant.
IInv == TypeOK /\ CountsExact /\ MutualExclusion

\* The holder and waiter sets of the lock are finite, no larger than Threads,
\* and a thread outside one of them leaves room for one more.
LEMMA CountBound ==
    ASSUME NEW S \in SUBSET Threads
    PROVE  /\ IsFiniteSet(S)
           /\ Cardinality(S) \in Nat
           /\ Cardinality(S) < SharedSize
           /\ Cardinality(S) < UniqueSize
           /\ Cardinality(S) = 0 <=> S = {}
           /\ \A t \in S : /\ Cardinality(S \ {t}) = Cardinality(S) - 1
                           /\ Cardinality(S) > 0
           /\ \A t \in Threads \ S :
                 /\ Cardinality(S \union {t}) = Cardinality(S) + 1
                 /\ Cardinality(S) + 1 < SharedSize
                 /\ Cardinality(S) + 1 < UniqueSize
<1>1. IsFiniteSet(S) /\ Cardinality(S) <= Cardinality(Threads)
  BY SizeAssumption, FS_Subset
<1>2. Cardinality(S) \in Nat /\ Cardinality(Threads) \in Nat
  BY <1>1, SizeAssumption, FS_CardinalityType
<1>3. Cardinality(S) = 0 <=> S = {}
  BY <1>1, FS_EmptySet
<1>4. ASSUME NEW t \in S
      PROVE  Cardinality(S \ {t}) = Cardinality(S) - 1 /\ Cardinality(S) > 0
  <2>1. Cardinality(S \ {t}) = Cardinality(S) - 1
    BY <1>1, FS_RemoveElement
  <2>2. S # {}
    OBVIOUS
  <2> QED
    BY <2>1, <2>2, <1>2, <1>3
<1>5. ASSUME NEW t \in Threads \ S
      PROVE  /\ Cardinality(S \union {t}) = Cardinality(S) + 1
             /\ Cardinality(S) + 1 < SharedSize
             /\ Cardinality(S) + 1 < UniqueSize
  <2>1. Cardinality(S \union {t}) = Cardinality(S) + 1
    BY <1>1, FS_AddElement
  <2>2. (S \union {t}) \in SUBSET Threads
    OBVIOUS
  <2>3. Cardinality(S \union {t}) <= Cardinality(Threads)
    BY <2>2, SizeAssumption, FS_Subset
  <2> QED
    BY <2>1, <2>3, <1>2, SizeAssumption
<1> QED
  BY <1>1, <1>2, <1>3, <1>4, <1>5, SizeAssumption

\* What moving one thread's pc does to the three sets the word counts.
LEMMA Moves ==
    ASSUME pc \in [Threads -> PCs], NEW t \in Threads, NEW there,
           pc' = [pc EXCEPT ![t] = there]
    PROVE  /\ SharedHolders' = IF there = "shared" THEN SharedHolders \union {t}
                                                   ELSE SharedHolders \ {t}
           /\ UniqueHolders' = IF there = "unique" THEN UniqueHolders \union {t}
                                                   ELSE UniqueHolders \ {t}
           /\ UniqueWaiters' = IF there \in {"acquire_load", "acquire_cas"}
                               THEN UniqueWaiters \union {t}
                               ELSE UniqueWaiters \ {t}
  BY DEF SharedHolders, UniqueHolders, UniqueWaiters

LEMMA SetsInThreads ==
    /\ SharedHolders \in SUBSET Threads
    /\ UniqueHolders \in SUBSET Threads
    /\ UniqueWaiters \in SUBSET Threads
    /\ Counted \in SUBSET Threads
  BY DEF SharedHolders, UniqueHolders, UniqueWaiters, Counted

\* A step that only reads the word: the three sets and the word stand still.
LEMMA ReadOnlyStep ==
    ASSUME IInv, NEW t \in Threads, bits' = bits, TypeOK',
           SharedHolders' = SharedHolders, UniqueHolders' = UniqueHolders,
           UniqueWaiters' = UniqueWaiters
    PROVE  IInv'
  BY DEF IInv, CountsExact, MutualExclusion

\* Initially nobody holds the lock and the word is zero.
LEMMA InitIInv == Init => IInv
<1> SUFFICES ASSUME Init PROVE IInv
  OBVIOUS
<1>1. SharedHolders = {} /\ UniqueHolders = {} /\ UniqueWaiters = {}
  BY DEF Init, SharedHolders, UniqueHolders, UniqueWaiters
<1>2. SharedSize > 0 /\ UniqueSize > 0 /\ SharedSize \in Nat /\ UniqueSize \in Nat
  BY CountBound, FS_CardinalityType, SizeAssumption
<1>3. TypeOK
  BY <1>2 DEF Init, TypeOK, Word, Zero, PCs
<1>4. CountsExact
  BY <1>1, FS_EmptySet DEF Init, CountsExact, Zero
<1> QED
  BY <1>1, <1>3, <1>4 DEF IInv, MutualExclusion

\* Every step of a thread keeps the invariant.
LEMMA StepIInv ==
    ASSUME IInv, NEW t \in Threads, ThreadNext(t)
    PROVE  IInv'
<1> USE DEF IInv
<1>sets. /\ SharedHolders \in SUBSET Threads
         /\ UniqueHolders \in SUBSET Threads
         /\ UniqueWaiters \in SUBSET Threads
         /\ Counted \in SUBSET Threads
  BY SetsInThreads
<1>shared. /\ bits.shared = Cardinality(SharedHolders)
           /\ bits.unique = Cardinality(Counted)
           /\ bits.flag = Cardinality(UniqueHolders)
  BY DEF CountsExact, Counted
<1>types. /\ bits \in Word /\ pc \in [Threads -> PCs] /\ old \in [Threads -> Word]
          /\ Zero \in Word
          /\ SharedSize \in Nat /\ UniqueSize \in Nat
  <2>1. SharedSize > 0 /\ UniqueSize > 0
    BY SizeAssumption, FS_CardinalityType
  <2> QED
    BY <2>1, SizeAssumption DEF TypeOK, Word, Zero
<1>1. CASE Lock(t)
  <2>1. pc[t] = "idle" /\ pc' = [pc EXCEPT ![t] = "acquire_load"]
    BY <1>1 DEF Lock, Goto
  <2>2. /\ SharedHolders' = SharedHolders
        /\ UniqueHolders' = UniqueHolders
        /\ Counted' = Counted \union {t}
        /\ t \notin Counted
    BY <2>1, <1>types, Moves DEF SharedHolders, UniqueHolders, UniqueWaiters, Counted
  <2>3. /\ Cardinality(Counted \union {t}) = bits.unique + 1
        /\ bits.unique + 1 < UniqueSize
    BY <2>2, <1>sets, <1>shared, CountBound
  <2>4. bits' = [bits EXCEPT !.unique = @ + 1]
    BY <1>1, <2>3 DEF Lock, AddUnique
  <2>5. TypeOK'
    BY <1>1, <2>1, <2>3, <2>4, <1>types DEF TypeOK, Word, PCs, Lock
  <2>6. CountsExact'
    BY <2>2, <2>3, <2>4, <1>shared, <1>types DEF CountsExact, Counted, Word
  <2> QED
    BY <2>2, <2>5, <2>6 DEF MutualExclusion
<1>2. CASE Upgrade(t)
  <2>1. pc[t] = "shared" /\ pc' = [pc EXCEPT ![t] = "acquire_load"]
    BY <1>2 DEF Upgrade, Goto
  <2>2. /\ SharedHolders' = SharedHolders \ {t}
        /\ UniqueHolders' = UniqueHolders
        /\ Counted' = Counted \union {t}
        /\ t \in SharedHolders
        /\ t \notin Counted
    BY <2>1, <1>types, Moves DEF SharedHolders, UniqueHolders, UniqueWaiters, Counted
  <2>3. /\ Cardinality(Counted \union {t}) = bits.unique + 1
        /\ bits.unique + 1 < UniqueSize
        /\ Cardinality(SharedHolders \ {t}) = bits.shared - 1
        /\ bits.shared > 0
    BY <2>2, <1>sets, <1>shared, CountBound
  <2>4. bits' = [flag |-> bits.flag, unique |-> bits.unique + 1,
                 shared |-> bits.shared - 1]
    BY <1>2, <2>3, <1>types DEF Upgrade, AddUnique, SubShared, Word
  <2>5. TypeOK'
    BY <1>2, <2>1, <2>3, <2>4, <1>types DEF TypeOK, Word, PCs, Upgrade
  <2>6. CountsExact'
    BY <2>2, <2>3, <2>4, <1>shared, <1>types DEF CountsExact, Counted, Word
  <2> QED
    BY <2>2, <2>5, <2>6 DEF MutualExclusion
<1>3. CASE AcquireLoad(t) \/ AcquireRetry(t)
  <2>1. /\ bits' = bits
        /\ old' = [old EXCEPT ![t] = bits]
        /\ pc[t] \in {"acquire_load", "acquire_cas"}
        /\ pc' = [pc EXCEPT ![t] = "acquire_cas"]
    BY <1>3, <1>types DEF AcquireLoad, AcquireRetry, Load, CasFail, Goto
  <2>2. /\ SharedHolders' = SharedHolders
        /\ UniqueHolders' = UniqueHolders
        /\ UniqueWaiters' = UniqueWaiters
    BY <2>1, <1>types, Moves DEF SharedHolders, UniqueHolders, UniqueWaiters
  <2>3. TypeOK'
    BY <2>1, <1>types DEF TypeOK, PCs
  <2> QED
    BY <2>1, <2>2, <2>3, ReadOnlyStep
<1>4. CASE AcquireOk(t)
  <2>1. /\ pc[t] = "acquire_cas" /\ pc' = [pc EXCEPT ![t] = "unique"]
        /\ bits = no_shared_no_unique(old[t])
        /\ bits' = AddFlag(no_shared_no_unique(old[t]))
        /\ old' = [old EXCEPT ![t] = Zero]
    BY <1>4 DEF AcquireOk, CasOk, Goto
  <2>2. bits.shared = 0 /\ bits.flag = 0 /\ bits' = [bits EXCEPT !.flag = 1]
    BY <2>1, <1>types DEF no_shared_no_unique, AddFlag, Zero, Word
  <2>3. SharedHolders = {} /\ UniqueHolders = {}
    BY <2>2, <1>sets, <1>shared, CountBound
  <2>4. /\ SharedHolders' = SharedHolders
        /\ UniqueHolders' = UniqueHolders \union {t}
        /\ Counted' = Counted
        /\ t \notin UniqueHolders
    BY <2>1, <1>types, Moves DEF SharedHolders, UniqueHolders, UniqueWaiters, Counted
  <2>5. Cardinality(UniqueHolders \union {t}) = 1
    BY <2>2, <2>4, <1>sets, <1>shared, CountBound
  <2>6. TypeOK'
    BY <2>1, <2>2, <1>types DEF TypeOK, Word, PCs
  <2>7. CountsExact'
    BY <2>2, <2>4, <2>5, <1>shared, <1>types DEF CountsExact, Counted, Word
  <2> QED
    BY <2>3, <2>4, <2>6, <2>7 DEF MutualExclusion
<1>5. CASE Unlock(t)
  <2>1. pc[t] = "unique" /\ pc' = [pc EXCEPT ![t] = "idle"] /\ old' = old
    BY <1>5 DEF Unlock, Goto
  <2>2. /\ SharedHolders' = SharedHolders
        /\ UniqueHolders' = UniqueHolders \ {t}
        /\ Counted' = Counted \ {t}
        /\ t \in UniqueHolders /\ t \in Counted
    BY <2>1, <1>types, Moves DEF SharedHolders, UniqueHolders, UniqueWaiters, Counted
  <2>3. /\ Cardinality(Counted \ {t}) = bits.unique - 1
        /\ bits.unique > 0
        /\ Cardinality(UniqueHolders \ {t}) = 0
        /\ bits.flag = 1
    <3>1. Cardinality(UniqueHolders \ {t}) = bits.flag - 1 /\ bits.flag > 0
      BY <2>2, <1>sets, <1>shared, CountBound
    <3>2. bits.flag = 1
      BY <3>1, <1>types DEF Word
    <3> QED
      BY <2>2, <3>1, <3>2, <1>sets, <1>shared, CountBound
  <2>4. bits' = [flag |-> 0, unique |-> bits.unique - 1, shared |-> bits.shared]
    <3>1. AddFlag(bits) = [flag |-> 0, unique |-> bits.unique, shared |-> bits.shared]
      BY <2>3, <1>types DEF AddFlag, Word
    <3> QED
      BY <1>5, <2>3, <3>1 DEF Unlock, SubUnique
  <2>5. TypeOK'
    BY <2>1, <2>3, <2>4, <1>types DEF TypeOK, Word, PCs
  <2>6. CountsExact'
    BY <2>2, <2>3, <2>4, <1>shared, <1>types DEF CountsExact, Counted, Word
  <2> QED
    BY <2>2, <2>5, <2>6 DEF MutualExclusion
<1>6. CASE TryLockLoad(t) \/ TryLockBusy(t) \/ TryLockRetry(t) \/ LockSharedLoad(t)
           \/ LockSharedRetry(t) \/ TryLockSharedLoad(t) \/ TryLockSharedBusy(t)
           \/ TryLockSharedRetry(t)
  <2> DEFINE Outside == {"idle", "try_cas", "shared_cas", "try_shared_cas"}
  <2>1. /\ bits' = bits
        /\ old' \in [Threads -> Word]
        /\ pc[t] \in Outside
        /\ \E there \in Outside : pc' = [pc EXCEPT ![t] = there]
    BY <1>6, <1>types DEF TryLockLoad, TryLockBusy, TryLockRetry, LockSharedLoad,
       LockSharedRetry, TryLockSharedLoad, TryLockSharedBusy, TryLockSharedRetry,
       Load, CasFail, GiveUp, Goto
  <2>2. PICK there \in Outside : pc' = [pc EXCEPT ![t] = there]
    BY <2>1
  <2>3. /\ SharedHolders' = SharedHolders
        /\ UniqueHolders' = UniqueHolders
        /\ UniqueWaiters' = UniqueWaiters
    BY <2>1, <2>2, <1>types, Moves DEF SharedHolders, UniqueHolders, UniqueWaiters
  <2>4. TypeOK'
    BY <2>1, <2>2, <1>types DEF TypeOK, PCs
  <2> QED
    BY <2>1, <2>3, <2>4, ReadOnlyStep
<1>7. CASE TryLockOk(t)
  <2>1. /\ pc[t] = "try_cas" /\ pc' = [pc EXCEPT ![t] = "unique"]
        /\ bits = old[t] /\ old[t].shared = 0 /\ old[t].flag = 0
        /\ bits' = AddFlag(AddUnique(old[t]))
        /\ old' = [old EXCEPT ![t] = Zero]
    BY <1>7 DEF TryLockOk, CasOk, Goto, try_lock_busy
  <2>2. /\ SharedHolders' = SharedHolders
        /\ UniqueHolders' = UniqueHolders \union {t}
        /\ Counted' = Counted \union {t}
        /\ t \notin UniqueHolders /\ t \notin Counted
    BY <2>1, <1>types, Moves DEF SharedHolders, UniqueHolders, UniqueWaiters, Counted
  <2>3. SharedHolders = {} /\ UniqueHolders = {}
    BY <2>1, <1>sets, <1>shared, CountBound
  <2>4. /\ Cardinality(Counted \union {t}) = bits.unique + 1
        /\ bits.unique + 1 < UniqueSize
        /\ Cardinality(UniqueHolders \union {t}) = 1
    BY <2>1, <2>2, <1>sets, <1>shared, CountBound
  <2>5. bits' = [flag |-> 1, unique |-> bits.unique + 1, shared |-> bits.shared]
    <3>1. AddUnique(bits) = [flag |-> 0, unique |-> bits.unique + 1,
                             shared |-> bits.shared]
      BY <2>1, <2>4, <1>types DEF AddUnique, Word
    <3> QED
      BY <2>1, <3>1 DEF AddFlag
  <2>6. TypeOK'
    BY <2>1, <2>4, <2>5, <1>types DEF TypeOK, Word, PCs
  <2>7. CountsExact'
    <3>1. /\ bits'.shared = bits.shared
          /\ bits'.unique = bits.unique + 1
          /\ bits'.flag = 1
      BY <2>5
    <3> QED
      BY <2>2, <2>4, <3>1, <1>shared DEF CountsExact, Counted
  <2> QED
    BY <2>2, <2>3, <2>6, <2>7 DEF MutualExclusion
<1>8. CASE LockSharedOk(t) \/ TryLockSharedOk(t)
  <2>1. /\ pc[t] \in {"shared_cas", "try_shared_cas"}
        /\ pc' = [pc EXCEPT ![t] = "shared"]
        /\ bits.unique = 0 /\ bits.flag = 0
        /\ bits' = AddShared(bits)
        /\ old' = [old EXCEPT ![t] = Zero]
    BY <1>8, <1>types DEF LockSharedOk, TryLockSharedOk, CasOk, Goto,
       any_shared_no_unique, any_unique, Zero, Word
  <2>2. /\ SharedHolders' = SharedHolders \union {t}
        /\ UniqueHolders' = UniqueHolders
        /\ Counted' = Counted
        /\ t \notin SharedHolders
    BY <2>1, <1>types, Moves DEF SharedHolders, UniqueHolders, UniqueWaiters, Counted
  <2>3. UniqueHolders = {}
    BY <2>1, <1>sets, <1>shared, CountBound
  <2>4. /\ Cardinality(SharedHolders \union {t}) = bits.shared + 1
        /\ bits.shared + 1 < SharedSize
    BY <2>2, <1>sets, <1>shared, CountBound
  <2>5. bits' = [bits EXCEPT !.shared = @ + 1]
    BY <2>1, <2>4 DEF AddShared
  <2>6. TypeOK'
    BY <2>1, <2>4, <2>5, <1>types DEF TypeOK, Word, PCs
  <2>7. CountsExact'
    BY <2>2, <2>4, <2>5, <1>shared, <1>types DEF CountsExact, Counted, Word
  <2> QED
    BY <2>2, <2>3, <2>6, <2>7 DEF MutualExclusion
<1>9. CASE UnlockShared(t)
  <2>1. pc[t] = "shared" /\ pc' = [pc EXCEPT ![t] = "idle"] /\ old' = old
    BY <1>9 DEF UnlockShared, Goto
  <2>2. /\ SharedHolders' = SharedHolders \ {t}
        /\ UniqueHolders' = UniqueHolders
        /\ Counted' = Counted
        /\ t \in SharedHolders
    BY <2>1, <1>types, Moves DEF SharedHolders, UniqueHolders, UniqueWaiters, Counted
  <2>3. /\ Cardinality(SharedHolders \ {t}) = bits.shared - 1
        /\ bits.shared > 0
    BY <2>2, <1>sets, <1>shared, CountBound
  <2>4. bits' = [bits EXCEPT !.shared = @ - 1]
    BY <1>9, <2>3 DEF UnlockShared, SubShared
  <2>5. TypeOK'
    BY <2>1, <2>3, <2>4, <1>types DEF TypeOK, Word, PCs
  <2>6. CountsExact'
    BY <2>2, <2>3, <2>4, <1>shared, <1>types DEF CountsExact, Counted, Word
  <2> QED
    BY <2>2, <2>5, <2>6 DEF MutualExclusion
<1> QED
  BY <1>1, <1>2, <1>3, <1>4, <1>5, <1>6, <1>7, <1>8, <1>9
  DEF ThreadNext, Acquire, TryLock, LockShared, TryLockShared

\* The invariant holds in every state of every behaviour.
THEOREM Invariance == Spec => []IInv
<1>1. IInv /\ [Next]_vars => IInv'
  <2> SUFFICES ASSUME IInv, [Next]_vars PROVE IInv'
    OBVIOUS
  <2>1. CASE Next
    BY <2>1, StepIInv DEF Next
  <2>2. CASE UNCHANGED vars
    BY <2>2 DEF vars, IInv, TypeOK, CountsExact, MutualExclusion,
       SharedHolders, UniqueHolders, UniqueWaiters
  <2> QED
    BY <2>1, <2>2
<1> QED
  BY InitIInv, <1>1, PTL DEF Spec

\* A unique holder is alone, whatever the threads do.
THEOREM Exclusion == Spec => []MutualExclusion
  BY Invariance, PTL DEF IInv

\* The three introspection calls are exact: no count is lost, left behind or
\* carried into its neighbour.
THEOREM Exactness == Spec => []CountsExact
  BY Invariance, PTL DEF IInv

\* No step admits a reader while a writer or upgrader waits: the waiter is in
\* the unique count, and both reader loops store only over a word without one.
THEOREM Preference == Spec => WriterPreference
<1> DEFINE Keeps == UniqueWaiters # {} => SharedHolders' \subseteq SharedHolders
<1>1. IInv /\ [Next]_vars => [Keeps]_vars
  <2> SUFFICES ASSUME IInv, Next, UniqueWaiters # {}
               PROVE  SharedHolders' \subseteq SharedHolders
    OBVIOUS
  <2>1. PICK t \in Threads : ThreadNext(t)
    BY DEF Next
  <2>2. bits.unique # 0
    BY SetsInThreads, CountBound DEF IInv, CountsExact, Counted
  <2>3. ~(LockSharedOk(t) \/ TryLockSharedOk(t))
    BY <2>2 DEF LockSharedOk, TryLockSharedOk, CasOk, any_shared_no_unique,
       any_unique, Zero
  <2>4. \E there : there # "shared" /\ pc' = [pc EXCEPT ![t] = there]
    BY <2>1, <2>3 DEF IInv, TypeOK, ThreadNext, Lock, Upgrade, Acquire, AcquireLoad,
       AcquireOk, AcquireRetry, Unlock, TryLock, TryLockLoad, TryLockBusy, TryLockOk,
       TryLockRetry, LockShared, LockSharedLoad, LockSharedRetry, TryLockShared,
       TryLockSharedLoad, TryLockSharedBusy, TryLockSharedRetry, UnlockShared,
       Load, CasOk, CasFail, GiveUp, Goto, PCs
  <2> QED
    BY <2>4, Moves DEF IInv, TypeOK
<1> QED
  BY <1>1, Invariance, PTL DEF Spec, WriterPreference

\* Every step of a thread is a step of the abstract lock or invisible in it.
LEMMA StepRefines ==
    ASSUME IInv, NEW t \in Threads, ThreadNext(t)
    PROVE  RWL!Next \/ UNCHANGED RWL!vars
<1>types. pc \in [Threads -> PCs]
  BY DEF IInv, TypeOK
<1> DEFINE outside == t \notin SharedHolders \union UniqueHolders \union UniqueWaiters
<1>1. CASE Lock(t)
  <2>1. pc[t] = "idle" /\ pc' = [pc EXCEPT ![t] = "acquire_load"]
    BY <1>1 DEF Lock, Goto
  <2>2. outside
    BY <2>1 DEF SharedHolders, UniqueHolders, UniqueWaiters
  <2>3. /\ SharedHolders' = SharedHolders
        /\ UniqueHolders' = UniqueHolders
        /\ UniqueWaiters' = UniqueWaiters \union {t}
    BY <2>1, <1>types, Moves DEF SharedHolders, UniqueHolders, UniqueWaiters
  <2>4. RWL!Request(t)
    BY <2>2, <2>3 DEF RWL!Request, RWL!Outside
  <2> QED
    BY <2>4 DEF RWL!Next
<1>2. CASE Upgrade(t)
  <2>1. pc[t] = "shared" /\ pc' = [pc EXCEPT ![t] = "acquire_load"]
    BY <1>2 DEF Upgrade, Goto
  <2>2. t \in SharedHolders /\ t \notin UniqueHolders
    BY <2>1 DEF SharedHolders, UniqueHolders
  <2>3. /\ SharedHolders' = SharedHolders \ {t}
        /\ UniqueHolders' = UniqueHolders
        /\ UniqueWaiters' = UniqueWaiters \union {t}
    BY <2>1, <1>types, Moves DEF SharedHolders, UniqueHolders, UniqueWaiters
  <2>4. RWL!Upgrade(t)
    BY <2>2, <2>3 DEF RWL!Upgrade
  <2> QED
    BY <2>4 DEF RWL!Next
<1>3. CASE AcquireOk(t)
  <2>1. /\ pc[t] = "acquire_cas" /\ pc' = [pc EXCEPT ![t] = "unique"]
        /\ bits.shared = 0 /\ bits.flag = 0
    BY <1>3 DEF AcquireOk, CasOk, Goto, no_shared_no_unique, Zero
  <2>2. SharedHolders = {} /\ UniqueHolders = {}
    BY <2>1, SetsInThreads, CountBound DEF IInv, CountsExact
  <2>3. t \in UniqueWaiters
    BY <2>1 DEF UniqueWaiters
  <2>4. RWL!Grant(t)
    BY <2>1, <2>2, <2>3, <1>types, Moves DEF RWL!Grant
  <2> QED
    BY <2>4 DEF RWL!Next
<1>4. CASE TryLockOk(t)
  <2>1. /\ pc[t] = "try_cas" /\ pc' = [pc EXCEPT ![t] = "unique"]
        /\ bits.shared = 0 /\ bits.flag = 0
    BY <1>4 DEF TryLockOk, CasOk, Goto, try_lock_busy
  <2>2. SharedHolders = {} /\ UniqueHolders = {}
    BY <2>1, SetsInThreads, CountBound DEF IInv, CountsExact
  <2>3. outside
    BY <2>1 DEF SharedHolders, UniqueHolders, UniqueWaiters
  <2>4. /\ SharedHolders' = SharedHolders
        /\ UniqueHolders' = UniqueHolders \union {t}
        /\ UniqueWaiters' = UniqueWaiters
    BY <2>1, <1>types, Moves DEF SharedHolders, UniqueHolders, UniqueWaiters
  <2>5. RWL!TryUnique(t)
    BY <2>2, <2>3, <2>4 DEF RWL!TryUnique, RWL!Outside
  <2> QED
    BY <2>5 DEF RWL!Next
<1>5. CASE LockSharedOk(t) \/ TryLockSharedOk(t)
  <2>1. /\ pc[t] \in {"shared_cas", "try_shared_cas"}
        /\ pc' = [pc EXCEPT ![t] = "shared"]
        /\ bits.unique = 0
    BY <1>5 DEF LockSharedOk, TryLockSharedOk, CasOk, Goto,
       any_shared_no_unique, any_unique, Zero
  <2>2. UniqueHolders = {} /\ UniqueWaiters = {}
    BY <2>1, SetsInThreads, CountBound DEF IInv, CountsExact, Counted
  <2>3. outside
    BY <2>1 DEF SharedHolders, UniqueHolders, UniqueWaiters
  <2>4. RWL!Share(t)
    BY <2>1, <2>2, <2>3, <1>types, Moves DEF RWL!Share, RWL!Outside
  <2> QED
    BY <2>4 DEF RWL!Next
<1>6. CASE Unlock(t) \/ UnlockShared(t)
  <2>1. pc[t] \in {"shared", "unique"} /\ pc' = [pc EXCEPT ![t] = "idle"]
    BY <1>6 DEF Unlock, UnlockShared, Goto
  <2>2. t \in SharedHolders \union UniqueHolders /\ t \notin UniqueWaiters
    BY <2>1 DEF SharedHolders, UniqueHolders, UniqueWaiters
  <2>3. /\ SharedHolders' = SharedHolders \ {t}
        /\ UniqueHolders' = UniqueHolders \ {t}
        /\ UniqueWaiters' = UniqueWaiters
    BY <2>1, <1>types, Moves DEF SharedHolders, UniqueHolders, UniqueWaiters
  <2>4. RWL!Release(t)
    BY <2>2, <2>3 DEF RWL!Release
  <2> QED
    BY <2>4 DEF RWL!Next
<1>7. CASE AcquireLoad(t) \/ AcquireRetry(t)
  <2>1. /\ pc[t] \in {"acquire_load", "acquire_cas"}
        /\ pc' = [pc EXCEPT ![t] = "acquire_cas"]
    BY <1>7, <1>types DEF AcquireLoad, AcquireRetry, Load, CasFail, Goto
  <2> QED
    BY <2>1, <1>types, Moves
    DEF SharedHolders, UniqueHolders, UniqueWaiters, RWL!vars
<1>8. CASE TryLockLoad(t) \/ TryLockBusy(t) \/ TryLockRetry(t) \/ LockSharedLoad(t)
           \/ LockSharedRetry(t) \/ TryLockSharedLoad(t) \/ TryLockSharedBusy(t)
           \/ TryLockSharedRetry(t)
  <2> DEFINE Outside == {"idle", "try_cas", "shared_cas", "try_shared_cas"}
  <2>1. /\ pc[t] \in Outside
        /\ \E there \in Outside : pc' = [pc EXCEPT ![t] = there]
    BY <1>8, <1>types DEF TryLockLoad, TryLockBusy, TryLockRetry, LockSharedLoad,
       LockSharedRetry, TryLockSharedLoad, TryLockSharedBusy, TryLockSharedRetry,
       Load, CasFail, GiveUp, Goto
  <2> QED
    BY <2>1, <1>types, Moves
    DEF SharedHolders, UniqueHolders, UniqueWaiters, RWL!vars
<1> QED
  BY <1>1, <1>2, <1>3, <1>4, <1>5, <1>6, <1>7, <1>8
  DEF ThreadNext, Acquire, TryLock, LockShared, TryLockShared

\* The bitfield lock implements the abstract readers/writer lock with writer
\* preference, for any number of threads the counters can hold.
THEOREM Refinement == Spec => RefinesReadWriteLock
<1>1. Init => RWL!Init
  BY DEF Init, RWL!Init, SharedHolders, UniqueHolders, UniqueWaiters
<1>2. IInv /\ [Next]_vars => [RWL!Next]_(RWL!vars)
  <2> SUFFICES ASSUME IInv, [Next]_vars PROVE RWL!Next \/ UNCHANGED RWL!vars
    OBVIOUS
  <2>1. CASE Next
    BY <2>1, StepRefines DEF Next
  <2>2. CASE UNCHANGED vars
    BY <2>2 DEF vars, RWL!vars, SharedHolders, UniqueHolders, UniqueWaiters
  <2> QED
    BY <2>1, <2>2
<1> QED
  BY <1>1, <1>2, Invariance, PTL DEF Spec, RefinesReadWriteLock, RWL!Spec
============================================================================
