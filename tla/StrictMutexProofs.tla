------------------------- MODULE StrictMutexProofs -------------------------
(***************************************************************************)
(* Proofs about StrictMutex, for every set of threads, mutexes and guards. *)
(*                                                                         *)
(* IInv is the inductive invariant.  GuardsExclude alone is not inductive: *)
(* that a newly acquired guard is alone rests on GuardOwnsMutex (a locked  *)
(* guard's mutex is owned), and that an increment is not lost rests on     *)
(* GuardsExclude together with the guard of the call (CallWellFormed).     *)
(***************************************************************************)
EXTENDS StrictMutex, TLAPS

\* Nothing is locked before the first call.
LEMMA InitEstablishes == Init => IInv
  BY DEF Init, IInv, TypeOK, GuardWellFormed, CallWellFormed, GuardOwnsMutex,
    GuardsExclude, NoLostIncrement, Locked, IsLocked

\* IInv is inductive: one lemma per action, one step per conjunct.  lock() sets
\* the pointers of a new guard, which is not a locked guard yet.
LEMMA LockPreserves ==
  ASSUME IInv, NEW t \in Threads, NEW g \in Guards, NEW m \in Mutexes, Lock(t, g, m)
  PROVE  IInv'
<1> USE DEF IInv, TypeOK, Lock, mutexVars, callVars, Guards, IsLocked, Locked, Owns
<1>1. TypeOK'
  OBVIOUS
<1>2. GuardWellFormed'
  BY StrictMutexAssumption DEF GuardWellFormed
<1>3. CallWellFormed'
  BY StrictMutexAssumption DEF CallWellFormed
<1>4. GuardOwnsMutex'
  BY DEF GuardOwnsMutex
<1>5. GuardsExclude'
  BY DEF GuardsExclude
<1>6. NoLostIncrement'
  BY DEF GuardWellFormed, CallWellFormed, NoLostIncrement
<1>7. QED
  BY <1>2, <1>3, <1>4, <1>5, <1>6

\* The mutex was free in the guard's mode, so no other locked guard is on it,
\* or all of them are shared and of other threads.
LEMMA AcquirePreserves ==
  ASSUME IInv, NEW t \in Threads, Acquire(t)
  PROVE  IInv'
<1> USE DEF IInv, TypeOK, Acquire, AcquireMutex, mutexVars, callVars, Guards, IsLocked, Locked, Owns
<1>1. TypeOK'
  OBVIOUS
<1>2. GuardWellFormed'
  BY DEF GuardWellFormed
<1>3. CallWellFormed'
  BY DEF CallWellFormed
<1>4. GuardOwnsMutex'
  BY DEF GuardWellFormed, GuardOwnsMutex
<1>5. GuardsExclude'
  BY DEF GuardWellFormed, CallWellFormed, GuardOwnsMutex, GuardsExclude
<1>6. NoLostIncrement'
  BY DEF NoLostIncrement
<1>7. QED
  BY <1>2, <1>3, <1>4, <1>5, <1>6

\* A move constructor takes over the pointers, and with them the lock.
LEMMA MoveConstructPreserves ==
  ASSUME IInv, NEW t \in Threads, NEW g \in Guards, NEW h \in Guards, MoveConstruct(t, g, h)
  PROVE  IInv'
<1> USE DEF IInv, TypeOK, MoveConstruct, MovePointers, SameClass, mutexVars, callVars, Guards, IsLocked, Locked, Owns
<1>1. TypeOK'
  OBVIOUS
<1>2. GuardWellFormed'
  BY DEF GuardWellFormed
<1>3. CallWellFormed'
  BY DEF GuardWellFormed, CallWellFormed
<1>4. GuardOwnsMutex'
  BY StrictMutexAssumption DEF GuardOwnsMutex
<1>5. GuardsExclude'
  BY StrictMutexAssumption DEF GuardsExclude
<1>6. NoLostIncrement'
  BY DEF GuardWellFormed, CallWellFormed, NoLostIncrement
<1>7. QED
  BY <1>2, <1>3, <1>4, <1>5, <1>6

\* Move assignment does too, also when it overwrites a locked guard.
LEMMA MoveAssignPreserves ==
  ASSUME IInv, NEW t \in Threads, NEW g \in Guards, NEW h \in Guards, MoveAssign(t, g, h)
  PROVE  IInv'
<1> USE DEF IInv, TypeOK, MoveAssign, MovePointers, SameClass, mutexVars, callVars, Guards, IsLocked, Locked, Owns
<1>1. TypeOK'
  OBVIOUS
<1>2. GuardWellFormed'
  BY DEF GuardWellFormed
<1>3. CallWellFormed'
  BY DEF CallWellFormed
<1>4. GuardOwnsMutex'
  BY StrictMutexAssumption DEF GuardOwnsMutex
<1>5. GuardsExclude'
  BY StrictMutexAssumption DEF GuardsExclude
<1>6. NoLostIncrement'
  BY DEF CallWellFormed, NoLostIncrement
<1>7. QED
  BY <1>2, <1>3, <1>4, <1>5, <1>6

\* The mutex that unlock() releases is the caller's, and no other guard is on it
\* in its mode and thread.
LEMMA BeginUnlockPreserves ==
  ASSUME IInv, NEW t \in Threads, NEW g \in Guards, NEW p \in {"unlocking", "destroying"},
         BeginUnlock(t, g, p)
  PROVE  IInv'
<1> USE DEF IInv, TypeOK, BeginUnlock, ReleaseMutex, mutexVars, callVars, Guards, IsLocked, Locked, Owns
<1>1. TypeOK'
  OBVIOUS
<1>2. GuardWellFormed'
  BY DEF GuardWellFormed
<1>3. CallWellFormed'
  <2>1. g \notin SharedGuards \/ g \notin UniqueGuards
    BY StrictMutexAssumption
  <2>2. Locked(g)
    BY DEF CallWellFormed
  <2>3. ~Owns(t, target[g])'
    BY <2>1, <2>2, StrictMutexAssumption DEF GuardWellFormed, GuardOwnsMutex
  <2>4. QED
    BY <2>3, StrictMutexAssumption DEF CallWellFormed
<1>4. GuardOwnsMutex'
  BY DEF GuardWellFormed, GuardOwnsMutex, GuardsExclude
<1>5. GuardsExclude'
  BY DEF GuardsExclude
<1>6. NoLostIncrement'
  BY DEF CallWellFormed, NoLostIncrement
<1>7. QED
  BY <1>2, <1>3, <1>4, <1>5, <1>6

\* The guard whose pointers are then cleared is no locked guard any more.
LEMMA EndUnlockPreserves ==
  ASSUME IInv, NEW t \in Threads, EndUnlock(t)
  PROVE  IInv'
<1> USE DEF IInv, TypeOK, EndUnlock, mutexVars, callVars, Guards, IsLocked, Locked, Owns
<1>1. TypeOK'
  OBVIOUS
<1>2. GuardWellFormed'
  BY DEF GuardWellFormed
<1>3. CallWellFormed'
  BY DEF CallWellFormed
<1>4. GuardOwnsMutex'
  BY DEF CallWellFormed, GuardOwnsMutex
<1>5. GuardsExclude'
  BY DEF CallWellFormed, GuardsExclude
<1>6. NoLostIncrement'
  BY DEF CallWellFormed, NoLostIncrement
<1>7. QED
  BY <1>2, <1>3, <1>4, <1>5, <1>6

\* A destructor is the beginning of unlock(), or the object is just gone.
LEMMA DestroyPreserves ==
  ASSUME IInv, NEW t \in Threads, NEW g \in Guards, Destroy(t, g)
  PROVE  IInv'
<1>1. CASE BeginUnlock(t, g, "destroying")
  BY <1>1, BeginUnlockPreserves
<1>2. CASE ~BeginUnlock(t, g, "destroying")
  <2> USE <1>2 DEF IInv, TypeOK, Destroy, mutexVars, callVars, Guards, IsLocked, Locked, Owns
  <2>1. TypeOK'
    OBVIOUS
  <2>2. GuardWellFormed'
    BY DEF GuardWellFormed
  <2>3. CallWellFormed'
    BY DEF CallWellFormed
  <2>4. GuardOwnsMutex'
    BY DEF GuardOwnsMutex
  <2>5. GuardsExclude'
    BY DEF GuardsExclude
  <2>6. NoLostIncrement'
    BY DEF CallWellFormed, NoLostIncrement
  <2>7. QED
    BY <2>1, <2>2, <2>3, <2>4, <2>5, <2>6
<1>3. QED
  BY <1>1, <1>2

\* Reading the counter through a guard makes tmp agree with the data.
LEMMA BeginIncrementPreserves ==
  ASSUME IInv, NEW t \in Threads, NEW g \in Guards, BeginIncrement(t, g)
  PROVE  IInv'
<1> USE DEF IInv, TypeOK, BeginIncrement, mutexVars, callVars, Guards, IsLocked, Locked, Owns
<1>1. TypeOK'
  OBVIOUS
<1>2. GuardWellFormed'
  BY DEF GuardWellFormed
<1>3. CallWellFormed'
  BY DEF CallWellFormed
<1>4. GuardOwnsMutex'
  BY DEF GuardOwnsMutex
<1>5. GuardsExclude'
  BY DEF GuardsExclude
<1>6. NoLostIncrement'
  BY DEF NoLostIncrement
<1>7. QED
  BY <1>2, <1>3, <1>4, <1>5, <1>6

\* The write disturbs no other thread's tmp: a second increment in progress on
\* the same data would need a second locked exclusive guard.
LEMMA EndIncrementPreserves ==
  ASSUME IInv, NEW t \in Threads, EndIncrement(t)
  PROVE  IInv'
<1> USE DEF IInv, TypeOK, EndIncrement, mutexVars, callVars, Guards, IsLocked, Locked, Owns
<1>1. TypeOK'
  <2>1. tmp[t] + 1 \in Nat
    OBVIOUS
  <2>2. data' \in [Mutexes -> Nat]
    BY <2>1
  <2>3. QED
    BY <2>2
<1>2. GuardWellFormed'
  BY DEF GuardWellFormed
<1>3. CallWellFormed'
  BY DEF CallWellFormed
<1>4. GuardOwnsMutex'
  BY DEF GuardOwnsMutex
<1>5. GuardsExclude'
  BY DEF GuardsExclude
<1>6. NoLostIncrement'
  <2> SUFFICES ASSUME NEW u \in Threads, pc'[u] = "storing"
               PROVE  tmp'[u] = data'[target'[at'[u]]]
    BY DEF NoLostIncrement
  <2>1. u # t /\ pc[u] = "storing"
    OBVIOUS
  <2>2. /\ Locked(at[t]) /\ scope[at[t]] = t /\ at[t] \in UniqueGuards
        /\ Locked(at[u]) /\ scope[at[u]] = u /\ at[u] \in UniqueGuards
    BY DEF CallWellFormed
  <2>3. target[at[u]] # target[at[t]]
    BY <2>2, StrictMutexAssumption DEF GuardsExclude
  <2>4. data'[target[at[u]]] = data[target[at[u]]]
    BY <2>3
  <2>5. QED
    BY <2>4 DEF NoLostIncrement
<1>7. QED
  BY <1>1, <1>2, <1>3, <1>4, <1>5, <1>6

\* Every step of StrictMutex preserves the inductive invariant.
LEMMA StepPreserves == IInv /\ [Next]_vars => IInv'
<1> SUFFICES ASSUME IInv, [Next]_vars
             PROVE  IInv'
  OBVIOUS
<1>1. ASSUME UNCHANGED vars
      PROVE  IInv'
  BY <1>1 DEF vars, IInv, TypeOK, GuardWellFormed, CallWellFormed,
    GuardOwnsMutex, GuardsExclude, NoLostIncrement, Locked, IsLocked, Owns
<1>2. QED
  BY <1>1, LockPreserves, AcquirePreserves, MoveConstructPreserves,
    MoveAssignPreserves, BeginUnlockPreserves, EndUnlockPreserves, DestroyPreserves,
    BeginIncrementPreserves, EndIncrementPreserves DEF Next, Unlock

\* The inductive invariant holds in every state StrictMutex can reach.
THEOREM Invariance == Spec => []IInv
  BY InitEstablishes, StepPreserves, PTL DEF Spec

\* Type correctness, for any threads, mutexes and guards.
THEOREM TypeCorrect == Spec => []TypeOK
<1>1. IInv => TypeOK
  BY DEF IInv
<1>2. QED
  BY <1>1, Invariance, PTL

\* unlock() and the guards' destructors only ever release a mutex that the
\* calling thread owns in the guard's mode.
THEOREM ReleaseByOwner == Spec => []GuardOwnsMutex
<1>1. IInv => GuardOwnsMutex
  BY DEF IInv
<1>2. QED
  BY <1>1, Invariance, PTL

\* Two locked guards of one StrictMutex are SharedMutexGuards of two threads,
\* whatever guards are moved, overwritten, unlocked early or destroyed.
THEOREM MutualExclusion == Spec => []GuardsExclude
<1>1. IInv => GuardsExclude
  BY DEF IInv
<1>2. QED
  BY <1>1, Invariance, PTL

\* A thread that writes the counter back through operator-> writes what it read
\* plus one, and nobody has changed the counter in between.
THEOREM NoIncrementIsLost == Spec => []NoLostIncrement
<1>1. IInv => NoLostIncrement
  BY DEF IInv
<1>2. QED
  BY <1>1, Invariance, PTL

------------------------------------------------------------------------------
\* Where no locked guard is overwritten, every step keeps each owned mutex
\* reachable from a guard of its owner.
LEMMA ScopeStep ==
  ASSUME ~OverwriteLocked, IInv, LockIsGuarded, [Next]_vars
  PROVE  LockIsGuarded'
<1> USE DEF IInv, TypeOK, mutexVars, callVars, Guards, IsLocked, Owns, LockIsGuarded
<1>1. ASSUME NEW t \in Threads, NEW g \in Guards, NEW m \in Mutexes, Lock(t, g, m)
      PROVE  LockIsGuarded'
  BY <1>1, StrictMutexAssumption DEF Lock
<1>2. ASSUME NEW t \in Threads, Acquire(t)
      PROVE  LockIsGuarded'
  BY <1>2 DEF Acquire, AcquireMutex, CallWellFormed
<1>3. ASSUME NEW t \in Threads, NEW g \in Guards, NEW h \in Guards, MoveConstruct(t, g, h)
      PROVE  LockIsGuarded'
  BY <1>3, StrictMutexAssumption DEF MoveConstruct, MovePointers
<1>4. ASSUME NEW t \in Threads, NEW g \in Guards, NEW h \in Guards, MoveAssign(t, g, h)
      PROVE  LockIsGuarded'
  BY <1>4 DEF MoveAssign, MovePointers
<1>5. ASSUME NEW t \in Threads, NEW g \in Guards, NEW p \in {"unlocking", "destroying"},
             BeginUnlock(t, g, p)
      PROVE  LockIsGuarded'
  BY <1>5, StrictMutexAssumption DEF BeginUnlock, ReleaseMutex, GuardOwnsMutex,
    GuardWellFormed, Locked
<1>6. ASSUME NEW t \in Threads, NEW g \in Guards, Destroy(t, g)
      PROVE  LockIsGuarded'
  <2>1. CASE BeginUnlock(t, g, "destroying")
    BY <1>5, <2>1
  <2>2. CASE ~BeginUnlock(t, g, "destroying")
    BY <1>6, <2>2, StrictMutexAssumption DEF Destroy
  <2>3. QED
    BY <2>1, <2>2
<1>7. ASSUME NEW t \in Threads, EndUnlock(t)
      PROVE  LockIsGuarded'
  BY <1>7, StrictMutexAssumption DEF EndUnlock, CallWellFormed
<1>8. ASSUME NEW t \in Threads, NEW g \in Guards, BeginIncrement(t, g)
      PROVE  LockIsGuarded'
  BY <1>8 DEF BeginIncrement
<1>9. ASSUME NEW t \in Threads, EndIncrement(t)
      PROVE  LockIsGuarded'
  BY <1>9 DEF EndIncrement
<1>10. CASE UNCHANGED vars
  BY <1>10 DEF vars
<1>11. QED
  BY <1>1, <1>2, <1>3, <1>4, <1>5, <1>6, <1>7, <1>8, <1>9, <1>10 DEF Next, Unlock

\* The class comment's "nobody can forget to call unlock", for programs that
\* never move-assign to a locked guard.
THEOREM NobodyForgetsToUnlock == ~OverwriteLocked => (Spec => []LockIsGuarded)
<1> SUFFICES ASSUME ~OverwriteLocked
             PROVE  Spec => []LockIsGuarded
  OBVIOUS
<1>1. Init => LockIsGuarded
  BY StrictMutexAssumption DEF Init, LockIsGuarded, Owns
<1>2. IInv /\ LockIsGuarded /\ [Next]_vars => LockIsGuarded'
  BY ScopeStep
<1>3. QED
  BY <1>1, <1>2, Invariance, PTL DEF Spec

------------------------------------------------------------------------------
\* The threads inside a section change only where the two sides differ.
LEMMA HoldersUnchanged ==
  ASSUME \A g \in Guards : Locked(g)' <=> Locked(g),
         \A g \in Guards : Locked(g) => scope'[g] = scope[g] /\ target'[g] = target[g]
  PROVE  \A m \in Mutexes :
           /\ HoldersThrough(UniqueGuards, m)' = HoldersThrough(UniqueGuards, m)
           /\ HoldersThrough(SharedGuards, m)' = HoldersThrough(SharedGuards, m)
  BY DEF HoldersThrough, Guards

\* The initial state maps to GuardedData's.
LEMMA RefinesInit == Init => GD!Init
  BY DEF Init, GD!Init, HoldersThrough, Locked, IsLocked, Guards

\* Calling lock() is not yet a step of GuardedData.
LEMMA RefinesLock ==
  ASSUME IInv, NEW t \in Threads, NEW g \in Guards, NEW m \in Mutexes, Lock(t, g, m)
  PROVE  UNCHANGED GD!vars
<1>1. \A x \in Guards : Locked(x)' <=> Locked(x)
  BY DEF IInv, TypeOK, Lock, Locked, IsLocked, GuardWellFormed
<1>2. \A x \in Guards : Locked(x) => scope'[x] = scope[x] /\ target'[x] = target[x]
  BY DEF IInv, Lock, Locked, GuardWellFormed
<1>3. QED
  BY <1>1, <1>2, HoldersUnchanged DEF GD!vars, Lock

\* Its return is: the thread enters an exclusive or a shared section.
LEMMA RefinesAcquire ==
  ASSUME IInv, NEW t \in Threads, Acquire(t)
  PROVE  GD!Next
<1> DEFINE g == at[t]
           m == target[g]
<1> USE DEF IInv, TypeOK
<1>1. /\ g \in Guards /\ m \in Mutexes /\ scope[g] = t /\ ~Locked(g)
  BY DEF Acquire, CallWellFormed, IsLocked, Locked
<1>2. \A x \in Guards : Locked(x)' <=> Locked(x) \/ x = g
  BY <1>1, StrictMutexAssumption DEF Acquire, Locked, IsLocked
<1>3. scope' = scope /\ target' = target /\ data' = data
  BY DEF Acquire
<1>4. \A G \in {UniqueGuards, SharedGuards}, n \in Mutexes :
        HoldersThrough(G, n)' =
          IF n = m /\ g \in G THEN HoldersThrough(G, n) \union {t}
                              ELSE HoldersThrough(G, n)
  BY <1>1, <1>2, <1>3 DEF HoldersThrough, Guards
<1>5. writer[m] = None => HoldersThrough(UniqueGuards, m) = {}
  BY StrictMutexAssumption DEF HoldersThrough, GuardOwnsMutex, Guards
<1>6. readers[m] = {} => HoldersThrough(SharedGuards, m) = {}
  BY StrictMutexAssumption DEF HoldersThrough, GuardOwnsMutex, Guards
<1>7. CASE g \in UniqueGuards
  <2>1. writer[m] = None /\ readers[m] = {}
    BY <1>7, StrictMutexAssumption DEF Acquire, AcquireMutex
  <2>2. /\ HoldersThrough(UniqueGuards, m) = {}
        /\ HoldersThrough(SharedGuards, m) = {}
    BY <2>1, <1>5, <1>6
  <2>3. \A n \in Mutexes :
          /\ HoldersThrough(UniqueGuards, n)' =
               IF n = m THEN {t} ELSE HoldersThrough(UniqueGuards, n)
          /\ HoldersThrough(SharedGuards, n)' = HoldersThrough(SharedGuards, n)
    BY <1>4, <1>7, <2>2, StrictMutexAssumption
  <2>4. GD!EnterExclusive(t, m)
    BY <1>1, <1>3, <2>2, <2>3 DEF GD!EnterExclusive
  <2>5. QED
    BY <1>1, <2>4 DEF GD!Next
<1>8. CASE g \in SharedGuards
  <2>1. writer[m] = None
    BY DEF Acquire, AcquireMutex
  <2>2. HoldersThrough(UniqueGuards, m) = {}
    BY <2>1, <1>5
  <2>3. \A n \in Mutexes :
          /\ HoldersThrough(UniqueGuards, n)' = HoldersThrough(UniqueGuards, n)
          /\ HoldersThrough(SharedGuards, n)' =
               IF n = m THEN HoldersThrough(SharedGuards, m) \union {t}
                        ELSE HoldersThrough(SharedGuards, n)
    BY <1>4, <1>8, StrictMutexAssumption
  <2>4. GD!EnterShared(t, m)
    BY <1>1, <1>3, <2>2, <2>3 DEF GD!EnterShared
  <2>5. QED
    BY <1>1, <2>4 DEF GD!Next
<1>9. QED
  BY <1>1, <1>7, <1>8 DEF Guards

\* The mapped state when the thread of a locked guard g leaves its section.
LeavesOnly(g) ==
  /\ data' = data
  /\ \A G \in {UniqueGuards, SharedGuards}, n \in Mutexes :
       HoldersThrough(G, n)' =
         IF n = target[g] /\ g \in G THEN HoldersThrough(G, n) \ {scope[g]}
                                     ELSE HoldersThrough(G, n)

\* Then it is a Leave step.
LEMMA LeavesOnlyRefines ==
  ASSUME IInv, NEW g \in Guards, Locked(g), LeavesOnly(g)
  PROVE  GD!Next
<1> DEFINE t == scope[g]
           m == target[g]
<1> USE DEF IInv, TypeOK, LeavesOnly
<1>1. t \in Threads /\ m \in Mutexes
  BY DEF GuardWellFormed, Locked, IsLocked
<1>2. CASE g \in UniqueGuards
  <2>1. t \in HoldersThrough(UniqueGuards, m)
    BY <1>1, <1>2 DEF HoldersThrough
  <2>2. \A n \in Mutexes :
          /\ HoldersThrough(UniqueGuards, n)' =
               IF n = m THEN HoldersThrough(UniqueGuards, m) \ {t}
                        ELSE HoldersThrough(UniqueGuards, n)
          /\ HoldersThrough(SharedGuards, n)' = HoldersThrough(SharedGuards, n)
    BY <1>2, StrictMutexAssumption
  <2>3. GD!Leave(t, m)
    BY <1>1, <2>1, <2>2 DEF GD!Leave
  <2>4. QED
    BY <1>1, <2>3 DEF GD!Next
<1>3. CASE g \in SharedGuards
  <2>1. t \in HoldersThrough(SharedGuards, m)
    BY <1>1, <1>3 DEF HoldersThrough
  <2>2. \A n \in Mutexes :
          /\ HoldersThrough(UniqueGuards, n)' = HoldersThrough(UniqueGuards, n)
          /\ HoldersThrough(SharedGuards, n)' =
               IF n = m THEN HoldersThrough(SharedGuards, m) \ {t}
                        ELSE HoldersThrough(SharedGuards, n)
    BY <1>3, StrictMutexAssumption
  <2>3. GD!Leave(t, m)
    BY <1>1, <2>1, <2>2 DEF GD!Leave
  <2>4. QED
    BY <1>1, <2>3 DEF GD!Next
<1>4. QED
  BY <1>2, <1>3 DEF Guards

\* A locked guard that stops being one, all others as they were.
LEMMA GuardLeaves ==
  ASSUME IInv, NEW g \in Guards, Locked(g), ~Locked(g)', data' = data,
         \A x \in Guards \ {g} :
           /\ Locked(x)' <=> Locked(x)
           /\ Locked(x) => scope'[x] = scope[x] /\ target'[x] = target[x]
  PROVE  GD!Next
<1>1. \A x \in Guards \ {g} :
        Locked(x) /\ target[x] = target[g] => scope[x] # scope[g]
  BY DEF IInv, GuardsExclude
<1>2. LeavesOnly(g)
  BY <1>1 DEF LeavesOnly, HoldersThrough, Guards
<1>3. QED
  BY <1>2, LeavesOnlyRefines

\* unlock() leaves the section with the mutex,
LEMMA RefinesBeginUnlock ==
  ASSUME IInv, NEW t \in Threads, NEW g \in Guards, NEW p \in {"unlocking", "destroying"},
         BeginUnlock(t, g, p)
  PROVE  GD!Next
<1> USE DEF IInv, TypeOK, Locked, IsLocked
<1>1. Locked(g) /\ ~Locked(g)' /\ data' = data
  BY DEF BeginUnlock
<1>2. \A x \in Guards \ {g} :
        /\ Locked(x)' <=> Locked(x)
        /\ Locked(x) => scope'[x] = scope[x] /\ target'[x] = target[x]
  BY DEF BeginUnlock
<1> HIDE DEF IInv, Locked
<1>3. QED
  BY <1>1, <1>2, GuardLeaves

\* and what it does afterwards is invisible.
LEMMA RefinesEndUnlock ==
  ASSUME IInv, NEW t \in Threads, EndUnlock(t)
  PROVE  UNCHANGED GD!vars
<1> USE DEF IInv, TypeOK, EndUnlock, CallWellFormed, Locked, IsLocked
<1>1. \A x \in Guards : Locked(x)' <=> Locked(x)
  OBVIOUS
<1>2. \A x \in Guards : Locked(x) => scope'[x] = scope[x] /\ target'[x] = target[x]
  OBVIOUS
<1>3. data' = data
  OBVIOUS
<1> HIDE DEF IInv, Locked, EndUnlock
<1>4. QED
  BY <1>1, <1>2, <1>3, HoldersUnchanged DEF GD!vars

\* A destructor leaves the section if its guard is locked.
LEMMA RefinesDestroy ==
  ASSUME IInv, NEW t \in Threads, NEW g \in Guards, Destroy(t, g)
  PROVE  GD!Next \/ UNCHANGED GD!vars
<1>1. CASE BeginUnlock(t, g, "destroying")
  BY <1>1, RefinesBeginUnlock
<1>2. CASE ~BeginUnlock(t, g, "destroying")
  <2> USE <1>2 DEF IInv, TypeOK, Destroy, callVars, Locked, IsLocked
  <2>1. \A x \in Guards : Locked(x)' <=> Locked(x)
    OBVIOUS
  <2>2. \A x \in Guards : Locked(x) => scope'[x] = scope[x] /\ target'[x] = target[x]
    OBVIOUS
  <2>3. data' = data
    OBVIOUS
  <2> HIDE DEF IInv, Locked, Destroy
  <2>4. QED
    BY <2>1, <2>2, <2>3, HoldersUnchanged DEF GD!vars
<1>3. QED
  BY <1>1, <1>2

\* h is emptied and g, not locked before, is what h was.
LEMMA LockMoves ==
  ASSUME NEW g \in Guards, NEW h \in Guards, g # h, SameClass(g, h),
         ~Locked(g), ~Locked(h)', Locked(g)' <=> Locked(h),
         Locked(h) => scope'[g] = scope[h] /\ target'[g] = target[h],
         \A x \in Guards \ {g, h} :
           /\ Locked(x)' <=> Locked(x)
           /\ Locked(x) => scope'[x] = scope[x] /\ target'[x] = target[x]
  PROVE  \A m \in Mutexes :
           /\ HoldersThrough(UniqueGuards, m)' = HoldersThrough(UniqueGuards, m)
           /\ HoldersThrough(SharedGuards, m)' = HoldersThrough(SharedGuards, m)
  BY StrictMutexAssumption DEF HoldersThrough, SameClass, Guards

\* Move construction hands the section over and changes nothing else.
LEMMA RefinesMoveConstruct ==
  ASSUME IInv, NEW t \in Threads, NEW g \in Guards, NEW h \in Guards,
         MoveConstruct(t, g, h)
  PROVE  UNCHANGED GD!vars
<1> USE DEF IInv, TypeOK, callVars, Locked, IsLocked, MoveConstruct, MovePointers
<1>1. g # h /\ SameClass(g, h)
  BY StrictMutexAssumption
<1>2. /\ ~Locked(g) /\ ~Locked(h)' /\ (Locked(g)' <=> Locked(h))
      /\ Locked(h) => scope'[g] = scope[h] /\ target'[g] = target[h]
  BY DEF GuardWellFormed
<1>3. \A x \in Guards \ {g, h} :
        /\ Locked(x)' <=> Locked(x)
        /\ Locked(x) => scope'[x] = scope[x] /\ target'[x] = target[x]
  OBVIOUS
<1>4. data' = data
  OBVIOUS
<1> HIDE DEF IInv, Locked, MoveConstruct
<1>5. QED
  BY <1>1, <1>2, <1>3, <1>4, LockMoves DEF GD!vars

\* Move assignment does too, and ends the section of the guard it overwrites.
LEMMA RefinesMoveAssign ==
  ASSUME IInv, NEW t \in Threads, NEW g \in Guards, NEW h \in Guards,
         MoveAssign(t, g, h)
  PROVE  GD!Next \/ UNCHANGED GD!vars
<1> USE DEF IInv, TypeOK, callVars, Locked, IsLocked, MoveAssign, MovePointers
<1>1. SameClass(g, h) /\ scope[g] = t /\ scope[h] = t /\ scope' = scope /\ data' = data
  OBVIOUS
<1>2. ~Locked(h)' /\ (g # h => (Locked(g)' <=> Locked(h)) /\ target'[g] = target[h])
  OBVIOUS
<1>3. \A x \in Guards \ {g, h} :
        (Locked(x)' <=> Locked(x)) /\ target'[x] = target[x]
  OBVIOUS
<1> HIDE DEF IInv, Locked, MoveAssign, MovePointers
<1>4. CASE g = h
  <2>1. CASE Locked(g)
    BY <1>1, <1>2, <1>3, <1>4, <2>1, GuardLeaves
  <2>2. CASE ~Locked(g)
    BY <1>1, <1>2, <1>3, <1>4, <2>2, HoldersUnchanged DEF GD!vars
  <2>3. QED
    BY <2>1, <2>2
<1>5. CASE g # h /\ ~Locked(g)
  BY <1>1, <1>2, <1>3, <1>5, LockMoves DEF GD!vars
<1>6. CASE g # h /\ Locked(g)
  <2>1. \A x \in Guards \ {g} :
          Locked(x) /\ target[x] = target[g] => scope[x] # scope[g]
    BY <1>6 DEF IInv, GuardsExclude
  <2>2. LeavesOnly(g)
    BY <1>1, <1>2, <1>3, <2>1, StrictMutexAssumption DEF LeavesOnly,
      HoldersThrough, SameClass, Guards
  <2>3. QED
    BY <1>6, <2>2, LeavesOnlyRefines
<1>7. QED
  BY <1>4, <1>5, <1>6

\* Reading the counter is invisible,
LEMMA RefinesBeginIncrement ==
  ASSUME IInv, NEW t \in Threads, NEW g \in Guards, BeginIncrement(t, g)
  PROVE  UNCHANGED GD!vars
<1>1. \A x \in Guards : Locked(x)' <=> Locked(x)
  BY DEF BeginIncrement, Locked, IsLocked
<1>2. scope' = scope /\ target' = target /\ data' = data
  BY DEF BeginIncrement
<1>3. QED
  BY <1>1, <1>2, HoldersUnchanged DEF GD!vars

\* and the write is the increment.
LEMMA RefinesEndIncrement ==
  ASSUME IInv, NEW t \in Threads, EndIncrement(t)
  PROVE  GD!Next
<1> DEFINE g == at[t]
           m == target[g]
<1> USE DEF IInv, TypeOK
<1>1. /\ g \in UniqueGuards /\ Locked(g) /\ scope[g] = t /\ m \in Mutexes
      /\ tmp[t] = data[m]
  BY DEF EndIncrement, CallWellFormed, NoLostIncrement, Locked, IsLocked
<1>2. \A x \in Guards : Locked(x)' <=> Locked(x)
  BY DEF EndIncrement, Locked, IsLocked
<1>3. scope' = scope /\ target' = target
  BY DEF EndIncrement
<1>4. data' = [data EXCEPT ![m] = @ + 1]
  BY <1>1 DEF EndIncrement
<1>5. t \in HoldersThrough(UniqueGuards, m)
  BY <1>1 DEF HoldersThrough
<1>6. GD!Increment(t, m)
  BY <1>2, <1>3, <1>4, <1>5, <1>1, HoldersUnchanged DEF GD!Increment
<1>7. QED
  BY <1>1, <1>6 DEF GD!Next

\* Every step of StrictMutex is a step of GuardedData or leaves it unchanged.
LEMMA RefinesStep == IInv /\ [Next]_vars => [GD!Next]_(GD!vars)
<1> SUFFICES ASSUME IInv, [Next]_vars
             PROVE  GD!Next \/ UNCHANGED GD!vars
  OBVIOUS
<1>1. CASE UNCHANGED vars
  BY <1>1 DEF vars, GD!vars, HoldersThrough, Locked, IsLocked
<1>2. CASE Next
  BY <1>2, RefinesLock, RefinesAcquire, RefinesMoveConstruct,
    RefinesMoveAssign, RefinesBeginUnlock, RefinesEndUnlock, RefinesDestroy,
    RefinesBeginIncrement, RefinesEndIncrement DEF Next, Unlock
<1>3. QED
  BY <1>1, <1>2

\* StrictMutex implements guarded data: sections entered, left and used one
\* thread at a time, for any threads, mutexes, guards and any moves of guards.
THEOREM Implementation == Spec => ImplementsGuardedData
  BY RefinesInit, RefinesStep, Invariance, PTL DEF Spec, ImplementsGuardedData, GD!Spec

==============================================================================
