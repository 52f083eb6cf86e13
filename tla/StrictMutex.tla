----------------------------- MODULE StrictMutex -----------------------------
(***************************************************************************)
(* posnet::utils::StrictMutex (include/utils/strict_mutex.h): data and the *)
(* mutex that protects it in one object, reached through RAII guards.      *)
(*                                                                         *)
(* The file holds three guard classes with the same bodies: MutexGuard of  *)
(* the primary template, UniqueMutexGuard and SharedMutexGuard of the      *)
(* std::shared_mutex specialization.  Here a guard is an element of        *)
(* UniqueGuards (MutexGuard and UniqueMutexGuard) or of SharedGuards; with *)
(* SharedGuards = {} the module is the primary template.                   *)
(*                                                                         *)
(* A guard's m_data and m_mutex are assigned together in every member      *)
(* function and a guard object is used by the one thread in whose scope it *)
(* lives, so one variable, target, stands for the pair.  std::mutex and    *)
(* std::shared_mutex are not part of the repository: writer and readers    *)
(* model them as the calls made here use them.                             *)
(***************************************************************************)
EXTENDS Naturals

CONSTANTS
  Threads,         \* the threads that use the mutexes
  Mutexes,         \* the StrictMutex objects (each outlives its guards)
  UniqueGuards,    \* guard objects that lock exclusively
  SharedGuards,    \* guard objects that lock shared
  None,            \* nullptr, and "no thread" or "no guard"
  MaxData,         \* bound on the counter stored in each StrictMutex
  Nested,          \* may a thread call lock() while it owns another mutex?
  OverwriteLocked  \* may a thread move-assign to a guard that is locked?

Guards == UniqueGuards \union SharedGuards

ASSUME StrictMutexAssumption ==
  /\ UniqueGuards \intersect SharedGuards = {}
  /\ None \notin Threads \union Mutexes \union Guards
  /\ MaxData \in Nat
  /\ Nested \in BOOLEAN
  /\ OverwriteLocked \in BOOLEAN

VARIABLES
  scope,   \* scope[g]: the thread in whose scope guard g lives, None if g
           \* is not a constructed object
  target,  \* target[g]: the mutex of m_mutex and m_data, None for nullptr
  pc,      \* pc[t]: what t is in the middle of, "idle" between two calls
  at,      \* at[t]: the guard of that call
  tmp,     \* tmp[t]: the counter value t has read and not yet written back
  writer,  \* writer[m]: the thread that owns m exclusively
  readers, \* readers[m]: the threads that own m in shared mode
  data     \* data[m]: the shared data, a counter

vars == <<scope, target, pc, at, tmp, writer, readers, data>>
mutexVars == <<writer, readers>>
callVars == <<pc, at, tmp>>

TypeOK ==
  /\ scope \in [Guards -> Threads \union {None}]
  /\ target \in [Guards -> Mutexes \union {None}]
  /\ pc \in [Threads -> {"idle", "locking", "storing", "unlocking", "destroying"}]
  /\ at \in [Threads -> Guards \union {None}]
  /\ tmp \in [Threads -> Nat]
  /\ writer \in [Mutexes -> Threads \union {None}]
  /\ readers \in [Mutexes -> SUBSET Threads]
  /\ data \in [Mutexes -> Nat]

Owns(t, m) == writer[m] = t \/ t \in readers[m]

IsLocked(g) == target[g] # None

\* isLocked() is true, and neither the guard's constructor nor unlock() is just
\* running.
Locked(g) ==
  /\ IsLocked(g)
  /\ pc[scope[g]] \in {"locking", "unlocking", "destroying"} => at[scope[g]] # g

SameClass(g, h) == g \in UniqueGuards <=> h \in UniqueGuards

------------------------------------------------------------------------------
Init ==
  /\ scope = [g \in Guards |-> None]
  /\ target = [g \in Guards |-> None]
  /\ pc = [t \in Threads |-> "idle"]
  /\ at = [t \in Threads |-> None]
  /\ tmp = [t \in Threads |-> 0]
  /\ writer = [m \in Mutexes |-> None]
  /\ readers = [m \in Mutexes |-> {}]
  /\ data = [m \in Mutexes |-> 0]

\* lock(), lockOnWrite(), lockOnRead(): the guard's constructor sets both
\* pointers, then calls the mutex's lock function.  Locking a mutex the thread
\* already owns is undefined for both mutex classes and is left out.
Lock(t, g, m) ==
  /\ pc[t] = "idle"
  /\ scope[g] = None
  /\ ~Owns(t, m)
  /\ Nested \/ \A n \in Mutexes : ~Owns(t, n)
  /\ scope' = [scope EXCEPT ![g] = t]
  /\ target' = [target EXCEPT ![g] = m]
  /\ pc' = [pc EXCEPT ![t] = "locking"]
  /\ at' = [at EXCEPT ![t] = g]
  /\ UNCHANGED <<tmp, mutexVars, data>>

\* Mutants of AcquireMutex: the owner is the guard; the writer does not wait for
\* the readers; MutexGuard takes the shared mode.
AcquireForGuard(t, g, m) ==
  /\ writer[m] = None /\ readers[m] = {}
  /\ writer' = [writer EXCEPT ![m] = g]
  /\ UNCHANGED readers

AcquireOverReaders(t, g, m) ==
  /\ writer[m] = None
  /\ \/ g \in UniqueGuards /\ writer' = [writer EXCEPT ![m] = t] /\ UNCHANGED readers
     \/ g \in SharedGuards /\ readers' = [readers EXCEPT ![m] = @ \union {t}] /\ UNCHANGED writer

AcquireShared(t, g, m) ==
  /\ writer[m] = None
  /\ readers' = [readers EXCEPT ![m] = @ \union {t}]
  /\ UNCHANGED writer

\* std::mutex::lock(), std::shared_mutex::lock() and lock_shared() return.
AcquireMutex(t, g, m) ==
  \/ /\ g \in UniqueGuards
     /\ writer[m] = None /\ readers[m] = {}
     /\ writer' = [writer EXCEPT ![m] = t]
     /\ UNCHANGED readers
  \/ /\ g \in SharedGuards
     /\ writer[m] = None
     /\ readers' = [readers EXCEPT ![m] = @ \union {t}]
     /\ UNCHANGED writer

\* std::mutex::unlock(), std::shared_mutex::unlock() and unlock_shared().
ReleaseMutex(t, g, m) ==
  \/ /\ g \in UniqueGuards
     /\ writer' = [writer EXCEPT ![m] = None]
     /\ UNCHANGED readers
  \/ /\ g \in SharedGuards
     /\ readers' = [readers EXCEPT ![m] = @ \ {t}]
     /\ UNCHANGED writer

\* The constructor's m_mutex->lock() returns and the guard is handed out.
Acquire(t) ==
  /\ pc[t] = "locking"
  /\ AcquireMutex(t, at[t], target[at[t]])
  /\ pc' = [pc EXCEPT ![t] = "idle"]
  /\ at' = [at EXCEPT ![t] = None]
  /\ UNCHANGED <<scope, target, tmp, data>>

\* Mutant of MovePointers: h keeps its pointers.
CopyPointers(g, h) == target' = [target EXCEPT ![g] = target[h]]

\* The pointers move from h to g and h is emptied.  Nothing is unlocked.
MovePointers(g, h) == target' = [target EXCEPT ![g] = target[h], ![h] = None]

\* Guard g(std::move(h))
MoveConstruct(t, g, h) ==
  /\ pc[t] = "idle"
  /\ scope[g] = None /\ scope[h] = t /\ SameClass(g, h)
  /\ scope' = [scope EXCEPT ![g] = t]
  /\ MovePointers(g, h)
  /\ UNCHANGED <<callVars, mutexVars, data>>

\* g = std::move(h); g and h may be the same object.
MoveAssign(t, g, h) ==
  /\ pc[t] = "idle"
  /\ scope[g] = t /\ scope[h] = t /\ SameClass(g, h)
  /\ OverwriteLocked \/ ~IsLocked(g)
  /\ MovePointers(g, h)
  /\ UNCHANGED <<scope, callVars, mutexVars, data>>

\* m_mutex->unlock() of the guard's unlock() returns: another thread may lock the
\* mutex now, while g still points to it.  p says who has called unlock().
BeginUnlock(t, g, p) ==
  /\ pc[t] = "idle"
  /\ scope[g] = t
  /\ IsLocked(g)
  /\ ReleaseMutex(t, g, target[g])
  /\ pc' = [pc EXCEPT ![t] = p]
  /\ at' = [at EXCEPT ![t] = g]
  /\ UNCHANGED <<scope, target, tmp, data>>

\* g.unlock(), called only on a locked guard: it asserts isLocked().
Unlock(t, g) == BeginUnlock(t, g, "unlocking")

\* Mutant of Destroy: the destructor does not unlock.
DestroyLocked(t, g) ==
  /\ pc[t] = "idle"
  /\ scope[g] = t
  /\ scope' = [scope EXCEPT ![g] = None]
  /\ target' = [target EXCEPT ![g] = None]
  /\ UNCHANGED <<callVars, mutexVars, data>>

\* The scope of g ends: its destructor calls unlock() if the guard is locked.
Destroy(t, g) ==
  \/ BeginUnlock(t, g, "destroying")
  \/ /\ pc[t] = "idle"
     /\ scope[g] = t
     /\ ~IsLocked(g)
     /\ scope' = [scope EXCEPT ![g] = None]
     /\ UNCHANGED <<target, callVars, mutexVars, data>>

\* Mutant of EndUnlock: only a destructor clears the pointers.
KeepPointers(t) ==
  /\ pc[t] \in {"unlocking", "destroying"}
  /\ IF pc[t] = "destroying"
     THEN /\ scope' = [scope EXCEPT ![at[t]] = None]
          /\ target' = [target EXCEPT ![at[t]] = None]
     ELSE UNCHANGED <<scope, target>>
  /\ pc' = [pc EXCEPT ![t] = "idle"]
  /\ at' = [at EXCEPT ![t] = None]
  /\ UNCHANGED <<tmp, mutexVars, data>>

\* The rest of unlock(): the pointers are cleared.  Behind the destructor's
\* unlock() the object is gone as well.
EndUnlock(t) ==
  /\ pc[t] \in {"unlocking", "destroying"}
  /\ target' = [target EXCEPT ![at[t]] = None]
  /\ scope' = IF pc[t] = "destroying" THEN [scope EXCEPT ![at[t]] = None] ELSE scope
  /\ pc' = [pc EXCEPT ![t] = "idle"]
  /\ at' = [at EXCEPT ![t] = None]
  /\ UNCHANGED <<tmp, mutexVars, data>>

\* g->counter++ through operator->, which asserts isLocked(): a read of the
\* counter and a later write.  Shared guards give access to const T only.
BeginIncrement(t, g) ==
  /\ pc[t] = "idle"
  /\ scope[g] = t /\ g \in UniqueGuards
  /\ IsLocked(g)
  /\ data[target[g]] < MaxData
  /\ tmp' = [tmp EXCEPT ![t] = data[target[g]]]
  /\ pc' = [pc EXCEPT ![t] = "storing"]
  /\ at' = [at EXCEPT ![t] = g]
  /\ UNCHANGED <<scope, target, mutexVars, data>>

EndIncrement(t) ==
  /\ pc[t] = "storing"
  /\ data' = [data EXCEPT ![target[at[t]]] = tmp[t] + 1]
  /\ pc' = [pc EXCEPT ![t] = "idle"]
  /\ at' = [at EXCEPT ![t] = None]
  /\ tmp' = [tmp EXCEPT ![t] = 0]
  /\ UNCHANGED <<scope, target, mutexVars>>

Next ==
  \E t \in Threads :
    \/ Acquire(t)
    \/ EndUnlock(t)
    \/ EndIncrement(t)
    \/ \E g \in Guards :
         \/ Unlock(t, g)
         \/ Destroy(t, g)
         \/ BeginIncrement(t, g)
         \/ \E m \in Mutexes : Lock(t, g, m)
         \/ \E h \in Guards : MoveConstruct(t, g, h) \/ MoveAssign(t, g, h)

Spec == Init /\ [][Next]_vars

\* A guard is a local variable: the thread that holds a lock through it does
\* not stay in its scope for ever.
EndScope(t) == \E g \in Guards : IsLocked(g) /\ Destroy(t, g)

\* The steps of a call that is in progress are taken (the scheduler runs every
\* thread; an unowned mutex lets a waiting thread in), and scopes end.
Fairness ==
  \A t \in Threads :
    /\ WF_vars(Acquire(t))
    /\ WF_vars(EndUnlock(t))
    /\ WF_vars(EndIncrement(t))
    /\ SF_vars(EndScope(t))

FairSpec == Spec /\ Fairness

------------------------------------------------------------------------------
(* Properties                                                              *)

\* A locked guard belongs to a thread that owns the guard's
\* mutex in the guard's mode: unlock() and the destructors never release a
\* mutex that is free or that another thread has locked meanwhile.
GuardOwnsMutex ==
  \A g \in Guards :
    Locked(g) =>
      \/ g \in UniqueGuards /\ writer[target[g]] = scope[g]
      \/ g \in SharedGuards /\ scope[g] \in readers[target[g]]

\* Two locked guards of the same StrictMutex are both SharedMutexGuards, of
\* two threads: locks, moves and unlocks never leave two ways to the data.
GuardsExclude ==
  \A g, h \in Guards :
    (g # h /\ Locked(g) /\ Locked(h) /\ target[g] = target[h]) =>
      g \in SharedGuards /\ h \in SharedGuards /\ scope[g] # scope[h]

\* The counter a thread is about to write back is the one it has read: no
\* increment made through operator-> is lost.
NoLostIncrement ==
  \A t \in Threads : pc[t] = "storing" => tmp[t] = data[target[at[t]]]

\* "nobody can forget to call unlock" (lines 15-16): a mutex that a thread owns
\* is held by one of that thread's guards, whose destructor will release it.
LockIsGuarded ==
  \A t \in Threads, m \in Mutexes :
    Owns(t, m) => \E g \in Guards : scope[g] = t /\ target[g] = m

\* Every lock is released in the end.
Released ==
  \A t \in Threads, m \in Mutexes : Owns(t, m) ~> ~Owns(t, m)

\* Readers and writers in terms of guards: the threads that have a locked guard.
HoldersThrough(G, m) ==
  {t \in Threads : \E g \in G : Locked(g) /\ scope[g] = t /\ target[g] = m}

\* StrictMutex implements guarded data.
GD == INSTANCE GuardedData WITH
  Cells <- Mutexes,
  exclusive <- [m \in Mutexes |-> HoldersThrough(UniqueGuards, m)],
  sharing <- [m \in Mutexes |-> HoldersThrough(SharedGuards, m)],
  value <- data

\* A thread is inside a section exactly while one of its guards is locked, and
\* an increment through a guard takes effect as one step of GuardedData.  An
\* overwritten guard ends its section (and never gives the mutex back).
ImplementsGuardedData == GD!Spec

\* The inductive invariant behind the safety properties.
GuardWellFormed ==
  /\ \A g \in Guards : IsLocked(g) => scope[g] # None
  /\ \A m \in Mutexes : writer[m] # None => readers[m] = {}

CallWellFormed ==
  \A t \in Threads : pc[t] # "idle" =>
    /\ at[t] \in Guards
    /\ scope[at[t]] = t
    /\ IsLocked(at[t])
    /\ pc[t] # "storing" => ~Owns(t, target[at[t]])
    /\ pc[t] = "storing" => at[t] \in UniqueGuards

IInv ==
  /\ TypeOK
  /\ GuardWellFormed
  /\ CallWellFormed
  /\ GuardOwnsMutex
  /\ GuardsExclude
  /\ NoLostIncrement
==============================================================================
