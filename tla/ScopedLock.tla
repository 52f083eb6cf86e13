------------------------------ MODULE ScopedLock ------------------------------
(***************************************************************************)
(* posnet::utils::ScopedLock (scoped_lock.h) on the stack of a thread: a   *)
(* callback that the destructor, or unlock() before it, runs.  Here the    *)
(* callback closes a descriptor, as in the clients; what else it does,     *)
(* throw or call unlock() again, is up to the program.                     *)
(***************************************************************************)
EXTENDS Process, Sequences, SequencesExt

CONSTANT Depth  \* calls of unlock() in one another: each starts the next one,
                \* and what happens after the last is left out

\* A ScopedLock: the descriptor that the callback closes, whether
\* m_unlockCallback is set, and the calls that are running the callback,
\* outermost first.
Locks == [fd : Fds \union {None}, armed : BOOLEAN,
          calls : Seq({"unlock", "destructor"})]

ASSUME ScopedLockAssumption == Depth \in Nat /\ None \notin Locks

VARIABLES
  lock,  \* lock[t]: t's ScopedLock, None if it has none
  risky  \* history: the threads of which a callback has thrown or has run
         \* while it was running

lockVars == <<lock, risky>>

LockTypeOK ==
  /\ lock \in [Threads -> Locks \union {None}]
  /\ \A t \in Threads : lock[t] # None => Len(lock[t].calls) <= Depth
  /\ risky \subseteq Threads

LockInit ==
  /\ lock = [t \in Threads |-> None]
  /\ risky = {}

Locked(f) == [fd |-> f, armed |-> TRUE, calls |-> <<>>]

\* ScopedLock(unlockCallback), where the callback closes f.
Guard(t, f) ==
  /\ lock[t] = None
  /\ lock' = [lock EXCEPT ![t] = Locked(f)]
  /\ UNCHANGED risky

\* ScopedLock(lockCallback, unlockCallback): lockCallback opens f.
OpenAndGuard(t, f) ==
  /\ Open(t, f)
  /\ Guard(t, f)

\* lockCallback throws: there is no object, and no destructor to run
\* unlockCallback, whether or not f has been opened before.
OpenAndThrow(t) ==
  /\ lock[t] = None
  /\ \/ UNCHANGED processVars
     \/ \E f \in Fds : Open(t, f)
  /\ risky' = risky \union {t}
  /\ UNCHANGED lock

\* unlock() up to the end of the callback, which closes the descriptor.  The
\* destructor, and a callback that calls unlock(), do the same.
Invoke(t, by) ==
  /\ lock[t] # None /\ lock[t].armed
  /\ Len(lock[t].calls) < Depth
  /\ lock[t].calls # <<>> => by = "unlock"
  /\ Close(t, lock[t].fd)
  /\ lock' = [lock EXCEPT ![t].calls = Append(@, by)]
  /\ risky' = IF lock[t].calls = <<>> THEN risky ELSE risky \union {t}

\* The destructor after unlock().
LeaveReset(t) ==
  /\ lock[t] # None /\ ~lock[t].armed /\ lock[t].calls = <<>>
  /\ lock' = [lock EXCEPT ![t] = None]
  /\ UNCHANGED <<processVars, risky>>

\* Mutant of Return: the callback stays set.
ReturnArmed(t) ==
  /\ lock[t] # None /\ lock[t].calls # <<>>
  /\ lock' = [lock EXCEPT ![t] =
       IF Last(@.calls) = "destructor" THEN None
       ELSE [@ EXCEPT !.calls = Front(lock[t].calls)]]
  /\ UNCHANGED <<processVars, risky>>

\* The callback returns and is reset.
Return(t) ==
  /\ lock[t] # None /\ lock[t].calls # <<>>
  /\ lock' = [lock EXCEPT ![t] =
       IF Last(@.calls) = "destructor" THEN None
       ELSE [@ EXCEPT !.calls = Front(lock[t].calls), !.armed = FALSE]]
  /\ UNCHANGED <<processVars, risky>>

\* The callback throws: unlock() passes the exception on with the callback
\* still set; from the destructor it terminates the process.
Throw(t) ==
  /\ lock[t] # None /\ lock[t].calls # <<>>
  /\ risky' = risky \union {t}
  /\ IF Last(lock[t].calls) = "destructor"
     THEN Terminate(t) /\ UNCHANGED lock
     ELSE /\ lock' = [lock EXCEPT ![t].calls = Front(@)]
          /\ UNCHANGED processVars
==============================================================================
