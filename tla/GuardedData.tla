----------------------------- MODULE GuardedData -----------------------------
(***************************************************************************)
(* What StrictMutex promises its users (include/utils/strict_mutex.h, the  *)
(* class comment): shared data that a thread reaches only from inside a    *)
(* section, one thread at a time for an exclusive section, and any number  *)
(* of threads together in a shared one.  Guards and mutexes do not appear  *)
(* here; module StrictMutex shows that they implement this.                *)
(***************************************************************************)
EXTENDS Naturals

CONSTANTS Threads,  \* the threads of the program
          Cells     \* the pieces of shared data, one per StrictMutex object

VARIABLES exclusive, \* exclusive[c]: threads inside an exclusive section of c
          sharing,   \* sharing[c]: threads inside a shared section of c
          value      \* value[c]: the data, a counter as in the class comment

vars == <<exclusive, sharing, value>>

Init ==
  /\ exclusive = [c \in Cells |-> {}]
  /\ sharing = [c \in Cells |-> {}]
  /\ value = [c \in Cells |-> 0]

EnterExclusive(t, c) ==
  /\ exclusive[c] = {}
  /\ sharing[c] = {}
  /\ exclusive' = [exclusive EXCEPT ![c] = {t}]
  /\ UNCHANGED <<sharing, value>>

EnterShared(t, c) ==
  /\ exclusive[c] = {}
  /\ sharing' = [sharing EXCEPT ![c] = @ \union {t}]
  /\ UNCHANGED <<exclusive, value>>

Leave(t, c) ==
  \/ /\ t \in exclusive[c]
     /\ exclusive' = [exclusive EXCEPT ![c] = @ \ {t}]
     /\ UNCHANGED <<sharing, value>>
  \/ /\ t \in sharing[c]
     /\ sharing' = [sharing EXCEPT ![c] = @ \ {t}]
     /\ UNCHANGED <<exclusive, value>>

\* sharedDataholder->counter++ takes effect as one step.
Increment(t, c) ==
  /\ t \in exclusive[c]
  /\ value' = [value EXCEPT ![c] = @ + 1]
  /\ UNCHANGED <<exclusive, sharing>>

Next ==
  \E t \in Threads, c \in Cells :
    \/ EnterExclusive(t, c)
    \/ EnterShared(t, c)
    \/ Leave(t, c)
    \/ Increment(t, c)

Spec == Init /\ [][Next]_vars
==============================================================================
