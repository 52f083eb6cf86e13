------------------------------- MODULE Process -------------------------------
(***************************************************************************)
(* The processes in which programs built on posnet run: threads that share *)
(* a table of file descriptors.  External: this is the operating system,   *)
(* as the programs under examples/ use it.                                 *)
(***************************************************************************)
EXTENDS Naturals

CONSTANTS
  Threads,    \* each runs one program; threads of a process run together
  Processes,
  Fds,        \* the descriptors that a process can have
  None        \* no descriptor (which socket() reports as -1), no thread, nothing

ASSUME ProcessAssumption ==
  /\ Fds \subseteq Nat
  /\ None \notin Threads \union Nat

VARIABLES
  at,    \* at[t]: the process of thread t
  dead,  \* the processes that were terminated
  file   \* file[p][f]: the thread that opened descriptor f, None if f is closed

processVars == <<at, dead, file>>

ProcessTypeOK ==
  /\ at \in [Threads -> Processes]
  /\ dead \subseteq Processes
  /\ file \in [Processes -> [Fds -> Threads \union {None}]]

ProcessInit ==
  /\ at \in [Threads -> Processes]
  /\ dead = {}
  /\ file = [p \in Processes |-> [f \in Fds |-> None]]

Runs(t) == at[t] \notin dead

Together(t, u) == t # u /\ at[t] = at[u]

\* socket(): t gets the lowest free descriptor.
Open(t, f) ==
  /\ f \in Fds /\ file[at[t]][f] = None
  /\ \A g \in Fds : g < f => file[at[t]][g] # None
  /\ file' = [file EXCEPT ![at[t]][f] = t]
  /\ UNCHANGED <<at, dead>>

\* close(): f is free, whoever opened it; close(-1) does nothing.
Close(t, f) ==
  /\ file' = IF f = None THEN file ELSE [file EXCEPT ![at[t]][f] = None]
  /\ UNCHANGED <<at, dead>>

\* std::terminate, or an exception that leaves main: the kernel closes all.
Terminate(t) ==
  /\ dead' = dead \union {at[t]}
  /\ file' = [file EXCEPT ![at[t]] = [f \in Fds |-> None]]
  /\ UNCHANGED at
==============================================================================
