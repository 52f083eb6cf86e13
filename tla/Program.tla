------------------------------- MODULE Program -------------------------------
(***************************************************************************)
(* What the programs under examples/ have in common: they construct an     *)
(* IFaceManager, call getConfigs, pick the first interface that is not the *)
(* loopback interface, and print MAC addresses.  A thread runs one program *)
(* to its end.  The programs are built with NDEBUG (README.md:14 asks for  *)
(* a release build): their assertions are not there.                       *)
(***************************************************************************)
EXTENDS ScopedLock, IFaceConfigs

CONSTANT Programs  \* Programs[t]: the programs that t may run

Clients == {"l2_udp", "l2_icmp", "l3_udp", "l3_icmp"}

ASSUME ProgramAssumption ==
  Programs \in [Threads -> SUBSET (Clients \union {"sniffer", "scoped"})]

Labels ==
  {"start", "list", "listing", "print", "setsockopt", "send", "leave", "socket",
   "receive", "ethernet", "arp", "scope", "end"}

\* The values of a configuration that a sniffer and a client keep.
Picks == [iface : IFaces \ {0}]
Takes == [iface : IFaces \ {0}, mac : Texts, ip : Texts, known : BOOLEAN]

\* A header that is being printed.
Papers == [todo : Seq([buffer : Buffers, address : Texts]), printed : Seq(Texts)]

VARIABLES
  role,     \* role[t]: the program of t, None before it starts
  pc,       \* pc[t]: where t is in it
  manager,  \* manager[t]: m_socket of t's IFaceManager, None if there is none
  chosen,   \* chosen[t]: what t took from the configuration it picked; "known"
            \* if all of it was there
  paper     \* paper[t]: the addresses of a header still to print, with the buffers
            \* of their conversions, and the texts printed

programVars == <<role, pc, manager, chosen, paper>>

Blank == [todo |-> <<>>, printed |-> <<>>]

ProgramTypeOK ==
  /\ role \in [Threads -> Clients \union {"sniffer", "scoped", None}]
  /\ \A t \in Threads : role[t] \in Programs[t] \union {None}
  /\ pc \in [Threads -> Labels]
  /\ manager \in [Threads -> Fds \union {None}]
  /\ chosen \in [Threads -> Picks \union Takes \union {None}]
  /\ paper \in [Threads -> Papers]

ProgramInit ==
  /\ role = [t \in Threads |-> None]
  /\ pc = [t \in Threads |-> "start"]
  /\ manager = [t \in Threads |-> None]
  /\ chosen = [t \in Threads |-> None]
  /\ paper = [t \in Threads |-> Blank]

Goto(t, l) == pc' = [pc EXCEPT ![t] = l]

\* The IFaceManager is destroyed: at the end of its block, or as the exception
\* leaves it.
DestroyManager(t) ==
  /\ Close(t, manager[t])
  /\ manager' = [manager EXCEPT ![t] = None]

\* main of the sniffer catches an exception, and returns.
Caught(t) ==
  /\ DestroyManager(t) /\ Goto(t, "end")
  /\ listing' = [listing EXCEPT ![t] = None]
  /\ UNCHANGED <<role, chosen, paper>>

\* IFaceManager()
StartProgram(t, r) ==
  /\ pc[t] = "start" /\ r # "scoped"
  /\ role' = [role EXCEPT ![t] = r]
  /\ \E f \in Fds : Open(t, f) /\ manager' = [manager EXCEPT ![t] = f]
  /\ Goto(t, "list")
  /\ UNCHANGED <<chosen, paper, lockVars, converting, configVars>>

\* Its constructor throws.
CannotStart(t, r) ==
  /\ pc[t] = "start" /\ r # "scoped"
  /\ role' = [role EXCEPT ![t] = r]
  /\ IF r = "sniffer" THEN Goto(t, "end") /\ UNCHANGED processVars
                      ELSE Terminate(t) /\ UNCHANGED pc
  /\ UNCHANGED <<manager, chosen, paper, lockVars, converting, configVars>>

CallGetConfigs(t) ==
  /\ pc[t] = "list"
  /\ BeginConfigs(t)
  /\ Goto(t, "listing")
  /\ UNCHANGED <<processVars, lockVars, role, manager, chosen, paper>>

\* SIOCGIFCONF fails, and getConfigs throws.  The clients do not catch that.
GetConfigsFails(t) ==
  /\ pc[t] = "list"
  /\ IF role[t] = "sniffer" THEN Caught(t)
                            ELSE Terminate(t) /\ UNCHANGED <<programVars, listing>>
  /\ UNCHANGED <<lockVars, converting, link>>

InGetConfigs(t) ==
  /\ pc[t] = "listing"
  /\ ConfigsStep(t)
  /\ UNCHANGED <<processVars, lockVars, programVars>>

\* Where the configurations of interfaces other than the loopback interface are,
\* and the first one of them, which std::find_if finds.
Candidates(t) == {i \in DOMAIN listing[t].found : listing[t].found[i].iface # 0}
FirstFound(t) == listing[t].found[Min(Candidates(t))]

\* operator<< of EthernetViewer and ArpViewer: MAC and IP addresses in turn.
PrintAddress(t) ==
  /\ paper[t].todo # <<>>
  /\ Convert(t, Head(paper[t].todo).buffer, Head(paper[t].todo).address)
  /\ UNCHANGED <<processVars, lockVars, configVars, programVars>>

\* The text is copied and printed.
Printed(t) ==
  /\ paper[t].todo # <<>>
  /\ converting[t] # None
  /\ Copied(t, converting[t].text)
  /\ paper' = [paper EXCEPT ![t] = [todo |-> Tail(@.todo),
                                    printed |-> Append(@.printed, converting[t].text)]]
  /\ UNCHANGED <<processVars, lockVars, configVars, role, pc, manager, chosen>>

Macs(dest, source) ==
  <<[buffer |-> "ether_ntoa", address |-> dest], [buffer |-> "ether_ntoa", address |-> source]>>

ProgramStep(t) ==
  \/ \E r \in Programs[t] : StartProgram(t, r) \/ CannotStart(t, r)
  \/ CallGetConfigs(t)
  \/ GetConfigsFails(t)
  \/ InGetConfigs(t)
  \/ PrintAddress(t)
  \/ Printed(t)
==============================================================================
