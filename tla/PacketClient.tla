----------------------------- MODULE PacketClient -----------------------------
(***************************************************************************)
(* The four clients under examples/: l2_udp, l2_icmp, l3_udp and l3_icmp.  *)
(* Each takes its addresses from the first interface, builds one frame,    *)
(* and sends it through a raw socket that a ScopedLock closes.  For an l3  *)
(* client the kernel puts an Ethernet header before its IP header.         *)
(***************************************************************************)
EXTENDS Program, FrameViewers

CONSTANTS
  ServerMac,  \* GOOG_DNS_SERVER_MAC_ADDR, the address of the gateway
  Port        \* the source port of the UDP clients

\* A frame that was sent; history: its sender's program, and what that took.
Wires == [by : Clients, taken : Takes, frame : Seq(Texts)]

ASSUME PacketClientAssumption ==
  /\ ServerMac \in Nat /\ Port \in Nat
  /\ {"mac", "ip"} \subseteq Range(Fields)
  /\ None \notin Takes \union Wires

VARIABLE wire  \* the frame sent last, None at first

L2(t) == role[t] \in {"l2_udp", "l2_icmp"}
Udp(t) == role[t] \in {"l2_udp", "l3_udp"}

EchoRequest == 8

\* EthernetBuilder, IpBuilder, UdpBuilder and IcmpBuilder: what their setters
\* store, in the order of the header's fields.
EthernetHeader(dest, source) == <<dest, source, EthernetNumber.IP>>
IpHeader(protocol, source) == <<IpLength, IpNumber[protocol], source>>
UdpHeader == <<Port>>
IcmpHeader == <<EchoRequest>>

\* The addresses of the Ethernet header.
DestMac(t) == IF Udp(t) THEN chosen[t].mac ELSE ServerMac

IpPart(t) ==
  IF Udp(t) THEN IpHeader("UDP", chosen[t].ip) \o UdpHeader
            ELSE IpHeader("ICMP", chosen[t].ip) \o IcmpHeader

\* The headers that the kernel may put before an l3 client's.  Both send to the
\* address that they took themselves: while it is one of the machine's, by the
\* loopback interface; else to the gateway, by an interface with an address.
KernelHeaders(t) ==
  IF \E i \in Addressed : chosen[t].ip = Ip[i]
  THEN {EthernetHeader(Mac[0], Mac[0])}
  ELSE {EthernetHeader(ServerMac, Mac[i]) : i \in Addressed \ {0}}

\* What is sent: the buffer, the headers copied one behind the other.
FramesOf(t) ==
  {header \o IpPart(t) : header \in
     IF L2(t) THEN {EthernetHeader(DestMac(t), chosen[t].mac)} ELSE KernelHeaders(t)}

\* The values that the client reads from the configuration.
Needed(t) == (IF L2(t) THEN {"mac", "ip", "index"} ELSE {"ip"}) \intersect Range(Fields)

\* All of it is there, and no MAC address of an unknown text.
KnownOf(t, c) == Needed(t) \subseteq c.has /\ (L2(t) => c.mac # Torn)

\* *it->getMacAddress() and so on.  A value that is not there is undefined
\* behaviour: some text or other, or (TakeConfig) the end of the process.
Taken(t, c) ==
  [iface |-> c.iface,
   mac |-> IF "mac" \in c.has THEN c.mac ELSE Torn,
   ip |-> IF "ip" \in c.has THEN c.ip ELSE Torn,
   known |-> KnownOf(t, c)]

AtChoice(t) == pc[t] = "listing" /\ Listed(t) /\ role[t] \in Clients

\* The addresses are taken, the manager is destroyed and the frame is built,
\* with EthernetBuilder printed by its viewer.  A text that is no address makes
\* a setter throw: UseGarbage.
TakeConfig(t) ==
  /\ AtChoice(t) /\ Candidates(t) # {}
  /\ chosen' = [chosen EXCEPT ![t] = Taken(t, FirstFound(t))]
  /\ paper' = [paper EXCEPT ![t].todo =
                 IF L2(t) THEN Macs(IF Udp(t) THEN chosen'[t].mac ELSE ServerMac,
                                    chosen'[t].mac)
                          ELSE <<>>]
  /\ listing' = [listing EXCEPT ![t] = None]
  /\ DestroyManager(t)
  /\ Goto(t, "print")
  /\ UNCHANGED <<role, lockVars, converting, link, wire>>

UseGarbage(t) ==
  /\ AtChoice(t) /\ Candidates(t) # {}
  /\ ~KnownOf(t, FirstFound(t))
  /\ Terminate(t)
  /\ UNCHANGED <<programVars, lockVars, converting, configVars, wire>>

\* Mutant of NoInterface: the manager lives on.
NoInterfaceKeepsManager(t) ==
  /\ AtChoice(t) /\ Candidates(t) = {}
  /\ manager' = [manager EXCEPT ![t] = None]
  /\ listing' = [listing EXCEPT ![t] = None]
  /\ Goto(t, "end")
  /\ UNCHANGED <<processVars, role, chosen, paper, lockVars, converting, link, wire>>

\* return EXIT_FAILURE
NoInterface(t) ==
  /\ AtChoice(t) /\ Candidates(t) = {}
  /\ listing' = [listing EXCEPT ![t] = None]
  /\ DestroyManager(t)
  /\ Goto(t, "end")
  /\ UNCHANGED <<role, chosen, paper, lockVars, converting, link, wire>>

\* socket(), and the ScopedLock around it, which is there before the check.
MakeSocket(t) ==
  /\ pc[t] = "print" /\ paper[t].todo = <<>>
  /\ \E f \in Fds : OpenAndGuard(t, f)
  /\ Goto(t, IF L2(t) THEN "send" ELSE "setsockopt")
  /\ paper' = [paper EXCEPT ![t] = Blank]
  /\ UNCHANGED <<role, manager, chosen, converting, configVars, wire>>

\* socket() fails: the lock's callback will close -1.
NoSocket(t) ==
  /\ pc[t] = "print" /\ paper[t].todo = <<>>
  /\ Guard(t, None)
  /\ Goto(t, "leave")
  /\ paper' = [paper EXCEPT ![t] = Blank]
  /\ UNCHANGED <<processVars, role, manager, chosen, converting, configVars, wire>>

\* setsockopt(IP_HDRINCL) succeeds or fails.
SetOption(t) ==
  /\ pc[t] = "setsockopt"
  /\ \E l \in {"send", "leave"} : Goto(t, l)
  /\ UNCHANGED <<processVars, role, manager, chosen, paper, lockVars, converting, configVars, wire>>

\* sendto() succeeds or fails.
Send(t) ==
  /\ pc[t] = "send"
  /\ wire' \in {wire} \union
       {[by |-> role[t], taken |-> chosen[t], frame |-> f] : f \in FramesOf(t)}
  /\ Goto(t, "leave")
  /\ UNCHANGED <<processVars, role, manager, chosen, paper, lockVars, converting, configVars>>

\* main returns: ~ScopedLock().
ReturnFromMain(t) ==
  /\ pc[t] = "leave"
  /\ \/ Invoke(t, "destructor") /\ UNCHANGED pc
     \/ Return(t) /\ Goto(t, "end")
  /\ UNCHANGED <<role, manager, chosen, paper, converting, configVars, wire>>

ClientStep(t) ==
  \/ TakeConfig(t)
  \/ UseGarbage(t)
  \/ NoInterface(t)
  \/ MakeSocket(t)
  \/ NoSocket(t)
  \/ SetOption(t)
  \/ Send(t)
  \/ ReturnFromMain(t)
==============================================================================
