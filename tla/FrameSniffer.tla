----------------------------- MODULE FrameSniffer -----------------------------
(***************************************************************************)
(* examples/frame_sniffer.cpp: it puts the first interface into the        *)
(* promiscuous mode, receives one frame after the other into the same      *)
(* buffer, and prints what the viewers show.                               *)
(***************************************************************************)
EXTENDS Program, FrameViewers

CONSTANTS
  Foreign,      \* frames that others send
  BufferLength  \* 65536

ASSUME FrameSnifferAssumption ==
  /\ BufferLength \in Nat /\ BufferLength > EthernetLength + IpLength
  /\ Foreign \subseteq Seq(Nat)
  /\ \A f \in Foreign : Len(f) <= BufferLength
  /\ None \notin Seq(Texts)

VARIABLES
  sock,    \* sock[t]: the socket of ParseFrames
  buffer,  \* buffer[t]: its buffer
  got,     \* history: got[t]: the frame that recvfrom gave t last
  shown    \* shown[t]: what t has printed of that frame behind the Ethernet
           \* header: the protocol of the last header, its first field

snifferVars == <<sock, buffer, got, shown>>

Zeros == [i \in 1..BufferLength |-> 0]

SnifferTypeOK ==
  /\ sock \in [Threads -> Fds \union {None}]
  /\ buffer \in [Threads -> [1..BufferLength -> Texts]]
  /\ got \in [Threads -> Seq(Texts) \union {None}]
  /\ DOMAIN shown = Threads
  /\ \A t \in Threads :
       shown[t] # None =>
         shown[t].as \in {"TCP", "UDP", "ICMP", "ARP", "RARP", "Unknown"}

SnifferInit ==
  /\ sock = [t \in Threads |-> None]
  /\ buffer = [t \in Threads |-> Zeros]
  /\ got = [t \in Threads |-> None]
  /\ shown = [t \in Threads |-> None]

\* GetDefaultIFaceName.  Then enablePromiscuousMode calls getConfigs again.
PickInterface(t) ==
  /\ pc[t] = "listing" /\ Listed(t) /\ role[t] = "sniffer" /\ chosen[t] = None
  /\ Candidates(t) # {}
  /\ chosen' = [chosen EXCEPT ![t] = [iface |-> FirstFound(t).iface]]
  /\ listing' = [listing EXCEPT ![t] = None]
  /\ Goto(t, "list")
  /\ UNCHANGED <<processVars, role, manager, paper, lockVars, converting, link, snifferVars>>

\* The absent name is used all the same: the process ends, or no interface has
\* the name that there seems to be, and an exception says so.
NoDefaultInterface(t) ==
  /\ pc[t] = "listing" /\ Listed(t) /\ role[t] = "sniffer" /\ chosen[t] = None
  /\ Candidates(t) = {}
  /\ \/ Caught(t)
     \/ Terminate(t) /\ UNCHANGED <<programVars, listing>>
  /\ UNCHANGED <<lockVars, converting, link, snifferVars>>

\* The rest of enablePromiscuousMode: the interface must still be there, and
\* the ioctls succeed or not.
Promiscuous(t) ==
  /\ pc[t] = "listing" /\ Listed(t) /\ role[t] = "sniffer" /\ chosen[t] # None
  /\ \/ /\ \E i \in Candidates(t) : listing[t].found[i].iface = chosen[t].iface
        /\ listing' = [listing EXCEPT ![t] = None]
        /\ Goto(t, "socket")
        /\ UNCHANGED <<processVars, role, manager, chosen, paper>>
     \/ Caught(t)
  /\ UNCHANGED <<lockVars, converting, link, snifferVars>>

\* ParseFrames opens a socket, or fails to and returns from main.
ParseFrames(t) ==
  /\ pc[t] = "socket"
  /\ \/ /\ \E f \in Fds : Open(t, f) /\ sock' = [sock EXCEPT ![t] = f]
        /\ Goto(t, "receive")
        /\ UNCHANGED manager
     \/ /\ DestroyManager(t)
        /\ Goto(t, "end")
        /\ UNCHANGED sock
  /\ UNCHANGED <<role, chosen, paper, lockVars, converting, configVars, buffer, got, shown>>

\* Mutant of Filled: a frame behind the last one's first cell.
FilledLate(b, f) ==
  [i \in 1..BufferLength |-> IF i > 1 /\ i <= Len(f) THEN f[i] ELSE b[i]]

\* recvfrom writes the frame over the beginning of the buffer.
Filled(b, f) == [i \in 1..BufferLength |-> IF i <= Len(f) THEN f[i] ELSE b[i]]

\* PrintFrameInfo with what is in the buffer: first the Ethernet header.
PrintFrame(t, b) ==
  /\ shown' = [shown EXCEPT ![t] = None]
  /\ paper' = [paper EXCEPT ![t] =
                 [todo |-> Macs(EthernetOf(b).dest, EthernetOf(b).source),
                  printed |-> <<>>]]
  /\ Goto(t, "ethernet")

Receive(t, f) ==
  /\ pc[t] = "receive"
  /\ buffer' = [buffer EXCEPT ![t] = Filled(@, f)]
  /\ got' = [got EXCEPT ![t] = f]
  /\ PrintFrame(t, Filled(buffer[t], f))
  /\ UNCHANGED <<processVars, role, manager, chosen, lockVars, converting, configVars, sock>>

\* recvfrom fails.  Its -1 is a large unsigned number, not below 0, and the
\* buffer is printed as it is.
ReceiveFails(t) ==
  /\ pc[t] = "receive"
  /\ PrintFrame(t, buffer[t])
  /\ UNCHANGED <<processVars, role, manager, chosen, lockVars, converting, configVars,
                 sock, buffer, got>>

\* PrintTcpFrameInfo, PrintUdpFrameInfo and PrintIcmpFrameInfo are given the
\* whole frame: UdpViewer and IcmpViewer take that for their own header.
FieldOfIp(b, protocol) ==
  CASE protocol = "TCP" -> TransportAt(b, TcpOfRaw(b))
    [] protocol \in {"UDP", "ICMP"} -> TransportAt(b, 0)
    [] OTHER -> None

\* Mutant of ShownOfIp: the switch has no default.
ShownOfNamedIp(b) ==
  LET protocol == IpAt(b, 0).protocol IN
  [as |-> protocol, field |-> FieldOfIp(b, protocol)]

\* PrintIpFrameInfo: IpViewer takes the whole frame for its header, too.
ShownOfIp(b) ==
  LET protocol == IpAt(b, 0).protocol IN
  [as |-> IF protocol = "Undefined" THEN "Unknown" ELSE protocol,
   field |-> FieldOfIp(b, protocol)]

\* PrintFrameInfo.  ArpViewer takes the frame for its header as well.
ShownOf(b) ==
  LET protocol == EthernetOf(b).protocol IN
  CASE protocol = "IP" -> ShownOfIp(b)
    [] protocol \in {"ARP", "RARP"} -> [as |-> protocol, field |-> ArpAt(b, 0).hardware]
    [] OTHER -> [as |-> "Unknown", field |-> None]

\* operator<< of ArpViewer: both IP addresses, then the sender's MAC address
\* for the sender and for the target.
ArpAddresses(b) ==
  <<[buffer |-> "storage", address |-> ArpAt(b, 0).sender],
    [buffer |-> "storage", address |-> ArpAt(b, 0).target]>>
  \o Macs(ArpAt(b, 0).sender, ArpAt(b, 0).sender)

\* The Ethernet header is printed: the rest of PrintFrameInfo.
Dispatch(t) ==
  /\ pc[t] = "ethernet" /\ paper[t].todo = <<>>
  /\ shown' = [shown EXCEPT ![t] = ShownOf(buffer[t])]
  /\ LET arp == ShownOf(buffer[t]).as \in {"ARP", "RARP"} IN
       /\ paper' = [paper EXCEPT ![t] =
                      [todo |-> IF arp THEN ArpAddresses(buffer[t]) ELSE <<>>, printed |-> <<>>]]
       /\ Goto(t, IF arp THEN "arp" ELSE "receive")
  /\ UNCHANGED <<processVars, role, manager, chosen, lockVars, converting, configVars,
                 sock, buffer, got>>

ArpPrinted(t) ==
  /\ pc[t] = "arp" /\ paper[t].todo = <<>>
  /\ paper' = [paper EXCEPT ![t] = Blank]
  /\ Goto(t, "receive")
  /\ UNCHANGED <<processVars, role, manager, chosen, lockVars, converting, configVars,
                 snifferVars>>

SnifferStep(t) ==
  \/ PickInterface(t)
  \/ NoDefaultInterface(t)
  \/ Promiscuous(t)
  \/ ParseFrames(t)
  \/ ReceiveFails(t)
  \/ Dispatch(t)
  \/ ArpPrinted(t)
==============================================================================
