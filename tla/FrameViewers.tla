----------------------------- MODULE FrameViewers -----------------------------
(***************************************************************************)
(* The viewers of posnet read the headers of a raw frame in place.  A      *)
(* viewer is an offset into the frame: 0 if it is given raw bytes, or      *)
(* behind the header of the viewer that it is given.                       *)
(*                                                                         *)
(* A frame is a sequence of cells.  The Ethernet header has the cells      *)
(* destination, source and protocol; the IP header its own length in       *)
(* cells, the protocol and the source address, then the options; the other *)
(* headers have a cell for each field that matters.  One cell stands for   *)
(* several bytes, so that a viewer at a wrong offset reads one field for   *)
(* another as it does in the real layout: an IP header at the start of an  *)
(* Ethernet frame has its length in the destination (byte 0) and its       *)
(* protocol in the source (byte 9).                                        *)
(***************************************************************************)
EXTENDS Naturals, Sequences

Cell(b, o) == b[o + 1]

EthernetLength == 3  \* EthernetViewer::DEFAULT_FRAME_HEADER_LENGTH_IN_BYTES, 14
IpLength == 3        \* IpBuilder::DEFAULT_FRAME_HEADER_LENGTH_IN_BYTES, 20

EthernetNumber == [IP |-> 2048, ARP |-> 2054, RARP |-> 32821]
IpNumber == [ICMP |-> 1, TCP |-> 6, UDP |-> 17]

\* The name of number n in a table, as the switch in getProtocol finds it.
NameIn(table, n) ==
  IF \E k \in DOMAIN table : table[k] = n
  THEN CHOOSE k \in DOMAIN table : table[k] = n
  ELSE "Undefined"

\* EthernetViewer of raw bytes, and its getters.
EthernetOf(b) ==
  [dest |-> Cell(b, 0), source |-> Cell(b, 1),
   protocol |-> NameIn(EthernetNumber, Cell(b, 2))]

\* Mutant of BehindEthernet: the frame taken for an IP header, as IpViewer takes
\* raw bytes.
BehindNothing == 0

\* Where IpViewer(EthernetViewer) and ArpViewer(EthernetViewer) begin.
BehindEthernet == EthernetLength

\* An IpViewer at offset o: its getters.
IpAt(b, o) ==
  [length |-> Cell(b, o), protocol |-> NameIn(IpNumber, Cell(b, o + 1)),
   source |-> Cell(b, o + 2)]

\* Where UdpViewer, IcmpViewer and TcpViewer of an IpViewer at o begin.
BehindIp(b, o) == o + IpAt(b, o).length

\* Mutant of TcpOfRaw: a header without options.
TcpOfRawShort(b) == EthernetLength + IpLength

\* Where TcpViewer of raw bytes begins: it takes them for an Ethernet frame.
TcpOfRaw(b) == EthernetLength + IpAt(b, EthernetLength).length

\* The first field of a TcpViewer, UdpViewer or IcmpViewer at o: the source
\* port, or the ICMP type.
TransportAt(b, o) == Cell(b, o)

\* An ArpViewer at offset o.
ArpAt(b, o) == [hardware |-> Cell(b, o), sender |-> Cell(b, o + 1), target |-> Cell(b, o + 2)]

\* A frame that has all its headers.
Complete(b) ==
  /\ Len(b) >= EthernetLength + IpLength
  /\ EthernetOf(b).protocol = "IP"
  /\ Len(b) > BehindIp(b, BehindEthernet)
==============================================================================
