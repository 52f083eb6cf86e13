--------------------------- MODULE MCPacketPrograms ---------------------------
(* Two threads, in one process or in two; one interface beside the loopback *)
(* interface.  Its MAC address is read as TCP where a sniffer reads an IP   *)
(* header from it; other frames' are read as UDP, ICMP or nothing known.    *)
EXTENDS PacketPrograms

CONSTANTS t1, t2, p1, p2

Symmetry == Permutations(Processes)

MCPrograms == [t \in Threads |->
  IF t = t1 THEN {"l2_udp", "l3_udp", "l3_icmp", "scoped"} ELSE {"sniffer", "l2_icmp"}]

MCFields == <<"mac", "ip">>
MCMac == [i \in IFaces |-> IF i = 0 THEN 0 ELSE 6]
MCIp == [i \in IFaces |-> 100 + i]

\* TCP behind IP options; a frame that ends with the Ethernet header; ARP.
MCForeign ==
  {<<17, 6, 2048, 4, 6, 99, 98, 80>>,
   <<6, 17, 2048>>,
   <<17, 1, 2054, 1, 17, 6>>}
==============================================================================
