------------------------- MODULE PacketFramesProofs -------------------------
(***************************************************************************)
(* Proofs about the frames that the programs of PacketPrograms send and    *)
(* print.                                                                  *)
(***************************************************************************)
EXTENDS PacketProgramsProofs

------------------------------------------------------------------------------
(* The inductive invariant                                                 *)

\* The addresses in a configuration are those of its interface, a MAC address
\* perhaps spoilt.
AddressesOK(c) ==
  /\ c.mac \in {None, Torn, Mac[c.iface]}
  /\ c.ip \in {None, Ip[c.iface]}

\* So are all that getConfigs has found, and the last configuration is that of
\* the interface it is asking.
ListOK(t) ==
  listing[t] # None =>
    /\ pc[t] = "listing"
    /\ \A i \in DOMAIN listing[t].found : AddressesOK(listing[t].found[i])
    /\ listing[t].left # {} => Last(listing[t].found).iface = Asked(t)

\* The text that a thread finds in a buffer is that of the address it converts.
ConvertOK(t) ==
  converting[t] # None =>
    \/ /\ pc[t] = "listing" /\ Asking(t)
       /\ converting[t].text \in {Torn, Mac[Asked(t)]}
    \/ /\ paper[t].todo # <<>>
       /\ converting[t].text \in {Torn, Head(paper[t].todo).address}

\* Where in a program addresses are printed.
PaperOK(t) == paper[t].todo # <<>> => pc[t] \in {"print", "ethernet", "arp"}

\* What a client keeps belongs to the interface that it picked, if it has all.
OwnOf(r, c) ==
  c.known => /\ c.ip = Ip[c.iface]
             /\ r \in {"l2_udp", "l2_icmp"} => c.mac = Mac[c.iface]

ChosenOK(t) == pc[t] \in {"print", "setsockopt", "send", "leave"} => OwnOf(role[t], chosen[t])

\* A sniffer's buffer begins with the frame received last, and it has shown that.
BufferOK(t) ==
  /\ got[t] = None => buffer[t] = Zeros
  /\ got[t] # None =>
       /\ Len(got[t]) > 3 => got[t][4] \in Nat
       /\ \A i \in 1..Len(got[t]) : i \in 1..BufferLength /\ buffer[t][i] = got[t][i]
  /\ shown[t] \in {None, ShownOf(buffer[t])}

\* What is printed of an Ethernet header, and what is still to print.
PrintOK(t) ==
  pc[t] = "ethernet" =>
    LET header == <<EthernetOf(buffer[t]).dest, EthernetOf(buffer[t]).source>> IN
    /\ Len(paper[t].printed) + Len(paper[t].todo) = 2
    /\ \A i \in 1..Len(paper[t].todo) :
         paper[t].todo[i].address = header[Len(paper[t].printed) + i]
    /\ \A i \in 1..Len(paper[t].printed) : paper[t].printed[i] \in {Torn, header[i]}

Local(t) == ListOK(t) /\ ConvertOK(t) /\ PaperOK(t) /\ ChosenOK(t) /\ BufferOK(t) /\ PrintOK(t)

\* A client's frame.
ClientFrame(by, c, dest, source) ==
  LET udp == by \in {"l2_udp", "l3_udp"}
  IN <<dest, source, 2048, 3, IF udp THEN 17 ELSE 1, c.ip, IF udp THEN Port ELSE 8>>

\* w is a frame of a client that took c; an l2 client wrote its own MAC address.
FrameBy(by, c, w) ==
  \E dest, source \in Texts :
    /\ w = ClientFrame(by, c, dest, source)
    /\ by \in {"l2_udp", "l2_icmp"} => source = c.mac

WireOK ==
  wire # None => /\ FrameBy(wire.by, wire.taken, wire.frame)
                 /\ OwnOf(wire.by, wire.taken)

FInv == TInv /\ (\A t \in Threads : Local(t)) /\ WireOK


------------------------------------------------------------------------------
(* Configurations                                                          *)

\* A configuration that is appended.
LEMMA AppendedAddresses ==
  ASSUME NEW found \in Seq(Configs), NEW c \in Configs, AddressesOK(c),
         \A i \in DOMAIN found : AddressesOK(found[i])
  PROVE  /\ \A i \in DOMAIN Append(found, c) : AddressesOK(Append(found, c)[i])
         /\ Last(Append(found, c)) = c
<1>1. /\ Len(Append(found, c)) = Len(found) + 1
      /\ Append(found, c)[Len(found) + 1] = c
      /\ \A i \in 1..Len(found) : Append(found, c)[i] = found[i]
      /\ DOMAIN Append(found, c) = 1..(Len(found) + 1)
      /\ DOMAIN found = 1..Len(found)
  OBVIOUS
<1>2. QED
  BY <1>1 DEF Last

\* The configuration of the next interface begins without addresses.
LEMMA ListingKeepsAddresses ==
  ASSUME NEW left \in SUBSET IFaces, NEW found \in Seq(Configs),
         \A i \in DOMAIN found : AddressesOK(found[i])
  PROVE  LET l == Listing(left, found) IN
         /\ l.left = left
         /\ \A i \in DOMAIN l.found : AddressesOK(l.found[i])
         /\ left # {} => Last(l.found).iface = Min(left)
<1>1. CASE left = {}
  BY <1>1 DEF Listing
<1>2. CASE left # {}
  <2> DEFINE c == NamedConfig(Min(left))
  <2>1. c \in Configs /\ AddressesOK(c) /\ c.iface = Min(left)
    BY <1>2, MinInSet, IFaceConfigsAssumption DEF NamedConfig, Configs, AddressesOK
  <2>2. Listing(left, found) = [left |-> left, todo |-> Fields, found |-> Append(found, c)]
    BY <1>2 DEF Listing
  <2> HIDE DEF c
  <2>3. QED
    BY <2>1, <2>2, AppendedAddresses
<1>3. QED
  BY <1>1, <1>2

\* The answer to an ioctl goes into the configuration of the interface asked.
LEMMA AdvanceKeepsAddresses ==
  ASSUME ConfigsTypeOK, ListingShape, NEW t \in Threads, ListOK(t), Asking(t),
         NEW c \in Configs, c.iface = Asked(t), AddressesOK(c), Advance(t, c), UNCHANGED pc
  PROVE  ListOK(t)'
<1> DEFINE l == listing[t]
           found == Append(Front(l.found), c)
<1>1. /\ l \in Listings /\ l # None /\ l.left # {} /\ l.found # <<>>
      /\ l.found \in Seq(Configs) /\ l.left \in SUBSET IFaces
  BY DEF ConfigsTypeOK, ListingShape, Asking, Listings
<1>2. /\ Front(l.found) \in Seq(Configs)
      /\ \A i \in DOMAIN Front(l.found) : AddressesOK(Front(l.found)[i])
  BY <1>1 DEF Front, ListOK
<1>3. /\ found \in Seq(Configs)
      /\ \A i \in DOMAIN found : AddressesOK(found[i])
      /\ Last(found) = c
  BY <1>2, AppendedAddresses
<1> HIDE DEF found
<1>4. CASE Len(l.todo) > 1
  <2>1. listing'[t] = [l EXCEPT !.todo = Tail(l.todo), !.found = found]
    BY <1>4 DEF Advance, ConfigsTypeOK, found
  <2>2. listing'[t].left = l.left /\ listing'[t].found = found
    BY <1>1, <2>1 DEF Listings
  <2>3. QED
    BY <1>1, <1>3, <2>2 DEF ListOK, Asked
<1>5. CASE ~ (Len(l.todo) > 1)
  <2> DEFINE left == l.left \ {Asked(t)}
  <2>1. listing'[t] = Listing(left, found)
    BY <1>5 DEF Advance, ConfigsTypeOK, found
  <2>2. left \in SUBSET IFaces
    BY <1>1
  <2> HIDE DEF left
  <2>3. /\ listing'[t].left = left
        /\ \A i \in DOMAIN listing'[t].found : AddressesOK(listing'[t].found[i])
        /\ left # {} => Last(listing'[t].found).iface = Min(left)
    BY <1>3, <2>1, <2>2, ListingKeepsAddresses
  <2>4. QED
    BY <1>1, <2>3 DEF ListOK, Asked
<1>6. QED
  BY <1>4, <1>5

------------------------------------------------------------------------------
(* Threads                                                                 *)

\* A step of another thread may spoil the text that a thread is converting, and
\* nothing else of it.
LEMMA OthersKeep ==
  ASSUME NEW u \in Threads, Local(u), TInv,
         UNCHANGED <<listing[u], pc[u], paper[u], role[u], chosen[u], buffer[u], got[u], shown[u]>>,
         \/ UNCHANGED converting[u]
         \/ converting[u] # None /\ converting'[u].text = Torn
  PROVE  Local(u)'
<1> USE DEF Local
<1>1. ListOK(u)'
  BY DEF ListOK, Asked
<1>2. ConvertOK(u)'
  BY DEF ConvertOK, Asking, Asked
<1>3. PaperOK(u)' /\ ChosenOK(u)' /\ BufferOK(u)' /\ PrintOK(u)'
  BY DEF PaperOK, ChosenOK, BufferOK, PrintOK
<1>4. QED
  BY <1>1, <1>2, <1>3

\* A conversion that begins can spoil only those that are in progress.
LEMMA ConvertSpoils ==
  ASSUME TInv, NEW t \in Threads, NEW b \in Buffers, NEW a, Convert(t, b, a)
  PROVE  /\ converting[t] = None
         /\ converting'[t].text \in {Torn, a}
         /\ \A u \in Threads : u # t =>
              \/ UNCHANGED converting[u]
              \/ converting[u] # None /\ converting'[u].text = Torn
<1> USE DEF Convert, At
<1>1. t \notin At(t, b)
  BY DEF Together
<1>2. converting'[t].text \in {Torn, a}
  BY <1>1
<1>3. QED
  BY <1>2

\* Its second half spoils none.
LEMMA CopiedSpoilsNothing ==
  ASSUME TInv, NEW t \in Threads, NEW s, Copied(t, s)
  PROVE  /\ converting'[t] = None
         /\ \A u \in Threads : u # t => UNCHANGED converting[u]
  BY DEF Copied, TInv, TypeOK, ConvertorTypeOK

\* A thread that is at no getConfigs and at no address converts nothing.
LEMMA Idle ==
  ASSUME NEW t \in Threads, Local(t), pc[t] # "listing" \/ Listed(t), paper[t].todo = <<>>
  PROVE  converting[t] = None
  BY DEF Local, ConvertOK, Asking, Listed

\* A thread goes from one place to another where it has no list and no address.
LEMMA MoveKeeps ==
  ASSUME TInv, NEW t \in Threads, Local(t), NEW l \in Labels \ {"ethernet"}, Goto(t, l),
         pc[t] # "listing" \/ listing'[t] = None,
         pc[t] = "listing" => Listed(t),
         paper[t].todo = <<>>, paper'[t].todo = <<>>,
         UNCHANGED <<converting, buffer[t], got[t], shown[t]>>,
         UNCHANGED listing[t] \/ listing'[t] = None,
         l \in {"print", "setsockopt", "send", "leave"} =>
           /\ pc[t] \in {"print", "setsockopt", "send", "leave"}
           /\ UNCHANGED <<role[t], chosen[t]>>
  PROVE  Local(t)'
<1> USE DEF Local
<1>1. pc'[t] = l
  BY DEF Goto, TInv, TypeOK, ProgramTypeOK
<1>2. converting'[t] = None
  BY Idle
<1>3. listing'[t] = None
  BY DEF ListOK
<1>4. QED
  BY <1>1, <1>2, <1>3 DEF ListOK, ConvertOK, PaperOK, ChosenOK, BufferOK, PrintOK

\* A step that leaves the rest of the threads alone.
LEMMA RestKeeps ==
  ASSUME FInv, NEW t \in Threads, Local(t)',
         \A u \in Threads : u # t =>
           /\ UNCHANGED <<listing[u], pc[u], paper[u], role[u], chosen[u], buffer[u],
                          got[u], shown[u]>>
           /\ \/ UNCHANGED converting[u]
              \/ converting[u] # None /\ converting'[u].text = Torn
  PROVE  \A u \in Threads : Local(u)'
<1>1. ASSUME NEW u \in Threads, u # t
      PROVE  Local(u)'
  BY <1>1, OthersKeep DEF FInv
<1>2. QED
  BY <1>1

\* A step that concerns descriptors only.
LEMMA DescriptorStepKeeps ==
  ASSUME FInv, UNCHANGED <<listing, pc, paper, role, chosen, snifferVars, converting>>
  PROVE  \A u \in Threads : Local(u)'
<1>1. ASSUME NEW u \in Threads
      PROVE  Local(u)'
  BY OthersKeep DEF FInv, snifferVars
<1>2. QED
  BY <1>1

\* A place in a program where there is no list and no address is left.
LEMMA GotoKeeps ==
  ASSUME FInv, NEW t \in Threads, NEW l \in Labels \ {"ethernet"}, Goto(t, l),
         pc[t] # "listing" \/ listing'[t] = None,
         pc[t] = "listing" => Listed(t),
         paper[t].todo = <<>>, paper'[t].todo = <<>>,
         UNCHANGED <<converting, snifferVars>>,
         UNCHANGED listing \/ listing' = [listing EXCEPT ![t] = None],
         \A u \in Threads : u # t => UNCHANGED <<paper[u], role[u], chosen[u]>>,
         l \in {"print", "setsockopt", "send", "leave"} =>
           /\ pc[t] \in {"print", "setsockopt", "send", "leave"}
           /\ UNCHANGED <<role[t], chosen[t]>>
  PROVE  \A u \in Threads : Local(u)'
<1> USE DEF FInv, snifferVars
<1>1. UNCHANGED listing[t] \/ listing'[t] = None
  BY DEF TInv, TypeOK, ConfigsTypeOK
<1>2. Local(t)'
  BY <1>1, MoveKeeps
<1>3. \A u \in Threads : u # t => UNCHANGED <<pc[u], listing[u]>>
  BY DEF Goto, TInv, TypeOK, ProgramTypeOK, ConfigsTypeOK
<1>4. QED
  BY <1>2, <1>3, RestKeeps

\* getConfigs begins.
LEMMA CallKeeps ==
  ASSUME FInv, NEW t \in Threads, CallGetConfigs(t), UNCHANGED snifferVars
  PROVE  \A u \in Threads : Local(u)'
<1> USE DEF FInv, CallGetConfigs, BeginConfigs, snifferVars, Goto
<1>1. paper[t].todo = <<>> /\ converting[t] = None
  BY Idle DEF Local, PaperOK
<1> DEFINE l == Listing(Addressed, <<>>)
<1>2. listing'[t] = l /\ pc'[t] = "listing"
  BY DEF TInv, TypeOK, ConfigsTypeOK, ProgramTypeOK
<1>3. /\ l.left = Addressed
      /\ \A i \in DOMAIN l.found : AddressesOK(l.found[i])
      /\ Addressed # {} => Last(l.found).iface = Min(Addressed)
  <2>1. Addressed \in SUBSET IFaces /\ <<>> \in Seq(Configs) /\ DOMAIN <<>> = {}
    BY DEF Addressed
  <2>2. QED
    BY <2>1, ListingKeepsAddresses
<1> HIDE DEF l
<1>4. ListOK(t)'
  BY <1>2, <1>3 DEF ListOK, Asked
<1>5. Local(t)'
  BY <1>1, <1>2, <1>4 DEF Local, ConvertOK, PaperOK, ChosenOK, BufferOK, PrintOK
<1>6. \A u \in Threads : u # t => UNCHANGED <<pc[u], listing[u]>>
  BY DEF TInv, TypeOK, ConfigsTypeOK, ProgramTypeOK
<1>7. QED
  BY <1>5, <1>6, RestKeeps

\* It goes on.
LEMMA ConfigsKeep ==
  ASSUME FInv, NEW t \in Threads, InGetConfigs(t), UNCHANGED snifferVars
  PROVE  \A u \in Threads : Local(u)'
<1> USE DEF FInv, InGetConfigs, snifferVars, programVars
<1> DEFINE c == Last(listing[t].found)
<1>1. Asking(t) => /\ listing[t] \in Listings /\ listing[t].found # <<>>
                   /\ listing[t].todo # <<>> /\ Field(t) \in FieldNames
                   /\ c \in Configs /\ AddressesOK(c) /\ c.iface = Asked(t) /\ Asked(t) \in IFaces
  <2> SUFFICES ASSUME Asking(t)
               PROVE  /\ listing[t] \in Listings /\ listing[t].found # <<>>
                      /\ listing[t].todo # <<>> /\ Field(t) \in FieldNames
                      /\ c \in Configs /\ AddressesOK(c) /\ c.iface = Asked(t) /\ Asked(t) \in IFaces
    OBVIOUS
  <2>1. /\ listing[t] \in Listings /\ listing[t].found # <<>> /\ listing[t].left # {}
        /\ listing[t].todo # <<>>
    BY DEF Asking, TInv, TypeOK, ConfigsTypeOK, ListingShape
  <2>2. listing[t].found \in Seq(Configs) /\ listing[t].todo \in Seq(FieldNames)
    BY <2>1 DEF Listings
  <2>3. /\ c \in Configs /\ Field(t) \in FieldNames
        /\ Len(listing[t].found) \in DOMAIN listing[t].found
    BY <2>1, <2>2 DEF Last, Field
  <2>4. AddressesOK(c) /\ c.iface = Asked(t)
    <3>1. ListOK(t) /\ listing[t] # None
      BY DEF Local, Asking
    <3>2. c = listing[t].found[Len(listing[t].found)]
      BY DEF c, Last
    <3>3. QED
      BY <2>1, <2>3, <3>1, <3>2 DEF ListOK
  <2>5. Asked(t) \in IFaces
    BY <2>3, <2>4 DEF Configs
  <2>6. QED
    BY <2>1, <2>3, <2>4, <2>5
<1> HIDE DEF c
<1>2. paper[t].todo = <<>>
  BY DEF Local, PaperOK
<1>3. \A u \in Threads : u # t /\ (\E d : Advance(t, d)) => UNCHANGED listing[u]
  BY DEF Advance, TInv, TypeOK, ConfigsTypeOK
<1>4. CASE AskField(t)
  <2> USE <1>4 DEF AskField
  <2> DEFINE e == AnswerIn(c, Asked(t), Field(t))
  <2>0. Field(t) # "mac" => e \in Configs /\ e.iface = Asked(t) /\ AddressesOK(e)
    <3>1. Field(t) # "mac" => e \in Configs
      BY <1>1, SettersTyped
    <3>2. /\ c \in [iface : IFaces, mac : Texts \union {None}, ip : Nat \union {None},
                     has : SUBSET FieldNames]
          /\ c.iface = Asked(t) /\ AddressesOK(c)
      BY <1>1 DEF Configs
    <3>3. e.iface = c.iface /\ e.mac = c.mac /\ e.ip \in {c.ip, Ip[c.iface]}
      BY <3>2 DEF AnswerIn, SetIp, SetField
    <3>4. QED
      BY <3>1, <3>2, <3>3 DEF AddressesOK
  <2> HIDE DEF e
  <2>1. PICK d \in {c, e} : Advance(t, d) /\ (d # c => Field(t) # "mac")
    BY DEF c, e
  <2>2. d \in Configs /\ d.iface = Asked(t) /\ AddressesOK(d)
    BY <1>1, <2>0, <2>1
  <2>3. ListOK(t)'
    BY <2>1, <2>2, AdvanceKeepsAddresses DEF TInv, TypeOK, Local
  <2>4. Local(t)'
    BY <1>2, <2>3 DEF Local, ConvertOK, PaperOK, ChosenOK, BufferOK, PrintOK
  <2>5. QED
    BY <1>3, <2>1, <2>4, RestKeeps
<1>5. CASE AskMac(t)
  <2> USE <1>5 DEF AskMac, configVars
  <2>1. /\ converting'[t].text \in {Torn, Mac[Asked(t)]}
        /\ \A u \in Threads : u # t =>
             \/ UNCHANGED converting[u]
             \/ converting[u] # None /\ converting'[u].text = Torn
    BY ConvertSpoils DEF Buffers
  <2>2. ConvertOK(t)'
    BY <2>1 DEF ConvertOK, Asking, Asked
  <2>3. Local(t)'
    BY <2>2 DEF Local, ListOK, Asked, PaperOK, ChosenOK, BufferOK, PrintOK
  <2>4. QED
    BY <2>1, <2>3, RestKeeps
<1>6. CASE StoreMac(t)
  <2> USE <1>6 DEF StoreMac
  <2> DEFINE s == converting[t].text
             d == SetMac(c, s)
  <2>1. s \in Texts
    BY CopiedTyped DEF TInv, TypeOK
  <2>2. s \in {Torn, Mac[Asked(t)]}
    BY <1>2 DEF Local, ConvertOK
  <2>3. d \in Configs /\ d.iface = Asked(t) /\ d.mac = s /\ d.ip = c.ip
    <3>1. d \in Configs
      BY <1>1, <2>1, SettersTyped
    <3>2. c \in [iface : IFaces, mac : Texts \union {None}, ip : Nat \union {None},
                  has : SUBSET FieldNames]
      BY <1>1 DEF Configs
    <3>3. QED
      BY <1>1, <3>1, <3>2 DEF SetMac, SetField
  <2>4. AddressesOK(d) /\ Advance(t, d)
    BY <1>1, <2>2, <2>3 DEF AddressesOK, c
  <2> HIDE DEF d
  <2>5. ListOK(t)'
    BY <2>3, <2>4, AdvanceKeepsAddresses DEF TInv, TypeOK, Local
  <2>6. /\ converting'[t] = None
        /\ \A u \in Threads : u # t => UNCHANGED converting[u]
    BY CopiedSpoilsNothing
  <2>7. Local(t)'
    BY <1>2, <2>5, <2>6 DEF Local, ConvertOK, PaperOK, ChosenOK, BufferOK, PrintOK
  <2>8. QED
    BY <1>3, <2>4, <2>6, <2>7, RestKeeps
<1>7. QED
  BY <1>4, <1>5, <1>6 DEF ConfigsStep

\* What all programs do keeps the addresses right.
LEMMA ProgramStepKeeps ==
  ASSUME FInv, NEW t \in Threads, ProgramStep(t), UNCHANGED snifferVars
  PROVE  \A u \in Threads : Local(u)'
<1> USE DEF snifferVars, programVars
<1>1. Local(t) /\ TInv
  BY DEF FInv
<1>2. ASSUME NEW r \in Programs[t], StartProgram(t, r) \/ CannotStart(t, r)
      PROVE  \A u \in Threads : Local(u)'
  <2>1. paper[t].todo = <<>> /\ pc[t] = "start" /\ UNCHANGED <<listing, converting, paper, chosen>>
    BY <1>1, <1>2 DEF StartProgram, CannotStart, configVars, Local, PaperOK
  <2>2. PICK l \in {"start", "list", "end"} : Goto(t, l)
    <3>1. UNCHANGED pc => Goto(t, pc[t])
      BY <1>1 DEF Goto, TInv, TypeOK, ProgramTypeOK
    <3>2. QED
      BY <1>2, <2>1, <3>1 DEF StartProgram, CannotStart
  <2>3. \A u \in Threads : u # t => UNCHANGED role[u]
    BY <1>1, <1>2 DEF StartProgram, CannotStart, TInv, TypeOK, ProgramTypeOK
  <2>4. QED
    BY <2>1, <2>2, <2>3, GotoKeeps DEF Labels
<1>3. ASSUME GetConfigsFails(t)
      PROVE  \A u \in Threads : Local(u)'
  <2>1. paper[t].todo = <<>>
    BY <1>1, <1>3 DEF GetConfigsFails, Local, PaperOK
  <2>2. CASE role[t] = "sniffer"
    BY <1>3, <2>1, <2>2, GotoKeeps DEF GetConfigsFails, Caught, Labels
  <2>3. CASE role[t] # "sniffer"
    BY <1>3, <2>3, DescriptorStepKeeps DEF GetConfigsFails
  <2>4. QED
    BY <2>2, <2>3
<1>4. ASSUME PrintAddress(t)
      PROVE  \A u \in Threads : Local(u)'
  <2> USE <1>4 DEF PrintAddress, configVars
  <2>1. paper[t] \in Papers
    BY <1>1 DEF TInv, TypeOK, ProgramTypeOK
  <2>2. Head(paper[t].todo).buffer \in Buffers
    <3>1. paper[t].todo \in Seq([buffer : Buffers, address : Texts]) /\ paper[t].todo # <<>>
      BY <2>1 DEF Papers
    <3>2. Head(paper[t].todo) \in [buffer : Buffers, address : Texts]
      BY ONLY <3>1, HeadTailProperties
    <3>3. QED
      BY <3>2
  <2>3. /\ converting'[t].text \in {Torn, Head(paper[t].todo).address}
        /\ \A u \in Threads : u # t =>
             \/ UNCHANGED converting[u]
             \/ converting[u] # None /\ converting'[u].text = Torn
    BY <1>1, <2>2, ConvertSpoils
  <2>4. Local(t)'
    BY <1>1, <2>3 DEF Local, ConvertOK, ListOK, Asked, PaperOK, ChosenOK, BufferOK, PrintOK
  <2>5. QED
    BY <2>3, <2>4, RestKeeps
<1>5. ASSUME Printed(t)
      PROVE  \A u \in Threads : Local(u)'
  <2> USE <1>5 DEF Printed, configVars
  <2> DEFINE todo == paper[t].todo
             printed == paper[t].printed
             s == converting[t].text
  <2>1. /\ todo \in Seq([buffer : Buffers, address : Texts]) /\ printed \in Seq(Texts)
        /\ pc[t] \in {"print", "ethernet", "arp"}
        /\ s \in Texts /\ s \in {Torn, Head(todo).address}
    <3>1. pc[t] \in {"print", "ethernet", "arp"}
      BY <1>1 DEF Local, PaperOK
    <3>2. s \in Texts
      BY <1>1, CopiedTyped DEF TInv, TypeOK
    <3>3. s \in {Torn, Head(todo).address}
      BY <1>1, <3>1 DEF Local, ConvertOK
    <3>4. QED
      BY <1>1, <3>1, <3>2, <3>3 DEF TInv, TypeOK, ProgramTypeOK, Papers
  <2>2. /\ paper'[t] = [todo |-> Tail(todo), printed |-> Append(printed, s)]
        /\ \A u \in Threads : u # t => UNCHANGED paper[u]
    BY <1>1 DEF TInv, TypeOK, ProgramTypeOK
  <2>3. /\ converting'[t] = None
        /\ \A u \in Threads : u # t => UNCHANGED converting[u]
    BY <1>1, CopiedSpoilsNothing
  <2>4. PrintOK(t)'
    <3> SUFFICES ASSUME pc[t] = "ethernet"
                 PROVE  PrintOK(t)'
      BY DEF PrintOK
    <3> DEFINE header == <<EthernetOf(buffer[t]).dest, EthernetOf(buffer[t]).source>>
    <3> HIDE DEF header, todo, printed, s
    <3>1. /\ Len(printed) + Len(todo) = 2
          /\ \A i \in 1..Len(todo) : todo[i].address = header[Len(printed) + i]
          /\ \A i \in 1..Len(printed) : printed[i] \in {Torn, header[i]}
      BY <1>1 DEF Local, PrintOK, header, todo, printed
    <3>2. todo # <<>>
      BY DEF todo
    <3> DEFINE rest == Tail(todo)
               more == Append(printed, s)
    <3>3. /\ Len(rest) = Len(todo) - 1
          /\ \A i \in 1..Len(rest) : rest[i] = todo[i + 1]
          /\ Head(todo) = todo[1] /\ Len(todo) > 0
      BY <2>1, <3>2
    <3>4. /\ Len(more) = Len(printed) + 1
          /\ more[Len(printed) + 1] = s
          /\ \A i \in 1..Len(printed) : more[i] = printed[i]
      BY <2>1
    <3>5. Len(printed) \in Nat /\ Len(todo) \in Nat
      BY <2>1
    <3>6. paper'[t].todo = rest /\ paper'[t].printed = more
      BY <2>2 DEF todo, printed, s
    <3> HIDE DEF rest, more
    <3>7. s \in {Torn, header[Len(printed) + 1]}
      BY <2>1, <3>1, <3>3, <3>5
    <3>8. Len(more) + Len(rest) = 2
      BY <3>1, <3>3, <3>4, <3>5
    <3>9. \A i \in 1..Len(rest) : rest[i].address = header[Len(more) + i]
      <4> TAKE i \in 1..Len(rest)
      <4>1. i + 1 \in 1..Len(todo)
        BY <3>3, <3>5
      <4>2. rest[i].address = header[Len(printed) + (i + 1)]
        BY <3>1, <3>3, <4>1
      <4>3. Len(more) + i = Len(printed) + (i + 1)
        BY <3>4, <3>5
      <4>4. QED
        BY <4>2, <4>3
    <3>10. \A i \in 1..Len(more) : more[i] \in {Torn, header[i]}
      BY <3>1, <3>4, <3>5, <3>7
    <3>11. QED
      BY <3>6, <3>8, <3>9, <3>10 DEF PrintOK, header
  <2>5. Local(t)'
    BY <1>1, <2>1, <2>3, <2>4 DEF Local, ConvertOK, ListOK, Asked, PaperOK, ChosenOK, BufferOK
  <2>6. QED
    BY <2>2, <2>3, <2>5, RestKeeps
<1>6. QED
  BY <1>2, <1>3, <1>4, <1>5, CallKeeps, ConfigsKeep DEF ProgramStep

------------------------------------------------------------------------------
(* Frames                                                                  *)

\* The cells of two sequences, one behind the other.
LEMMA Joined ==
  ASSUME NEW S, NEW q \in Seq(S), NEW r \in Seq(S)
  PROVE  /\ q \o r \in Seq(S) /\ Len(q \o r) = Len(q) + Len(r)
         /\ \A i \in 1..Len(q) : (q \o r)[i] = q[i]
         /\ \A i \in 1..Len(r) : (q \o r)[Len(q) + i] = r[i]
<1> DEFINE s == q \o r
<1>1. /\ s \in Seq(S) /\ Len(s) = Len(q) + Len(r)
      /\ \A i \in 1..Len(q) + Len(r) : s[i] = IF i <= Len(q) THEN q[i] ELSE r[i - Len(q)]
  BY ConcatProperties, Zenon
<1> HIDE DEF s
<1>2. Len(q) \in Nat /\ Len(r) \in Nat
  OBVIOUS
<1>3. \A i \in 1..Len(q) : s[i] = q[i]
  BY ONLY <1>1, <1>2
<1>4. \A i \in 1..Len(r) : s[Len(q) + i] = r[i]
  <2> TAKE i \in 1..Len(r)
  <2>1. /\ Len(q) + i \in 1..Len(q) + Len(r)
        /\ ~ (Len(q) + i <= Len(q)) /\ Len(q) + i - Len(q) = i
    BY ONLY <1>2, i \in 1..Len(r)
  <2>2. QED
    BY ONLY <1>1, <2>1
<1>5. QED
  BY ONLY <1>1, <1>3, <1>4, Zenon DEF s

\* The cells of an Ethernet header, an IP header and a third one.
LEMMA Cells ==
  ASSUME NEW S, NEW p \in Seq(S), NEW q \in Seq(S), NEW r \in Seq(S),
         Len(p) = 3, Len(q) = 3, Len(r) = 1
  PROVE  LET w == p \o (q \o r) IN
         /\ w \in Seq(S) /\ Len(w) = 7
         /\ w[1] = p[1] /\ w[2] = p[2] /\ w[3] = p[3]
         /\ w[4] = q[1] /\ w[5] = q[2] /\ w[6] = q[3] /\ w[7] = r[1]
<1> DEFINE s == q \o r
           w == p \o s
<1>1. s \in Seq(S) /\ Len(s) = Len(q) + Len(r)
  BY ONLY Joined, q \in Seq(S), r \in Seq(S)
<1>2. \A i \in 1..Len(q) : s[i] = q[i]
  BY ONLY Joined, q \in Seq(S), r \in Seq(S)
<1>3. \A i \in 1..Len(r) : s[Len(q) + i] = r[i]
  BY ONLY Joined, q \in Seq(S), r \in Seq(S)
<1> HIDE DEF s
<1>4. w \in Seq(S) /\ Len(w) = Len(p) + Len(s)
  BY ONLY <1>1, Joined, p \in Seq(S)
<1>5. \A i \in 1..Len(p) : w[i] = p[i]
  BY ONLY <1>1, Joined, p \in Seq(S)
<1>6. \A i \in 1..Len(s) : w[Len(p) + i] = s[i]
  BY ONLY <1>1, Joined, p \in Seq(S)
<1> HIDE DEF w
<1>7. Len(s) = 4 /\ s[1] = q[1] /\ s[2] = q[2] /\ s[3] = q[3] /\ s[3 + 1] = r[1]
  BY <1>1, <1>2, <1>3
<1>8. /\ Len(w) = 7 /\ w[1] = p[1] /\ w[2] = p[2] /\ w[3] = p[3]
      /\ w[3 + 1] = s[1] /\ w[3 + 2] = s[2] /\ w[3 + 3] = s[3] /\ w[3 + 4] = s[4]
  BY <1>4, <1>5, <1>6, <1>7
<1>9. /\ w \in Seq(S) /\ Len(w) = 7
      /\ w[1] = p[1] /\ w[2] = p[2] /\ w[3] = p[3]
      /\ w[4] = q[1] /\ w[5] = q[2] /\ w[6] = q[3] /\ w[7] = r[1]
  BY <1>4, <1>7, <1>8
<1>10. QED
  BY <1>9 DEF w, s

\* Three headers, one behind the other, are one frame.
LEMMA Headers ==
  ASSUME NEW a, NEW b, NEW c, NEW d, NEW e, NEW f, NEW g
  PROVE  <<a, b, c>> \o (<<d, e, f>> \o <<g>>) = <<a, b, c, d, e, f, g>>
<1> DEFINE S == {a, b, c, d, e, f, g}
           p == <<a, b, c>>
           q == <<d, e, f>>
           r == <<g>>
           w == p \o (q \o r)
           all == <<a, b, c, d, e, f, g>>
<1>1. /\ p \in Seq(S) /\ q \in Seq(S) /\ r \in Seq(S) /\ all \in Seq(S)
      /\ Len(p) = 3 /\ Len(q) = 3 /\ Len(r) = 1 /\ Len(all) = 7
  OBVIOUS
<1>2. /\ p[1] = a /\ p[2] = b /\ p[3] = c /\ q[1] = d /\ q[2] = e /\ q[3] = f /\ r[1] = g
      /\ all[1] = a /\ all[2] = b /\ all[3] = c /\ all[4] = d
      /\ all[5] = e /\ all[6] = f /\ all[7] = g
  OBVIOUS
<1> HIDE DEF S, p, q, r, all
<1>3. /\ w \in Seq(S) /\ Len(w) = 7
      /\ w[1] = p[1] /\ w[2] = p[2] /\ w[3] = p[3]
      /\ w[4] = q[1] /\ w[5] = q[2] /\ w[6] = q[3] /\ w[7] = r[1]
  BY ONLY <1>1, Cells
<1> HIDE DEF w
<1>4. \A i \in 1..7 : w[i] = all[i]
  BY <1>2, <1>3
<1>5. w = all
  BY ONLY <1>1, <1>3, <1>4, SeqEqual
<1>6. QED
  BY <1>5 DEF w, p, q, r, all

\* A frame of a client, header behind header.
LEMMA FrameIs ==
  ASSUME NEW t \in Threads, role[t] \in Clients, chosen[t] \in Takes, NEW w \in FramesOf(t)
  PROVE  FrameBy(role[t], chosen[t], w)
<1> DEFINE number == IF Udp(t) THEN 17 ELSE 1
           last == IF Udp(t) THEN Port ELSE 8
<1>1. PICK dest \in Texts, source \in Texts :
        /\ w = EthernetHeader(dest, source) \o IpPart(t)
        /\ L2(t) => source = chosen[t].mac
  <2>1. chosen[t].mac \in Texts /\ ServerMac \in Texts /\ \A i \in IFaces : Mac[i] \in Texts
    BY PacketClientAssumption, IFaceConfigsAssumption DEF Takes, Texts
  <2>2. CASE L2(t)
    BY <2>1, <2>2 DEF FramesOf, DestMac
  <2>3. CASE ~ L2(t)
    BY <2>1, <2>3, IFaceConfigsAssumption DEF FramesOf, KernelHeaders, Addressed
  <2>4. QED
    BY <2>2, <2>3
<1>2. EthernetHeader(dest, source) = <<dest, source, 2048>>
  BY DEF EthernetHeader, EthernetNumber
<1>3. IpPart(t) = <<3, number, chosen[t].ip>> \o <<last>>
  BY DEF IpPart, IpHeader, UdpHeader, IcmpHeader, EchoRequest, IpNumber, IpLength
<1>4. w = <<dest, source, 2048, 3, number, chosen[t].ip, last>>
  <2> HIDE DEF number, last
  <2>1. w = <<dest, source, 2048>> \o (<<3, number, chosen[t].ip>> \o <<last>>)
    BY ONLY <1>1, <1>2, <1>3
  <2>2. QED
    BY ONLY <2>1, Headers
<1>5. w = ClientFrame(role[t], chosen[t], dest, source)
  BY <1>4 DEF ClientFrame, Udp
<1>6. QED
  BY <1>1, <1>5 DEF FrameBy, L2

\* What a client takes is its interface's own if all was there.
LEMMA TakenIsOwn ==
  ASSUME NEW t \in Threads, NEW c \in Configs, AddressesOK(c)
  PROVE  OwnOf(role[t], Taken(t, c))
<1>1. c \in [iface : IFaces, mac : Texts \union {None}, ip : Nat \union {None},
              has : SUBSET FieldNames]
      /\ (c.mac # None <=> "mac" \in c.has) /\ (c.ip # None <=> "ip" \in c.has)
  BY DEF Configs
<1>2. {"mac", "ip"} \subseteq Range(Fields)
  BY PacketClientAssumption
<1>3. KnownOf(t, c) => /\ "ip" \in c.has
                       /\ L2(t) => "mac" \in c.has /\ c.mac # Torn
  BY <1>2 DEF KnownOf, Needed
<1>4. QED
  BY <1>1, <1>3 DEF OwnOf, Taken, L2, AddressesOK

\* The clients' steps keep the addresses right.
LEMMA ClientStepKeeps ==
  ASSUME FInv, NEW t \in Threads, ClientStep(t), UNCHANGED snifferVars
  PROVE  (\A u \in Threads : Local(u)') /\ WireOK'
<1> USE DEF snifferVars, programVars, configVars
<1>1. Local(t) /\ TInv /\ WireOK
  BY DEF FInv
<1>2. ASSUME TakeConfig(t)
      PROVE  \A u \in Threads : Local(u)'
  <2> USE <1>2 DEF TakeConfig, AtChoice, Goto
  <2> DEFINE c == FirstFound(t)
  <2>1. /\ listing[t] # None /\ Min(Candidates(t)) \in DOMAIN listing[t].found
        /\ c \in Configs
    BY <1>1, FirstFoundTyped DEF Listed, TInv, TypeOK
  <2>2. AddressesOK(c)
    BY <1>1, <2>1 DEF Local, ListOK, FirstFound
  <2> HIDE DEF c
  <2>3. chosen'[t] = Taken(t, c) /\ pc'[t] = "print" /\ listing'[t] = None
    BY <1>1 DEF c, TInv, TypeOK, ProgramTypeOK, ConfigsTypeOK
  <2>4. ChosenOK(t)'
    BY <2>1, <2>2, <2>3, TakenIsOwn DEF ChosenOK
  <2>5. paper[t].todo = <<>>
    BY <1>1 DEF Local, PaperOK
  <2>6. converting'[t] = None
    BY <1>1, <2>5, Idle
  <2>7. Local(t)'
    BY <1>1, <2>3, <2>4, <2>6 DEF Local, ListOK, ConvertOK, PaperOK, BufferOK, PrintOK
  <2>8. \A u \in Threads : u # t => UNCHANGED <<chosen[u], paper[u], listing[u], pc[u]>>
    BY <1>1 DEF TInv, TypeOK, ProgramTypeOK, ConfigsTypeOK
  <2>9. QED
    BY <2>7, <2>8, RestKeeps
<1>3. ASSUME UseGarbage(t)
      PROVE  \A u \in Threads : Local(u)'
  BY <1>3, DescriptorStepKeeps DEF UseGarbage
<1>4. ASSUME NoInterface(t)
      PROVE  \A u \in Threads : Local(u)'
  <2>1. paper[t].todo = <<>>
    BY <1>1, <1>4 DEF NoInterface, AtChoice, Local, PaperOK
  <2>2. listing'[t] = None
    BY <1>1, <1>4 DEF NoInterface, TInv, TypeOK, ConfigsTypeOK
  <2>3. QED
    BY <1>4, <2>1, <2>2, GotoKeeps DEF NoInterface, AtChoice, Labels
<1>5. ASSUME MakeSocket(t) \/ NoSocket(t)
      PROVE  \A u \in Threads : Local(u)'
  <2>1. PICK l \in {"send", "setsockopt", "leave"} : Goto(t, l)
    BY <1>5 DEF MakeSocket, NoSocket
  <2>2. /\ pc[t] = "print" /\ paper[t].todo = <<>>
        /\ paper' = [paper EXCEPT ![t] = Blank]
        /\ UNCHANGED <<role, chosen, converting, listing>>
    BY <1>5 DEF MakeSocket, NoSocket
  <2>3. paper'[t].todo = <<>> /\ \A u \in Threads : u # t => UNCHANGED paper[u]
    BY <1>1, <2>2 DEF Blank, TInv, TypeOK, ProgramTypeOK
  <2>4. QED
    BY <2>1, <2>2, <2>3, GotoKeeps DEF Labels
<1>6. ASSUME SetOption(t) \/ Send(t)
      PROVE  \A u \in Threads : Local(u)'
  <2>1. PICK l \in {"send", "leave"} : Goto(t, l)
    BY <1>6 DEF SetOption, Send
  <2>2. /\ pc[t] \in {"setsockopt", "send"}
        /\ UNCHANGED <<role, chosen, converting, listing, paper>>
    BY <1>6 DEF SetOption, Send
  <2>3. paper[t].todo = <<>>
    BY <1>1, <2>2 DEF Local, PaperOK
  <2>4. QED
    BY <2>1, <2>2, <2>3, GotoKeeps DEF Labels
<1>7. ASSUME ReturnFromMain(t)
      PROVE  \A u \in Threads : Local(u)'
  <2> USE <1>7 DEF ReturnFromMain
  <2>1. paper[t].todo = <<>>
    BY <1>1 DEF Local, PaperOK
  <2>2. CASE UNCHANGED pc
    BY <2>2, DescriptorStepKeeps
  <2>3. CASE Goto(t, "end")
    BY <2>1, <2>3, GotoKeeps DEF Labels
  <2>4. QED
    BY <2>2, <2>3
<1>8. WireOK'
  <2>1. CASE UNCHANGED wire
    BY <1>1, <2>1 DEF WireOK
  <2>2. CASE Send(t)
    <3>1. role[t] \in Clients /\ chosen[t] \in Takes /\ OwnOf(role[t], chosen[t])
      BY <1>1, <2>2 DEF Send, TInv, ClientShape, Local, ChosenOK
    <3>2. ASSUME NEW f \in FramesOf(t),
                 wire' = [by |-> role[t], taken |-> chosen[t], frame |-> f]
          PROVE  WireOK'
      BY <3>1, <3>2, FrameIs DEF WireOK
    <3>3. QED
      BY <2>1, <2>2, <3>2 DEF Send
  <2>3. QED
    BY <2>1, <2>2 DEF ClientStep, TakeConfig, UseGarbage, NoInterface, MakeSocket, NoSocket,
      SetOption, ReturnFromMain
<1>9. QED
  BY <1>2, <1>3, <1>4, <1>5, <1>6, <1>7, <1>8 DEF ClientStep

\* A sniffer begins to print what is in its buffer.
LEMMA PrintFrameKeeps ==
  ASSUME FInv, NEW t \in Threads, pc[t] = "receive", PrintFrame(t, buffer'[t]),
         UNCHANGED <<listing, converting, role, chosen>>,
         got'[t] = None => buffer'[t] = Zeros,
         got'[t] # None =>
           /\ Len(got'[t]) > 3 => got'[t][4] \in Nat
           /\ \A i \in 1..Len(got'[t]) : i \in 1..BufferLength /\ buffer'[t][i] = got'[t][i],
         \A u \in Threads : u # t => UNCHANGED <<buffer[u], got[u]>>
  PROVE  \A u \in Threads : Local(u)'
<1> USE DEF FInv, PrintFrame, Goto
<1> DEFINE b == buffer'[t]
           todo == Macs(EthernetOf(b).dest, EthernetOf(b).source)
<1>1. /\ pc'[t] = "ethernet" /\ paper'[t] = [todo |-> todo, printed |-> <<>>]
      /\ shown'[t] = None
      /\ \A u \in Threads : u # t => UNCHANGED <<pc[u], paper[u], shown[u]>>
  BY DEF TInv, TypeOK, ProgramTypeOK, SnifferTypeOK
<1>2. paper[t].todo = <<>> /\ listing[t] = None
  BY DEF Local, PaperOK, ListOK
<1>3. converting'[t] = None
  BY <1>2, Idle
<1>4. PrintOK(t)'
  <2> DEFINE header == <<EthernetOf(b).dest, EthernetOf(b).source>>
  <2>1. /\ todo[1].address = header[1] /\ todo[2].address = header[2]
        /\ Len(todo) = 2 /\ Len(<<>>) = 0
    BY DEF Macs
  <2> HIDE DEF header, todo
  <2>2. /\ Len(paper'[t].printed) = 0
        /\ paper'[t].todo = todo
    BY <1>1, <2>1
  <2>3. \A i \in 1..Len(todo) : todo[i].address = header[Len(paper'[t].printed) + i]
    BY <2>1, <2>2
  <2>4. /\ Len(paper'[t].printed) + Len(paper'[t].todo) = 2
        /\ \A i \in 1..Len(paper'[t].todo) :
             paper'[t].todo[i].address = header[Len(paper'[t].printed) + i]
        /\ \A i \in 1..Len(paper'[t].printed) : paper'[t].printed[i] \in {Torn, header[i]}
    <3>1. Len(paper'[t].printed) = 0 /\ Len(paper'[t].todo) = 2
      BY ONLY <2>1, <2>2
    <3>2. Len(paper'[t].printed) + Len(paper'[t].todo) = 2
      BY ONLY <3>1
    <3>3. \A i \in 1..Len(paper'[t].todo) :
             paper'[t].todo[i].address = header[Len(paper'[t].printed) + i]
      BY ONLY <2>2, <2>3
    <3>4. \A i \in 1..Len(paper'[t].printed) : paper'[t].printed[i] \in {Torn, header[i]}
      BY ONLY <3>1
    <3>5. QED
      BY ONLY <3>2, <3>3, <3>4
  <2>5. QED
    BY ONLY <2>4 DEF PrintOK, header
<1>5. BufferOK(t)'
  BY <1>1 DEF BufferOK
<1>6. Local(t)'
  BY <1>1, <1>2, <1>3, <1>4, <1>5 DEF Local, ListOK, ConvertOK, PaperOK, ChosenOK
<1>7. QED
  BY <1>1, <1>6, RestKeeps

\* recvfrom fills the buffer with the frame that the sniffer got.
LEMMA ReceiveKeeps ==
  ASSUME FInv, NEW t \in Threads, NEW f \in Frames, Receive(t, f)
  PROVE  \A u \in Threads : Local(u)'
<1> USE DEF FInv, Receive
<1>1. /\ buffer'[t] = Filled(buffer[t], f) /\ got'[t] = f
      /\ \A u \in Threads : u # t => UNCHANGED <<buffer[u], got[u]>>
  BY DEF TInv, TypeOK, SnifferTypeOK
<1>2. f # None /\ Len(f) \in Nat /\ Len(f) <= BufferLength /\ (Len(f) > 3 => f[4] \in Nat)
  <2>1. CASE f \in Foreign
    <3>1. f \in Seq(Nat) /\ Seq(Nat) \subseteq Seq(Texts)
      BY <2>1, FrameSnifferAssumption, SeqMonotonic DEF Texts
    <3>2. QED
      BY <2>1, <3>1, FrameSnifferAssumption
  <2>2. CASE f \notin Foreign
    <3>1. FrameBy(wire.by, wire.taken, f) /\ f \in Seq(Texts)
      BY <2>2 DEF Frames, WireOK, TInv, TypeOK, Wires
    <3>2. Len(f) = 7 /\ f[4] = 3
      BY <3>1 DEF FrameBy, ClientFrame
    <3>3. QED
      BY <3>1, <3>2, FrameSnifferAssumption DEF EthernetLength, IpLength
  <2>3. QED
    BY <2>1, <2>2
<1>3. \A i \in 1..Len(f) : i \in 1..BufferLength /\ Filled(buffer[t], f)[i] = f[i]
  BY <1>2, FrameSnifferAssumption DEF Filled
<1>4. PrintFrame(t, buffer'[t])
  BY <1>1
<1>5. QED
  BY <1>1, <1>2, <1>3, <1>4, PrintFrameKeeps DEF configVars

\* The sniffer's steps keep the addresses right.
LEMMA SnifferStepKeeps ==
  ASSUME FInv, NEW t \in Threads, SnifferStep(t)
  PROVE  \A u \in Threads : Local(u)'
<1> USE DEF snifferVars, programVars, configVars
<1>1. Local(t) /\ TInv
  BY DEF FInv
<1>2. paper[t].todo # <<>> => pc[t] \in {"print", "ethernet", "arp"}
  BY <1>1 DEF Local, PaperOK
<1>3. (listing' = [listing EXCEPT ![t] = None]) => listing'[t] = None
  BY <1>1 DEF TInv, TypeOK, ConfigsTypeOK
<1>4. ASSUME PickInterface(t)
      PROVE  \A u \in Threads : Local(u)'
  <2>1. \A u \in Threads : u # t => UNCHANGED chosen[u]
    BY <1>1, <1>4 DEF PickInterface, TInv, TypeOK, ProgramTypeOK
  <2>2. QED
    BY <1>2, <1>3, <1>4, <2>1, GotoKeeps DEF PickInterface, Labels
<1>5. ASSUME NoDefaultInterface(t)
      PROVE  \A u \in Threads : Local(u)'
  <2>1. CASE Caught(t)
    BY <1>2, <1>3, <1>5, <2>1, GotoKeeps DEF NoDefaultInterface, Caught, Labels
  <2>2. CASE UNCHANGED <<programVars, listing>>
    BY <1>5, <2>2, DescriptorStepKeeps DEF NoDefaultInterface
  <2>3. QED
    BY <1>5, <2>1, <2>2 DEF NoDefaultInterface
<1>6. ASSUME Promiscuous(t)
      PROVE  \A u \in Threads : Local(u)'
  <2>1. PICK l \in {"socket", "end"} : Goto(t, l)
    BY <1>6 DEF Promiscuous, Caught
  <2>2. /\ pc[t] = "listing" /\ Listed(t)
        /\ listing' = [listing EXCEPT ![t] = None]
        /\ UNCHANGED <<role, chosen, paper, converting, snifferVars>>
    BY <1>6 DEF Promiscuous, Caught
  <2>3. QED
    BY <1>2, <1>3, <2>1, <2>2, GotoKeeps DEF Labels
<1>7. ASSUME ParseFrames(t)
      PROVE  \A u \in Threads : Local(u)'
  <2>1. PICK l \in {"receive", "end"} : Goto(t, l)
    BY <1>7 DEF ParseFrames
  <2>2. /\ pc[t] = "socket"
        /\ UNCHANGED <<role, chosen, paper, converting, listing, buffer, got, shown>>
    BY <1>7 DEF ParseFrames
  <2>3. Local(t)'
    BY <1>1, <1>2, <2>1, <2>2, MoveKeeps DEF Labels
  <2>4. \A u \in Threads : u # t => UNCHANGED pc[u]
    BY <1>1, <2>1 DEF Goto, TInv, TypeOK, ProgramTypeOK
  <2>5. QED
    BY <2>2, <2>3, <2>4, RestKeeps
<1>8. ASSUME ReceiveFails(t)
      PROVE  \A u \in Threads : Local(u)'
  <2>1. /\ got'[t] = None => buffer'[t] = Zeros
        /\ got'[t] # None =>
             /\ Len(got'[t]) > 3 => got'[t][4] \in Nat
             /\ \A i \in 1..Len(got'[t]) :
                  i \in 1..BufferLength /\ buffer'[t][i] = got'[t][i]
    BY <1>1, <1>8 DEF ReceiveFails, Local, BufferOK
  <2>2. PrintFrame(t, buffer'[t])
    BY <1>8 DEF ReceiveFails
  <2>3. QED
    BY <1>8, <2>1, <2>2, PrintFrameKeeps DEF ReceiveFails
<1>9. ASSUME Dispatch(t)
      PROVE  \A u \in Threads : Local(u)'
  <2> USE <1>9 DEF Dispatch, Goto
  <2> DEFINE arp == ShownOf(buffer[t]).as \in {"ARP", "RARP"}
  <2>1. /\ shown'[t] = ShownOf(buffer[t])
        /\ paper'[t].todo # <<>> => arp
        /\ pc'[t] = IF arp THEN "arp" ELSE "receive"
        /\ \A u \in Threads : u # t => UNCHANGED <<pc[u], paper[u], shown[u]>>
    BY <1>1 DEF TInv, TypeOK, ProgramTypeOK, SnifferTypeOK
  <2> HIDE DEF arp
  <2>2. listing[t] = None /\ converting[t] = None
    BY <1>1, Idle DEF Local, ListOK
  <2>3. BufferOK(t)'
    BY <1>1, <2>1 DEF Local, BufferOK
  <2>4. Local(t)'
    <3>1. listing'[t] = None /\ converting'[t] = None
      BY <2>2
    <3>2. pc'[t] \in {"arp", "receive"} /\ (paper'[t].todo # <<>> => pc'[t] = "arp")
      BY <2>1
    <3>3. QED
      BY ONLY <2>3, <3>1, <3>2 DEF Local, ListOK, ConvertOK, PaperOK, ChosenOK, PrintOK
  <2>5. QED
    BY <2>1, <2>4, RestKeeps
<1>10. ASSUME ArpPrinted(t)
      PROVE  \A u \in Threads : Local(u)'
  <2>1. paper'[t].todo = <<>> /\ \A u \in Threads : u # t => UNCHANGED paper[u]
    BY <1>1, <1>10 DEF ArpPrinted, Blank, TInv, TypeOK, ProgramTypeOK
  <2>2. QED
    BY <1>10, <2>1, GotoKeeps DEF ArpPrinted, Labels
<1>11. QED
  BY <1>4, <1>5, <1>6, <1>7, <1>8, <1>9, <1>10 DEF SnifferStep

\* So do those of the program with a lock of its own, which sends and prints nothing.
LEMMA ScopeStepKeeps ==
  ASSUME FInv, NEW t \in Threads, ScopeStep(t), UNCHANGED snifferVars
  PROVE  \A u \in Threads : Local(u)'
<1> USE DEF programVars, configVars
<1>1. Local(t) /\ TInv
  BY DEF FInv
<1>2. ASSUME BeginScope(t) \/ EndScope(t)
      PROVE  \A u \in Threads : Local(u)'
  <2>1. PICK l \in {"scope", "end"} : Goto(t, l)
    BY <1>2 DEF BeginScope, EndScope
  <2>2. pc[t] \in {"start", "scope"} /\ UNCHANGED <<chosen, paper>>
    BY <1>2 DEF BeginScope, EndScope
  <2>3. UNCHANGED <<converting, listing>>
    BY DEF ScopeStep
  <2>4. \A u \in Threads : u # t => UNCHANGED role[u]
    BY <1>1, <1>2 DEF BeginScope, EndScope, TInv, TypeOK, ProgramTypeOK
  <2>5. paper[t].todo = <<>>
    BY <1>1, <2>2 DEF Local, PaperOK
  <2>6. QED
    BY <2>1, <2>2, <2>3, <2>4, <2>5, GotoKeeps DEF Labels
<1>3. ASSUME UseScope(t) \/ CallbackEnds(t)
      PROVE  \A u \in Threads : Local(u)'
  BY <1>3, DescriptorStepKeeps DEF UseScope, CallbackEnds, ScopeStep
<1>4. QED
  BY <1>2, <1>3 DEF ScopeStep

\* The inductive invariant.
LEMMA FramesInit == Init => FInv
<1> SUFFICES ASSUME Init
             PROVE  (\A t \in Threads : Local(t)) /\ WireOK
  BY InitTyped DEF FInv
<1> USE DEF Init, ProgramInit, SnifferInit, ConvertorInit, ConfigsInit
<1>1. ASSUME NEW t \in Threads
      PROVE  Local(t)
  BY DEF Local, ListOK, ConvertOK, PaperOK, ChosenOK, BufferOK, PrintOK, Blank
<1>2. QED
  BY <1>1 DEF WireOK

\* Every step keeps the addresses right.
LEMMA FramesStep == FInv /\ [Next]_vars => FInv'
<1> SUFFICES ASSUME FInv, [Next]_vars
             PROVE  (\A u \in Threads : Local(u)') /\ WireOK'
  BY StepTyped DEF FInv
<1>1. UNCHANGED wire => WireOK'
  BY DEF FInv, WireOK
<1>2. ASSUME NEW t \in Threads, Step(t)
      PROVE  (\A u \in Threads : Local(u)') /\ WireOK'
  BY <1>1, <1>2, ProgramStepKeeps, ClientStepKeeps, SnifferStepKeeps, ReceiveKeeps,
     ScopeStepKeeps DEF Step
<1>3. CASE Others
  BY <1>1, <1>3, DescriptorStepKeeps DEF Others, Administer, programVars
<1>4. CASE UNCHANGED vars
  BY <1>1, <1>4, DescriptorStepKeeps DEF vars, programVars, configVars
<1>5. QED
  BY <1>2, <1>3, <1>4 DEF Next

------------------------------------------------------------------------------
(* What follows from it                                                    *)

\* The addresses in a client's frame are those of the interface it picked.
LEMMA OwnAddresses == FInv => SentIsOwn
<1> SUFFICES ASSUME FInv, wire # None, wire.taken.known
             PROVE  /\ IpAt(wire.frame, BehindEthernet).source = Ip[wire.taken.iface]
                    /\ wire.by \in {"l2_udp", "l2_icmp"} =>
                         EthernetOf(wire.frame).source = Mac[wire.taken.iface]
  BY DEF SentIsOwn
<1>1. FrameBy(wire.by, wire.taken, wire.frame) /\ OwnOf(wire.by, wire.taken)
  BY DEF FInv, WireOK
<1>2. /\ wire.frame[6] = wire.taken.ip
      /\ wire.by \in {"l2_udp", "l2_icmp"} => wire.frame[2] = wire.taken.mac
  BY <1>1 DEF FrameBy, ClientFrame
<1>3. QED
  BY <1>1, <1>2 DEF OwnOf, IpAt, EthernetOf, Cell, BehindEthernet, EthernetLength

\* The numbers in a client's frame are those that the viewers know.
LEMMA ProtocolNames ==
  /\ NameIn(EthernetNumber, 2048) = "IP"
  /\ NameIn(IpNumber, 17) = "UDP"
  /\ NameIn(IpNumber, 1) = "ICMP"
<1>1. /\ DOMAIN EthernetNumber = {"IP", "ARP", "RARP"}
      /\ EthernetNumber["IP"] = 2048 /\ EthernetNumber["ARP"] = 2054
      /\ EthernetNumber["RARP"] = 32821
      /\ DOMAIN IpNumber = {"ICMP", "TCP", "UDP"}
      /\ IpNumber["ICMP"] = 1 /\ IpNumber["TCP"] = 6 /\ IpNumber["UDP"] = 17
  BY DEF EthernetNumber, IpNumber
<1>2. NameIn(EthernetNumber, 2048) = "IP"
  BY <1>1 DEF NameIn
<1>3. NameIn(IpNumber, 17) = "UDP"
  BY <1>1 DEF NameIn
<1>4. NameIn(IpNumber, 1) = "ICMP"
  BY <1>1 DEF NameIn
<1>5. QED
  BY <1>2, <1>3, <1>4

\* The viewers find the builders' headers.
LEMMA HeadersFound == FInv => ViewersFollowBuilders
<1> SUFFICES ASSUME FInv, wire # None
             PROVE  ViewersFollowBuilders
  BY DEF ViewersFollowBuilders
<1> DEFINE f == wire.frame
           udp == wire.by \in {"l2_udp", "l3_udp"}
<1>1. /\ f[3] = 2048 /\ f[4] = 3 /\ f[5] = (IF udp THEN 17 ELSE 1)
      /\ f[7] = (IF udp THEN Port ELSE 8)
  BY DEF FInv, WireOK, FrameBy, ClientFrame
<1>2. EthernetOf(f).protocol = "IP"
  BY <1>1, ProtocolNames DEF EthernetOf, Cell
<1>3. IpAt(f, BehindEthernet).protocol = (IF udp THEN "UDP" ELSE "ICMP")
  BY <1>1, ProtocolNames DEF IpAt, Cell, BehindEthernet, EthernetLength
<1>4. BehindIp(f, BehindEthernet) = 6
  BY <1>1 DEF BehindIp, IpAt, Cell, BehindEthernet, EthernetLength
<1>5. TransportAt(f, 6) = (IF udp THEN Port ELSE EchoRequest)
  BY <1>1 DEF TransportAt, Cell, EchoRequest
<1>6. QED
  BY <1>2, <1>3, <1>4, <1>5 DEF ViewersFollowBuilders

\* A printed Ethernet header is that of the frame received last.
LEMMA PrintedFromFrame == FInv => PrintedIsReceived
<1> SUFFICES ASSUME FInv, NEW t \in Threads, pc[t] = "ethernet",
                    got[t] # None => Len(got[t]) >= EthernetLength
             PROVE  LET b == IF got[t] = None THEN Zeros ELSE got[t]
                        header == <<EthernetOf(b).dest, EthernetOf(b).source>>
                    IN \A i \in 1..Len(paper[t].printed) :
                         paper[t].printed[i] \in {Torn, header[i]}
  BY DEF PrintedIsReceived
<1> DEFINE b == IF got[t] = None THEN Zeros ELSE got[t]
<1>1. b[1] = buffer[t][1] /\ b[2] = buffer[t][2]
  <2>1. CASE got[t] = None
    BY <2>1 DEF FInv, Local, BufferOK
  <2>2. CASE got[t] # None
    <3>1. got[t] \in Seq(Texts) /\ Len(got[t]) >= 3
      BY <2>2 DEF FInv, TInv, TypeOK, SnifferTypeOK, EthernetLength
    <3>2. 1 \in 1..Len(got[t]) /\ 2 \in 1..Len(got[t])
      BY <3>1
    <3>3. QED
      BY <2>2, <3>2 DEF FInv, Local, BufferOK
  <2>3. QED
    BY <2>1, <2>2
<1> HIDE DEF b
<1>2. /\ EthernetOf(b).dest = EthernetOf(buffer[t]).dest
      /\ EthernetOf(b).source = EthernetOf(buffer[t]).source
  BY <1>1 DEF EthernetOf, Cell
<1>3. PrintOK(t)
  BY DEF FInv, Local
<1>4. QED
  BY <1>2, <1>3 DEF PrintOK, b

\* TcpViewer of raw bytes begins behind the IP header of the frame.
LEMMA TcpInPlace == FInv => TcpShownIsInPlace
<1> SUFFICES ASSUME FInv, NEW t \in Threads, shown[t] # None, shown[t].as = "TCP",
                    got[t] # None, Complete(got[t])
             PROVE  shown[t].field =
                      TransportAt(got[t], BehindIp(got[t], BehindEthernet))
  BY DEF TcpShownIsInPlace
<1> DEFINE b == buffer[t]
           g == got[t]
           o == 3 + g[4]
<1>1. shown[t] = ShownOf(b)
  BY DEF FInv, Local, BufferOK
<1>2. shown[t].field = TransportAt(b, TcpOfRaw(b))
  <2>1. ShownOf(b).as = "TCP" => ShownOf(b) = ShownOfIp(b)
    BY DEF ShownOf
  <2>2. ShownOfIp(b).as = "TCP" => IpAt(b, 0).protocol = "TCP"
    BY DEF ShownOfIp
  <2>3. IpAt(b, 0).protocol = "TCP" => ShownOfIp(b).field = TransportAt(b, TcpOfRaw(b))
    BY DEF ShownOfIp, FieldOfIp
  <2>4. QED
    BY <1>1, <2>1, <2>2, <2>3
<1>3. Len(g) \in Nat /\ Len(g) >= 6 /\ Len(g) > o
  BY DEF FInv, TInv, TypeOK, SnifferTypeOK, Complete, BehindIp, IpAt, Cell, BehindEthernet,
    EthernetLength, IpLength
<1>4. g[4] \in Nat /\ \A i \in 1..Len(g) : b[i] = g[i]
  BY <1>3 DEF FInv, Local, BufferOK
<1>5. b[4] = g[4] /\ b[o + 1] = g[o + 1]
  <2>1. 4 \in 1..Len(g) /\ o + 1 \in 1..Len(g)
    BY ONLY <1>3, <1>4
  <2>2. QED
    BY ONLY <1>4, <2>1
<1>6. TcpOfRaw(b) = o /\ BehindIp(g, BehindEthernet) = o
  BY <1>5 DEF TcpOfRaw, BehindIp, IpAt, Cell, BehindEthernet, EthernetLength
<1>7. QED
  BY <1>2, <1>5, <1>6 DEF TransportAt, Cell

\* The addresses in a client's frame are of one interface, whatever changes
\* while it asks for them.
THEOREM AddressesAreOwn == Spec => []SentIsOwn
  BY FramesInit, FramesStep, OwnAddresses, PTL DEF Spec

\* The viewers find in a client's frame what its builders wrote.
THEOREM HeadersAreFound == Spec => []ViewersFollowBuilders
  BY FramesInit, FramesStep, HeadersFound, PTL DEF Spec

\* What a sniffer prints as the Ethernet header was received last.
THEOREM HeaderIsReceived == Spec => []PrintedIsReceived
  BY FramesInit, FramesStep, PrintedFromFrame, PTL DEF Spec

\* What a sniffer prints as a TCP header is where the frame has it.
THEOREM TcpIsInPlace == Spec => []TcpShownIsInPlace
  BY FramesInit, FramesStep, TcpInPlace, PTL DEF Spec
=============================================================================
