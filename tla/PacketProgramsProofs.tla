------------------------ MODULE PacketProgramsProofs ------------------------
(***************************************************************************)
(* Proofs about PacketPrograms.                                            *)
(***************************************************************************)
EXTENDS PacketPrograms, WellFoundedInduction, SequenceTheorems, TLAPS

\* A set of naturals that is not empty has a least element.
LEMMA MinInSet ==
  ASSUME NEW S, S \subseteq Nat, S # {}
  PROVE  Min(S) \in S
<1>1. PICK x \in S : \A y \in S : ~ (<<y, x>> \in OpToRel(<, Nat))
  BY NatLessThanWellFounded, WFMin
<1>2. ASSUME NEW y \in S
      PROVE  x <= y
  <2>1. ~ (y < x)
    BY <1>1, Zenon DEF OpToRel
  <2>2. QED
    BY <2>1
<1>3. QED
  BY <1>2 DEF Min

\* A sequence of some length is not the empty one.
LEMMA LongIsNotEmpty == \A s : Len(s) > 0 => s # <<>>
  OBVIOUS

------------------------------------------------------------------------------
(* Types                                                                   *)

\* A listing that has interfaces left is at a field of the first of them, which
\* has its configuration.
ListingShape ==
  \A t \in Threads :
    (listing[t] # None /\ listing[t].left # {}) =>
      listing[t].todo # <<>> /\ listing[t].found # <<>>

\* A client that has its addresses.
ClientShape ==
  \A t \in Threads :
    pc[t] \in {"print", "setsockopt", "send", "leave"} =>
      role[t] \in Clients /\ chosen[t] \in Takes

TInv == TypeOK /\ ListingShape /\ ClientShape

\* The operations of the operating system, of the lock and of the convertor keep
\* the types.
LEMMA OpenTyped ==
  ASSUME ProcessTypeOK, NEW t \in Threads, NEW f \in Fds, Open(t, f)
  PROVE  ProcessTypeOK'
  BY DEF ProcessTypeOK, Open

\* close() leaves a table of descriptors one.
LEMMA CloseTyped ==
  ASSUME ProcessTypeOK, NEW t \in Threads, NEW f \in Fds \union {None}, Close(t, f)
  PROVE  ProcessTypeOK'
  BY DEF ProcessTypeOK, Close

\* So does the end of a process.
LEMMA TerminateTyped ==
  ASSUME ProcessTypeOK, NEW t \in Threads, Terminate(t)
  PROVE  ProcessTypeOK'
  BY DEF ProcessTypeOK, Terminate

\* A new lock is one, with no call in progress.
LEMMA GuardTyped ==
  ASSUME LockTypeOK, NEW t \in Threads, NEW f \in Fds \union {None}, Guard(t, f)
  PROVE  LockTypeOK'
<1>1. Locked(f) \in Locks /\ Len(Locked(f).calls) = 0
  BY DEF Locked, Locks
<1>2. QED
  BY <1>1, ScopedLockAssumption DEF LockTypeOK, Guard

\* A call of the callback adds one to the calls in progress, Depth at most.
LEMMA InvokeTyped ==
  ASSUME ProcessTypeOK, LockTypeOK, NEW t \in Threads,
         NEW by \in {"unlock", "destructor"}, Invoke(t, by)
  PROVE  ProcessTypeOK' /\ LockTypeOK'
<1>1. lock[t] \in Locks
  BY DEF LockTypeOK, Invoke
<1>2. ProcessTypeOK'
  BY <1>1, CloseTyped DEF Invoke, Locks
<1>3. Append(lock[t].calls, by) \in Seq({"unlock", "destructor"})
  BY <1>1 DEF Locks
<1>4. Len(Append(lock[t].calls, by)) = Len(lock[t].calls) + 1
  BY <1>1 DEF Locks
<1>5. lock' \in [Threads -> Locks \union {None}]
  BY <1>1, <1>3 DEF LockTypeOK, Invoke, Locks
<1>6. \A u \in Threads : lock'[u] # None => Len(lock'[u].calls) <= Depth
  BY <1>1, <1>3, <1>4, ScopedLockAssumption DEF LockTypeOK, Invoke, Locks
<1>7. QED
  BY <1>2, <1>5, <1>6 DEF LockTypeOK, Invoke

\* The callback that returns leaves the calls in progress, and the lock reset.
LEMMA ReturnTyped ==
  ASSUME LockTypeOK, NEW t \in Threads, Return(t)
  PROVE  LockTypeOK'
<1>1. lock[t] \in Locks /\ lock[t].calls # <<>>
  BY DEF LockTypeOK, Return
<1>2. /\ Front(lock[t].calls) \in Seq({"unlock", "destructor"})
      /\ Len(Front(lock[t].calls)) = Len(lock[t].calls) - 1
  BY <1>1 DEF Locks, Front
<1>3. [lock[t] EXCEPT !.calls = Front(lock[t].calls), !.armed = FALSE] \in Locks
  BY <1>1, <1>2 DEF Locks
<1>4. QED
  BY <1>1, <1>2, <1>3, ScopedLockAssumption DEF LockTypeOK, Return, Locks

\* One that throws leaves them too, or the process has ended.
LEMMA ThrowTyped ==
  ASSUME ProcessTypeOK, LockTypeOK, NEW t \in Threads, Throw(t)
  PROVE  ProcessTypeOK' /\ LockTypeOK'
<1>1. lock[t] \in Locks /\ lock[t].calls # <<>>
  BY DEF LockTypeOK, Throw
<1>2. /\ Front(lock[t].calls) \in Seq({"unlock", "destructor"})
      /\ Len(Front(lock[t].calls)) = Len(lock[t].calls) - 1
  BY <1>1 DEF Locks, Front
<1>3. [lock[t] EXCEPT !.calls = Front(@)] \in Locks
  BY <1>1, <1>2 DEF Locks
<1>4. CASE Last(lock[t].calls) = "destructor"
  BY <1>4, TerminateTyped DEF Throw, LockTypeOK
<1>5. CASE Last(lock[t].calls) # "destructor"
  <2>1. ProcessTypeOK'
    BY <1>5 DEF Throw, processVars, ProcessTypeOK
  <2>2. LockTypeOK'
    BY <1>1, <1>2, <1>3, <1>5, ScopedLockAssumption DEF LockTypeOK, Throw, Locks
  <2>3. QED
    BY <2>1, <2>2
<1>6. QED
  BY <1>4, <1>5

\* The first half of a conversion is one that waits for the second.
LEMMA ConvertTyped ==
  ASSUME ConvertorTypeOK, NEW t \in Threads, NEW b \in Buffers, NEW a \in Texts,
         Convert(t, b, a)
  PROVE  ConvertorTypeOK'
  BY DEF ConvertorTypeOK, Convert, Conversions, Texts

\* The second half gives a text.
LEMMA CopiedTyped ==
  ASSUME ConvertorTypeOK, NEW t \in Threads, NEW s, Copied(t, s)
  PROVE  ConvertorTypeOK' /\ s \in Texts
  BY DEF ConvertorTypeOK, Copied, Conversions

\* getConfigs.
LEMMA SettersTyped ==
  ASSUME NEW c \in Configs
  PROVE  /\ \A i \in IFaces, f \in FieldNames : f # "mac" => AnswerIn(c, i, f) \in Configs
         /\ \A s \in Texts : SetMac(c, s) \in Configs
<1>1. None \notin Texts /\ Nat \subseteq Texts
  BY ProcessAssumption, SockAddrConvertorAssumption DEF Texts
<1>2. c \in [iface : IFaces, mac : Texts \union {None}, ip : Nat \union {None},
              has : SUBSET FieldNames]
      /\ (c.mac # None <=> "mac" \in c.has) /\ (c.ip # None <=> "ip" \in c.has)
  BY DEF Configs
<1>3. ASSUME NEW i \in IFaces, NEW f \in FieldNames, f # "mac"
      PROVE  AnswerIn(c, i, f) \in Configs
  <2>1. CASE f = "ip"
    <3>1. Ip[i] \in Nat /\ Ip[i] # None
      BY <1>1, IFaceConfigsAssumption
    <3>2. QED
      BY <1>2, <2>1, <3>1 DEF AnswerIn, SetIp, SetField, Configs, FieldNames
  <2>2. CASE f # "ip"
    BY <1>2, <1>3, <2>2 DEF AnswerIn, SetField, Configs
  <2>3. QED
    BY <2>1, <2>2
<1>4. ASSUME NEW s \in Texts
      PROVE  SetMac(c, s) \in Configs
  BY <1>1, <1>2, <1>4 DEF SetField, SetMac, Configs, FieldNames
<1>5. QED
  BY <1>3, <1>4

\* The list goes on with the configuration of the next interface, if there is one.
LEMMA ListingTyped ==
  ASSUME NEW left \in SUBSET IFaces, NEW found \in Seq(Configs)
  PROVE  /\ Listing(left, found) \in Listings
         /\ Listing(left, found).left = left
         /\ left # {} => /\ Listing(left, found).todo # <<>>
                         /\ Listing(left, found).found # <<>>
<1> DEFINE f == IF left = {} THEN found ELSE Append(found, NamedConfig(Min(left)))
<1>1. left # {} => NamedConfig(Min(left)) \in Configs
  BY MinInSet, IFaceConfigsAssumption DEF NamedConfig, Configs
<1>2. f \in Seq(Configs) /\ (left # {} => f # <<>>)
  <2>1. CASE left = {}
    BY <2>1
  <2>2. CASE left # {}
    <3> DEFINE c == NamedConfig(Min(left))
    <3>1. c \in Configs
      BY <1>1, <2>2
    <3> HIDE DEF c
    <3>2. Append(found, c) \in Seq(Configs) /\ Append(found, c) # <<>>
      BY <3>1
    <3>3. QED
      BY <2>2, <3>2 DEF c
  <2>3. QED
    BY <2>1, <2>2
<1> HIDE DEF f
<1>3. Listing(left, found) = [left |-> left, todo |-> Fields, found |-> f]
  BY DEF Listing, f
<1>4. QED
  BY <1>2, <1>3, IFaceConfigsAssumption DEF Listings

\* After a field comes the next, or the next interface.
LEMMA AdvanceTyped ==
  ASSUME ConfigsTypeOK, ListingShape, NEW t \in Threads, NEW c \in Configs,
         Asking(t), Advance(t, c), UNCHANGED link
  PROVE  ConfigsTypeOK' /\ ListingShape'
<1> DEFINE l == listing[t]
           found == Append(Front(l.found), c)
           next == IF Len(l.todo) > 1 THEN [l EXCEPT !.todo = Tail(l.todo), !.found = found]
                                      ELSE Listing(l.left \ {Asked(t)}, found)
<1>1. l \in Listings /\ l # None /\ l.left # {} /\ l.found # <<>> /\ l.todo # <<>>
  BY DEF ConfigsTypeOK, ListingShape, Asking
<1>2. found \in Seq(Configs) /\ found # <<>>
  <2>1. l.found \in Seq(Configs)
    BY <1>1 DEF Listings
  <2>2. Front(l.found) \in Seq(Configs)
    BY <1>1, <2>1 DEF Front
  <2>3. QED
    BY <2>2
<1>3. ASSUME Len(l.todo) > 1
      PROVE  next \in Listings /\ next.todo # <<>> /\ next.found # <<>>
  <2>1. l.todo \in Seq(FieldNames)
    BY <1>1 DEF Listings
  <2>2. Tail(l.todo) \in Seq(FieldNames) /\ Tail(l.todo) # <<>>
    <3>1. Tail(l.todo) \in Seq(FieldNames) /\ Len(Tail(l.todo)) = Len(l.todo) - 1
      BY <1>1, <2>1, HeadTailProperties
    <3>2. Len(Tail(l.todo)) > 0
      BY <1>3, <2>1, <3>1
    <3>3. Tail(l.todo) # <<>>
      BY <3>2, LongIsNotEmpty
    <3>4. QED
      BY ONLY <3>1, <3>3
  <2> HIDE DEF found
  <2>3. QED
    BY <1>1, <1>2, <1>3, <2>2 DEF Listings
<1>4. ASSUME ~(Len(l.todo) > 1)
      PROVE  next \in Listings /\ (next.left # {} => next.todo # <<>> /\ next.found # <<>>)
  <2> HIDE DEF found
  <2>1. l.left \ {Asked(t)} \in SUBSET IFaces
    BY <1>1 DEF Listings
  <2>2. QED
    BY <1>2, <1>4, <2>1, ListingTyped
<1> HIDE DEF next
<1>5. next \in Listings /\ (next.left # {} => next.todo # <<>> /\ next.found # <<>>)
  BY <1>3, <1>4
<1>6. listing' = [listing EXCEPT ![t] = next]
  BY DEF Advance, next
<1>7. QED
  BY <1>5, <1>6 DEF ConfigsTypeOK, ListingShape

\* Every step of getConfigs keeps the types.
LEMMA ConfigsStepTyped ==
  ASSUME ConvertorTypeOK, ConfigsTypeOK, ListingShape, NEW t \in Threads, ConfigsStep(t)
  PROVE  ConvertorTypeOK' /\ ConfigsTypeOK' /\ ListingShape'
<1> USE DEF ConfigsStep
<1>1. Asking(t) => /\ listing[t].todo # <<>> /\ Head(listing[t].todo) \in FieldNames
                   /\ Last(listing[t].found) \in Configs
                   /\ Asked(t) \in IFaces
  <2> SUFFICES ASSUME Asking(t)
               PROVE  /\ listing[t].todo # <<>> /\ Head(listing[t].todo) \in FieldNames
                      /\ Last(listing[t].found) \in Configs
                      /\ Asked(t) \in IFaces
    OBVIOUS
  <2>1. /\ listing[t] \in Listings /\ listing[t].left # {}
        /\ listing[t].todo # <<>> /\ listing[t].found # <<>>
    BY DEF Asking, ConfigsTypeOK, ListingShape
  <2>2. Asked(t) \in IFaces
    BY <2>1, MinInSet, IFaceConfigsAssumption DEF Listings, Asked
  <2>3. QED
    BY <2>1, <2>2 DEF Listings, Last
<1>2. CASE AskField(t)
  <2>1. Field(t) # "mac" =>
          AnswerIn(Last(listing[t].found), Asked(t), Field(t)) \in Configs
    BY <1>1, <1>2, SettersTyped DEF AskField, Field
  <2>2. ConfigsTypeOK' /\ ListingShape'
    BY <1>1, <1>2, <2>1, AdvanceTyped DEF AskField
  <2>3. QED
    BY <1>2, <2>2 DEF AskField, ConvertorTypeOK
<1>3. CASE AskMac(t)
  <2>1. Mac[Asked(t)] \in Texts
    BY <1>1, <1>3, IFaceConfigsAssumption DEF AskMac, Texts
  <2>2. ConvertorTypeOK'
    BY <1>3, <2>1, ConvertTyped DEF AskMac, Buffers
  <2>3. QED
    BY <1>3, <2>2 DEF AskMac, configVars, ConfigsTypeOK, ListingShape
<1>4. CASE StoreMac(t)
  <2>1. converting[t].text \in Texts /\ ConvertorTypeOK'
    BY <1>4, CopiedTyped DEF StoreMac
  <2>2. SetMac(Last(listing[t].found), converting[t].text) \in Configs
    BY <1>1, <1>4, <2>1, SettersTyped DEF StoreMac
  <2>3. QED
    BY <1>4, <2>1, <2>2, AdvanceTyped DEF StoreMac
<1>5. QED
  BY <1>2, <1>3, <1>4

\* The configuration that a program picks.
LEMMA FirstFoundTyped ==
  ASSUME ConfigsTypeOK, NEW t \in Threads, listing[t] # None, Candidates(t) # {}
  PROVE  FirstFound(t) \in Configs /\ FirstFound(t).iface # 0
         /\ Min(Candidates(t)) \in DOMAIN listing[t].found
<1>1. listing[t].found \in Seq(Configs)
  BY DEF ConfigsTypeOK, Listings
<1>2. Candidates(t) \subseteq Nat
  BY <1>1 DEF Candidates
<1>3. Min(Candidates(t)) \in Candidates(t)
  BY <1>2, MinInSet
<1>4. \A i \in Candidates(t) : /\ i \in DOMAIN listing[t].found
                                /\ listing[t].found[i] \in Configs
                                /\ listing[t].found[i].iface # 0
  BY <1>1 DEF Candidates
<1>5. QED
  BY <1>3, <1>4 DEF FirstFound

\* What all programs do keeps the types.
LEMMA ProgramStepTyped ==
  ASSUME TInv, NEW t \in Threads, ProgramStep(t), UNCHANGED <<wire, snifferVars>>
  PROVE  TInv'
<1> USE DEF TInv, TypeOK, processVars, lockVars, configVars, programVars, snifferVars
<1>1. SnifferTypeOK' /\ wire' \in Wires \union {None}
  BY DEF SnifferTypeOK
<1>2. ASSUME NEW r \in Programs[t], StartProgram(t, r)
      PROVE  TInv'
  <2> USE <1>2 DEF StartProgram
  <2>1. PICK f \in Fds : Open(t, f) /\ manager' = [manager EXCEPT ![t] = f]
    OBVIOUS
  <2>2. ProcessTypeOK'
    BY <2>1, OpenTyped
  <2>3. r \in Clients \union {"sniffer", "scoped"}
    BY ProgramAssumption
  <2>4. ProgramTypeOK' /\ ClientShape'
    BY <2>1, <2>3 DEF ProgramTypeOK, ClientShape, Goto, Labels
  <2>5. LockTypeOK' /\ ConvertorTypeOK' /\ ConfigsTypeOK' /\ ListingShape'
    BY DEF LockTypeOK, ConvertorTypeOK, ConfigsTypeOK, ListingShape
  <2>6. QED
    BY <1>1, <2>2, <2>4, <2>5
<1>3. ASSUME NEW r \in Programs[t], CannotStart(t, r)
      PROVE  TInv'
  <2> USE <1>3 DEF CannotStart
  <2>1. ProcessTypeOK'
    BY TerminateTyped DEF ProcessTypeOK
  <2>2. r \in Clients \union {"sniffer", "scoped"}
    BY ProgramAssumption
  <2>3. ProgramTypeOK' /\ ClientShape'
    BY <2>2 DEF ProgramTypeOK, ClientShape, Goto, Labels
  <2>4. LockTypeOK' /\ ConvertorTypeOK' /\ ConfigsTypeOK' /\ ListingShape'
    BY DEF LockTypeOK, ConvertorTypeOK, ConfigsTypeOK, ListingShape
  <2>5. QED
    BY <1>1, <2>1, <2>3, <2>4
<1>4. ASSUME CallGetConfigs(t)
      PROVE  TInv'
  <2> USE <1>4 DEF CallGetConfigs, BeginConfigs
  <2> DEFINE l == Listing(Addressed, <<>>)
  <2>1. l \in Listings /\ (l.left # {} => l.todo # <<>> /\ l.found # <<>>)
    <3>1. Addressed \in SUBSET IFaces /\ <<>> \in Seq(Configs)
      BY DEF Addressed
    <3>2. QED
      BY <3>1, ListingTyped
  <2>2. listing' = [listing EXCEPT ![t] = l] /\ UNCHANGED link
    OBVIOUS
  <2> HIDE DEF l
  <2>3. ConfigsTypeOK' /\ ListingShape'
    BY <2>1, <2>2 DEF ConfigsTypeOK, ListingShape
  <2>4. ProgramTypeOK' /\ ClientShape'
    BY DEF ProgramTypeOK, ClientShape, Goto, Labels
  <2>5. ProcessTypeOK' /\ LockTypeOK' /\ ConvertorTypeOK'
    BY DEF ProcessTypeOK, LockTypeOK, ConvertorTypeOK
  <2>6. QED
    BY <1>1, <2>3, <2>4, <2>5
<1>5. ASSUME GetConfigsFails(t)
      PROVE  TInv'
  <2> USE <1>5 DEF GetConfigsFails, Caught, DestroyManager
  <2>1. ProcessTypeOK'
    BY CloseTyped, TerminateTyped DEF ProgramTypeOK
  <2>2. ProgramTypeOK' /\ ClientShape'
    BY DEF ProgramTypeOK, ClientShape, Goto, Labels
  <2>3. LockTypeOK' /\ ConvertorTypeOK' /\ ConfigsTypeOK' /\ ListingShape'
    BY DEF LockTypeOK, ConvertorTypeOK, ConfigsTypeOK, ListingShape
  <2>4. QED
    BY <1>1, <2>1, <2>2, <2>3
<1>6. ASSUME InGetConfigs(t)
      PROVE  TInv'
  <2> USE <1>6 DEF InGetConfigs
  <2>1. ConvertorTypeOK' /\ ConfigsTypeOK' /\ ListingShape'
    BY ConfigsStepTyped
  <2>2. ProcessTypeOK' /\ LockTypeOK' /\ ProgramTypeOK' /\ ClientShape'
    BY DEF ProcessTypeOK, LockTypeOK, ProgramTypeOK, ClientShape
  <2>3. QED
    BY <1>1, <2>1, <2>2
<1>7. ASSUME PrintAddress(t)
      PROVE  TInv'
  <2> USE <1>7 DEF PrintAddress
  <2>1. Head(paper[t].todo) \in [buffer : Buffers, address : Texts]
    <3>1. paper[t].todo \in Seq([buffer : Buffers, address : Texts])
      BY DEF ProgramTypeOK, Papers
    <3>2. QED
      BY <3>1, HeadTailProperties
  <2>2. ConvertorTypeOK'
    BY <2>1, ConvertTyped
  <2>3. /\ ProcessTypeOK' /\ LockTypeOK' /\ ProgramTypeOK' /\ ClientShape'
        /\ ConfigsTypeOK' /\ ListingShape'
    BY DEF ProcessTypeOK, LockTypeOK, ProgramTypeOK, ClientShape, ConfigsTypeOK, ListingShape
  <2>4. QED
    BY <1>1, <2>2, <2>3
<1>8. ASSUME Printed(t)
      PROVE  TInv'
  <2> USE <1>8 DEF Printed
  <2>1. ConvertorTypeOK' /\ converting[t].text \in Texts
    BY CopiedTyped
  <2>2. /\ Tail(paper[t].todo) \in Seq([buffer : Buffers, address : Texts])
        /\ Append(paper[t].printed, converting[t].text) \in Seq(Texts)
    <3>1. /\ paper[t].todo \in Seq([buffer : Buffers, address : Texts])
          /\ paper[t].printed \in Seq(Texts)
      BY DEF ProgramTypeOK, Papers
    <3>2. QED
      BY <2>1, <3>1, HeadTailProperties
  <2>3. paper' \in [Threads -> Papers]
    BY <2>2 DEF ProgramTypeOK, Papers
  <2>4. ProgramTypeOK' /\ ClientShape'
    BY <2>3 DEF ProgramTypeOK, ClientShape
  <2>5. ProcessTypeOK' /\ LockTypeOK' /\ ConfigsTypeOK' /\ ListingShape'
    BY DEF ProcessTypeOK, LockTypeOK, ConfigsTypeOK, ListingShape
  <2>6. QED
    BY <1>1, <2>1, <2>4, <2>5
<1>9. QED
  BY <1>2, <1>3, <1>4, <1>5, <1>6, <1>7, <1>8 DEF ProgramStep

\* What the builders write are sequences of cells.
LEMMA HeadersTyped ==
  /\ \A a, b \in Texts : EthernetHeader(a, b) \in Seq(Texts)
  /\ \A a \in Texts, p \in {"UDP", "ICMP"} : IpHeader(p, a) \in Seq(Texts)
  /\ UdpHeader \in Seq(Texts) /\ IcmpHeader \in Seq(Texts)
<1>1. EthernetNumber.IP \in Texts /\ IpNumber["UDP"] \in Texts /\ IpNumber["ICMP"] \in Texts
  BY DEF EthernetNumber, IpNumber, Texts
<1>2. IpLength \in Texts /\ EchoRequest \in Texts /\ Port \in Texts
  BY PacketClientAssumption DEF IpLength, EchoRequest, Texts
<1>3. \A a, b, c \in Texts : <<a, b, c>> \in Seq(Texts)
  OBVIOUS
<1>4. \A a \in Texts : <<a>> \in Seq(Texts)
  OBVIOUS
<1>5. QED
  BY <1>1, <1>2, <1>3, <1>4 DEF EthernetHeader, IpHeader, UdpHeader, IcmpHeader

\* So is the frame that they make up together.
LEMMA FrameTyped ==
  ASSUME NEW t \in Threads, chosen[t] \in Takes
  PROVE  FramesOf(t) \subseteq Seq(Texts)
<1>1. chosen[t].mac \in Texts /\ chosen[t].ip \in Texts /\ chosen[t].iface \in IFaces
  BY DEF Takes
<1>2. ServerMac \in Texts /\ \A i \in IFaces : Mac[i] \in Texts
  BY PacketClientAssumption, IFaceConfigsAssumption DEF Texts
<1>3. IpPart(t) \in Seq(Texts)
  BY <1>1, HeadersTyped, ConcatProperties DEF IpPart
<1>4. KernelHeaders(t) \subseteq Seq(Texts)
  BY <1>1, <1>2, IFaceConfigsAssumption, HeadersTyped DEF KernelHeaders, Addressed
<1>5. EthernetHeader(DestMac(t), chosen[t].mac) \in Seq(Texts)
  BY <1>1, <1>2, HeadersTyped DEF DestMac
<1>6. \A h \in Seq(Texts) : h \o IpPart(t) \in Seq(Texts)
  BY <1>3, ConcatProperties
<1>7. QED
  BY <1>4, <1>5, <1>6 DEF FramesOf

\* The two MAC addresses of an Ethernet header are printed through a buffer.
LEMMA MacsTyped ==
  \A d, s \in Texts : Macs(d, s) \in Seq([buffer : Buffers, address : Texts])
  BY DEF Macs, Buffers

\* A program that prints nothing has nothing to print.
LEMMA BlankTyped == Blank \in Papers
  BY DEF Blank, Papers

\* What a client takes of a configuration other than that of loopback.
LEMMA TakenTyped ==
  ASSUME NEW t \in Threads, NEW c \in Configs, c.iface # 0
  PROVE  Taken(t, c) \in Takes
<1>1. /\ c.iface \in IFaces \ {0}
      /\ "mac" \in c.has => c.mac \in Texts
      /\ "ip" \in c.has => c.ip \in Texts
  BY DEF Configs, Texts
<1>2. Torn \in Texts
  BY DEF Texts
<1>3. KnownOf(t, c) \in BOOLEAN
  BY DEF KnownOf
<1>4. QED
  BY <1>1, <1>2, <1>3 DEF Taken, Takes

\* The clients' steps keep the types.
LEMMA ClientStepTyped ==
  ASSUME TInv, NEW t \in Threads, ClientStep(t), UNCHANGED snifferVars
  PROVE  TInv'
<1> USE DEF TInv, TypeOK, processVars, lockVars, configVars, programVars, snifferVars
<1>1. SnifferTypeOK'
  BY DEF SnifferTypeOK
<1>2. ASSUME TakeConfig(t)
      PROVE  TInv'
  <2> USE <1>2 DEF TakeConfig
  <2> DEFINE take == Taken(t, FirstFound(t))
             todo == IF L2(t) THEN Macs(IF Udp(t) THEN take.mac ELSE ServerMac, take.mac)
                              ELSE <<>>
  <2>1. FirstFound(t) \in Configs /\ FirstFound(t).iface # 0
    BY FirstFoundTyped DEF AtChoice, Listed
  <2>2. take \in Takes
    BY <2>1, TakenTyped
  <2>3. todo \in Seq([buffer : Buffers, address : Texts])
    <3>1. take.mac \in Texts /\ ServerMac \in Texts
      BY <2>2, PacketClientAssumption DEF Takes, Texts
    <3> HIDE DEF take
    <3>2. /\ Macs(take.mac, take.mac) \in Seq([buffer : Buffers, address : Texts])
          /\ Macs(ServerMac, take.mac) \in Seq([buffer : Buffers, address : Texts])
      BY ONLY <3>1, MacsTyped
    <3>3. <<>> \in Seq([buffer : Buffers, address : Texts])
      OBVIOUS
    <3>4. QED
      BY ONLY <3>2, <3>3
  <2> HIDE DEF take, todo
  <2>4. /\ chosen' = [chosen EXCEPT ![t] = take]
        /\ paper' = [paper EXCEPT ![t].todo = todo]
    BY DEF take, todo, ProgramTypeOK
  <2>5. paper' \in [Threads -> Papers]
    BY <2>3, <2>4 DEF ProgramTypeOK, Papers
  <2>6. ProcessTypeOK'
    BY CloseTyped DEF DestroyManager, ProgramTypeOK
  <2>7. ProgramTypeOK'
    BY <2>2, <2>4, <2>5 DEF ProgramTypeOK, DestroyManager, Goto, Labels
  <2>8. ClientShape'
    BY <2>2, <2>4 DEF ClientShape, AtChoice, Goto, ProgramTypeOK
  <2>9. LockTypeOK' /\ ConvertorTypeOK' /\ ConfigsTypeOK' /\ ListingShape'
    BY DEF LockTypeOK, ConvertorTypeOK, ConfigsTypeOK, ListingShape
  <2>10. QED
    BY <1>1, <2>6, <2>7, <2>8, <2>9
<1>3. ASSUME UseGarbage(t)
      PROVE  TInv'
  <2> USE <1>3 DEF UseGarbage
  <2>1. ProcessTypeOK'
    BY TerminateTyped
  <2>2. /\ LockTypeOK' /\ ConvertorTypeOK' /\ ConfigsTypeOK' /\ ListingShape'
        /\ ProgramTypeOK' /\ ClientShape'
    BY DEF LockTypeOK, ConvertorTypeOK, ConfigsTypeOK, ListingShape, ProgramTypeOK, ClientShape
  <2>3. QED
    BY <1>1, <2>1, <2>2
<1>4. ASSUME NoInterface(t)
      PROVE  TInv'
  <2> USE <1>4 DEF NoInterface
  <2>1. ProcessTypeOK'
    BY CloseTyped DEF DestroyManager, ProgramTypeOK
  <2>2. ProgramTypeOK' /\ ClientShape'
    BY DEF ProgramTypeOK, ClientShape, DestroyManager, Goto, Labels
  <2>3. LockTypeOK' /\ ConvertorTypeOK' /\ ConfigsTypeOK' /\ ListingShape'
    BY DEF LockTypeOK, ConvertorTypeOK, ConfigsTypeOK, ListingShape
  <2>4. QED
    BY <1>1, <2>1, <2>2, <2>3
<1>5. ASSUME MakeSocket(t)
      PROVE  TInv'
  <2> USE <1>5 DEF MakeSocket, OpenAndGuard
  <2>1. PICK f \in Fds : Open(t, f) /\ Guard(t, f)
    OBVIOUS
  <2>2. ProcessTypeOK' /\ LockTypeOK'
    BY <2>1, OpenTyped, GuardTyped
  <2>3. ProgramTypeOK' /\ ClientShape'
    BY BlankTyped DEF ProgramTypeOK, ClientShape, Goto, Labels
  <2>4. ConvertorTypeOK' /\ ConfigsTypeOK' /\ ListingShape'
    BY DEF ConvertorTypeOK, ConfigsTypeOK, ListingShape
  <2>5. QED
    BY <1>1, <2>2, <2>3, <2>4
<1>6. ASSUME NoSocket(t)
      PROVE  TInv'
  <2> USE <1>6 DEF NoSocket
  <2>1. LockTypeOK'
    BY GuardTyped
  <2>2. ProgramTypeOK' /\ ClientShape'
    BY BlankTyped DEF ProgramTypeOK, ClientShape, Goto, Labels
  <2>3. ProcessTypeOK' /\ ConvertorTypeOK' /\ ConfigsTypeOK' /\ ListingShape'
    BY DEF ProcessTypeOK, ConvertorTypeOK, ConfigsTypeOK, ListingShape
  <2>4. QED
    BY <1>1, <2>1, <2>2, <2>3
<1>7. ASSUME SetOption(t)
      PROVE  TInv'
  <2> USE <1>7 DEF SetOption
  <2>1. ProgramTypeOK' /\ ClientShape'
    BY DEF ProgramTypeOK, ClientShape, Goto, Labels
  <2>2. ProcessTypeOK' /\ LockTypeOK' /\ ConvertorTypeOK' /\ ConfigsTypeOK' /\ ListingShape'
    BY DEF ProcessTypeOK, LockTypeOK, ConvertorTypeOK, ConfigsTypeOK, ListingShape
  <2>3. QED
    BY <1>1, <2>1, <2>2
<1>8. ASSUME Send(t)
      PROVE  TInv'
  <2> USE <1>8 DEF Send
  <2>1. role[t] \in Clients /\ chosen[t] \in Takes
    BY DEF ClientShape
  <2>2. \A f \in FramesOf(t) :
          [by |-> role[t], taken |-> chosen[t], frame |-> f] \in Wires
    BY <2>1, FrameTyped DEF Wires
  <2>3. wire' \in Wires \union {None}
    BY <2>2
  <2>4. ProgramTypeOK' /\ ClientShape'
    BY DEF ProgramTypeOK, ClientShape, Goto, Labels
  <2>5. ProcessTypeOK' /\ LockTypeOK' /\ ConvertorTypeOK' /\ ConfigsTypeOK' /\ ListingShape'
    BY DEF ProcessTypeOK, LockTypeOK, ConvertorTypeOK, ConfigsTypeOK, ListingShape
  <2>6. QED
    BY <1>1, <2>3, <2>4, <2>5
<1>9. ASSUME ReturnFromMain(t)
      PROVE  TInv'
  <2> USE <1>9 DEF ReturnFromMain
  <2>1. ProcessTypeOK' /\ LockTypeOK'
    BY InvokeTyped, ReturnTyped DEF Return, ProcessTypeOK
  <2>2. ProgramTypeOK' /\ ClientShape'
    BY DEF ProgramTypeOK, ClientShape, Goto, Labels
  <2>3. ConvertorTypeOK' /\ ConfigsTypeOK' /\ ListingShape'
    BY DEF ConvertorTypeOK, ConfigsTypeOK, ListingShape
  <2>4. QED
    BY <1>1, <2>1, <2>2, <2>3
<1>10. QED
  BY <1>2, <1>3, <1>4, <1>5, <1>6, <1>7, <1>8, <1>9 DEF ClientStep

\* What is read from a buffer.
LEMMA NameInTyped ==
  ASSUME NEW table, NEW n
  PROVE  NameIn(table, n) \in DOMAIN table \union {"Undefined"}
<1>1. CASE \E k \in DOMAIN table : table[k] = n
  BY <1>1 DEF NameIn
<1>2. CASE ~ \E k \in DOMAIN table : table[k] = n
  BY <1>2 DEF NameIn
<1>3. QED
  BY <1>1, <1>2

\* The cells of an Ethernet header are in the buffer.
LEMMA CellTyped ==
  ASSUME NEW b \in [1..BufferLength -> Texts]
  PROVE  Cell(b, 0) \in Texts /\ Cell(b, 1) \in Texts /\ Cell(b, 2) \in Texts
  BY FrameSnifferAssumption DEF Cell, EthernetLength, IpLength

\* PrintFrameInfo shows a frame as one of the protocols it knows, or as none.
LEMMA ShownTyped ==
  ASSUME NEW b
  PROVE  ShownOf(b).as \in {"TCP", "UDP", "ICMP", "ARP", "RARP", "Unknown"}
<1>1. DOMAIN IpNumber = {"ICMP", "TCP", "UDP"}
  BY DEF IpNumber
<1>2. IpAt(b, 0).protocol \in {"ICMP", "TCP", "UDP", "Undefined"}
  BY <1>1, NameInTyped DEF IpAt
<1>3. ShownOfIp(b).as \in {"TCP", "UDP", "ICMP", "Unknown"}
  BY <1>2 DEF ShownOfIp
<1>4. CASE EthernetOf(b).protocol = "IP"
  BY <1>3, <1>4 DEF ShownOf
<1>5. CASE EthernetOf(b).protocol \in {"ARP", "RARP"}
  BY <1>5 DEF ShownOf
<1>6. CASE EthernetOf(b).protocol \notin {"IP", "ARP", "RARP"}
  BY <1>6 DEF ShownOf
<1>7. QED
  BY <1>4, <1>5, <1>6

\* recvfrom leaves the buffer as long as it is.
LEMMA FilledTyped ==
  ASSUME NEW b \in [1..BufferLength -> Texts], NEW f \in Seq(Texts)
  PROVE  Filled(b, f) \in [1..BufferLength -> Texts]
  BY FrameSnifferAssumption DEF Filled

\* The addresses of an Ethernet header can be printed.
LEMMA EthernetPaperTyped ==
  ASSUME NEW b \in [1..BufferLength -> Texts]
  PROVE  [todo |-> Macs(EthernetOf(b).dest, EthernetOf(b).source), printed |-> <<>>] \in Papers
<1>1. EthernetOf(b).dest \in Texts /\ EthernetOf(b).source \in Texts
  BY CellTyped DEF EthernetOf
<1>2. Macs(EthernetOf(b).dest, EthernetOf(b).source) \in Seq([buffer : Buffers, address : Texts])
  BY ONLY <1>1, MacsTyped
<1>3. QED
  BY <1>2 DEF Papers

\* So can those of an ARP header.
LEMMA ArpPaperTyped ==
  ASSUME NEW b \in [1..BufferLength -> Texts]
  PROVE  /\ [todo |-> ArpAddresses(b), printed |-> <<>>] \in Papers
         /\ [todo |-> <<>>, printed |-> <<>>] \in Papers
<1>1. /\ ArpAt(b, 0).sender \in Texts
      /\ ArpAt(b, 0).target \in Texts
  BY CellTyped DEF ArpAt
<1>2. <<[buffer |-> "storage", address |-> ArpAt(b, 0).sender],
        [buffer |-> "storage", address |-> ArpAt(b, 0).target]>>
        \in Seq([buffer : Buffers, address : Texts])
  BY <1>1 DEF Buffers
<1>3. ArpAddresses(b) \in Seq([buffer : Buffers, address : Texts])
  BY <1>1, <1>2, MacsTyped, ConcatProperties DEF ArpAddresses
<1>4. QED
  BY <1>3 DEF Papers

\* The sniffer's steps keep the types.
LEMMA SnifferStepTyped ==
  ASSUME TInv, NEW t \in Threads, SnifferStep(t), UNCHANGED wire
  PROVE  TInv'
<1> USE DEF TInv, TypeOK, processVars, lockVars, configVars, programVars, snifferVars
<1>1. wire' \in Wires \union {None}
  OBVIOUS
<1>2. ASSUME PickInterface(t)
      PROVE  TInv'
  <2> USE <1>2 DEF PickInterface
  <2>1. [iface |-> FirstFound(t).iface] \in Picks
    BY FirstFoundTyped DEF Listed, Configs, Picks
  <2>2. ProgramTypeOK' /\ ClientShape'
    BY <2>1 DEF ProgramTypeOK, ClientShape, Goto, Labels
  <2>3. ConfigsTypeOK' /\ ListingShape'
    BY DEF ConfigsTypeOK, ListingShape
  <2>4. ProcessTypeOK' /\ LockTypeOK' /\ ConvertorTypeOK' /\ SnifferTypeOK'
    BY DEF ProcessTypeOK, LockTypeOK, ConvertorTypeOK, SnifferTypeOK
  <2>5. QED
    BY <1>1, <2>2, <2>3, <2>4
<1>3. ASSUME NoDefaultInterface(t)
      PROVE  TInv'
  <2> USE <1>3 DEF NoDefaultInterface, Caught, DestroyManager
  <2>1. ProcessTypeOK'
    BY CloseTyped, TerminateTyped DEF ProgramTypeOK
  <2>2. ProgramTypeOK' /\ ClientShape'
    BY DEF ProgramTypeOK, ClientShape, Goto, Labels
  <2>3. ConfigsTypeOK' /\ ListingShape'
    BY DEF ConfigsTypeOK, ListingShape
  <2>4. LockTypeOK' /\ ConvertorTypeOK' /\ SnifferTypeOK'
    BY DEF LockTypeOK, ConvertorTypeOK, SnifferTypeOK
  <2>5. QED
    BY <1>1, <2>1, <2>2, <2>3, <2>4
<1>4. ASSUME Promiscuous(t)
      PROVE  TInv'
  <2> USE <1>4 DEF Promiscuous, Caught, DestroyManager
  <2>1. ProcessTypeOK'
    BY CloseTyped DEF ProgramTypeOK, ProcessTypeOK
  <2>2. ProgramTypeOK' /\ ClientShape'
    BY DEF ProgramTypeOK, ClientShape, Goto, Labels
  <2>3. ConfigsTypeOK' /\ ListingShape'
    BY DEF ConfigsTypeOK, ListingShape
  <2>4. LockTypeOK' /\ ConvertorTypeOK' /\ SnifferTypeOK'
    BY DEF LockTypeOK, ConvertorTypeOK, SnifferTypeOK
  <2>5. QED
    BY <1>1, <2>1, <2>2, <2>3, <2>4
<1>5. ASSUME ParseFrames(t)
      PROVE  TInv'
  <2> USE <1>5 DEF ParseFrames, DestroyManager
  <2>1. ProcessTypeOK'
    BY OpenTyped, CloseTyped DEF ProgramTypeOK
  <2>2. ProgramTypeOK' /\ ClientShape'
    BY DEF ProgramTypeOK, ClientShape, Goto, Labels
  <2>3. SnifferTypeOK'
    BY DEF SnifferTypeOK
  <2>4. LockTypeOK' /\ ConvertorTypeOK' /\ ConfigsTypeOK' /\ ListingShape'
    BY DEF LockTypeOK, ConvertorTypeOK, ConfigsTypeOK, ListingShape
  <2>5. QED
    BY <1>1, <2>1, <2>2, <2>3, <2>4
<1>6. ASSUME ReceiveFails(t)
      PROVE  TInv'
  <2> USE <1>6 DEF ReceiveFails, PrintFrame
  <2>1. buffer[t] \in [1..BufferLength -> Texts]
    BY DEF SnifferTypeOK
  <2>2. ProgramTypeOK' /\ ClientShape'
    BY <2>1, EthernetPaperTyped DEF ProgramTypeOK, ClientShape, Goto, Labels
  <2>3. SnifferTypeOK'
    BY DEF SnifferTypeOK
  <2>4. /\ ProcessTypeOK' /\ LockTypeOK' /\ ConvertorTypeOK'
        /\ ConfigsTypeOK' /\ ListingShape'
    BY DEF ProcessTypeOK, LockTypeOK, ConvertorTypeOK, ConfigsTypeOK, ListingShape
  <2>5. QED
    BY <1>1, <2>2, <2>3, <2>4
<1>7. ASSUME Dispatch(t)
      PROVE  TInv'
  <2> USE <1>7 DEF Dispatch
  <2>1. buffer[t] \in [1..BufferLength -> Texts]
    BY DEF SnifferTypeOK
  <2>2. ProgramTypeOK' /\ ClientShape'
    BY <2>1, ArpPaperTyped DEF ProgramTypeOK, ClientShape, Goto, Labels
  <2>3. SnifferTypeOK'
    BY ShownTyped DEF SnifferTypeOK
  <2>4. /\ ProcessTypeOK' /\ LockTypeOK' /\ ConvertorTypeOK'
        /\ ConfigsTypeOK' /\ ListingShape'
    BY DEF ProcessTypeOK, LockTypeOK, ConvertorTypeOK, ConfigsTypeOK, ListingShape
  <2>5. QED
    BY <1>1, <2>2, <2>3, <2>4
<1>8. ASSUME ArpPrinted(t)
      PROVE  TInv'
  <2> USE <1>8 DEF ArpPrinted
  <2>1. ProgramTypeOK' /\ ClientShape'
    BY BlankTyped DEF ProgramTypeOK, ClientShape, Goto, Labels
  <2>2. /\ ProcessTypeOK' /\ LockTypeOK' /\ ConvertorTypeOK' /\ SnifferTypeOK'
        /\ ConfigsTypeOK' /\ ListingShape'
    BY DEF ProcessTypeOK, LockTypeOK, ConvertorTypeOK, ConfigsTypeOK, ListingShape,
      SnifferTypeOK
  <2>3. QED
    BY <1>1, <2>1, <2>2
<1>9. QED
  BY <1>2, <1>3, <1>4, <1>5, <1>6, <1>7, <1>8 DEF SnifferStep

\* recvfrom keeps the types, whosever frame it receives.
LEMMA ReceiveTyped ==
  ASSUME TInv, NEW t \in Threads, NEW f \in Frames, Receive(t, f), UNCHANGED wire
  PROVE  TInv'
<1> USE DEF TInv, TypeOK, processVars, lockVars, configVars, programVars, snifferVars, Receive
<1>1. f \in Seq(Texts)
  <2>1. wire # None => wire.frame \in Seq(Texts)
    BY DEF Wires
  <2>2. Foreign \subseteq Seq(Texts)
    BY FrameSnifferAssumption, SeqMonotonic DEF Texts
  <2>3. QED
    BY <2>1, <2>2 DEF Frames
<1>2. Filled(buffer[t], f) \in [1..BufferLength -> Texts]
  BY <1>1, FilledTyped DEF SnifferTypeOK
<1>3. ProgramTypeOK' /\ ClientShape'
  BY <1>2, EthernetPaperTyped DEF PrintFrame, ProgramTypeOK, ClientShape, Goto, Labels
<1>4. SnifferTypeOK'
  BY <1>1, <1>2 DEF SnifferTypeOK, PrintFrame
<1>5. /\ ProcessTypeOK' /\ LockTypeOK' /\ ConvertorTypeOK'
      /\ ConfigsTypeOK' /\ ListingShape'
  BY DEF ProcessTypeOK, LockTypeOK, ConvertorTypeOK, ConfigsTypeOK, ListingShape
<1>6. QED
  BY <1>3, <1>4, <1>5

\* So do those of the program with a lock of its own.
LEMMA ScopeStepTyped ==
  ASSUME TInv, NEW t \in Threads, ScopeStep(t), UNCHANGED <<wire, snifferVars>>
  PROVE  TInv'
<1> USE DEF TInv, TypeOK, processVars, lockVars, configVars, programVars, snifferVars, ScopeStep
<1>1. /\ ConvertorTypeOK' /\ ConfigsTypeOK' /\ ListingShape' /\ SnifferTypeOK'
      /\ wire' \in Wires \union {None}
  BY DEF ConvertorTypeOK, ConfigsTypeOK, ListingShape, SnifferTypeOK
<1>2. ASSUME "scoped" \in Programs[t], BeginScope(t)
      PROVE  TInv'
  <2> USE <1>2 DEF BeginScope
  <2>1. ProcessTypeOK' /\ LockTypeOK'
    <3>1. ASSUME NEW f \in Fds, OpenAndGuard(t, f)
          PROVE  ProcessTypeOK' /\ LockTypeOK'
      BY <3>1, OpenTyped, GuardTyped DEF OpenAndGuard
    <3>2. ASSUME OpenAndThrow(t)
          PROVE  ProcessTypeOK' /\ LockTypeOK'
      BY <3>2, OpenTyped DEF OpenAndThrow, LockTypeOK, ProcessTypeOK
    <3>3. QED
      BY <3>1, <3>2
  <2>2. ProgramTypeOK' /\ ClientShape'
    BY DEF ProgramTypeOK, ClientShape, Goto, Labels
  <2>3. QED
    BY <1>1, <2>1, <2>2
<1>3. ASSUME UseScope(t)
      PROVE  TInv'
  <2>1. ProcessTypeOK' /\ LockTypeOK'
    BY <1>3, InvokeTyped DEF UseScope
  <2>2. ProgramTypeOK' /\ ClientShape'
    BY <1>3 DEF UseScope, ProgramTypeOK, ClientShape
  <2>3. QED
    BY <1>1, <2>1, <2>2
<1>4. ASSUME CallbackEnds(t)
      PROVE  TInv'
  <2>1. ProcessTypeOK' /\ LockTypeOK'
    BY <1>4, ReturnTyped, ThrowTyped DEF CallbackEnds, Return, ProcessTypeOK
  <2>2. ProgramTypeOK' /\ ClientShape'
    BY <1>4 DEF CallbackEnds, ProgramTypeOK, ClientShape
  <2>3. QED
    BY <1>1, <2>1, <2>2
<1>5. ASSUME EndScope(t)
      PROVE  TInv'
  <2>1. ProcessTypeOK' /\ LockTypeOK'
    BY <1>5 DEF EndScope, LeaveReset, ProcessTypeOK, LockTypeOK
  <2>2. ProgramTypeOK' /\ ClientShape'
    BY <1>5 DEF EndScope, ProgramTypeOK, ClientShape, Goto, Labels
  <2>3. QED
    BY <1>1, <2>1, <2>2
<1>6. QED
  BY <1>2, <1>3, <1>4, <1>5

\* The types are an invariant.
LEMMA InitTyped == Init => TInv
<1> SUFFICES ASSUME Init
             PROVE  TInv
  OBVIOUS
<1> USE DEF Init
<1>1. ProcessTypeOK /\ LockTypeOK /\ ConvertorTypeOK
  BY DEF ProcessInit, LockInit, ConvertorInit, ProcessTypeOK, LockTypeOK, ConvertorTypeOK
<1>2. ConfigsTypeOK /\ ListingShape
  BY DEF ConfigsInit, ConfigsTypeOK, ListingShape
<1>3. ProgramTypeOK /\ ClientShape
  BY BlankTyped DEF ProgramInit, ProgramTypeOK, ClientShape, Labels
<1>4. SnifferTypeOK
  BY DEF SnifferInit, SnifferTypeOK, Zeros, Texts
<1>5. QED
  BY <1>1, <1>2, <1>3, <1>4 DEF TInv, TypeOK

\* Every step keeps the types, the shape of the listings and of the clients.
LEMMA StepTyped == TInv /\ [Next]_vars => TInv'
<1> SUFFICES ASSUME TInv, [Next]_vars
             PROVE  TInv'
  OBVIOUS
<1>1. ASSUME NEW t \in Threads, Step(t)
      PROVE  TInv'
  BY <1>1, ProgramStepTyped, ClientStepTyped, SnifferStepTyped, ReceiveTyped, ScopeStepTyped
  DEF Step
<1>2. CASE Others
  BY <1>2 DEF Others, Administer, processVars, lockVars, programVars, snifferVars, TInv, TypeOK,
    ProcessTypeOK, LockTypeOK, ConvertorTypeOK, ConfigsTypeOK, ListingShape, ProgramTypeOK,
    ClientShape, SnifferTypeOK
<1>3. CASE UNCHANGED vars
  BY <1>3 DEF vars, processVars, lockVars, configVars, programVars, snifferVars, TInv, TypeOK,
    ProcessTypeOK, LockTypeOK, ConvertorTypeOK, ConfigsTypeOK, ListingShape, ProgramTypeOK,
    ClientShape, SnifferTypeOK
<1>4. QED
  BY <1>1, <1>2, <1>3 DEF Next

\* Type correctness.
THEOREM TypeCorrect == Spec => []TypeOK
<1>1. Spec => []TInv
  BY InitTyped, StepTyped, PTL DEF Spec
<1>2. TInv => TypeOK
  BY DEF TInv
<1>3. QED
  BY <1>1, <1>2, PTL

------------------------------------------------------------------------------
(* Descriptors                                                             *)

\* Where in a program its manager, its socket and its lock are there.
PcInv ==
  \A t \in Threads :
    /\ manager[t] # None => pc[t] \in {"list", "listing", "socket", "receive", "ethernet", "arp"}
    /\ sock[t] # None => pc[t] \in {"receive", "ethernet", "arp"}
    /\ lock[t] # None => pc[t] \in {"setsockopt", "send", "leave", "scope"}
    /\ (lock[t] # None /\ pc[t] # "scope") => lock[t].calls \in {<<>>, <<"destructor">>}

OwnInv == HeldIsOwn /\ NothingLeaks

DInv == TInv /\ PcInv /\ OwnInv

\* Nothing is opened or closed.
LEMMA QuietKeeps ==
  ASSUME OwnInv, UNCHANGED <<processVars, risky>>,
         \A u \in Threads : Held(u)' = Held(u)
  PROVE  OwnInv'
BY DEF OwnInv, HeldIsOwn, NothingLeaks, processVars, Runs, Careful

\* A thread opens a descriptor and holds it.
LEMMA OpenKeeps ==
  ASSUME TInv, OwnInv, NEW t \in Threads, NEW f \in Fds, Open(t, f), UNCHANGED risky,
         \A u \in Threads : Held(u)' = IF u = t THEN Held(u) \union {f} ELSE Held(u)
  PROVE  OwnInv'
<1> USE DEF OwnInv, Open, TInv, TypeOK, ProcessTypeOK, Runs, Careful
<1>1. ASSUME NEW u \in Threads, Runs(u)', Careful(u)', NEW g \in Held(u)'
      PROVE  file'[at'[u]][g] = u
  <2>1. Runs(u) /\ Careful(u)
    BY <1>1
  <2>2. CASE u = t /\ g = f
    BY <2>2
  <2>3. CASE ~(u = t /\ g = f)
    <3>1. g \in Held(u)
      BY <1>1, <2>3
    <3>2. file[at[u]][g] = u
      BY <2>1, <3>1 DEF HeldIsOwn
    <3>3. ~(at[u] = at[t] /\ g = f)
      BY <3>2, ProcessAssumption
    <3>4. QED
      BY <3>2, <3>3
  <2>4. QED
    BY <2>2, <2>3
<1>2. ASSUME NEW u \in Threads, NEW g \in Fds, Runs(u)', u \notin risky', file'[at'[u]][g] = u
      PROVE  g \in Held(u)'
  <2>1. CASE at[u] = at[t] /\ g = f
    BY <1>2, <2>1
  <2>2. CASE ~(at[u] = at[t] /\ g = f)
    <3>1. file[at[u]][g] = u
      BY <1>2, <2>2
    <3>2. g \in Held(u)
      BY <1>2, <3>1 DEF NothingLeaks
    <3>3. QED
      BY <3>2
  <2>3. QED
    BY <2>1, <2>2
<1>3. QED
  BY <1>1, <1>2 DEF HeldIsOwn, NothingLeaks

\* A thread closes a descriptor that it held, and that only.
LEMMA CloseKeeps ==
  ASSUME TInv, OwnInv, NEW t \in Threads, Runs(t), NEW f \in Held(t) \union {None},
         Close(t, f), UNCHANGED risky,
         \A u \in Threads : Held(u)' = IF u = t THEN Held(u) \ {f} ELSE Held(u)
  PROVE  OwnInv'
<1> USE DEF OwnInv, Close, TInv, TypeOK, ProcessTypeOK, Runs, Careful
<1>1. ASSUME NEW u \in Threads, Runs(u)', Careful(u)', NEW g \in Held(u)'
      PROVE  file'[at'[u]][g] = u
  <2>1. Runs(u) /\ Careful(u) /\ g \in Held(u)
    BY <1>1
  <2>2. file[at[u]][g] = u
    BY <2>1 DEF HeldIsOwn
  <2>3. CASE f # None /\ at[u] = at[t] /\ g = f
    <3>1. Careful(t)
      BY <2>1, <2>3
    <3>2. file[at[t]][f] = t
      BY <3>1, <2>3 DEF HeldIsOwn
    <3>3. u = t
      BY <2>2, <2>3, <3>2
    <3>4. QED
      BY <1>1, <2>3, <3>3
  <2>4. CASE ~(f # None /\ at[u] = at[t] /\ g = f)
    BY <2>2, <2>4
  <2>5. QED
    BY <2>3, <2>4
<1>2. ASSUME NEW u \in Threads, NEW g \in Fds, Runs(u)', u \notin risky', file'[at'[u]][g] = u
      PROVE  g \in Held(u)'
  <2>1. file[at[u]][g] = u /\ (u = t => g # f)
    BY <1>2, ProcessAssumption
  <2>2. g \in Held(u)
    BY <1>2, <2>1 DEF NothingLeaks
  <2>3. QED
    BY <2>1, <2>2
<1>3. QED
  BY <1>1, <1>2 DEF HeldIsOwn, NothingLeaks

\* A process ends.
LEMMA TerminateKeeps ==
  ASSUME TInv, OwnInv, NEW t \in Threads, Terminate(t), risky \subseteq risky',
         \A u \in Threads : Held(u)' = Held(u)
  PROVE  OwnInv'
<1> USE DEF OwnInv, Terminate, TInv, TypeOK, ProcessTypeOK, Runs, Careful
<1>1. ASSUME NEW u \in Threads, Runs(u)'
      PROVE  Runs(u) /\ at[u] # at[t] /\ at'[u] = at[u] /\ file'[at[u]] = file[at[u]]
  BY <1>1
<1>2. HeldIsOwn'
  BY <1>1 DEF HeldIsOwn
<1>3. NothingLeaks'
  BY <1>1 DEF NothingLeaks
<1>4. QED
  BY <1>2, <1>3

\* A thread's lock does what it should not.
LEMMA RiskyKeeps ==
  ASSUME TInv, OwnInv, NEW t \in Threads, UNCHANGED <<at, dead>>,
         risky' = risky \union {t},
         \A p \in Processes : \A g \in Fds :
           p # at[t] \/ file'[p][g] \notin {t, None} => file'[p][g] = file[p][g],
         \A u \in Threads : u # t => Held(u)' = Held(u)
  PROVE  OwnInv'
<1> USE DEF OwnInv, TInv, TypeOK, ProcessTypeOK, Runs, Careful
<1>1. ASSUME NEW u \in Threads, Runs(u)', Careful(u)', NEW g \in Held(u)'
      PROVE  file'[at'[u]][g] = u
  <2>1. at[u] # at[t] /\ u # t
    BY <1>1
  <2>2. Careful(u) /\ Runs(u) /\ g \in Held(u)
    BY <1>1, <2>1
  <2>3. g \in Fds
    BY <2>2, ScopedLockAssumption DEF Held, SnifferTypeOK, ProgramTypeOK, LockTypeOK, Locks
  <2>4. QED
    BY <2>1, <2>2, <2>3 DEF HeldIsOwn
<1>2. ASSUME NEW u \in Threads, NEW g \in Fds, Runs(u)', u \notin risky', file'[at'[u]][g] = u
      PROVE  g \in Held(u)'
  <2>1. u # t /\ u \notin risky /\ at[u] \in Processes
    BY <1>2
  <2>2. file[at[u]][g] = u
    BY <1>2, <2>1, ProcessAssumption
  <2>3. QED
    BY <1>2, <2>1, <2>2 DEF NothingLeaks
<1>3. QED
  BY <1>1, <1>2 DEF HeldIsOwn, NothingLeaks

\* A program whose manager, socket and lock stay what they are.
LEMMA PhaseKeeps ==
  ASSUME TInv, PcInv, OwnInv, NEW t \in Threads, NEW l \in Labels,
         UNCHANGED <<processVars, lockVars, manager, sock>>, Goto(t, l),
         \/ l = pc[t]
         \/ manager[t] = None /\ sock[t] = None /\ lock[t] = None
         \/ pc[t] = "list" /\ l = "listing"
         \/ pc[t] = "listing" /\ l \in {"list", "socket"}
         \/ {pc[t], l} \subseteq {"receive", "ethernet", "arp"}
         \/ {pc[t], l} \subseteq {"setsockopt", "send", "leave"}
  PROVE  PcInv' /\ OwnInv'
<1>1. PcInv'
  BY DEF TInv, TypeOK, ProgramTypeOK, PcInv, Goto, lockVars
<1>2. OwnInv'
  BY QuietKeeps DEF Held, lockVars
<1>3. QED
  BY <1>1, <1>2

\* A program that stays where it is and opens and closes nothing.
LEMMA UnmovedKeeps ==
  ASSUME PcInv, OwnInv, UNCHANGED <<processVars, lockVars, manager, sock, pc>>
  PROVE  PcInv' /\ OwnInv'
<1>1. PcInv'
  BY DEF PcInv, lockVars
<1>2. OwnInv'
  BY QuietKeeps DEF Held, lockVars
<1>3. QED
  BY <1>1, <1>2

\* The process of a program ends in the middle of it.
LEMMA EndKeeps ==
  ASSUME TInv, PcInv, OwnInv, NEW t \in Threads, Terminate(t),
         UNCHANGED <<lockVars, manager, sock, pc>>
  PROVE  PcInv' /\ OwnInv'
<1>1. PcInv'
  BY DEF PcInv, lockVars
<1>2. OwnInv'
  BY TerminateKeeps DEF Held, lockVars
<1>3. QED
  BY <1>1, <1>2

\* The manager is destroyed.
LEMMA DestroyKeeps ==
  ASSUME TInv, PcInv, OwnInv, NEW t \in Threads, Runs(t), NEW l \in {"end", "print"},
         pc[t] \in {"list", "listing", "socket"}, DestroyManager(t), Goto(t, l),
         UNCHANGED <<lockVars, sock>>
  PROVE  PcInv' /\ OwnInv'
<1> USE DEF DestroyManager, Goto, lockVars
<1>1. sock[t] = None /\ lock[t] = None
  BY DEF PcInv
<1>2. PcInv'
  BY <1>1 DEF PcInv, TInv, TypeOK, ProgramTypeOK
<1>3. manager[t] \in Held(t) \union {None}
  BY DEF Held
<1>4. \A u \in Threads : Held(u)' = IF u = t THEN Held(u) \ {manager[t]} ELSE Held(u)
  BY <1>1 DEF Held, TInv, TypeOK, ProgramTypeOK
<1>5. OwnInv'
  BY <1>3, <1>4, CloseKeeps
<1>6. QED
  BY <1>2, <1>5

\* A thread opens a descriptor for its lock.
LEMMA GuardKeeps ==
  ASSUME TInv, PcInv, OwnInv, NEW t \in Threads, NEW f \in Fds, OpenAndGuard(t, f),
         NEW l \in {"setsockopt", "send", "scope"}, Goto(t, l),
         manager[t] = None, sock[t] = None, UNCHANGED <<manager, sock>>
  PROVE  PcInv' /\ OwnInv'
<1> USE DEF OpenAndGuard, Guard, Goto
<1>1. f # None
  BY ProcessAssumption
<1>2. /\ lock'[t] = Locked(f) /\ Locked(f) # None
      /\ \A u \in Threads : u # t => lock'[u] = lock[u]
  <2>1. Locked(f) \in Locks
    BY DEF Locked, Locks
  <2>2. QED
    BY <2>1, ScopedLockAssumption DEF TInv, TypeOK, LockTypeOK
<1>3. PcInv'
  BY <1>2 DEF PcInv, Locked, TInv, TypeOK, ProgramTypeOK, LockTypeOK
<1>4. Held(t)' = {f} /\ Held(t) = {}
  BY <1>1, <1>2 DEF Held, Locked
<1>5. \A u \in Threads : u # t => Held(u)' = Held(u)
  BY <1>2 DEF Held
<1>6. OwnInv'
  BY <1>4, <1>5, OpenKeeps
<1>7. QED
  BY <1>3, <1>6

\* The callback of a lock closes its descriptor: the first time, what the thread
\* holds; later, what no careful thread should.
LEMMA InvokeKeeps ==
  ASSUME TInv, PcInv, OwnInv, NEW t \in Threads, Runs(t), pc[t] \in {"leave", "scope"},
         NEW by \in {"unlock", "destructor"}, Invoke(t, by), UNCHANGED <<manager, sock, pc>>,
         pc[t] = "leave" => by = "destructor"
  PROVE  PcInv' /\ OwnInv'
<1> USE DEF Invoke
<1>1. lock[t] \in Locks /\ manager[t] = None /\ sock[t] = None
  BY DEF TInv, TypeOK, LockTypeOK, PcInv
<1>2. PcInv'
  <2>1. pc[t] = "leave" => Append(lock[t].calls, by) = <<"destructor">>
    <3>1. pc[t] = "leave" => lock[t].calls = <<>> /\ by = "destructor"
      OBVIOUS
    <3>2. Append(<<>>, "destructor") = <<"destructor">>
      OBVIOUS
    <3>3. QED
      BY <3>1, <3>2
  <2>2. QED
    BY <1>1, <2>1 DEF PcInv, TInv, TypeOK, LockTypeOK
<1> DEFINE calls == Append(lock[t].calls, by)
           fd == lock[t].fd
<1>3. calls # <<>>
  BY <1>1 DEF Locks
<1>4. /\ lock'[t].calls = calls
      /\ \A u \in Threads : u # t => lock'[u] = lock[u]
  BY <1>1 DEF Locks, TInv, TypeOK, LockTypeOK
<1> HIDE DEF calls
<1>5. Held(t)' = {}
  BY <1>1, <1>3, <1>4 DEF Held
<1>6. \A u \in Threads : u # t => Held(u)' = Held(u)
  BY <1>4 DEF Held
<1>7. CASE lock[t].calls = <<>>
  <2>1. Held(t) = {fd} \ {None}
    BY <1>1, <1>7 DEF Held
  <2>2. UNCHANGED risky
    BY <1>7
  <2>3. QED
    BY <1>2, <1>5, <1>6, <2>1, <2>2, CloseKeeps
<1>8. CASE lock[t].calls # <<>>
  <2>1. risky' = risky \union {t}
    BY <1>8
  <2>2. \A p \in Processes : \A g \in Fds :
          p # at[t] \/ file'[p][g] \notin {t, None} => file'[p][g] = file[p][g]
    BY <1>1 DEF Close, Locks, TInv, TypeOK, ProcessTypeOK
  <2>3. UNCHANGED <<at, dead>>
    BY DEF Close
  <2>4. QED
    BY <1>2, <1>6, <2>1, <2>2, <2>3, RiskyKeeps
<1>9. QED
  BY <1>7, <1>8

\* The callback has returned.
LEMMA ReturnKeeps ==
  ASSUME TInv, PcInv, OwnInv, NEW t \in Threads, pc[t] \in {"leave", "scope"},
         Return(t), UNCHANGED <<manager, sock>>,
         IF pc[t] = "leave" THEN Goto(t, "end") ELSE UNCHANGED pc
  PROVE  PcInv' /\ OwnInv'
<1> USE DEF Return
<1>1. lock[t] \in Locks /\ manager[t] = None /\ sock[t] = None
  BY DEF TInv, TypeOK, LockTypeOK, PcInv
<1>2. PcInv'
  <2>1. pc[t] = "leave" => Last(lock[t].calls) = "destructor"
    BY DEF PcInv, Last
  <2>2. QED
    BY <1>1, <2>1 DEF PcInv, TInv, TypeOK, LockTypeOK, ProgramTypeOK, Goto
<1>3. /\ lock'[t] # None => ~ lock'[t].armed
      /\ \A u \in Threads : u # t => lock'[u] = lock[u]
  BY <1>1 DEF Locks, TInv, TypeOK, LockTypeOK
<1>4. Held(t)' = {} /\ Held(t) = {}
  BY <1>1, <1>3 DEF Held
<1>5. \A u \in Threads : Held(u)' = Held(u)
  BY <1>3, <1>4 DEF Held
<1>6. QED
  BY <1>2, <1>5, QuietKeeps

\* The callback has thrown.
LEMMA ThrowKeeps ==
  ASSUME TInv, PcInv, OwnInv, NEW t \in Threads, pc[t] = "scope",
         Throw(t), UNCHANGED <<manager, sock, pc>>
  PROVE  PcInv' /\ OwnInv'
<1> USE DEF Throw
<1>1. lock[t] \in Locks
  BY DEF TInv, TypeOK, LockTypeOK
<1>2. PcInv'
  BY <1>1 DEF PcInv, TInv, TypeOK, LockTypeOK
<1>3. CASE Last(lock[t].calls) = "destructor"
  BY <1>2, <1>3, TerminateKeeps DEF Held
<1>4. CASE Last(lock[t].calls) # "destructor"
  <2>1. \A u \in Threads : u # t => Held(u)' = Held(u)
    BY <1>4 DEF Held, TInv, TypeOK, LockTypeOK
  <2>2. QED
    BY <1>2, <1>4, <2>1, RiskyKeeps DEF processVars
<1>5. QED
  BY <1>3, <1>4

\* What all programs do keeps who holds what.
LEMMA ProgramStepOwns ==
  ASSUME DInv, NEW t \in Threads, Runs(t), ProgramStep(t), UNCHANGED <<wire, snifferVars>>
  PROVE  PcInv' /\ OwnInv'
<1> USE DEF DInv, lockVars, programVars, snifferVars
<1>1. ASSUME NEW r \in Programs[t], StartProgram(t, r)
      PROVE  PcInv' /\ OwnInv'
  <2> USE <1>1 DEF StartProgram, Goto
  <2>1. PICK f \in Fds : Open(t, f) /\ manager' = [manager EXCEPT ![t] = f]
    OBVIOUS
  <2>2. manager[t] = None /\ f # None
    BY ProcessAssumption DEF PcInv
  <2>3. PcInv'
    BY <2>1 DEF PcInv, TInv, TypeOK, ProgramTypeOK
  <2>4. \A u \in Threads : Held(u)' = IF u = t THEN Held(u) \union {f} ELSE Held(u)
    BY <2>1, <2>2 DEF Held, TInv, TypeOK, ProgramTypeOK
  <2>5. OwnInv'
    BY <2>1, <2>4, OpenKeeps
  <2>6. QED
    BY <2>3, <2>5
<1>2. ASSUME NEW r \in Programs[t], CannotStart(t, r)
      PROVE  PcInv' /\ OwnInv'
  <2> USE <1>2 DEF CannotStart
  <2>1. manager[t] = None /\ sock[t] = None /\ lock[t] = None
    BY DEF PcInv
  <2>2. CASE r = "sniffer"
    BY <2>1, <2>2, PhaseKeeps DEF Labels
  <2>3. CASE r # "sniffer"
    BY <2>3, EndKeeps
  <2>4. QED
    BY <2>2, <2>3
<1>3. ASSUME CallGetConfigs(t)
      PROVE  PcInv' /\ OwnInv'
  BY <1>3, PhaseKeeps DEF CallGetConfigs, Labels
<1>4. ASSUME GetConfigsFails(t)
      PROVE  PcInv' /\ OwnInv'
  <2>1. CASE role[t] = "sniffer"
    BY <1>4, <2>1, DestroyKeeps DEF GetConfigsFails, Caught
  <2>2. CASE role[t] # "sniffer"
    BY <1>4, <2>2, EndKeeps DEF GetConfigsFails
  <2>3. QED
    BY <2>1, <2>2
<1>5. ASSUME InGetConfigs(t) \/ PrintAddress(t) \/ Printed(t)
      PROVE  PcInv' /\ OwnInv'
  BY <1>5, UnmovedKeeps DEF InGetConfigs, PrintAddress, Printed
<1>6. QED
  BY <1>1, <1>2, <1>3, <1>4, <1>5 DEF ProgramStep

\* So do the clients' steps.
LEMMA ClientStepOwns ==
  ASSUME DInv, NEW t \in Threads, Runs(t), ClientStep(t), UNCHANGED snifferVars
  PROVE  PcInv' /\ OwnInv'
<1> USE DEF DInv, lockVars, programVars, snifferVars
<1>1. ASSUME TakeConfig(t)
      PROVE  PcInv' /\ OwnInv'
  BY <1>1, DestroyKeeps DEF TakeConfig, AtChoice
<1>2. ASSUME UseGarbage(t)
      PROVE  PcInv' /\ OwnInv'
  BY <1>2, EndKeeps DEF UseGarbage
<1>3. ASSUME NoInterface(t)
      PROVE  PcInv' /\ OwnInv'
  BY <1>3, DestroyKeeps DEF NoInterface, AtChoice
<1>4. ASSUME MakeSocket(t)
      PROVE  PcInv' /\ OwnInv'
  <2>1. manager[t] = None /\ sock[t] = None
    BY <1>4 DEF MakeSocket, PcInv
  <2>2. PICK f \in Fds : OpenAndGuard(t, f)
    BY <1>4 DEF MakeSocket
  <2>3. PICK l \in {"setsockopt", "send", "scope"} : Goto(t, l)
    BY <1>4 DEF MakeSocket
  <2>4. UNCHANGED <<manager, sock>>
    BY <1>4 DEF MakeSocket
  <2>5. QED
    BY <2>1, <2>2, <2>3, <2>4, GuardKeeps
<1>5. ASSUME NoSocket(t)
      PROVE  PcInv' /\ OwnInv'
  <2> USE <1>5 DEF NoSocket, Guard, Goto
  <2>1. Locked(None).fd = None /\ Locked(None).calls = <<>>
    BY DEF Locked
  <2>2. manager[t] = None /\ sock[t] = None
    BY DEF PcInv
  <2>3. PcInv'
    BY <2>1, <2>2 DEF PcInv, TInv, TypeOK, ProgramTypeOK, LockTypeOK
  <2>4. \A u \in Threads : Held(u)' = Held(u)
    BY <2>1 DEF Held, TInv, TypeOK, LockTypeOK
  <2>5. QED
    BY <2>3, <2>4, QuietKeeps
<1>6. ASSUME SetOption(t)
      PROVE  PcInv' /\ OwnInv'
  BY <1>6, PhaseKeeps DEF SetOption, Labels
<1>7. ASSUME Send(t)
      PROVE  PcInv' /\ OwnInv'
  BY <1>7, PhaseKeeps DEF Send, Labels
<1>8. ASSUME ReturnFromMain(t)
      PROVE  PcInv' /\ OwnInv'
  <2> USE <1>8 DEF ReturnFromMain
  <2>1. CASE Invoke(t, "destructor") /\ UNCHANGED pc
    BY <2>1, InvokeKeeps
  <2>2. CASE Return(t) /\ Goto(t, "end")
    BY <2>2, ReturnKeeps
  <2>3. QED
    BY <2>1, <2>2
<1>9. QED
  BY <1>1, <1>2, <1>3, <1>4, <1>5, <1>6, <1>7, <1>8 DEF ClientStep

\* And the sniffer's.
LEMMA SnifferStepOwns ==
  ASSUME DInv, NEW t \in Threads, Runs(t), SnifferStep(t) \/ \E f \in Frames : Receive(t, f)
  PROVE  PcInv' /\ OwnInv'
<1> USE DEF DInv, lockVars, programVars, snifferVars
<1>1. ASSUME PickInterface(t)
      PROVE  PcInv' /\ OwnInv'
  BY <1>1, PhaseKeeps DEF PickInterface, Labels
<1>2. ASSUME NoDefaultInterface(t)
      PROVE  PcInv' /\ OwnInv'
  <2>1. CASE Caught(t)
    BY <1>2, <2>1, DestroyKeeps DEF NoDefaultInterface, Caught
  <2>2. CASE Terminate(t) /\ UNCHANGED programVars
    BY <1>2, <2>2, EndKeeps DEF NoDefaultInterface
  <2>3. QED
    BY <1>2, <2>1, <2>2 DEF NoDefaultInterface
<1>3. ASSUME Promiscuous(t)
      PROVE  PcInv' /\ OwnInv'
  <2>1. CASE Caught(t)
    BY <1>3, <2>1, DestroyKeeps DEF Promiscuous, Caught
  <2>2. CASE Goto(t, "socket") /\ UNCHANGED <<processVars, manager>>
    BY <1>3, <2>2, PhaseKeeps DEF Promiscuous, Labels
  <2>3. QED
    BY <1>3, <2>1, <2>2 DEF Promiscuous
<1>4. ASSUME ParseFrames(t)
      PROVE  PcInv' /\ OwnInv'
  <2> USE <1>4 DEF ParseFrames
  <2>1. CASE DestroyManager(t) /\ Goto(t, "end") /\ UNCHANGED sock
    BY <2>1, DestroyKeeps
  <2>2. ASSUME NEW f \in Fds, Open(t, f), sock' = [sock EXCEPT ![t] = f],
               Goto(t, "receive"), UNCHANGED manager
        PROVE  PcInv' /\ OwnInv'
    <3> USE <2>2 DEF Goto
    <3>1. sock[t] = None /\ f # None
      BY ProcessAssumption DEF PcInv
    <3>2. PcInv'
      BY DEF PcInv, TInv, TypeOK, ProgramTypeOK, SnifferTypeOK
    <3>3. \A u \in Threads : Held(u)' = IF u = t THEN Held(u) \union {f} ELSE Held(u)
      BY <3>1 DEF Held, TInv, TypeOK, SnifferTypeOK
    <3>4. OwnInv'
      BY <3>3, OpenKeeps
    <3>5. QED
      BY <3>2, <3>4
  <2>3. QED
    BY <2>1, <2>2
<1>5. ASSUME ReceiveFails(t)
      PROVE  PcInv' /\ OwnInv'
  BY <1>5, PhaseKeeps DEF ReceiveFails, PrintFrame, Labels
<1>6. ASSUME Dispatch(t)
      PROVE  PcInv' /\ OwnInv'
  BY <1>6, PhaseKeeps DEF Dispatch, Labels
<1>7. ASSUME ArpPrinted(t)
      PROVE  PcInv' /\ OwnInv'
  BY <1>7, PhaseKeeps DEF ArpPrinted, Labels
<1>8. ASSUME NEW f \in Frames, Receive(t, f)
      PROVE  PcInv' /\ OwnInv'
  BY <1>8, PhaseKeeps DEF Receive, PrintFrame, Labels
<1>9. QED
  BY <1>1, <1>2, <1>3, <1>4, <1>5, <1>6, <1>7, <1>8 DEF SnifferStep

\* And those of the program that uses a lock in all ways.
LEMMA ScopeStepOwns ==
  ASSUME DInv, NEW t \in Threads, Runs(t), ScopeStep(t), UNCHANGED <<wire, snifferVars>>
  PROVE  PcInv' /\ OwnInv'
<1> USE DEF DInv, lockVars, programVars, snifferVars, ScopeStep
<1>1. ASSUME BeginScope(t)
      PROVE  PcInv' /\ OwnInv'
  <2> USE <1>1 DEF BeginScope
  <2>1. manager[t] = None /\ sock[t] = None /\ lock[t] = None
    BY DEF PcInv
  <2>2. ASSUME NEW f \in Fds, OpenAndGuard(t, f), Goto(t, "scope")
        PROVE  PcInv' /\ OwnInv'
    BY <2>1, <2>2, GuardKeeps
  <2>3. ASSUME OpenAndThrow(t), Goto(t, "end")
        PROVE  PcInv' /\ OwnInv'
    <3> USE <2>3 DEF OpenAndThrow
    <3>1. PcInv'
      BY <2>1 DEF PcInv, Goto, TInv, TypeOK, ProgramTypeOK
    <3>2. UNCHANGED <<at, dead>>
      BY DEF Open, processVars
    <3>3. \A p \in Processes : \A g \in Fds :
            p # at[t] \/ file'[p][g] \notin {t, None} => file'[p][g] = file[p][g]
      BY DEF Open, processVars, TInv, TypeOK, ProcessTypeOK
    <3>4. OwnInv'
      BY <3>2, <3>3, RiskyKeeps DEF Held
    <3>5. QED
      BY <3>1, <3>4
  <2>4. QED
    BY <2>2, <2>3
<1>2. ASSUME UseScope(t)
      PROVE  PcInv' /\ OwnInv'
  BY <1>2, InvokeKeeps DEF UseScope
<1>3. ASSUME CallbackEnds(t)
      PROVE  PcInv' /\ OwnInv'
  BY <1>3, ReturnKeeps, ThrowKeeps DEF CallbackEnds
<1>4. ASSUME EndScope(t)
      PROVE  PcInv' /\ OwnInv'
  <2> USE <1>4 DEF EndScope, LeaveReset
  <2>1. manager[t] = None /\ sock[t] = None /\ lock'[t] = None
    BY DEF PcInv, TInv, TypeOK, LockTypeOK
  <2>2. PcInv'
    BY <2>1 DEF PcInv, Goto, TInv, TypeOK, ProgramTypeOK, LockTypeOK
  <2>3. \A u \in Threads : Held(u)' = Held(u)
    BY <2>1 DEF Held, TInv, TypeOK, LockTypeOK
  <2>4. QED
    BY <2>2, <2>3, QuietKeeps
<1>5. QED
  BY <1>1, <1>2, <1>3, <1>4

\* The inductive invariant.
LEMMA OwnInit == Init => DInv
<1> SUFFICES ASSUME Init
             PROVE  PcInv /\ OwnInv
  BY InitTyped DEF DInv
<1> USE DEF Init, ProgramInit, SnifferInit, LockInit, ProcessInit
<1>1. PcInv
  BY DEF PcInv
<1>2. HeldIsOwn
  BY DEF HeldIsOwn, Held
<1>3. NothingLeaks
  BY ProcessAssumption DEF NothingLeaks
<1>4. QED
  BY <1>1, <1>2, <1>3 DEF OwnInv

\* Every step keeps who holds what.
LEMMA StepOwns == DInv /\ [Next]_vars => DInv'
<1> SUFFICES ASSUME DInv, [Next]_vars
             PROVE  PcInv' /\ OwnInv'
  BY StepTyped DEF DInv
<1>1. ASSUME NEW t \in Threads, Step(t)
      PROVE  PcInv' /\ OwnInv'
  BY <1>1, ProgramStepOwns, ClientStepOwns, SnifferStepOwns, ScopeStepOwns DEF Step
<1>2. CASE Others
  BY <1>2, UnmovedKeeps DEF Others, DInv, programVars, snifferVars
<1>3. CASE UNCHANGED vars
  BY <1>3, UnmovedKeeps DEF vars, DInv, programVars, snifferVars
<1>4. QED
  BY <1>1, <1>2, <1>3 DEF Next

\* A descriptor that a careful thread is still to use or to close is the one it
\* opened.
THEOREM HeldStaysOwn == Spec => []HeldIsOwn
<1>1. Spec => []DInv
  BY OwnInit, StepOwns, PTL DEF Spec
<1>2. DInv => HeldIsOwn
  BY DEF DInv, OwnInv
<1>3. QED
  BY <1>1, <1>2, PTL

\* Whatever fails, no descriptor is left without a thread that will close it.
THEOREM NothingEverLeaks == Spec => []NothingLeaks
<1>1. Spec => []DInv
  BY OwnInit, StepOwns, PTL DEF Spec
<1>2. DInv => NothingLeaks
  BY DEF DInv, OwnInv
<1>3. QED
  BY <1>1, <1>2, PTL
=============================================================================
