---------------------------- MODULE PacketPrograms ----------------------------
(***************************************************************************)
(* The programs of examples/ together: clients that send frames and        *)
(* sniffers that see them, in one process or in several, while others      *)
(* change the interfaces and send frames of their own.  Another thread     *)
(* uses a ScopedLock in all the ways that its interface allows.            *)
(***************************************************************************)
EXTENDS PacketClient, FrameSniffer

vars == <<processVars, lockVars, converting, configVars, programVars, snifferVars, wire>>

TypeOK ==
  /\ ProcessTypeOK
  /\ LockTypeOK
  /\ ConvertorTypeOK
  /\ ConfigsTypeOK
  /\ ProgramTypeOK
  /\ SnifferTypeOK
  /\ wire \in Wires \union {None}

Init ==
  /\ ProcessInit
  /\ LockInit
  /\ ConvertorInit
  /\ ConfigsInit
  /\ ProgramInit
  /\ SnifferInit
  /\ wire = None

------------------------------------------------------------------------------
(* A thread with a ScopedLock of its own                                   *)

BeginScope(t) ==
  /\ pc[t] = "start"
  /\ role' = [role EXCEPT ![t] = "scoped"]
  /\ \/ \E f \in Fds : OpenAndGuard(t, f) /\ Goto(t, "scope")
     \/ OpenAndThrow(t) /\ Goto(t, "end")
  /\ UNCHANGED <<manager, chosen, paper>>

\* unlock(), also from the callback; the callback's two ends; the end of the
\* scope, which an exception from unlock() reaches too.
UseScope(t) ==
  /\ pc[t] = "scope"
  /\ \E by \in {"unlock", "destructor"} : Invoke(t, by)
  /\ UNCHANGED programVars

CallbackEnds(t) ==
  /\ pc[t] = "scope"
  /\ \/ Return(t)
     \/ Throw(t)
  /\ UNCHANGED programVars

EndScope(t) ==
  /\ pc[t] = "scope"
  /\ \/ LeaveReset(t)
     \/ lock[t] = None /\ UNCHANGED <<processVars, lockVars>>
  /\ Goto(t, "end")
  /\ UNCHANGED <<role, manager, chosen, paper>>

ScopeStep(t) ==
  /\ \/ "scoped" \in Programs[t] /\ BeginScope(t)
     \/ UseScope(t)
     \/ CallbackEnds(t)
     \/ EndScope(t)
  /\ UNCHANGED <<converting, configVars>>

------------------------------------------------------------------------------

\* A packet socket sees what is sent on the machine and what others send; it
\* may miss frames, or see one again.
Frames == Foreign \union (IF wire = None THEN {} ELSE {wire.frame})

Step(t) ==
  /\ Runs(t)
  /\ \/ ProgramStep(t) /\ UNCHANGED <<wire, snifferVars>>
     \/ ClientStep(t) /\ UNCHANGED snifferVars
     \/ SnifferStep(t) /\ UNCHANGED wire
     \/ (\E f \in Frames : Receive(t, f)) /\ UNCHANGED wire
     \/ ScopeStep(t) /\ UNCHANGED <<wire, snifferVars>>

Others ==
  /\ \E i \in IFaces : Administer(i)
  /\ UNCHANGED <<processVars, lockVars, programVars, snifferVars, wire>>

Next ==
  \/ \E t \in Threads : Step(t)
  \/ Others

Spec == Init /\ [][Next]_vars

------------------------------------------------------------------------------
(* Properties                                                              *)

\* The descriptors that t is still to use or to close.
Held(t) ==
  ({manager[t], sock[t]}
     \union (IF lock[t] # None /\ lock[t].armed /\ lock[t].calls = <<>>
             THEN {lock[t].fd} ELSE {})) \ {None}

\* No thread of t's process had a callback that threw or that ran twice.
Careful(t) == \A u \in Threads : at[u] = at[t] => u \notin risky

\* A descriptor that a thread is still to use or to close is open, and the one
\* it opened: no other thread's close, no second close of its own, has hit it.
\* ScopedLock gives no such promise if a callback throws or calls unlock(): the
\* callback then runs again (scoped_lock.h:68), on what may by now be another
\* thread's descriptor.
HeldIsOwn ==
  \A t \in Threads :
    (Runs(t) /\ Careful(t)) => \A f \in Held(t) : file[at[t]][f] = t

\* No descriptor of a running process is left open without a thread that will
\* close it, whichever call of a program failed; only a lockCallback that
\* throws after opening one leaves it.  (A sniffer keeps its socket.)
NothingLeaks ==
  \A t \in Threads : \A f \in Fds :
    (Runs(t) /\ t \notin risky /\ file[at[t]][f] = t) => f \in Held(t)

\* The IP address in a client's frame, and the MAC address in an l2 client's,
\* are those of the one interface that it picked, although it asked for them one
\* by one while the interfaces were changing.  (It sends others if an address was
\* missing, or if another thread used the convertor's buffer.)
SentIsOwn ==
  (wire # None /\ wire.taken.known) =>
    /\ IpAt(wire.frame, BehindEthernet).source = Ip[wire.taken.iface]
    /\ wire.by \in {"l2_udp", "l2_icmp"} =>
         EthernetOf(wire.frame).source = Mac[wire.taken.iface]

\* The viewers, each given the one before it, find in a client's frame the
\* headers that the client's builders wrote.
ViewersFollowBuilders ==
  wire # None =>
    LET b == wire.frame
        ip == IpAt(b, BehindEthernet)
        udp == wire.by \in {"l2_udp", "l3_udp"}
    IN /\ EthernetOf(b).protocol = "IP"
       /\ ip.protocol = (IF udp THEN "UDP" ELSE "ICMP")
       /\ TransportAt(b, BehindIp(b, BehindEthernet)) = (IF udp THEN Port ELSE EchoRequest)

\* What a sniffer prints as the Ethernet header is that of the frame received
\* last, not of an earlier one, and zeros before the first: recvfrom's failure,
\* which goes unnoticed, makes it print the last frame again.  Only another
\* thread that converts an address at the same time can change that.
PrintedIsReceived ==
  \A t \in Threads :
    (pc[t] = "ethernet" /\ (got[t] # None => Len(got[t]) >= EthernetLength)) =>
      LET b == IF got[t] = None THEN Zeros ELSE got[t]
          header == <<EthernetOf(b).dest, EthernetOf(b).source>>
      IN \A i \in 1..Len(paper[t].printed) : paper[t].printed[i] \in {Torn, header[i]}

\* What a sniffer prints as a TCP header begins where the header behind the IP
\* header does, options or not, if the frame has all its headers: TcpViewer
\* finds its way from raw bytes.
TcpShownIsInPlace ==
  \A t \in Threads :
    (shown[t] # None /\ shown[t].as = "TCP" /\ got[t] # None /\ Complete(got[t])) =>
      shown[t].field = TransportAt(got[t], BehindIp(got[t], BehindEthernet))
==============================================================================
