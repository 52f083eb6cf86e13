---------------------------- MODULE IFaceManager ----------------------------
(***************************************************************************)
(* posnet::IFaceManager (src/iface_manager.cpp): each manager owns a       *)
(* socket and configures the kernel's network interfaces through it, one   *)
(* ioctl at a time.  Other managers, and whoever else administers the      *)
(* machine, act between any two of these ioctls.                           *)
(*                                                                         *)
(* The kernel is external: flags, conf and file stand for what its calls   *)
(* read and write.  An address is a value; a member of Addresses is well   *)
(* formed for inet_pton, Malformed is not.                                 *)
(***************************************************************************)
EXTENDS Naturals, Sequences, FiniteSets, SequencesExt

CONSTANTS
  Managers,   \* places where an IFaceManager can live, all in one process
  IFaces,     \* interface indices, in the order in which the kernel lists them
  Capacity,   \* the interfaces that fit the buffer of SIOCGIFCONF (25)
  Fds,        \* the file descriptors of the process, from 0
  Inherited,  \* the descriptors that are open when the program starts
  Addresses,  \* well-formed addresses, MTUs and states, by any spelling
  Malformed,  \* a string that inet_pton does not accept
  Configs,    \* the configurations that callers pass to setConfig
  None        \* an absent optional, no manager, no answer; the address 0.0.0.0,
              \* which is also how an address is removed

\* Mutant of Fields: the broadcast address before the address.
BroadcastFirst == <<"mac", "mask", "brd", "ip", "mtu", "status">>

Fields == <<"ip", "mac", "mask", "brd", "mtu", "status">>
Default == "default"  \* an address or an MTU that the kernel chose
Settings == Addresses \union {Default, None}

\* The calls that are made of several ioctls.
PromiscCalls == [op : {"promisc"}, iface : IFaces, on : BOOLEAN]
ConfigCalls == [op : {"config"}, iface : IFaces, config : Configs]

ASSUME IFaceManagerAssumption ==
  /\ IFaces \subseteq Nat /\ Fds \subseteq Nat /\ Inherited \subseteq Fds
  /\ Capacity \in Nat
  /\ Configs \subseteq [Range(Fields) -> Addresses \union {Malformed, None}]
  /\ "other" \notin Managers
  /\ None \notin Fds \union Managers \union PromiscCalls \union ConfigCalls
  /\ None # "other"

VARIABLES
  sock,     \* sock[m]: m_socket, None if there is no such manager
  file,     \* file[f]: the manager whose constructor opened f, "other" for
            \* another open file, None if f is closed
  flags,    \* flags[i]: the flags of interface i that matter here
  conf,     \* conf[i]: its addresses and MTU in the kernel
  call,     \* call[m]: the call that m is in, None between calls
  todo,     \* todo[m]: the ioctls of that call still to come, a set
  ifr,      \* ifr[m]: the call's struct ifreq, zeroed when the call starts: its
            \* flags (a set), or its sin_addr
  returned, \* the managers whose last call returned, not throwing
  copied,   \* history: has a manager been copied?
  replaced, \* history: the descriptors, not reopened since, whose last manager
            \* another was assigned to
  disturbed \* history: the managers whose interface somebody else has
            \* changed during their call

vars == <<sock, file, flags, conf, call, todo, ifr, returned, copied, replaced, disturbed>>
fdVars == <<sock, file, copied, replaced>>
kernelVars == <<flags, conf>>
callVars == <<call, todo, ifr, returned>>

Alive(m) == sock[m] # None
Idle(m) == Alive(m) /\ call[m] = None
Addressed(i) == conf[i].ip # None

TypeOK ==
  /\ sock \in [Managers -> Fds \union {None}]
  /\ file \in [Fds -> Managers \union {"other", None}]
  /\ flags \in [IFaces -> SUBSET {"UP", "PROMISC"}]
  /\ conf \in [IFaces -> [ip : Settings, mask : Settings, brd : Settings,
                           mtu : Settings]]
  /\ call \in [Managers -> PromiscCalls \union ConfigCalls \union {None}]
  /\ todo \in [Managers -> SUBSET (Range(Fields) \union {"getflags", "setflags"})]
  /\ ifr \in [Managers -> Addresses \union {None} \union SUBSET {"UP", "PROMISC"}]
  /\ \A m \in Managers :
       /\ call[m] # None => Alive(m)
       /\ todo[m] # {} => call[m] # None
  /\ returned \subseteq {m \in Managers : Idle(m)}
  /\ copied \in BOOLEAN
  /\ replaced \subseteq Fds
  /\ disturbed \subseteq {m \in Managers : call[m] # None}

Init ==
  /\ sock = [m \in Managers |-> None]
  /\ file = [f \in Fds |-> IF f \in Inherited THEN "other" ELSE None]
  /\ flags \in [IFaces -> SUBSET {"UP"}]
  /\ conf = [i \in IFaces |-> [ip |-> Default, mask |-> Default,
                               brd |-> Default, mtu |-> Default]]
  /\ call = [m \in Managers |-> None]
  /\ todo = [m \in Managers |-> {}]
  /\ ifr = [m \in Managers |-> None]
  /\ returned = {}
  /\ copied = FALSE
  /\ replaced = {}
  /\ disturbed = {}

------------------------------------------------------------------------------
(* Sockets                                                                 *)

Free == {f \in Fds : file[f] = None}
LowestFree == Min(Free)

\* IFaceManager(): socket() returns the lowest free descriptor, or the
\* constructor throws and there is no manager.
Open(m) ==
  /\ ~Alive(m) /\ Free # {}
  /\ sock' = [sock EXCEPT ![m] = LowestFree]
  /\ file' = [file EXCEPT ![LowestFree] = m]
  /\ replaced' = replaced \ {LowestFree}
  /\ UNCHANGED <<kernelVars, callVars, copied, disturbed>>

\* The implicit copy constructor copies m_socket.
Copy(m, n) ==
  /\ ~Alive(m) /\ Alive(n)
  /\ sock' = [sock EXCEPT ![m] = sock[n]]
  /\ copied' = TRUE
  /\ UNCHANGED <<file, replaced, kernelVars, callVars, disturbed>>

\* m = n.  The implicit copy assignment, which also serves a move, copies
\* m_socket over m's, and closes nothing.
Assign(m, n) ==
  /\ Idle(m) /\ Alive(n)
  /\ sock' = [sock EXCEPT ![m] = sock[n]]
  /\ copied' = TRUE
  /\ replaced' = replaced \union ({sock[m]} \ {sock'[k] : k \in Managers})
  /\ UNCHANGED <<file, kernelVars, callVars, disturbed>>

\* Mutants of Close: m_socket is zeroed before close(m_socket); no close at all.
CloseAfterReset(m) ==
  /\ Idle(m)
  /\ file' = [file EXCEPT ![0] = None]
  /\ sock' = [sock EXCEPT ![m] = None]
  /\ returned' = returned \ {m}
  /\ UNCHANGED <<kernelVars, call, todo, ifr, copied, replaced, disturbed>>

Forget(m) ==
  /\ Idle(m)
  /\ sock' = [sock EXCEPT ![m] = None]
  /\ returned' = returned \ {m}
  /\ UNCHANGED <<file, kernelVars, call, todo, ifr, copied, replaced, disturbed>>

\* ~IFaceManager(): close(m_socket), whatever that descriptor is by now.
Close(m) ==
  /\ Idle(m)
  /\ file' = [file EXCEPT ![sock[m]] = None]
  /\ sock' = [sock EXCEPT ![m] = None]
  /\ returned' = returned \ {m}
  /\ UNCHANGED <<kernelVars, call, todo, ifr, copied, replaced, disturbed>>

\* The rest of the program opens a file.
OpenOther ==
  /\ Free # {}
  /\ file' = [file EXCEPT ![LowestFree] = "other"]
  /\ replaced' = replaced \ {LowestFree}
  /\ UNCHANGED <<sock, copied, kernelVars, callVars, disturbed>>

\* An ioctl on m's descriptor reaches the kernel's interfaces.
Reaches(m) == file[sock[m]] \in Managers

------------------------------------------------------------------------------
(* Calls                                                                   *)

\* SIOCGIFCONF fills a fixed buffer with the interfaces that have an address.
Listed ==
  {i \in IFaces :
     /\ Addressed(i)
     /\ Cardinality({j \in IFaces : j < i /\ Addressed(j)}) < Capacity}

Start(m, c, steps, r) ==
  /\ call' = [call EXCEPT ![m] = c]
  /\ todo' = [todo EXCEPT ![m] = steps]
  /\ ifr' = [ifr EXCEPT ![m] = r]
  /\ returned' = returned \ {m}
  /\ UNCHANGED <<fdVars, kernelVars, disturbed>>

\* Mutant of End: the next call finds steps of this one.
EndKeepingSteps(m) ==
  /\ call' = [call EXCEPT ![m] = None]
  /\ ifr' = [ifr EXCEPT ![m] = None]
  /\ UNCHANGED todo

End(m) ==
  /\ call' = [call EXCEPT ![m] = None]
  /\ todo' = [todo EXCEPT ![m] = {}]
  /\ ifr' = [ifr EXCEPT ![m] = None]

\* enablePromiscuousMode(i) and disablePromiscuousMode(i): isIFacePresent
\* asks the kernel for its list first.  The steps left are a GET and a SET.
CallPromisc(m, i, on) ==
  /\ Idle(m)
  /\ Reaches(m) /\ i \in Listed
  /\ Start(m, [op |-> "promisc", iface |-> i, on |-> on],
           {"getflags", "setflags"}, {})

\* The list cannot be had, or the interface is not on it: throw.
RefusePromisc(m, i) ==
  /\ Idle(m)
  /\ ~Reaches(m) \/ i \notin Listed
  /\ returned' = returned \ {m}
  /\ UNCHANGED <<fdVars, kernelVars, call, todo, ifr, disturbed>>

\* Whoever changes interface i disturbs the calls on it.
Disturbed(i) ==
  disturbed \union {m \in Managers : call[m] # None /\ call[m].iface = i}

\* Mutant of GetFlags: the flags are not read before they are written.
SkipFlags(m) ==
  /\ call[m] # None /\ Reaches(m)
  /\ "getflags" \in todo[m]
  /\ todo' = [todo EXCEPT ![m] = @ \ {"getflags"}]
  /\ UNCHANGED <<fdVars, kernelVars, call, ifr, returned, disturbed>>

\* SIOCGIFFLAGS
GetFlags(m) ==
  /\ call[m] # None /\ Reaches(m)
  /\ "getflags" \in todo[m]
  /\ ifr' = [ifr EXCEPT ![m] = flags[call[m].iface]]
  /\ todo' = [todo EXCEPT ![m] = @ \ {"getflags"}]
  /\ UNCHANGED <<fdVars, kernelVars, call, returned, disturbed>>

\* SIOCSIFFLAGS with the flags read before, IFF_PROMISC set or cleared.
SetFlags(m) ==
  /\ call[m] # None /\ Reaches(m)
  /\ todo[m] = {"setflags"}
  /\ flags' = [flags EXCEPT ![call[m].iface] =
                 IF call[m].on THEN ifr[m] \union {"PROMISC"}
                               ELSE ifr[m] \ {"PROMISC"}]
  /\ disturbed' = Disturbed(call[m].iface) \ {m}
  /\ End(m)
  /\ returned' = returned \union {m}
  /\ UNCHANGED <<fdVars, conf>>

\* setConfig(c) for interface i: one ioctl for each field that c has.
CallSetConfig(m, i, c) ==
  /\ Idle(m)
  /\ Start(m, [op |-> "config", iface |-> i, config |-> c],
           {f \in Range(Fields) : c[f] # None}, None)

\* setConfig of a configuration without a name: throw.
RefuseConfig(m) ==
  /\ Idle(m)
  /\ returned' = returned \ {m}
  /\ UNCHANGED <<fdVars, kernelVars, call, todo, ifr, disturbed>>

\* The ioctl for field f is the next one: setConfig takes the fields in order.
Comes(m, f) ==
  \E k \in DOMAIN Fields :
    /\ Fields[k] = f /\ f \in todo[m]
    /\ \A j \in 1..(k - 1) : Fields[j] \notin todo[m]

\* sin_addr of the struct ifreq after inet_pton of a: what it was before if a
\* is not well formed, because the result of inet_pton is not looked at.
Parsed(m, a) == IF a = Malformed THEN ifr[m] ELSE a

\* The kernel derives the net mask and the broadcast address anew from a new
\* address a of interface i.
Readdressed(i, a) ==
  [ip |-> a, mask |-> Default, brd |-> Default, mtu |-> conf[i].mtu]

\* The ioctls of setConfig that change the kernel.  An interface without
\* address takes neither a net mask nor a broadcast address.  The net mask is
\* parsed from getMacAddress(), which is absent when this step is reached:
\* undefined behaviour, here any address, none, or (Fail) an exception.
Changed(m, f, v) ==
  LET i == call[m].iface IN
  \/ /\ f = "ip"
     /\ v = Parsed(m, call[m].config.ip)
     /\ conf' = [conf EXCEPT ![i] = Readdressed(i, v)]
  \/ /\ f = "brd" /\ Addressed(i)
     /\ v = Parsed(m, call[m].config.brd)
     /\ conf' = [conf EXCEPT ![i] = [conf[i] EXCEPT !.brd = v]]
  \/ /\ f = "mask" /\ Addressed(i)
     /\ conf' = [conf EXCEPT ![i] = [conf[i] EXCEPT !.mask = v]]

SetAddress(m) ==
  /\ call[m] # None /\ Reaches(m)
  /\ \E f \in {"ip", "mask", "brd"}, v \in Addresses \union {None} :
       /\ Comes(m, f) /\ Changed(m, f, v)
       /\ ifr' = [ifr EXCEPT ![m] = v]
       /\ todo' = [todo EXCEPT ![m] = @ \ {f}]
  /\ disturbed' = (Disturbed(call[m].iface) \ {m}) \union (disturbed \intersect {m})
  /\ UNCHANGED <<fdVars, flags, call, returned>>

\* The ioctls under "Set MTU" and "Set Status" are SIOCGIFMTU and
\* SIOCGIFFLAGS: they read.
ReadOnly(m) ==
  /\ call[m] # None /\ Reaches(m)
  /\ \E f \in {"mtu", "status"} :
       Comes(m, f) /\ todo' = [todo EXCEPT ![m] = @ \ {f}]
  /\ UNCHANGED <<fdVars, kernelVars, call, ifr, returned, disturbed>>

\* Mutant of Fail: the socket is closed before the exception is thrown.
FailAndClose(m) ==
  /\ call[m] # None /\ todo[m] # {}
  /\ End(m)
  /\ file' = [file EXCEPT ![sock[m]] = None]
  /\ disturbed' = disturbed \ {m}
  /\ UNCHANGED <<sock, copied, replaced, kernelVars, returned>>

\* An ioctl fails (no permission, no such interface, not a socket): throw, and
\* what the call has changed so far stays.  The ioctl for the MAC address
\* always fails: its address family is 0 or AF_INET, never ARPHRD_ETHER.
Fail(m) ==
  /\ call[m] # None /\ todo[m] # {}
  /\ End(m)
  /\ disturbed' = disturbed \ {m}
  /\ UNCHANGED <<fdVars, kernelVars, returned>>

Finish(m) ==
  /\ call[m] # None /\ todo[m] = {}
  /\ End(m)
  /\ disturbed' = disturbed \ {m}
  /\ returned' = returned \union {m}
  /\ UNCHANGED <<fdVars, kernelVars>>

\* Somebody else brings an interface up or down, or changes its address.
Administer(i) ==
  /\ \/ \E u \in {{"UP"}, {}} :
          /\ flags' = [flags EXCEPT ![i] = (@ \ {"UP"}) \union u]
          /\ UNCHANGED conf
     \/ \E a \in Addresses \union {None} :
          /\ conf' = [conf EXCEPT ![i] = Readdressed(i, a)]
          /\ UNCHANGED flags
  /\ disturbed' = Disturbed(i)
  /\ UNCHANGED <<fdVars, callVars>>

Next ==
  \/ OpenOther
  \/ \E i \in IFaces : Administer(i)
  \/ \E m \in Managers :
       \/ Open(m)
       \/ Close(m)
       \/ GetFlags(m)
       \/ SetFlags(m)
       \/ SetAddress(m)
       \/ ReadOnly(m)
       \/ Fail(m)
       \/ Finish(m)
       \/ RefuseConfig(m)
       \/ \E n \in Managers : Copy(m, n) \/ Assign(m, n)
       \/ \E i \in IFaces :
            \/ \E on \in BOOLEAN : CallPromisc(m, i, on)
            \/ RefusePromisc(m, i)
            \/ \E c \in Configs : CallSetConfig(m, i, c)

Spec == Init /\ [][Next]_vars

------------------------------------------------------------------------------
(* Properties                                                              *)

\* The constructor checks for a descriptor below 0 and every operation asserts
\* one above 0: a manager never gets the descriptor 0 in between.
SocketIsPositive == \A m \in Managers : Alive(m) => sock[m] > 0

\* A manager's descriptor is the socket that it opened, and no other manager's:
\* never one that was closed, and perhaps opened again for something else,
\* behind its back.  A copy of a manager puts an end to that.
SocketIsOwn == \A m \in Managers : (~copied /\ Alive(m)) => file[sock[m]] = m

\* An open socket has a manager that will close it, whatever copies there are
\* and whatever has failed, unless another was assigned to the last manager that
\* had it: the assignment overwrites m_socket and closes nothing.
NoSocketLeaks ==
  \A f \in Fds :
    (file[f] \in Managers /\ f \notin replaced) => \E m \in Managers : sock[m] = f

\* The step in which a call of m returns normally.
Returns(m, op) ==
  /\ call[m] # None /\ call[m].op = op
  /\ m \in returned'

\* When setConfig returns, the interface has the address and the broadcast
\* address that the caller has asked for, no later ioctl of the call having
\* undone an earlier one, unless somebody else changed the interface meanwhile
\* or the string was not an address.
AddressesApplied ==
  [][\A m \in Managers :
       (Returns(m, "config") /\ m \notin disturbed) =>
         \A f \in {"ip", "brd"} :
           call[m].config[f] \notin {None, Malformed} =>
             conf[call[m].iface][f] = call[m].config[f]]_vars

\* "Set MTU" (line 195): when setConfig returns, so has the MTU.
MtuApplied ==
  [][\A m \in Managers :
       (Returns(m, "config") /\ m \notin disturbed /\ call[m].config.mtu # None) =>
           conf[call[m].iface].mtu = call[m].config.mtu]_vars

\* "Enable the iface to promisc mode" (line 39), "Clear the IFF_PROMISC flag"
\* (line 60): when the call returns the mode is as asked, and the call brought
\* the interface neither up nor down unless somebody else did meanwhile.
PromiscApplied ==
  [][\A m \in Managers :
       Returns(m, "promisc") =>
         /\ "PROMISC" \in flags'[call[m].iface] <=> call[m].on
         /\ \/ m \in disturbed
            \/ flags'[call[m].iface] \ {"PROMISC"} =
                 flags[call[m].iface] \ {"PROMISC"}]_vars
==============================================================================
