----------------------------- MODULE IFaceConfigs -----------------------------
(***************************************************************************)
(* IFaceManager::getConfigs (iface_manager.cpp) in full: the list of the   *)
(* interfaces that have an address, then, for each, one ioctl for each     *)
(* field of an IFaceConfiguration.  The kernel's interfaces may change     *)
(* between any two ioctls.  An ioctl that fails leaves its field absent.   *)
(***************************************************************************)
EXTENDS SockAddrConvertor, FiniteSets, Sequences, SequencesExt

CONSTANTS
  IFaces,  \* the interfaces, in the kernel's order; 0 is the loopback interface
  Mac,     \* Mac[i], Ip[i]: the addresses of interface i, when it has them
  Ip,
  Fields   \* the fields that the instance follows, of those that getConfigs
           \* asks for: "mac", "ip", "mask", "brd", "mtu", "index", "status"

FieldNames == {"mac", "ip", "mask", "brd", "mtu", "index", "status"}

\* An IFaceConfiguration: its interface (the name), the texts of its MAC and its
\* IP address, and the optional fields that are set.
Configs ==
  {c \in [iface : IFaces, mac : Texts \union {None}, ip : Nat \union {None},
          has : SUBSET FieldNames] :
     /\ c.mac # None <=> "mac" \in c.has
     /\ c.ip # None <=> "ip" \in c.has}

\* A call of getConfigs: the interfaces still to ask for, the fields still to ask
\* of the first one, and the result.
Listings == [left : SUBSET IFaces, todo : Seq(FieldNames), found : Seq(Configs)]

ASSUME IFaceConfigsAssumption ==
  /\ 0 \in IFaces /\ IFaces \subseteq Nat
  /\ Mac \in [IFaces -> Nat] /\ Ip \in [IFaces -> Nat]
  /\ Fields \in Seq(FieldNames) /\ Fields # <<>>
  /\ None \notin Listings

VARIABLES
  link,    \* link[i]: "addressed", "bare" (without address) or "gone"
  listing  \* listing[t]: t's call of getConfigs, None if there is none

configVars == <<link, listing>>

Addressed == {i \in IFaces : link[i] = "addressed"}

NamedConfig(i) == [iface |-> i, mac |-> None, ip |-> None, has |-> {}]

\* Of the other fields nothing is read later but that they are there.  (setIndex
\* throws if there is an index already: getConfigs calls it once.)
SetField(c, f) == [c EXCEPT !.has = @ \union {f}]
SetMac(c, s) == [SetField(c, "mac") EXCEPT !.mac = s]
SetIp(c, s) == [SetField(c, "ip") EXCEPT !.ip = s]

ConfigsTypeOK ==
  /\ link \in [IFaces -> {"addressed", "bare", "gone"}]
  /\ listing \in [Threads -> Listings \union {None}]

ConfigsInit ==
  /\ link \in [IFaces -> {"addressed"}]
  /\ listing = [t \in Threads |-> None]

\* The ioctls for the addresses fail on an interface without one, all fail on
\* one that is gone.
Answers(i, f) ==
  \/ link[i] = "addressed"
  \/ link[i] = "bare" /\ f \notin {"ip", "mask", "brd"}

\* Mutant of Listing: the configuration is declared outside the loop, so that a
\* field that is absent keeps what it was for the interface before.
ListingIntoOne(left, found) ==
  [left |-> left, todo |-> Fields,
   found |-> IF left = {} THEN found
             ELSE Append(found, IF found = <<>> THEN NamedConfig(Min(left))
                                ELSE [Last(found) EXCEPT !.iface = Min(left)])]

\* A configuration for the next interface of the list, if there is one.
Listing(left, found) ==
  [left |-> left, todo |-> Fields,
   found |-> IF left = {} THEN found ELSE Append(found, NamedConfig(Min(left)))]

\* SIOCGIFCONF
BeginConfigs(t) ==
  /\ listing[t] = None
  /\ listing' = [listing EXCEPT ![t] = Listing(Addressed, <<>>)]
  /\ UNCHANGED <<link, converting>>

Asking(t) == listing[t] # None /\ listing[t].left # {}
Asked(t) == Min(listing[t].left)
Field(t) == Head(listing[t].todo)

\* The field asked for is dealt with; c is the configuration with it.
Advance(t, c) ==
  LET l == listing[t]
      found == Append(Front(l.found), c)
  IN listing' = [listing EXCEPT ![t] =
       IF Len(l.todo) > 1 THEN [l EXCEPT !.todo = Tail(l.todo), !.found = found]
                          ELSE Listing(l.left \ {Asked(t)}, found)]

\* c with the answer for field f of interface i, an IP address as inet_ntoa's text.
AnswerIn(c, i, f) == IF f = "ip" THEN SetIp(c, Ip[i]) ELSE SetField(c, f)

\* The ioctl for a field that is not a MAC address, or a failing one for that.
AskField(t) ==
  /\ Asking(t) /\ converting[t] = None
  /\ IF Answers(Asked(t), Field(t))
     THEN /\ Field(t) # "mac"
          /\ Advance(t, AnswerIn(Last(listing[t].found), Asked(t), Field(t)))
     ELSE Advance(t, Last(listing[t].found))
  /\ UNCHANGED <<link, converting>>

\* SIOCGIFHWADDR, and MacAddrToStr up to the end of ether_ntoa.
AskMac(t) ==
  /\ Asking(t) /\ Field(t) = "mac" /\ Answers(Asked(t), "mac")
  /\ Convert(t, "ether_ntoa", Mac[Asked(t)])
  /\ UNCHANGED configVars

\* Its result is copied into the configuration.
StoreMac(t) ==
  /\ Asking(t)
  /\ converting[t] # None
  /\ Copied(t, converting[t].text)
  /\ Advance(t, SetMac(Last(listing[t].found), converting[t].text))
  /\ UNCHANGED link

ConfigsStep(t) == AskField(t) \/ AskMac(t) \/ StoreMac(t)

Listed(t) == listing[t] # None /\ listing[t].left = {}

\* Somebody else gives interface i an address, takes it away, or removes i.
Administer(i) ==
  /\ i # 0
  /\ link' \in {[link EXCEPT ![i] = s] : s \in {"addressed", "bare", "gone"} \ {link[i]}}
  /\ UNCHANGED <<listing, converting>>
==============================================================================
