-------------------------- MODULE SockAddrConvertor --------------------------
(***************************************************************************)
(* The functions of sock_addr_convertor.cpp that turn an address into text *)
(* go through storage that all threads of a process share: ether_ntoa's    *)
(* for a MAC address, the static array of IpAddrToStr for an IP address    *)
(* given as a span.  The text is then copied into a std::string.           *)
(* (inet_ntoa, the way of the other IpAddrToStr, has storage of its own in *)
(* each thread; its result needs no step of its own.)                      *)
(*                                                                         *)
(* An address and its text are one number here: StrToMacAddr and           *)
(* StrToIpAddr give back the address of which ether_ntoa, inet_ntop and    *)
(* inet_ntoa wrote the text.                                               *)
(***************************************************************************)
EXTENDS Process

CONSTANT Torn  \* no telling what: a text of some address, or of pieces of two

Texts == Nat \union {Torn}

Buffers == {"ether_ntoa", "storage"}

\* What a conversion has written.
Conversions == [buffer : Buffers, text : Texts]

ASSUME SockAddrConvertorAssumption == None \notin Conversions /\ None # Torn

VARIABLE converting \* converting[t]: the buffer that t has written and not yet
                    \* copied, and the text that it will find there

ConvertorTypeOK == converting \in [Threads -> Conversions \union {None}]

ConvertorInit == converting = [t \in Threads |-> None]

\* The threads of t's process that have written buffer b and not copied it.
At(t, b) ==
  {u \in Threads : Together(t, u) /\ converting[u] # None /\ converting[u].buffer = b}

\* The conversion of address a has written its text.  Several threads at it are
\* a data race, and there is no telling what each of them will find.
Convert(t, b, a) ==
  /\ converting[t] = None
  /\ converting' = [u \in Threads |->
       CASE u \in At(t, b) -> [buffer |-> b, text |-> Torn]
         [] u = t -> [buffer |-> b, text |-> IF At(t, b) = {} THEN a ELSE Torn]
         [] OTHER -> converting[u]]

\* The result s is copied.
Copied(t, s) ==
  /\ converting[t] # None
  /\ s = converting[t].text
  /\ converting' = [converting EXCEPT ![t] = None]
==============================================================================
