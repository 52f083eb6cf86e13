----------------------------- MODULE IcmpBuilder -----------------------------
(***************************************************************************)
(* posnet::IcmpBuilder (icmp_builder.cpp) writes an ICMP header field by   *)
(* field and posnet::IcmpViewer (icmp_viewer.cpp) reads one.  The code of a *)
(* message means something only together with its type, and setCode asks a *)
(* viewer of the builder's raw frame for the type.                         *)
(***************************************************************************)
EXTENDS Naturals, BaseFrame

CONSTANTS
  Types,   \* the package types that callers set
  Codes,   \* the package codes that callers set
  Word     \* a field of the header holds 0 .. Word-1 (2^16)

VARIABLE want  \* history: want[p]: what has been set last through p, and not
               \* before in a builder that p is the copy of

vars == <<frame, start, want>>

\* The numbers of the types (ip_icmp.h) that builder and viewer know.  Redirect
\* and Undefined are package types that have none.
TypeNumber ==
  [EchoReply |-> 0, Unreached |-> 3, EchoRequest |-> 8, TimeExceeded |-> 11,
   ParameterProblem |-> 12, TimeStamp |-> 13, TimeStampReply |-> 14,
   InfoRequest |-> 15, InfoReply |-> 16,
   AddressMaskRequest |-> 17, AddressMaskReply |-> 18]

\* The numbers of the codes of the types that have codes.
CodeNumber ==
  [Unreached |->
     [NetUnreachable |-> 0, HostUnreachable |-> 1, ProtocolUnreachable |-> 2,
      PortUnreachable |-> 3, FragmentationNeeded |-> 4, SourceRouteFailed |-> 5,
      NetUnknown |-> 6, HostUnknown |-> 7, HostIsolated |-> 8,
      PacketFiltered |-> 13, PrecedenceViolation |-> 14, PrecedenceCutOff |-> 15],
   TimeExceeded |-> [TTLCountExceeded |-> 0, FragmentReassTimeExceeded |-> 1]]

HasCodes(t) == t \in DOMAIN CodeNumber
IsCodeOf(c, t) == HasCodes(t) /\ c \in DOMAIN CodeNumber[t]

\* Mutants of NumberOfCode: no case for TimeExceeded; the type is not looked at.
NumberOfUnreachedCode(t, c) ==
  IF t = "Unreached" /\ IsCodeOf(c, t) THEN CodeNumber[t][c] ELSE 0

NumberOfAnyCode(t, c) ==
  IF \E u \in DOMAIN CodeNumber : IsCodeOf(c, u)
  THEN CodeNumber[CHOOSE u \in DOMAIN CodeNumber : IsCodeOf(c, u)][c]
  ELSE 0

\* ExtractPackageType and ExtractPackageCode of the builder.
NumberOfType(t) == IF t \in DOMAIN TypeNumber THEN TypeNumber[t] ELSE 0
NumberOfCode(t, c) == IF IsCodeOf(c, t) THEN CodeNumber[t][c] ELSE 0

\* IcmpViewer::getType and getCode of header h.  The codes of Unreached from 9
\* to 12 are known and shown as None.
ViewedType(h) ==
  IF \E t \in DOMAIN TypeNumber : TypeNumber[t] = h.type
  THEN CHOOSE t \in DOMAIN TypeNumber : TypeNumber[t] = h.type
  ELSE "Undefined"

ViewedCode(h) ==
  LET t == ViewedType(h)
      named == {c \in DOMAIN CodeNumber[t] : CodeNumber[t][c] = h.code}
  IN  CASE t = "Undefined" -> "Undefined"
        [] t # "Undefined" /\ ~HasCodes(t) -> "None"
        [] HasCodes(t) /\ named # {} -> CHOOSE c \in named : TRUE
        [] HasCodes(t) /\ named = {} ->
             IF t = "Unreached" /\ h.code \in 9..12 THEN "None" ELSE "Undefined"

Zero == [type |-> 0, code |-> 0, checksum |-> 0, id |-> 0, sequence |-> 0]

HeaderType ==
  [type : {NumberOfType(t) : t \in DOMAIN TypeNumber}, code : 0..15,
   checksum : 0..Word-1, id : 0..Word-1, sequence : 0..Word-1]

ASSUME IcmpBuilderAssumption ==
  /\ Word \in Nat \ {0, 1}
  /\ None \notin Places \union HeaderType
  /\ None \notin DOMAIN TypeNumber
  /\ \A t \in DOMAIN CodeNumber : None \notin DOMAIN CodeNumber[t]

\* Nothing has been asked for yet.
Nothing == [type |-> None, code |-> None, id |-> None]

TypeOK ==
  /\ frame \in [Places -> HeaderType \union {None}]
  /\ start \in [Places -> Places \union {None}]
  /\ \A p \in Places : Alive(p) <=> start[p] # None
  /\ want \in [Places -> [type : Types \union {None}, code : Codes \union {None},
                           id : 0..Word-1 \union {None}]]

Init == FrameInit /\ want = [p \in Places |-> Nothing]

------------------------------------------------------------------------------

Construct(p) ==
  /\ ConstructFrame(p, Zero)
  /\ want' = [want EXCEPT ![p] = Nothing]

Copy(p, q) ==
  /\ CopyFrame(p, q)
  /\ want' = [want EXCEPT ![p] = Nothing]

Destroy(p) ==
  /\ DestroyFrame(p)
  /\ want' = [want EXCEPT ![p] = Nothing]

\* setType says nothing of the code that the header has.
SetType(p, t) ==
  /\ Alive(p)
  /\ frame' = [frame EXCEPT ![p].type = NumberOfType(t)]
  /\ want' = [want EXCEPT ![p] = [want[p] EXCEPT !.type = t, !.code = None]]
  /\ UNCHANGED start

\* setCode looks for the type in the raw frame, which is p's header if p is not
\* a copy.
SetCode(p, c) ==
  /\ Alive(p)
  /\ \E h \in RawFrames(p) :
       frame' = [frame EXCEPT ![p].code = NumberOfCode(ViewedType(h), c)]
  /\ want' = [want EXCEPT ![p].code = c]
  /\ UNCHANGED start

SetCheckSum(p, n) ==
  /\ Alive(p)
  /\ frame' = [frame EXCEPT ![p].checksum = n % Word]
  /\ UNCHANGED <<start, want>>

\* Mutant of SetId: a value that is not cut to 16 bits.
SetWideId(p, n) ==
  /\ Alive(p)
  /\ frame' = [frame EXCEPT ![p].sequence = n]
  /\ want' = [want EXCEPT ![p].id = n % Word]
  /\ UNCHANGED start

\* setId stores the id where the sequence number is.
SetId(p, n) ==
  /\ Alive(p)
  /\ frame' = [frame EXCEPT ![p].sequence = n % Word]
  /\ want' = [want EXCEPT ![p].id = n % Word]
  /\ UNCHANGED start

SetSequenceNumber(p, n) ==
  /\ Alive(p)
  /\ frame' = [frame EXCEPT ![p].sequence = n % Word]
  /\ UNCHANGED <<start, want>>

Next ==
  \E p \in Places :
    \/ Construct(p)
    \/ Destroy(p)
    \/ \E q \in Places : Copy(p, q)
    \/ \E t \in Types : SetType(p, t)
    \/ \E c \in Codes : SetCode(p, c)
    \/ \E n \in 0..Word :
         \/ SetCheckSum(p, n)
         \/ SetId(p, n)
         \/ SetSequenceNumber(p, n)

Spec == Init /\ [][Next]_vars

------------------------------------------------------------------------------
(* Properties                                                              *)

\* The header of a builder that is not a copy (but for a copy at the place of
\* the original) reads back, through a viewer of its raw frame, as the type and the code that were set: the code if it was
\* set after the type and is one of the type's codes.  Redirect is no type that
\* builder and viewer agree on.
TypeAndCodeReadBack ==
  \A p \in Places :
    (ShowsItself(p) /\ want[p].type \in DOMAIN TypeNumber) =>
      \A h \in RawFrames(p) :
        /\ ViewedType(h) = want[p].type
        /\ IsCodeOf(want[p].code, want[p].type) => ViewedCode(h) = want[p].code

\* The codes whose setter no later setType followed are codes of the type that
\* the header has: a viewer never calls such a code undefined.
CodeIsOfType ==
  \A p \in Places :
    (ShowsItself(p) /\ want[p].code # None) => ViewedCode(frame[p]) # "Undefined"

\* "for ICMP_ECHO and ICMP_ECHOREPLY, it contains the identifier and sequence
\* number" (icmp_viewer.h:25): the identifier that was set is the one that a
\* viewer of the raw frame shows.
IdReadsBack ==
  \A p \in Places :
    (ShowsItself(p) /\ want[p].id # None) => frame[p].id = want[p].id
=============================================================================
