-------------------------- MODULE IcmpBuilderProofs --------------------------
(***************************************************************************)
(* Proofs about IcmpBuilder.                                               *)
(***************************************************************************)
EXTENDS IcmpBuilder, TLAPS

------------------------------------------------------------------------------
(* The tables of types and codes                                           *)

\* The types that builder and viewer know.
LEMMA TypeNames ==
  DOMAIN TypeNumber =
    {"EchoReply", "Unreached", "EchoRequest", "TimeExceeded", "ParameterProblem",
     "TimeStamp", "TimeStampReply", "InfoRequest", "InfoReply",
     "AddressMaskRequest", "AddressMaskReply"}
  BY DEF TypeNumber

\* No two types have one number.
LEMMA TypesDiffer ==
  ASSUME NEW t \in DOMAIN TypeNumber, NEW u \in DOMAIN TypeNumber,
         TypeNumber[t] = TypeNumber[u]
  PROVE  t = u
  BY TypeNames DEF TypeNumber

\* The types that have codes.
LEMMA CodedTypes ==
  /\ DOMAIN CodeNumber = {"Unreached", "TimeExceeded"}
  /\ DOMAIN CodeNumber \subseteq DOMAIN TypeNumber
  BY TypeNames DEF CodeNumber

\* Their codes.
LEMMA CodeNames ==
  /\ DOMAIN CodeNumber["Unreached"] =
       {"NetUnreachable", "HostUnreachable", "ProtocolUnreachable", "PortUnreachable",
        "FragmentationNeeded", "SourceRouteFailed", "NetUnknown", "HostUnknown",
        "HostIsolated", "PacketFiltered", "PrecedenceViolation", "PrecedenceCutOff"}
  /\ DOMAIN CodeNumber["TimeExceeded"] = {"TTLCountExceeded", "FragmentReassTimeExceeded"}
  BY DEF CodeNumber

\* No two codes of a type have one number, which four bits hold; one has 0.
LEMMA CodesDiffer ==
  ASSUME NEW t \in DOMAIN CodeNumber
  PROVE  /\ \A c \in DOMAIN CodeNumber[t] : CodeNumber[t][c] \in 0..15
         /\ \A c, d \in DOMAIN CodeNumber[t] : CodeNumber[t][c] = CodeNumber[t][d] => c = d
         /\ \E c \in DOMAIN CodeNumber[t] : CodeNumber[t][c] = 0
         /\ "Undefined" \notin DOMAIN CodeNumber[t]
<1>1. CASE t = "Unreached"
  <2>1. CodeNumber[t] =
          [NetUnreachable |-> 0, HostUnreachable |-> 1, ProtocolUnreachable |-> 2,
           PortUnreachable |-> 3, FragmentationNeeded |-> 4, SourceRouteFailed |-> 5,
           NetUnknown |-> 6, HostUnknown |-> 7, HostIsolated |-> 8,
           PacketFiltered |-> 13, PrecedenceViolation |-> 14, PrecedenceCutOff |-> 15]
    BY <1>1 DEF CodeNumber
  <2>2. QED
    BY <1>1, <2>1, CodeNames
<1>2. CASE t = "TimeExceeded"
  <2>1. CodeNumber[t] = [TTLCountExceeded |-> 0, FragmentReassTimeExceeded |-> 1]
    BY <1>2 DEF CodeNumber
  <2>2. QED
    BY <1>2, <2>1, CodeNames
<1>3. QED
  BY <1>1, <1>2, CodedTypes

\* The builder's number of a type is one that the viewer knows.
LEMMA NumbersOfTypes ==
  ASSUME NEW t
  PROVE  NumberOfType(t) \in {NumberOfType(u) : u \in DOMAIN TypeNumber}
<1>1. NumberOfType("EchoReply") = 0 /\ "EchoReply" \in DOMAIN TypeNumber
  BY TypeNames DEF NumberOfType, TypeNumber
<1>2. QED
  BY <1>1 DEF NumberOfType

\* The viewer reads a type's number as that type.
LEMMA TypeIsViewed ==
  ASSUME NEW t \in DOMAIN TypeNumber, NEW h, h.type = TypeNumber[t]
  PROVE  ViewedType(h) = t
  BY TypesDiffer DEF ViewedType

\* The builder's number of a code fits its field.
LEMMA NumbersOfCodes ==
  ASSUME NEW t, NEW c
  PROVE  NumberOfCode(t, c) \in 0..15
  BY CodesDiffer DEF NumberOfCode, IsCodeOf, HasCodes

\* The viewer reads a code's number as that code where it belongs to the type.
LEMMA CodeIsViewed ==
  ASSUME NEW t \in DOMAIN TypeNumber, NEW c, IsCodeOf(c, t),
         NEW h, h.type = TypeNumber[t], h.code = NumberOfCode(t, c)
  PROVE  ViewedCode(h) = c
<1> DEFINE named == {d \in DOMAIN CodeNumber[t] : CodeNumber[t][d] = h.code}
<1>1. ViewedType(h) = t /\ HasCodes(t) /\ t # "Undefined"
  BY TypeIsViewed, TypeNames DEF IsCodeOf
<1>2. named = {c}
  BY CodesDiffer DEF NumberOfCode, IsCodeOf, HasCodes
<1>3. QED
  BY <1>1, <1>2 DEF ViewedCode

\* And whatever the builder writes for a code as some code, or as none.
LEMMA CodeIsDefined ==
  ASSUME NEW t \in DOMAIN TypeNumber, NEW c,
         NEW h, h.type = TypeNumber[t], h.code = NumberOfCode(t, c)
  PROVE  ViewedCode(h) # "Undefined"
<1> DEFINE named == {d \in DOMAIN CodeNumber[t] : CodeNumber[t][d] = h.code}
<1>1. ViewedType(h) = t /\ t # "Undefined"
  BY TypeIsViewed, TypeNames
<1>2. CASE ~ HasCodes(t)
  BY <1>1, <1>2 DEF ViewedCode
<1>3. CASE HasCodes(t)
  <2>1. named # {}
    BY <1>3, CodesDiffer DEF NumberOfCode, IsCodeOf, HasCodes
  <2>2. \A d \in named : d # "Undefined"
    BY <1>3, CodesDiffer DEF HasCodes
  <2>3. ViewedCode(h) = CHOOSE d \in named : TRUE
    BY <1>1, <1>3, <2>1 DEF ViewedCode
  <2>4. QED
    BY <2>1, <2>2, <2>3
<1>4. QED
  BY <1>2, <1>3

------------------------------------------------------------------------------
(* Types                                                                   *)

\* There is no builder yet.
LEMMA InitTyped == Init => TypeOK
  BY IcmpBuilderAssumption DEF Init, FrameInit, TypeOK, Alive, Nothing

\* A builder appears and disappears together with its raw frame.
LEMMA PlacesTyped ==
  ASSUME TypeOK, NEW p \in Places,
         Construct(p) \/ Destroy(p) \/ \E q \in Places : Copy(p, q)
  PROVE  TypeOK'
<1> USE IcmpBuilderAssumption DEF Alive
<1>1. Zero \in HeaderType
  <2>1. NumberOfType("EchoReply") = 0 /\ "EchoReply" \in DOMAIN TypeNumber
    BY TypeNames DEF NumberOfType, TypeNumber
  <2>2. 0 \in {NumberOfType(t) : t \in DOMAIN TypeNumber}
    BY <2>1
  <2>3. QED
    BY <2>2 DEF Zero, HeaderType
<1>2. Nothing \in [type : Types \union {None}, code : Codes \union {None},
                   id : 0..Word-1 \union {None}]
  BY DEF Nothing
<1>3. want' = [want EXCEPT ![p] = Nothing]
  BY DEF Construct, Destroy, Copy
<1>4. want' \in [Places -> [type : Types \union {None}, code : Codes \union {None},
                            id : 0..Word-1 \union {None}]]
  BY <1>2, <1>3 DEF TypeOK
<1>5. CASE Construct(p)
  BY <1>1, <1>4, <1>5 DEF Construct, ConstructFrame, TypeOK
<1>6. CASE Destroy(p)
  BY <1>4, <1>6 DEF Destroy, DestroyFrame, TypeOK
<1>7. ASSUME NEW q \in Places, Copy(p, q)
      PROVE  TypeOK'
  BY <1>4, <1>7 DEF Copy, CopyFrame, TypeOK
<1>8. QED
  BY <1>5, <1>6, <1>7

\* The setters: how each writes the header, and what is asked for then.
LEMMA SettersWrite ==
  ASSUME TypeOK, NEW p \in Places,
         \/ \E t \in Types : SetType(p, t)
         \/ \E c \in Codes : SetCode(p, c)
         \/ \E n \in 0..Word : SetCheckSum(p, n) \/ SetId(p, n) \/ SetSequenceNumber(p, n)
  PROVE  /\ frame[p] \in HeaderType
         /\ \E h \in HeaderType : frame' = [frame EXCEPT ![p] = h]
         /\ \E w \in [type : Types \union {None}, code : Codes \union {None},
                      id : 0..Word-1 \union {None}] : want' = [want EXCEPT ![p] = w]
         /\ start' = start
<1> USE IcmpBuilderAssumption
<1>1. frame[p] \in HeaderType
  BY DEF SetType, SetCode, SetCheckSum, SetId, SetSequenceNumber, Alive, TypeOK
<1>2. want[p] \in [type : Types \union {None}, code : Codes \union {None},
                   id : 0..Word-1 \union {None}]
  BY DEF TypeOK
<1>3. ASSUME NEW t \in Types, SetType(p, t)
      PROVE  /\ \E h \in HeaderType : frame' = [frame EXCEPT ![p] = h]
             /\ \E w \in [type : Types \union {None}, code : Codes \union {None},
                          id : 0..Word-1 \union {None}] : want' = [want EXCEPT ![p] = w]
  <2>1. [frame[p] EXCEPT !.type = NumberOfType(t)] \in HeaderType
    BY <1>1, NumbersOfTypes DEF HeaderType
  <2>2. QED
    BY <1>2, <1>3, <2>1 DEF SetType
<1>4. ASSUME NEW c \in Codes, SetCode(p, c)
      PROVE  /\ \E h \in HeaderType : frame' = [frame EXCEPT ![p] = h]
             /\ \E w \in [type : Types \union {None}, code : Codes \union {None},
                          id : 0..Word-1 \union {None}] : want' = [want EXCEPT ![p] = w]
  <2>1. PICK h \in RawFrames(p) :
          frame' = [frame EXCEPT ![p].code = NumberOfCode(ViewedType(h), c)]
    BY <1>4 DEF SetCode
  <2>2. [frame[p] EXCEPT !.code = NumberOfCode(ViewedType(h), c)] \in HeaderType
    BY <1>1, NumbersOfCodes DEF HeaderType
  <2>3. QED
    BY <1>2, <1>4, <2>1, <2>2 DEF SetCode
<1>5. ASSUME NEW n \in 0..Word, SetCheckSum(p, n) \/ SetId(p, n) \/ SetSequenceNumber(p, n)
      PROVE  /\ \E h \in HeaderType : frame' = [frame EXCEPT ![p] = h]
             /\ \E w \in [type : Types \union {None}, code : Codes \union {None},
                          id : 0..Word-1 \union {None}] : want' = [want EXCEPT ![p] = w]
  <2>1. n % Word \in 0..Word-1
    OBVIOUS
  <2>2. /\ [frame[p] EXCEPT !.checksum = n % Word] \in HeaderType
        /\ [frame[p] EXCEPT !.sequence = n % Word] \in HeaderType
    BY <1>1, <2>1 DEF HeaderType
  <2>3. want = [want EXCEPT ![p] = want[p]]
    BY DEF TypeOK
  <2>4. QED
    BY <1>2, <1>5, <2>1, <2>2, <2>3 DEF SetCheckSum, SetId, SetSequenceNumber
<1>6. start' = start
  BY DEF SetType, SetCode, SetCheckSum, SetId, SetSequenceNumber
<1>7. QED
  BY <1>1, <1>3, <1>4, <1>5, <1>6

\* Every step keeps the types.
LEMMA StepTyped == TypeOK /\ [Next]_vars => TypeOK'
<1> SUFFICES ASSUME TypeOK, [Next]_vars
    PROVE  TypeOK'
  OBVIOUS
<1>1. CASE UNCHANGED vars
  BY <1>1 DEF vars, TypeOK, Alive
<1>2. ASSUME NEW p \in Places,
             \/ \E t \in Types : SetType(p, t)
             \/ \E c \in Codes : SetCode(p, c)
             \/ \E n \in 0..Word : SetCheckSum(p, n) \/ SetId(p, n) \/ SetSequenceNumber(p, n)
      PROVE  TypeOK'
  <2>1. /\ frame[p] \in HeaderType
        /\ \E h \in HeaderType : frame' = [frame EXCEPT ![p] = h]
        /\ \E w \in [type : Types \union {None}, code : Codes \union {None},
                     id : 0..Word-1 \union {None}] : want' = [want EXCEPT ![p] = w]
        /\ start' = start
    BY <1>2, SettersWrite
  <2>2. QED
    BY <2>1, IcmpBuilderAssumption DEF TypeOK, Alive
<1>3. QED
  BY <1>1, <1>2, PlacesTyped DEF Next

\* A builder's header is a header, with a type that the viewer knows, whatever
\* was set, and from whatever raw frame the code was computed.
THEOREM TypeCorrect == Spec => []TypeOK
  BY InitTyped, StepTyped, PTL DEF Spec

------------------------------------------------------------------------------
(* What is read back                                                       *)

\* The header has the type that was set last.
TypeKept ==
  \A p \in Places :
    (Alive(p) /\ want[p].type \in DOMAIN TypeNumber) =>
      frame[p].type = TypeNumber[want[p].type]

\* A header that is its builder's raw frame has the code that was set last, in
\* the numbers of the type that it has.
CodeKept ==
  \A p \in Places :
    (ShowsItself(p) /\ want[p].code # None) =>
      frame[p].code = NumberOfCode(ViewedType(frame[p]), want[p].code)

\* A header has a number of some type.
LEMMA HeaderHasType ==
  ASSUME NEW h \in HeaderType
  PROVE  \E t \in DOMAIN TypeNumber : h.type = TypeNumber[t]
<1>1. PICK t \in DOMAIN TypeNumber : h.type = NumberOfType(t)
  BY DEF HeaderType
<1>2. QED
  BY <1>1 DEF NumberOfType

\* Every step keeps both.
LEMMA StepKeeps ==
  TypeOK /\ TypeKept /\ CodeKept /\ [Next]_vars => TypeKept' /\ CodeKept'
<1> SUFFICES ASSUME TypeOK, TypeKept, CodeKept, [Next]_vars
    PROVE  TypeKept' /\ CodeKept'
  OBVIOUS
<1> USE IcmpBuilderAssumption
<1>1. CASE UNCHANGED vars
  BY <1>1 DEF vars, TypeKept, CodeKept, Alive, ShowsItself
<1>2. ASSUME NEW p \in Places,
             Construct(p) \/ Destroy(p) \/ \E q \in Places : Copy(p, q)
      PROVE  TypeKept' /\ CodeKept'
  <2>1. want'[p].type = None /\ want'[p].code = None
    BY <1>2 DEF Construct, Destroy, Copy, Nothing, TypeOK
  <2>2. ASSUME NEW q \in Places, q # p
        PROVE  frame'[q] = frame[q] /\ start'[q] = start[q] /\ want'[q] = want[q]
    BY <1>2, <2>2 DEF Construct, Destroy, Copy, ConstructFrame, DestroyFrame, CopyFrame, TypeOK
  <2>3. QED
    BY <2>1, <2>2 DEF TypeKept, CodeKept, Alive, ShowsItself
<1>3. ASSUME NEW p \in Places,
             \/ \E t \in Types : SetType(p, t)
             \/ \E c \in Codes : SetCode(p, c)
             \/ \E n \in 0..Word : SetCheckSum(p, n) \/ SetId(p, n) \/ SetSequenceNumber(p, n)
      PROVE  TypeKept' /\ CodeKept'
  <2>1. frame[p] \in HeaderType /\ start' = start
    BY <1>3, SettersWrite
  <2>2. ASSUME NEW q \in Places, q # p
        PROVE  frame'[q] = frame[q] /\ want'[q] = want[q]
    BY <1>3, <2>2, SettersWrite DEF TypeOK
  <2>3. ASSUME NEW t \in Types, SetType(p, t)
        PROVE  /\ want'[p].type \in DOMAIN TypeNumber =>
                    frame'[p].type = TypeNumber[want'[p].type]
               /\ want'[p].code = None
    <3>1. frame'[p].type = NumberOfType(t)
      BY <2>1, <2>3 DEF SetType, TypeOK, HeaderType
    <3>2. want'[p].type = t /\ want'[p].code = None
      BY <2>3 DEF SetType, TypeOK
    <3>3. QED
      BY <3>1, <3>2 DEF NumberOfType
  <2>4. ASSUME NEW c \in Codes, SetCode(p, c)
        PROVE  /\ frame'[p].type = frame[p].type /\ want'[p].type = want[p].type
               /\ start[p] = p =>
                    frame'[p].code = NumberOfCode(ViewedType(frame'[p]), want'[p].code)
    <3>1. PICK h \in RawFrames(p) :
            frame' = [frame EXCEPT ![p].code = NumberOfCode(ViewedType(h), c)]
      BY <2>4 DEF SetCode
    <3>2. /\ frame'[p].type = frame[p].type
          /\ frame'[p].code = NumberOfCode(ViewedType(h), c)
      BY <2>1, <3>1 DEF TypeOK, HeaderType
    <3>3. want'[p].type = want[p].type /\ want'[p].code = c
      BY <2>4 DEF SetCode, TypeOK
    <3>4. start[p] = p => h = frame[p]
      BY <2>4, <3>1 DEF RawFrames, SetCode
    <3>5. ViewedType(frame'[p]) = ViewedType(frame[p])
      BY <3>2 DEF ViewedType
    <3>6. QED
      BY <3>2, <3>3, <3>4, <3>5
  <2>5. ASSUME NEW n \in 0..Word, SetCheckSum(p, n) \/ SetId(p, n) \/ SetSequenceNumber(p, n)
        PROVE  /\ frame'[p].type = frame[p].type /\ frame'[p].code = frame[p].code
               /\ want'[p].type = want[p].type /\ want'[p].code = want[p].code
               /\ ViewedType(frame'[p]) = ViewedType(frame[p])
    <3>1. frame'[p].type = frame[p].type /\ frame'[p].code = frame[p].code
      BY <2>1, <2>5 DEF SetCheckSum, SetId, SetSequenceNumber, TypeOK, HeaderType
    <3>2. want'[p].type = want[p].type /\ want'[p].code = want[p].code
      BY <2>5 DEF SetCheckSum, SetId, SetSequenceNumber, TypeOK
    <3>3. QED
      BY <3>1, <3>2 DEF ViewedType
  <2>6. Alive(p)
    BY <1>3 DEF SetType, SetCode, SetCheckSum, SetId, SetSequenceNumber
  <2>7. TypeKept'
    BY <1>3, <2>1, <2>2, <2>3, <2>4, <2>5, <2>6 DEF TypeKept, Alive
  <2>8. CodeKept'
    BY <1>3, <2>1, <2>2, <2>3, <2>4, <2>5, <2>6 DEF CodeKept, ShowsItself, Alive
  <2>9. QED
    BY <2>7, <2>8
<1>4. QED
  BY <1>1, <1>2, <1>3 DEF Next

\* Nothing is set before there is a builder.
LEMMA InitKeeps == Init => TypeKept /\ CodeKept
  BY DEF Init, FrameInit, TypeKept, CodeKept, Alive, ShowsItself

\* What is set through a builder that is no copy is what a viewer of its raw
\* frame reads: the type, and a code of that type set after it.
THEOREM TypeAndCodeAreReadBack == Spec => []TypeAndCodeReadBack
<1>1. TypeOK /\ TypeKept /\ CodeKept => TypeAndCodeReadBack
  <2> SUFFICES ASSUME TypeOK, TypeKept, CodeKept, NEW p \in Places, ShowsItself(p),
                      want[p].type \in DOMAIN TypeNumber, NEW h \in RawFrames(p)
      PROVE  /\ ViewedType(h) = want[p].type
             /\ IsCodeOf(want[p].code, want[p].type) => ViewedCode(h) = want[p].code
    BY DEF TypeAndCodeReadBack
  <2>1. h = frame[p] /\ Alive(p)
    BY DEF ShowsItself, RawFrames
  <2>2. h.type = TypeNumber[want[p].type]
    BY <2>1 DEF TypeKept
  <2>3. ViewedType(h) = want[p].type
    BY <2>2, TypeIsViewed
  <2>4. ASSUME IsCodeOf(want[p].code, want[p].type)
        PROVE  ViewedCode(h) = want[p].code
    <3>1. want[p].code # None
      BY <2>4, IcmpBuilderAssumption DEF IsCodeOf, HasCodes
    <3>2. h.code = NumberOfCode(want[p].type, want[p].code)
      BY <2>1, <2>3, <3>1 DEF CodeKept
    <3>3. QED
      BY <2>2, <2>4, <3>2, CodeIsViewed
  <2>5. QED
    BY <2>3, <2>4
<1>2. QED
  BY <1>1, InitTyped, StepTyped, InitKeeps, StepKeeps, PTL DEF Spec

\* A code that no setType followed is one that a viewer does not call undefined,
\* whatever type and code were set.
THEOREM CodesAreOfType == Spec => []CodeIsOfType
<1>1. TypeOK /\ TypeKept /\ CodeKept => CodeIsOfType
  <2> SUFFICES ASSUME TypeOK, CodeKept, NEW p \in Places, ShowsItself(p),
                      want[p].code # None
      PROVE  ViewedCode(frame[p]) # "Undefined"
    BY DEF CodeIsOfType
  <2>1. frame[p] \in HeaderType
    BY DEF ShowsItself, Alive, TypeOK
  <2>2. PICK t \in DOMAIN TypeNumber : frame[p].type = TypeNumber[t]
    BY <2>1, HeaderHasType
  <2>3. ViewedType(frame[p]) = t
    BY <2>2, TypeIsViewed
  <2>4. frame[p].code = NumberOfCode(t, want[p].code)
    BY <2>3 DEF CodeKept
  <2>5. QED
    BY <2>2, <2>4, CodeIsDefined
<1>2. QED
  BY <1>1, InitTyped, StepTyped, InitKeeps, StepKeeps, PTL DEF Spec

=============================================================================
