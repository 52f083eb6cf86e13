------------------------------ MODULE IpBuilder ------------------------------
(***************************************************************************)
(* posnet::IpBuilder (ip_builder.cpp) writes an IPv4 header and computes   *)
(* its checksum (CalcChecksum, algorithms.cpp); posnet::IpViewer           *)
(* (ip_viewer.cpp) reads the header.  A header is a function from its      *)
(* 16-bit words, some of them made of two fields, to 0 .. Word-1.          *)
(***************************************************************************)
EXTENDS Naturals, FiniteSets, Functions, BaseFrame

CONSTANTS
  Word,        \* 2^16
  Byte,        \* 2^8
  PlainWords,  \* the words that setters store arguments in, as a whole or in
               \* parts (a byte, or four bits)
  Parts,       \* those parts: size values, unit apart, of a word
  AddrWords,   \* the words that a setter of an address stores together
  Numbers,     \* the arguments of the setters
  OffsetBits   \* the offset takes a word modulo OffsetBits (2^13), the flags
               \* the rest

Words == PlainWords \union AddrWords \union {"frag_off", "check"}
HeaderType == [Words -> 0..Word-1]
Offsets == [more : BOOLEAN, value : 0..OffsetBits-1]

ASSUME IpBuilderAssumption ==
  /\ Word \in Nat /\ OffsetBits \in Nat \ {0} /\ Word = 8 * OffsetBits
  /\ Byte \in Nat \ {0} /\ Word = Byte * Byte
  /\ Numbers \subseteq Nat
  /\ IsFiniteSet(PlainWords) /\ IsFiniteSet(AddrWords)
  /\ PlainWords \intersect AddrWords = {}
  /\ Parts \subseteq [word : PlainWords, unit : Nat \ {0}, size : Nat \ {0}]
  /\ \A part \in Parts : Word % (part.unit * part.size) = 0
  /\ (PlainWords \union AddrWords) \intersect {"frag_off", "check"} = {}
  /\ Headers \subseteq HeaderType
  /\ None \notin Places \union HeaderType \union Offsets

VARIABLES
  sealed,   \* history: the builders whose checksum was computed over a zero
            \* checksum and stored, with no setter called since
  offset    \* history: offset[p]: the last arguments of setFragmentOffset

vars == <<frame, start, sealed, offset>>

MoreFragments == OffsetBits      \* 0x2000
DontFragment == 2 * OffsetBits   \* 0x4000

\* htons and ntohs, on a machine that has the low byte first.
Swapped(n) == Byte * (n % Byte) + (n \div Byte)

\* IpViewer::getFragmentOffset: the whole word, in the network's byte order.
FragmentOffset(h) == Swapped(h["frag_off"])

\* The carries are added to the low word until there are none.
EndAround[n \in Nat] ==
  IF n < Word THEN n ELSE EndAround[(n % Word) + (n \div Word)]

SumOfWords(h) == FoldFunction(+, 0, h)

\* Mutants of CalcChecksum: the carries are lost; the first word is skipped.
ChecksumWithoutCarry(h) == Word - 1 - (SumOfWords(h) % Word)
ChecksumOfTheRest(h) ==
  Word - 1 - EndAround[SumOfWords([w \in Words |-> IF w \in PlainWords THEN 0 ELSE h[w]])]

\* CalcChecksum: the complement of the sum, in 16 bits.
CalcChecksum(h) == Word - 1 - EndAround[SumOfWords(h)]

\* What a receiver of the header checks: the words, the checksum included, add
\* up to all ones.  (External: RFC 1071, and the sense of the field.)
Verifies(h) == EndAround[SumOfWords(h)] = Word - 1

Zero == [w \in Words |-> 0]

TypeOK ==
  /\ frame \in [Places -> HeaderType \union {None}]
  /\ start \in [Places -> Places \union {None}]
  /\ \A p \in Places : Alive(p) <=> start[p] # None
  /\ sealed \subseteq {p \in Places : Alive(p)}
  /\ offset \in [Places -> Offsets \union {None}]

Init ==
  /\ FrameInit
  /\ sealed = {}
  /\ offset = [p \in Places |-> None]

------------------------------------------------------------------------------

Construct(p) ==
  /\ ConstructFrame(p, Zero)
  /\ UNCHANGED <<sealed, offset>>

\* A copy, as MakeDefaultIpBuilder returns one where its local variable is not
\* built in place: what was set stays set, but the raw frame is q's.
Copy(p, q) ==
  /\ CopyFrame(p, q)
  /\ sealed' = IF q \in sealed THEN sealed \union {p} ELSE sealed
  /\ offset' = [offset EXCEPT ![p] = offset[q]]

Destroy(p) ==
  /\ DestroyFrame(p)
  /\ sealed' = sealed \ {p}
  /\ offset' = [offset EXCEPT ![p] = None]

\* v is old with n in a part of it, cut to the part's width.
PartSet(old, v, part, n) ==
  /\ (v \div part.unit) % part.size = n % part.size
  /\ v % part.unit = old % part.unit
  /\ v \div (part.unit * part.size) = old \div (part.unit * part.size)

\* setTypeOfService, setTotalLength, setId, setTTL and so on.  n is what they
\* store: a quarter of setHeaderLengthInBytes's argument, a number that belongs
\* to setVersion's or setProtocol's (one that these do not know is refused: an
\* exception, and nothing changes).
Set(p, part, n) ==
  /\ Alive(p)
  /\ \E v \in 0..Word-1 :
       /\ PartSet(frame[p][part.word], v, part, n)
       /\ frame' = [frame EXCEPT ![p][part.word] = v]
  /\ sealed' = sealed \ {p}
  /\ UNCHANGED <<start, offset>>

\* setSourceIpAddress and setDestIpAddress, of a well-formed address; another is
\* refused (an exception, and nothing changes).
SetAddress(p, a) ==
  /\ Alive(p)
  /\ frame' = [frame EXCEPT ![p] = [w \in Words |-> IF w \in AddrWords THEN a[w] ELSE frame[p][w]]]
  /\ sealed' = sealed \ {p}
  /\ UNCHANGED <<start, offset>>

\* Mutant of SetFragmentOffset: an offset that does not fit is cut.
CutFragmentOffset(p, more, n) ==
  /\ Alive(p)
  /\ frame' = [frame EXCEPT ![p]["frag_off"] =
                 (n % OffsetBits) + (IF more THEN MoreFragments ELSE DontFragment)]
  /\ sealed' = sealed \ {p}
  /\ offset' = [offset EXCEPT ![p] = [more |-> more, value |-> n]]
  /\ UNCHANGED start

\* setFragmentOffset: an offset that does not fit is refused (an exception, and
\* nothing changes).
SetFragmentOffset(p, more, n) ==
  /\ Alive(p)
  /\ n < OffsetBits
  /\ frame' = [frame EXCEPT ![p]["frag_off"] =
                 n + (IF more THEN MoreFragments ELSE DontFragment)]
  /\ sealed' = sealed \ {p}
  /\ offset' = [offset EXCEPT ![p] = [more |-> more, value |-> n]]
  /\ UNCHANGED start

\* Mutant of SetCheckSum: a number that is not cut to 16 bits.
SetWideCheckSum(p, n) ==
  /\ Alive(p)
  /\ frame' = [frame EXCEPT ![p]["check"] = n]
  /\ sealed' = sealed \ {p}
  /\ UNCHANGED <<start, offset>>

\* setCheckSum with a number of the caller's.
SetCheckSum(p, n) ==
  /\ Alive(p)
  /\ frame' = [frame EXCEPT ![p]["check"] = n % Word]
  /\ sealed' = sealed \ {p}
  /\ UNCHANGED <<start, offset>>

\* setCheckSum(getDefaultCheckSum()).  The sum runs over the whole header, the
\* checksum that is there included.
Seal(p) ==
  /\ Alive(p)
  /\ frame' = [frame EXCEPT ![p]["check"] = CalcChecksum(frame[p])]
  /\ sealed' = IF frame[p]["check"] = 0 THEN sealed \union {p} ELSE sealed \ {p}
  /\ UNCHANGED <<start, offset>>

\* setCheckSum(CalcChecksum(getAsRawFrameView())), as in the clients.
SealRawFrame(p) ==
  /\ Alive(p)
  /\ \E h \in RawFrames(p) :
       frame' = [frame EXCEPT ![p]["check"] = CalcChecksum(h)]
  /\ sealed' = IF start[p] = p /\ frame[p]["check"] = 0
               THEN sealed \union {p} ELSE sealed \ {p}
  /\ UNCHANGED <<start, offset>>

Next ==
  \E p \in Places :
    \/ Construct(p)
    \/ Destroy(p)
    \/ Seal(p)
    \/ SealRawFrame(p)
    \/ \E q \in Places : Copy(p, q)
    \/ \E a \in [AddrWords -> Numbers \intersect 0..Word-1] : SetAddress(p, a)
    \/ \E n \in Numbers :
         \/ SetCheckSum(p, n)
         \/ \E part \in Parts : Set(p, part, n)
         \/ \E more \in BOOLEAN : SetFragmentOffset(p, more, n)

Spec == Init /\ [][Next]_vars

------------------------------------------------------------------------------
(* Properties                                                              *)

\* A checksum computed over a header whose checksum was zero, and stored with
\* no setter called before or since, is one that the receiver accepts; of a
\* copy too.
SealedVerifies == \A p \in sealed : Verifies(frame[p])

\* The offset and the flag that were set last can be had from what the viewer's
\* getFragmentOffset returns, if its bytes are swapped and the flags cut off: they
\* did not run into each other.
OffsetReadsBack ==
  \A p \in Places :
    offset[p] # None =>
      LET word == Swapped(FragmentOffset(frame[p])) IN
      /\ word % OffsetBits = offset[p].value
      /\ (word \div OffsetBits = 1) <=> offset[p].more

\* A header that the receiver accepts is one that it no longer accepts after a
\* setter changed it, unless the setter changed more than one word, or changed
\* one from all zeros to all ones or back: no setter keeps the checksum up to
\* date.
StaleIsSeen ==
  [][\A p \in Places :
       (p \in sealed /\ Alive(p)' /\ p \notin sealed') =>
         LET changed == {w \in Words : frame'[p][w] # frame[p][w]} IN
         \/ Cardinality(changed) # 1
         \/ ~Verifies(frame'[p])
         \/ \A w \in changed : {frame[p][w], frame'[p][w]} = {0, Word - 1}]_vars
=============================================================================
