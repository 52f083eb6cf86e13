------------------------- MODULE IFaceManagerProofs -------------------------
(***************************************************************************)
(* Proofs about IFaceManager.                                              *)
(***************************************************************************)
EXTENDS IFaceManager, WellFoundedInduction, TLAPS

\* The kernel has a lowest free descriptor to give whenever one is free.
LEMMA LowestIsFree ==
  ASSUME TypeOK, Free # {}
  PROVE  LowestFree \in Free /\ LowestFree \in Fds /\ file[LowestFree] = None
<1>1. Free \subseteq Nat
  BY IFaceManagerAssumption DEF Free
<1>2. PICK x \in Free : \A y \in Free : ~ (<<y, x>> \in OpToRel(<, Nat))
  BY <1>1, NatLessThanWellFounded, WFMin
<1>3. ASSUME NEW y \in Free
      PROVE  x <= y
  <2>1. ~ (y < x)
    BY <1>1, <1>2, Zenon DEF OpToRel
  <2>2. QED
    BY <1>1, <2>1
<1>4. LowestFree \in Free
  BY <1>3 DEF LowestFree, Min
<1>5. QED
  BY <1>4 DEF Free

\* The fields of a configuration, listed.
LEMMA FieldsAre ==
  Range(Fields) = {"ip", "mac", "mask", "brd", "mtu", "status"}
  BY DEF Range, Fields

\* setConfig sets the broadcast address after the address.
LEMMA BroadcastIsLater ==
  ASSUME NEW m, Comes(m, "brd")
  PROVE  "ip" \notin todo[m]
<1>1. PICK k \in 1..6 : Fields[k] = "brd" /\ \A j \in 1..(k - 1) : Fields[j] \notin todo[m]
  BY DEF Comes, Fields
<1>2. k = 4
  BY <1>1 DEF Fields
<1>3. 1 \in 1..(k - 1) /\ Fields[1] = "ip"
  BY <1>2 DEF Fields
<1>4. QED
  BY <1>1, <1>3

------------------------------------------------------------------------------
(* Types                                                                   *)

\* A call of enablePromiscuousMode or disablePromiscuousMode has its SET still
\* to come, and flags in its struct ifreq; one of setConfig has fields to come.
CallShape ==
  \A m \in Managers :
    call[m] # None =>
      \/ /\ call[m] \in PromiscCalls
         /\ todo[m] \in {{"getflags", "setflags"}, {"setflags"}}
         /\ ifr[m] \in SUBSET {"UP", "PROMISC"}
      \/ /\ call[m] \in ConfigCalls
         /\ todo[m] \subseteq Range(Fields)

\* The program starts with the descriptors it inherits, and no call.
LEMMA InitTyped == Init => TypeOK
<1> SUFFICES ASSUME Init
    PROVE  TypeOK
  OBVIOUS
<1>1. sock \in [Managers -> Fds \union {None}] /\ file \in [Fds -> Managers \union {"other", None}]
  BY DEF Init
<1>2. flags \in [IFaces -> SUBSET {"UP", "PROMISC"}]
  BY DEF Init
<1>3. conf \in [IFaces -> [ip : Settings, mask : Settings, brd : Settings, mtu : Settings]]
  BY DEF Init, Settings
<1>4. QED
  BY <1>1, <1>2, <1>3 DEF Init, TypeOK

\* A constructor, a copy, an assignment and a destructor keep the types.
LEMMA DescriptorsTyped ==
  ASSUME TypeOK, NEW m \in Managers,
         Open(m) \/ Close(m) \/ \E n \in Managers : Copy(m, n) \/ Assign(m, n)
  PROVE  TypeOK'
<1> USE DEF kernelVars, callVars, Alive
<1>1. CASE Open(m)
  <2>1. LowestFree \in Fds
    BY <1>1, LowestIsFree DEF Open
  <2>2. sock' \in [Managers -> Fds \union {None}]
        /\ file' \in [Fds -> Managers \union {"other", None}]
    BY <1>1, <2>1 DEF Open, TypeOK
  <2>3. \A n \in Managers : call[n] # None => sock'[n] # None
    BY <1>1, <2>1, IFaceManagerAssumption DEF Open, TypeOK
  <2>4. returned \subseteq {n \in Managers : sock'[n] # None /\ call[n] = None}
    BY <1>1, <2>1, IFaceManagerAssumption DEF Open, TypeOK, Idle
  <2>5. QED
    BY <1>1, <2>2, <2>3, <2>4 DEF Open, TypeOK, Idle
<1>2. CASE Close(m)
  <2>1. sock[m] \in Fds
    BY <1>2 DEF Close, TypeOK, Idle
  <2>2. sock' \in [Managers -> Fds \union {None}]
        /\ file' \in [Fds -> Managers \union {"other", None}]
    BY <1>2, <2>1 DEF Close, TypeOK
  <2>3. \A n \in Managers : call[n] # None => sock'[n] # None
    BY <1>2 DEF Close, TypeOK, Idle
  <2>4. returned' \subseteq {n \in Managers : sock'[n] # None /\ call[n] = None}
    BY <1>2 DEF Close, TypeOK, Idle
  <2>5. QED
    BY <1>2, <2>2, <2>3, <2>4 DEF Close, TypeOK, Idle
<1>3. ASSUME NEW n \in Managers, Copy(m, n) \/ Assign(m, n)
      PROVE  TypeOK'
  <2>1. sock' \in [Managers -> Fds \union {None}]
    BY <1>3 DEF Copy, Assign, TypeOK
  <2>2. \A k \in Managers : call[k] # None => sock'[k] # None
    BY <1>3 DEF Copy, Assign, TypeOK
  <2>3. returned \subseteq {k \in Managers : sock'[k] # None /\ call[k] = None}
    BY <1>3 DEF Copy, Assign, TypeOK, Idle
  <2>4. replaced' \subseteq Fds
    <3>1. Assign(m, n) => sock[m] \in Fds
      BY DEF Assign, TypeOK, Idle
    <3>2. QED
      BY <1>3, <3>1 DEF Copy, Assign, TypeOK
  <2>5. QED
    BY <1>3, <2>1, <2>2, <2>3, <2>4 DEF Copy, Assign, TypeOK, Idle
<1>4. QED
  BY <1>1, <1>2, <1>3

\* So does the rest of the program.
LEMMA OtherTyped ==
  ASSUME TypeOK, OpenOther
  PROVE  TypeOK'
<1>1. LowestFree \in Fds
  BY LowestIsFree DEF OpenOther
<1>2. file' \in [Fds -> Managers \union {"other", None}]
  BY <1>1 DEF OpenOther, TypeOK
<1>3. QED
  BY <1>2 DEF OpenOther, TypeOK, Idle, Alive, kernelVars, callVars

\* A call starts with steps that are steps and a struct ifreq.
LEMMA StartTyped ==
  ASSUME TypeOK, NEW m \in Managers, Idle(m),
         NEW c \in PromiscCalls \union ConfigCalls,
         NEW steps \in SUBSET (Range(Fields) \union {"getflags", "setflags"}),
         NEW r \in {None, {}}, Start(m, c, steps, r)
  PROVE  TypeOK'
<1>1. call' \in [Managers -> PromiscCalls \union ConfigCalls \union {None}]
  BY DEF Start, TypeOK
<1>2. todo' \in [Managers -> SUBSET (Range(Fields) \union {"getflags", "setflags"})]
  BY DEF Start, TypeOK
<1>3. ifr' \in [Managers -> Addresses \union {None} \union SUBSET {"UP", "PROMISC"}]
  BY DEF Start, TypeOK
<1>4. c # None
  BY IFaceManagerAssumption
<1>5. \A n \in Managers : (call'[n] # None => sock[n] # None)
                          /\ (todo'[n] # {} => call'[n] # None)
  BY <1>4 DEF Start, TypeOK, Idle, Alive
<1>6. returned' \subseteq {n \in Managers : sock[n] # None /\ call'[n] = None}
  BY DEF Start, TypeOK, Idle, Alive
<1>7. disturbed \subseteq {n \in Managers : call'[n] # None}
  BY <1>4 DEF Start, TypeOK
<1>8. QED
  BY <1>1, <1>2, <1>3, <1>5, <1>6, <1>7 DEF Start, TypeOK, fdVars, kernelVars, Idle, Alive

\* The calls of the program keep the types.
LEMMA CallsTyped ==
  ASSUME TypeOK, NEW m \in Managers, NEW i \in IFaces,
         \/ \E on \in BOOLEAN : CallPromisc(m, i, on)
         \/ RefusePromisc(m, i)
         \/ \E c \in Configs : CallSetConfig(m, i, c)
  PROVE  TypeOK'
<1>1. ASSUME NEW on \in BOOLEAN, CallPromisc(m, i, on)
      PROVE  TypeOK'
  <2>1. [op |-> "promisc", iface |-> i, on |-> on] \in PromiscCalls
    BY DEF PromiscCalls
  <2>2. QED
    BY <1>1, <2>1, StartTyped DEF CallPromisc
<1>2. CASE RefusePromisc(m, i)
  BY <1>2 DEF RefusePromisc, TypeOK, fdVars, kernelVars, Idle, Alive
<1>3. ASSUME NEW c \in Configs, CallSetConfig(m, i, c)
      PROVE  TypeOK'
  <2>1. [op |-> "config", iface |-> i, config |-> c] \in ConfigCalls
    BY DEF ConfigCalls
  <2>2. {f \in Range(Fields) : c[f] # None} \subseteq Range(Fields)
    OBVIOUS
  <2>3. QED
    BY <1>3, <2>1, <2>2, StartTyped DEF CallSetConfig
<1>4. QED
  BY <1>1, <1>2, <1>3

\* A call that ends is gone, and its manager idle.
LEMMA EndTyped ==
  ASSUME TypeOK, NEW m \in Managers, call[m] # None, End(m), UNCHANGED sock
  PROVE  /\ call' \in [Managers -> PromiscCalls \union ConfigCalls \union {None}]
         /\ todo' \in [Managers -> SUBSET (Range(Fields) \union {"getflags", "setflags"})]
         /\ ifr' \in [Managers -> Addresses \union {None} \union SUBSET {"UP", "PROMISC"}]
         /\ \A n \in Managers : (call'[n] # None => Alive(n)')
                                /\ (todo'[n] # {} => call'[n] # None)
         /\ returned \union {m} \subseteq {n \in Managers : Idle(n)'}
         /\ \A n \in Managers \ {m} : call'[n] = call[n]
  BY DEF End, TypeOK, Idle, Alive

\* The struct ifreq of a call that is about to set the flags holds flags.
LEMMA SetFlagsAreFlags ==
  ASSUME CallShape, NEW m \in Managers, SetFlags(m)
  PROVE  \E fs \in SUBSET {"UP", "PROMISC"} : flags' = [flags EXCEPT ![call[m].iface] = fs]
<1>1. "setflags" \in todo[m] /\ call[m] # None
  BY DEF SetFlags
<1>2. ifr[m] \in SUBSET {"UP", "PROMISC"}
  BY <1>1, FieldsAre DEF CallShape
<1>3. QED
  BY <1>2 DEF SetFlags

\* So do the ioctls of a call, and its end.
LEMMA IoctlsTyped ==
  ASSUME TypeOK, CallShape, NEW m \in Managers,
         \/ GetFlags(m) \/ SetFlags(m) \/ SetAddress(m) \/ ReadOnly(m)
         \/ Fail(m) \/ Finish(m)
  PROVE  TypeOK'
<1> USE DEF fdVars, kernelVars
<1> DEFINE c == call[m]
<1>0. call[m] # None => c.iface \in IFaces
  BY DEF TypeOK, PromiscCalls, ConfigCalls
<1>1. CASE GetFlags(m)
  <2>1. flags[c.iface] \in SUBSET {"UP", "PROMISC"}
    BY <1>0, <1>1 DEF GetFlags, TypeOK
  <2>2. todo' \in [Managers -> SUBSET (Range(Fields) \union {"getflags", "setflags"})]
    BY <1>1 DEF GetFlags, TypeOK
  <2>3. ifr' \in [Managers -> Addresses \union {None} \union SUBSET {"UP", "PROMISC"}]
    BY <1>1, <2>1 DEF GetFlags, TypeOK
  <2>4. \A n \in Managers : todo'[n] # {} => call[n] # None
    BY <1>1 DEF GetFlags, TypeOK
  <2>5. QED
    BY <1>1, <2>2, <2>3, <2>4 DEF GetFlags, TypeOK, Idle, Alive
<1>2. CASE SetFlags(m)
  <2>0. \E fs \in SUBSET {"UP", "PROMISC"} : flags' = [flags EXCEPT ![c.iface] = fs]
    BY <1>2, SetFlagsAreFlags DEF SetFlags
  <2>1. flags' \in [IFaces -> SUBSET {"UP", "PROMISC"}]
    BY <1>0, <1>2, <2>0 DEF SetFlags, TypeOK
  <2>2. disturbed' \subseteq {n \in Managers : call'[n] # None}
    BY <1>2, EndTyped DEF SetFlags, Disturbed, TypeOK
  <2>3. QED
    BY <1>2, <2>1, <2>2, EndTyped DEF SetFlags, TypeOK
<1>3. CASE SetAddress(m)
  <2>1. PICK f \in {"ip", "mask", "brd"}, v \in Addresses \union {None} :
          /\ Changed(m, f, v)
          /\ ifr' = [ifr EXCEPT ![m] = v]
          /\ todo' = [todo EXCEPT ![m] = @ \ {f}]
    BY <1>3 DEF SetAddress
  <2>2. conf' \in [IFaces -> [ip : Settings, mask : Settings, brd : Settings, mtu : Settings]]
    <3>1. /\ c.iface \in IFaces /\ v \in Settings /\ Default \in Settings
          /\ conf \in [IFaces -> [ip : Settings, mask : Settings, brd : Settings, mtu : Settings]]
      BY <1>0, <1>3, <2>1 DEF SetAddress, TypeOK, Settings
    <3>2. /\ conf[c.iface].mtu \in Settings
          /\ [conf[c.iface] EXCEPT !.brd = v]
               \in [ip : Settings, mask : Settings, brd : Settings, mtu : Settings]
          /\ [conf[c.iface] EXCEPT !.mask = v]
               \in [ip : Settings, mask : Settings, brd : Settings, mtu : Settings]
      BY <3>1
    <3>3. PICK r \in [ip : Settings, mask : Settings, brd : Settings, mtu : Settings] :
            conf' = [conf EXCEPT ![c.iface] = r]
      BY <2>1, <3>1, <3>2 DEF Changed, Readdressed
    <3>4. QED
      BY <3>1, <3>3
  <2>3. todo' \in [Managers -> SUBSET (Range(Fields) \union {"getflags", "setflags"})]
    BY <2>1 DEF TypeOK
  <2>4. ifr' \in [Managers -> Addresses \union {None} \union SUBSET {"UP", "PROMISC"}]
    BY <2>1 DEF TypeOK
  <2>5. \A n \in Managers : todo'[n] # {} => call[n] # None
    BY <2>1, <1>3 DEF SetAddress, TypeOK
  <2>6. disturbed' \subseteq {n \in Managers : call[n] # None}
    BY <1>3 DEF SetAddress, Disturbed, TypeOK
  <2>7. QED
    BY <1>3, <2>2, <2>3, <2>4, <2>5, <2>6 DEF SetAddress, TypeOK, Idle, Alive
<1>4. CASE ReadOnly(m)
  <2>1. PICK f \in {"mtu", "status"} : todo' = [todo EXCEPT ![m] = @ \ {f}]
    BY <1>4 DEF ReadOnly
  <2>2. todo' \in [Managers -> SUBSET (Range(Fields) \union {"getflags", "setflags"})]
    BY <2>1 DEF TypeOK
  <2>3. \A n \in Managers : todo'[n] # {} => call[n] # None
    BY <2>1, <1>4 DEF ReadOnly, TypeOK
  <2>4. QED
    BY <1>4, <2>2, <2>3 DEF ReadOnly, TypeOK, Idle, Alive
<1>5. CASE Fail(m)
  <2>1. disturbed' \subseteq {n \in Managers : call'[n] # None}
    BY <1>5, EndTyped DEF Fail, TypeOK
  <2>2. QED
    BY <1>5, <2>1, EndTyped DEF Fail, TypeOK
<1>6. CASE Finish(m)
  <2>1. disturbed' \subseteq {n \in Managers : call'[n] # None}
    BY <1>6, EndTyped DEF Finish, TypeOK
  <2>2. QED
    BY <1>6, <2>1, EndTyped DEF Finish, TypeOK
<1>7. QED
  BY <1>1, <1>2, <1>3, <1>4, <1>5, <1>6

\* Whoever else administers an interface leaves flags and settings.
LEMMA AdministerTyped ==
  ASSUME TypeOK, NEW i \in IFaces, Administer(i)
  PROVE  TypeOK'
<1>1. flags' \in [IFaces -> SUBSET {"UP", "PROMISC"}]
  BY DEF Administer, TypeOK
<1>2. conf' \in [IFaces -> [ip : Settings, mask : Settings, brd : Settings, mtu : Settings]]
  BY DEF Administer, Readdressed, TypeOK, Settings
<1>3. disturbed' \subseteq {n \in Managers : call[n] # None}
  BY DEF Administer, Disturbed, TypeOK
<1>4. QED
  BY <1>1, <1>2, <1>3 DEF Administer, TypeOK, Idle, Alive, fdVars, callVars

\* A step keeps the shape of the calls that it does not touch.
LEMMA OthersKeepShape ==
  ASSUME CallShape, NEW m,
         \A n \in Managers \ {m} :
           call'[n] = call[n] /\ todo'[n] = todo[n] /\ ifr'[n] = ifr[n],
         m \in Managers /\ call'[m] # None =>
           \/ /\ call'[m] \in PromiscCalls
              /\ todo'[m] \in {{"getflags", "setflags"}, {"setflags"}}
              /\ ifr'[m] \in SUBSET {"UP", "PROMISC"}
           \/ /\ call'[m] \in ConfigCalls
              /\ todo'[m] \subseteq Range(Fields)
  PROVE  CallShape'
  BY DEF CallShape

\* The calls of the program start in that shape.
LEMMA CallsShaped ==
  ASSUME TypeOK, CallShape, NEW m \in Managers, NEW i \in IFaces,
         \/ \E on \in BOOLEAN : CallPromisc(m, i, on)
         \/ RefusePromisc(m, i)
         \/ \E c \in Configs : CallSetConfig(m, i, c)
  PROVE  CallShape'
<1>1. ASSUME NEW on \in BOOLEAN, CallPromisc(m, i, on)
      PROVE  CallShape'
  <2>1. [op |-> "promisc", iface |-> i, on |-> on] \in PromiscCalls
    BY DEF PromiscCalls
  <2>2. QED
    BY <1>1, <2>1 DEF CallPromisc, Start, CallShape, TypeOK
<1>2. CASE RefusePromisc(m, i)
  BY <1>2 DEF RefusePromisc, CallShape
<1>3. ASSUME NEW c \in Configs, CallSetConfig(m, i, c)
      PROVE  CallShape'
  <2>1. [op |-> "config", iface |-> i, config |-> c] \in ConfigCalls
    BY DEF ConfigCalls
  <2>2. QED
    BY <1>3, <2>1 DEF CallSetConfig, Start, CallShape, TypeOK
<1>4. QED
  BY <1>1, <1>2, <1>3

\* The ioctls leave it, and the end of a call has none to leave.
LEMMA IoctlsShaped ==
  ASSUME TypeOK, CallShape, NEW m \in Managers,
         \/ GetFlags(m) \/ SetFlags(m) \/ SetAddress(m) \/ ReadOnly(m)
         \/ Fail(m) \/ Finish(m)
  PROVE  CallShape'
<1>1. CASE GetFlags(m)
  <2>1. call[m].iface \in IFaces
    BY <1>1 DEF GetFlags, TypeOK, PromiscCalls, ConfigCalls
  <2>2. ifr'[m] \in SUBSET {"UP", "PROMISC"}
    BY <1>1, <2>1 DEF GetFlags, TypeOK
  <2>3. "getflags" \in todo[m] /\ todo'[m] = todo[m] \ {"getflags"} /\ call'[m] = call[m]
        /\ call[m] # None
    BY <1>1 DEF GetFlags, TypeOK
  <2>4. call[m] \in PromiscCalls /\ todo[m] \in {{"getflags", "setflags"}, {"setflags"}}
    BY <2>3, FieldsAre DEF CallShape
  <2>5. todo'[m] = {"setflags"}
    BY <2>3, <2>4
  <2>6. QED
    BY <1>1, <2>2, <2>3, <2>4, <2>5, OthersKeepShape DEF GetFlags, TypeOK
<1>2. CASE SetFlags(m) \/ Fail(m) \/ Finish(m)
  BY <1>2 DEF SetFlags, Fail, Finish, End, CallShape, TypeOK
<1>3. CASE SetAddress(m) \/ ReadOnly(m)
  <2>1. PICK f \in Range(Fields) : f \in todo[m] /\ todo' = [todo EXCEPT ![m] = @ \ {f}]
    BY <1>3, FieldsAre DEF SetAddress, ReadOnly, Comes
  <2>2. call' = call /\ call[m] # None
    BY <1>3 DEF SetAddress, ReadOnly
  <2>3. call[m] \in ConfigCalls /\ todo[m] \subseteq Range(Fields)
    BY <2>1, <2>2, FieldsAre DEF CallShape
  <2>4. \A n \in Managers \ {m} : ifr'[n] = ifr[n]
    BY <1>3 DEF SetAddress, ReadOnly, TypeOK
  <2>5. todo'[m] \subseteq Range(Fields) /\ \A n \in Managers \ {m} : todo'[n] = todo[n]
    BY <2>1, <2>3 DEF TypeOK
  <2>6. QED
    BY <2>2, <2>3, <2>4, <2>5, OthersKeepShape
<1>4. QED
  BY <1>1, <1>2, <1>3

\* What TypeOK needs to be inductive.
TInv == TypeOK /\ CallShape

\* No call has started yet.
LEMMA InitTInv == Init => TInv
  BY InitTyped DEF TInv, Init, CallShape

\* Every step keeps the types and the shape of the calls.
LEMMA StepTInv == TInv /\ [Next]_vars => TInv'
<1> SUFFICES ASSUME TInv, [Next]_vars
    PROVE  TypeOK' /\ CallShape'
  BY DEF TInv
<1> USE DEF TInv
<1>1. CASE UNCHANGED vars
  BY <1>1 DEF vars, TypeOK, CallShape, Idle, Alive
<1>2. CASE OpenOther
  BY <1>2, OtherTyped DEF OpenOther, CallShape, callVars
<1>3. CASE \E i \in IFaces : Administer(i)
  BY <1>3, AdministerTyped DEF Administer, CallShape, callVars
<1>4. ASSUME NEW m \in Managers,
             Open(m) \/ Close(m) \/ \E n \in Managers : Copy(m, n) \/ Assign(m, n)
      PROVE  TypeOK' /\ CallShape'
  <2>1. UNCHANGED <<call, todo, ifr>>
    BY <1>4 DEF Open, Close, Copy, Assign, callVars
  <2>2. QED
    BY <1>4, <2>1, DescriptorsTyped DEF CallShape
<1>5. ASSUME NEW m \in Managers,
             \/ GetFlags(m) \/ SetFlags(m) \/ SetAddress(m) \/ ReadOnly(m)
             \/ Fail(m) \/ Finish(m)
      PROVE  TypeOK' /\ CallShape'
  BY <1>5, IoctlsTyped, IoctlsShaped
<1>6. ASSUME NEW m \in Managers, NEW i \in IFaces,
             \/ \E on \in BOOLEAN : CallPromisc(m, i, on)
             \/ RefusePromisc(m, i)
             \/ \E c \in Configs : CallSetConfig(m, i, c)
      PROVE  TypeOK' /\ CallShape'
  BY <1>6, CallsTyped, CallsShaped
<1>7. ASSUME NEW m \in Managers, RefuseConfig(m)
      PROVE  TypeOK' /\ CallShape'
  BY <1>7 DEF RefuseConfig, TypeOK, CallShape, fdVars, kernelVars, Idle, Alive
<1>8. QED
  BY <1>1, <1>2, <1>3, <1>4, <1>5, <1>6, <1>7 DEF Next

\* Descriptors, interfaces and calls stay what they are declared to be; a
\* manager that does not exist is in no call, and an ended call leaves no step.
THEOREM TypeCorrect == Spec => []TypeOK
<1>1. Spec => []TInv
  BY InitTInv, StepTInv, PTL DEF Spec
<1>2. QED
  BY <1>1, PTL DEF TInv

------------------------------------------------------------------------------
(* Sockets                                                                 *)

\* The steps that open and close nothing.
LEMMA QuietSteps ==
  ASSUME [Next]_vars,
         ~ OpenOther,
         \A m \in Managers :
           ~ Open(m) /\ ~ Close(m) /\ \A n \in Managers : ~ Copy(m, n) /\ ~ Assign(m, n)
  PROVE  UNCHANGED fdVars
  BY DEF Next, vars, fdVars, Administer, GetFlags, SetFlags, SetAddress, ReadOnly,
         Fail, Finish, CallPromisc, RefusePromisc, CallSetConfig, RefuseConfig, Start

\* The constructor puts its manager on a free descriptor.
LEMMA OpenDoes ==
  ASSUME TypeOK, NEW m \in Managers, Open(m)
  PROVE  \E f \in Fds : /\ file[f] = None /\ sock[m] = None
                        /\ sock' = [sock EXCEPT ![m] = f]
                        /\ file' = [file EXCEPT ![f] = m]
                        /\ copied' = copied
                        /\ replaced' = replaced \ {f}
  BY LowestIsFree DEF Open, Alive

\* The rest of the program opens its files on free descriptors.
LEMMA OtherDoes ==
  ASSUME TypeOK, OpenOther
  PROVE  \E f \in Fds : /\ file[f] = None
                        /\ file' = [file EXCEPT ![f] = "other"]
                        /\ UNCHANGED <<sock, copied>>
                        /\ replaced' = replaced \ {f}
  BY LowestIsFree DEF OpenOther

\* What the program relies on when it asserts m_socket > 0: whoever started it
\* left the descriptor 0 open, and nobody here closes it.
ZeroIsTaken ==
  /\ file[0] = "other"
  /\ \A m \in Managers : sock[m] # 0

\* A manager's descriptor is the socket it opened, copies aside.
LEMMA StepOwns == TypeOK /\ SocketIsOwn /\ [Next]_vars => SocketIsOwn'
<1> SUFFICES ASSUME TypeOK, SocketIsOwn, [Next]_vars
    PROVE  SocketIsOwn'
  OBVIOUS
<1> USE IFaceManagerAssumption DEF SocketIsOwn, Alive
<1>1. ASSUME NEW m \in Managers, Open(m)
      PROVE  SocketIsOwn'
  <2>1. PICK f \in Fds : /\ file[f] = None /\ sock[m] = None
                         /\ sock' = [sock EXCEPT ![m] = f]
                         /\ file' = [file EXCEPT ![f] = m]
                         /\ copied' = copied
    BY <1>1, OpenDoes
  <2>2. QED
    BY <2>1 DEF TypeOK
<1>2. ASSUME NEW m \in Managers, Close(m)
      PROVE  SocketIsOwn'
  BY <1>2 DEF Close, Idle, TypeOK
<1>3. ASSUME NEW m \in Managers, NEW n \in Managers, Copy(m, n) \/ Assign(m, n)
      PROVE  SocketIsOwn'
  BY <1>3 DEF Copy, Assign
<1>4. CASE OpenOther
  <2>1. PICK f \in Fds : /\ file[f] = None
                         /\ file' = [file EXCEPT ![f] = "other"]
                         /\ UNCHANGED <<sock, copied>>
    BY <1>4, OtherDoes
  <2>2. QED
    BY <2>1 DEF TypeOK
<1>5. CASE UNCHANGED fdVars
  BY <1>5 DEF fdVars
<1>6. QED
  BY <1>1, <1>2, <1>3, <1>4, <1>5, QuietSteps

\* Managers that are closed, and only they, give their socket up.
LEMMA StepKeepsOwners == TypeOK /\ NoSocketLeaks /\ [Next]_vars => NoSocketLeaks'
<1> SUFFICES ASSUME TypeOK, NoSocketLeaks, [Next]_vars
    PROVE  NoSocketLeaks'
  OBVIOUS
<1> USE IFaceManagerAssumption DEF NoSocketLeaks, Alive
<1>1. ASSUME NEW m \in Managers, Open(m)
      PROVE  NoSocketLeaks'
  <2>1. PICK f \in Fds : /\ file[f] = None /\ sock[m] = None
                         /\ sock' = [sock EXCEPT ![m] = f]
                         /\ file' = [file EXCEPT ![f] = m]
                         /\ copied' = copied
                         /\ replaced' = replaced \ {f}
    BY <1>1, OpenDoes
  <2>2. ASSUME NEW g \in Fds, file'[g] \in Managers, g \notin replaced'
        PROVE  \E n \in Managers : sock'[n] = g
    BY <2>1, <2>2 DEF TypeOK
  <2>3. QED
    BY <2>2
<1>2. ASSUME NEW m \in Managers, Close(m)
      PROVE  NoSocketLeaks'
  <2>1. ASSUME NEW g \in Fds, file'[g] \in Managers, g \notin replaced'
        PROVE  \E n \in Managers : sock'[n] = g
    <3>1. g # sock[m] /\ file[g] \in Managers /\ g \notin replaced
      BY <1>2, <2>1 DEF Close, Idle, TypeOK
    <3>2. PICK n \in Managers : sock[n] = g
      BY <3>1
    <3>3. QED
      BY <1>2, <3>1, <3>2 DEF Close, TypeOK
  <2>2. QED
    BY <2>1
<1>3. ASSUME NEW m \in Managers, NEW n \in Managers, Copy(m, n) \/ Assign(m, n)
      PROVE  NoSocketLeaks'
  <2>1. ASSUME NEW g \in Fds, file[g] \in Managers, g \notin replaced'
        PROVE  \E k \in Managers : sock'[k] = g
    <3>1. PICK k \in Managers : sock[k] = g
      BY <1>3, <2>1 DEF Copy, Assign
    <3>2. CASE k # m
      BY <1>3, <3>1, <3>2 DEF Copy, Assign, TypeOK
    <3>3. CASE k = m
      BY <1>3, <2>1, <3>1, <3>3 DEF Copy, Assign
    <3>4. QED
      BY <3>2, <3>3
  <2>2. QED
    BY <1>3, <2>1 DEF Copy, Assign
<1>4. CASE OpenOther
  <2>1. PICK f \in Fds : /\ file[f] = None
                         /\ file' = [file EXCEPT ![f] = "other"]
                         /\ UNCHANGED <<sock, copied>>
                         /\ replaced' = replaced \ {f}
    BY <1>4, OtherDoes
  <2>2. QED
    BY <2>1 DEF TypeOK
<1>5. CASE UNCHANGED fdVars
  BY <1>5 DEF fdVars
<1>6. QED
  BY <1>1, <1>2, <1>3, <1>4, <1>5, QuietSteps

\* Nobody opens or closes the descriptor 0.
LEMMA StepLeavesZero == TypeOK /\ 0 \in Fds /\ ZeroIsTaken /\ [Next]_vars => ZeroIsTaken'
<1> SUFFICES ASSUME TypeOK, 0 \in Fds, ZeroIsTaken, [Next]_vars
    PROVE  ZeroIsTaken'
  OBVIOUS
<1> USE IFaceManagerAssumption DEF ZeroIsTaken
<1>1. ASSUME NEW m \in Managers, Open(m)
      PROVE  ZeroIsTaken'
  <2>1. PICK f \in Fds : /\ file[f] = None /\ sock[m] = None
                         /\ sock' = [sock EXCEPT ![m] = f]
                         /\ file' = [file EXCEPT ![f] = m]
                         /\ copied' = copied
    BY <1>1, OpenDoes
  <2>2. QED
    BY <2>1 DEF TypeOK
<1>2. ASSUME NEW m \in Managers, Close(m)
      PROVE  ZeroIsTaken'
  <2>1. None # 0
    OBVIOUS
  <2>2. QED
    BY <1>2, <2>1 DEF Close, Idle, Alive, TypeOK
<1>3. ASSUME NEW m \in Managers, NEW n \in Managers, Copy(m, n) \/ Assign(m, n)
      PROVE  ZeroIsTaken'
  BY <1>3 DEF Copy, Assign, Alive, TypeOK
<1>4. CASE OpenOther
  <2>1. PICK f \in Fds : /\ file[f] = None
                         /\ file' = [file EXCEPT ![f] = "other"]
                         /\ UNCHANGED <<sock, copied>>
    BY <1>4, OtherDoes
  <2>2. QED
    BY <2>1 DEF TypeOK
<1>5. CASE UNCHANGED fdVars
  BY <1>5 DEF fdVars
<1>6. QED
  BY <1>1, <1>2, <1>3, <1>4, <1>5, QuietSteps

\* As long as no manager is copied, each closes the socket it opened, which
\* was nobody else's meanwhile: no descriptor is closed behind a manager's back.
THEOREM SocketsAreOwn == Spec => []SocketIsOwn
<1>1. Init => SocketIsOwn
  BY DEF Init, SocketIsOwn, Alive
<1>2. QED
  BY <1>1, StepOwns, TypeCorrect, PTL DEF Spec

\* A socket that is open has a manager that will close it, whatever copies there
\* are, unless another was assigned to the last manager that had it.
THEOREM SocketsAreClosed == Spec => []NoSocketLeaks
<1>1. Init => NoSocketLeaks
  BY IFaceManagerAssumption DEF Init, NoSocketLeaks
<1>2. QED
  BY <1>1, StepKeepsOwners, TypeCorrect, PTL DEF Spec

\* The assertion m_socket > 0 of every operation holds of a program that is
\* started with its standard input open.
THEOREM SocketsArePositive ==
  ASSUME 0 \in Inherited
  PROVE  Spec => []SocketIsPositive
<1>1. 0 \in Fds
  BY IFaceManagerAssumption
<1>2. Init => ZeroIsTaken
  BY <1>1, IFaceManagerAssumption DEF Init, ZeroIsTaken
<1>3. TypeOK /\ ZeroIsTaken => SocketIsPositive
  <2>1. ASSUME TypeOK, ZeroIsTaken, NEW m \in Managers, Alive(m)
        PROVE  sock[m] > 0
    <3>1. sock[m] \in Nat /\ sock[m] # 0
      BY <2>1, IFaceManagerAssumption DEF TypeOK, ZeroIsTaken, Alive
    <3>2. QED
      BY <3>1
  <2>2. QED
    BY <2>1 DEF SocketIsPositive
<1>4. TypeOK /\ ZeroIsTaken /\ [Next]_vars => ZeroIsTaken'
  BY <1>1, StepLeavesZero
<1>5. QED
  BY <1>2, <1>3, <1>4, TypeCorrect, PTL DEF Spec

------------------------------------------------------------------------------
(* Calls                                                                   *)

\* A GET has read the flags that the interface still has, unless somebody else
\* changed the interface since.
FlagsRead ==
  \A m \in Managers :
    (call[m] # None /\ call[m].op = "promisc") =>
      \/ "getflags" \in todo[m]
      \/ m \in disturbed
      \/ ifr[m] = flags[call[m].iface]

\* An address that setConfig has done with is set, unless somebody else changed
\* the interface since; the broadcast address, which goes with the old address,
\* comes after the address.
AddressesSet ==
  \A m \in Managers :
    (call[m] # None /\ call[m].op = "config") =>
      /\ \A f \in {"ip", "brd"} :
           call[m].config[f] \notin {None, Malformed} =>
             \/ f \in todo[m]
             \/ m \in disturbed
             \/ conf[call[m].iface][f] = call[m].config[f]
      /\ ("ip" \in todo[m] /\ call[m].config.brd # None) => "brd" \in todo[m]

\* An interface whose flags or settings change disturbs every other call on it.
LEMMA ChangeDisturbs ==
  ASSUME TInv, [Next]_vars, NEW m \in Managers, call[m] # None, call'[m] = call[m],
         m \notin disturbed',
         flags'[call[m].iface] # flags[call[m].iface]
           \/ conf'[call[m].iface] # conf[call[m].iface]
  PROVE  SetAddress(m)
<1> DEFINE i == call[m].iface
<1>0. i \in IFaces
  BY DEF TInv, TypeOK, PromiscCalls, ConfigCalls
<1>1. ASSUME NEW j \in IFaces, Administer(j)
      PROVE  FALSE
  <2>1. i # j
    BY <1>1 DEF Administer, Disturbed
  <2>2. flags'[i] = flags[i] /\ conf'[i] = conf[i]
    BY <1>0, <1>1, <2>1 DEF Administer, TInv, TypeOK
  <2>3. QED
    BY <2>2
<1>2. ASSUME NEW n \in Managers, SetAddress(n), n # m
      PROVE  FALSE
  <2>1. i # call[n].iface
    BY <1>2 DEF SetAddress, Disturbed
  <2>2. flags'[i] = flags[i] /\ conf'[i] = conf[i]
    BY <1>0, <1>2, <2>1 DEF SetAddress, Changed, TInv, TypeOK
  <2>3. QED
    BY <2>2
<1>3. ASSUME NEW n \in Managers, SetFlags(n)
      PROVE  FALSE
  <2>1. n # m
    BY <1>3 DEF SetFlags, End, TInv, TypeOK
  <2>2. i # call[n].iface
    BY <1>3, <2>1 DEF SetFlags, Disturbed
  <2>3. flags'[i] = flags[i] /\ conf'[i] = conf[i]
    BY <1>0, <1>3, <2>2 DEF SetFlags, TInv, TypeOK
  <2>4. QED
    BY <2>3
<1>4. SetAddress(m) \/ UNCHANGED kernelVars
  BY <1>1, <1>2, <1>3 DEF Next, vars, fdVars, callVars, kernelVars, Open, Close, Copy, Assign, OpenOther,
         GetFlags, ReadOnly, Fail, Finish, CallPromisc, RefusePromisc, CallSetConfig,
         RefuseConfig, Start
<1>5. QED
  BY <1>4 DEF kernelVars

\* A step that is not m's own leaves m's call as it is.
LEMMA OthersCalls ==
  ASSUME TInv, [Next]_vars, NEW m \in Managers, call'[m] # None,
         ~ (\E i \in IFaces, on \in BOOLEAN : CallPromisc(m, i, on)),
         ~ (\E i \in IFaces, c \in Configs : CallSetConfig(m, i, c)),
         ~ GetFlags(m), ~ SetAddress(m), ~ ReadOnly(m)
  PROVE  call'[m] = call[m] /\ todo'[m] = todo[m] /\ ifr'[m] = ifr[m]
<1>1. ASSUME NEW n \in Managers,
             SetFlags(n) \/ Fail(n) \/ Finish(n)
      PROVE  call'[m] = call[m] /\ todo'[m] = todo[m] /\ ifr'[m] = ifr[m]
  <2>1. n # m
    BY <1>1 DEF SetFlags, Fail, Finish, End, TInv, TypeOK
  <2>2. QED
    BY <1>1, <2>1 DEF SetFlags, Fail, Finish, End, TInv, TypeOK
<1>2. ASSUME NEW n \in Managers, n # m,
             GetFlags(n) \/ SetAddress(n) \/ ReadOnly(n)
      PROVE  call'[m] = call[m] /\ todo'[m] = todo[m] /\ ifr'[m] = ifr[m]
  BY <1>2 DEF GetFlags, SetAddress, ReadOnly, TInv, TypeOK
<1>3. ASSUME NEW n \in Managers, n # m, NEW i \in IFaces,
             \/ \E on \in BOOLEAN : CallPromisc(n, i, on)
             \/ \E c \in Configs : CallSetConfig(n, i, c)
      PROVE  call'[m] = call[m] /\ todo'[m] = todo[m] /\ ifr'[m] = ifr[m]
  BY <1>3 DEF CallPromisc, CallSetConfig, Start, TInv, TypeOK
<1>4. CASE UNCHANGED <<call, todo, ifr>>
  BY <1>4
<1>5. QED
  BY <1>1, <1>2, <1>3, <1>4 DEF Next, vars, callVars, Open, Close, Copy, Assign, OpenOther,
         RefusePromisc, RefuseConfig, Administer

\* The calls that somebody has disturbed stay so until they end.
LEMMA StaysDisturbed ==
  ASSUME TInv, [Next]_vars, NEW m \in Managers, call'[m] # None, m \in disturbed
  PROVE  m \in disturbed'
<1>1. ASSUME NEW n \in Managers, SetFlags(n) \/ Fail(n) \/ Finish(n)
      PROVE  m \in disturbed'
  BY <1>1 DEF SetFlags, Fail, Finish, End, Disturbed, TInv, TypeOK
<1>2. ASSUME NEW n \in Managers, SetAddress(n)
      PROVE  m \in disturbed'
  BY <1>2 DEF SetAddress, Disturbed
<1>3. ASSUME NEW i \in IFaces, Administer(i)
      PROVE  m \in disturbed'
  BY <1>3 DEF Administer, Disturbed
<1>4. CASE UNCHANGED disturbed
  BY <1>4
<1>5. QED
  BY <1>1, <1>2, <1>3, <1>4 DEF Next, vars, Open, Close, Copy, Assign, OpenOther, GetFlags,
         ReadOnly, CallPromisc, RefusePromisc, CallSetConfig, RefuseConfig, Start

\* Between the GET and the SET of a call, the flags in its struct ifreq are
\* those of the interface.
LEMMA StepFlagsRead == TInv /\ FlagsRead /\ [Next]_vars => FlagsRead'
<1> SUFFICES ASSUME TInv, FlagsRead, [Next]_vars, NEW m \in Managers,
                    call'[m] # None, call'[m].op = "promisc"
    PROVE  \/ "getflags" \in todo'[m]
           \/ m \in disturbed'
           \/ ifr'[m] = flags'[call'[m].iface]
  BY DEF FlagsRead
<1>1. CASE \E i \in IFaces, on \in BOOLEAN : CallPromisc(m, i, on)
  BY <1>1 DEF CallPromisc, Start, TInv, TypeOK
<1>2. CASE \E i \in IFaces, c \in Configs : CallSetConfig(m, i, c)
  BY <1>2 DEF CallSetConfig, Start, TInv, TypeOK
<1>3. CASE GetFlags(m)
  BY <1>3 DEF GetFlags, kernelVars, TInv, TypeOK
<1>4. CASE SetAddress(m) \/ ReadOnly(m)
  <2>1. PICK f \in Range(Fields) : f \in todo[m]
    BY <1>4, FieldsAre DEF SetAddress, ReadOnly, Comes
  <2>2. call'[m] = call[m]
    BY <1>4 DEF SetAddress, ReadOnly
  <2>3. call[m] \in ConfigCalls
    BY <2>1, <2>2, FieldsAre DEF TInv, CallShape
  <2>4. QED
    BY <2>2, <2>3 DEF ConfigCalls
<1>5. CASE ~ (\/ \E i \in IFaces, on \in BOOLEAN : CallPromisc(m, i, on)
              \/ \E i \in IFaces, c \in Configs : CallSetConfig(m, i, c)
              \/ GetFlags(m) \/ SetAddress(m) \/ ReadOnly(m))
  <2>1. call'[m] = call[m] /\ todo'[m] = todo[m] /\ ifr'[m] = ifr[m]
    BY <1>5, OthersCalls
  <2>2. m \notin disturbed' => flags'[call[m].iface] = flags[call[m].iface]
    BY <1>5, <2>1, ChangeDisturbs
  <2>3. QED
    BY <2>1, <2>2, StaysDisturbed DEF FlagsRead
<1>6. QED
  BY <1>1, <1>2, <1>3, <1>4, <1>5

\* What setConfig has set stays set.
LEMMA StepAddressesSet == TInv /\ AddressesSet /\ [Next]_vars => AddressesSet'
<1> SUFFICES ASSUME TInv, AddressesSet, [Next]_vars, NEW m \in Managers,
                    call'[m] # None, call'[m].op = "config"
    PROVE  /\ \A f \in {"ip", "brd"} :
                call'[m].config[f] \notin {None, Malformed} =>
                  \/ f \in todo'[m]
                  \/ m \in disturbed'
                  \/ conf'[call'[m].iface][f] = call'[m].config[f]
           /\ ("ip" \in todo'[m] /\ call'[m].config.brd # None) => "brd" \in todo'[m]
  BY DEF AddressesSet
<1>1. CASE \E i \in IFaces, on \in BOOLEAN : CallPromisc(m, i, on)
  BY <1>1 DEF CallPromisc, Start, TInv, TypeOK
<1>2. ASSUME NEW i \in IFaces, NEW c \in Configs, CallSetConfig(m, i, c)
      PROVE  /\ \A f \in {"ip", "brd"} :
                  call'[m].config[f] \notin {None, Malformed} => f \in todo'[m]
             /\ call'[m].config.brd # None => "brd" \in todo'[m]
  BY <1>2, FieldsAre DEF CallSetConfig, Start, TInv, TypeOK
<1>3. CASE GetFlags(m)
  <2>1. "getflags" \in todo[m] /\ call'[m] = call[m]
    BY <1>3 DEF GetFlags
  <2>2. QED
    BY <2>1, FieldsAre DEF TInv, CallShape, PromiscCalls
<1>4. CASE SetAddress(m)
  <2>1. PICK f \in {"ip", "mask", "brd"}, v \in Addresses \union {None} :
          /\ Comes(m, f) /\ Changed(m, f, v)
          /\ todo' = [todo EXCEPT ![m] = @ \ {f}]
    BY <1>4 DEF SetAddress
  <2> DEFINE i == call[m].iface
             g == call[m].config
  <2>2. call' = call /\ call[m] # None /\ i \in IFaces
    BY <1>4 DEF SetAddress, TInv, TypeOK, PromiscCalls, ConfigCalls
  <2>3. todo'[m] = todo[m] \ {f}
    BY <2>1 DEF TInv, TypeOK
  <2>4. m \in disturbed => m \in disturbed'
    BY <1>4 DEF SetAddress
  <2>5. conf[i] \in [ip : Settings, mask : Settings, brd : Settings, mtu : Settings]
    BY <2>2 DEF TInv, TypeOK
  <2>6. CASE f = "ip"
    <3>1. conf'[i].ip = v /\ v = Parsed(m, g.ip)
      BY <2>1, <2>2, <2>6 DEF Changed, Readdressed, TInv, TypeOK
    <3>2. "ip" \in todo[m]
      BY <2>1, <2>6 DEF Comes
    <3>3. g.brd # None => "brd" \in todo'[m]
      BY <2>2, <2>3, <2>6, <3>2 DEF AddressesSet
    <3>4. QED
      BY <2>2, <2>3, <2>6, <3>1, <3>3 DEF Parsed
  <2>7. CASE f = "mask"
    <3>1. conf'[i].ip = conf[i].ip /\ conf'[i].brd = conf[i].brd
      BY <2>1, <2>2, <2>5, <2>7 DEF Changed, TInv, TypeOK
    <3>2. QED
      BY <2>2, <2>3, <2>4, <2>7, <3>1 DEF AddressesSet
  <2>8. CASE f = "brd"
    <3>1. conf'[i].brd = v /\ v = Parsed(m, g.brd) /\ conf'[i].ip = conf[i].ip
      BY <2>1, <2>2, <2>5, <2>8 DEF Changed, TInv, TypeOK
    <3>2. "ip" \notin todo[m]
      BY <2>1, <2>8, BroadcastIsLater
    <3>3. QED
      BY <2>2, <2>3, <2>4, <2>8, <3>1, <3>2 DEF AddressesSet, Parsed
  <2>9. QED
    BY <2>6, <2>7, <2>8
<1>5. CASE ReadOnly(m)
  <2>1. PICK f \in {"mtu", "status"} : todo' = [todo EXCEPT ![m] = @ \ {f}]
    BY <1>5 DEF ReadOnly
  <2>2. todo'[m] = todo[m] \ {f}
    BY <2>1 DEF TInv, TypeOK
  <2>3. UNCHANGED <<call, conf, disturbed>>
    BY <1>5 DEF ReadOnly, kernelVars
  <2>4. QED
    BY <2>2, <2>3 DEF AddressesSet
<1>6. CASE ~ (\/ \E i \in IFaces, on \in BOOLEAN : CallPromisc(m, i, on)
              \/ \E i \in IFaces, c \in Configs : CallSetConfig(m, i, c)
              \/ GetFlags(m) \/ SetAddress(m) \/ ReadOnly(m))
  <2>1. call'[m] = call[m] /\ todo'[m] = todo[m]
    BY <1>6, OthersCalls
  <2>2. m \notin disturbed' => conf'[call[m].iface] = conf[call[m].iface]
    BY <1>6, <2>1, ChangeDisturbs
  <2>3. QED
    BY <2>1, <2>2, StaysDisturbed DEF AddressesSet
<1>7. QED
  BY <1>1, <1>2, <1>3, <1>4, <1>5, <1>6

\* A call of m returns by its SET, or, one of setConfig, with nothing to come.
LEMMA WhoReturns ==
  ASSUME TInv, [Next]_vars, NEW m \in Managers, call[m] # None, m \in returned'
  PROVE  SetFlags(m) \/ Finish(m)
<1>1. m \notin returned
  BY DEF TInv, TypeOK, Idle
<1>2. ASSUME NEW n \in Managers, n # m, SetFlags(n) \/ Finish(n)
      PROVE  FALSE
  BY <1>1, <1>2 DEF SetFlags, Finish
<1>3. QED
  BY <1>1, <1>2 DEF Next, vars, callVars, Open, Close, Copy, Assign, OpenOther, GetFlags, SetAddress,
         ReadOnly, Fail, CallPromisc, RefusePromisc, CallSetConfig, RefuseConfig, Start, Administer

\* When setConfig returns, the address and the broadcast address are those that
\* the caller asked for, none of its ioctls having undone an earlier one.
THEOREM AddressesAreApplied == Spec => AddressesApplied
<1> DEFINE Applied ==
      \A m \in Managers :
        (Returns(m, "config") /\ m \notin disturbed) =>
          \A f \in {"ip", "brd"} :
            call[m].config[f] \notin {None, Malformed} =>
              conf[call[m].iface][f] = call[m].config[f]
<1>1. Init => TInv /\ AddressesSet
  BY InitTInv DEF Init, AddressesSet
<1>2. TInv /\ AddressesSet /\ [Next]_vars => Applied
  <2> SUFFICES ASSUME TInv, AddressesSet, [Next]_vars, NEW m \in Managers,
                      Returns(m, "config"), m \notin disturbed,
                      NEW f \in {"ip", "brd"}, call[m].config[f] \notin {None, Malformed}
      PROVE  conf[call[m].iface][f] = call[m].config[f]
    OBVIOUS
  <2>1. call[m] # None /\ call[m].op = "config" /\ (SetFlags(m) \/ Finish(m))
    BY WhoReturns DEF Returns
  <2>2. ~ SetFlags(m)
    BY <2>1, FieldsAre DEF SetFlags, TInv, CallShape, PromiscCalls
  <2>3. todo[m] = {}
    BY <2>1, <2>2 DEF Finish
  <2>4. QED
    BY <2>1, <2>3 DEF AddressesSet
<1>3. QED
  BY <1>1, <1>2, StepTInv, StepAddressesSet, PTL DEF Spec, AddressesApplied

\* When the promiscuous mode has been switched, it is as asked, and the call
\* brought the interface neither up nor down.
THEOREM PromiscIsApplied == Spec => PromiscApplied
<1> DEFINE Applied ==
      \A m \in Managers :
        Returns(m, "promisc") =>
          /\ "PROMISC" \in flags'[call[m].iface] <=> call[m].on
          /\ \/ m \in disturbed
             \/ flags'[call[m].iface] \ {"PROMISC"} =
                  flags[call[m].iface] \ {"PROMISC"}
<1>1. Init => TInv /\ FlagsRead
  BY InitTInv DEF Init, FlagsRead
<1>2. TInv /\ FlagsRead /\ [Next]_vars => Applied
  <2> SUFFICES ASSUME TInv, FlagsRead, [Next]_vars, NEW m \in Managers, Returns(m, "promisc")
      PROVE  /\ "PROMISC" \in flags'[call[m].iface] <=> call[m].on
             /\ \/ m \in disturbed
                \/ flags'[call[m].iface] \ {"PROMISC"} =
                     flags[call[m].iface] \ {"PROMISC"}
    OBVIOUS
  <2> DEFINE i == call[m].iface
  <2>1. call[m] # None /\ call[m].op = "promisc" /\ (SetFlags(m) \/ Finish(m))
    BY WhoReturns DEF Returns
  <2>2. call[m] \in PromiscCalls /\ "setflags" \in todo[m]
    BY <2>1 DEF TInv, CallShape, ConfigCalls
  <2>3. SetFlags(m)
    BY <2>1, <2>2 DEF Finish
  <2>4. i \in IFaces /\ call[m].on \in BOOLEAN
    BY <2>2 DEF PromiscCalls
  <2>5. flags'[i] = IF call[m].on THEN ifr[m] \union {"PROMISC"} ELSE ifr[m] \ {"PROMISC"}
    BY <2>3, <2>4 DEF SetFlags, TInv, TypeOK
  <2>6. m \in disturbed \/ ifr[m] = flags[i]
    BY <2>1, <2>3 DEF SetFlags, FlagsRead
  <2>7. QED
    BY <2>4, <2>5, <2>6
<1>3. QED
  BY <1>1, <1>2, StepTInv, StepFlagsRead, PTL DEF Spec, PromiscApplied

=============================================================================
