-------------------------- MODULE LazyObjectProofs --------------------------
(***************************************************************************)
(* Proofs about LazyObject, for every set of objects and of values.        *)
(***************************************************************************)
EXTENDS LazyObject, TLAPS

\* No object is constructed initially.
LEMMA InitEstablishes == Init => IInv
  BY DEF Init, IInv, TypeOK, HidesOnlyAfter, GetIsSafe, LostOnlyAfter,
    DeadIsEmpty, TookPart

\* Every call preserves the inductive invariant.
LEMMA StepPreserves == IInv /\ [Next]_vars => IInv'
<1> SUFFICES ASSUME IInv, [Next]_vars
             PROVE  IInv'
  OBVIOUS
<1> USE LazyObjectAssumption
    DEF IInv, TypeOK, HidesOnlyAfter, GetIsSafe, LostOnlyAfter, DeadIsEmpty,
      TookPart, RiskyUses, SetFlag
<1>1. ASSUME NEW o \in Objects, Construct(o)
      PROVE  IInv'
  BY <1>1 DEF Construct, Begin
<1>2. ASSUME NEW o \in Objects, NEW v \in Values, ConstructValue(o, v)
      PROVE  IInv'
  BY <1>2 DEF ConstructValue, Begin
<1>3. ASSUME NEW o \in Objects, NEW p \in Objects, CopyConstruct(o, p)
      PROVE  IInv'
  <2> USE <1>3 DEF CopyConstruct, Begin, Content
  <2>1. TypeOK'
    OBVIOUS
  <2>2. HidesOnlyAfter'
    OBVIOUS
  <2>3. GetIsSafe'
    OBVIOUS
  <2>4. LostOnlyAfter'
    OBVIOUS
  <2>5. DeadIsEmpty'
    OBVIOUS
  <2>6. QED
    BY <2>1, <2>2, <2>3, <2>4, <2>5
<1>4. ASSUME NEW o \in Objects, NEW p \in Objects, MoveConstruct(o, p)
      PROVE  IInv'
  <2> USE <1>4 DEF MoveConstruct, Begin, Content
  <2>1. TypeOK'
    <3>1. risky' \in [Objects -> SUBSET RiskyUses]
      <4>1. CASE m_isEmpty[p]
        BY <4>1
      <4>2. CASE ~m_isEmpty[p]
        BY <4>2
      <4>3. QED
        BY <4>1, <4>2
    <3>2. held' \in [Objects -> Values \union {None, Wreck}]
      OBVIOUS
    <3>3. /\ alive' \subseteq Objects /\ lost' \subseteq Objects
          /\ m_isEmpty' \in [Objects -> BOOLEAN]
      OBVIOUS
    <3>4. QED
      BY <3>1, <3>2, <3>3
  <2>2. HidesOnlyAfter'
    OBVIOUS
  <2>3. GetIsSafe'
    OBVIOUS
  <2>4. LostOnlyAfter'
    OBVIOUS
  <2>5. DeadIsEmpty'
    OBVIOUS
  <2>6. QED
    BY <2>1, <2>2, <2>3, <2>4, <2>5
<1>5. ASSUME NEW o \in Objects, Destroy(o)
      PROVE  IInv'
  BY <1>5 DEF Destroy
<1>6. ASSUME NEW o \in Objects, NEW v \in Values, Assign(o, v)
      PROVE  IInv'
  <2> USE <1>6 DEF Assign, Place
  <2>1. TypeOK'
    OBVIOUS
  <2>2. HidesOnlyAfter'
    OBVIOUS
  <2>3. GetIsSafe'
    OBVIOUS
  <2>4. LostOnlyAfter'
    OBVIOUS
  <2>5. DeadIsEmpty'
    OBVIOUS
  <2>6. QED
    BY <2>1, <2>2, <2>3, <2>4, <2>5
<1>7. ASSUME NEW o \in Objects, NEW p \in Objects, AssignFrom(o, p)
      PROVE  IInv'
  <2> USE <1>7 DEF AssignFrom, Place, Content
  <2>1. TypeOK'
    OBVIOUS
  <2>2. HidesOnlyAfter'
    OBVIOUS
  <2>3. GetIsSafe'
    OBVIOUS
  <2>4. LostOnlyAfter'
    OBVIOUS
  <2>5. DeadIsEmpty'
    OBVIOUS
  <2>6. QED
    BY <2>1, <2>2, <2>3, <2>4, <2>5
<1>8. ASSUME NEW o \in Objects, Destruct(o)
      PROVE  IInv'
  BY <1>8 DEF Destruct
<1>9. CASE UNCHANGED vars
  BY <1>9 DEF vars
<1>10. QED
  BY <1>1, <1>2, <1>3, <1>4, <1>5, <1>6, <1>7, <1>8, <1>9 DEF Next

\* The inductive invariant holds in every state LazyObject can reach.
THEOREM Invariance == Spec => []IInv
  BY InitEstablishes, StepPreserves, PTL DEF Spec

\* Type correctness.
THEOREM TypeCorrect == Spec => []TypeOK
<1>1. IInv => TypeOK
  BY DEF IInv
<1>2. QED
  BY <1>1, Invariance, PTL

\* An object that was not copied or moved into, nor moved from, holds no T when
\* it says it is empty.
THEOREM EmptyHidesNothing == Spec => []HidesOnlyAfter
<1>1. IInv => HidesOnlyAfter
  BY DEF IInv
<1>2. QED
  BY <1>1, Invariance, PTL

\* A program whose Ts do not throw never gets a T that does not exist.
THEOREM NoPhantom == Spec => []GetIsSafe
<1>1. IInv => GetIsSafe
  BY DEF IInv
<1>2. QED
  BY <1>1, Invariance, PTL

\* No T is leaked by any other call than the three that LostOnlyAfter names.
THEOREM NoLeak == Spec => []LostOnlyAfter
<1>1. IInv => LostOnlyAfter
  BY DEF IInv
<1>2. QED
  BY <1>1, Invariance, PTL
==============================================================================
