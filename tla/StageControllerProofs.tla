------------------------ MODULE StageControllerProofs ------------------------
(***************************************************************************)
(* Proofs about StageController, for every set of threads, of stages and   *)
(* of lists.                                                               *)
(***************************************************************************)
EXTENDS StageController, Integers, TLAPS

\* What the loop takes off its list: the head, an accepted stage.
LEMMA HeadAndTail ==
  ASSUME NEW S, NEW q \in Seq(S), q # <<>>
  PROVE  /\ 1 \in DOMAIN q /\ Head(q) = q[1] /\ Head(q) \in S
         /\ Tail(q) \in Seq(S)
         /\ \A i \in DOMAIN Tail(q) : i + 1 \in DOMAIN q /\ Tail(q)[i] = q[i + 1]
         /\ \A i \in DOMAIN q : i # 1 => i - 1 \in DOMAIN Tail(q) /\ Tail(q)[i - 1] = q[i]
  OBVIOUS

\* No call is in progress initially.
LEMMA InitEstablishes == Init => IInv
  BY StageControllerAssumption
  DEF Init, IInv, TypeOK, ReasonToRefuse, TriesAccepted

\* A call begins with seen[t] = {stage} and a list of accepted stages; if the
\* stage is an accepted one it is on the list.
LEMMA BeginPreserves ==
  ASSUME IInv, NEW t \in Threads, NEW list \in Seq(Stages), NEW from \in SUBSET Stages,
         NEW n \in Stages, Begin(t, list, from, n),
         \A i \in DOMAIN list : list[i] \in from,
         stage \in from => \E i \in DOMAIN list : list[i] = stage
  PROVE  IInv'
<1> USE DEF IInv, TypeOK, Begin
<1>1. TypeOK'
  OBVIOUS
<1>2. ReasonToRefuse'
  <2> SUFFICES ASSUME NEW u \in Threads, call'[u] # None
               PROVE  /\ stage' \in seen'[u]
                      /\ \A s \in call'[u].from :
                           seen'[u] = {s} => \E i \in DOMAIN todo'[u] : todo'[u][i] = s
    BY DEF ReasonToRefuse
  <2>1. CASE u = t
    <3>1. call'[u].from = from /\ todo'[u] = list /\ seen'[u] = {stage} /\ stage' = stage
      BY <2>1
    <3>2. QED
      BY <3>1
  <2>2. CASE u # t
    <3>1. call'[u] = call[u] /\ todo'[u] = todo[u] /\ seen'[u] = seen[u] /\ stage' = stage
      BY <2>2
    <3>2. ReasonToRefuse
      OBVIOUS
    <3> HIDE DEF IInv, TypeOK, Begin
    <3>3. QED
      BY <3>1, <3>2 DEF ReasonToRefuse
  <2>3. QED
    BY <2>1, <2>2
<1>3. TriesAccepted'
  BY StageControllerAssumption DEF TriesAccepted
<1>4. QED
  BY <1>1, <1>2, <1>3

\* A change of the stage is seen by the calls of the other threads.
LEMMA ChangePreserves ==
  ASSUME IInv, NEW t \in Threads, NEW n \in Stages, Change(t, n), call'[t] = None,
         call' \in [Threads -> [from : SUBSET Stages, to : Stages] \union {None}],
         todo' \in [Threads -> Seq(Stages)],
         \A u \in Threads \ {t} : call'[u] = call[u] /\ todo'[u] = todo[u]
  PROVE  ReasonToRefuse' /\ TriesAccepted' /\ stage' \in Stages
         /\ seen' \in [Threads -> SUBSET Stages]
<1> USE DEF IInv, TypeOK, Change
<1>1. ReasonToRefuse'
  <2> SUFFICES ASSUME NEW u \in Threads, call'[u] # None
               PROVE  /\ stage' \in seen'[u]
                      /\ \A s \in call'[u].from :
                           seen'[u] = {s} => \E i \in DOMAIN todo'[u] : todo'[u][i] = s
    BY DEF ReasonToRefuse
  <2>1. /\ u # t /\ call'[u] = call[u] /\ call[u] # None /\ todo'[u] = todo[u]
        /\ stage' = n /\ seen'[u] = seen[u] \union {n}
    OBVIOUS
  <2>2. seen[u] # {}
    BY <2>1 DEF ReasonToRefuse
  <2>3. ASSUME NEW s \in call[u].from, seen'[u] = {s}
        PROVE  \E i \in DOMAIN todo[u] : todo[u][i] = s
    <3>1. seen[u] = {s}
      BY <2>1, <2>2, <2>3
    <3>2. QED
      BY <2>1, <3>1 DEF ReasonToRefuse
  <2>4. QED
    BY <2>1, <2>3
<1>2. TriesAccepted'
  BY DEF TriesAccepted
<1>3. stage' \in Stages /\ seen' \in [Threads -> SUBSET Stages]
  OBVIOUS
<1>4. QED
  BY <1>1, <1>2, <1>3

\* The answers that calls return are answers.
LEMMA AnswerTypes == Refused \in Answers /\ \A s \in Stages : Moved(s) \in Answers
  BY DEF Refused, Moved, Answers

\* One compare-and-swap.
LEMMA TryMovePreserves ==
  ASSUME IInv, NEW t \in Threads, TryMove(t)
  PROVE  IInv'
<1> DEFINE q == todo[t]
<1>1. /\ q \in Seq(Stages) /\ q # <<>> /\ call[t] # None
      /\ call[t] \in [from : SUBSET Stages, to : Stages]
  BY DEF IInv, TypeOK, TryMove
<1>2. CASE SwapSucceeds(t, Head(q), call[t].to) /\ stage' = call[t].to
           /\ call' = [call EXCEPT ![t] = None]
           /\ todo' = [todo EXCEPT ![t] = <<>>]
           /\ answer' = [answer EXCEPT ![t] = Moved(Head(q))]
  <2>1. /\ call' \in [Threads -> [from : SUBSET Stages, to : Stages] \union {None}]
        /\ todo' \in [Threads -> Seq(Stages)]
        /\ answer' \in [Threads -> Answers \union {None}]
    BY <1>1, <1>2, HeadAndTail, AnswerTypes DEF IInv, TypeOK
  <2>2. ReasonToRefuse' /\ TriesAccepted' /\ stage' \in Stages
        /\ seen' \in [Threads -> SUBSET Stages]
    BY <1>1, <1>2, <2>1, ChangePreserves DEF SwapSucceeds, IInv, TypeOK
  <2>3. QED
    BY <2>1, <2>2 DEF IInv, TypeOK
<1>3. CASE SwapFails(Head(q)) /\ todo' = [todo EXCEPT ![t] = Tail(q)]
           /\ UNCHANGED <<call, answer>>
  <2>1. TypeOK'
    BY <1>1, <1>3, HeadAndTail DEF IInv, TypeOK, SwapFails
  <2>2. ReasonToRefuse'
    <3> SUFFICES ASSUME NEW u \in Threads, call[u] # None
                 PROVE  /\ stage \in seen[u]
                        /\ \A s \in call[u].from :
                             seen[u] = {s} => \E i \in DOMAIN todo'[u] : todo'[u][i] = s
      BY <1>3 DEF ReasonToRefuse, SwapFails
    <3>1. CASE u # t
      BY <1>3, <3>1 DEF IInv, TypeOK, ReasonToRefuse
    <3>2. CASE u = t
      <4>1. stage \in seen[t]
        BY <3>2 DEF IInv, ReasonToRefuse
      <4>2. ASSUME NEW s \in call[t].from, seen[t] = {s}
            PROVE  \E i \in DOMAIN Tail(q) : Tail(q)[i] = s
        <5>1. PICK i \in DOMAIN q : q[i] = s
          BY <1>1, <4>2 DEF IInv, ReasonToRefuse
        <5>2. i # 1
          BY <1>1, <1>3, <4>1, <4>2, <5>1, HeadAndTail DEF SwapFails
        <5>3. QED
          BY <1>1, <5>1, <5>2, HeadAndTail
      <4>3. todo'[t] = Tail(q)
        BY <1>3 DEF IInv, TypeOK
      <4>4. QED
        BY <3>2, <4>1, <4>2, <4>3
    <3>3. QED
      BY <3>1, <3>2
  <2>3. TriesAccepted'
    <3>1. \A i \in DOMAIN Tail(q) : Tail(q)[i] \in call[t].from
      BY <1>1, HeadAndTail DEF IInv, TriesAccepted
    <3>2. QED
      BY <1>3, <3>1 DEF IInv, TypeOK, TriesAccepted
  <2>4. QED
    BY <2>1, <2>2, <2>3 DEF IInv
<1>4. QED
  BY <1>2, <1>3 DEF TryMove, SwapSucceeds, Change

\* The three goto functions begin calls as BeginPreserves requires.
LEMMA GotoIsBegin ==
  ASSUME IInv, NEW t \in Threads, NEW n \in Stages,
         \/ GotoNextStage(t, n)
         \/ \E c \in Stages : GotoNextStageIfCurrentStage(t, c, n)
         \/ \E list \in Lists : GotoNextStageIfInList(t, list, n)
  PROVE  \E list \in Seq(Stages), from \in SUBSET Stages :
           /\ Begin(t, list, from, n)
           /\ \A i \in DOMAIN list : list[i] \in from
           /\ stage \in from => \E i \in DOMAIN list : list[i] = stage
<1>1. stage \in Stages
  BY DEF IInv, TypeOK
<1>2. CASE GotoNextStage(t, n)
  <2>1. Begin(t, <<stage>>, Stages, n)
    BY <1>2 DEF GotoNextStage
  <2>2. /\ <<stage>> \in Seq(Stages) /\ DOMAIN <<stage>> = {1}
        /\ <<stage>>[1] = stage
    BY <1>1
  <2>3. QED
    BY <1>1, <2>1, <2>2
<1>3. CASE \E c \in Stages : GotoNextStageIfCurrentStage(t, c, n)
  <2>1. PICK c \in Stages : Begin(t, <<c>>, {c}, n)
    BY <1>3 DEF GotoNextStageIfCurrentStage
  <2>2. <<c>> \in Seq(Stages) /\ DOMAIN <<c>> = {1} /\ <<c>>[1] = c
    OBVIOUS
  <2>3. /\ {c} \in SUBSET Stages
        /\ \A i \in DOMAIN <<c>> : <<c>>[i] \in {c}
        /\ stage \in {c} => \E i \in DOMAIN <<c>> : <<c>>[i] = stage
    BY <2>2
  <2>4. QED
    BY <2>1, <2>2, <2>3
<1>4. CASE \E list \in Lists : GotoNextStageIfInList(t, list, n)
  <2>1. PICK list \in Lists : Begin(t, list, {list[i] : i \in DOMAIN list}, n)
    BY <1>4 DEF GotoNextStageIfInList
  <2>2. list \in Seq(Stages) /\ {list[i] : i \in DOMAIN list} \in SUBSET Stages
    BY StageControllerAssumption
  <2>3. QED
    BY <2>1, <2>2
<1>5. QED
  BY <1>2, <1>3, <1>4

\* Every step preserves the inductive invariant.
LEMMA StepPreserves == IInv /\ [Next]_vars => IInv'
<1> SUFFICES ASSUME IInv, [Next]_vars
             PROVE  IInv'
  OBVIOUS
<1>1. ASSUME NEW t \in Threads, NEW n \in Stages, SetNextStageStrongly(t, n)
      PROVE  IInv'
  <2>1. /\ Change(t, n) /\ call' = call /\ todo' = todo /\ answer' = answer
        /\ call[t] = None
    BY <1>1 DEF SetNextStageStrongly
  <2>2. ReasonToRefuse' /\ TriesAccepted' /\ stage' \in Stages
        /\ seen' \in [Threads -> SUBSET Stages]
    BY <2>1, ChangePreserves DEF IInv, TypeOK
  <2>3. QED
    BY <2>1, <2>2 DEF IInv, TypeOK
<1>2. ASSUME NEW t \in Threads, GiveUp(t)
      PROVE  IInv'
  <2>1. TypeOK'
    BY <1>2, AnswerTypes DEF GiveUp, IInv, TypeOK
  <2>2. \A u \in Threads : call'[u] # None =>
          /\ call'[u] = call[u] /\ seen'[u] = seen[u]
          /\ stage' = stage /\ todo' = todo
    BY <1>2 DEF GiveUp, IInv, TypeOK
  <2>3. ReasonToRefuse'
    BY <2>2 DEF IInv, ReasonToRefuse
  <2>4. TriesAccepted'
    BY <2>2 DEF IInv, TriesAccepted
  <2>5. QED
    BY <2>1, <2>3, <2>4 DEF IInv
<1>3. CASE UNCHANGED vars
  BY <1>3 DEF vars, IInv, TypeOK, ReasonToRefuse, TriesAccepted
<1>4. QED
  BY <1>1, <1>2, <1>3, TryMovePreserves, GotoIsBegin, BeginPreserves DEF Next

\* The inductive invariant holds in every state StageController can reach.
THEOREM Invariance == Spec => []IInv
  BY InitEstablishes, StepPreserves, PTL DEF Spec

\* Type correctness.
THEOREM TypeCorrect == Spec => []TypeOK
<1>1. IInv => TypeOK
  BY DEF IInv
<1>2. QED
  BY <1>1, Invariance, PTL

\* Every step of the compare-and-swap loops is an atomic step or invisible.
LEMMA RefinesStep == IInv /\ [Next]_vars => [AS!Next]_(AS!vars)
<1> SUFFICES ASSUME IInv, [Next]_vars
             PROVE  AS!Next \/ UNCHANGED AS!vars
  OBVIOUS
<1>1. ASSUME NEW t \in Threads, NEW n \in Stages, NEW list, NEW from \in SUBSET Stages,
             Begin(t, list, from, n)
      PROVE  AS!Next
  <2>1. AS!Begin(t, from, n)
    BY <1>1 DEF Begin, AS!Begin
  <2>2. QED
    BY <2>1 DEF AS!Next
<1>2. ASSUME NEW t \in Threads, NEW n \in Stages, SetNextStageStrongly(t, n)
      PROVE  AS!Next
  <2>1. AS!Set(t, n)
    BY <1>2 DEF SetNextStageStrongly, Change, AS!Set, AS!Change
  <2>2. QED
    BY <2>1 DEF AS!Next
<1>3. ASSUME NEW t \in Threads, TryMove(t)
      PROVE  AS!Next \/ UNCHANGED AS!vars
  <2>1. CASE SwapFails(Head(todo[t])) /\ UNCHANGED <<call, answer>>
    BY <2>1 DEF SwapFails, AS!vars
  <2>2. CASE /\ SwapSucceeds(t, Head(todo[t]), call[t].to)
             /\ call' = [call EXCEPT ![t] = None]
             /\ answer' = [answer EXCEPT ![t] = Moved(Head(todo[t]))]
    <3>1. Head(todo[t]) \in call[t].from
      BY <1>3, HeadAndTail DEF IInv, TypeOK, TriesAccepted, TryMove
    <3>2. AS!Move(t)
      BY <1>3, <2>2, <3>1
      DEF TryMove, SwapSucceeds, Change, Moved, AS!Move, AS!Change, AS!Moved
    <3>3. QED
      BY <3>2 DEF AS!Next
  <2>3. QED
    BY <1>3, <2>1, <2>2 DEF TryMove
<1>4. ASSUME NEW t \in Threads, GiveUp(t)
      PROVE  AS!Next
  <2>1. AS!MayRefuse(t)
    BY <1>4 DEF IInv, GiveUp, ReasonToRefuse, AS!MayRefuse
  <2>2. AS!Refuse(t)
    BY <1>4, <2>1 DEF GiveUp, Refused, AS!Refuse, AS!Refused
  <2>3. QED
    BY <2>2 DEF AS!Next
<1>5. CASE UNCHANGED vars
  BY <1>5 DEF vars, AS!vars
<1>6. QED
  BY <1>1, <1>2, <1>3, <1>4, <1>5, GotoIsBegin DEF Next

\* StageController implements the atomic stage: a call that returns true has
\* moved the stage in one step away from the stage it reports, and one that
\* returns false has changed nothing and had a reason.
THEOREM Implementation == Spec => ImplementsAtomicStage
<1>1. Init => AS!Init
  BY DEF Init, AS!Init
<1>2. QED
  BY <1>1, RefinesStep, Invariance, PTL DEF Spec, ImplementsAtomicStage, AS!Spec
==============================================================================
