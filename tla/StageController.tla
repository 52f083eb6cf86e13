--------------------------- MODULE StageController ---------------------------
(***************************************************************************)
(* posnet::utils::StageController (include/utils/stage_controller.h): a    *)
(* std::atomic stage that threads move with compare_exchange_strong.       *)
(*                                                                         *)
(* A call of one of the three goto functions is a list of stages to try,   *)
(* one compare-and-swap each: the initializer_list of the caller, the one  *)
(* stage of the caller, or, in gotoNextStage, the one stage just loaded.   *)
(* Other threads run between any two of these steps.                       *)
(***************************************************************************)
EXTENDS Sequences

CONSTANTS
  Threads,    \* the threads that use the controller
  Stages,     \* the values of T
  InitStage,  \* the constructor's argument
  Lists,      \* the initializer_lists that callers pass
  None        \* no call, no answer

ASSUME StageControllerAssumption ==
  /\ InitStage \in Stages
  /\ Lists \subseteq Seq(Stages)
  /\ None \notin Stages \union [from : SUBSET Stages, to : Stages]

VARIABLES
  stage,   \* m_stage
  call,    \* call[t]: the call t is in: the stages it may leave and nextStage
  todo,    \* todo[t]: the stages it has still to compare with m_stage
  answer,  \* answer[t]: what t's last call returned, and *prevStage
  seen     \* seen[t]: the stages there have been since t's call began (a
           \* history variable: no action reads it)

vars == <<stage, call, todo, answer, seen>>

Moved(s) == [moved |-> TRUE, prev |-> s]
\* Mutant of Refused: the call reports a move, from no stage.
MovedFromNowhere == Moved(None)

Refused == [moved |-> FALSE, prev |-> None]

\* What a caller may be told: moved from a stage, or not moved.
Answers == [moved : {TRUE}, prev : Stages] \union [moved : {FALSE}, prev : {None}]

TypeOK ==
  /\ stage \in Stages
  /\ call \in [Threads -> [from : SUBSET Stages, to : Stages] \union {None}]
  /\ todo \in [Threads -> Seq(Stages)]
  /\ answer \in [Threads -> Answers \union {None}]
  /\ seen \in [Threads -> SUBSET Stages]

------------------------------------------------------------------------------
Init ==
  /\ stage = InitStage
  /\ call = [t \in Threads |-> None]
  /\ todo = [t \in Threads |-> <<>>]
  /\ answer = [t \in Threads |-> None]
  /\ seen = [t \in Threads |-> {}]

Begin(t, list, from, n) ==
  /\ call[t] = None
  /\ call' = [call EXCEPT ![t] = [from |-> from, to |-> n]]
  /\ todo' = [todo EXCEPT ![t] = list]
  /\ answer' = [answer EXCEPT ![t] = None]
  /\ seen' = [seen EXCEPT ![t] = {stage}]
  /\ UNCHANGED stage

\* gotoNextStage(n): m_stage.load(), and one compare-and-swap to come.
GotoNextStage(t, n) == Begin(t, <<stage>>, Stages, n)

\* gotoNextStageIfCurrentStage(c, n): one compare-and-swap to come.
GotoNextStageIfCurrentStage(t, c, n) == Begin(t, <<c>>, {c}, n)

\* gotoNextStageIfCurrentStage({...}, n, prevStage): a loop over the list.
GotoNextStageIfInList(t, list, n) ==
  Begin(t, list, {list[i] : i \in DOMAIN list}, n)

\* The stage becomes n while other calls are in progress.
Change(t, n) ==
  /\ stage' = n
  /\ seen' = [u \in Threads |-> IF u = t \/ call[u] = None THEN {}
                                                          ELSE seen[u] \union {n}]

\* Mutant of SwapSucceeds: a store.
StoreAnyway(t, s, n) == Change(t, n)

\* std::atomic<T>::compare_exchange_strong(s, n) succeeds or fails.
SwapSucceeds(t, s, n) == stage = s /\ Change(t, n)
SwapFails(s) == stage # s /\ UNCHANGED <<stage, seen>>

\* Mutant of TryMove: a failed compare-and-swap is tried again, in vain.
TryMoveAgain(t) ==
  /\ call[t] # None /\ todo[t] # <<>>
  /\ \/ /\ SwapSucceeds(t, Head(todo[t]), call[t].to)
        /\ call' = [call EXCEPT ![t] = None]
        /\ todo' = [todo EXCEPT ![t] = <<>>]
        /\ answer' = [answer EXCEPT ![t] = Moved(Head(todo[t]))]
     \/ SwapFails(Head(todo[t])) /\ UNCHANGED <<call, todo, answer>>

\* One round of the loop: the compare-and-swap of the next stage to try.
TryMove(t) ==
  /\ call[t] # None /\ todo[t] # <<>>
  /\ \/ /\ SwapSucceeds(t, Head(todo[t]), call[t].to)
        /\ call' = [call EXCEPT ![t] = None]
        /\ todo' = [todo EXCEPT ![t] = <<>>]
        /\ answer' = [answer EXCEPT ![t] = Moved(Head(todo[t]))]
     \/ /\ SwapFails(Head(todo[t]))
        /\ todo' = [todo EXCEPT ![t] = Tail(@)]
        /\ UNCHANGED <<call, answer>>

\* The list is exhausted: return false, prevStage as it was.
GiveUp(t) ==
  /\ call[t] # None /\ todo[t] = <<>>
  /\ call' = [call EXCEPT ![t] = None]
  /\ answer' = [answer EXCEPT ![t] = Refused]
  /\ seen' = [seen EXCEPT ![t] = {}]
  /\ UNCHANGED <<stage, todo>>

\* setNextStageStrongly(n): m_stage.store(n).
SetNextStageStrongly(t, n) ==
  /\ call[t] = None
  /\ Change(t, n)
  /\ UNCHANGED <<call, todo, answer>>

Next ==
  \E t \in Threads :
    \/ TryMove(t)
    \/ GiveUp(t)
    \/ \E n \in Stages :
         \/ GotoNextStage(t, n)
         \/ \E c \in Stages : GotoNextStageIfCurrentStage(t, c, n)
         \/ \E list \in Lists : GotoNextStageIfInList(t, list, n)
         \/ SetNextStageStrongly(t, n)

Spec == Init /\ [][Next]_vars

\* The scheduler runs a thread that is inside a call.
FairSpec == Spec /\ \A t \in Threads : WF_vars(TryMove(t)) /\ WF_vars(GiveUp(t))

------------------------------------------------------------------------------
(* Properties                                                              *)

AS == INSTANCE AtomicStage

\* "We have changed current stage from *prevSatge to Stages::Stage3 atomically"
\* (line 28): calls that interleave their compare-and-swaps behave as atomic
\* moves that report the stage they left, and a call that returns false has
\* changed nothing and has a reason: it saw a stage outside its list, or
\* another thread changed the stage meanwhile.
ImplementsAtomicStage == AS!Spec

\* Every call returns, however the other threads interfere.
CallsReturn == \A t \in Threads : call[t] # None ~> call[t] = None

\* Behind the refinement: what a call has crossed off its list is no longer
\* the stage, unless the stage has changed since the call began.
ReasonToRefuse ==
  \A t \in Threads : call[t] # None =>
    /\ stage \in seen[t]
    /\ \A s \in call[t].from :
         seen[t] = {s} => \E i \in DOMAIN todo[t] : todo[t][i] = s

\* A call compares the current stage with stages it accepts only.
TriesAccepted ==
  \A t \in Threads : call[t] # None =>
    \A i \in DOMAIN todo[t] : todo[t][i] \in call[t].from

\* The inductive invariant that the refinement rests on.
IInv == TypeOK /\ ReasonToRefuse /\ TriesAccepted
==============================================================================
