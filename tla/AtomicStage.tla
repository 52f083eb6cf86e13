----------------------------- MODULE AtomicStage -----------------------------
(***************************************************************************)
(* What StageController promises (include/utils/stage_controller.h, the    *)
(* class comment): a stage that calls move atomically.  A call names the   *)
(* stages it is willing to leave and the stage it wants; it either moves   *)
(* the stage in one step, and then knows the stage it has left, or refuses *)
(* and leaves the stage alone.  It may refuse only with a reason: the      *)
(* stage was one it did not want to leave, or another thread has changed   *)
(* the stage while the call was in progress.                               *)
(***************************************************************************)
CONSTANTS Threads, Stages, InitStage,
          None  \* no call, no answer

VARIABLES stage,  \* the current stage
          call,   \* call[t]: the call t is in, [from: stages it accepts, to]
          seen,   \* seen[t]: the stages there have been since t's call began
          answer  \* answer[t]: what t's last call returned

vars == <<stage, call, seen, answer>>

Moved(s) == [moved |-> TRUE, prev |-> s]
Refused == [moved |-> FALSE, prev |-> None]

Init ==
  /\ stage = InitStage
  /\ call = [t \in Threads |-> None]
  /\ seen = [t \in Threads |-> {}]
  /\ answer = [t \in Threads |-> None]

Begin(t, S, n) ==
  /\ call[t] = None
  /\ call' = [call EXCEPT ![t] = [from |-> S, to |-> n]]
  /\ seen' = [seen EXCEPT ![t] = {stage}]
  /\ answer' = [answer EXCEPT ![t] = None]
  /\ UNCHANGED stage

\* The stage becomes n: every other call in progress sees it.
Change(t, n) ==
  /\ stage' = n
  /\ seen' = [u \in Threads |-> IF u = t \/ call[u] = None THEN {}
                                                          ELSE seen[u] \union {n}]

Move(t) ==
  /\ call[t] # None
  /\ stage \in call[t].from
  /\ Change(t, call[t].to)
  /\ call' = [call EXCEPT ![t] = None]
  /\ answer' = [answer EXCEPT ![t] = Moved(stage)]

\* Not if the stage was one and the same acceptable one all the time.
MayRefuse(t) == \A s \in call[t].from : seen[t] # {s}

Refuse(t) ==
  /\ call[t] # None
  /\ MayRefuse(t)
  /\ call' = [call EXCEPT ![t] = None]
  /\ seen' = [seen EXCEPT ![t] = {}]
  /\ answer' = [answer EXCEPT ![t] = Refused]
  /\ UNCHANGED stage

Set(t, n) ==
  /\ call[t] = None
  /\ Change(t, n)
  /\ UNCHANGED <<call, answer>>

Next ==
  \E t \in Threads :
    \/ Move(t)
    \/ Refuse(t)
    \/ \E n \in Stages :
         \/ Set(t, n)
         \/ \E S \in SUBSET Stages : Begin(t, S, n)

Spec == Init /\ [][Next]_vars
==============================================================================
