------------------------------ MODULE BaseFrame ------------------------------
(***************************************************************************)
(* posnet::BaseFrame (base_frame.h), the base class of the frame builders. *)
(* A builder keeps its header in a member m_frame and gives the address of *)
(* that member to BaseFrame, which hands it out as the raw frame.  The     *)
(* implicit copy of a builder copies the header and the address: the raw   *)
(* frame of the copy is the header of the original, which may have been    *)
(* destroyed.  (There is no assignment: m_info is const.)                  *)
(***************************************************************************)
CONSTANTS
  Places,   \* where a builder can live
  Headers,  \* the headers that a dangling address may show
  None      \* no builder, no address

VARIABLES
  frame,    \* frame[p]: m_frame of the builder at p, None if there is none
  start     \* start[p]: m_start, the place whose header is p's raw frame

frameVars == <<frame, start>>

Alive(p) == frame[p] # None

\* p's raw frame is p's header: p was constructed as a builder, or is the copy
\* of a builder whose raw frame was at p.
ShowsItself(p) == Alive(p) /\ start[p] = p

FrameInit ==
  /\ frame = [p \in Places |-> None]
  /\ start = [p \in Places |-> None]

\* A builder's constructor: the header is zeroed.
ConstructFrame(p, zero) ==
  /\ ~Alive(p)
  /\ frame' = [frame EXCEPT ![p] = zero]
  /\ start' = [start EXCEPT ![p] = p]

\* The implicit copy constructor of a builder.
CopyFrame(p, q) ==
  /\ ~Alive(p) /\ Alive(q)
  /\ frame' = [frame EXCEPT ![p] = frame[q]]
  /\ start' = [start EXCEPT ![p] = start[q]]

DestroyFrame(p) ==
  /\ Alive(p)
  /\ frame' = [frame EXCEPT ![p] = None]
  /\ start' = [start EXCEPT ![p] = None]

\* What reading p's raw frame (getAsRawFrameView) may give.
RawFrames(p) == IF Alive(start[p]) THEN {frame[start[p]]} ELSE Headers
=============================================================================
