----------------------------- MODULE LazyObject -----------------------------
(***************************************************************************)
(* posnet::utils::LazyConstructedObject<T> (include/utils/lazy.h): storage *)
(* for a T, constructed into it later by placement new, and a flag that    *)
(* stands for "there is no T in the storage".  The class is for one thread.*)
(*                                                                         *)
(* The lifetime of the T is what the flag has to follow and what C++ does  *)
(* not check, so held tracks it apart from m_isEmpty.                      *)
(***************************************************************************)
CONSTANTS
  Objects,  \* places where a LazyConstructedObject can live
  Values,   \* values of T
  None,     \* no T
  Wreck     \* a T made from storage in which no T lived

\* Calls that are legal C++ and that the class has trouble with.
RiskyUses == {"CopyConstruct",  \* Lazy a(b), b not empty
              "MoveConstruct",  \* Lazy a(std::move(b)), b not empty
              "AssignOver",     \* a = value or a.construct(...), a not empty
              "Throw"}          \* a constructor of T throws in an assignment

ASSUME LazyObjectAssumption ==
  /\ None \notin Values
  /\ Wreck \notin Values \union {None}

VARIABLES
  alive,     \* the objects that are constructed
  m_isEmpty, \* the flag of each object
  held,      \* the T whose lifetime has begun in m_buffer and not ended
  lost,      \* history: the objects that, since they were last constructed,
             \* have lost a T without destroying it
  risky      \* history: the risky uses each object took part in since then

vars == <<alive, m_isEmpty, held, lost, risky>>

TypeOK ==
  /\ alive \subseteq Objects
  /\ m_isEmpty \in [Objects -> BOOLEAN]
  /\ held \in [Objects -> Values \union {None, Wreck}]
  /\ lost \subseteq Objects
  /\ risky \in [Objects -> SUBSET RiskyUses]

Init ==
  /\ alive = {}
  /\ m_isEmpty = [o \in Objects |-> TRUE]
  /\ held = [o \in Objects |-> None]
  /\ lost = {}
  /\ risky = [o \in Objects |-> {}]

------------------------------------------------------------------------------
SetFlag(o, b) == m_isEmpty' = [m_isEmpty EXCEPT ![o] = b]

\* An object begins its lifetime at o, with the T v if v # None.
Begin(o, v) ==
  /\ o \notin alive
  /\ alive' = alive \union {o}
  /\ held' = [held EXCEPT ![o] = v]
  /\ lost' = lost \ {o}

\* Mutant of Content: get() without the *.
Pointer(p) == p

\* What *p.get() yields when p is not empty.
Content(p) == IF held[p] = None THEN Wreck ELSE held[p]

\* explicit LazyConstructedObject()
Construct(o) ==
  /\ Begin(o, None)
  /\ SetFlag(o, TRUE)
  /\ risky' = [risky EXCEPT ![o] = {}]

\* explicit LazyConstructedObject(value).  If T's constructor throws there is
\* no object, and no trace of the attempt.
ConstructValue(o, v) ==
  /\ Begin(o, v)
  /\ SetFlag(o, FALSE)
  /\ risky' = [risky EXCEPT ![o] = {}]

\* LazyConstructedObject(const LazyConstructedObject& p): the T is copied and
\* the flag stays as the initializer list has set it.
CopyConstruct(o, p) ==
  /\ p \in alive
  /\ SetFlag(o, TRUE)
  /\ \/ /\ m_isEmpty[p]
        /\ Begin(o, None)
        /\ risky' = [risky EXCEPT ![o] = {}]
     \/ /\ ~m_isEmpty[p]
        /\ Begin(o, Content(p))
        /\ risky' = [risky EXCEPT ![o] = {"CopyConstruct"}]

\* LazyConstructedObject(LazyConstructedObject&& p): likewise, and p is marked
\* empty; its T, of which into_value() has made a copy, is not destroyed.
MoveConstruct(o, p) ==
  /\ p \in alive
  /\ m_isEmpty' = [m_isEmpty EXCEPT ![o] = TRUE, ![p] = TRUE]
  /\ \/ /\ m_isEmpty[p]
        /\ Begin(o, None)
        /\ risky' = [risky EXCEPT ![o] = {}]
     \/ /\ ~m_isEmpty[p]
        /\ Begin(o, Content(p))
        /\ risky' = [risky EXCEPT ![o] = {"MoveConstruct"},
                                  ![p] = @ \union {"MoveConstruct"}]

\* ~LazyConstructedObject(): the T is destroyed if the flag says there is one.
Destroy(o) ==
  /\ o \in alive
  /\ alive' = alive \ {o}
  /\ SetFlag(o, TRUE)
  /\ held' = [held EXCEPT ![o] = None]
  /\ lost' = IF m_isEmpty[o] /\ held[o] # None THEN lost \union {o} ELSE lost
  /\ UNCHANGED risky

\* new(get()) T(...) when old lives in the storage of o: old is not destroyed.
\* The constructor makes v, or throws.
Place(o, old, v, uses) ==
  /\ lost' = IF old = None THEN lost ELSE lost \union {o}
  /\ \/ /\ held' = [held EXCEPT ![o] = v]
        /\ risky' = [risky EXCEPT ![o] = @ \union uses]
     \/ /\ held' = [held EXCEPT ![o] = None]
        /\ risky' = [risky EXCEPT ![o] = @ \union uses \union {"Throw"}]

\* operator=(value), construct(args...), operator()(args...): the flag is set
\* first, so a constructor that throws leaves it saying "not empty".
Assign(o, v) ==
  /\ o \in alive
  /\ SetFlag(o, FALSE)
  /\ Place(o, held[o], v, IF m_isEmpty[o] THEN {} ELSE {"AssignOver"})
  /\ UNCHANGED alive

\* Mutant of AssignFrom: no destruct() before the assignment.
AssignFromOver(o, p) ==
  /\ o \in alive /\ p \in alive
  /\ ~m_isEmpty[p]
  /\ SetFlag(o, FALSE)
  /\ Place(o, held[o], Content(p), {})
  /\ UNCHANGED alive

\* operator=(const Lazy& p) and operator=(Lazy&& p), which both copy: nothing
\* if p is empty; otherwise the T of o is destroyed and a copy of p's T, which
\* was o's own if p is o, is constructed in its place.  p keeps its T.
\* (operator=(Lazy&&) is noexcept: there a T that throws ends the program.)
AssignFrom(o, p) ==
  /\ o \in alive /\ p \in alive
  /\ ~m_isEmpty[p]
  /\ SetFlag(o, FALSE)
  /\ Place(o, IF m_isEmpty[o] THEN held[o] ELSE None,
              IF o = p THEN Wreck ELSE Content(p), {})
  /\ UNCHANGED alive

\* Mutants of Destruct: the T is not destroyed; the flag is not set.
ClearOnly(o) ==
  /\ o \in alive
  /\ ~m_isEmpty[o]
  /\ SetFlag(o, TRUE)
  /\ UNCHANGED <<alive, held, lost, risky>>

DestroyOnly(o) ==
  /\ o \in alive
  /\ ~m_isEmpty[o]
  /\ held' = [held EXCEPT ![o] = None]
  /\ UNCHANGED <<alive, m_isEmpty, lost, risky>>

\* destruct() and destructNoThrow(): on an empty object get() throws, or the
\* handler runs, and nothing changes.
Destruct(o) ==
  /\ o \in alive
  /\ ~m_isEmpty[o]
  /\ SetFlag(o, TRUE)
  /\ held' = [held EXCEPT ![o] = None]
  /\ UNCHANGED <<alive, lost, risky>>

Next ==
  \E o \in Objects :
    \/ Construct(o)
    \/ Destroy(o)
    \/ Destruct(o)
    \/ \E v \in Values : ConstructValue(o, v) \/ Assign(o, v)
    \/ \E p \in Objects : CopyConstruct(o, p) \/ MoveConstruct(o, p) \/ AssignFrom(o, p)

Spec == Init /\ [][Next]_vars

------------------------------------------------------------------------------
(* Properties                                                              *)

Truthful(o) == m_isEmpty[o] <=> held[o] = None
TookPart(o, uses) == \E u \in uses : u \in risky[o]

\* "flag to determine that this class was initialized" (line 76): m_isEmpty
\* says whether a T lives in the storage, if no constructor of T has thrown.
\* Were it true while a T lives, the destructor would leak that T; were it
\* false while none does, get() would hand out a T that does not exist.
FlagIsTruth == \A o \in Objects : "Throw" \in risky[o] \/ Truthful(o)

\* An object that says it is empty hides a T only if it was made from a
\* non-empty object or moved into one, whatever else the program does with it
\* and with the other objects.
HidesOnlyAfter ==
  \A o \in Objects :
    (m_isEmpty[o] /\ held[o] # None) => TookPart(o, {"CopyConstruct", "MoveConstruct"})

\* get() hands out a T that does not exist only after a constructor has thrown.
GetIsSafe ==
  \A o \in Objects : (~m_isEmpty[o] /\ held[o] = None) => "Throw" \in risky[o]

\* A T is overwritten or left behind in dead storage, its destructor never
\* run, only in an object that was copied or moved into, moved from, or
\* assigned a value while it had one.
LostOnlyAfter ==
  \A o \in lost :
    TookPart(o, {"CopyConstruct", "MoveConstruct", "AssignOver"})

\* A dead object has no T and is as a new one finds it.
DeadIsEmpty == \A o \in Objects \ alive : m_isEmpty[o] /\ held[o] = None

IInv == TypeOK /\ HidesOnlyAfter /\ GetIsSafe /\ LostOnlyAfter /\ DeadIsEmpty
==============================================================================
