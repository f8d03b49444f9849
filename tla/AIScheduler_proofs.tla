--------------------------- MODULE AIScheduler_proofs ---------------------------
(* The two halves of ai.cpp.  UpdateAIState: a call that resumes finds a level *)
(* that is due, and a round gives each object its turn, once, for any objects,  *)
(* levels and period.  MainLoop_USleep, at the end: the pace of the turns, for   *)
(* every length of a pause and every limit.                                   *)
EXTENDS AIScheduler, MainLoop, SequenceFacts, TLAPS

\* Between the rounds and the calls the index is in range, and a level that is
\* gone through is due.
LevelInv ==
  /\ last_ai_level_index \in Nat
  /\ phase \in {"idle", "requests", "events", "levels", "objects"}
  /\ phase \in {"idle", "requests", "events"} =>
       IF last_ai_update_object_id = NoObject THEN last_ai_level_index = 0
       ELSE last_ai_level_index <= Top /\ Due(last_ai_level_index)
  /\ phase = "objects" => last_ai_level_index <= Top /\ Due(last_ai_level_index)

USE SchedulerAssumption

\* LevelInv is what ResumesDueLevel needs in every phase.
LEMMA LevelInvSuffices == LevelInv => ResumesDueLevel
  BY SMT DEF LevelInv, ResumesDueLevel

\* No round has begun when the module is loaded.
LEMMA LevelInvInit == Init => LevelInv
  BY DEF Init, LevelInv

\* A step that keeps the phase, the level, the counter and the object to resume
\* from keeps LevelInv.
LEMMA LevelInvKept ==
  ASSUME LevelInv, UNCHANGED <<phase, round>>
  PROVE  LevelInv'
  BY DEF LevelInv, round, Due, Interval

\* Every step of UpdateAIState and of the scripts inside it keeps LevelInv.
LEMMA LevelInvStep == LevelInv /\ [Next]_vars => LevelInv'
<1> SUFFICES ASSUME LevelInv, [Next]_vars PROVE LevelInv'
  OBVIOUS
<1>1. CASE UNCHANGED vars
  BY <1>1, LevelInvKept DEF vars
<1>2. CASE ScriptStep
  <2>1. UNCHANGED <<phase, round>>
    BY <1>2 DEF ScriptStep, ScriptRemoveObjectFromAI, ScriptAddObjectToAI, StopDialog, AddEvent,
                round
  <2> QED BY <2>1, LevelInvKept
<1>3. CASE RunRequest \/ HandleEvent \/ \E o \in Objects : UpdateObject(o)
  <2>1. UNCHANGED <<phase, round>>
    BY <1>3 DEF RunRequest, HandleEvent, UpdateObject, round
  <2> QED BY <2>1, LevelInvKept
<1>4. CASE UpdateAIState \/ RequestsDone \/ EventsDone
  BY <1>4 DEF UpdateAIState, RequestsDone, EventsDone, LevelInv, round, Due, Interval
<1>5. CASE StartLevel
  BY <1>5 DEF StartLevel, LevelInv, round, Due, Interval
<1>6. CASE SkipLevel
  BY <1>6 DEF SkipLevel, LevelInv
<1>7. CASE LevelDone
  BY <1>7 DEF LevelDone, LevelInv
<1>8. CASE RoundDone
  BY <1>8 DEF RoundDone, LevelInv
<1>9. CASE \E o \in Objects : TimeOut(o)
  <2>1. PICK o \in Objects : TimeOut(o)
    BY <1>9
  <2>2. /\ phase = "objects" /\ phase' = "idle"
        /\ last_ai_update_object_id' # NoObject
        /\ UNCHANGED <<last_ai_level_index, update_counter>>
    BY <2>1 DEF TimeOut
  <2> QED BY <2>2 DEF LevelInv, Due, Interval
<1> QED
  BY <1>1, <1>2, <1>3, <1>4, <1>5, <1>6, <1>7, <1>8, <1>9 DEF Next, CallStep

\* UpdateAIState never indexes the AI lists past the last level when it resumes,
\* and resumes in a level that is due.
THEOREM ResumesDueLevelAlways == Spec => []ResumesDueLevel
<1>1. Init => LevelInv
  BY LevelInvInit
<1>2. LevelInv /\ [Next]_vars => LevelInv'
  BY LevelInvStep
<1>3. LevelInv => ResumesDueLevel
  BY LevelInvSuffices
<1> QED BY <1>1, <1>2, <1>3, PTL DEF Spec

-----------------------------------------------------------------------------
(* The lists                                                               *)

Lists == [Levels -> Seq(Objects)]

\* The lists keep every object once, in one level, while it exists.
ListsInv ==
  /\ alive \subseteq Objects /\ ai_objects \in Lists
  /\ \A level \in Levels : IsInjective(ai_objects[level]) /\ Listed(level) \subseteq alive
  /\ \A k, m \in Levels : k # m => Listed(k) \cap Listed(m) = {}


LEMMA WithoutOne ==
  ASSUME ListsInv, NEW o \in Objects
  PROVE  /\ Without(o) \in Lists
         /\ \A level \in Levels :
              /\ IsInjective(Without(o)[level])
              /\ ToSet(Without(o)[level]) = Listed(level) \ {o}
              /\ o \notin Listed(level) => Without(o)[level] = ai_objects[level]
<1>1. \A level \in Levels : ai_objects[level] \in Seq(Objects) /\ IsInjective(ai_objects[level])
  BY DEF ListsInv, Lists
<1>2. ASSUME NEW level \in Levels
      PROVE  /\ Without(o)[level] \in Seq(Objects)
             /\ IsInjective(Without(o)[level])
             /\ ToSet(Without(o)[level]) = Listed(level) \ {o}
             /\ o \notin Listed(level) => Without(o)[level] = ai_objects[level]
  <2> DEFINE list == ai_objects[level]
  <2>1. list \in Seq(Objects) /\ IsInjective(list)
    BY <1>1
  <2>2. Without(o)[level] = RemoveFirst(list, o)
    BY DEF Without
  <2> HIDE DEF list
  <2>3. /\ RemoveFirst(list, o) \in Seq(Objects)
        /\ IsInjective(RemoveFirst(list, o))
        /\ ToSet(RemoveFirst(list, o)) = ToSet(list) \ {o}
    BY <2>1, RemoveOne
  <2>4. o \notin ToSet(list) => RemoveFirst(list, o) = list
    BY <2>1, RemoveNone
  <2> QED BY <2>2, <2>3, <2>4 DEF list, Listed
<1>3. Without(o) \in Lists
  BY <1>2 DEF Without, Lists
<1> QED BY <1>2, <1>3

\* The list of one level, with an object put in at the end.
LEMMA WithOneMore ==
  ASSUME ListsInv, NEW o \in Objects, NEW level \in Levels,
         ai_objects' = [Without(o) EXCEPT ![level] = Append(@, o)]
  PROVE  /\ ai_objects' \in Lists
         /\ ai_objects'[level] = Append(Without(o)[level], o)
         /\ IsInjective(ai_objects'[level])
         /\ Listed(level)' = Listed(level) \cup {o}
         /\ \A m \in Levels \ {level} : ai_objects'[m] = Without(o)[m]
<1> DEFINE list == Without(o)[level]
           new == Append(list, o)
<1>1. /\ list \in Seq(Objects) /\ IsInjective(list)
      /\ ToSet(list) = Listed(level) \ {o} /\ Without(o) \in Lists
  BY WithoutOne DEF Lists
<1>2. ai_objects' = [Without(o) EXCEPT ![level] = new]
  OBVIOUS
<1> HIDE DEF list
<1>3. new \in Seq(Objects) /\ ToSet(new) = ToSet(list) \cup {o} /\ IsInjective(new)
  BY <1>1, PutBack
<1> HIDE DEF new
<1>4. ai_objects'[level] = new /\ ai_objects' \in Lists
      /\ \A m \in Levels \ {level} : ai_objects'[m] = Without(o)[m]
  BY <1>1, <1>2, <1>3 DEF Lists
<1> QED BY <1>1, <1>3, <1>4 DEF Listed, new, list

LEMMA RemoveLists ==
  ASSUME ListsInv, NEW o \in Objects, RemoveObjectFromAI(o),
         alive' = alive \/ alive' = alive \ {o}
  PROVE  ListsInv'
<1>1. ai_objects' = Without(o)
  BY DEF RemoveObjectFromAI
<1>2. \A level \in Levels : IsInjective(ai_objects'[level]) /\ Listed(level)' = Listed(level) \ {o}
  BY <1>1, WithoutOne DEF Listed
<1>3. ai_objects' \in Lists
  BY <1>1, WithoutOne
<1> QED BY <1>2, <1>3 DEF ListsInv

LEMMA AddLists ==
  ASSUME ListsInv, NEW o \in alive, NEW level \in Levels, AddObjectToAI(o, level),
         o \in Objects, alive' = alive
  PROVE  ListsInv'
<1>1. ai_objects' = [Without(o) EXCEPT ![level] = Append(@, o)]
  BY DEF AddObjectToAI
<1>2. /\ ai_objects' \in Lists /\ IsInjective(ai_objects'[level])
      /\ Listed(level)' = Listed(level) \cup {o}
      /\ \A m \in Levels \ {level} : ai_objects'[m] = Without(o)[m]
  BY <1>1, WithOneMore
<1>3. \A m \in Levels \ {level} :
        IsInjective(ai_objects'[m]) /\ Listed(m)' = Listed(m) \ {o}
  BY <1>2, WithoutOne DEF Listed
<1> QED BY <1>2, <1>3 DEF ListsInv

LEMMA InitLists == Init => ListsInv
<1> SUFFICES ASSUME Init PROVE ListsInv
  OBVIOUS
<1>1. \A level \in Levels : ai_objects[level] = <<>>
  BY DEF Init
<1>2. ai_objects \in Lists
  <2>1. <<>> \in Seq(Objects)
    OBVIOUS
  <2> QED BY <2>1 DEF Init, Lists
<1>3. IsInjective(<<>>) /\ ToSet(<<>>) = {}
  BY DEF IsInjective, ToSet
<1>4. alive \subseteq Objects
  BY DEF Init
<1> QED BY <1>1, <1>2, <1>3, <1>4 DEF ListsInv, Listed

\* The calls that take an object out of a list or put it into one.
ListsChange(o) ==
  \/ RemoveObjectFromAI(o) /\ alive' \in {alive, alive \ {o}}
  \/ o \in alive /\ alive' = alive /\ \E level \in Levels : AddObjectToAI(o, level)

LEMMA ChangedLists ==
  ASSUME ListsInv, NEW o \in Objects, ListsChange(o)
  PROVE  ListsInv'
BY RemoveLists, AddLists DEF ListsChange

\* A step of a script or of a call changes the lists in this way or not at all.
LEMMA ListsSteps ==
  ASSUME [Next]_vars, alive \subseteq Objects
  PROVE  \/ UNCHANGED lists
         \/ \E o \in Objects :
              /\ ListsChange(o)
              /\ UNCHANGED <<round, phase, next, end, times>>
<1>1. ASSUME NEW o \in Objects, ScriptRemoveObjectFromAI(o)
      PROVE  ListsChange(o) /\ UNCHANGED <<round, phase, next, end, times>>
  BY <1>1 DEF ScriptRemoveObjectFromAI, ListsChange
<1>2. ASSUME NEW o \in Objects, NEW level \in Levels, ScriptAddObjectToAI(o, level)
      PROVE  ListsChange(o) /\ UNCHANGED <<round, phase, next, end, times>>
  BY <1>2 DEF ScriptAddObjectToAI, ListsChange
<1>3. CASE HandleEvent
  <2> DEFINE e == Head(due_events)
  <2>1. CASE e.object \in alive /\ e.kind = "destroy"
    <3>1. /\ RemoveObjectFromAI(e.object) /\ alive' = alive \ {e.object}
          /\ UNCHANGED <<round, phase, next, end, times>>
      BY <1>3, <2>1 DEF HandleEvent
    <3> QED BY <2>1, <3>1 DEF ListsChange
  <2>2. CASE ~(e.object \in alive /\ e.kind = "destroy")
    BY <1>3, <2>2 DEF HandleEvent
  <2> QED BY <2>1, <2>2
<1>4. CASE \/ UNCHANGED vars
           \/ \E o \in Objects : StopDialog(o) \/ \E kind \in Kinds : AddEvent(kind, o)
           \/ UpdateAIState \/ RunRequest \/ RequestsDone \/ EventsDone
           \/ StartLevel \/ SkipLevel \/ LevelDone \/ RoundDone
           \/ \E o \in Objects : UpdateObject(o) \/ TimeOut(o)
  BY <1>4 DEF vars, StopDialog, AddEvent, UpdateAIState, RunRequest, RequestsDone, EventsDone,
     StartLevel, SkipLevel, LevelDone, RoundDone, UpdateObject, TimeOut
<1> QED BY <1>1, <1>2, <1>3, <1>4 DEF Next, ScriptStep, CallStep

LEMMA NextLists == ListsInv /\ [Next]_vars => ListsInv'
<1> SUFFICES ASSUME ListsInv, [Next]_vars PROVE ListsInv'
  OBVIOUS
<1>1. CASE UNCHANGED lists
  BY <1>1 DEF lists, ListsInv, Listed
<1>2. CASE \E o \in Objects : ListsChange(o)
  BY <1>2, ChangedLists
<1> QED BY <1>1, <1>2, ListsSteps DEF ListsInv

-----------------------------------------------------------------------------
(* The types                                                               *)

RoundInv ==
  /\ update_counter \in 0..(Period - 1)
  /\ last_ai_level_index \in 0..(Top + 1)
  /\ last_ai_update_object_id \in Objects \cup {NoObject}

\* The loop's range, and the requests it goes through.
CursorInv ==
  /\ pending_x_events \in Seq(Objects)
  /\ next \in Nat \ {0} /\ end \in Nat
  /\ phase = "requests" => next <= end /\ end <= Len(pending_x_events) + 1
  /\ phase = "objects" => next <= end

QueueInv ==
  /\ due_events \in Seq([kind : Kinds, object : Objects])
  /\ stopped \in Objects \cup {NoObject}

FlagsInv == moved \in BOOLEAN /\ scripting \in BOOLEAN /\ requeued \in BOOLEAN

HistoryInv == times \in [Objects -> 0..2] /\ calm \subseteq Levels /\ steady \subseteq Objects

LEMMA TypeParts ==
  TypeOK <=> /\ alive \subseteq Objects /\ ai_objects \in Lists
             /\ phase \in {"idle", "requests", "events", "levels", "objects"}
             /\ next \in Nat /\ end \in Nat /\ pending_x_events \in Seq(Objects)
             /\ RoundInv /\ QueueInv /\ FlagsInv /\ HistoryInv
BY DEF TypeOK, Lists, RoundInv, QueueInv, FlagsInv, HistoryInv

LEMMA Remainder == \A x \in Nat : x % Period \in 0..(Period - 1)
BY SMT

LEMMA NextRound == RoundInv /\ LevelInv /\ ListsInv /\ CursorInv /\ [Next]_vars => RoundInv'
<1> SUFFICES ASSUME RoundInv, LevelInv, ListsInv, CursorInv, [Next]_vars PROVE RoundInv'
  OBVIOUS
<1>1. ASSUME UNCHANGED round
      PROVE  RoundInv'
  BY <1>1 DEF RoundInv, round
<1>2. CASE \/ UNCHANGED vars \/ ScriptStep
           \/ UpdateAIState \/ RunRequest \/ RequestsDone \/ HandleEvent \/ EventsDone
           \/ StartLevel \/ \E o \in Objects : UpdateObject(o)
  <2>1. UNCHANGED round
    BY <1>2 DEF vars, ScriptStep, ScriptRemoveObjectFromAI, ScriptAddObjectToAI, StopDialog,
       AddEvent, UpdateAIState, RunRequest, RequestsDone, HandleEvent, EventsDone, StartLevel,
       UpdateObject
  <2> QED BY <1>1, <2>1
<1>3. CASE SkipLevel
  BY <1>3 DEF SkipLevel, RoundInv
<1>4. CASE LevelDone
  BY <1>4 DEF LevelDone, RoundInv, LevelInv
<1>5. CASE RoundDone
  <2>1. (update_counter + 1) % Period \in 0..(Period - 1)
    BY Remainder DEF RoundInv
  <2> QED BY <1>5, <2>1 DEF RoundDone, RoundInv
<1>6. CASE \E o \in Objects : TimeOut(o)
  BY <1>6 DEF TimeOut, RoundInv
<1> QED BY <1>2, <1>3, <1>4, <1>5, <1>6 DEF Next, CallStep

\* A search finds a place in the list.
LEMMA PlaceRange ==
  ASSUME NEW list \in Seq(Objects), NEW o
  PROVE  /\ Place(list, o) \in 0..Len(list)
         /\ Place(list, o) # 0 => list[Place(list, o)] = o
<1> DEFINE I == {i \in 1..Len(list) : list[i] = o}
<1>1. Place(list, o) = IF I # {} THEN Min(I) ELSE 0
  BY DEF Place, SelectInSeq
<1>2. I \subseteq Nat /\ I \subseteq 1..Len(list) /\ Len(list) \in Nat
  OBVIOUS
<1> HIDE DEF I
<1>3. CASE I # {}
  <2>1. Min(I) \in I
    BY <1>2, <1>3, LeastIsIn
  <2>2. Place(list, o) \in 1..Len(list)
    BY <1>1, <1>2, <1>3, <2>1
  <2>3. list[Place(list, o)] = o
    BY <1>1, <1>3, <2>1 DEF I
  <2> QED BY <1>2, <2>2, <2>3
<1>4. CASE I = {}
  BY <1>1, <1>2, <1>4
<1> QED BY <1>3, <1>4

\* Where a call goes on.
LEMMA Resumes ==
  ASSUME EventsDone, last_ai_update_object_id # NoObject
  PROVE  LET list == ai_objects[last_ai_level_index]
             found == Place(list, last_ai_update_object_id)
         IN /\ next' = IF found = 0 THEN 1 ELSE found
            /\ end' = Len(list) + 1 /\ phase' = "objects"
BY DEF EventsDone, Resume, Place

LEMMA NextCursor == CursorInv /\ LevelInv /\ ListsInv /\ [Next]_vars => CursorInv'
<1> SUFFICES ASSUME CursorInv, LevelInv, ListsInv, [Next]_vars PROVE CursorInv'
  OBVIOUS
<1>1. CASE \/ UNCHANGED vars \/ HandleEvent \/ SkipLevel
           \/ \E o \in Objects : \/ ScriptRemoveObjectFromAI(o)
                                 \/ \E level \in Levels : ScriptAddObjectToAI(o, level)
                                 \/ \E kind \in Kinds : AddEvent(kind, o)
  <2>1. UNCHANGED <<pending_x_events, phase, next, end>>
    BY <1>1 DEF vars, cursor, HandleEvent, SkipLevel, ScriptRemoveObjectFromAI,
       ScriptAddObjectToAI, AddEvent
  <2> QED BY <2>1 DEF CursorInv
<1>2. ASSUME NEW o \in Objects, StopDialog(o)
      PROVE  CursorInv'
  BY <1>2 DEF StopDialog, CursorInv
<1>3. CASE UpdateAIState
  BY <1>3 DEF UpdateAIState, CursorInv
<1>4. CASE RunRequest
  BY <1>4 DEF RunRequest, CursorInv
<1>5. CASE RequestsDone
  <2>1. <<>> \in Seq(Objects)
    OBVIOUS
  <2> QED BY <1>5, <2>1 DEF RequestsDone, LeaveLoop, CursorInv
<1>6. CASE EventsDone
  <2>1. UNCHANGED pending_x_events
    BY <1>6 DEF EventsDone
  <2>2. CASE last_ai_update_object_id # NoObject
    <3> DEFINE list == ai_objects[last_ai_level_index]
               found == Place(list, last_ai_update_object_id)
    <3>1. list \in Seq(Objects)
      BY <1>6, <2>2 DEF EventsDone, LevelInv, ListsInv, Lists, Levels
    <3>2. /\ next' = IF found = 0 THEN 1 ELSE found
          /\ end' = Len(list) + 1 /\ phase' = "objects"
      BY <1>6, <2>2, Resumes
    <3>3. found \in 0..Len(list) /\ Len(list) \in Nat
      BY <3>1, PlaceRange
    <3> HIDE DEF list, found
    <3> QED BY <2>1, <3>2, <3>3 DEF CursorInv
  <2>3. CASE last_ai_update_object_id = NoObject
    BY <1>6, <2>3 DEF EventsDone, CursorInv
  <2> QED BY <2>2, <2>3
<1>7. CASE StartLevel
  <2> DEFINE list == ai_objects[last_ai_level_index]
  <2>1. list \in Seq(Objects)
    BY <1>7 DEF StartLevel, LevelInv, ListsInv, Lists, Levels
  <2>2. next' = 1 /\ end' = Len(list) + 1 /\ phase' = "objects" /\ UNCHANGED pending_x_events
    BY <1>7 DEF StartLevel
  <2>3. Len(list) \in Nat
    BY <2>1
  <2> HIDE DEF list
  <2> QED BY <2>2, <2>3 DEF CursorInv
<1>8. CASE LevelDone \/ \E o \in Objects : TimeOut(o)
  <2>1. LeaveLoop /\ phase' \in {"idle", "levels"} /\ UNCHANGED pending_x_events
    BY <1>8 DEF LevelDone, TimeOut
  <2> QED BY <2>1 DEF LeaveLoop, CursorInv
<1>9. CASE RoundDone
  BY <1>9 DEF RoundDone, cursor, CursorInv
<1>10. CASE \E o \in Objects : UpdateObject(o)
  BY <1>10 DEF UpdateObject, CursorInv
<1> QED BY <1>1, <1>2, <1>3, <1>4, <1>5, <1>6, <1>7, <1>8, <1>9, <1>10 DEF Next, CallStep, ScriptStep

LEMMA NextQueue == QueueInv /\ CursorInv /\ [Next]_vars => QueueInv'
<1> SUFFICES ASSUME QueueInv, CursorInv, [Next]_vars PROVE QueueInv'
  OBVIOUS
<1>1. ASSUME UNCHANGED due_events, stopped' \in {stopped, NoObject}
      PROVE  QueueInv'
  BY <1>1 DEF QueueInv
<1>2. CASE \/ UNCHANGED vars \/ UpdateAIState \/ RequestsDone \/ EventsDone
           \/ StartLevel \/ SkipLevel \/ LevelDone \/ RoundDone
           \/ \E o \in Objects : \/ ScriptRemoveObjectFromAI(o) \/ StopDialog(o)
                                 \/ \E level \in Levels : ScriptAddObjectToAI(o, level)
                                 \/ UpdateObject(o) \/ TimeOut(o)
  <2>1. UNCHANGED due_events /\ stopped' \in {stopped, NoObject}
    BY <1>2 DEF vars, UpdateAIState, RequestsDone, EventsDone, StartLevel, SkipLevel, LevelDone,
       RoundDone, ScriptRemoveObjectFromAI, StopDialog, ScriptAddObjectToAI, UpdateObject, TimeOut
  <2> QED BY <1>1, <2>1
<1>3. ASSUME NEW o \in Objects, NEW kind \in Kinds, AddEvent(kind, o)
      PROVE  QueueInv'
  <2>1. Event(kind, o) \in [kind : Kinds, object : Objects]
    BY DEF Event
  <2>2. due_events' = Append(due_events, Event(kind, o)) /\ UNCHANGED stopped
    BY <1>3 DEF AddEvent
  <2> QED BY <2>1, <2>2 DEF QueueInv
<1>4. CASE RunRequest
  <2>1. next \in 1..Len(pending_x_events)
    BY <1>4 DEF RunRequest, CursorInv
  <2>2. pending_x_events[next] \in Objects
    BY <2>1 DEF CursorInv
  <2> QED BY <1>4, <2>2 DEF RunRequest, QueueInv
<1>5. CASE HandleEvent
  <2>1. due_events # <<>> /\ due_events' = Tail(due_events) /\ UNCHANGED stopped
    BY <1>5 DEF HandleEvent
  <2> QED BY <2>1 DEF QueueInv
<1> QED BY <1>2, <1>3, <1>4, <1>5 DEF Next, CallStep, ScriptStep

LEMMA NextFlags == FlagsInv /\ [Next]_vars => FlagsInv'
<1> SUFFICES ASSUME FlagsInv, [Next]_vars PROVE FlagsInv'
  OBVIOUS
<1>1. ASSUME NEW o, RemoveObjectFromAI(o), scripting' \in BOOLEAN
      PROVE  FlagsInv'
  BY <1>1 DEF RemoveObjectFromAI, FlagsInv
<1>2. ASSUME NEW o \in Objects, ScriptRemoveObjectFromAI(o)
      PROVE  FlagsInv'
  BY <1>1, <1>2 DEF ScriptRemoveObjectFromAI, FlagsInv
<1>3. ASSUME NEW o \in Objects, NEW level \in Levels, ScriptAddObjectToAI(o, level)
      PROVE  FlagsInv'
  <2>1. AddObjectToAI(o, level) /\ scripting' = scripting
    BY <1>3 DEF ScriptAddObjectToAI
  <2>2. moved' \in BOOLEAN
    BY <2>1 DEF AddObjectToAI
  <2>3. requeued' \in BOOLEAN
    BY <2>1 DEF AddObjectToAI
  <2> QED BY <2>1, <2>2, <2>3 DEF FlagsInv
<1>4. ASSUME NEW o \in Objects, StopDialog(o)
      PROVE  FlagsInv'
  <2>1. moved' \in BOOLEAN
    BY <1>4 DEF StopDialog
  <2> QED BY <1>4, <2>1 DEF StopDialog, history, FlagsInv
<1>5. CASE HandleEvent
  <2>1. scripting' \in BOOLEAN
    BY <1>5 DEF HandleEvent
  <2>2. CASE UNCHANGED <<moved, requeued>>
    BY <2>1, <2>2 DEF FlagsInv
  <2>3. CASE RemoveObjectFromAI(Head(due_events).object)
    BY <1>1, <2>1, <2>3
  <2> QED BY <1>5, <2>2, <2>3 DEF HandleEvent
<1>6. ASSUME NEW o \in Objects, UpdateObject(o)
      PROVE  FlagsInv'
  BY <1>6 DEF UpdateObject, FlagsInv
<1>7. CASE RoundDone
  BY <1>7 DEF RoundDone, NewRound, cursor, FlagsInv
<1>8. CASE \/ UNCHANGED vars \/ UpdateAIState \/ RunRequest \/ RequestsDone \/ EventsDone
           \/ StartLevel \/ SkipLevel \/ LevelDone
           \/ \E o \in Objects : TimeOut(o) \/ \E kind \in Kinds : AddEvent(kind, o)
  <2>1. /\ moved' = moved \/ moved' = FALSE
        /\ scripting' = scripting \/ scripting' \in BOOLEAN
        /\ requeued' = requeued
    BY <1>8 DEF vars, cursor, history, UpdateAIState, RunRequest, RequestsDone, EventsDone,
       StartLevel, SkipLevel, LevelDone, TimeOut, LeaveLoop, AddEvent
  <2> QED BY <2>1 DEF FlagsInv
<1> QED BY <1>2, <1>3, <1>4, <1>5, <1>6, <1>7, <1>8 DEF Next, CallStep, ScriptStep

LEMMA NextHistory == HistoryInv /\ ListsInv /\ [Next]_vars => HistoryInv'
<1> SUFFICES ASSUME HistoryInv, ListsInv, [Next]_vars PROVE HistoryInv'
  OBVIOUS
<1>1. CASE UNCHANGED <<times, calm, steady>>
  BY <1>1 DEF HistoryInv
<1>2. ASSUME NEW o \in Objects, ListsChange(o), UNCHANGED times
      PROVE  HistoryInv'
  <2>1. calm' \subseteq calm /\ steady' \subseteq steady
    BY <1>2 DEF ListsChange, RemoveObjectFromAI, AddObjectToAI, Disturb
  <2> QED BY <1>2, <2>1 DEF HistoryInv
<1>3. ASSUME NEW o \in Objects, UpdateObject(o)
      PROVE  HistoryInv'
  <2>1. /\ times' = IF o \in alive /\ times[o] < 2 THEN [times EXCEPT ![o] = @ + 1] ELSE times
        /\ calm' \subseteq Levels /\ UNCHANGED steady
    BY <1>3 DEF UpdateObject, HistoryInv
  <2>2. times' \in [Objects -> 0..2]
    BY <2>1 DEF HistoryInv
  <2> QED BY <2>1, <2>2 DEF HistoryInv
<1>4. CASE RoundDone
  <2>1. NewRound(ai_objects)
    BY <1>4 DEF RoundDone
  <2>2. \A level \in Levels : ToSet(ai_objects[level]) \subseteq Objects
    BY DEF ListsInv, Listed
  <2> QED BY <2>1, <2>2 DEF NewRound, HistoryInv
<1>5. CASE UNCHANGED vars \/ ScriptStep \/ UpdateAIState \/ RunRequest \/ RequestsDone
           \/ HandleEvent \/ EventsDone \/ StartLevel \/ SkipLevel \/ LevelDone
           \/ \E o \in Objects : TimeOut(o)
  <2>1. \/ UNCHANGED <<times, calm, steady>>
        \/ \E o \in Objects : ListsChange(o) /\ UNCHANGED times
    <3>1. \/ UNCHANGED <<times, calm, steady>>
          \/ \E o \in Objects : ScriptRemoveObjectFromAI(o)
          \/ \E o \in Objects, level \in Levels : ScriptAddObjectToAI(o, level)
          \/ HandleEvent
      BY <1>5 DEF vars, history, ScriptStep, StopDialog, AddEvent, UpdateAIState, RunRequest,
         RequestsDone, EventsDone, StartLevel, SkipLevel, LevelDone, TimeOut
    <3>2. \A o \in Objects : ScriptRemoveObjectFromAI(o) => ListsChange(o) /\ UNCHANGED times
      BY DEF ScriptRemoveObjectFromAI, ListsChange
    <3>3. \A o \in Objects, level \in Levels :
            ScriptAddObjectToAI(o, level) => ListsChange(o) /\ UNCHANGED times
      BY DEF ScriptAddObjectToAI, ListsChange
    <3>4. ASSUME HandleEvent
          PROVE  \/ UNCHANGED <<times, calm, steady>>
                 \/ \E o \in Objects : ListsChange(o) /\ UNCHANGED times
      <4> DEFINE e == Head(due_events)
      <4>1. CASE e.object \in alive /\ e.kind = "destroy"
        <5>1. /\ RemoveObjectFromAI(e.object) /\ alive' = alive \ {e.object} /\ UNCHANGED times
          BY <3>4, <4>1 DEF HandleEvent
        <5> QED BY <4>1, <5>1 DEF ListsChange, ListsInv
      <4>2. CASE ~(e.object \in alive /\ e.kind = "destroy")
        BY <3>4, <4>2 DEF HandleEvent
      <4> QED BY <4>1, <4>2
    <3> QED BY <3>1, <3>2, <3>3, <3>4
  <2> QED BY <1>1, <1>2, <2>1
<1> QED BY <1>3, <1>4, <1>5 DEF Next, CallStep

TypeInv == ListsInv /\ LevelInv /\ RoundInv /\ CursorInv /\ QueueInv /\ FlagsInv /\ HistoryInv

LEMMA InitTypes == Init => TypeInv
<1> SUFFICES ASSUME Init PROVE TypeInv
  OBVIOUS
<1>1. <<>> \in Seq(Objects) /\ pending_x_events = <<>>
  BY DEF Init
<1>2. <<>> \in Seq([kind : Kinds, object : Objects]) /\ due_events = <<>>
  BY DEF Init
<1>3. RoundInv
  BY DEF Init, RoundInv
<1>4. CursorInv
  BY <1>1 DEF Init, CursorInv
<1>5. QueueInv
  BY <1>2 DEF Init, QueueInv
<1>6. FlagsInv
  BY DEF Init, FlagsInv
<1>7. HistoryInv
  <2>1. times = [o \in Objects |-> 0] /\ calm = Levels /\ steady = {}
    BY DEF Init
  <2> QED BY <2>1 DEF HistoryInv
<1> QED BY <1>3, <1>4, <1>5, <1>6, <1>7, InitLists, LevelInvInit DEF TypeInv

LEMMA NextTypes == TypeInv /\ [Next]_vars => TypeInv'
BY NextLists, LevelInvStep, NextRound, NextCursor, NextQueue, NextFlags, NextHistory DEF TypeInv

\* Every variable keeps its type, for any objects, levels and period: the level
\* index stays in range, and no request is read past the end of the vector.
THEOREM TypeCorrect == Spec => []TypeOK
<1>1. TypeInv => TypeOK
  BY TypeParts DEF TypeInv, ListsInv, LevelInv, CursorInv
<1> QED BY <1>1, InitTypes, NextTypes, PTL DEF Spec

-----------------------------------------------------------------------------
(* A list that does not change                                             *)

Quiet == {"idle", "requests", "events"}

\* How many objects of a level were updated in this round.
Passed(level) ==
  IF level < last_ai_level_index THEN (IF Due(level) THEN Len(ai_objects[level]) ELSE 0)
  ELSE IF level > last_ai_level_index \/ phase = "levels" THEN 0
  ELSE IF phase = "objects" THEN next - 1
  ELSE IF last_ai_update_object_id = NoObject THEN 0
  ELSE Place(ai_objects[level], last_ai_update_object_id) - 1

\* A list that did not change is gone through in order: where the call was cut
\* off, what comes before was updated, and what comes after was not.
CalmInv ==
  /\ \A level \in calm : \A i \in DOMAIN ai_objects[level] :
       times[ai_objects[level][i]] = IF i <= Passed(level) THEN 1 ELSE 0
  /\ last_ai_level_index \in calm =>
       /\ phase = "objects" => ~moved /\ end = Len(ai_objects[last_ai_level_index]) + 1
       /\ phase \in Quiet /\ last_ai_update_object_id # NoObject =>
            last_ai_update_object_id \in Listed(last_ai_level_index)

LEMMA DueKept ==
  ASSUME update_counter' = update_counter, NEW level \in Levels
  PROVE  Due(level)' <=> Due(level)
BY DEF Due, Interval

\* A level ahead of the one the round is at, or behind it, stays as it is.
LEMMA PassedElsewhere ==
  ASSUME NEW level \in Levels, level # last_ai_level_index, last_ai_level_index \in Nat,
         ai_objects'[level] = ai_objects[level],
         UNCHANGED <<last_ai_level_index, update_counter>>
  PROVE  Passed(level)' = Passed(level)
<1>1. Due(level)' <=> Due(level)
  BY DueKept
<1>2. level < last_ai_level_index \/ level > last_ai_level_index
  BY DEF Levels
<1> QED BY <1>1, <1>2 DEF Passed, Levels

LEMMA InitCalm == Init => CalmInv
<1> SUFFICES ASSUME Init PROVE CalmInv
  OBVIOUS
<1>1. \A level \in Levels : ai_objects[level] = <<>>
  BY DEF Init
<1>2. \A level \in calm : DOMAIN ai_objects[level] = {}
  BY <1>1 DEF Init
<1>3. phase = "idle" /\ last_ai_update_object_id = NoObject
  BY DEF Init
<1> QED BY <1>2, <1>3 DEF CalmInv

\* Whatever scripts do to the other lists.
LEMMA CalmKept ==
  ASSUME CalmInv, HistoryInv, calm' \subseteq calm,
         \A level \in calm' : ai_objects'[level] = ai_objects[level],
         UNCHANGED <<round, phase, next, end, times>>,
         last_ai_level_index \in calm' /\ phase = "objects" => (moved' => moved)
  PROVE  CalmInv'
<1>1. UNCHANGED <<update_counter, last_ai_level_index, last_ai_update_object_id>>
  BY DEF round
<1>2. ASSUME NEW level \in calm'
      PROVE  Passed(level)' = Passed(level)
  <2>1. level \in Levels /\ ai_objects'[level] = ai_objects[level]
    BY DEF HistoryInv
  <2> QED BY <1>1, <2>1, DueKept DEF Passed
<1>3. \A level \in calm' : \A i \in DOMAIN ai_objects'[level] :
        times'[ai_objects'[level][i]] = IF i <= Passed(level)' THEN 1 ELSE 0
  BY <1>2 DEF CalmInv
<1>4. last_ai_level_index' \in calm' =>
       /\ phase' = "objects" => ~moved' /\ end' = Len(ai_objects'[last_ai_level_index']) + 1
       /\ phase' \in Quiet /\ last_ai_update_object_id' # NoObject =>
            last_ai_update_object_id' \in Listed(last_ai_level_index)'
  BY <1>1 DEF CalmInv, Listed
<1> QED BY <1>3, <1>4 DEF CalmInv

\* What a change of the lists leaves of the calm ones.
LEMMA CalmLists ==
  ASSUME ListsInv, HistoryInv, NEW o \in Objects, ListsChange(o)
  PROVE  /\ calm' \subseteq calm
         /\ \A level \in calm' : /\ ai_objects'[level] = ai_objects[level]
                                 /\ level \in InLoop => (moved' => moved)
<1>1. CASE RemoveObjectFromAI(o)
  <2>1. /\ ai_objects' = Without(o) /\ moved' = moved
        /\ calm' = calm \ LevelsOf(o)
    BY <1>1 DEF RemoveObjectFromAI, Disturb
  <2>2. \A level \in calm' : level \in Levels /\ o \notin Listed(level)
    BY <2>1 DEF LevelsOf, HistoryInv
  <2> QED BY <2>1, <2>2, WithoutOne
<1>2. ASSUME NEW m \in Levels, AddObjectToAI(o, m)
      PROVE  /\ calm' \subseteq calm
             /\ \A level \in calm' : /\ ai_objects'[level] = ai_objects[level]
                                     /\ level \in InLoop => (moved' => moved)
  <2>1. PICK full \in BOOLEAN : moved' = (moved \/ (full /\ m \in InLoop))
                                /\ calm' = calm \ (LevelsOf(o) \cup {m})
    BY <1>2 DEF AddObjectToAI, Disturb
  <2>2. ai_objects' = [Without(o) EXCEPT ![m] = Append(@, o)]
    BY <1>2 DEF AddObjectToAI
  <2>3. \A level \in calm' : level \in Levels /\ level # m /\ o \notin Listed(level)
    BY <2>1 DEF LevelsOf, HistoryInv
  <2>4. \A level \in calm' : ai_objects'[level] = ai_objects[level]
    BY <2>2, <2>3, WithOneMore, WithoutOne
  <2>5. \A level \in calm' : level \in InLoop => m \notin InLoop
    BY <2>3 DEF InLoop
  <2>6. \A level \in calm' : level \in InLoop => (moved' => moved)
    BY <2>1, <2>5
  <2> QED BY <2>1, <2>4, <2>6
<1> QED BY <1>1, <1>2 DEF ListsChange

\* Between the levels nothing is passed.
LEMMA CalmQuiet ==
  ASSUME CalmInv, HistoryInv, UNCHANGED <<lists, round, times, calm>>,
         phase \in Quiet, phase' \in Quiet
  PROVE  CalmInv'
<1>1. UNCHANGED <<ai_objects, update_counter, last_ai_level_index, last_ai_update_object_id>>
  BY DEF round, lists
<1>2. \A level \in calm : Passed(level)' = Passed(level)
  <2> SUFFICES ASSUME NEW level \in calm
               PROVE  Passed(level)' = Passed(level)
    OBVIOUS
  <2>1. level \in Levels
    BY DEF HistoryInv
  <2>2. phase \notin {"levels", "objects"} /\ phase' \notin {"levels", "objects"}
    BY DEF Quiet
  <2> QED BY <1>1, <2>1, <2>2, DueKept DEF Passed
<1>3. \A level \in calm' : \A i \in DOMAIN ai_objects'[level] :
        times'[ai_objects'[level][i]] = IF i <= Passed(level)' THEN 1 ELSE 0
  BY <1>1, <1>2 DEF CalmInv
<1>4. phase' # "objects"
  BY DEF Quiet
<1> QED BY <1>1, <1>3, <1>4 DEF CalmInv, Listed

LEMMA EventsDoneCalm ==
  ASSUME CalmInv, TypeInv, EventsDone
  PROVE  CalmInv'
<1> DEFINE idx == last_ai_level_index
           list == ai_objects[idx]
<1>1. /\ phase = "events" /\ moved' = FALSE
      /\ UNCHANGED <<ai_objects, update_counter, last_ai_level_index,
                     last_ai_update_object_id, times, calm>>
  BY DEF EventsDone, lists, round, history
<1>2. CASE last_ai_update_object_id # NoObject
  <2>1. idx \in Levels /\ list \in Seq(Objects) /\ IsInjective(list)
    BY <1>1, <1>2 DEF TypeInv, LevelInv, ListsInv, Lists, Levels
  <2>2. /\ next' = IF Place(list, last_ai_update_object_id) = 0 THEN 1
                   ELSE Place(list, last_ai_update_object_id)
        /\ end' = Len(list) + 1 /\ phase' = "objects"
    BY <1>2, Resumes
  <2>3. ASSUME idx \in calm
        PROVE  Passed(idx)' = Passed(idx)
    <3>1. last_ai_update_object_id \in ToSet(list)
      BY <1>1, <1>2, <2>3 DEF CalmInv, Quiet, Listed
    <3>2. PICK k \in 1..Len(list) : list[k] = last_ai_update_object_id
      BY <2>1, <3>1 DEF ToSet
    <3>3. Place(list, last_ai_update_object_id) = k
      BY <2>1, <3>2, PlaceFound
    <3>4. next' = k
      BY <2>2, <3>3
    <3>5. Passed(idx) = k - 1
      BY <1>1, <1>2, <2>1, <3>3 DEF Passed, Levels
    <3>6. Passed(idx)' = k - 1
      BY <1>1, <2>1, <2>2, <3>4 DEF Passed, Levels
    <3> QED BY <3>5, <3>6
  <2>4. \A level \in calm : Passed(level)' = Passed(level)
    BY <1>1, <2>3, PassedElsewhere DEF TypeInv, HistoryInv, LevelInv
  <2>5. \A level \in calm' : \A i \in DOMAIN ai_objects'[level] :
          times'[ai_objects'[level][i]] = IF i <= Passed(level)' THEN 1 ELSE 0
    BY <1>1, <2>4 DEF CalmInv
  <2>6. phase' \notin Quiet
    BY <2>2 DEF Quiet
  <2> QED BY <1>1, <2>2, <2>5, <2>6 DEF CalmInv
<1>3. CASE last_ai_update_object_id = NoObject
  <2>1. phase' = "levels"
    BY <1>3 DEF EventsDone
  <2>2. idx \in calm => Passed(idx)' = Passed(idx)
    BY <1>1, <1>3, <2>1 DEF Passed, TypeInv, HistoryInv, Levels
  <2>3. \A level \in calm : Passed(level)' = Passed(level)
    BY <1>1, <2>2, PassedElsewhere DEF TypeInv, HistoryInv, LevelInv
  <2>4. \A level \in calm' : \A i \in DOMAIN ai_objects'[level] :
          times'[ai_objects'[level][i]] = IF i <= Passed(level)' THEN 1 ELSE 0
    BY <1>1, <2>3 DEF CalmInv
  <2> QED BY <2>1, <2>4 DEF CalmInv, Quiet
<1> QED BY <1>2, <1>3

\* The levels, up to the end of a round.
LEMMA LevelStepsCalm ==
  ASSUME CalmInv, TypeInv, StartLevel \/ SkipLevel \/ LevelDone
  PROVE  CalmInv'
<1> DEFINE idx == last_ai_level_index
           list == ai_objects[idx]
<1>0. /\ calm \subseteq Levels /\ idx \in Nat
      /\ UNCHANGED <<ai_objects, update_counter, last_ai_update_object_id, times, calm>>
  BY DEF StartLevel, SkipLevel, LevelDone, lists, round, history, TypeInv, HistoryInv, LevelInv
<1>1. ASSUME \A level \in calm : Passed(level)' = Passed(level)
      PROVE  \A level \in calm' : \A i \in DOMAIN ai_objects'[level] :
               times'[ai_objects'[level][i]] = IF i <= Passed(level)' THEN 1 ELSE 0
  BY <1>0, <1>1 DEF CalmInv
<1>2. CASE StartLevel
  <2>1. /\ phase = "levels" /\ phase' = "objects" /\ next' = 1 /\ end' = Len(list) + 1
        /\ moved' = FALSE /\ idx' = idx
    BY <1>2 DEF StartLevel, round
  <2>2. idx \in calm => Passed(idx)' = Passed(idx)
    BY <1>0, <2>1 DEF Passed, Levels
  <2>3. \A level \in calm : Passed(level)' = Passed(level)
    BY <1>0, <2>1, <2>2, PassedElsewhere
  <2> QED BY <1>0, <1>1, <2>1, <2>3 DEF CalmInv, Quiet
<1>3. CASE SkipLevel
  <2>1. /\ phase = "levels" /\ phase' = "levels" /\ idx' = idx + 1 /\ ~Due(idx)
        /\ idx \in Nat
    BY <1>3 DEF SkipLevel, TypeInv, LevelInv
  <2>2. \A level \in calm : Passed(level)' = Passed(level)
    BY <1>0, <2>1, DueKept DEF Passed, Levels
  <2> QED BY <1>1, <2>1, <2>2 DEF CalmInv, Quiet
<1>4. CASE LevelDone
  <2>1. /\ phase = "objects" /\ phase' = "levels" /\ idx' = idx + 1 /\ Due(idx)
        /\ idx \in Nat /\ next = end
    BY <1>4 DEF LevelDone, TypeInv, LevelInv
  <2>2. ASSUME NEW level \in calm, level = idx
        PROVE  Passed(level)' = Passed(level)
    <3>1. end = Len(ai_objects[level]) + 1 /\ Len(ai_objects[level]) \in Nat
      BY <1>0, <2>1, <2>2 DEF CalmInv, TypeInv, ListsInv, Lists
    <3>2. Passed(level) = Len(ai_objects[level])
      BY <2>1, <2>2, <3>1 DEF Passed
    <3>3. Due(level)'
      BY <1>0, <2>1, <2>2, DueKept
    <3>4. level < last_ai_level_index' /\ ai_objects'[level] = ai_objects[level]
      BY <1>0, <2>1, <2>2
    <3>5. Passed(level)' = Len(ai_objects[level])
      BY <3>3, <3>4 DEF Passed
    <3> QED BY <3>2, <3>5
  <2>3. ASSUME NEW level \in calm, level # idx
        PROVE  Passed(level)' = Passed(level)
    <3>1. Due(level)' <=> Due(level)
      BY <1>0, DueKept
    <3>2. CASE level < idx
      BY <1>0, <2>1, <3>1, <3>2 DEF Passed, Levels
    <3>3. CASE level > idx
      BY <1>0, <2>1, <3>1, <3>3 DEF Passed, Levels
    <3>4. level \in Int /\ idx \in Int
      BY <1>0, <2>1 DEF Levels
    <3> QED BY <2>3, <3>2, <3>3, <3>4
  <2> QED BY <1>1, <2>1, <2>2, <2>3 DEF CalmInv, Quiet
<1> QED BY <1>2, <1>3, <1>4

LEMMA RoundDoneCalm ==
  ASSUME TypeInv, RoundDone
  PROVE  CalmInv'
<1>1. /\ times' = [o \in Objects |-> 0] /\ calm' = Levels /\ ai_objects' = ai_objects
      /\ last_ai_level_index' = 0 /\ last_ai_update_object_id' = NoObject /\ phase' = "idle"
  BY DEF RoundDone, NewRound, lists
<1>2. \A level \in Levels : Passed(level)' = 0
  BY <1>1 DEF Passed, Levels
<1>3. ASSUME NEW level \in Levels, NEW i \in DOMAIN ai_objects[level]
      PROVE  times'[ai_objects[level][i]] = 0 /\ ~(i <= 0)
  <2>1. ai_objects[level] \in Seq(Objects)
    BY DEF TypeInv, ListsInv, Lists
  <2> QED BY <1>1, <2>1
<1> QED BY <1>1, <1>2, <1>3 DEF CalmInv

\* What the loop reads where the array did not move.
LEMMA ReadsNext ==
  ASSUME TypeInv, phase = "objects", next < end, ~moved,
         end <= Len(ai_objects[last_ai_level_index]) + 1, NEW o \in Read
  PROVE  /\ last_ai_level_index \in Levels
         /\ ~Astray
         /\ next \in 1..Len(ai_objects[last_ai_level_index])
         /\ o = ai_objects[last_ai_level_index][next]
         /\ o \in Listed(last_ai_level_index) /\ o \in alive /\ o \in Objects
<1> DEFINE list == ai_objects[last_ai_level_index]
<1>1. last_ai_level_index \in Levels
  BY DEF TypeInv, LevelInv, Levels
<1>2. list \in Seq(Objects) /\ Len(list) \in Nat
  BY <1>1 DEF TypeInv, ListsInv, Lists
<1>3. next \in 1..Len(list) /\ ~(next > Len(list))
  BY <1>2 DEF TypeInv, CursorInv
<1>4. ~Astray
  BY <1>3 DEF Astray
<1>5. o = list[next]
  BY <1>4 DEF Read
<1>6. o \in ToSet(list)
  BY <1>2, <1>3, <1>5 DEF ToSet
<1>7. ToSet(list) \subseteq alive /\ alive \subseteq Objects
  BY <1>1 DEF TypeInv, ListsInv, Listed
<1> QED BY <1>1, <1>3, <1>4, <1>5, <1>6, <1>7 DEF Listed

\* The object that is updated is nowhere else in the lists.
LEMMA Nowhere ==
  ASSUME ListsInv, NEW m \in Levels, NEW k \in 1..Len(ai_objects[m]),
         NEW level \in Levels, NEW i \in DOMAIN ai_objects[level],
         ai_objects[level][i] = ai_objects[m][k]
  PROVE  level = m /\ i = k
<1>1. /\ ai_objects[level] \in Seq(Objects) /\ ai_objects[m] \in Seq(Objects)
      /\ IsInjective(ai_objects[m])
  BY DEF ListsInv, Lists
<1>2. k \in DOMAIN ai_objects[m]
  BY <1>1
<1>3. ai_objects[m][k] \in Listed(m) /\ ai_objects[level][i] \in Listed(level)
  BY <1>1, <1>2 DEF Listed, ToSet
<1>4. level = m
  BY <1>3 DEF ListsInv
<1>5. i = k
  BY <1>1, <1>2, <1>4 DEF IsInjective
<1> QED BY <1>4, <1>5

LEMMA UpdateObjectCalm ==
  ASSUME CalmInv, TypeInv, NEW o \in Objects, UpdateObject(o)
  PROVE  CalmInv'
<1> DEFINE idx == last_ai_level_index
<1>1. /\ phase = "objects" /\ phase' = "objects" /\ next < end /\ o \in Read /\ next' = next + 1
      /\ times' = IF o \in alive /\ times[o] < 2 THEN [times EXCEPT ![o] = @ + 1] ELSE times
      /\ calm' = IF Astray THEN {} ELSE calm
      /\ UNCHANGED <<ai_objects, update_counter, last_ai_level_index, last_ai_update_object_id,
                     end, moved>>
  BY DEF UpdateObject, lists, round
<1>2. CASE Astray
  BY <1>1, <1>2 DEF CalmInv
<1>3. CASE ~Astray
  <2>1. idx \in Levels /\ next \in Nat /\ next >= 1
    BY <1>1 DEF TypeInv, LevelInv, CursorInv, Levels
  <2>2. ai_objects[idx] \in Seq(Objects)
    BY <2>1 DEF TypeInv, ListsInv, Lists
  <2>3. next \in 1..Len(ai_objects[idx]) /\ o = ai_objects[idx][next]
    BY <1>1, <1>3, <2>1, <2>2 DEF Astray, Read
  <2>4. o \in alive
    BY <2>1, <2>2, <2>3 DEF TypeInv, ListsInv, Listed, ToSet
  <2>9. \A level \in Levels : level = idx => Passed(level) = next - 1 /\ Passed(level)' = next
    <3> SUFFICES ASSUME NEW level \in Levels, level = idx
                 PROVE  Passed(level) = next - 1 /\ Passed(level)' = next
      OBVIOUS
    <3>1. /\ level \in Int /\ next \in Int /\ phase = "objects" /\ phase' = "objects"
          /\ next' = next + 1 /\ last_ai_level_index = level /\ last_ai_level_index' = level
      BY <1>1, <2>1 DEF Levels
    <3>2. Passed(level) = next - 1
      BY <3>1 DEF Passed
    <3>3. Passed(level)' = next' - 1
      BY <3>1 DEF Passed
    <3> QED BY <3>1, <3>2, <3>3
  <2>5. ASSUME NEW level \in calm, NEW i \in DOMAIN ai_objects[level]
        PROVE  times'[ai_objects[level][i]] = IF i <= Passed(level)' THEN 1 ELSE 0
    <3> DEFINE x == ai_objects[level][i]
    <3>1. level \in Levels /\ ai_objects[level] \in Seq(Objects) /\ x \in Objects
      BY DEF TypeInv, HistoryInv, ListsInv, Lists
    <3>2. i \in Nat
      BY <3>1
    <3>3. times[x] = IF i <= Passed(level) THEN 1 ELSE 0
      BY DEF CalmInv
    <3>4. CASE x = o
      <4>1. level = idx /\ i = next
        BY <2>1, <2>3, <3>1, <3>4, Nowhere DEF TypeInv
      <4>2. Passed(level) = next - 1 /\ Passed(level)' = next
        BY <2>9, <3>1, <4>1
      <4>3. times[o] = 0
        BY <2>1, <3>3, <3>4, <4>1, <4>2
      <4>4. times'[o] = 1
        BY <1>1, <2>4, <4>3 DEF TypeInv, HistoryInv
      <4> QED BY <2>1, <3>4, <4>1, <4>2, <4>4
    <3>5. CASE x # o
      <4>1. times'[x] = times[x]
        BY <1>1, <3>1, <3>5 DEF TypeInv, HistoryInv
      <4>2. CASE level # idx
        <5>1. Passed(level)' = Passed(level)
          BY <1>1, <2>1, <3>1, <4>2, PassedElsewhere DEF Levels
        <5> QED BY <3>3, <4>1, <5>1
      <4>3. CASE level = idx
        <5>1. Passed(level) = next - 1 /\ Passed(level)' = next
          BY <2>9, <3>1, <4>3
        <5>2. i # next
          BY <2>3, <3>5, <4>3
        <5>3. i <= next <=> i <= next - 1
          BY <2>1, <3>2, <5>2
        <5> QED BY <3>3, <4>1, <5>1, <5>3
      <4> QED BY <4>2, <4>3
    <3> QED BY <3>4, <3>5
  <2>6. \A level \in calm' : \A i \in DOMAIN ai_objects'[level] :
          times'[ai_objects'[level][i]] = IF i <= Passed(level)' THEN 1 ELSE 0
    BY <1>1, <1>3, <2>5
  <2>7. idx \in calm => ~moved /\ end = Len(ai_objects[idx]) + 1
    BY <1>1 DEF CalmInv
  <2>8. phase' \notin Quiet
    BY <1>1 DEF Quiet
  <2> QED BY <1>1, <1>3, <2>6, <2>7, <2>8 DEF CalmInv
<1> QED BY <1>2, <1>3

LEMMA TimeOutCalm ==
  ASSUME CalmInv, TypeInv, NEW o \in Objects, TimeOut(o)
  PROVE  CalmInv'
<1> DEFINE idx == last_ai_level_index
<1>1. /\ phase = "objects" /\ phase' = "idle" /\ next < end /\ o \in Read
      /\ last_ai_update_object_id' = o
      /\ UNCHANGED <<ai_objects, update_counter, last_ai_level_index, times, calm>>
  BY DEF TimeOut, lists, history
<1>2. /\ idx \in Levels /\ ai_objects[idx] \in Seq(Objects) /\ IsInjective(ai_objects[idx])
  BY <1>1 DEF TypeInv, LevelInv, ListsInv, Lists, Levels
<1>3. o # NoObject
  BY SchedulerAssumption
<1>4. ASSUME idx \in calm
      PROVE  /\ o \in Listed(idx)
             /\ Passed(idx)' = Passed(idx)
  <2>1. ~moved /\ end = Len(ai_objects[idx]) + 1
    BY <1>1, <1>4 DEF CalmInv
  <2>2. end <= Len(ai_objects[idx]) + 1
    BY <1>2, <2>1
  <2>3. next \in 1..Len(ai_objects[idx]) /\ o = ai_objects[idx][next] /\ o \in Listed(idx)
    BY <1>1, <2>1, <2>2, ReadsNext
  <2>4. Place(ai_objects[idx], o) = next
    BY <1>2, <2>3, PlaceFound
  <2>5. Passed(idx) = next - 1
    BY <1>1, <1>2 DEF Passed, Levels
  <2>6. Passed(idx)' = next - 1
    BY <1>1, <1>2, <1>3, <2>4 DEF Passed, Levels
  <2> QED BY <2>3, <2>5, <2>6
<1>5. \A level \in calm : Passed(level)' = Passed(level)
  BY <1>1, <1>4, PassedElsewhere DEF TypeInv, HistoryInv, LevelInv
<1>6. \A level \in calm' : \A i \in DOMAIN ai_objects'[level] :
        times'[ai_objects'[level][i]] = IF i <= Passed(level)' THEN 1 ELSE 0
  BY <1>1, <1>5 DEF CalmInv
<1> QED BY <1>1, <1>4, <1>6 DEF CalmInv, Listed

LEMMA NextCalm == TypeInv /\ CalmInv /\ [Next]_vars => CalmInv'
<1> SUFFICES ASSUME TypeInv, CalmInv, [Next]_vars PROVE CalmInv'
  OBVIOUS
<1>0. ListsInv /\ HistoryInv /\ alive \subseteq Objects
  BY DEF TypeInv, ListsInv
<1>1. ASSUME NEW o \in Objects, ListsChange(o), UNCHANGED <<round, phase, next, end, times>>
      PROVE  CalmInv'
  <2>1. calm' \subseteq calm /\ \A level \in calm' : ai_objects'[level] = ai_objects[level]
    BY <1>0, <1>1, CalmLists
  <2>2. last_ai_level_index \in calm' /\ phase = "objects" => (moved' => moved)
    BY <1>0, <1>1, CalmLists DEF InLoop
  <2> QED BY <1>0, <1>1, <2>1, <2>2, CalmKept
<1>2. ASSUME UNCHANGED lists, UNCHANGED <<round, phase, next, end, times, calm>>,
             phase = "objects" => (moved' => moved)
      PROVE  CalmInv'
  BY <1>0, <1>2, CalmKept DEF lists
<1>3. ASSUME UNCHANGED lists, UNCHANGED vars \/ ScriptStep \/ HandleEvent
      PROVE  CalmInv'
  <2>1. CASE \E o \in Objects : ListsChange(o) /\ UNCHANGED <<round, phase, next, end, times>>
    BY <1>1, <2>1
  <2>2. CASE \/ UNCHANGED vars
             \/ \E o \in Objects : StopDialog(o) \/ \E kind \in Kinds : AddEvent(kind, o)
    <3>1. UNCHANGED <<round, phase, next, end, times, calm>>
      BY <2>2 DEF vars, cursor, history, StopDialog, AddEvent
    <3>2. phase = "objects" => (moved' => moved)
      BY <2>2 DEF vars, cursor, StopDialog, AddEvent
    <3> QED BY <1>2, <1>3, <3>1, <3>2
  <2>3. ASSUME NEW o \in Objects,
               ScriptRemoveObjectFromAI(o) \/ \E level \in Levels : ScriptAddObjectToAI(o, level)
        PROVE  ListsChange(o) /\ UNCHANGED <<round, phase, next, end, times>>
    BY <2>3 DEF ScriptRemoveObjectFromAI, ScriptAddObjectToAI, ListsChange
  <2>4. CASE HandleEvent
    <3> DEFINE e == Head(due_events)
    <3>1. CASE e.object \in alive /\ e.kind = "destroy"
      <4>1. /\ RemoveObjectFromAI(e.object) /\ alive' = alive \ {e.object}
            /\ UNCHANGED <<round, phase, next, end, times>>
        BY <2>4, <3>1 DEF HandleEvent
      <4> QED BY <1>0, <2>1, <3>1, <4>1 DEF ListsChange
    <3>2. CASE ~(e.object \in alive /\ e.kind = "destroy")
      <4>1. UNCHANGED <<round, phase, next, end, times, calm, moved>>
        BY <2>4, <3>2 DEF HandleEvent
      <4> QED BY <1>2, <1>3, <4>1
    <3> QED BY <3>1, <3>2
  <2> QED BY <1>3, <2>1, <2>2, <2>3, <2>4 DEF ScriptStep
<1>4. CASE UpdateAIState \/ RunRequest \/ RequestsDone
  <2>1. UNCHANGED <<lists, round, times, calm>> /\ phase \in Quiet /\ phase' \in Quiet
    BY <1>4 DEF UpdateAIState, RunRequest, RequestsDone, history, Quiet
  <2> QED BY <1>0, <2>1, CalmQuiet
<1>5. CASE EventsDone
  BY <1>5, EventsDoneCalm
<1>6. CASE StartLevel \/ SkipLevel \/ LevelDone
  BY <1>6, LevelStepsCalm
<1>7. CASE RoundDone
  BY <1>7, RoundDoneCalm
<1>8. ASSUME NEW o \in Objects, UpdateObject(o)
      PROVE  CalmInv'
  BY <1>8, UpdateObjectCalm
<1>9. ASSUME NEW o \in Objects, TimeOut(o)
      PROVE  CalmInv'
  BY <1>9, TimeOutCalm
<1> QED BY <1>0, <1>1, <1>3, <1>4, <1>5, <1>6, <1>7, <1>8, <1>9, ListsSteps DEF Next, CallStep

\* Only the end of a round changes the counter.
LEMMA CounterSteps ==
  ASSUME Next, update_counter' # update_counter
  PROVE  RoundDone
BY DEF Next, CallStep, ScriptStep, ScriptRemoveObjectFromAI, ScriptAddObjectToAI, StopDialog,
   AddEvent, UpdateAIState, RunRequest, RequestsDone, HandleEvent, EventsDone, StartLevel,
   SkipLevel, LevelDone, UpdateObject, TimeOut, round

\* However often a round was cut off and resumed, and whatever scripts did to
\* other lists, it updated each object of a list that did not change once if
\* its level was due, and not at all if not.
THEOREM OncePerRoundAlways == Spec => OncePerRound
<1> DEFINE Once == RoundEnds => \A level \in calm : \A o \in Listed(level) \cap alive :
                                  times[o] = IF Due(level) THEN 1 ELSE 0
<1>1. TypeInv /\ CalmInv /\ [Next]_vars => [Once]_vars
  <2> SUFFICES ASSUME TypeInv, CalmInv, Next, RoundEnds, NEW level \in calm, NEW o \in Listed(level)
               PROVE  times[o] = IF Due(level) THEN 1 ELSE 0
    OBVIOUS
  <2>1. phase = "levels" /\ last_ai_level_index > Top
    BY CounterSteps DEF RoundEnds, RoundDone
  <2>2. level \in Levels /\ ai_objects[level] \in Seq(Objects)
    BY DEF TypeInv, HistoryInv, ListsInv, Lists
  <2>3. PICK i \in 1..Len(ai_objects[level]) : ai_objects[level][i] = o
    BY <2>2 DEF Listed, ToSet
  <2>4. times[o] = IF i <= Passed(level) THEN 1 ELSE 0
    BY <2>2, <2>3 DEF CalmInv
  <2>5. level < last_ai_level_index
    BY <2>1, <2>2 DEF TypeInv, LevelInv, Levels
  <2>6. Passed(level) = IF Due(level) THEN Len(ai_objects[level]) ELSE 0
    BY <2>5 DEF Passed
  <2> QED BY <2>2, <2>3, <2>4, <2>6
<1> HIDE DEF Once
<1>2. Spec => [][Once]_vars
  BY <1>1, InitTypes, NextTypes, InitCalm, NextCalm, PTL DEF Spec
<1> QED BY <1>2 DEF OncePerRound, Once

-----------------------------------------------------------------------------
(* The objects whose place in their list is sure                           *)

\* That an object whose place is sure was passed in this round.
GonePast(o, level) ==
  \/ level < last_ai_level_index
  \/ /\ level = last_ai_level_index /\ phase = "objects"
     /\ \E i \in DOMAIN ai_objects[level] : i < next /\ ai_objects[level][i] = o
  \/ /\ level = last_ai_level_index /\ phase \in Quiet
     /\ last_ai_update_object_id # NoObject
     /\ Before(ai_objects[level], o, last_ai_update_object_id)

\* The same of a list that changed, for the objects whose place is sure.
SteadyInv ==
  /\ ~requeued => \A level \in Levels : \A o \in Listed(level) \cap steady :
       Due(level) /\ GonePast(o, level) => times[o] >= 1
  /\ phase = "objects" /\ Listed(last_ai_level_index) \cap steady # {} =>
       /\ ~moved
       /\ end <= Len(ai_objects[last_ai_level_index]) + 1
       /\ \A i \in DOMAIN ai_objects[last_ai_level_index] :
            ai_objects[last_ai_level_index][i] \in steady => i < end

LEMMA InitSteady == Init => SteadyInv
BY DEF Init, SteadyInv

\* What a change of the lists leaves sure.
LEMMA SteadyLists ==
  ASSUME ListsInv, FlagsInv, NEW o \in Objects, ListsChange(o)
  PROVE  /\ steady' \subseteq steady /\ o \notin steady'
         /\ requeued => requeued'
         /\ \A level \in Levels : \A x \in Listed(level)' \cap steady' :
              /\ x \in Listed(level)
              /\ Before(ai_objects'[level], x, last_ai_update_object_id) /\ ~requeued' =>
                   Before(ai_objects[level], x, last_ai_update_object_id)
<1>1. CASE RemoveObjectFromAI(o)
  <2>1. /\ ai_objects' = Without(o) /\ requeued' = requeued
        /\ steady' \subseteq steady /\ o \notin steady'
    BY <1>1 DEF RemoveObjectFromAI, Disturb
  <2>2. ASSUME NEW level \in Levels, NEW x \in Listed(level)' \cap steady'
        PROVE  /\ x \in Listed(level)
               /\ Before(ai_objects'[level], x, last_ai_update_object_id) =>
                    Before(ai_objects[level], x, last_ai_update_object_id)
    <3>1. Listed(level)' \subseteq Listed(level)
      BY <2>1, WithoutOne DEF Listed
    <3>2. ai_objects'[level] = RemoveFirst(ai_objects[level], o)
      BY <2>1 DEF Without
    <3>3. ai_objects[level] \in Seq(Objects) /\ IsInjective(ai_objects[level])
      BY DEF ListsInv, Lists
    <3> QED BY <3>1, <3>2, <3>3, OrderKept
  <2> QED BY <2>1, <2>2
<1>2. ASSUME NEW m \in Levels, AddObjectToAI(o, m)
      PROVE  /\ steady' \subseteq steady /\ o \notin steady'
             /\ requeued => requeued'
             /\ \A level \in Levels : \A x \in Listed(level)' \cap steady' :
                  /\ x \in Listed(level)
                  /\ Before(ai_objects'[level], x, last_ai_update_object_id) /\ ~requeued' =>
                       Before(ai_objects[level], x, last_ai_update_object_id)
  <2>1. /\ ai_objects' = [Without(o) EXCEPT ![m] = Append(@, o)]
        /\ steady' \subseteq steady /\ o \notin steady'
        /\ requeued => requeued'
        /\ ~requeued' => last_ai_update_object_id # o
    BY <1>2 DEF AddObjectToAI, Disturb
  <2>2. ASSUME NEW level \in Levels, NEW x \in Listed(level)' \cap steady'
        PROVE  /\ x \in Listed(level)
               /\ Before(ai_objects'[level], x, last_ai_update_object_id) /\ ~requeued' =>
                    Before(ai_objects[level], x, last_ai_update_object_id)
    <3> DEFINE w == Without(o)[level]
    <3>1. w \in Seq(Objects) /\ IsInjective(w) /\ ToSet(w) = Listed(level) \ {o}
      BY WithoutOne DEF Lists
    <3>2. w = RemoveFirst(ai_objects[level], o)
      BY DEF Without
    <3>3. ai_objects[level] \in Seq(Objects) /\ IsInjective(ai_objects[level])
      BY DEF ListsInv, Lists
    <3>4. \A b : Before(w, x, b) => Before(ai_objects[level], x, b)
      BY <3>2, <3>3, OrderKept
    <3> HIDE DEF w
    <3>5. CASE level # m
      <4>1. ai_objects'[level] = w
        BY <2>1, <3>5, WithOneMore DEF w
      <4> QED BY <3>1, <3>4, <4>1 DEF Listed
    <3>6. CASE level = m
      <4>1. ai_objects'[level] = Append(w, o) /\ Listed(level)' = Listed(level) \cup {o}
        BY <2>1, <3>6, WithOneMore DEF w
      <4>2. x \in Listed(level)
        BY <2>1, <4>1
      <4>3. ASSUME Before(ai_objects'[level], x, last_ai_update_object_id), ~requeued'
            PROVE  Before(w, x, last_ai_update_object_id)
        <5>1. Before(Append(w, o), x, last_ai_update_object_id)
          BY <4>1, <4>3
        <5>2. last_ai_update_object_id # o
          BY <2>1, <4>3
        <5> QED BY <3>1, <5>1, <5>2, OrderGrows
      <4> QED BY <3>4, <4>2, <4>3
    <3> QED BY <3>5, <3>6
  <2> QED BY <2>1, <2>2
<1> QED BY <1>1, <1>2 DEF ListsChange

\* While objects are gone through, a list with sure places only grows, and
\* stays where it is.
LEMMA SteadyInLoop ==
  ASSUME ListsInv, FlagsInv, NEW o \in Objects, ListsChange(o), phase = "objects",
         last_ai_level_index \in Levels, last_ai_level_index' = last_ai_level_index,
         Listed(last_ai_level_index)' \cap steady' # {}
  PROVE  /\ moved' => moved
         /\ \/ ai_objects'[last_ai_level_index] = ai_objects[last_ai_level_index]
            \/ ai_objects'[last_ai_level_index] = Append(ai_objects[last_ai_level_index], o)
<1> DEFINE idx == last_ai_level_index
<1>1. InLoop = {idx}
  BY DEF InLoop
<1>2. PICK x \in Listed(idx)' \cap steady' : TRUE
  OBVIOUS
<1>3. CASE RemoveObjectFromAI(o)
  <2>1. /\ ai_objects' = Without(o) /\ moved' = moved
        /\ steady' = steady \ ({o} \cup UNION {Listed(level) : level \in LevelsOf(o) \cap InLoop})
    BY <1>3 DEF RemoveObjectFromAI, Disturb
  <2>2. x \in Listed(idx)
    BY <1>2, SteadyLists
  <2>3. idx \notin LevelsOf(o)
    BY <1>1, <1>2, <2>1, <2>2
  <2>4. o \notin Listed(idx)
    BY <2>3 DEF LevelsOf
  <2> QED BY <2>1, <2>4, WithoutOne
<1>4. ASSUME NEW m \in Levels, AddObjectToAI(o, m)
      PROVE  /\ moved' => moved
             /\ \/ ai_objects'[idx] = ai_objects[idx]
                \/ ai_objects'[idx] = Append(ai_objects[idx], o)
  <2>1. PICK full \in BOOLEAN :
          /\ moved' = (moved \/ (full /\ m \in InLoop))
          /\ steady' = steady \ ({o} \cup UNION {Listed(level) : level \in
                                   (LevelsOf(o) \cup (IF full THEN {m} ELSE {})) \cap InLoop})
    BY <1>4 DEF AddObjectToAI, Disturb
  <2>2. ai_objects' = [Without(o) EXCEPT ![m] = Append(@, o)]
    BY <1>4 DEF AddObjectToAI
  <2>3. x \in Listed(idx)
    BY <1>2, SteadyLists
  <2>4. idx \notin LevelsOf(o) /\ ~(full /\ m = idx)
    BY <1>1, <1>2, <2>1, <2>3
  <2>5. moved' => moved
    BY <1>1, <2>1, <2>4
  <2>6. Without(o)[idx] = ai_objects[idx]
    BY <2>4, WithoutOne DEF LevelsOf
  <2>7. /\ ai_objects'[m] = Append(Without(o)[m], o)
        /\ \A k \in Levels \ {m} : ai_objects'[k] = Without(o)[k]
    BY <2>2, WithOneMore
  <2>8. \/ ai_objects'[idx] = ai_objects[idx]
        \/ ai_objects'[idx] = Append(ai_objects[idx], o)
    BY <2>6, <2>7
  <2> QED BY <2>5, <2>8
<1> QED BY <1>3, <1>4 DEF ListsChange

LEMMA ListsChangeSteady ==
  ASSUME SteadyInv, TypeInv, NEW o \in Objects, ListsChange(o),
         UNCHANGED <<round, phase, next, end, times>>
  PROVE  SteadyInv'
<1> DEFINE idx == last_ai_level_index
<1>0. /\ ListsInv /\ FlagsInv /\ ListsInv' /\ next \in Nat /\ end \in Nat
      /\ UNCHANGED <<update_counter, last_ai_level_index, last_ai_update_object_id, phase,
                     next, end, times>>
      /\ phase = "objects" => idx \in Levels
  BY ChangedLists DEF TypeInv, CursorInv, LevelInv, Levels, round
<1>1. /\ steady' \subseteq steady /\ o \notin steady' /\ (requeued => requeued')
      /\ \A level \in Levels : Listed(level)' \cap steady' \subseteq Listed(level) \cap steady
  BY <1>0, SteadyLists
<1>2. ASSUME phase = "objects", Listed(idx)' \cap steady' # {}
      PROVE  /\ ~moved' /\ end <= Len(ai_objects'[idx]) + 1
             /\ \A i \in DOMAIN ai_objects'[idx] : ai_objects'[idx][i] \in steady' =>
                  i < end /\ i \in DOMAIN ai_objects[idx]
                          /\ ai_objects[idx][i] = ai_objects'[idx][i]
  <2>1. /\ moved' => moved
        /\ \/ ai_objects'[idx] = ai_objects[idx]
           \/ ai_objects'[idx] = Append(ai_objects[idx], o)
    BY <1>0, <1>2, SteadyInLoop
  <2>2. /\ ~moved /\ end <= Len(ai_objects[idx]) + 1
        /\ \A i \in DOMAIN ai_objects[idx] : ai_objects[idx][i] \in steady => i < end
    BY <1>0, <1>1, <1>2 DEF SteadyInv
  <2>3. CASE ai_objects'[idx] = ai_objects[idx]
    BY <1>1, <2>1, <2>2, <2>3
  <2>4. CASE ai_objects'[idx] = Append(ai_objects[idx], o)
    <3> DEFINE s == ai_objects[idx]
               r == Append(s, o)
    <3>1. s \in Seq(Objects)
      BY <1>0, <1>2 DEF ListsInv, Lists
    <3>2. /\ DOMAIN r = 1..(Len(s) + 1) /\ DOMAIN s = 1..Len(s) /\ Len(r) = Len(s) + 1
          /\ Len(s) \in Nat
          /\ r[Len(s) + 1] = o /\ \A i \in 1..Len(s) : r[i] = s[i]
      BY <3>1
    <3>3. ai_objects'[idx] = r
      BY <2>4
    <3> HIDE DEF r
    <3>4. \A i \in DOMAIN r : r[i] \in steady' => i \in 1..Len(s) /\ r[i] = s[i]
      BY <1>1, <3>2
    <3>5. \A i \in DOMAIN r : r[i] \in steady' => i < end
      BY <1>1, <2>2, <3>2, <3>4
    <3>6. end <= Len(r) + 1
      BY <1>0, <2>2, <3>2
    <3> QED BY <2>1, <2>2, <3>2, <3>3, <3>4, <3>5, <3>6
  <2> QED BY <2>1, <2>3, <2>4
<1>3. ASSUME ~requeued', NEW level \in Levels, NEW x \in Listed(level)' \cap steady',
             Due(level)', GonePast(x, level)'
      PROVE  times'[x] >= 1
  <2>1. Due(level) /\ ~requeued /\ x \in Listed(level) \cap steady
    BY <1>0, <1>1, <1>3, DueKept
  <2>2. GonePast(x, level)
    <3>1. CASE level < idx
      BY <3>1 DEF GonePast
    <3>2. CASE /\ level = idx /\ phase = "objects"
               /\ \E i \in DOMAIN ai_objects'[level] : i < next /\ ai_objects'[level][i] = x
      <4>1. PICK i \in DOMAIN ai_objects'[level] : i < next /\ ai_objects'[level][i] = x
        BY <3>2
      <4>2. x \in Listed(idx)' \cap steady'
        BY <1>0, <1>3, <3>2 DEF Listed
      <4>3. i \in DOMAIN ai_objects[level] /\ ai_objects[level][i] = x
        BY <1>2, <1>3, <3>2, <4>1, <4>2
      <4> QED BY <3>2, <4>1, <4>3 DEF GonePast
    <3>3. CASE /\ level = idx /\ phase \in Quiet
               /\ last_ai_update_object_id # NoObject
               /\ Before(ai_objects'[level], x, last_ai_update_object_id)
      <4>1. Before(ai_objects[level], x, last_ai_update_object_id)
        BY <1>0, <1>3, <3>3, SteadyLists
      <4> QED BY <3>3, <4>1 DEF GonePast
    <3> QED BY <1>0, <1>3, <3>1, <3>2, <3>3 DEF GonePast
  <2> QED BY <1>0, <2>1, <2>2 DEF SteadyInv
<1>4. phase' = "objects" /\ Listed(last_ai_level_index)' \cap steady' # {} =>
        /\ ~moved'
        /\ end' <= Len(ai_objects'[last_ai_level_index']) + 1
        /\ \A i \in DOMAIN ai_objects'[last_ai_level_index'] :
             ai_objects'[last_ai_level_index'][i] \in steady' => i < end'
  BY <1>0, <1>2
<1> QED BY <1>3, <1>4 DEF SteadyInv

\* The lists stay, and so does the place the round is at.
LEMMA SteadyKept ==
  ASSUME SteadyInv, UNCHANGED <<lists, round, times, steady, requeued>>,
         \/ phase \in Quiet /\ phase' \in Quiet
         \/ UNCHANGED <<phase, next, end>> /\ (phase = "objects" => (moved' => moved))
  PROVE  SteadyInv'
<1>1. UNCHANGED <<ai_objects, update_counter, last_ai_level_index, last_ai_update_object_id,
                  times, steady, requeued>>
  BY DEF lists, round
<1>2. ASSUME NEW level \in Levels, NEW x, GonePast(x, level)'
      PROVE  GonePast(x, level)
  <2>1. CASE level < last_ai_level_index
    BY <2>1 DEF GonePast
  <2>2. CASE phase \in Quiet /\ phase' \in Quiet
    BY <1>1, <1>2, <2>2 DEF GonePast, Quiet
  <2>3. CASE UNCHANGED <<phase, next, end>>
    BY <1>1, <1>2, <2>3 DEF GonePast
  <2> QED BY <2>2, <2>3
<1>3. ASSUME ~requeued', NEW level \in Levels, NEW x \in Listed(level)' \cap steady',
             Due(level)', GonePast(x, level)'
      PROVE  times'[x] >= 1
  BY <1>1, <1>2, <1>3, DueKept DEF SteadyInv, Listed
<1>4. phase' = "objects" /\ Listed(last_ai_level_index)' \cap steady' # {} =>
        /\ ~moved'
        /\ end' <= Len(ai_objects'[last_ai_level_index']) + 1
        /\ \A i \in DOMAIN ai_objects'[last_ai_level_index'] :
             ai_objects'[last_ai_level_index'][i] \in steady' => i < end'
  BY <1>1 DEF SteadyInv, Listed, Quiet
<1> QED BY <1>3, <1>4 DEF SteadyInv

\* A level begins, or the call goes on where it was cut off.
LEMMA BeginSteady ==
  ASSUME SteadyInv, TypeInv, EventsDone \/ StartLevel
  PROVE  SteadyInv'
<1> DEFINE idx == last_ai_level_index
           list == ai_objects[idx]
<1>1. /\ UNCHANGED <<ai_objects, update_counter, last_ai_level_index, last_ai_update_object_id,
                     times, steady, requeued>>
      /\ moved' = FALSE
  BY DEF EventsDone, StartLevel, lists, round, history
<1>2. \/ phase' = "levels"
      \/ /\ phase' = "objects" /\ end' = Len(list) + 1 /\ idx \in Levels
         /\ \/ next' = 1
            \/ /\ phase = "events" /\ last_ai_update_object_id # NoObject
               /\ Place(list, last_ai_update_object_id) # 0
               /\ next' = Place(list, last_ai_update_object_id)
  <2>1. CASE StartLevel
    BY <2>1 DEF StartLevel, TypeInv, LevelInv, Levels
  <2>2. CASE EventsDone
    <3>1. phase = "events"
      BY <2>2 DEF EventsDone
    <3>2. CASE last_ai_update_object_id # NoObject
      <4>1. idx \in Levels
        BY <3>1, <3>2 DEF TypeInv, LevelInv, Levels
      <4> QED BY <2>2, <3>1, <3>2, <4>1, Resumes
    <3>3. CASE last_ai_update_object_id = NoObject
      BY <2>2, <3>3 DEF EventsDone
    <3> QED BY <3>2, <3>3
  <2> QED BY <2>1, <2>2
<1>3. phase' = "objects" => idx \in Levels /\ list \in Seq(Objects)
  BY <1>2 DEF TypeInv, ListsInv, Lists
<1>4. ASSUME NEW level \in Levels, NEW x, GonePast(x, level)'
      PROVE  GonePast(x, level)
  <2>1. CASE level < idx
    BY <2>1 DEF GonePast
  <2>2. CASE ~(level < idx)
    <3>1. level = idx /\ phase' = "objects"
      BY <1>1, <1>2, <1>4, <2>2 DEF GonePast, Quiet
    <3>2. PICK i \in DOMAIN list : i < next' /\ list[i] = x
      BY <1>1, <1>4, <2>2, <3>1 DEF GonePast, Quiet
    <3>3. i \in 1..Len(list) /\ DOMAIN list = 1..Len(list)
      BY <1>3, <3>1, <3>2
    <3>4. /\ phase = "events" /\ last_ai_update_object_id # NoObject
          /\ Place(list, last_ai_update_object_id) # 0
          /\ next' = Place(list, last_ai_update_object_id)
      BY <1>2, <3>1, <3>2, <3>3
    <3>5. /\ next' \in 1..Len(list) /\ list[next'] = last_ai_update_object_id
      BY <1>3, <3>1, <3>4, PlaceRange
    <3>6. Before(list, x, last_ai_update_object_id)
      BY <3>2, <3>3, <3>5 DEF Before
    <3> QED BY <3>1, <3>4, <3>6 DEF GonePast, Quiet
  <2> QED BY <2>1, <2>2
<1>5. ASSUME ~requeued', NEW level \in Levels, NEW x \in Listed(level)' \cap steady',
             Due(level)', GonePast(x, level)'
      PROVE  times'[x] >= 1
  BY <1>1, <1>4, <1>5, DueKept DEF SteadyInv, Listed
<1>6. ASSUME phase' = "objects"
      PROVE  end' <= Len(list) + 1 /\ \A i \in DOMAIN list : i < end'
  BY <1>2, <1>3, <1>6
<1> QED BY <1>1, <1>5, <1>6 DEF SteadyInv

\* A level is left.
LEMMA LeaveSteady ==
  ASSUME SteadyInv, TypeInv, SkipLevel \/ LevelDone
  PROVE  SteadyInv'
<1> DEFINE idx == last_ai_level_index
<1>1. /\ UNCHANGED <<ai_objects, update_counter, times, steady, requeued>>
      /\ phase' = "levels" /\ idx' = idx + 1 /\ idx \in Nat
      /\ idx \in Levels
  BY DEF SkipLevel, LevelDone, lists, history, TypeInv, LevelInv, Levels
<1>2. ASSUME NEW level \in Levels, NEW x \in Listed(level) \cap steady, Due(level),
             GonePast(x, level)'
      PROVE  GonePast(x, level)
  <2>1. level < idx + 1
    BY <1>1, <1>2 DEF GonePast, Quiet
  <2>2. CASE level < idx
    BY <2>2 DEF GonePast
  <2>3. CASE level = idx
    <3>1. LevelDone
      BY <1>2, <2>3 DEF SkipLevel
    <3>2. phase = "objects" /\ next = end
      BY <3>1 DEF LevelDone
    <3>3. ai_objects[level] \in Seq(Objects)
      BY DEF TypeInv, ListsInv, Lists
    <3>4. PICK i \in DOMAIN ai_objects[level] : ai_objects[level][i] = x
      BY <3>3 DEF Listed, ToSet
    <3>5. i < end
      BY <1>2, <2>3, <3>2, <3>4 DEF SteadyInv
    <3> QED BY <2>3, <3>2, <3>4, <3>5 DEF GonePast
  <2>4. level \in Int
    BY DEF Levels
  <2> QED BY <1>1, <2>1, <2>2, <2>3, <2>4
<1>3. ASSUME ~requeued', NEW level \in Levels, NEW x \in Listed(level)' \cap steady',
             Due(level)', GonePast(x, level)'
      PROVE  times'[x] >= 1
  <2>1. ~requeued /\ x \in Listed(level) \cap steady /\ Due(level)
    BY <1>1, <1>3, DueKept DEF Listed
  <2>2. GonePast(x, level)
    BY <1>2, <1>3, <2>1
  <2> QED BY <1>1, <2>1, <2>2 DEF SteadyInv
<1> QED BY <1>1, <1>3 DEF SteadyInv

LEMMA RoundDoneSteady ==
  ASSUME RoundDone
  PROVE  SteadyInv'
<1>1. last_ai_level_index' = 0 /\ last_ai_update_object_id' = NoObject /\ phase' = "idle"
  BY DEF RoundDone
<1>2. \A level \in Levels : \A x : ~GonePast(x, level)'
  BY <1>1 DEF GonePast, Levels
<1> QED BY <1>1, <1>2 DEF SteadyInv

LEMMA UpdateObjectSteady ==
  ASSUME SteadyInv, TypeInv, NEW o \in Objects, UpdateObject(o)
  PROVE  SteadyInv'
<1> DEFINE idx == last_ai_level_index
<1>1. /\ phase = "objects" /\ phase' = "objects" /\ next < end /\ o \in Read /\ next' = next + 1
      /\ UNCHANGED <<ai_objects, update_counter, last_ai_level_index, last_ai_update_object_id,
                     end, moved, steady, requeued>>
  BY DEF UpdateObject, lists, round
<1>2. times' = IF o \in alive /\ times[o] < 2 THEN [times EXCEPT ![o] = @ + 1] ELSE times
  BY DEF UpdateObject
<1>3. /\ times \in [Objects -> 0..2] /\ next \in Nat
  BY DEF TypeInv, HistoryInv, CursorInv
<1>4. \A x \in Objects : times[x] \in Nat /\ times'[x] \in Nat /\ times'[x] >= times[x]
  BY <1>2, <1>3
<1>5. o \in alive => times'[o] >= 1
  BY <1>2, <1>3
<1>6. ASSUME NEW level \in Levels, NEW x \in Listed(level) \cap steady, GonePast(x, level)'
      PROVE  GonePast(x, level) \/ (x = o /\ o \in alive)
  <2>1. CASE level < idx
    BY <2>1 DEF GonePast
  <2>2. CASE ~(level < idx)
    <3>1. level = idx
      BY <1>1, <1>6, <2>2 DEF GonePast, Quiet
    <3>2. PICK i \in DOMAIN ai_objects[level] : i < next + 1 /\ ai_objects[level][i] = x
      BY <1>1, <1>6, <2>2 DEF GonePast, Quiet
    <3>3. ai_objects[level] \in Seq(Objects)
      BY DEF TypeInv, ListsInv, Lists
    <3>4. i \in Nat
      BY <3>2, <3>3
    <3>5. CASE i < next
      BY <1>1, <3>1, <3>2, <3>5 DEF GonePast
    <3>6. CASE i = next
      <4>1. ~moved /\ end <= Len(ai_objects[idx]) + 1
        BY <1>1, <1>6, <3>1 DEF SteadyInv
      <4>2. o = ai_objects[idx][next] /\ o \in alive
        BY <1>1, <4>1, ReadsNext
      <4> QED BY <3>1, <3>2, <3>6, <4>2
    <3> QED BY <1>3, <3>2, <3>4, <3>5, <3>6
  <2> QED BY <2>1, <2>2
<1>7. ASSUME ~requeued', NEW level \in Levels, NEW x \in Listed(level)' \cap steady',
             Due(level)', GonePast(x, level)'
      PROVE  times'[x] >= 1
  <2>1. ~requeued /\ x \in Listed(level) \cap steady /\ Due(level) /\ x \in Objects
    BY <1>1, <1>7, DueKept DEF Listed, TypeInv, HistoryInv
  <2>2. CASE GonePast(x, level)
    <3>1. times[x] >= 1
      BY <2>1, <2>2 DEF SteadyInv
    <3> QED BY <1>4, <2>1, <3>1
  <2>3. CASE x = o /\ o \in alive
    BY <1>5, <2>3
  <2> QED BY <1>6, <1>7, <2>1, <2>2, <2>3
<1> QED BY <1>1, <1>7 DEF SteadyInv, Listed

LEMMA TimeOutSteady ==
  ASSUME SteadyInv, TypeInv, NEW o \in Objects, TimeOut(o)
  PROVE  SteadyInv'
<1> DEFINE idx == last_ai_level_index
<1>1. /\ phase = "objects" /\ phase' = "idle" /\ next < end /\ o \in Read
      /\ last_ai_update_object_id' = o
      /\ UNCHANGED <<ai_objects, update_counter, last_ai_level_index, times, steady, requeued>>
  BY DEF TimeOut, lists, history
<1>2. ASSUME NEW level \in Levels, NEW x \in Listed(level) \cap steady, GonePast(x, level)'
      PROVE  GonePast(x, level)
  <2>1. CASE level < idx
    BY <2>1 DEF GonePast
  <2>2. CASE ~(level < idx)
    <3>1. level = idx /\ Before(ai_objects[level], x, o)
      BY <1>1, <1>2, <2>2 DEF GonePast
    <3>2. ~moved /\ end <= Len(ai_objects[idx]) + 1
      BY <1>1, <1>2, <3>1 DEF SteadyInv
    <3>3. next \in 1..Len(ai_objects[idx]) /\ o = ai_objects[idx][next]
      BY <1>1, <3>2, ReadsNext
    <3>4. /\ ai_objects[level] \in Seq(Objects) /\ IsInjective(ai_objects[level])
      BY DEF TypeInv, ListsInv, Lists
    <3>5. PICK i \in DOMAIN ai_objects[level], j \in DOMAIN ai_objects[level] :
            i < j /\ ai_objects[level][i] = x /\ ai_objects[level][j] = o
      BY <3>1 DEF Before
    <3>6. j = next
      BY <3>1, <3>3, <3>4, <3>5 DEF IsInjective
    <3> QED BY <1>1, <3>1, <3>5, <3>6 DEF GonePast
  <2> QED BY <2>1, <2>2
<1>3. ASSUME ~requeued', NEW level \in Levels, NEW x \in Listed(level)' \cap steady',
             Due(level)', GonePast(x, level)'
      PROVE  times'[x] >= 1
  <2>1. ~requeued /\ x \in Listed(level) \cap steady /\ Due(level)
    BY <1>1, <1>3, DueKept DEF Listed
  <2>2. GonePast(x, level)
    BY <1>2, <1>3, <2>1
  <2> QED BY <1>1, <2>1, <2>2 DEF SteadyInv
<1> QED BY <1>1, <1>3 DEF SteadyInv

LEMMA NextSteady == TypeInv /\ SteadyInv /\ [Next]_vars => SteadyInv'
<1> SUFFICES ASSUME TypeInv, SteadyInv, [Next]_vars PROVE SteadyInv'
  OBVIOUS
<1>0. alive \subseteq Objects
  BY DEF TypeInv, ListsInv
<1>1. CASE \E o \in Objects : ListsChange(o) /\ UNCHANGED <<round, phase, next, end, times>>
  BY <1>1, ListsChangeSteady
<1>2. CASE UNCHANGED vars \/ ScriptStep \/ HandleEvent
  <2>1. CASE \/ UNCHANGED vars
             \/ \E o \in Objects : StopDialog(o) \/ \E kind \in Kinds : AddEvent(kind, o)
    <3>1. UNCHANGED <<lists, round, phase, next, end, times, steady, requeued>>
      BY <2>1 DEF vars, cursor, history, StopDialog, AddEvent
    <3>2. phase = "objects" => (moved' => moved)
      BY <2>1 DEF vars, cursor, StopDialog, AddEvent
    <3> QED BY <3>1, <3>2, SteadyKept
  <2>2. ASSUME NEW o \in Objects,
               ScriptRemoveObjectFromAI(o) \/ \E level \in Levels : ScriptAddObjectToAI(o, level)
        PROVE  ListsChange(o) /\ UNCHANGED <<round, phase, next, end, times>>
    BY <2>2 DEF ScriptRemoveObjectFromAI, ScriptAddObjectToAI, ListsChange
  <2>3. CASE HandleEvent
    <3> DEFINE e == Head(due_events)
    <3>1. CASE e.object \in alive /\ e.kind = "destroy"
      <4>1. /\ RemoveObjectFromAI(e.object) /\ alive' = alive \ {e.object}
            /\ UNCHANGED <<round, phase, next, end, times>>
        BY <2>3, <3>1 DEF HandleEvent
      <4> QED BY <1>0, <1>1, <3>1, <4>1 DEF ListsChange
    <3>2. CASE ~(e.object \in alive /\ e.kind = "destroy")
      <4>1. UNCHANGED <<lists, round, phase, next, end, times, steady, requeued, moved>>
        BY <2>3, <3>2 DEF HandleEvent
      <4> QED BY <4>1, SteadyKept
    <3> QED BY <3>1, <3>2
  <2> QED BY <1>1, <1>2, <2>1, <2>2, <2>3 DEF ScriptStep
<1>3. CASE UpdateAIState \/ RunRequest \/ RequestsDone
  <2>1. UNCHANGED <<lists, round, times, steady, requeued>> /\ phase \in Quiet /\ phase' \in Quiet
    BY <1>3 DEF UpdateAIState, RunRequest, RequestsDone, history, Quiet
  <2> QED BY <2>1, SteadyKept
<1>4. CASE EventsDone \/ StartLevel
  BY <1>4, BeginSteady
<1>5. CASE SkipLevel \/ LevelDone
  BY <1>5, LeaveSteady
<1>6. CASE RoundDone
  BY <1>6, RoundDoneSteady
<1>7. ASSUME NEW o \in Objects, UpdateObject(o)
      PROVE  SteadyInv'
  BY <1>7, UpdateObjectSteady
<1>8. ASSUME NEW o \in Objects, TimeOut(o)
      PROVE  SteadyInv'
  BY <1>8, TimeOutSteady
<1> QED BY <1>2, <1>3, <1>4, <1>5, <1>6, <1>7, <1>8 DEF Next, CallStep

\* Whatever scripts add and remove between two calls, or in other lists, a round
\* passes over no object of a level that is due, unless the object to resume
\* from came back.
THEOREM RoundCoversAlways == Spec => RoundCovers
<1> DEFINE Covers == RoundEnds /\ ~requeued =>
                       \A level \in Levels : \A o \in Listed(level) \cap steady :
                         Due(level) => times[o] >= 1
<1>1. TypeInv /\ SteadyInv /\ [Next]_vars => [Covers]_vars
  <2> SUFFICES ASSUME TypeInv, SteadyInv, Next, RoundEnds, ~requeued,
                      NEW level \in Levels, NEW o \in Listed(level) \cap steady, Due(level)
               PROVE  times[o] >= 1
    OBVIOUS
  <2>1. phase = "levels" /\ last_ai_level_index > Top
    BY CounterSteps DEF RoundEnds, RoundDone
  <2>2. level < last_ai_level_index
    BY <2>1 DEF TypeInv, LevelInv, Levels
  <2>3. GonePast(o, level)
    BY <2>2 DEF GonePast
  <2> QED BY <2>3 DEF SteadyInv
<1> HIDE DEF Covers
<1>2. Spec => [][Covers]_vars
  BY <1>1, InitTypes, NextTypes, InitSteady, NextSteady, PTL DEF Spec
<1> QED BY <1>2 DEF RoundCovers, Covers

-----------------------------------------------------------------------------
(* The pace of the main loop                                               *)

USE MainLoopAssumption

\* The time the loop accounts for, with the pause it is in, and the turns that
\* belong to it.
Accounted == last_main_loop_start_time - main_loop_recover_time + sleep_time_usec
TurnsDue == turns * LOOP_PAUSE_TIME_USEC + (IF asleep THEN LOOP_PAUSE_TIME_USEC ELSE 0)

\* MainLoopTypeOK in two halves: numbers and flags are matters of different provers.
NumbersOK ==
  /\ clock \in 0..MaxClock
  /\ last_main_loop_start_time \in Int
  /\ main_loop_recover_time \in 0..(LOOP_MAX_ELAPSED_TIME_USEC - LOOP_PAUSE_TIME_USEC)
  /\ sleep_time_usec \in Nat /\ to_sleep \in 0..sleep_time_usec
  /\ back \in Nat /\ owed \in Nat /\ mark \in 0..MaxClock /\ turns \in Nat

FlagsOK == asleep \in BOOLEAN /\ watched \in BOOLEAN /\ gave_up \in BOOLEAN

\* The loop is ahead of the clock only by what the clock was set back, and by
\* what its last pause was cut off.
BackInv ==
  /\ ~asleep => sleep_time_usec = 0 /\ last_main_loop_start_time <= clock + back + owed
  /\ asleep => last_main_loop_start_time + sleep_time_usec <= clock + to_sleep + back + owed

\* Each turn adds its length to what is accounted for, or more when the limit
\* forgets some; that much later and not earlier the turns are due.
PaceInv ==
  watched =>
    /\ mark <= clock /\ last_main_loop_start_time <= clock
    /\ asleep => last_main_loop_start_time + sleep_time_usec <= clock + to_sleep
    /\ sleep_time_usec <= LOOP_PAUSE_TIME_USEC
    /\ turns > 0 \/ asleep => TurnsDue <= Accounted - mark + LOOP_MAX_ELAPSED_TIME_USEC
    /\ ~gave_up => Accounted <= mark + TurnsDue

LoopInv == MainLoopTypeOK /\ BackInv /\ PaceInv

LEMMA TypeHalves == MainLoopTypeOK <=> NumbersOK /\ FlagsOK
  BY DEF MainLoopTypeOK, NumbersOK, FlagsOK

LEMMA TypeHalvesNext == MainLoopTypeOK' <=> NumbersOK' /\ FlagsOK'
  BY DEF MainLoopTypeOK, NumbersOK, FlagsOK

LEMMA LimitIsOnePauseAtLeast ==
  /\ LOOP_MAX_ELAPSED_TIME_USEC \in Nat
  /\ LOOP_PAUSE_TIME_USEC <= LOOP_MAX_ELAPSED_TIME_USEC
<1>1. Burst * LOOP_PAUSE_TIME_USEC >= LOOP_PAUSE_TIME_USEC /\ Burst * LOOP_PAUSE_TIME_USEC \in Nat
  BY SMT
<1> QED BY <1>1 DEF LOOP_MAX_ELAPSED_TIME_USEC

LEMMA OneMoreTurn ==
  \A t \in Nat : /\ t * LOOP_PAUSE_TIME_USEC \in Nat
                 /\ (t + 1) * LOOP_PAUSE_TIME_USEC = t * LOOP_PAUSE_TIME_USEC + LOOP_PAUSE_TIME_USEC
  BY SMT

\* What is recovered is never more than the loop is behind, nor than the limit.
LEMMA RecoveredBounds ==
  ASSUME MainLoopTypeOK
  PROVE  /\ Recovered \in Int
         /\ Recovered <= LOOP_MAX_ELAPSED_TIME_USEC
         /\ Recovered <= Behind
         /\ Behind = clock - last_main_loop_start_time + main_loop_recover_time
         /\ Recovered < LOOP_PAUSE_TIME_USEC => Recovered = Behind
  BY LimitIsOnePauseAtLeast DEF MainLoopTypeOK, Recovered, Behind

\* What a useconds_t holds of a time: all of it when it is short enough.
LEMMA Conversion ==
  \A t \in Nat : /\ t % Useconds \in 0..t
                 /\ t < Useconds => t % Useconds = t
  BY SMT

\* What a pause asks for and what it waits.
LEMMA PauseAsks ==
  ASSUME MainLoopTypeOK, Pause
  PROVE  /\ sleep_time_usec' \in Nat \ {0} /\ sleep_time_usec' = LOOP_PAUSE_TIME_USEC - Recovered
         /\ to_sleep' \in 0..sleep_time_usec' /\ owed' = sleep_time_usec' - to_sleep'
         /\ sleep_time_usec' < Useconds => to_sleep' = sleep_time_usec'
<1>1. sleep_time_usec' \in Nat \ {0} /\ sleep_time_usec' = LOOP_PAUSE_TIME_USEC - Recovered
  BY RecoveredBounds DEF Pause
<1>2. to_sleep' = sleep_time_usec' % Useconds /\ owed' = sleep_time_usec' - to_sleep'
  BY DEF Pause
<1> QED BY <1>1, <1>2, Conversion

LEMMA InitLoop == MainLoopInit => LoopInv
<1> SUFFICES ASSUME MainLoopInit PROVE LoopInv
  OBVIOUS
<1>1. MainLoopTypeOK
  <2>1. NumbersOK
    BY LimitIsOnePauseAtLeast DEF MainLoopInit, NumbersOK
  <2>2. FlagsOK
    BY DEF MainLoopInit, FlagsOK
  <2> QED BY <2>1, <2>2, TypeHalves
<1>2. BackInv
  BY DEF MainLoopInit, BackInv
<1>3. PaceInv
  BY DEF MainLoopInit, PaceInv
<1> QED BY <1>1, <1>2, <1>3 DEF LoopInv

LEMMA TickLoop == LoopInv /\ Tick => LoopInv'
  BY DEF LoopInv, Tick, MainLoopTypeOK, BackInv, PaceInv, TurnsDue, Accounted, pacing, window

LEMMA SetClockLoop == LoopInv /\ SetClock => LoopInv'
<1> SUFFICES ASSUME LoopInv, SetClock PROVE LoopInv'
  OBVIOUS
<1>1. MainLoopTypeOK'
  <2>1. NumbersOK'
    BY DEF LoopInv, SetClock, MainLoopTypeOK, NumbersOK, pacing
  <2>2. FlagsOK'
    BY DEF LoopInv, SetClock, MainLoopTypeOK, FlagsOK, pacing
  <2> QED BY <2>1, <2>2, TypeHalvesNext
<1>2. BackInv'
  BY DEF LoopInv, SetClock, MainLoopTypeOK, BackInv, pacing
<1>3. PaceInv'
  BY DEF SetClock, PaceInv
<1> QED BY <1>1, <1>2, <1>3 DEF LoopInv

LEMMA WatchLoop == LoopInv /\ Watch => LoopInv'
<1> SUFFICES ASSUME LoopInv, Watch PROVE LoopInv'
  OBVIOUS
<1>1. MainLoopTypeOK' /\ BackInv'
  BY DEF LoopInv, Watch, MainLoopTypeOK, BackInv, pacing
<1>2. TurnsDue' = 0
  BY DEF Watch, TurnsDue, pacing
<1>3. PaceInv'
  BY <1>2, LimitIsOnePauseAtLeast
     DEF LoopInv, Watch, MainLoopTypeOK, BackInv, PaceInv, Accounted, pacing
<1> QED BY <1>1, <1>3 DEF LoopInv

LEMMA SkipPauseLoop == LoopInv /\ SkipPause => LoopInv'
<1> SUFFICES ASSUME LoopInv, SkipPause PROVE LoopInv'
  OBVIOUS
<1>1. MainLoopTypeOK' /\ BackInv'
  BY RecoveredBounds, LimitIsOnePauseAtLeast DEF LoopInv, SkipPause, CountTurn, MainLoopTypeOK, BackInv
<1>2. ASSUME watched PROVE TurnsDue' = TurnsDue + LOOP_PAUSE_TIME_USEC /\ TurnsDue \in Nat
  BY <1>2, OneMoreTurn DEF LoopInv, SkipPause, CountTurn, MainLoopTypeOK, TurnsDue
<1>3. Accounted' = clock - Recovered + LOOP_PAUSE_TIME_USEC /\ Accounted = clock - Behind
  BY RecoveredBounds DEF LoopInv, SkipPause, MainLoopTypeOK, BackInv, Accounted
<1>4. turns = 0 => TurnsDue = 0
  BY DEF SkipPause, TurnsDue
<1>5. ASSUME watched
      PROVE  /\ mark <= clock /\ sleep_time_usec = 0
             /\ TurnsDue <= Accounted - mark + LOOP_MAX_ELAPSED_TIME_USEC \/ TurnsDue = 0
             /\ ~gave_up => Accounted <= mark + TurnsDue
  BY <1>4, <1>5 DEF LoopInv, SkipPause, MainLoopTypeOK, BackInv, PaceInv
<1>6. ASSUME watched
      PROVE  TurnsDue' <= Accounted' - mark + LOOP_MAX_ELAPSED_TIME_USEC
  BY <1>2, <1>3, <1>5, <1>6, RecoveredBounds, LimitIsOnePauseAtLeast DEF LoopInv, MainLoopTypeOK, NumbersOK
<1>7. ASSUME watched, ~gave_up'
      PROVE  Accounted' <= mark + TurnsDue'
  <2>1. ~gave_up /\ Recovered = Behind
    <3>1. ~gave_up /\ ~(Recovered < Behind)
      BY <1>7, Zenon DEF SkipPause
    <3>2. Behind \in Int
      BY DEF LoopInv, MainLoopTypeOK, Behind
    <3> QED BY <3>1, <3>2, RecoveredBounds DEF LoopInv
  <2> QED BY <1>2, <1>3, <1>5, <1>7, <2>1, RecoveredBounds DEF LoopInv, MainLoopTypeOK
<1>8. PaceInv'
  BY <1>5, <1>6, <1>7 DEF LoopInv, SkipPause, MainLoopTypeOK, PaceInv
<1> QED BY <1>1, <1>8 DEF LoopInv

LEMMA PauseLoop == LoopInv /\ Pause => LoopInv'
<1> SUFFICES ASSUME LoopInv, Pause PROVE LoopInv'
  OBVIOUS
<1>1. MainLoopTypeOK' /\ BackInv'
  BY PauseAsks, LimitIsOnePauseAtLeast DEF LoopInv, Pause, window, MainLoopTypeOK, BackInv
<1>2. watched => to_sleep' = sleep_time_usec' /\ sleep_time_usec' <= LOOP_PAUSE_TIME_USEC
  BY PauseAsks, RecoveredBounds DEF LoopInv, MainLoopTypeOK, PaceInv, Pause
<1>3. TurnsDue' = TurnsDue + LOOP_PAUSE_TIME_USEC /\ TurnsDue \in Nat
  BY OneMoreTurn DEF LoopInv, Pause, window, MainLoopTypeOK, TurnsDue
<1>4. Accounted' = clock - Recovered + LOOP_PAUSE_TIME_USEC /\ Accounted = clock - Behind
  BY RecoveredBounds DEF LoopInv, Pause, MainLoopTypeOK, BackInv, Accounted
<1>5. turns = 0 => TurnsDue = 0
  BY DEF Pause, TurnsDue
<1>6. PaceInv'
  BY <1>1, <1>2, <1>3, <1>4, <1>5, PauseAsks, RecoveredBounds, LimitIsOnePauseAtLeast
     DEF LoopInv, Pause, window, MainLoopTypeOK, BackInv, PaceInv
<1> QED BY <1>1, <1>6 DEF LoopInv

LEMMA WakeLoop == LoopInv /\ Wake => LoopInv'
<1> SUFFICES ASSUME LoopInv, Wake PROVE LoopInv'
  OBVIOUS
<1>1. MainLoopTypeOK' /\ BackInv'
  <2>1. MainLoopTypeOK'
    <3>1. NumbersOK'
      BY DEF LoopInv, Wake, CountTurn, MainLoopTypeOK, NumbersOK
    <3>2. FlagsOK'
      BY DEF LoopInv, Wake, MainLoopTypeOK, FlagsOK
    <3> QED BY <3>1, <3>2, TypeHalvesNext
  <2>2. BackInv'
    BY DEF LoopInv, Wake, MainLoopTypeOK, BackInv
  <2> QED BY <2>1, <2>2
<1>2. watched => TurnsDue' = TurnsDue
  BY OneMoreTurn DEF LoopInv, Wake, CountTurn, MainLoopTypeOK, TurnsDue
<1>3. Accounted' = Accounted
  BY DEF LoopInv, Wake, MainLoopTypeOK, Accounted
<1>4. PaceInv'
  BY <1>1, <1>2, <1>3 DEF LoopInv, Wake, CountTurn, MainLoopTypeOK, PaceInv
<1> QED BY <1>1, <1>4 DEF LoopInv

LEMMA NextLoop == LoopInv /\ [MainLoopNext]_main_loop_vars => LoopInv'
<1>1. LoopInv /\ UNCHANGED main_loop_vars => LoopInv'
  BY DEF LoopInv, main_loop_vars, pacing, window, MainLoopTypeOK, BackInv, PaceInv, TurnsDue, Accounted
<1> QED BY <1>1, TickLoop, SetClockLoop, WatchLoop, SkipPauseLoop, PauseLoop, WakeLoop
        DEF MainLoopNext, TimeUp

-----------------------------------------------------------------------------

\* The loop's clocks stay on their grid and its count of turns stays natural,
\* however the wall clock is set while it sleeps or works.
THEOREM MainLoopTypeCorrect == MainLoopSpec => []MainLoopTypeOK
<1>1. LoopInv => MainLoopTypeOK
  BY DEF LoopInv
<1> QED BY <1>1, InitLoop, NextLoop, PTL DEF MainLoopSpec

\* Between any two moments the loop begins no more turns than there is time
\* for, and LOOP_MAX_ELAPSED_TIME_USEC worth of them.
THEOREM NeverTooFastAlways == MainLoopSpec => []NeverTooFast
<1>1. LoopInv => NeverTooFast
  BY LimitIsOnePauseAtLeast, OneMoreTurn
     DEF LoopInv, MainLoopTypeOK, BackInv, PaceInv, TurnsDue, Accounted, NeverTooFast
<1> QED BY <1>1, InitLoop, NextLoop, PTL DEF MainLoopSpec

\* The loop does not pause while it has turns to make up for.
THEOREM NeverPausesLateAlways == MainLoopSpec => NeverPausesLate
<1> DEFINE InTime == Pause /\ watched /\ ~gave_up =>
                       clock < mark + (turns + 1) * LOOP_PAUSE_TIME_USEC
<1>1. LoopInv => [InTime]_main_loop_vars
  BY RecoveredBounds, OneMoreTurn
     DEF LoopInv, MainLoopTypeOK, BackInv, PaceInv, Pause, TurnsDue, Accounted
<1> HIDE DEF InTime
<1>2. MainLoopSpec => [][InTime]_main_loop_vars
  BY <1>1, InitLoop, NextLoop, PTL DEF MainLoopSpec
<1> QED BY <1>2 DEF NeverPausesLate, InTime

\* A pause is asked to last as long as a turn at most, apart from what the
\* clock was set back and what the last pause was cut off; and it is cut off
\* only when those come near the range of a useconds_t.
THEOREM PauseAlwaysBounded == MainLoopSpec => PauseBounded
<1> DEFINE Bounded == Pause => /\ sleep_time_usec' \in 1..(LOOP_PAUSE_TIME_USEC + back + owed)
                               /\ owed' # 0 => back + owed >= Useconds - LOOP_PAUSE_TIME_USEC
<1>1. LoopInv => [Bounded]_main_loop_vars
  <2> SUFFICES ASSUME LoopInv, Pause PROVE Bounded
    OBVIOUS
  <2>1. Recovered = Behind /\ ~asleep /\ last_main_loop_start_time <= clock + back + owed
    BY RecoveredBounds DEF LoopInv, BackInv, Pause
  <2>2. sleep_time_usec' \in 1..(LOOP_PAUSE_TIME_USEC + back + owed)
    BY <2>1, PauseAsks, RecoveredBounds DEF LoopInv, MainLoopTypeOK
  <2>3. sleep_time_usec' < Useconds => owed' = 0
    BY PauseAsks DEF LoopInv
  <2> QED BY <2>2, <2>3 DEF LoopInv, MainLoopTypeOK
<1> HIDE DEF Bounded
<1>2. MainLoopSpec => [][Bounded]_main_loop_vars
  BY <1>1, InitLoop, NextLoop, PTL DEF MainLoopSpec
<1> QED BY <1>2 DEF PauseBounded, Bounded

=============================================================================
