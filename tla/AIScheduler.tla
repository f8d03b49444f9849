------------------------------ MODULE AIScheduler ------------------------------
(***************************************************************************)
(* UpdateAIState (ai.cpp), called once per turn of the server's main loop:  *)
(* it runs the requests queued by scripts, the events that are due, and     *)
(* then updates the objects of the AI lists, level by level, until the turn *)
(* has used its 10 ms; the next call goes on where this one stopped.        *)
(*                                                                          *)
(* Requests, events and updates run scripts, and scripts change the lists   *)
(* the loops go through.  The clock is not modelled: any check of the time  *)
(* may find it used up.                                                     *)
(***************************************************************************)
EXTENDS Integers, Sequences, SequencesExt

CONSTANTS
  Objects,
  Top,        \* the highest AI level, 4 in the code
  Period,     \* bound: update_counter is kept modulo Period
  MaxEvents,  \* bound: events due at a time
  MaxRequests,\* bound: requests queued at a time
  NoObject    \* OBJECT_INVALID

Levels == 0..Top

\* A level is updated every Interval(level) rounds.
Interval(level) == 1 + (Top - level) * 2

ASSUME SchedulerAssumption ==
  /\ NoObject \notin Objects
  /\ Top \in Nat /\ Period \in Nat \ {0}
  /\ \A level \in Levels : Period % Interval(level) = 0
  /\ MaxEvents \in Nat /\ MaxRequests \in Nat

VARIABLES
  alive,                     \* what GetGameObject finds
  ai_objects,                \* the list of each level
  update_counter,
  last_ai_level_index,
  last_ai_update_object_id,
  pending_x_events,          \* the objects whose dialog a script wants stopped
  due_events,                \* the events EventPending finds
  phase,                     \* where the running call is
  next, end,                 \* p_object and p_last_object, or the range of the requests
  moved,                     \* the array that is gone through was reallocated
  scripting,                 \* a script may be running
  stopped,                   \* the object whose request the loop has just run
  \* history of the round
  times,                     \* how often an object was updated: 0, 1 or more
  calm,                      \* the levels whose list did not change
  steady,                    \* the objects whose place in their list is sure
  requeued                   \* the object to resume from left and came back

lists == <<alive, ai_objects>>
cursor == <<next, end, moved>>
round == <<update_counter, last_ai_level_index, last_ai_update_object_id>>
history == <<times, calm, steady, requeued>>
vars == <<lists, round, pending_x_events, due_events, phase, cursor, scripting, stopped, history>>

Event(kind, o) == [kind |-> kind, object |-> o]
Kinds == {"signal", "destroy"}

Listed(level) == ToSet(ai_objects[level])
Due(level) == update_counter % Interval(level) = 0

TypeOK ==
  /\ alive \subseteq Objects
  /\ ai_objects \in [Levels -> Seq(Objects)]
  /\ update_counter \in 0..(Period - 1)
  /\ last_ai_level_index \in 0..(Top + 1)
  /\ last_ai_update_object_id \in Objects \cup {NoObject}
  /\ pending_x_events \in Seq(Objects)
  /\ due_events \in Seq([kind : Kinds, object : Objects])
  /\ phase \in {"idle", "requests", "events", "levels", "objects"}
  /\ next \in Nat /\ end \in Nat
  /\ moved \in BOOLEAN /\ scripting \in BOOLEAN
  /\ stopped \in Objects \cup {NoObject}
  /\ times \in [Objects -> 0..2]
  /\ calm \subseteq Levels /\ steady \subseteq Objects /\ requeued \in BOOLEAN

NewRound(ls) ==
  /\ times' = [o \in Objects |-> 0]
  /\ calm' = Levels
  /\ steady' = UNION {ToSet(ls[level]) : level \in Levels}
  /\ requeued' = FALSE

\* Objects enter the lists when the module is loaded.
Init ==
  /\ alive = Objects
  /\ ai_objects = [level \in Levels |-> <<>>]
  /\ update_counter = 0
  /\ last_ai_level_index = 0
  /\ last_ai_update_object_id = NoObject
  /\ pending_x_events = <<>> /\ due_events = <<>>
  /\ phase = "idle"
  /\ next = 1 /\ end = 1 /\ moved = FALSE
  /\ scripting = FALSE
  /\ stopped = NoObject
  /\ times = [o \in Objects |-> 0]
  /\ calm = Levels /\ steady = {} /\ requeued = FALSE

-----------------------------------------------------------------------------
(* The AI lists.  The engine appends, and moves the rest down on removal;  *)
(* an object is in one list at most, and once.                             *)

Without(o) == [level \in Levels |-> RemoveFirst(ai_objects[level], o)]
LevelsOf(o) == {level \in Levels : o \in Listed(level)}

\* The level whose list is gone through.
InLoop == IF phase = "objects" THEN {last_ai_level_index} ELSE {}

\* What a change of the lists of some levels leaves sure: an object taken out
\* or put in is not, nor is any of a list that moves while it is gone through.
Disturb(o, changed, shifted) ==
  /\ calm' = calm \ changed
  /\ steady' = steady \ ({o} \cup UNION {Listed(level) : level \in shifted \cap InLoop})

RemoveObjectFromAI(o) ==
  /\ ai_objects' = Without(o)
  /\ Disturb(o, LevelsOf(o), LevelsOf(o))
  /\ UNCHANGED <<moved, requeued>>

AddObjectToAI(o, level) ==
  /\ ai_objects' = [Without(o) EXCEPT ![level] = Append(@, o)]
  /\ \E full \in BOOLEAN :
       /\ moved' = (moved \/ (full /\ level \in InLoop))
       /\ Disturb(o, LevelsOf(o) \cup {level}, LevelsOf(o) \cup (IF full THEN {level} ELSE {}))
  /\ requeued' = (requeued \/ o = last_ai_update_object_id)

-----------------------------------------------------------------------------
(* What scripts do: in a request, an event or an update, or when a message  *)
(* from a client is handled between two calls.                              *)

MayScript == scripting \/ phase = "idle"

ScriptRemoveObjectFromAI(o) ==
  /\ MayScript /\ o \in alive
  /\ RemoveObjectFromAI(o)
  /\ UNCHANGED <<alive, round, pending_x_events, due_events, phase, next, end, scripting,
                 stopped, times>>

ScriptAddObjectToAI(o, level) ==
  /\ MayScript /\ o \in alive
  /\ AddObjectToAI(o, level)
  /\ UNCHANGED <<alive, round, pending_x_events, due_events, phase, next, end, scripting,
                 stopped, times>>

\* StopDialog: done by the next call, and not in the script that asks for it.
\* A request made by a request may move the vector that is gone through.
StopDialog(o) ==
  /\ MayScript /\ Len(pending_x_events) < MaxRequests
  /\ pending_x_events' = Append(pending_x_events, o)
  /\ \E full \in BOOLEAN : moved' = (moved \/ (full /\ phase = "requests"))
  /\ UNCHANGED <<lists, round, due_events, phase, next, end, scripting, stopped, history>>

AddEvent(kind, o) ==
  /\ MayScript /\ Len(due_events) < MaxEvents
  /\ due_events' = Append(due_events, Event(kind, o))
  /\ UNCHANGED <<lists, round, pending_x_events, phase, cursor, scripting, stopped, history>>

ScriptStep ==
  \E o \in Objects :
    \/ ScriptRemoveObjectFromAI(o)
    \/ \E level \in Levels : ScriptAddObjectToAI(o, level)
    \/ StopDialog(o)
    \/ \E kind \in Kinds : AddEvent(kind, o)

-----------------------------------------------------------------------------
(* The requests and the events                                             *)

\* The loop's locals are gone.
LeaveLoop == next' = 1 /\ end' = 1 /\ moved' = FALSE

\* Mutant of UpdateAIState: the requests are cleared before they are run.
UpdateAIStateCleared ==
  /\ phase = "idle"
  /\ phase' = "requests"
  /\ pending_x_events' = <<>>
  /\ next' = 1 /\ end' = 1
  /\ moved' = FALSE
  /\ UNCHANGED <<lists, round, due_events, scripting, stopped, history>>

UpdateAIState ==
  /\ phase = "idle"
  /\ phase' = "requests"
  /\ next' = 1 /\ end' = Len(pending_x_events) + 1
  /\ moved' = FALSE
  /\ UNCHANGED <<lists, round, pending_x_events, due_events, scripting, stopped, history>>

\* A vector that moved is read where it was.
RunRequest ==
  /\ phase = "requests" /\ next < end
  /\ next' = next + 1
  /\ scripting' = TRUE
  /\ IF moved THEN stopped' \in Objects \cup {stopped} ELSE stopped' = pending_x_events[next]
  /\ UNCHANGED <<lists, round, pending_x_events, due_events, phase, end, moved, history>>

\* Every request is cleared, the ones made by requests too.
RequestsDone ==
  /\ phase = "requests" /\ next = end
  /\ pending_x_events' = <<>>
  /\ phase' = "events"
  /\ scripting' = FALSE
  /\ stopped' = NoObject
  /\ LeaveLoop
  /\ UNCHANGED <<lists, round, due_events, history>>

\* An event of an object that is gone is deleted.
HandleEvent ==
  LET e == Head(due_events)
  IN /\ phase = "events" /\ due_events # <<>>
     /\ due_events' = Tail(due_events)
     /\ IF e.object \in alive /\ e.kind = "destroy"
        THEN alive' = alive \ {e.object} /\ RemoveObjectFromAI(e.object)
        ELSE UNCHANGED <<lists, moved, calm, steady, requeued>>
     /\ scripting' = (e.object \in alive)
     /\ UNCHANGED <<round, pending_x_events, phase, next, end, stopped, times>>

-----------------------------------------------------------------------------
(* The levels                                                              *)

\* Mutants of Resume: every call starts from the first object; an object that
\* left its list ends its level.
ResumeFromStart == next' = 1

ResumeOrSkip ==
  LET found == SelectInSeq(ai_objects[last_ai_level_index],
                           LAMBDA o : o = last_ai_update_object_id)
  IN next' = IF found = 0 THEN Len(ai_objects[last_ai_level_index]) + 1 ELSE found

\* The object that was not updated for want of time, or the first one when it
\* left its list.
Resume ==
  LET found == SelectInSeq(ai_objects[last_ai_level_index],
                           LAMBDA o : o = last_ai_update_object_id)
  IN next' = IF found = 0 THEN 1 ELSE found

EventsDone ==
  /\ phase = "events" /\ due_events = <<>>
  /\ IF last_ai_update_object_id # NoObject
     THEN /\ Resume
          /\ end' = Len(ai_objects[last_ai_level_index]) + 1
          /\ phase' = "objects"
     ELSE /\ phase' = "levels"
          /\ UNCHANGED <<next, end>>
  /\ moved' = FALSE
  /\ scripting' = FALSE
  /\ UNCHANGED <<lists, round, pending_x_events, due_events, stopped, history>>

StartLevel ==
  /\ phase = "levels" /\ last_ai_level_index <= Top /\ Due(last_ai_level_index)
  /\ next' = 1 /\ end' = Len(ai_objects[last_ai_level_index]) + 1
  /\ moved' = FALSE
  /\ phase' = "objects"
  /\ UNCHANGED <<lists, round, pending_x_events, due_events, scripting, stopped, history>>

SkipLevel ==
  /\ phase = "levels" /\ last_ai_level_index <= Top /\ ~Due(last_ai_level_index)
  /\ last_ai_level_index' = last_ai_level_index + 1
  /\ UNCHANGED <<lists, update_counter, last_ai_update_object_id, pending_x_events, due_events,
                 phase, cursor, scripting, stopped, history>>

\* What *p_object may be: past the end, or in an array that moved, anything
\* that was left there.
Astray == moved \/ next > Len(ai_objects[last_ai_level_index])
Read == IF Astray THEN Objects ELSE {ai_objects[last_ai_level_index][next]}

\* An object that is gone is passed over.
UpdateObject(o) ==
  /\ phase = "objects" /\ next < end /\ o \in Read
  /\ next' = next + 1
  /\ scripting' = (o \in alive)
  /\ times' = IF o \in alive /\ times[o] < 2 THEN [times EXCEPT ![o] = @ + 1] ELSE times
  /\ calm' = IF Astray THEN {} ELSE calm
  /\ UNCHANGED <<lists, round, pending_x_events, due_events, phase, end, moved, stopped,
                 steady, requeued>>

\* The turn's time is used up.
TimeOut(o) ==
  /\ phase = "objects" /\ next < end /\ o \in Read
  /\ last_ai_update_object_id' = o
  /\ phase' = "idle"
  /\ scripting' = FALSE
  /\ LeaveLoop
  /\ UNCHANGED <<lists, update_counter, last_ai_level_index, pending_x_events, due_events,
                 stopped, history>>

\* Mutant of LevelDone: the level is counted by the resumption and by the loop.
LevelDoneTwice ==
  /\ phase = "objects" /\ next = end
  /\ last_ai_level_index' = last_ai_level_index + 2
  /\ phase' = "levels"
  /\ scripting' = FALSE
  /\ LeaveLoop
  /\ UNCHANGED <<lists, update_counter, last_ai_update_object_id, pending_x_events, due_events,
                 stopped, history>>

LevelDone ==
  /\ phase = "objects" /\ next = end
  /\ last_ai_level_index' = last_ai_level_index + 1
  /\ phase' = "levels"
  /\ scripting' = FALSE
  /\ LeaveLoop
  /\ UNCHANGED <<lists, update_counter, last_ai_update_object_id, pending_x_events, due_events,
                 stopped, history>>

\* Mutant of RoundDone: the object to resume from is kept.
RoundDoneNoReset ==
  /\ phase = "levels" /\ last_ai_level_index > Top
  /\ last_ai_level_index' = 0
  /\ update_counter' = (update_counter + 1) % Period
  /\ phase' = "idle"
  /\ NewRound(ai_objects)
  /\ UNCHANGED <<lists, last_ai_update_object_id, pending_x_events, due_events, cursor,
                 scripting, stopped>>

\* The round is over.  Every twelve rounds the module and the active areas are
\* updated, which queues their events.
RoundDone ==
  /\ phase = "levels" /\ last_ai_level_index > Top
  /\ last_ai_level_index' = 0
  /\ last_ai_update_object_id' = NoObject
  /\ update_counter' = (update_counter + 1) % Period
  /\ phase' = "idle"
  /\ NewRound(ai_objects)
  /\ UNCHANGED <<lists, pending_x_events, due_events, cursor, scripting, stopped>>

CallStep ==
  \/ UpdateAIState \/ RunRequest \/ RequestsDone \/ HandleEvent \/ EventsDone
  \/ StartLevel \/ SkipLevel \/ LevelDone \/ RoundDone
  \/ \E o \in Objects : UpdateObject(o) \/ TimeOut(o)

Next == ScriptStep \/ CallStep

Spec == Init /\ [][Next]_vars

\* The main loop calls for ever, and the clock does not always run out before
\* the first object of a turn.
FairSpec ==
  Spec /\ WF_vars(CallStep) /\ SF_vars(\E o \in Objects : UpdateObject(o))

-----------------------------------------------------------------------------
(* Properties                                                              *)

RoundEnds == update_counter' # update_counter

\* A call that resumes finds the level it left, and a level that is due.
ResumesDueLevel ==
  /\ phase = "idle" => last_ai_level_index <= Top
  /\ phase = "idle" /\ last_ai_update_object_id = NoObject => last_ai_level_index = 0
  /\ phase \in {"idle", "objects"} /\ last_ai_update_object_id # NoObject
       => last_ai_level_index <= Top /\ Due(last_ai_level_index)

\* In a level whose list did not change, however often the calls were cut off,
\* a round updates each object once if the level is due, and not at all if not.
OncePerRound ==
  [][RoundEnds => \A level \in calm : \A o \in Listed(level) \cap alive :
       times[o] = IF Due(level) THEN 1 ELSE 0]_vars

\* Changes between two calls, or of other lists, keep no object of a level
\* that is due from its update, unless the object to resume from came back.
RoundCovers ==
  [][RoundEnds /\ ~requeued => \A level \in Levels : \A o \in Listed(level) \cap steady :
       Due(level) => times[o] >= 1]_vars

\* Once scripts leave the lists and the queues alone, round follows round.
RoundsEnd == <>[][~ScriptStep]_vars => []<><<RoundDone>>_vars

\* A dialog that a script asked to stop between two calls is stopped by the
\* next one, unless a request that was run before it queued another one and
\* moved the vector under the loop.
RequestsServed ==
  \A o \in Objects :
    (phase = "idle" /\ o \in ToSet(pending_x_events)) ~> (stopped = o \/ (phase = "requests" /\ moved))

=============================================================================
