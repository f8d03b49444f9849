---------------------------- MODULE VariableEvents ----------------------------
(***************************************************************************)
(* Variable events (nwscript_funcs/varevents.cpp): scripts registered for an *)
(* event of one object, kept in the object's local variables.  The first     *)
(* script is in the variable "event", the others in "event0", "event1", ...   *)
(* and their number in "event_COUNT"; "..._NOBP" marks a script that runs     *)
(* even when the event is bypassed.                                           *)
(*                                                                          *)
(* An element of Events is an object together with the name of an event.      *)
(* A local string that is not there is read as a null pointer                 *)
(* (core.cpp, get_local_string), of which varevents.cpp makes a std::string:  *)
(* that throws through the virtual machine and ends the server.               *)
(***************************************************************************)
EXTENDS Integers, Sequences, FiniteSets

CONSTANTS
  Events,
  Scripts,
  NoScript,   \* the local string is not there
  MaxCount,   \* bound: scripts registered beside the first
  MaxDepth    \* bound: RunVariableEvent called by a script of an event

ASSUME VariableEventsAssumption ==
  /\ NoScript \notin Scripts
  /\ MaxCount \in Nat /\ MaxDepth \in Nat

VARIABLES
  server_up,
  table,                 \* the local variables of each event
  bypass_current_event,
  current_event,         \* an event, or NoScript before the first
  calls                  \* the running calls of RunVariableEvent, the innermost last

vars == <<server_up, table, bypass_current_event, current_event, calls>>

Index == 0..(MaxCount - 1)
Script == Scripts \union {NoScript}

Variables == [
  first : Script, first_nobp : BOOLEAN,
  count : 0..MaxCount,
  slot : [Index -> Script], nobp : [Index -> BOOLEAN]]

\* A call of RunVariableEvent.  script_index is that of the script it runs, -1
\* for the first; registered_count is what it read at its start.  The rest is
\* history: the scripts it ran, whether one ran twice, whether one of them asked
\* for the bypass and whether another event ran meanwhile, and what became of the
\* registration of the event since the call began.
Call == [
  event : Events, script_index : -1..(MaxCount - 1), registered_count : 0..MaxCount,
  bypassed : BOOLEAN,
  ran : SUBSET Scripts, twice : BOOLEAN,
  bypass : {"own", "none", "foreign"},
  registration : {"same", "shrunk", "grown"}]

TypeOK ==
  /\ server_up \in BOOLEAN
  /\ table \in [Events -> Variables]
  /\ bypass_current_event \in BOOLEAN
  /\ current_event \in Events \union {NoScript}
  /\ calls \in Seq(Call)

Init ==
  /\ server_up = TRUE
  /\ table = [e \in Events |->
       [first |-> NoScript, first_nobp |-> FALSE, count |-> 0,
        slot |-> [i \in Index |-> NoScript], nobp |-> [i \in Index |-> FALSE]]]
  /\ bypass_current_event = FALSE
  /\ current_event = NoScript
  /\ calls = << >>

\* The slots in use, and those of them that hold the script.
Live(t) == 0..(t.count - 1)
At(t, s) == {i \in Live(t) : t.slot[i] = s}

\* History of the calls after scripts of e were taken out, or one was put in:
\* from then on nothing is said of the scripts the call runs.
Shrunk(e) ==
  [k \in DOMAIN calls |->
     IF calls[k].event = e /\ calls[k].registration = "same"
     THEN [calls[k] EXCEPT !.registration = "shrunk"] ELSE calls[k]]
Grown(e) ==
  [k \in DOMAIN calls |->
     IF calls[k].event = e
     THEN [calls[k] EXCEPT !.registration = "grown", !.ran = {}, !.twice = FALSE]
     ELSE calls[k]]
Ran(c, s) ==
  IF c.registration = "grown" THEN c
  ELSE [c EXCEPT !.ran = @ \union {s}, !.twice = @ \/ s \in c.ran]

\* The call goes on with the script s of slot i.
WithScript(c, i, bypassed, s) ==
  Ran([c EXCEPT !.script_index = i, !.bypassed = bypassed], s)

\* A null pointer made into a string: the process ends.
Throw ==
  /\ server_up' = FALSE
  /\ bypass_current_event' = FALSE /\ current_event' = NoScript /\ calls' = << >>
  /\ UNCHANGED table

\* A script writes the variable of the event itself, with SetLocalString: the
\* only way for an object to get the first script of an event.
SetVariable(e, s) ==
  /\ table[e].first = NoScript
  /\ table' = [table EXCEPT ![e].first = s]
  /\ calls' = Grown(e)
  /\ UNCHANGED <<server_up, bypass_current_event, current_event>>

\* Mutant of RegisterVariableEvent: it does not look for the script among the others.
RegisterUnseen(e, s, no_bypass) ==
  LET t == table[e] IN
  \/ t.first = NoScript /\ Throw
  \/ /\ \/ /\ t.first = s
           /\ table' = [table EXCEPT ![e] = [t EXCEPT !.first_nobp = no_bypass]]
        \/ /\ t.first \notin {s, NoScript}
           /\ t.count < MaxCount
           /\ table' = [table EXCEPT ![e] =
                          [t EXCEPT !.slot[t.count] = s, !.nobp[t.count] = no_bypass,
                                    !.count = t.count + 1]]
     /\ calls' = Grown(e)
     /\ UNCHANGED <<server_up, bypass_current_event, current_event>>

RegisterVariableEvent(e, s, no_bypass) ==
  LET t == table[e] IN
  \/ t.first = NoScript /\ Throw
  \/ /\ \/ /\ t.first = s
           /\ table' = [table EXCEPT ![e] = [t EXCEPT !.first_nobp = no_bypass]]
        \/ /\ t.first \notin {s, NoScript}
           /\ \E i \in At(t, s) :
                table' = [table EXCEPT ![e] = [t EXCEPT !.nobp[i] = no_bypass]]
        \/ /\ t.first \notin {s, NoScript} /\ At(t, s) = {}
           /\ t.count < MaxCount
           /\ table' = [table EXCEPT ![e] =
                          [t EXCEPT !.slot[t.count] = s, !.nobp[t.count] = no_bypass,
                                    !.count = t.count + 1]]
     /\ calls' = Grown(e)
     /\ UNCHANGED <<server_up, bypass_current_event, current_event>>

\* Mutant of UnregisterVariableEvent: the count goes down though nothing was found.
UnregisterAnyway(e, s) ==
  LET t == table[e] IN
  /\ t.first \notin {s, NoScript} /\ At(t, s) = {}
  /\ table' = [table EXCEPT ![e].count = t.count - 1]
  /\ calls' = Shrunk(e)
  /\ UNCHANGED <<server_up, bypass_current_event, current_event>>

\* Mutant of UnregisterVariableEvent: the mark is not moved with the script.
UnregisterUnmarked(e, s) ==
  LET t == table[e]
      last == t.count - 1
  IN
  \/ t.first = NoScript /\ Throw
  \/ /\ \/ /\ t.first = s /\ t.count = 0
           /\ table' = [table EXCEPT ![e] =
                          [t EXCEPT !.first = NoScript, !.first_nobp = FALSE]]
        \/ /\ t.first = s /\ t.count > 0
           /\ table' = [table EXCEPT ![e] =
                          [t EXCEPT !.first = t.slot[last], !.first_nobp = t.nobp[last],
                                    !.count = last]]
        \/ /\ t.first \notin {s, NoScript} /\ last \in At(t, s)
           /\ table' = [table EXCEPT ![e] =
                          [t EXCEPT !.slot[last] = NoScript, !.nobp[last] = FALSE,
                                    !.count = last]]
        \/ /\ t.first \notin {s, NoScript}
           /\ \E i \in At(t, s) \ {last} :
                table' = [table EXCEPT ![e] =
                           [t EXCEPT !.slot[i] = t.slot[last], !.count = last]]
     /\ calls' = Shrunk(e)
     /\ UNCHANGED <<server_up, bypass_current_event, current_event>>

\* The last of the others takes the place of the script taken out.
UnregisterVariableEvent(e, s) ==
  LET t == table[e]
      last == t.count - 1
  IN
  \/ t.first = NoScript /\ Throw
  \/ /\ \/ /\ t.first = s /\ t.count = 0
           /\ table' = [table EXCEPT ![e] =
                          [t EXCEPT !.first = NoScript, !.first_nobp = FALSE]]
        \/ /\ t.first = s /\ t.count > 0
           /\ table' = [table EXCEPT ![e] =
                          [t EXCEPT !.first = t.slot[last], !.first_nobp = t.nobp[last],
                                    !.count = last]]
        \/ /\ t.first \notin {s, NoScript} /\ last \in At(t, s)
           /\ table' = [table EXCEPT ![e] =
                          [t EXCEPT !.slot[last] = NoScript, !.nobp[last] = FALSE,
                                    !.count = last]]
        \/ /\ t.first \notin {s, NoScript}
           /\ \E i \in At(t, s) \ {last} :
                table' = [table EXCEPT ![e] =
                           [t EXCEPT !.slot[i] = t.slot[last], !.nobp[i] = t.nobp[last],
                                     !.count = last]]
     /\ calls' = Shrunk(e)
     /\ UNCHANGED <<server_up, bypass_current_event, current_event>>

BypassVariableEvent ==
  /\ bypass_current_event' = TRUE
  /\ calls' = [k \in DOMAIN calls |->
       IF k = Len(calls) /\ calls[k].bypass = "none"
       THEN [calls[k] EXCEPT !.bypass = "own"] ELSE calls[k]]
  /\ UNCHANGED <<server_up, table, current_event>>

NewCall(e) ==
  [event |-> e, script_index |-> -1, registered_count |-> table[e].count,
   bypassed |-> FALSE, ran |-> {table[e].first}, twice |-> FALSE,
   bypass |-> "none", registration |-> "same"]

\* Mutant of RunVariableEvent: the flag of an earlier event is left as it is.
RunUnreset(e) ==
  \/ table[e].first = NoScript /\ Throw
  \/ /\ table[e].first # NoScript
     /\ Len(calls) < MaxDepth
     /\ current_event' = e
     /\ calls' = Append([k \in DOMAIN calls |-> [calls[k] EXCEPT !.bypass = "foreign"]], NewCall(e))
     /\ UNCHANGED <<server_up, table, bypass_current_event>>

\* Up to the first script, which is then running.
RunVariableEvent(e) ==
  \/ table[e].first = NoScript /\ Throw
  \/ /\ table[e].first # NoScript
     /\ Len(calls) < MaxDepth
     /\ current_event' = e
     /\ bypass_current_event' = FALSE
     /\ calls' = Append([k \in DOMAIN calls |-> [calls[k] EXCEPT !.bypass = "foreign"]], NewCall(e))
     /\ UNCHANGED <<server_up, table>>

\* Mutant of Ahead: the count is read again for every script.
AheadByNow(c) == (c.script_index + 1)..(table[c.event].count - 1)

\* The slots the call has still to look at, of which a bypassed call runs the
\* marked ones only.
Ahead(c) == (c.script_index + 1)..(c.registered_count - 1)

ToRun(c, bypassed) == {i \in Ahead(c) : bypassed => table[c.event].nobp[i]}

\* A script of the innermost call ends; the next one runs, or the call returns.
ScriptEnds ==
  LET n == Len(calls)
      c == calls[n]
      bypassed == c.bypassed \/ bypass_current_event
  IN
  /\ n > 0
  /\ \/ /\ ToRun(c, bypassed) = {}
        /\ calls' = SubSeq(calls, 1, n - 1)
        /\ UNCHANGED <<server_up, table, bypass_current_event, current_event>>
     \/ \E i \in ToRun(c, bypassed) :
          LET s == table[c.event].slot[i] IN
          /\ \A j \in ToRun(c, bypassed) : i <= j
          /\ \/ s = NoScript /\ Throw
             \/ /\ s # NoScript
                /\ calls' = [calls EXCEPT ![n] = WithScript(c, i, bypassed, s)]
                /\ UNCHANGED <<server_up, table, bypass_current_event, current_event>>

Next ==
  /\ server_up
  /\ \/ \E e \in Events :
          \/ RunVariableEvent(e)
          \/ \E s \in Scripts :
               \/ SetVariable(e, s)
               \/ UnregisterVariableEvent(e, s)
               \/ \E no_bypass \in BOOLEAN : RegisterVariableEvent(e, s, no_bypass)
     \/ BypassVariableEvent
     \/ ScriptEnds

Spec == Init /\ [][Next]_vars

-----------------------------------------------------------------------------
\* No gap and no script twice: what the search loops of RegisterVariableEvent and
\* UnregisterVariableEvent rely on, which never look at a slot past the count and
\* stop at the first match, although what is taken out is overwritten by the last
\* script and the last slot is left as it was.
Packed(t) ==
  /\ t.first = NoScript => t.count = 0 /\ ~t.first_nobp
  /\ \A i \in Live(t) :
       /\ t.slot[i] \notin {NoScript, t.first}
       /\ \A j \in Live(t) : t.slot[i] = t.slot[j] => i = j

SlotsPacked == \A e \in Events : Packed(table[e])

\* The scripts of a table with their marks.
Entries(t) ==
  (IF t.first = NoScript THEN {} ELSE {<<t.first, t.first_nobp>>})
    \union {<<t.slot[i], t.nobp[i]>> : i \in Live(t)}

Registry ==
  INSTANCE EventRegistry WITH registry <- [e \in Events |-> Entries(table[e])]

\* The local variables implement the registry: a script moved to another slot
\* keeps its mark, and a slot used again does not inherit the mark left in it.
ImplementsRegistry == Registry!Spec

\* The innermost call returns in this step, having been bypassed or not.
Returns == server_up' /\ Len(calls') < Len(calls)
Innermost == calls[Len(calls)]
WasBypassed == Innermost.bypassed \/ bypass_current_event

\* RunVariableEvent goes by the count it read at its start, while its scripts
\* unregister scripts of the same event and others take their place.  When it
\* returns it has still run every script that is registered, and all the
\* marked ones if it was bypassed, as long as none was registered meanwhile; and
\* none twice if the registration did not change at all.
EveryScriptServed ==
  [][Returns =>
       /\ Innermost.registration # "grown" =>
            \A r \in Entries(table[Innermost.event]) :
              r[1] \in Innermost.ran \/ (WasBypassed /\ ~r[2])
       /\ Innermost.registration = "same" => ~Innermost.twice]_vars

\* The flag and the name of the event are global: as long as no event ran inside
\* this one, they are those of the innermost call, and RunVariableEvent
\* returns TRUE exactly if one of its own scripts called BypassVariableEvent.
BypassHonoured ==
  [][Returns /\ Innermost.bypass # "foreign" =>
       /\ WasBypassed <=> Innermost.bypass = "own"
       /\ current_event = Innermost.event]_vars
=============================================================================
