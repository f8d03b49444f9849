----------------------------- MODULE ScriptMachine -----------------------------
(***************************************************************************)
(* How scripts run inside one another (nwscript.cpp, script_event.cpp): the  *)
(* hook of the engine's RunScript runs the scripts registered for a script    *)
(* before the script itself, any of which may bypass it; script_event::run    *)
(* runs a script with parameters and a result.                                *)
(*                                                                          *)
(* Everything happens on one stack of calls.  A script does what it likes     *)
(* while it is the innermost one: it runs others, registers and unregisters,  *)
(* also for the calls it is inside of.  The interpreter that runs a script's  *)
(* code is external.                                                          *)
(***************************************************************************)
EXTENDS Integers, Sequences, FiniteSetsExt, SequencesExt

CONSTANTS
  Scripts,
  NoScript,       \* the text of a name that was freed
  Results,        \* what a script may set as the result of its event
  InitialResult,  \* -1, of the event that is running when none is
  NoResult,
  Registrations,  \* bound: the pairs of an event and a script scripts register
  MaxDepth        \* bound: calls of RunScript inside one another

ASSUME ScriptMachineAssumption ==
  /\ NoScript \notin Scripts
  /\ InitialResult \in Results /\ NoResult \notin Results
  /\ Registrations \subseteq Scripts \X Scripts
  /\ MaxDepth \in Nat

VARIABLES
  server_up,
  registered_events,
  bBypassRegisteredEvent,
  running_events,         \* the results of the running events, the innermost last
  last_script_ran,
  calls                   \* the calls of RunScript, the innermost last

vars == <<server_up, registered_events, bBypassRegisteredEvent, running_events,
          last_script_ran, calls>>

\* A call of RunScript.  The name it got is a string of the caller's: that of an
\* object's own script if slot, which a script can change.  next is the place in
\* the vector of the registered script that runs or is to run; vector_gone says
\* that the vector was destroyed meanwhile.
\* The rest is history: the registered scripts it ran, whether the list changed
\* meanwhile, whether one of them asked for the bypass or another dispatch began
\* inside this one, and the result last set.
Call == [
  script : Scripts, name : Scripts \union {NoScript}, slot : BOOLEAN,
  step : {"next", "handler", "returned", "body"},
  handler : BOOLEAN, event : BOOLEAN,
  next : Nat, vector_gone : BOOLEAN,
  ran : Seq(Scripts), changed : BOOLEAN, bypass : {"own", "none", "foreign"},
  result : Results \union {NoResult}]

TypeOK ==
  /\ server_up \in BOOLEAN
  /\ registered_events \in [Scripts -> Seq(Scripts)]
  /\ bBypassRegisteredEvent \in BOOLEAN
  /\ running_events \in Seq(Results \union {NoResult})
  /\ last_script_ran \in Seq(Scripts)
  /\ calls \in Seq(Call)

Init ==
  /\ server_up = TRUE
  /\ registered_events = [s \in Scripts |-> << >>]
  /\ bBypassRegisteredEvent = FALSE
  /\ running_events = <<InitialResult>>
  /\ last_script_ran = << >>
  /\ calls = << >>

Depth == Len(calls)
Innermost == calls[Depth]

\* A script's code is running, or the engine's own code is.
Running == Depth > 0 /\ Innermost.step = "body"
MayCall == (Depth = 0 \/ Running) /\ Depth < MaxDepth

\* An exception nobody catches, or a read through a pointer to nothing.
Throw ==
  /\ server_up' = FALSE
  /\ calls' = << >> /\ last_script_ran' = << >> /\ running_events' = <<InitialResult>>
  /\ bBypassRegisteredEvent' = FALSE
  /\ UNCHANGED registered_events

\* Mutant of NewCall: the loop starts one place too early.
NewCallShort(s, slot, handler, event) ==
  [script |-> s, name |-> s, slot |-> slot, handler |-> handler, event |-> event,
   step |-> "next", next |-> Max({0, Len(registered_events[s]) - 1}),
   vector_gone |-> FALSE, ran |-> << >>, changed |-> FALSE, bypass |-> "none",
   result |-> NoResult]

\* The call starts with the last of the scripts registered for the script, or
\* with the script itself when there is none.
NewCall(s, slot, handler, event) ==
  [script |-> s, name |-> s, slot |-> slot, handler |-> handler, event |-> event,
   step |-> "next", next |-> Len(registered_events[s]), vector_gone |-> FALSE,
   ran |-> << >>, changed |-> FALSE, bypass |-> "none", result |-> NoResult]

Foreign(c) == IF c.step = "body" THEN c ELSE [c EXCEPT !.bypass = "foreign"]

\* Mutant of RunScript: the flag of an earlier script is left as it is.
RunScriptUnreset(s, below, slot, handler, event) ==
  /\ calls' = Append(IF registered_events[s] = << >> THEN below
                     ELSE [k \in DOMAIN below |-> Foreign(below[k])],
                     NewCall(s, slot, handler, event))
  /\ UNCHANGED bBypassRegisteredEvent

\* RunScript_HookProc, up to its first step.
RunScript(s, below, slot, handler, event) ==
  IF registered_events[s] = << >>
  THEN /\ calls' = Append(below, NewCall(s, slot, handler, event))
       /\ UNCHANGED bBypassRegisteredEvent
  ELSE /\ calls' = Append([k \in DOMAIN below |-> Foreign(below[k])],
                          NewCall(s, slot, handler, event))
       /\ bBypassRegisteredEvent' = FALSE

\* The engine runs a script of an object, or a script runs another one.
Execute(s, slot) ==
  /\ MayCall
  /\ slot => Depth = 0
  /\ RunScript(s, calls, slot, FALSE, FALSE)
  /\ UNCHANGED <<server_up, registered_events, running_events, last_script_ran>>

\* script_event::run, from a script or from a hook.
RunEvent(s) ==
  /\ MayCall
  /\ running_events' = Append(running_events, NoResult)
  /\ RunScript(s, calls, FALSE, FALSE, TRUE)
  /\ UNCHANGED <<server_up, registered_events, last_script_ran>>

\* A delayed or assigned command: part of a script, for which nothing is
\* registered.
RunScriptSituation(s) ==
  /\ Depth = 0 /\ MaxDepth > 0
  /\ calls' = <<[NewCall(s, FALSE, FALSE, FALSE) EXCEPT !.step = "body", !.next = 0]>>
  /\ last_script_ran' = Append(last_script_ran, s)
  /\ UNCHANGED <<server_up, registered_events, bBypassRegisteredEvent, running_events>>

\* The next registered script.  vec_event is a reference to the vector of the
\* event: when the vector was destroyed, what is read there is nothing, or the
\* vector that was made in the same place.
RunRegistered ==
  LET c == Innermost
      list == registered_events[c.script]
  IN
  /\ Depth > 0 /\ c.step = "next" /\ c.next > 0
  /\ \/ (c.next > Len(list) \/ c.vector_gone) /\ Throw
     \/ /\ c.next <= Len(list)
        /\ Depth < MaxDepth
        /\ LET h == list[c.next] IN
           RunScript(h,
                     [calls EXCEPT ![Depth] =
                        [c EXCEPT !.step = "handler",
                                  !.ran = IF c.changed THEN @ ELSE Append(@, h)]],
                     FALSE, TRUE, FALSE)
        /\ UNCHANGED <<server_up, registered_events, running_events, last_script_ran>>

\* A call returns: the event it was run for is over, the call it was a registered
\* script of goes on.
Popped == SubSeq(calls, 1, Depth - 1)

\* Mutant of Return: the event is only over if its script was not bypassed.
ReturnUnbypassed ==
  /\ calls' = IF Innermost.handler
              THEN [Popped EXCEPT ![Depth - 1].step = "returned"] ELSE Popped
  /\ running_events' = IF Innermost.event /\ ~bBypassRegisteredEvent
                       THEN SubSeq(running_events, 1, Len(running_events) - 1)
                       ELSE running_events
  /\ UNCHANGED <<server_up, registered_events, bBypassRegisteredEvent>>

Return ==
  /\ calls' = IF Innermost.handler
              THEN [Popped EXCEPT ![Depth - 1].step = "returned"] ELSE Popped
  /\ running_events' = IF Innermost.event
                       THEN SubSeq(running_events, 1, Len(running_events) - 1)
                       ELSE running_events
  /\ UNCHANGED <<server_up, registered_events, bBypassRegisteredEvent>>

\* A registered script is over: the call returns if it was bypassed.
AfterRegistered ==
  /\ Depth > 0 /\ Innermost.step = "returned"
  /\ \/ bBypassRegisteredEvent /\ Return /\ UNCHANGED last_script_ran
     \/ /\ ~bBypassRegisteredEvent
        /\ calls' = [calls EXCEPT ![Depth].step = "next", ![Depth].next = @ - 1]
        /\ UNCHANGED <<server_up, registered_events, bBypassRegisteredEvent,
                       running_events, last_script_ran>>

\* Mutant of RunBody: a name that was freed is taken for one.
RunBodyUnchecked ==
  LET c == Innermost IN
  /\ Depth > 0 /\ c.step = "next" /\ c.next = 0
  /\ last_script_ran' = Append(last_script_ran, c.name)
  /\ calls' = [calls EXCEPT ![Depth] =
       [c EXCEPT !.step = "body", !.vector_gone = FALSE, !.ran = << >>,
                 !.changed = FALSE, !.bypass = "none"]]
  /\ UNCHANGED <<server_up, registered_events, bBypassRegisteredEvent, running_events>>

\* All of them are over: the name is read again, and the script itself runs.
RunBody ==
  LET c == Innermost IN
  /\ Depth > 0 /\ c.step = "next" /\ c.next = 0
  /\ \/ c.name = NoScript /\ Throw
     \/ /\ c.name # NoScript
        /\ last_script_ran' = Append(last_script_ran, c.name)
        /\ calls' = [calls EXCEPT ![Depth] =
             [c EXCEPT !.step = "body", !.script = c.name, !.vector_gone = FALSE,
                       !.ran = << >>, !.changed = FALSE, !.bypass = "none"]]
        /\ UNCHANGED <<server_up, registered_events, bBypassRegisteredEvent, running_events>>

ScriptEnds ==
  /\ Running
  /\ last_script_ran' = SubSeq(last_script_ran, 1, Len(last_script_ran) - 1)
  /\ Return

\* The loop erases every match; as there is one at most (RegisterEvent erases
\* before it adds), it does not matter that it passes over the script behind it.
Erased(list, h) ==
  IF \E i \in DOMAIN list : list[i] = h
  THEN RemoveAt(list, CHOOSE i \in DOMAIN list : list[i] = h) ELSE list

\* The list of e becomes list; if it was emptied its vector is destroyed, also if
\* another one is made at once.
Relisted(e, list, emptied) ==
  [k \in DOMAIN calls |->
     LET c == calls[k] IN
     IF c.script # e \/ c.step = "body" THEN c
     ELSE IF list = registered_events[e]
     THEN [c EXCEPT !.vector_gone = @ \/ emptied]
     ELSE [c EXCEPT !.vector_gone = @ \/ emptied, !.changed = TRUE, !.ran = << >>]]

RegisterEvent(e, h) ==
  LET erased == Erased(registered_events[e], h)
      list == Append(erased, h)
  IN
  /\ Running /\ <<e, h>> \in Registrations
  /\ registered_events' = [registered_events EXCEPT ![e] = list]
  /\ calls' = Relisted(e, list, erased = << >>)
  /\ UNCHANGED <<server_up, bBypassRegisteredEvent, running_events, last_script_ran>>

UnregisterEvent(e, h) ==
  LET erased == Erased(registered_events[e], h) IN
  /\ Running
  /\ registered_events' = [registered_events EXCEPT ![e] = erased]
  /\ calls' = Relisted(e, erased, erased = << >>)
  /\ UNCHANGED <<server_up, bBypassRegisteredEvent, running_events, last_script_ran>>

ByPassRegisteredEvent ==
  /\ Running
  /\ bBypassRegisteredEvent' = TRUE
  /\ calls' = [k \in DOMAIN calls |->
       IF calls[k].step # "body" /\ calls[k].bypass = "none"
       THEN [calls[k] EXCEPT !.bypass = "own"] ELSE calls[k]]
  /\ UNCHANGED <<server_up, registered_events, running_events, last_script_ran>>

\* The calls script_event::run is waiting for.
Events == {k \in DOMAIN calls : calls[k].event}

SetResult(r) ==
  /\ Running
  /\ running_events' = [running_events EXCEPT ![Len(running_events)] = r]
  /\ calls' = [k \in DOMAIN calls |->
       IF k \in Events /\ \A j \in Events : j <= k
       THEN [calls[k] EXCEPT !.result = r] ELSE calls[k]]
  /\ UNCHANGED <<server_up, registered_events, bBypassRegisteredEvent, last_script_ran>>

\* A script gives the object another script, or none, or the object is destroyed.
SetScript(s) ==
  /\ Running
  /\ calls[1].slot /\ calls[1].step # "body" /\ calls[1].name # s
  /\ calls' = [calls EXCEPT ![1].name = s]
  /\ UNCHANGED <<server_up, registered_events, bBypassRegisteredEvent, running_events,
                 last_script_ran>>

Next ==
  /\ server_up
  /\ \/ \E s \in Scripts :
          \/ \E slot \in BOOLEAN : Execute(s, slot)
          \/ RunEvent(s)
          \/ RunScriptSituation(s)
          \/ \E h \in Scripts : RegisterEvent(s, h) \/ UnregisterEvent(s, h)
     \/ RunRegistered
     \/ AfterRegistered
     \/ RunBody
     \/ ScriptEnds
     \/ ByPassRegisteredEvent
     \/ \E r \in Results : SetResult(r)
     \/ \E s \in Scripts \union {NoScript} : SetScript(s)

Spec == Init /\ [][Next]_vars

-----------------------------------------------------------------------------
\* What the calls have on the stacks: those whose script's own code was begun its
\* name, those of script_event::run its result.
Names(cs) == [k \in {j \in DOMAIN cs : cs[j].step = "body"} |-> cs[k].name]
Outcomes(cs) == [k \in {j \in DOMAIN cs : cs[j].event} |-> cs[k].result]

\* The stack holds the items of the calls in the calls' order, above what was
\* on it before.
IsStack(stack, below, item) ==
  /\ Len(stack) = below + Cardinality(DOMAIN item)
  /\ \A k \in DOMAIN item :
       stack[below + Cardinality({j \in DOMAIN item : j <= k})] = item[k]

\* The stacks of the events and of the names are those of the calls: a script that
\* asks for its parameters, its result or its name gets those of the call it
\* was run by, however the calls inside it were left.
StacksMatch ==
  /\ IsStack(last_script_ran, 0, Names(calls))
  /\ IsStack(running_events, 1, Outcomes(calls))

\* A script starts only after all the scripts registered for it ran, the newest
\* first and each once, and the server is not ended by the loop, unless the list
\* or the name was changed under it.
HandlersServed ==
  [][/\ RunBody /\ server_up' /\ ~Innermost.changed =>
          /\ Innermost.ran = Reverse(registered_events[Innermost.script])
          /\ IsInjective(Innermost.ran)
     /\ server_up /\ ~server_up' => Innermost.changed \/ Innermost.name # Innermost.script]_vars

\* The flag is global: as long as no other dispatch began inside this one, the
\* script is left out exactly if one of the scripts run for it asked for that.
BypassScoped ==
  [][AfterRegistered /\ Innermost.bypass # "foreign" =>
       (Len(calls') < Len(calls) <=> Innermost.bypass = "own")]_vars
=============================================================================
