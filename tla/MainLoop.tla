------------------------------- MODULE MainLoop -------------------------------
(***************************************************************************)
(* The pacing of the server's main loop (ai.cpp): MainLoop_USleep stands    *)
(* for the engine's pause between two turns.  It gives back the time a long *)
(* turn took too much, by skipping pauses, up to a limit.                   *)
(*                                                                          *)
(* The time is read with gettimeofday, a clock that may be set.  What       *)
(* usleep waits is real time, that much or longer; it takes a useconds_t,   *)
(* and the int64_t it is called with is converted modulo its range.         *)
(*                                                                          *)
(* A turn calls UpdateAIState (AIScheduler).  The names do not clash with that *)
(* module's, so that the proofs can extend both.                              *)
(***************************************************************************)
EXTENDS Integers

CONSTANTS
  LOOP_PAUSE_TIME_USEC,
  Burst,      \* LOOP_MAX_ELAPSED_TIME_USEC is this many pauses, 20 in the code
  Useconds,   \* how many values a useconds_t has, 2^32 in the code
  Boot,       \* the time when the server starts
  MaxClock,   \* bound: the last moment that is looked at
  MaxBack,    \* bound: by how much the clock is set back between two calls
  MaxAhead    \* bound: how far it is set back behind what the loop accounts for

LOOP_MAX_ELAPSED_TIME_USEC == Burst * LOOP_PAUSE_TIME_USEC

ASSUME MainLoopAssumption ==
  /\ LOOP_PAUSE_TIME_USEC \in Nat \ {0}
  /\ Burst \in Nat \ {0}
  /\ Useconds \in Nat /\ LOOP_PAUSE_TIME_USEC < Useconds
  /\ MaxClock \in Nat /\ Boot \in 0..MaxClock /\ MaxBack \in Nat /\ MaxAhead \in Nat

VARIABLES
  clock,                      \* gettimeofday
  last_main_loop_start_time,
  main_loop_recover_time,
  asleep,                     \* in usleep
  sleep_time_usec,
  to_sleep,                   \* what is left of it
  \* history
  back,                       \* by how much the clock was set back since the last call
  owed,                       \* what the conversion cut off from the last pause
  watched,                    \* from a moment on, while the clock is not set:
  mark,                       \*   that moment, when a turn was running
  turns,                      \*   the turns begun since
  gave_up                     \*   whether more time was lost than is given back

pacing == <<last_main_loop_start_time, main_loop_recover_time, asleep, sleep_time_usec>>
window == <<watched, mark, turns, gave_up>>
main_loop_vars == <<clock, pacing, to_sleep, back, owed, window>>

MainLoopTypeOK ==
  /\ clock \in 0..MaxClock
  /\ last_main_loop_start_time \in Int
  /\ main_loop_recover_time \in 0..(LOOP_MAX_ELAPSED_TIME_USEC - LOOP_PAUSE_TIME_USEC)
  /\ asleep \in BOOLEAN
  /\ sleep_time_usec \in Nat /\ to_sleep \in 0..sleep_time_usec
  /\ back \in Nat /\ owed \in Nat
  /\ watched \in BOOLEAN /\ mark \in 0..MaxClock /\ turns \in Nat /\ gave_up \in BOOLEAN

MainLoopInit ==
  /\ clock = Boot
  /\ last_main_loop_start_time = 0
  /\ main_loop_recover_time = 0
  /\ asleep = FALSE
  /\ sleep_time_usec = 0 /\ to_sleep = 0
  /\ back = 0 /\ owed = 0
  /\ watched = FALSE /\ mark = 0 /\ turns = 0 /\ gave_up = FALSE

\* Time passes, in a turn or asleep.
Tick ==
  /\ clock < MaxClock
  /\ clock' = clock + 1
  /\ to_sleep' = IF to_sleep > 0 THEN to_sleep - 1 ELSE 0
  /\ UNCHANGED <<pacing, back, owed, window>>

\* The clock is set.
SetClock ==
  /\ \E t \in 0..MaxClock :
       /\ t # clock /\ clock - t <= MaxBack
       /\ last_main_loop_start_time + sleep_time_usec - t <= MaxAhead
       /\ clock' = t
       /\ back' = IF t < clock THEN back + (clock - t) ELSE back
  /\ back' <= MaxBack
  /\ watched' = FALSE /\ mark' = 0 /\ turns' = 0 /\ gave_up' = FALSE
  /\ UNCHANGED <<pacing, to_sleep, owed>>

\* From now on the turns are counted; not while the loop makes up for a clock
\* that was set back.
Watch ==
  /\ ~asleep /\ last_main_loop_start_time <= clock
  /\ watched' = TRUE /\ mark' = clock /\ turns' = 0 /\ gave_up' = FALSE
  /\ UNCHANGED <<clock, pacing, to_sleep, back, owed>>

CountTurn == turns' = IF watched THEN turns + 1 ELSE 0

\* The time the loop is behind, if there is no limit.
Behind == main_loop_recover_time + (clock - last_main_loop_start_time)

\* Mutant of Recovered: no limit.
RecoveredAll == Behind

Recovered == IF Behind > LOOP_MAX_ELAPSED_TIME_USEC THEN LOOP_MAX_ELAPSED_TIME_USEC ELSE Behind

\* Mutant of SkipPause: what is left to recover is forgotten.
SkipPauseForgetful ==
  /\ ~asleep /\ Recovered >= LOOP_PAUSE_TIME_USEC
  /\ main_loop_recover_time' = 0
  /\ last_main_loop_start_time' = clock
  /\ CountTurn
  /\ gave_up' = (gave_up \/ (watched /\ Recovered < Behind))
  /\ back' = 0 /\ owed' = 0
  /\ UNCHANGED <<clock, asleep, sleep_time_usec, to_sleep, watched, mark>>

\* MainLoop_USleep when a turn's time or more is to be recovered.
SkipPause ==
  /\ ~asleep /\ Recovered >= LOOP_PAUSE_TIME_USEC
  /\ main_loop_recover_time' = Recovered - LOOP_PAUSE_TIME_USEC
  /\ last_main_loop_start_time' = clock
  /\ CountTurn
  /\ gave_up' = (gave_up \/ (watched /\ Recovered < Behind))
  /\ back' = 0 /\ owed' = 0
  /\ UNCHANGED <<clock, asleep, sleep_time_usec, to_sleep, watched, mark>>

\* Mutant of Pause: what was recovered is not taken off.
PauseUnreset ==
  /\ ~asleep /\ Recovered < LOOP_PAUSE_TIME_USEC
  /\ sleep_time_usec' = LOOP_PAUSE_TIME_USEC - Recovered
  /\ to_sleep' = sleep_time_usec' % Useconds
  /\ owed' = sleep_time_usec' - to_sleep'
  /\ main_loop_recover_time' = Recovered
  /\ last_main_loop_start_time' = clock
  /\ asleep' = TRUE
  /\ back' = 0
  /\ UNCHANGED <<clock, window>>

\* MainLoop_USleep otherwise, up to usleep, which is asked for the whole
\* sleep_time_usec and waits what is left of it in a useconds_t.
Pause ==
  /\ ~asleep /\ Recovered < LOOP_PAUSE_TIME_USEC
  /\ sleep_time_usec' = LOOP_PAUSE_TIME_USEC - Recovered
  /\ to_sleep' = sleep_time_usec' % Useconds
  /\ owed' = sleep_time_usec' - to_sleep'
  /\ main_loop_recover_time' = 0
  /\ last_main_loop_start_time' = clock
  /\ asleep' = TRUE
  /\ back' = 0
  /\ UNCHANGED <<clock, window>>

\* Mutant of Wake: the pause counts as part of the turn.
WakeUncounted ==
  /\ asleep /\ to_sleep = 0
  /\ asleep' = FALSE
  /\ sleep_time_usec' = 0
  /\ CountTurn
  /\ UNCHANGED <<clock, last_main_loop_start_time, main_loop_recover_time, to_sleep, back,
                 owed, watched, mark, gave_up>>

\* usleep returns; what it waited too long counts as part of the turn.
Wake ==
  /\ asleep /\ to_sleep = 0
  /\ last_main_loop_start_time' = last_main_loop_start_time + sleep_time_usec
  /\ asleep' = FALSE
  /\ sleep_time_usec' = 0
  /\ CountTurn
  /\ UNCHANGED <<clock, main_loop_recover_time, to_sleep, back, owed, watched, mark, gave_up>>

\* Nothing is looked at after MaxClock.
TimeUp == clock = MaxClock /\ UNCHANGED main_loop_vars

MainLoopNext == Tick \/ SetClock \/ Watch \/ SkipPause \/ Pause \/ Wake \/ TimeUp

MainLoopSpec == MainLoopInit /\ [][MainLoopNext]_main_loop_vars

-----------------------------------------------------------------------------
(* Properties                                                              *)

\* From any moment on, no more turns are begun than there is time for, apart
\* from the Burst that make up for what came before: a stall is not followed
\* by an endless run of turns without a pause.
NeverTooFast ==
  watched => turns * LOOP_PAUSE_TIME_USEC <= (clock - mark) + LOOP_MAX_ELAPSED_TIME_USEC

\* The loop pauses only when it has begun its turns in time, one per pause
\* length since any moment in a turn, unless it lost more than it gives back.
NeverPausesLate ==
  [][Pause /\ watched /\ ~gave_up => clock < mark + (turns + 1) * LOOP_PAUSE_TIME_USEC]_main_loop_vars

\* A pause is asked to last no longer than a turn's time, except by what the
\* clock was set back since the last call and by what the conversion to a
\* useconds_t cut off from the pause before; and it is cut off only when these
\* two come to the range of a useconds_t, less a turn's time.  From then on
\* the loop is ahead of the clock: each pause is asked for the debt again, and
\* one after a turn longer than a pause waits for nearly all of it.
PauseBounded ==
  [][Pause => /\ sleep_time_usec' \in 1..(LOOP_PAUSE_TIME_USEC + back + owed)
              /\ owed' # 0 => back + owed >= Useconds - LOOP_PAUSE_TIME_USEC]_main_loop_vars

=============================================================================
