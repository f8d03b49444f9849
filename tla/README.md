# Sinfar NWNX: a TLA+ model of the game server plugin

`src/nwnx/sinfarx` is a plugin for the Linux server of Neverwinter Nights. It is loaded into the
engine's process, replaces some of its functions by hooks, and adds several hundred functions to
the scripting language. The engine itself is not in the repository: what is modelled is the
plugin's code, with the engine as its environment. `map` in PROJECT.json says for every definition
which lines it stands for; definitions of what is outside the repository are marked external there.

1. The system
2. Modules, and how they correspond to the code
3. Runs: what is checked, with which bounds
4. Fairness
5. Proofs
6. Findings
7. What is not modelled, and the plan

## 1. The system

A deployment is several server processes, one per UDP port, and one MySQL database that all of
them and a web site share. Inside a process everything happens in one thread: the main loop calls
the engine, the engine calls hooks, hooks run scripts, scripts call functions of the plugin and
run further scripts. So there are three kinds of concurrency:

- *between servers*: the SQL statements of the handlers of different servers interleave, and a
  server may die between any two of them;
- *re-entrance*: a handler, or a loop over some container, runs a script half way through, and the
  script may do to the same data whatever scripts may do;
- *between calls*: a loop that ran out of time, a client's answer, a delayed command or a queued
  event finds, later, another state than the one it was left or made in.

| Component (source) | State it keeps | Operations | Interacts with | What makes it correct |
|---|---|---|---|---|
| Login and accounts (`player.cpp`, `core.cpp`) | tables `players`, `players_cdkeys`, `unlocked_accounts`, `pcs`, `pcs_status`; `players_info`, connection slots | BNCS, BNVS messages, module info, PC creation, disconnection, shutdown, start | other servers through the database; the web site | an account plays once at a time; locks are always given back; no session is left open |
| Areas and presence (`area.cpp`, `player.cpp`, `ai.cpp`) | `mod_areas`, `num_players`, `active_areas`, DM lists, automaps, open containers | create, destroy, wake, suspend; a player enters, moves, leaves, saves | scripts inside handlers; the AI scheduler | counts are exact; nothing points to a freed area; a map is the map of its area |
| Main loop and AI scheduler (`ai.cpp`) | `ai_objects`, level and object to resume from, requests, time to recover | pause, update, queue, move between levels | scripts run by what it updates | pace; every object its turn, once; requests are served |
| Game objects and tags (`core.cpp`, `object.cpp`, `creature.cpp`) | `cgoa`, two counters of ids, `tags_map` | make, destroy, find, tag, give a new id | everything: scripts, lists and events keep ids | an id means one object for ever; the index has each object once |
| Script events and virtual machine (`script_event.cpp`, `nwscript.cpp`, `events.cpp`) | stacks of running events and of names, scripts registered for a script, bypass flag, last command popped | nested runs, registration, bypass, parameters, results, delayed commands | every component that runs scripts | a result goes to who asked; every registered script runs, once; a bypass is of the script it was asked for |
| Variable events (`nwscript_funcs/varevents.cpp`) | local variables of the object, flag and name of the current event | register, unregister, run, bypass | scripts run by events of objects | the variables are a set of scripts with marks; each is served |
| Dialogs (`dialog.cpp`) | the dialog of each speaker, scopes set around nested scripts, requests to stop | start, answer, one-liners, stop | scheduler (requests), scripts, client | one conversation per speaker, no pointer to one that ended |
| Database connection (`mysql.cpp`, `nwscript.cpp`) | `mysql_server_results`, the row each is at, dbresults in variables and delayed commands | query, fetch, let go | scripts, all tables | a result lives as long as its dbresult; the newest one is the one read |
| Object storage and vaults (`objectstorage.cpp`) | rows of stored objects | store, retrieve, delete | database, game objects | an object is neither lost nor doubled |
| Resources (`resman.cpp`, `erf.cpp`, `cached2da.cpp`, `setting.cpp`) | index of resources over haks, 2da caches | load, override, look up | engine's resource manager | the newest hak wins; caches are the file |
| Client synchronisation (`nwncx.cpp`) | last-update object per client | compare, send the difference | clients with the plugin | what the client has is what was sent |
| Possession (`possess.cpp`) | a player's own and current creature | possess, return | areas, dialogs | the player always has its own creature to return to |
| Chat and servers' messages (`chat.cpp`, `server.cpp`, `BNMessage.h`) | UDP messages, channels, commands of web clients | send, forward, expire | other servers, web site | a message reaches each addressee once at most |
| Combat, rules, factions, validation (`combat*.cpp`, `spell.cpp`, `elc.cpp`, `cstmfac.cpp`, ...) | engine records | arithmetic on rules | scripts | reference definitions |
| Extended data (`xdata.cpp`) | nested values | encode, decode | storage, variables | decoding undoes encoding |
| Client plugin, launcher, file tools, patches, vendored code | | | | |

The hard behaviours, with the line where each bites, are the `hazards` of PROJECT.json.

## 2. Modules, and how they correspond to the code

### AccountLock, LoginProtocol

`AccountLock` is the abstract promise: an account is held by at most one server, and whoever plays
it sits in one connection slot of the server that holds it. Servers acquire, enter, vacate and
release.

`LoginProtocol` is the code. Its first variables are the tables; `step`, `cur` and `req` say, for
each server, which handler runs, on which slot, and for which BNCS message. **Every SQL statement is
a step of its own**, so all interleavings of the handlers of several servers are there:

- start: `PrepareRows`, `PrepareLocks` (`prepare_databases`: close the rows of the accounts the
  predecessor died with, then release those accounts);
- BNCS: `HandleBNCSMessage`, `CheckAccount`, `Refuse`, `CheckCdkeys`, `CheckUnlocked`,
  `DeleteUnlocked`, `CountPcs`, `DeleteCdkeys`, `Allocate`. The message answers "in use" when the name is in
  the client list, and goes on with its checks all the same, as the code does;
- BNVS: `HandleBNVSMessage`, `SetPlayerConnectedInDb` (the guarded UPDATE, or the INSERT of a new
  account, whose affected rows decide), `RegisterCdkey`;
- in the game: `SendModuleInfo`, `FindPc`, `PC_Create`, `InsertPc`, `InsertRow`;
- departure: `DisconnectPlayer`, `ReleaseLock`, `CloseRows`; at shutdown `ReleaseAll` and
  `CloseRowsStopping` until `Exit`; `Crash` at any point.

`db_player_id` is read at BNCS and kept: an account that is created at BNVS keeps owner 0, which the
model keeps as `NoPlayer`. Passwords, bans and roles are the nondeterministic choice of `Refuse`.

A session that found no PC opens a row of PC 0 (`NoPC`), and its destructor closes the rows of PC 0,
everybody's; when a script gives it a PC (`PlayPc`), the destructor closes the rows of that PC only.
`lost_rows` is history: the PCs with an open row that no session and no start of a server will close,
from a crash or from `PlayPc`, until another session of the PC comes and closes all its rows.
One statement may fail, the COUNT of `CountPcs`: `query_int` then gives 0, which lets the login in. The
others do not fail in the model (section 7).

### Areas

One server. `handler` is the handler a script interrupts: `SendArea` ... `SendAreaDone` is
`SendServerToPlayerArea_ClientArea_HookProc` with the script `msds_ev_pcloada` in between,
`RemovePCFromWorld` ... `RemovePCFromWorldDone` has the script that is run when the character
leaves its area, after its automap is saved (`player.cpp:1243`), and `SaveServerChar` ... `SaveServerCharDone` has the same
script between the automap and the container of a character that is saved to leave. `ScriptStep` is
what a script may call there or at any other time. The scripts that run before anything else in a hook, or
after everything else (`possess_stop`, `pc_ev_save`, `pc_ev_enterarea`), are scripts between two handlers.
`Less`/`More` are the unsigned decrement and increment of `num_players` (modulo `Word`). Automaps
are a list of areas and a list of blocks, as in the code, where a block is abstracted to the set of
area templates whose exploration was written to it. A freed area's block may be used again for a new area
while a handler still has the pointer.

### MainLoop

`MainLoop_USleep`: `SkipPause` when a turn's time or more is to be recovered, else `Pause`, `usleep`,
`Wake`. `clock` is `gettimeofday`: `Tick` lets time pass in a turn or in `usleep`, which may last
too long, and `SetClock` sets it, forward or back. `usleep` takes a type of `Useconds` values: `Pause` sleeps
`sleep_time_usec % Useconds` (`to_sleep`), and what was cut off is `owed`, which the start of the next turn is moved on by all
the same. Its specification is `MainLoopSpec`: its names are told
apart from `AIScheduler`'s, whose `UpdateAIState` a turn calls, so that one module can prove both. `watched`, `mark`, `turns` and `gave_up` are history: the turns
begun since an arbitrary moment.

### AIScheduler

`UpdateAIState`, loop by loop: the requests (`StopDialog`), the events that are due, the level the
last call left (`Resume`), the other levels, the end of the round. `next` and `end` are the pointers
of the loop that runs, and `moved` says that the array under them was reallocated: from then on, or past
the end, the object read is any (`Read`). The clock is a free choice: `TimeOut` may
happen at any object. Scripts (`ScriptStep`) move objects between the levels and queue requests and
events wherever a script may run. How the engine's list appends and closes gaps is external.

### GameObjects

`cgoa` by id, the counters, `tags_map`. An object is a block of memory that may be used again
(`Objects`), its id is what others keep. `CreateObject` is the engine making an object:
`AddInternalObject` and then `AddToLookupTable`. `SetTag` and `UpdateItemAppearance` are
the script functions; `Destroy` is the engine's destructor, through the hooks, which take a
placeable or creature from the index and do nothing for items. OBJECT_INVALID is inside the range of the ids, as in the code
(0x7f000000): characters' ids count down to it and the others' up to it.

`Areas` relies on it: there, ids of areas are never reused. That is `IdsNotReused` here.

### ScriptMachine

The stack of calls of `RunScript_HookProc` (`calls`, the innermost last), and beside it the stacks the code
keeps: `last_script_ran` (the names) and `running_events` (the results). A call goes from one
registered script to the next (`RunRegistered`, `AfterRegistered`), then to the script itself
(`RunBody`, `ScriptEnds`); while a call's script is running it may do anything scripts do:
`Execute`, `RunEvent`, `RegisterEvent`, `UnregisterEvent`, `ByPassRegisteredEvent`, `SetResult`,
`SetScript`, also to the lists and names of the calls it is inside of. What the loop holds is as in
the code: a count read at the start, a reference to a vector that may be destroyed (`vector_gone`), a
pointer to a name that may be freed (`name`, of a script slot of an object). `Throw` is the end
of the process. The interpreter between two such steps is external.

### EventRegistry, VariableEvents

`EventRegistry` is the abstract promise: per event of an object a set of scripts, each with its mark
"runs even when bypassed". `VariableEvents` is the code: the first script in one local variable, the others in numbered
ones, a count, the marks beside them; `calls` are the calls of `RunVariableEvent` inside one another.
Running a script is not a step: what a script does is any of the other actions until `ScriptEnds`.

A local string that is not there is read as a null pointer (`core.cpp:718-722`), and `varevents.cpp`
makes a `std::string` of it, which throws. The branch for an event without a first script
(`varevents.cpp:175`) is therefore not reached for an object that never had the variable; the first
script comes from a plain `SetLocalString` (`SetVariable`), and `RunVariableEvent`, `RegisterVariableEvent` and
`UnregisterVariableEvent` of an event without one are `Throw`.

### DatabaseResults

`mysql_server_results` as a sequence, the front first; `made` the dbresults that live, the oldest
first; `scripts` and `delayed` where their copies are. Copies go one at a time, as the engine calls the
hook (`DestroyGameDefinedStructure`): a variable that is overwritten or whose block ends
(`DropVariable`), a delayed command that is thrown away (`DropDelayed`), a script that ends after its
variables. A dbresult left without a copy is destroyed and takes out the first result with its pointer
(`Erased`). Results without rows have the pointer NULL and are told apart by nothing. `SQLFetch` moves
the result in front; there is no other way to read one. A query that fails makes neither.

## 3. Runs: what is checked, with which bounds

| Run | Instance | Shows |
|---|---|---|
| `login_safety` | 2 servers, 2 clients with one key, 1 account, 2 slots | types, `NoDoubleLogin`, `NoStuckLock`, `OpenRowsAccounted`, `KeysAddedUnderLock`, `RowsOfPlayersKept`, and the refinement `ImplementsAccountLock` |
| `login_liveness` | 1 server, 2 clients with different keys, 1 account that may be unlocked, 2 slots | `RestartReleases` |
| `areas` | 2 players, up to 3 areas of one template, 2 containers | `CountsExact`, `CharacterInLoadedArea`, `NoDanglingArea`, `OneContainer`, `NoAreaDestroyedUnderPlayers` |
| `automap` | 1 player who explores, 2 templates, up to 3 areas | `AutomapParallel` |
| `automap_saved` | the same | finding: `SavedMapIsOwn` is violated |
| `main_loop` | pause 3, limit 3 pauses, `usleep` takes 0..4, start at 4, up to time 24, set back by at most 6, the loop ahead of the clock by at most 12 | `NeverTooFast`, `NeverPausesLate`, `PauseBounded` |
| `ai_scheduler` | 3 objects, 2 levels, one event queued at a time | `ResumesDueLevel`, `OncePerRound`, `RoundCovers` |
| `ai_liveness` | 2 objects in one level, one event queued at a time, up to 3 requests | `RoundsEnd`, `RequestsServed` |
| `variable_events` | 1 event of an object, 3 scripts, up to 2 beside the first, 2 calls inside one another | `SlotsPacked`, `EveryScriptServed`, `BypassHonoured`, and the refinement `ImplementsRegistry` |
| `script_machine` | 3 scripts; `door` has `door`, `guard` and `alarm` registered, `alarm` has `guard`; 3 calls inside one another | `StacksMatch`, `HandlersServed`, `BypassScoped` |
| `database_results` | 3 dbresults, 2 addresses, 2 delayed commands, 3 scripts inside one another, results of one row | `ResultsHeld`, `RowsOfNewest` |
| `game_objects` | 3 blocks, 2 tags (one with `P_`), ids 0..6, OBJECT_INVALID 4 | `FoundUnderId`, `TagsExact`, `IdsNotReused` |

Why these bounds are enough:

- *login*: what can go wrong needs two contenders for one account, on one server (two slots) or on
  two. Accounts meet only in `ReleaseAll` and `PrepareLocks`, which act on all of a server's: one
  account shows their order, and the theorems hold for any number. The liveness property is about one server's
  handler; the other servers only take accounts it does not hold.
- *areas*: two players make a count that is neither 0 nor all of them, and `Word` = 8 leaves room
  for a wrap to be seen; three areas are the two a player moves between and one that is
  created or destroyed meanwhile. `MaxAreas` bounds the areas *ever* created, ids being unique.
- *automap*: two initial areas and a third are the least where an id in the middle is removed and one is added
  behind. Exploration is followed in this instance only (`Explorers`).
- *main_loop*: the limit is three pauses instead of 20, so that it is reached, exceeded and used up several times
  until time 24. Longer clocks show the same differences of times. `Useconds` is 5 instead of 2^32: more than a pause,
  as in the code, and so little that a clock set back by `MaxBack` = 6 passes it; `MaxAhead` keeps the pauses that are
  owed within the clock's range.
- *AI*: `Top` = 1 makes two levels, one updated each round and one every third (`Interval`);
  `Period` = 3 is a common multiple. Three objects make a list with a first, a middle and a
  last. `MaxEvents` and `MaxRequests` bound the queues: an event at a time may destroy an object or run a
  script between any two calls. In `ai_liveness` one level of two objects is the least
  that can be resumed in its middle; which level is resumed is in `ai_scheduler`. An event may use up the time of a call
  before the first object. `MaxRequests` = 3 lets a request that is served queue another behind two, which
  moves the vector under the loop: without that exception `RequestsServed` is violated in this instance.
- *game_objects*: four ids count up and two down before one of them is OBJECT_INVALID; after that nothing is
  made (`Exhausted`), and what is there may still be retagged and destroyed.

- *variable_events*: a first script and two others are the least where the last one moves to a place in the middle
  of the loop. A second call inside the first is the least that can reset the flag; that it is of the same event
  makes it meet the same variables, and the theorems hold for any number of events.
- *script_machine*: three registered scripts are needed for the list to be shortened below the place of
  the loop without being emptied. Three calls are a script, one registered for it and one registered for
  that one, or run by it; what a third call runs in its turn is left to the theorems, which hold for every depth. A script registered for itself runs itself for ever in the code;
  here it stops at `MaxDepth`. One value of a result and "none set" are enough to tell whose a result is.
- *database_results*: two results without rows on either side of one with rows are the least where
  NULL stands for the wrong one, and two addresses the least where one is used again beside another.
  Elements of the same kind are alike (symmetry); the properties name none of them.

`CHECK_DEADLOCK` is on except in `variable_events` and `script_machine`, where the server may have
ended or stand at the bound of the calls: `TimeUp` and `Exhausted` are the steps at the end of the
bounded time and of the ids.

Each property has at least one mutant of the code that violates it, in the module beside the
definition it replaces: for instance a lock that is taken without looking, a count that is not
reset, a loop that starts from the first object, a pause whose recovered time is not taken off.

Some properties are stated with what the code does *not* promise:

- `OpenRowsAccounted` excepts the rows of `lost_rows`, which stay open for good, in two ways: a crash cuts off the last
  session of a PC whose account was given back already, or whose row names no account (player 0, PC 0), which
  `prepare_databases` cannot find; or the last session without a PC gets one and leaves the row of PC 0 open. All
  other open rows, of PC 0 and of player 0 too, are accounted for.
- `RowsOfPlayersKept` excepts the late end of an earlier session of the same PC on another server, which does close the
  new session's row, and the rows of PC 0, which all sessions without a PC share.
- `RoundCovers` excepts rounds in which the object to resume from was taken out and put back, which
  moves it to the end of its list, and objects whose place was not sure when a list was changed
  under the loop.
- `RequestsServed` excepts a vector of requests that a request made the vector reallocate.
- `NeverPausesLate` excepts time lost beyond the limit; `PauseBounded` allows for a
  clock set back, and for what `usleep`'s type cut off from an earlier pause: then the loop is ahead of the clock
  and asks for the difference at every pause, until the clock catches up.
- `EveryScriptServed` says nothing of a call during which a script was registered for its event, and not that no
  script runs twice when one was taken out: the last one takes its place and may have run.
- `HandlersServed` excepts calls whose list of registered scripts, or whose name, was changed under them.
- `BypassHonoured` and `BypassScoped` except calls in which another event, or another script with
  registered scripts, began: it resets the flag, and leaves its own bypass behind.
- `RowsOfNewest` and `ResultsHeld` say that the newest result *with rows* is in front; while the newest query
  had none, a row of an older one may be read. A query that failed is none of these: the `SQLFetch` after it reads
  what is in front, whoever's it is.
- `CharacterInLoadedArea` excepts the character that is being removed from the world.
- `FoundUnderId` and `TagsExact` hold until OBJECT_INVALID was given out as an id.

## 4. Fairness

- `LoginProtocol!FairSpec`: weak fairness of `HandlerStep(s)` for every server: a handler that
  started goes on, because the thread has nothing else to run and waits for no other server (the
  statements hold no lock across steps). Clients, the web site, restarts and crashes are not fair.
- `AIScheduler!FairSpec`: weak fairness of `CallStep`: the main loop calls `UpdateAIState` for ever.
  Strong fairness of updating an object: the 10 ms of a turn are not always used up before the
  first object. Without it the events of every call could use the time and no round would end, which
  the code does allow; the assumption is on the load. Scripts are not fair, and `RoundsEnd`
  asks only for rounds once scripts leave the lists alone.

Safety properties are checked without fairness.

## 5. Proofs

All theorems hold for every value of the constants under the named assumptions of each module
(`LoginAssumption`, `AreasAssumption`, ...): those say that the "no" values are not members, that
sets of players are finite, and that numbers are in their ranges.

`IInv` and the like are inductive: they hold at first, every step keeps them, and the property follows.
`TypeCorrect` is the type invariant of each module.

| Module | Theorem | Argument |
|---|---|---|
| `LoginProtocol_proofs` | `TypeCorrect`, `TypeAndLock`, `NoDoubleLoginAlways` | `NoDoubleLogin` is not inductive: nothing in it says that a playing slot's account is locked. `LockInv` adds that every slot in the game, or about to be, *claims* its account: the server holds it, no other slot of the server claims it, and a handler that is about to release it has no rival; `HandlerInv` says what a running handler may rely on. |
| | `LoginImplementsAccountLock` | Mapping: holder = `players.current_server`, seats = the slots in the game and not on their way out. Under `LockInv` every step is an acquire, enter, vacate, release or a stutter; a crash is a vacate, a restart a release. |
| | `NoStuckLockAlways` | `ReleaseInv`: an account a server holds has a slot that plays it, or a handler about to admit its player, or the server is starting and `PrepareLocks` will find it; and the slot whose rows are being closed, the last thing before it is freed, holds no account any more. |
| | `OpenRowsAccountedAlways` | `RowInv`: for an open row that is not lost there is a server that accounts for it (`AccountsFor`): a session of its plays the PC, or PC 0, or the server holds the account and has still to start and close the row; and the PC a slot plays belongs to the slot's player (`OwnPc`), so that closing by player closes it. A step of one server leaves what the others account for as it was (`AloneRowInv`). |
| | `RowsOfPlayersAlwaysKept` | Three statements close rows (`RowClosers`). A server that starts closes the rows of the accounts it holds, and a player in the game has its account held by its own server (`LockInv`), which is not starting; a slot whose rows are being closed holds its account no more (`ReleaseInv`), so it is not on the server of a player in the game with the same PC. |
| | `KeysUnderLock` | A key is added in `RegisterCdkey` only, which `HandlerInv` puts behind a lock the server took. |
| `Areas_proofs` | `TypeCorrect`, `CountsAlwaysExact`, `AreasOutliveTheirPlayers` | `CountInv`: the counts are the cardinalities of the sets of players, ids of areas are handed out in order and an area never created has nobody in it; the area a handler is about to load exists or is gone, and its player is not counted anywhere else. `CountedOut` and `CountedIn` are the two lemmas about cardinalities. No wrap follows from the players being fewer than `Word`. |
| | `NoAreaEverDangles`, `CharactersInLoadedAreas` | `ListInv`: the list of areas has each area once and only those that exist. `CharInv`: a player who is being sent an area stands in none, so what is loaded meanwhile, and what a script does in between, takes no character's area away. |
| | `OneContainerAlways` | `ContInv`: what is open exists, so that closing the container the server remembers closes it. |
| | `AutomapsParallel` | `MapInv`: a player without a character has no automap, so a block is read and written only where there is one; every change of the list of areas is made in all automaps. |
| `AIScheduler_proofs` | `TypeCorrect`, `ResumesDueLevelAlways` | `LevelInv`: in each phase, the level index is in range and the level that is gone through, or left, is due. `ListsInv`, `RoundInv`, `CursorInv`, `QueueInv`, `FlagsInv` and `HistoryInv` type the rest: an object is in one list at most, once, and the loop's pointers are inside the list as it was. |
| | `OncePerRoundAlways` | `CalmInv`: in a list nobody touched, the objects up to the loop's place (`Passed`) were updated once this round and the others not at all. |
| | `RoundCoversAlways` | `SteadyInv`: what is behind the loop's place (`GonePast`) was updated, for the objects whose place is sure, whatever was taken out of the list or appended; a removal keeps the order of the others (`OrderKept`), an addition comes last (`OrderGrows`). |
| | `MainLoopTypeCorrect`, `NeverTooFastAlways`, `NeverPausesLateAlways`, `PauseAlwaysBounded` | Of `MainLoop`. A conservation law: the time the loop accounts for (`Accounted`: the last start less what is to be recovered, plus the pause it is in) moves by one pause length with every turn (`TurnsDue`), and by more only when the limit forgets some. For the pauses: the loop is ahead of the clock by no more than the clock was set back and the pauses cut off (`back + owed`), and a pause is cut off only if it is asked to last `Useconds` or more (`Conversion`, `PauseAsks`). |
| `GameObjects_proofs` | `TypeCorrect`, `FoundUnderIdAlways`, `IdsNeverReused`, `TagsAlwaysExact` | `CounterInv`: the ids given out are those the counters passed, so a new one is new. `FoundInv` and `IndexInv` relate ids, objects and the index apart from OBJECT_INVALID; only together are they inductive. |
| `VariableEvents_proofs` | `TypeCorrect`, `SlotsAlwaysPacked`, `RegistryImplemented`, `EveryScriptAlwaysServed`, `BypassAlwaysHonoured` | `SlotsPacked` makes the search loops find the one match there is. For each running call (`Served`): every entry of the registry is a script it ran, or one it has still to look at in a slot, with its mark, or unmarked in a bypassed call. Taking a script out changes no slot but that script's own, and a script that moves to it is still found by the loop in its old slot, which is left as it was and is inside the old count. `OwnGlobals`: the flag agrees with the history of the innermost call as long as no other event began inside it. |
| `ScriptMachine_proofs` | `TypeCorrect`, `HandlersAlwaysServed`, `BypassAlwaysScoped` | `IInv`: no script is registered twice for another; the calls are nested, each one below the innermost waiting for a registered script or running its own (`Nested`), so a list can only change under calls that wait; and each call fits its list and the flag (`Fit`): unless the list changed, it ran what is behind its place in it, the newest first, its vector is destroyed only under its last script, and the flag says whether one of its own scripts asked for the bypass. One lemma says, for each step of a call, that it still fits; `RunScriptFits`, `InnermostFits`, `ReturnFits` and `MappedFit` lift them to the stack. |
| | `StacksAlwaysMatch` | Each stack the code keeps is the calls that pushed to it, in their order (`IsStack`: as many, and the place of each is the number of such calls below it). `StackPushed`, `StackPopped` and `StackKept` say what a call that begins, ends or is left alone does to that, and `RunScriptStacks` and a lemma per action apply them. |
| `DatabaseResults_proofs` | `ResultsAlwaysHeld`, `RowsAlwaysOfNewest` | `IInv` relates two sequences of pointers, those of the results and those of the dbresults in the order they were made (`Aligned`): as many, each pointer but NULL at most once and in both or neither, the results with rows in the opposite order of their dbresults and none farther back than the queries made since allow. A query keeps this (`AlignedPushed`). When a dbresult goes, its result is there (`AlignedGone`: were all results left with rows, there would be more of them than dbresults) and what is left is aligned (`AlignedAfter`: the one hard case is a dbresult without rows, made after one with rows, that takes out a result *behind* that one's; then all results in front of it have rows, and counting their dbresults shows there was a place to spare). |
| `SequenceFacts` | lemmas only | What the operators on sequences do to a list: `PutFront`, `PutBack`, `RemovePlace`, `RemoveOne`, `PlaceFound`, `OrderKept`, ... and that a search from the front finds the first match (`FirstNatural`, from the well-foundedness of `<`). |

Every invariant and action property of a passing run is the subject of a theorem. Only model-checked
are the three liveness properties, `RequestsServed`, `RoundsEnd` and
`RestartReleases`: fairness and ENABLED are out of the prover's reach. Beyond the runs, the theorems hold
for any number of servers, clients, accounts, areas, objects, scripts and calls; what they rest on of the
bounds is that there are some.

## 6. Findings

- `automap_saved`: when an area is destroyed, `update_auto_map_data` (`player.cpp:853-876`) copies
  the list of areas, from which the id was removed in the middle, but frees the *last* block of
  tiles. From then on the index of an area is not the index of its block, and `SaveAutomapData`
  stores in `pcs_minimaps` the exploration of another area. The comment "find the area index in the
  automap_data array" (`player.cpp:1150`) says what the index was meant to be.

Met while modelling, and stated as exceptions above: rows that no recovery finds, accounts whose
PCs are filed under player 0, requests that are cleared unserved, an id equal to OBJECT_INVALID.

## 7. What is not modelled, and the plan

SQL statements do not fail in `LoginProtocol`, but for the COUNT of `CountPcs`. The code looks at the result of few of them:
an UPDATE that fails in `reset_player_current_server` leaves the account locked until its server starts again, one in
`~PLAYER_EXTRA` or `prepare_databases` leaves rows open or accounts locked, a SELECT that fails in
`SendServerToPlayerModuleInfo_HookProc` gives the session PC 0. Those of the BNCS checks before the COUNT refuse the login
when they fail, as `Refuse` may, or find no unlock; a guarded UPDATE that fails takes no account.
`NoStuckLock`, `OpenRowsAccounted` and `RestartReleases` are promised for a database that works.

Assumed, or left out on purpose: the test for an object that is gone when a request to stop its dialog is served
(`nwscript_funcs/dialog.cpp:12`: nothing happens); every character has a PC id (`Areas`); `LoadArea` does not fail;
an update of areas in `UpdateAIState` is one step; `usleep` does not return early; the callers of
`CGOA_AddObjectAtPos` and the lists of an item that gets a new id (`GameObjects`); texts, wording,
logging. Combat, effects and most script functions read or write one field of an engine record and
keep no state; patches of machine code and crash guards are about the engine.

Next, in this order:

1. `Commands` (`nwscript.cpp`, `ai.cpp:340-395`), over `ScriptMachine`: ownership of the last popped command (taken by
   `AddTimedEvent`, `ScriptAddCommandAction`, or freed by the next pop): never freed twice, never
   leaked by an event handler that returns early.
2. `Dialogs` (`dialog.cpp`), composed with the requests of `AIScheduler`: a conversation ends once,
   its flags are those of its own scope, nothing refers to one that ended.
3. `ObjectSets` (`nwscript_funcs/utils.cpp:844-915`), over `GameObjects`: loops over registered
   objects with one global iterator, pruning, nested loops.
4. `ObjectStorage` (`objectstorage.cpp`): an object stored and taken out is neither lost nor
   doubled, with crashes.
5. `Resources`, `ClientSync`, `Possession`, `Chat`: caches and deltas against what they stand for.
6. `XData` and rules' arithmetic as pure functions checked against reference definitions.

Then proofs: a promise of the scheduler and one of the stack of scripts stated abstractly, as
`AccountLock` and `EventRegistry` are, with a proof that the code implements them.
