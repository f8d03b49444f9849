--------------------------------- MODULE Areas ---------------------------------
(***************************************************************************)
(* The areas of one running server (area.cpp, player.cpp, ai.cpp): their    *)
(* creation and destruction by scripts, the count of players each has, the  *)
(* sets of areas other parts keep, the automaps of the players' characters, *)
(* and the containers players have open.                                    *)
(*                                                                          *)
(* The server is single-threaded, but handlers run scripts half way:        *)
(* handler says which one, and until it goes on only what a script may call *)
(* takes steps.                                                             *)
(***************************************************************************)
EXTENDS Integers, Sequences, FiniteSets, SequencesExt

CONSTANTS
  Players,
  ResRefs,       \* area templates; a resref names its row of table areas
  InitialAreas,  \* the resrefs of the module's own areas
  MaxAreas,      \* bound: area objects that ever exist
  Explorers,     \* bound: the players whose exploration is followed
  Placeables,    \* containers
  Word,          \* num_players is a uint32_t: 2^32 in the code
  NoPlayer, NoResRef, NoRow, NoPlaceable

ASSUME AreasAssumption ==
  /\ NoPlayer \notin Players /\ IsFiniteSet(Players) /\ Explorers \subseteq Players
  /\ NoResRef \notin ResRefs
  /\ NoPlaceable \notin Placeables
  /\ InitialAreas \in Seq(ResRefs)
  /\ MaxAreas \in Nat /\ Len(InitialAreas) <= MaxAreas
  /\ Word \in Nat /\ Cardinality(Players) < Word

AreaIds == 1..MaxAreas
NoArea == 0          \* OBJECT_INVALID

VARIABLES
  alive,             \* the area objects GetAreaById finds
  resref,            \* resref[a]: the template of area a; object ids are not reused
  mod_areas,         \* CNWSModule::mod_areas
  num_players,       \* CNWSArea::num_players
  active_areas,      \* ai::active_areas
  dm_client_prefix,  \* the resrefs whose prefix is in dm_client_prefix
  dm_client_areas,
  in_world,          \* players whose character exists
  loaded_area_id,    \* PLAYER_EXTRA::loaded_area_id
  obj_area_id,       \* the area the character is in
  automap,           \* the character's cre_automap_areas and tile data
  pcs_minimaps,      \* the table: one saved automap per PC and area template
  placeables,        \* the placeables that exist
  players_current_container,
  opened,            \* the engine's view: who looks into what
  handler            \* the handler a script interrupts

objects == <<alive, resref, mod_areas, active_areas, dm_client_prefix, dm_client_areas>>
presence == <<num_players, loaded_area_id>>
characters == <<in_world, obj_area_id, automap, pcs_minimaps>>
containers == <<placeables, players_current_container, opened>>
vars == <<objects, presence, characters, containers, handler>>

\* An automap: the areas, and the tiles explored in each.  What a block of
\* tiles holds is the set of templates whose exploration was written to it.
Map(ids, tiles) == [areas |-> ids, tiles |-> tiles]
NoMap == Map(<<>>, <<>>)

Handler(kind, p, a) == [kind |-> kind, player |-> p, area |-> a]
Idle == Handler("idle", NoPlayer, NoArea)

TypeOK ==
  /\ alive \subseteq AreaIds
  /\ resref \in [AreaIds -> ResRefs \cup {NoResRef}]
  /\ mod_areas \in Seq(AreaIds)
  /\ num_players \in [AreaIds -> 0..(Word - 1)]
  /\ active_areas \subseteq AreaIds
  /\ dm_client_prefix \subseteq ResRefs
  /\ dm_client_areas \subseteq AreaIds
  /\ in_world \subseteq Players
  /\ loaded_area_id \in [Players -> AreaIds \cup {NoArea}]
  /\ obj_area_id \in [Players -> AreaIds \cup {NoArea}]
  /\ automap \in [Players -> [areas : Seq(AreaIds), tiles : Seq(SUBSET ResRefs)]]
  /\ pcs_minimaps \in [Players -> [ResRefs -> (SUBSET ResRefs) \cup {NoRow}]]
  /\ placeables \subseteq Placeables
  /\ players_current_container \in [Players -> Placeables \cup {NoPlaceable}]
  /\ opened \subseteq Players \X Placeables
  /\ handler \in [kind : {"idle", "send_area", "save_char", "remove_pc"},
                  player : Players \cup {NoPlayer}, area : AreaIds \cup {NoArea}]

Init ==
  /\ alive = 1..Len(InitialAreas)
  /\ resref = [a \in AreaIds |-> IF a <= Len(InitialAreas) THEN InitialAreas[a] ELSE NoResRef]
  /\ mod_areas = [i \in 1..Len(InitialAreas) |-> i]
  /\ num_players = [a \in AreaIds |-> 0]
  /\ active_areas = {}
  /\ dm_client_prefix \in SUBSET ResRefs
  /\ dm_client_areas = {a \in alive : resref[a] \in dm_client_prefix}
  /\ in_world = {}
  /\ loaded_area_id = [p \in Players |-> NoArea]
  /\ obj_area_id = [p \in Players |-> NoArea]
  /\ automap = [p \in Players |-> NoMap]
  /\ pcs_minimaps = [p \in Players |-> [r \in ResRefs |-> NoRow]]
  /\ placeables = Placeables
  /\ players_current_container = [p \in Players |-> NoPlaceable]
  /\ opened = {}
  /\ handler = Idle

-----------------------------------------------------------------------------
(* Automaps                                                                *)

\* update_auto_map_data: blocks are freed or added at the end, and the list of
\* areas is copied.  A character without an automap stays without one.
UpdatedMap(map, module_areas) ==
  IF map.areas = <<>> THEN map
  ELSE Map(module_areas,
           [i \in 1..Len(module_areas) |-> IF i <= Len(map.tiles) THEN map.tiles[i] ELSE {}])

\* update_players_auto_map, with the module's areas at the time of the call.
UpdatePlayersAutoMap(module_areas) ==
  automap' = [p \in Players |-> IF p \in in_world THEN UpdatedMap(automap[p], module_areas)
                                ELSE automap[p]]

\* Where the automap has the area, 0 if nowhere.
MapIndex(p, a) == SelectInSeq(automap[p].areas, LAMBDA b : b = a)

\* SaveAutomapData: REPLACE the row of the area's template.
SaveAutomapData(p, a) ==
  pcs_minimaps' =
    IF a \in alive /\ MapIndex(p, a) # 0
    THEN [pcs_minimaps EXCEPT ![p][resref[a]] = automap[p].tiles[MapIndex(p, a)]]
    ELSE pcs_minimaps

\* LoadAutomapData: without a row the block keeps what it holds.
LoadAutomapData(p, a) ==
  automap' =
    IF MapIndex(p, a) # 0 /\ pcs_minimaps[p][resref[a]] # NoRow
    THEN [automap EXCEPT ![p].tiles[MapIndex(p, a)] = pcs_minimaps[p][resref[a]]]
    ELSE automap

\* The engine marks the tiles around the character.
Explore(p) ==
  LET a == obj_area_id[p]
  IN /\ handler = Idle
     /\ p \in Explorers /\ a # NoArea /\ MapIndex(p, a) # 0
     /\ automap' = [automap EXCEPT ![p].tiles[MapIndex(p, a)] = @ \cup {resref[a]}]
     /\ UNCHANGED <<objects, presence, in_world, obj_area_id, pcs_minimaps, containers, handler>>

-----------------------------------------------------------------------------
(* What a script may call at any time                                      *)

NextAreaId == Cardinality({a \in AreaIds : resref[a] # NoResRef}) + 1

\* Mutant of CreateArea: the automaps are not told.
CreateAreaUnmapped(r) ==
  LET a == NextAreaId
  IN /\ a \in AreaIds
     /\ alive' = alive \cup {a}
     /\ resref' = [resref EXCEPT ![a] = r]
     /\ mod_areas' = Append(mod_areas, a)
     /\ dm_client_areas' = dm_client_areas \cup
                             (IF r \in dm_client_prefix THEN {a} ELSE {})
     /\ UNCHANGED <<active_areas, dm_client_prefix, presence, characters, containers, handler>>

\* The block of an area that was freed while a player is being sent there may
\* be the one malloc returns.
CreateArea(r) ==
  LET a == NextAreaId
  IN /\ a \in AreaIds
     /\ alive' = alive \cup {a}
     /\ resref' = [resref EXCEPT ![a] = r]
     /\ mod_areas' = Append(mod_areas, a)
     /\ UpdatePlayersAutoMap(mod_areas')
     /\ dm_client_areas' = dm_client_areas \cup
                             (IF r \in dm_client_prefix THEN {a} ELSE {})
     /\ \/ handler' = handler
        \/ /\ handler.kind = "send_area" /\ handler.area \notin alive
           /\ handler' = Handler("send_area", handler.player, a)
     /\ UNCHANGED <<active_areas, dm_client_prefix, presence, in_world, obj_area_id,
                    pcs_minimaps, containers>>

\* Mutants of DestroyArea: players in the area do not matter; ai keeps it.
DestroyAreaOccupied(a) ==
  /\ a \in alive
  /\ alive' = alive \ {a}
  /\ mod_areas' = RemoveFirst(mod_areas, a)
  /\ UpdatePlayersAutoMap(mod_areas')
  /\ dm_client_areas' = dm_client_areas \ {a}
  /\ active_areas' = active_areas \ {a}
  /\ UNCHANGED <<resref, dm_client_prefix, presence, in_world, obj_area_id, pcs_minimaps,
                 containers, handler>>

DestroyAreaStillActive(a) ==
  /\ a \in alive
  /\ num_players[a] = 0
  /\ alive' = alive \ {a}
  /\ mod_areas' = RemoveFirst(mod_areas, a)
  /\ UpdatePlayersAutoMap(mod_areas')
  /\ dm_client_areas' = dm_client_areas \ {a}
  /\ UNCHANGED <<resref, active_areas, dm_client_prefix, presence, in_world, obj_area_id,
                 pcs_minimaps, containers, handler>>

DestroyArea(a) ==
  /\ a \in alive
  /\ num_players[a] = 0
  /\ alive' = alive \ {a}
  /\ mod_areas' = RemoveFirst(mod_areas, a)
  /\ UpdatePlayersAutoMap(mod_areas')
  /\ dm_client_areas' = dm_client_areas \ {a}
  /\ active_areas' = active_areas \ {a}
  /\ UNCHANGED <<resref, dm_client_prefix, presence, in_world, obj_area_id, pcs_minimaps,
                 containers, handler>>

\* The prefixes are read again from reserved_prefix.
LoadDMAreasPrefix ==
  /\ \E R \in SUBSET ResRefs :
       /\ dm_client_prefix' = R
       /\ dm_client_areas' = {mod_areas[i] : i \in
                                {j \in DOMAIN mod_areas : /\ mod_areas[j] \in alive
                                                          /\ resref[mod_areas[j]] \in R}}
  /\ UNCHANGED <<alive, resref, mod_areas, active_areas, presence, characters, containers, handler>>

WokeUpArea(a) ==
  /\ a \in alive
  /\ active_areas' = active_areas \cup {a}
  /\ UNCHANGED <<alive, resref, mod_areas, dm_client_prefix, dm_client_areas, presence,
                 characters, containers, handler>>

SuspendArea(a) ==
  /\ a \in alive
  /\ active_areas' = active_areas \ {a}
  /\ UNCHANGED <<alive, resref, mod_areas, dm_client_prefix, dm_client_areas, presence,
                 characters, containers, handler>>

ScriptStep ==
  \/ \E r \in ResRefs : CreateArea(r)
  \/ \E a \in AreaIds : DestroyArea(a) \/ WokeUpArea(a) \/ SuspendArea(a)
  \/ LoadDMAreasPrefix

-----------------------------------------------------------------------------
(* Containers                                                              *)

\* ClosePlaceableInventory_HookProc for the container the player has open, if
\* it still exists; the entry goes either way.
CloseCurrentContainer(p) ==
  LET k == players_current_container[p]
  IN /\ players_current_container' = [players_current_container EXCEPT ![p] = NoPlaceable]
     /\ opened' = IF k \in placeables THEN opened \ {<<p, k>>} ELSE opened

\* Mutant of OpenPlaceableInventory: the container already open stays open.
OpenPlaceableInventoryToo(p, k) ==
  /\ handler = Idle
  /\ p \in in_world /\ k \in placeables
  /\ players_current_container' = [players_current_container EXCEPT ![p] = k]
  /\ opened' = opened \cup {<<p, k>>}
  /\ UNCHANGED <<objects, presence, characters, placeables, handler>>

OpenPlaceableInventory(p, k) ==
  LET old == players_current_container[p]
  IN /\ handler = Idle
     /\ p \in in_world /\ k \in placeables
     /\ players_current_container' = [players_current_container EXCEPT ![p] = k]
     /\ opened' = (IF old \in placeables THEN opened \ {<<p, old>>} ELSE opened) \cup {<<p, k>>}
     /\ UNCHANGED <<objects, presence, characters, placeables, handler>>

\* The player closes it, walks away or is disturbed; whatever the placeable,
\* the player's entry is erased.
ClosePlaceableInventory(p, k) ==
  /\ handler = Idle
  /\ <<p, k>> \in opened
  /\ players_current_container' = [players_current_container EXCEPT ![p] = NoPlaceable]
  /\ opened' = opened \ {<<p, k>>}
  /\ UNCHANGED <<objects, presence, characters, placeables, handler>>

\* The engine destroys a placeable; the map of containers is not told.
DestroyPlaceable(k) ==
  /\ k \in placeables
  /\ placeables' = placeables \ {k}
  /\ opened' = {x \in opened : x[2] # k}
  /\ UNCHANGED <<objects, presence, characters, players_current_container, handler>>

-----------------------------------------------------------------------------
(* Players come, move and go                                               *)

\* The engine makes the character and an empty automap of the module's areas.
EnterWorld(p) ==
  /\ handler = Idle
  /\ p \notin in_world
  /\ in_world' = in_world \cup {p}
  /\ automap' = [automap EXCEPT ![p] = Map(mod_areas, [i \in DOMAIN mod_areas |-> {}])]
  /\ UNCHANGED <<objects, presence, obj_area_id, pcs_minimaps, containers, handler>>

\* The count without one player, and with one more.  It is unsigned: the test
\* for a negative count and the reset to 0 that follow are never taken.
Less(counts, a) ==
  IF a \in alive THEN [counts EXCEPT ![a] = (@ - 1) % Word] ELSE counts

More(counts, a) ==
  IF a \in alive THEN [counts EXCEPT ![a] = (@ + 1) % Word] ELSE counts

\* Mutants of RemoveFromCurrentArea: loaded_area_id is not reset, and the count
\* is signed as well.
RemoveFromCurrentAreaOnly(p) ==
  /\ num_players' = Less(num_players, loaded_area_id[p])
  /\ UNCHANGED loaded_area_id

RemoveFromCurrentAreaSigned(p) ==
  /\ num_players' = [a \in AreaIds |-> IF a \in alive /\ a = loaded_area_id[p]
                                       THEN num_players[a] - 1 ELSE num_players[a]]
  /\ UNCHANGED loaded_area_id

\* PLAYER_EXTRA::remove_from_current_area
RemoveFromCurrentArea(p) ==
  /\ num_players' = Less(num_players, loaded_area_id[p])
  /\ loaded_area_id' = [loaded_area_id EXCEPT ![p] = NoArea]

\* SendServerToPlayerArea_ClientArea_HookProc, up to the script it runs.  The
\* engine has taken the character out of its area.
SendArea(p, a) ==
  /\ handler = Idle
  /\ p \in in_world /\ obj_area_id[p] = NoArea /\ a \in alive
  /\ CloseCurrentContainer(p)
  /\ handler' = Handler("send_area", p, a)
  /\ UNCHANGED <<objects, presence, characters, placeables>>

\* The rest of it, through the pointer to the area taken before the script.  A
\* freed block still has the area's id; the count is written there unseen.
SendAreaDone ==
  LET p == handler.player
      a == handler.area
  IN /\ handler.kind = "send_area"
     /\ loaded_area_id' = [loaded_area_id EXCEPT ![p] = a]
     /\ num_players' = More(Less(num_players, loaded_area_id[p]), a)
     /\ handler' = Idle
     /\ UNCHANGED <<objects, characters, containers>>

\* UpdateSubAreaOnJump_HookProc: the character is put in the area its player
\* has loaded, or taken out of it.
EnterArea(p) ==
  /\ handler = Idle
  /\ p \in in_world /\ obj_area_id[p] = NoArea /\ loaded_area_id[p] \in alive
  /\ LoadAutomapData(p, loaded_area_id[p])
  /\ obj_area_id' = [obj_area_id EXCEPT ![p] = loaded_area_id[p]]
  /\ UNCHANGED <<objects, presence, in_world, pcs_minimaps, containers, handler>>

LeaveArea(p) ==
  /\ handler = Idle
  /\ obj_area_id[p] # NoArea
  /\ SaveAutomapData(p, obj_area_id[p])
  /\ obj_area_id' = [obj_area_id EXCEPT ![p] = NoArea]
  /\ UNCHANGED <<objects, presence, in_world, automap, containers, handler>>

\* SaveServerChar_HookProc up to the scripts it runs.  When the character only
\* is saved, nothing follows them that is modelled here.
SaveServerChar(p, leaving) ==
  /\ handler = Idle
  /\ p \in in_world
  /\ SaveAutomapData(p, obj_area_id[p])
  /\ handler' = IF leaving THEN Handler("save_char", p, NoArea) ELSE Idle
  /\ UNCHANGED <<objects, presence, in_world, obj_area_id, automap, containers>>

\* The rest of it: a character that leaves closes its container.
SaveServerCharDone ==
  /\ handler.kind = "save_char"
  /\ CloseCurrentContainer(handler.player)
  /\ handler' = Idle
  /\ UNCHANGED <<objects, presence, characters, placeables>>

\* RemovePCFromWorld_HookProc counts the player out, then the engine takes the
\* character out of its area, which saves the automap and runs a script.
RemovePCFromWorld(p) ==
  /\ handler = Idle
  /\ p \in in_world
  /\ RemoveFromCurrentArea(p)
  /\ SaveAutomapData(p, obj_area_id[p])
  /\ handler' = Handler("remove_pc", p, NoArea)
  /\ UNCHANGED <<objects, in_world, obj_area_id, automap, containers>>

\* The engine destroys the character.
RemovePCFromWorldDone ==
  LET p == handler.player
  IN /\ handler.kind = "remove_pc"
     /\ obj_area_id' = [obj_area_id EXCEPT ![p] = NoArea]
     /\ in_world' = in_world \ {p}
     /\ automap' = [automap EXCEPT ![p] = NoMap]
     /\ opened' = {x \in opened : x[1] # p}
     /\ handler' = Idle
     /\ UNCHANGED <<objects, presence, pcs_minimaps, placeables, players_current_container>>

\* The destructor of PLAYER_EXTRA; at shutdown the character may still exist.
DestroyPlayer(p) ==
  /\ handler = Idle
  /\ RemoveFromCurrentArea(p)
  /\ in_world' = in_world \ {p}
  /\ obj_area_id' = [obj_area_id EXCEPT ![p] = NoArea]
  /\ automap' = [automap EXCEPT ![p] = NoMap]
  /\ opened' = {x \in opened : x[1] # p}
  /\ UNCHANGED <<objects, pcs_minimaps, placeables, players_current_container, handler>>

-----------------------------------------------------------------------------

Next ==
  \/ ScriptStep
  \/ SendAreaDone \/ SaveServerCharDone \/ RemovePCFromWorldDone
  \/ \E p \in Players :
       \/ EnterWorld(p) \/ Explore(p) \/ EnterArea(p) \/ LeaveArea(p)
       \/ \E leaving \in BOOLEAN : SaveServerChar(p, leaving)
       \/ RemovePCFromWorld(p) \/ DestroyPlayer(p)
       \/ \E a \in AreaIds : SendArea(p, a)
       \/ \E k \in Placeables : OpenPlaceableInventory(p, k) \/ ClosePlaceableInventory(p, k)
  \/ \E k \in Placeables : DestroyPlaceable(k)

Spec == Init /\ [][Next]_vars

-----------------------------------------------------------------------------
(* Properties                                                              *)

\* num_players, kept by increments and decrements in four handlers, is the
\* number of players that have the area loaded, whatever scripts do between the
\* steps of a handler; so it never wraps round and never keeps an empty area
\* from being destroyed.
CountsExact ==
  \A a \in alive : num_players[a] = Cardinality({p \in Players : loaded_area_id[p] = a})

\* An area is freed only when no player has it loaded.
NoAreaDestroyedUnderPlayers ==
  [][\A a \in alive \ alive' : \A p \in Players : loaded_area_id[p] # a]_vars

\* A character stands in an area that exists and that its player has loaded,
\* unless it is just being removed from the world.
CharacterInLoadedArea ==
  \A p \in Players : obj_area_id[p] # NoArea =>
    \/ obj_area_id[p] \in alive /\ loaded_area_id[p] = obj_area_id[p]
    \/ handler.kind = "remove_pc" /\ handler.player = p

\* The sets that hold pointers to areas hold no freed one, and the list sent
\* to DMs has every area of a registered prefix.
NoDanglingArea ==
  /\ ToSet(mod_areas) = alive
  /\ active_areas \subseteq alive
  /\ dm_client_areas = {a \in alive : resref[a] \in dm_client_prefix}

\* The automap of every character in the world lists the module's areas, with
\* a block for each; one that became empty is never filled again.
AutomapParallel ==
  \A p \in in_world :
    /\ automap[p].areas # <<>> => automap[p].areas = mod_areas
    /\ Len(automap[p].tiles) = Len(automap[p].areas)

\* A player looks into one container at most, the one the server remembers,
\* and into none while an area is sent.
OneContainer ==
  \A p \in Players, k \in Placeables : <<p, k>> \in opened =>
    players_current_container[p] = k /\ ~(handler.kind = "send_area" /\ handler.player = p)

\* "find the area index in the automap_data array": the block at the index of
\* an area is that area's, so what is saved for an area was explored there.
SavedMapIsOwn ==
  \A p \in Players, r \in ResRefs :
    pcs_minimaps[p][r] # NoRow => pcs_minimaps[p][r] \subseteq {r}

=============================================================================
