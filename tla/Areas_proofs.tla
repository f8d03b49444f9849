------------------------------ MODULE Areas_proofs ------------------------------
(* The player counts of the areas are exact, for any number of players, areas *)
(* and templates, whatever scripts do between the steps of a handler; so no   *)
(* area is destroyed while a player has it loaded.                            *)
EXTENDS Areas, FiniteSetTheorems, SequenceFacts, TLAPS

USE AreasAssumption

Counts == [AreaIds -> 0..(Word - 1)]
Loaded == [Players -> AreaIds \cup {NoArea}]

\* The players that have area a loaded, by a table f.
Inside(f, a) == {q \in Players : f[q] = a}

Exact(counts, f) == \A a \in alive : counts[a] = Cardinality(Inside(f, a))

\* In the range of a uint32_t, taking the remainder changes nothing.
LEMMA NoWrap == \A x \in 0..(Word - 1) : x % Word = x
  BY SMT

\* The players inside an area are a finite set, smaller than the counter's range.
LEMMA InsideFinite ==
  ASSUME NEW f, NEW a
  PROVE  /\ IsFiniteSet(Inside(f, a))
         /\ Cardinality(Inside(f, a)) \in 0..(Word - 1)
         /\ Cardinality(Inside(f, a)) <= Cardinality(Players)
<1>1. Inside(f, a) \subseteq Players
  BY DEF Inside
<1>2. /\ IsFiniteSet(Inside(f, a))
      /\ Cardinality(Inside(f, a)) <= Cardinality(Players)
  BY <1>1, FS_Subset
<1>3. Cardinality(Inside(f, a)) \in Nat /\ Cardinality(Players) \in Nat
  BY <1>2, FS_CardinalityType
<1> QED BY <1>2, <1>3

\* Taking a player out of the area it has loaded keeps the counts exact.
LEMMA CountedOut ==
  ASSUME NEW counts \in Counts, NEW f \in Loaded, NEW p \in Players,
         alive \subseteq AreaIds, Exact(counts, f)
  PROVE  /\ Less(counts, f[p]) \in Counts
         /\ Exact(Less(counts, f[p]), [f EXCEPT ![p] = NoArea])
<1> DEFINE g == [f EXCEPT ![p] = NoArea]
           less == Less(counts, f[p])
<1>1. \A a \in AreaIds : Inside(g, a) = Inside(f, a) \ {p}
  BY DEF Inside, Loaded, AreaIds, NoArea
<1>2. ASSUME NEW a \in AreaIds, a # f[p]
      PROVE  less[a] = counts[a] /\ Inside(g, a) = Inside(f, a)
  BY <1>1, <1>2 DEF Less, Counts, Inside
<1>3. CASE f[p] \in alive
  <2>1. p \in Inside(f, f[p])
    BY DEF Inside
  <2>2. /\ Cardinality(Inside(g, f[p])) = Cardinality(Inside(f, f[p])) - 1
        /\ Cardinality(Inside(g, f[p])) \in 0..(Word - 1)
    <3>1. IsFiniteSet(Inside(f, f[p]))
      BY InsideFinite
    <3>2. Cardinality(Inside(f, f[p]) \ {p}) = Cardinality(Inside(f, f[p])) - 1
      BY <2>1, <3>1, FS_RemoveElement
    <3>3. Inside(g, f[p]) = Inside(f, f[p]) \ {p}
      BY <1>1, <1>3
    <3>4. Cardinality(Inside(g, f[p])) \in 0..(Word - 1)
      BY InsideFinite
    <3> HIDE DEF g
    <3> QED BY <3>2, <3>3, <3>4
  <2>3. counts[f[p]] - 1 = Cardinality(Inside(g, f[p]))
    BY <1>3, <2>2 DEF Exact, Counts
  <2>4. less[f[p]] = Cardinality(Inside(g, f[p]))
    <3>1. less[f[p]] = (counts[f[p]] - 1) % Word
      BY <1>3 DEF Less, Counts
    <3> QED BY <2>2, <2>3, <3>1, NoWrap
  <2>5. less \in Counts
    <3>1. less = [counts EXCEPT ![f[p]] = Cardinality(Inside(g, f[p]))]
      BY <1>3, <2>2, <2>3, NoWrap DEF Less, Counts
    <3> QED BY <2>2, <3>1 DEF Counts
  <2> QED BY <1>2, <2>4, <2>5 DEF Exact
<1>4. CASE f[p] \notin alive
  <2>1. less = counts
    BY <1>4 DEF Less
  <2> QED BY <1>2, <1>4, <2>1 DEF Exact
<1> QED BY <1>3, <1>4

\* Letting in a player that has nothing loaded keeps them exact, alive or not.
LEMMA CountedIn ==
  ASSUME NEW counts \in Counts, NEW f \in Loaded, NEW p \in Players, NEW b \in AreaIds,
         alive \subseteq AreaIds, Exact(counts, f), f[p] = NoArea
  PROVE  /\ More(counts, b) \in Counts
         /\ Exact(More(counts, b), [f EXCEPT ![p] = b])
<1> DEFINE g == [f EXCEPT ![p] = b]
           more == More(counts, b)
<1>1. /\ p \notin Inside(f, b)
      /\ Inside(g, b) = Inside(f, b) \cup {p}
  BY DEF Inside, Loaded, AreaIds, NoArea
<1>2. ASSUME NEW a \in AreaIds, a # b
      PROVE  more[a] = counts[a] /\ Inside(g, a) = Inside(f, a)
  BY <1>2 DEF More, Counts, Inside, Loaded, AreaIds, NoArea
<1>3. CASE b \in alive
  <2>1. /\ Cardinality(Inside(g, b)) = Cardinality(Inside(f, b)) + 1
        /\ Cardinality(Inside(g, b)) \in 0..(Word - 1)
    BY <1>1, InsideFinite, FS_AddElement
  <2>2. counts[b] + 1 = Cardinality(Inside(g, b))
    BY <1>3, <2>1 DEF Exact
  <2>3. more = [counts EXCEPT ![b] = Cardinality(Inside(g, b))]
    BY <1>3, <2>1, <2>2, NoWrap DEF More, Counts
  <2>4. more \in Counts /\ more[b] = Cardinality(Inside(g, b))
    BY <2>1, <2>3 DEF Counts
  <2> QED BY <1>2, <2>4 DEF Exact
<1>4. CASE b \notin alive
  <2>1. more = counts
    BY <1>4 DEF More
  <2> QED BY <1>2, <1>4, <2>1 DEF Exact
<1> QED BY <1>3, <1>4

-----------------------------------------------------------------------------

\* Area ids are given out in order and never again.
Created(a) == resref[a] # NoResRef

IdsInOrder == \E n \in 0..MaxAreas : \A a \in AreaIds : Created(a) <=> a <= n

\* CountsExact says nothing of the areas that are not alive: that a new area
\* starts with a right count needs that its id was never loaded before, and so
\* that no handler is about to load it.
CountInv ==
  /\ alive \subseteq AreaIds
  /\ resref \in [AreaIds -> ResRefs \cup {NoResRef}]
  /\ num_players \in Counts
  /\ loaded_area_id \in Loaded
  /\ handler.kind = "send_area" =>
       handler.player \in Players /\ handler.area \in AreaIds /\ Created(handler.area)
  /\ IdsInOrder
  /\ \A a \in alive : Created(a)
  /\ \A a \in AreaIds : ~Created(a) =>
       num_players[a] = 0 /\ \A p \in Players : loaded_area_id[p] # a
  /\ Exact(num_players, loaded_area_id)

countVars == <<alive, resref, num_players, loaded_area_id, handler>>

LEMMA EmptyInside ==
  ASSUME NEW f, NEW a, \A p \in Players : f[p] # a
  PROVE  Cardinality(Inside(f, a)) = 0
<1>1. Inside(f, a) = {}
  BY DEF Inside
<1> QED BY <1>1, FS_EmptySet

\* The engine's next id is the first that was not given out.
LEMMA NextIdFresh ==
  ASSUME IdsInOrder
  PROVE  \E n \in 0..MaxAreas : /\ \A a \in AreaIds : Created(a) <=> a <= n
                                /\ NextAreaId = n + 1
<1>1. PICK n \in 0..MaxAreas : \A a \in AreaIds : Created(a) <=> a <= n
  BY DEF IdsInOrder
<1>2. {a \in AreaIds : resref[a] # NoResRef} = 1..n
  BY <1>1 DEF Created, AreaIds
<1>3. Cardinality(1..n) = n
  BY <1>1, FS_Interval
<1> QED BY <1>1, <1>2, <1>3 DEF NextAreaId

LEMMA InitCount == Init => CountInv
<1> SUFFICES ASSUME Init PROVE CountInv
  OBVIOUS
<1> DEFINE n == Len(InitialAreas)
<1>1. /\ n \in 0..MaxAreas
      /\ \A a \in 1..n : InitialAreas[a] \in ResRefs
  OBVIOUS
<1>2. /\ alive = 1..n /\ alive \subseteq AreaIds
      /\ resref \in [AreaIds -> ResRefs \cup {NoResRef}]
      /\ \A a \in AreaIds : Created(a) <=> a <= n
  BY <1>1 DEF Init, AreaIds, Created
<1>3. num_players \in Counts /\ \A a \in AreaIds : num_players[a] = 0
  <2>1. Word - 1 \in Nat
    BY FS_CardinalityType
  <2> QED BY <2>1 DEF Init, Counts
<1>4. loaded_area_id \in Loaded /\ \A p \in Players, a \in AreaIds : loaded_area_id[p] # a
  BY DEF Init, Loaded, AreaIds, NoArea
<1>5. Exact(num_players, loaded_area_id)
  BY <1>2, <1>3, <1>4, EmptyInside DEF Exact
<1>6. handler.kind # "send_area"
  BY DEF Init, Idle, Handler
<1>7. \A a \in alive : Created(a)
  BY <1>1, <1>2
<1> HIDE DEF n
<1> QED BY <1>1, <1>2, <1>3, <1>4, <1>5, <1>6, <1>7 DEF CountInv, IdsInOrder

\* A player that leaves its area, whatever becomes of the handler.
LEMMA LeavesArea ==
  ASSUME CountInv, NEW p \in Players, RemoveFromCurrentArea(p), UNCHANGED <<alive, resref>>,
         handler'.kind # "send_area" \/ handler' = handler
  PROVE  CountInv'
<1>1. /\ num_players' \in Counts /\ loaded_area_id' \in Loaded
      /\ Exact(num_players', loaded_area_id')
  BY CountedOut DEF CountInv, RemoveFromCurrentArea, Loaded
<1>2. \A a \in AreaIds : ~Created(a) =>
        num_players'[a] = 0 /\ \A q \in Players : loaded_area_id'[q] # a
  BY DEF CountInv, RemoveFromCurrentArea, Less, Counts, Loaded, AreaIds, NoArea
<1> QED BY <1>1, <1>2 DEF CountInv, Created, IdsInOrder, Exact

\* A new area is empty, and its id was not known.
LEMMA CreateAreaCounts ==
  ASSUME CountInv, NEW r \in ResRefs, CreateArea(r)
  PROVE  CountInv'
<1> DEFINE b == NextAreaId
<1>1. PICK n \in 0..MaxAreas : /\ \A a \in AreaIds : Created(a) <=> a <= n
                               /\ b = n + 1
  BY NextIdFresh DEF CountInv
<1>2. /\ b \in AreaIds /\ alive' = alive \cup {b} /\ resref' = [resref EXCEPT ![b] = r]
      /\ num_players' = num_players /\ loaded_area_id' = loaded_area_id
      /\ \/ handler' = handler
         \/ handler.kind = "send_area" /\ handler' = Handler("send_area", handler.player, b)
  <2>1. UNCHANGED presence
    BY DEF CreateArea
  <2>2. /\ b \in AreaIds /\ alive' = alive \cup {b} /\ resref' = [resref EXCEPT ![b] = r]
        /\ \/ handler' = handler
           \/ handler.kind = "send_area" /\ handler' = Handler("send_area", handler.player, b)
    BY DEF CreateArea
  <2> QED BY <2>1, <2>2 DEF presence
<1> HIDE DEF b
<1>3. ~Created(b) /\ num_players[b] = 0 /\ \A p \in Players : loaded_area_id[p] # b
  BY <1>1, <1>2 DEF CountInv, AreaIds
<1>4. \A a \in AreaIds : Created(a)' <=> Created(a) \/ a = b
  BY <1>2 DEF CountInv, Created
<1>5. IdsInOrder'
  <2>1. n + 1 \in 0..MaxAreas /\ \A a \in AreaIds : Created(a)' <=> a <= n + 1
    BY <1>1, <1>2, <1>4 DEF AreaIds
  <2> QED BY <2>1 DEF IdsInOrder
<1>6. Exact(num_players, loaded_area_id)'
  <2>1. num_players[b] = Cardinality(Inside(loaded_area_id, b))
    BY <1>3, EmptyInside
  <2> QED BY <1>2, <2>1 DEF CountInv, Exact
<1>7. (handler.kind = "send_area" =>
        handler.player \in Players /\ handler.area \in AreaIds /\ Created(handler.area))'
  BY <1>2, <1>4 DEF CountInv, Handler
<1>8. (\A a \in alive : Created(a))'
  BY <1>2, <1>4 DEF CountInv
<1>9. (\A a \in AreaIds : ~Created(a) =>
        num_players[a] = 0 /\ \A p \in Players : loaded_area_id[p] # a)'
  BY <1>2, <1>4 DEF CountInv
<1>10. (alive \subseteq AreaIds)' /\ (resref \in [AreaIds -> ResRefs \cup {NoResRef}])'
       /\ (num_players \in Counts)' /\ (loaded_area_id \in Loaded)'
  BY <1>2 DEF CountInv
<1> QED BY <1>5, <1>6, <1>7, <1>8, <1>9, <1>10 DEF CountInv

\* The rest of sending an area: out of the one before, into this one.
LEMMA SendAreaDoneCounts ==
  ASSUME CountInv, SendAreaDone
  PROVE  CountInv'
<1> DEFINE p == handler.player
           a == handler.area
           out == Less(num_players, loaded_area_id[p])
           left == [loaded_area_id EXCEPT ![p] = NoArea]
<1>1. p \in Players /\ a \in AreaIds /\ Created(a)
  BY DEF SendAreaDone, CountInv
<1>2. /\ num_players' = More(out, a)
      /\ loaded_area_id' = [left EXCEPT ![p] = a]
      /\ handler' = Idle
      /\ UNCHANGED <<alive, resref>>
  BY <1>1 DEF SendAreaDone, objects, CountInv, Loaded
<1> HIDE DEF p, a
<1>3. out \in Counts /\ Exact(out, left)
  BY <1>1, CountedOut DEF CountInv
<1>4. left \in Loaded /\ left[p] = NoArea
  BY <1>1 DEF CountInv, Loaded
<1>5. \A x \in AreaIds : ~Created(x) =>
        out[x] = 0 /\ \A q \in Players : left[q] # x
  BY <1>1 DEF CountInv, Less, Counts, Loaded, AreaIds, NoArea
<1> HIDE DEF out, left
<1>6. num_players' \in Counts /\ Exact(num_players', loaded_area_id')
  BY <1>1, <1>2, <1>3, <1>4, CountedIn DEF CountInv
<1>7. loaded_area_id' \in Loaded
  BY <1>1, <1>2, <1>4 DEF Loaded
<1>8. \A x \in AreaIds : ~Created(x) =>
        num_players'[x] = 0 /\ \A q \in Players : loaded_area_id'[q] # x
  BY <1>1, <1>2, <1>3, <1>4, <1>5 DEF CountInv, More, Counts, Loaded
<1>9. handler'.kind # "send_area"
  BY <1>2 DEF Idle, Handler
<1> QED BY <1>2, <1>6, <1>7, <1>8, <1>9 DEF CountInv, Created, IdsInOrder, Exact

LEMMA NextCount == CountInv /\ [Next]_vars => CountInv'
<1> SUFFICES ASSUME CountInv, [Next]_vars PROVE CountInv'
  OBVIOUS
<1>1. ASSUME UNCHANGED countVars
      PROVE  CountInv'
  BY <1>1 DEF CountInv, countVars, Created, IdsInOrder, Exact
<1>2. CASE UNCHANGED vars
  BY <1>1, <1>2 DEF vars, objects, presence, countVars
<1>3. ASSUME NEW r \in ResRefs, CreateArea(r)
      PROVE  CountInv'
  BY <1>3, CreateAreaCounts
<1>4. ASSUME NEW a \in AreaIds, DestroyArea(a)
      PROVE  CountInv'
  BY <1>4 DEF DestroyArea, presence, CountInv, Created, IdsInOrder, Exact
<1>5. ASSUME NEW a \in AreaIds, WokeUpArea(a) \/ SuspendArea(a)
      PROVE  CountInv'
  BY <1>1, <1>5 DEF WokeUpArea, SuspendArea, presence, countVars
<1>6. CASE LoadDMAreasPrefix
  BY <1>1, <1>6 DEF LoadDMAreasPrefix, presence, countVars
<1>7. CASE SendAreaDone
  BY <1>7, SendAreaDoneCounts
<1>8. CASE RemovePCFromWorldDone
  BY <1>8 DEF RemovePCFromWorldDone, objects, presence, Idle, Handler,
              CountInv, Created, IdsInOrder, Exact
<1>16. CASE SaveServerCharDone
  BY <1>16 DEF SaveServerCharDone, objects, presence, Idle, Handler,
               CountInv, Created, IdsInOrder, Exact
<1>9. ASSUME NEW p \in Players, EnterWorld(p) \/ Explore(p) \/ EnterArea(p) \/ LeaveArea(p)
      PROVE  CountInv'
  BY <1>1, <1>9 DEF EnterWorld, Explore, EnterArea, LeaveArea, objects, presence, countVars
<1>10. ASSUME NEW p \in Players, NEW leaving \in BOOLEAN, SaveServerChar(p, leaving)
       PROVE  CountInv'
  <2>1. handler'.kind # "send_area" /\ UNCHANGED <<alive, resref, num_players, loaded_area_id>>
    BY <1>10 DEF SaveServerChar, Handler, Idle, objects, presence
  <2> QED BY <2>1 DEF CountInv, Created, IdsInOrder, Exact
<1>11. ASSUME NEW p \in Players, RemovePCFromWorld(p)
       PROVE  CountInv'
  <2>1. handler'.kind # "send_area" /\ UNCHANGED <<alive, resref>> /\ RemoveFromCurrentArea(p)
    BY <1>11 DEF RemovePCFromWorld, Handler, objects
  <2> QED BY <2>1, LeavesArea
<1>12. ASSUME NEW p \in Players, DestroyPlayer(p)
       PROVE  CountInv'
  <2>1. handler' = handler /\ UNCHANGED <<alive, resref>> /\ RemoveFromCurrentArea(p)
    BY <1>12 DEF DestroyPlayer, objects
  <2> QED BY <2>1, LeavesArea
<1>13. ASSUME NEW p \in Players, NEW a \in AreaIds, SendArea(p, a)
       PROVE  CountInv'
  <2>1. /\ UNCHANGED <<alive, resref, num_players, loaded_area_id>>
        /\ handler'.player = p /\ handler'.area = a /\ a \in alive
    BY <1>13 DEF SendArea, Handler, objects, presence
  <2> QED BY <2>1 DEF CountInv, Created, IdsInOrder, Exact
<1>14. ASSUME NEW p \in Players, NEW k \in Placeables,
              OpenPlaceableInventory(p, k) \/ ClosePlaceableInventory(p, k)
       PROVE  CountInv'
  BY <1>1, <1>14 DEF OpenPlaceableInventory, ClosePlaceableInventory, objects, presence, countVars
<1>15. ASSUME NEW k \in Placeables, DestroyPlaceable(k)
       PROVE  CountInv'
  BY <1>1, <1>15 DEF DestroyPlaceable, objects, presence, countVars
<1> QED BY <1>2, <1>3, <1>4, <1>5, <1>6, <1>7, <1>8, <1>9, <1>10, <1>11, <1>12, <1>13,
           <1>14, <1>15, <1>16 DEF Next, ScriptStep

-----------------------------------------------------------------------------

\* num_players is the number of players that have the area loaded: it never
\* wraps round, though scripts create and destroy areas in the middle of the
\* handlers that count.
THEOREM CountsAlwaysExact == Spec => []CountsExact
<1>1. CountInv => CountsExact
  BY DEF CountInv, Exact, Inside, CountsExact
<1> QED BY <1>1, InitCount, NextCount, PTL DEF Spec

\* What DestroyArea frees, nobody has loaded.
THEOREM AreasOutliveTheirPlayers == Spec => NoAreaDestroyedUnderPlayers
<1> DEFINE Safe == \A a \in alive \ alive' : \A p \in Players : loaded_area_id[p] # a
<1>1. CountInv /\ [Next]_vars => [Safe]_vars
  <2> SUFFICES ASSUME CountInv, Next, NEW a \in alive \ alive', NEW p \in Players
               PROVE  loaded_area_id[p] # a
    BY DEF Safe
  <2>1. num_players[a] = 0
    BY DEF Next, ScriptStep, CreateArea, DestroyArea, LoadDMAreasPrefix, WokeUpArea, SuspendArea,
           SendAreaDone, RemovePCFromWorldDone, EnterWorld, Explore, EnterArea, LeaveArea,
           SaveServerCharDone, SaveServerChar, RemovePCFromWorld, DestroyPlayer, SendArea, OpenPlaceableInventory,
           ClosePlaceableInventory, DestroyPlaceable, objects
  <2>2. Inside(loaded_area_id, a) = {}
    BY <2>1, InsideFinite, FS_EmptySet DEF CountInv, Exact
  <2> QED BY <2>2 DEF Inside
<1> HIDE DEF Safe
<1>2. Spec => [][Safe]_vars
  BY <1>1, InitCount, NextCount, PTL DEF Spec
<1> QED BY <1>2 DEF NoAreaDestroyedUnderPlayers, Safe

-----------------------------------------------------------------------------
(* The lists and sets of areas                                             *)

\* What NoDanglingArea says, and that no area is twice in the module's list:
\* DestroyArea takes out the first one only.
ListInv ==
  /\ mod_areas \in Seq(AreaIds)
  /\ IsInjective(mod_areas)
  /\ dm_client_prefix \subseteq ResRefs
  /\ NoDanglingArea

LEMMA InitList == Init => ListInv
<1> SUFFICES ASSUME Init PROVE ListInv
  OBVIOUS
<1> DEFINE n == Len(InitialAreas)
<1>1. n \in 0..MaxAreas /\ mod_areas = [i \in 1..n |-> i] /\ alive = 1..n
  BY DEF Init
<1> HIDE DEF n
<1>2. mod_areas \in Seq(AreaIds)
  BY <1>1 DEF AreaIds
<1>3. IsInjective(mod_areas)
  BY <1>1 DEF IsInjective
<1>4. ToSet(mod_areas) = alive
  BY <1>1 DEF ToSet
<1> QED BY <1>2, <1>3, <1>4 DEF ListInv, NoDanglingArea, Init

\* A new area is in no list yet.
LEMMA NewArea ==
  ASSUME CountInv, NextAreaId \in AreaIds
  PROVE  NextAreaId \notin alive
<1>1. PICK n \in 0..MaxAreas : /\ \A a \in AreaIds : Created(a) <=> a <= n
                               /\ NextAreaId = n + 1
  BY NextIdFresh DEF CountInv
<1> QED BY <1>1 DEF CountInv

LEMMA CreateAreaList ==
  ASSUME CountInv, ListInv, NEW r \in ResRefs, CreateArea(r)
  PROVE  ListInv'
<1> DEFINE b == NextAreaId
<1>1. /\ b \in AreaIds /\ alive' = alive \cup {b} /\ resref' = [resref EXCEPT ![b] = r]
      /\ mod_areas' = Append(mod_areas, b)
      /\ dm_client_areas' = dm_client_areas \cup (IF r \in dm_client_prefix THEN {b} ELSE {})
      /\ UNCHANGED <<active_areas, dm_client_prefix>>
  BY DEF CreateArea
<1>2. b \notin alive
  BY <1>1, NewArea
<1> HIDE DEF b
<1>3. /\ mod_areas' \in Seq(AreaIds) /\ IsInjective(mod_areas')
      /\ ToSet(mod_areas') = ToSet(mod_areas) \cup {b}
  BY <1>1, <1>2, PutBack DEF ListInv, NoDanglingArea
<1>4. dm_client_areas' = {a \in alive' : resref'[a] \in dm_client_prefix'}
  BY <1>1, <1>2 DEF ListInv, NoDanglingArea, CountInv
<1> QED BY <1>1, <1>3, <1>4 DEF ListInv, NoDanglingArea

LEMMA DestroyAreaList ==
  ASSUME ListInv, NEW a \in AreaIds, DestroyArea(a)
  PROVE  ListInv'
<1>1. /\ alive' = alive \ {a} /\ mod_areas' = RemoveFirst(mod_areas, a)
      /\ dm_client_areas' = dm_client_areas \ {a}
      /\ active_areas' = active_areas \ {a}
      /\ UNCHANGED <<resref, dm_client_prefix>>
  BY DEF DestroyArea
<1>2. /\ mod_areas' \in Seq(AreaIds) /\ IsInjective(mod_areas')
      /\ ToSet(mod_areas') = ToSet(mod_areas) \ {a}
  BY <1>1, RemoveOne DEF ListInv
<1> QED BY <1>1, <1>2 DEF ListInv, NoDanglingArea

LEMMA LoadPrefixList ==
  ASSUME ListInv, LoadDMAreasPrefix
  PROVE  ListInv'
<1>1. PICK R \in SUBSET ResRefs :
        /\ dm_client_prefix' = R
        /\ dm_client_areas' = {mod_areas[i] : i \in
                                {j \in DOMAIN mod_areas : /\ mod_areas[j] \in alive
                                                          /\ resref[mod_areas[j]] \in R}}
        /\ UNCHANGED <<alive, resref, mod_areas, active_areas>>
  BY DEF LoadDMAreasPrefix
<1>2. dm_client_areas' = {a \in alive : resref[a] \in R}
  BY <1>1 DEF ListInv, NoDanglingArea, ToSet
<1> QED BY <1>1, <1>2 DEF ListInv, NoDanglingArea

LEMMA NextList == CountInv /\ ListInv /\ [Next]_vars => ListInv'
<1> SUFFICES ASSUME CountInv, ListInv, [Next]_vars PROVE ListInv'
  OBVIOUS
<1>1. ASSUME NEW r \in ResRefs, CreateArea(r)
      PROVE  ListInv'
  BY <1>1, CreateAreaList
<1>2. ASSUME NEW a \in AreaIds, DestroyArea(a)
      PROVE  ListInv'
  BY <1>2, DestroyAreaList
<1>3. CASE LoadDMAreasPrefix
  BY <1>3, LoadPrefixList
<1>4. ASSUME NEW a \in AreaIds, WokeUpArea(a) \/ SuspendArea(a)
      PROVE  ListInv'
  BY <1>4 DEF WokeUpArea, SuspendArea, ListInv, NoDanglingArea
<1>5. ASSUME UNCHANGED objects
      PROVE  ListInv'
  BY <1>5 DEF objects, ListInv, NoDanglingArea
<1>6. CASE ~ScriptStep
  <2>1. UNCHANGED objects
    BY <1>6 DEF Next, vars, SendAreaDone, RemovePCFromWorldDone, EnterWorld, Explore, EnterArea,
           LeaveArea, SaveServerChar, SaveServerCharDone, RemovePCFromWorld, DestroyPlayer,
           SendArea, OpenPlaceableInventory, ClosePlaceableInventory, DestroyPlaceable
  <2> QED BY <1>5, <2>1
<1> QED BY <1>1, <1>2, <1>3, <1>4, <1>6 DEF ScriptStep

\* Whatever scripts create and destroy, in handlers or between them, no set of
\* areas holds a freed one, and DMs are shown every area of a registered prefix.
THEOREM NoAreaEverDangles == Spec => []NoDanglingArea
<1>1. ListInv => NoDanglingArea
  BY DEF ListInv
<1> QED BY <1>1, InitCount, NextCount, InitList, NextList, PTL DEF Spec

-----------------------------------------------------------------------------
(* Characters and the areas they stand in                                  *)

Handlers == [kind : {"idle", "send_area", "save_char", "remove_pc"},
             player : Players \cup {NoPlayer}, area : AreaIds \cup {NoArea}]

\* A player that is sent an area stands in none, so that what the handler
\* loads meanwhile takes no character's area away.
CharInv ==
  /\ in_world \subseteq Players
  /\ obj_area_id \in Loaded
  /\ handler \in Handlers
  /\ handler.kind # "idle" => handler.player \in Players
  /\ handler.kind = "send_area" => obj_area_id[handler.player] = NoArea
  /\ CharacterInLoadedArea

charVars == <<alive, in_world, loaded_area_id, obj_area_id, handler>>

LEMMA HandlerFields ==
  ASSUME NEW kind, NEW p, NEW a
  PROVE  /\ Handler(kind, p, a).kind = kind
         /\ Handler(kind, p, a).player = p
         /\ Handler(kind, p, a).area = a
BY DEF Handler

LEMMA HandlerType ==
  ASSUME NEW kind \in {"idle", "send_area", "save_char", "remove_pc"}, NEW p \in Players \cup {NoPlayer},
         NEW a \in AreaIds \cup {NoArea}
  PROVE  Handler(kind, p, a) \in Handlers
BY DEF Handler, Handlers

LEMMA IdleFields == Idle \in Handlers /\ Idle.kind = "idle"
BY HandlerType, HandlerFields DEF Idle

LEMMA InitChar == Init => CharInv
BY IdleFields DEF Init, CharInv, CharacterInLoadedArea, Loaded

\* Nobody stands in the area that is destroyed: nobody has it loaded.
LEMMA DestroyAreaChar ==
  ASSUME CountInv, CharInv, NEW a \in AreaIds, DestroyArea(a)
  PROVE  CharInv'
<1>1. /\ a \in alive /\ num_players[a] = 0 /\ alive' = alive \ {a}
      /\ UNCHANGED <<in_world, loaded_area_id, obj_area_id, handler>>
  BY DEF DestroyArea, presence
<1>2. Inside(loaded_area_id, a) = {}
  BY <1>1, InsideFinite, FS_EmptySet DEF CountInv, Exact
<1>3. \A p \in Players : loaded_area_id[p] # a
  BY <1>2 DEF Inside
<1> QED BY <1>1, <1>3 DEF CharInv, CharacterInLoadedArea

\* The handler may be given the new area instead of the freed one.
LEMMA CreateAreaChar ==
  ASSUME CharInv, NEW r \in ResRefs, CreateArea(r)
  PROVE  CharInv'
<1>1. alive \subseteq alive' /\ NextAreaId \in AreaIds
      /\ UNCHANGED <<in_world, loaded_area_id, obj_area_id>>
  BY DEF CreateArea, presence
<1>2. CASE handler' = handler
  BY <1>1, <1>2 DEF CharInv, CharacterInLoadedArea
<1>3. CASE handler.kind = "send_area" /\ handler' = Handler("send_area", handler.player, NextAreaId)
  <2>1. handler' \in Handlers
    BY <1>1, <1>3, HandlerType DEF CharInv
  <2>2. handler'.kind = "send_area" /\ handler'.player = handler.player
    BY <1>3, HandlerFields
  <2> QED BY <1>1, <1>3, <2>1, <2>2 DEF CharInv, CharacterInLoadedArea
<1> QED BY <1>2, <1>3 DEF CreateArea

LEMMA SendAreaChar ==
  ASSUME CharInv, NEW p \in Players, NEW a \in AreaIds, SendArea(p, a)
  PROVE  CharInv'
<1>1. /\ handler = Idle /\ obj_area_id[p] = NoArea
      /\ handler' = Handler("send_area", p, a)
      /\ UNCHANGED <<alive, in_world, loaded_area_id, obj_area_id>>
  BY DEF SendArea, objects, presence, characters
<1>2. handler' \in Handlers /\ handler'.kind = "send_area" /\ handler'.player = p
  BY <1>1, HandlerType, HandlerFields
<1> QED BY <1>1, <1>2, IdleFields DEF CharInv, CharacterInLoadedArea

LEMMA SendAreaDoneChar ==
  ASSUME CharInv, SendAreaDone
  PROVE  CharInv'
<1>1. /\ handler.kind = "send_area" /\ handler' = Idle
      /\ UNCHANGED <<alive, in_world, obj_area_id>>
      /\ loaded_area_id' = [loaded_area_id EXCEPT ![handler.player] = handler.area]
  BY DEF SendAreaDone, objects, characters
<1>2. CharacterInLoadedArea'
  BY <1>1 DEF CharInv, CharacterInLoadedArea, Loaded
<1> QED BY <1>1, <1>2, IdleFields DEF CharInv

LEMMA EnterLeaveChar ==
  ASSUME CharInv, CountInv, NEW p \in Players, EnterArea(p) \/ LeaveArea(p) \/ EnterWorld(p)
  PROVE  CharInv'
<1>1. /\ handler = Idle /\ in_world' \subseteq Players
      /\ UNCHANGED <<alive, loaded_area_id, handler>>
      /\ \/ obj_area_id' = obj_area_id
         \/ obj_area_id' = [obj_area_id EXCEPT ![p] = NoArea]
         \/ /\ loaded_area_id[p] \in alive
            /\ obj_area_id' = [obj_area_id EXCEPT ![p] = loaded_area_id[p]]
  BY DEF EnterArea, LeaveArea, EnterWorld, objects, presence, CharInv
<1>2. obj_area_id' \in Loaded
  BY <1>1 DEF CharInv, CountInv, Loaded
<1>3. CharacterInLoadedArea'
  BY <1>1, IdleFields DEF CharInv, CharacterInLoadedArea, Loaded
<1> QED BY <1>1, <1>2, <1>3, IdleFields DEF CharInv

\* A player that goes: first out of the count, then out of its area.
LEMMA GoChar ==
  ASSUME CharInv, NEW p \in Players, RemovePCFromWorld(p) \/ DestroyPlayer(p)
  PROVE  CharInv'
<1>1. CASE RemovePCFromWorld(p)
  <2>1. /\ handler = Idle /\ handler' = Handler("remove_pc", p, NoArea)
        /\ UNCHANGED <<alive, in_world, obj_area_id>>
        /\ loaded_area_id' = [loaded_area_id EXCEPT ![p] = NoArea]
    BY <1>1 DEF RemovePCFromWorld, RemoveFromCurrentArea, objects
  <2>2. handler' \in Handlers /\ handler'.kind = "remove_pc" /\ handler'.player = p
    BY <2>1, HandlerType, HandlerFields
  <2>3. CharacterInLoadedArea'
    BY <2>1, <2>2, IdleFields DEF CharInv, CharacterInLoadedArea, Loaded
  <2> QED BY <2>1, <2>2, <2>3 DEF CharInv
<1>2. CASE DestroyPlayer(p)
  <2>1. /\ handler = Idle /\ handler' = handler /\ in_world' = in_world \ {p}
        /\ UNCHANGED alive
        /\ loaded_area_id' = [loaded_area_id EXCEPT ![p] = NoArea]
        /\ obj_area_id' = [obj_area_id EXCEPT ![p] = NoArea]
    BY <1>2 DEF DestroyPlayer, RemoveFromCurrentArea, objects
  <2>2. CharacterInLoadedArea'
    BY <2>1, IdleFields DEF CharInv, CharacterInLoadedArea, Loaded
  <2>3. obj_area_id' \in Loaded
    BY <2>1 DEF CharInv, Loaded
  <2> QED BY <2>1, <2>2, <2>3, IdleFields DEF CharInv
<1> QED BY <1>1, <1>2

LEMMA GoneChar ==
  ASSUME CharInv, RemovePCFromWorldDone
  PROVE  CharInv'
<1> DEFINE p == handler.player
<1>1. /\ handler.kind = "remove_pc" /\ handler' = Idle /\ in_world' = in_world \ {p}
      /\ UNCHANGED <<alive, loaded_area_id>>
      /\ obj_area_id' = [obj_area_id EXCEPT ![p] = NoArea]
  BY DEF RemovePCFromWorldDone, objects, presence
<1>2. CharacterInLoadedArea'
  BY <1>1 DEF CharInv, CharacterInLoadedArea, Loaded
<1>3. obj_area_id' \in Loaded
  BY <1>1 DEF CharInv, Loaded
<1> QED BY <1>1, <1>2, <1>3, IdleFields DEF CharInv

LEMMA SaveChar ==
  ASSUME CharInv, \/ SaveServerCharDone
                  \/ \E p \in Players, leaving \in BOOLEAN : SaveServerChar(p, leaving)
  PROVE  CharInv'
<1>1. UNCHANGED <<alive, in_world, loaded_area_id, obj_area_id>>
  BY DEF SaveServerChar, SaveServerCharDone, objects, presence, characters
<1>2. /\ handler' = Idle \/ \E p \in Players : handler' = Handler("save_char", p, NoArea)
      /\ handler.kind # "remove_pc"
  BY IdleFields DEF SaveServerChar, SaveServerCharDone
<1>3. /\ handler' \in Handlers /\ handler'.kind # "send_area"
      /\ handler'.kind # "idle" => handler'.player \in Players
  BY <1>2, IdleFields, HandlerType, HandlerFields
<1> QED BY <1>1, <1>2, <1>3 DEF CharInv, CharacterInLoadedArea

LEMMA NextChar == CountInv /\ CharInv /\ [Next]_vars => CharInv'
<1> SUFFICES ASSUME CountInv, CharInv, [Next]_vars PROVE CharInv'
  OBVIOUS
<1>1. ASSUME UNCHANGED charVars
      PROVE  CharInv'
  BY <1>1 DEF charVars, CharInv, CharacterInLoadedArea
<1>2. CASE UNCHANGED vars
  BY <1>1, <1>2 DEF vars, objects, presence, characters, charVars
<1>3. CASE ScriptStep
  <2>1. ASSUME NEW r \in ResRefs, CreateArea(r)
        PROVE  CharInv'
    BY <2>1, CreateAreaChar
  <2>2. ASSUME NEW a \in AreaIds, DestroyArea(a)
        PROVE  CharInv'
    BY <2>2, DestroyAreaChar
  <2>3. ASSUME NEW a \in AreaIds, WokeUpArea(a) \/ SuspendArea(a)
        PROVE  CharInv'
    BY <1>1, <2>3 DEF WokeUpArea, SuspendArea, presence, characters, charVars
  <2>4. CASE LoadDMAreasPrefix
    BY <1>1, <2>4 DEF LoadDMAreasPrefix, presence, characters, charVars
  <2> QED BY <1>3, <2>1, <2>2, <2>3, <2>4 DEF ScriptStep
<1>4. CASE SendAreaDone
  BY <1>4, SendAreaDoneChar
<1>5. CASE RemovePCFromWorldDone
  BY <1>5, GoneChar
<1>6. ASSUME NEW p \in Players, EnterWorld(p) \/ EnterArea(p) \/ LeaveArea(p)
      PROVE  CharInv'
  BY <1>6, EnterLeaveChar
<1>7. ASSUME NEW p \in Players, RemovePCFromWorld(p) \/ DestroyPlayer(p)
      PROVE  CharInv'
  BY <1>7, GoChar
<1>8. ASSUME NEW p \in Players, NEW a \in AreaIds, SendArea(p, a)
      PROVE  CharInv'
  BY <1>8, SendAreaChar
<1>9. ASSUME NEW p \in Players, Explore(p)
      PROVE  CharInv'
  BY <1>1, <1>9 DEF Explore, objects, presence, charVars
<1>12. CASE \/ SaveServerCharDone
            \/ \E p \in Players, leaving \in BOOLEAN : SaveServerChar(p, leaving)
  BY <1>12, SaveChar
<1>10. ASSUME NEW p \in Players, NEW k \in Placeables,
              OpenPlaceableInventory(p, k) \/ ClosePlaceableInventory(p, k)
       PROVE  CharInv'
  BY <1>1, <1>10 DEF OpenPlaceableInventory, ClosePlaceableInventory, objects, presence,
     characters, charVars
<1>11. ASSUME NEW k \in Placeables, DestroyPlaceable(k)
       PROVE  CharInv'
  BY <1>1, <1>11 DEF DestroyPlaceable, objects, presence, characters, charVars
<1> QED BY <1>2, <1>3, <1>4, <1>5, <1>6, <1>7, <1>8, <1>9, <1>10, <1>11, <1>12
        DEF Next

\* A character stands in an area that exists and that its player is counted in:
\* neither a script that destroys areas nor the handlers it interrupts leave it
\* standing in a freed one.
THEOREM CharactersInLoadedAreas == Spec => []CharacterInLoadedArea
<1>1. CharInv => CharacterInLoadedArea
  BY DEF CharInv
<1> QED BY <1>1, InitCount, NextCount, InitChar, NextChar, PTL DEF Spec

-----------------------------------------------------------------------------
(* Open containers                                                         *)

\* What is open exists: so closing the container the server remembers closes it.
ContInv ==
  /\ placeables \subseteq Placeables
  /\ players_current_container \in [Players -> Placeables \cup {NoPlaceable}]
  /\ opened \subseteq Players \X placeables
  /\ OneContainer

contVars == <<placeables, players_current_container, opened, handler>>

LEMMA InitCont == Init => ContInv
BY DEF Init, ContInv, OneContainer

\* What a player has open is what the server remembers.
LEMMA OnlyRemembered ==
  ASSUME ContInv, NEW x \in opened
  PROVE  /\ x = <<x[1], x[2]>> /\ x[1] \in Players /\ x[2] \in placeables
         /\ players_current_container[x[1]] = x[2]
         /\ ~(handler.kind = "send_area" /\ handler.player = x[1])
<1>1. x = <<x[1], x[2]>> /\ x[1] \in Players /\ x[2] \in placeables
  BY DEF ContInv
<1> QED BY <1>1 DEF ContInv, OneContainer

\* The same said of the next state, pair by pair.
LEMMA ContFromPairs ==
  ASSUME placeables' \subseteq Placeables,
         players_current_container' \in [Players -> Placeables \cup {NoPlaceable}],
         \A x \in opened' :
           /\ x \in Players \X placeables'
           /\ players_current_container'[x[1]] = x[2]
           /\ ~(handler'.kind = "send_area" /\ handler'.player = x[1])
  PROVE  ContInv'
<1>1. (opened \subseteq Players \X placeables)'
  OBVIOUS
<1>2. OneContainer'
  BY DEF OneContainer
<1> QED BY <1>1, <1>2 DEF ContInv

\* CloseCurrentContainer leaves the player with nothing open.
LEMMA CloseCurrent ==
  ASSUME ContInv, NEW p \in Players, CloseCurrentContainer(p)
  PROVE  /\ players_current_container' \in [Players -> Placeables \cup {NoPlaceable}]
         /\ opened' \subseteq opened
         /\ \A x \in opened' : x[1] # p /\ players_current_container'[x[1]] = x[2]
<1>1. /\ players_current_container' = [players_current_container EXCEPT ![p] = NoPlaceable]
      /\ opened' = IF players_current_container[p] \in placeables
                   THEN opened \ {<<p, players_current_container[p]>>} ELSE opened
  BY DEF CloseCurrentContainer
<1>2. opened' \subseteq opened
  BY <1>1
<1>3. ASSUME NEW x \in opened'
      PROVE  x[1] # p /\ players_current_container'[x[1]] = x[2]
  <2>1. /\ x = <<x[1], x[2]>> /\ x[1] \in Players /\ x[2] \in placeables
        /\ players_current_container[x[1]] = x[2]
    BY <1>2, OnlyRemembered
  <2>2. x[1] # p
    BY <1>1, <2>1
  <2> QED BY <1>1, <2>1, <2>2 DEF ContInv
<1> QED BY <1>1, <1>2, <1>3 DEF ContInv

LEMMA OpenClose ==
  ASSUME ContInv, NEW p \in Players, NEW k \in Placeables,
         OpenPlaceableInventory(p, k) \/ ClosePlaceableInventory(p, k)
  PROVE  ContInv'
<1>1. handler = Idle /\ handler' = handler /\ placeables' = placeables
  BY DEF OpenPlaceableInventory, ClosePlaceableInventory
<1>2. CASE OpenPlaceableInventory(p, k)
  <2>1. /\ k \in placeables
        /\ players_current_container' = [players_current_container EXCEPT ![p] = k]
        /\ opened' = (IF players_current_container[p] \in placeables
                      THEN opened \ {<<p, players_current_container[p]>>} ELSE opened)
                     \cup {<<p, k>>}
    BY <1>2 DEF OpenPlaceableInventory
  <2>2. ASSUME NEW x \in opened', x # <<p, k>>
        PROVE  /\ x \in Players \X placeables
               /\ x[1] # p /\ players_current_container[x[1]] = x[2]
    <3>1. x \in opened
      BY <2>1, <2>2
    <3>2. /\ x = <<x[1], x[2]>> /\ x[1] \in Players /\ x[2] \in placeables
          /\ players_current_container[x[1]] = x[2]
      BY <3>1, OnlyRemembered
    <3>3. x[1] # p
      BY <2>1, <2>2, <3>2
    <3> QED BY <3>2, <3>3
  <2>3. ASSUME NEW x \in opened'
        PROVE  /\ x \in Players \X placeables'
               /\ players_current_container'[x[1]] = x[2]
               /\ ~(handler'.kind = "send_area" /\ handler'.player = x[1])
    <3>1. handler'.kind # "send_area"
      BY <1>1, IdleFields
    <3>2. CASE x = <<p, k>>
      BY <1>1, <2>1, <3>1, <3>2 DEF ContInv
    <3>3. CASE x # <<p, k>>
      BY <1>1, <2>1, <2>2, <3>1, <3>3 DEF ContInv
    <3> QED BY <3>2, <3>3
  <2>4. players_current_container' \in [Players -> Placeables \cup {NoPlaceable}]
    BY <2>1 DEF ContInv
  <2> QED BY <1>1, <2>3, <2>4, ContFromPairs DEF ContInv
<1>3. CASE ClosePlaceableInventory(p, k)
  <2>1. /\ players_current_container' = [players_current_container EXCEPT ![p] = NoPlaceable]
        /\ opened' = opened \ {<<p, k>>} /\ <<p, k>> \in opened
    BY <1>3 DEF ClosePlaceableInventory
  <2>2. players_current_container[p] = k
    BY <2>1 DEF ContInv, OneContainer
  <2>3. ASSUME NEW x \in opened'
        PROVE  /\ x \in Players \X placeables'
               /\ players_current_container'[x[1]] = x[2]
               /\ ~(handler'.kind = "send_area" /\ handler'.player = x[1])
    <3>1. /\ x = <<x[1], x[2]>> /\ x[1] \in Players /\ x[2] \in placeables
          /\ players_current_container[x[1]] = x[2]
      BY <2>1, OnlyRemembered
    <3>2. x[1] # p
      BY <2>1, <2>2, <3>1
    <3> QED BY <1>1, <2>1, <3>1, <3>2, IdleFields DEF ContInv
  <2>4. players_current_container' \in [Players -> Placeables \cup {NoPlaceable}]
    BY <2>1 DEF ContInv
  <2> QED BY <1>1, <2>3, <2>4, ContFromPairs DEF ContInv
<1> QED BY <1>2, <1>3

\* Steps that only close, and give no player an area.
LEMMA OnlyLess ==
  ASSUME ContInv, opened' \subseteq opened, UNCHANGED <<placeables, players_current_container>>,
         \/ handler'.kind # "send_area"
         \/ handler.kind = "send_area" /\ handler'.player = handler.player
  PROVE  ContInv'
<1>1. ASSUME NEW x \in opened'
      PROVE  /\ x \in Players \X placeables'
             /\ players_current_container'[x[1]] = x[2]
             /\ ~(handler'.kind = "send_area" /\ handler'.player = x[1])
  <2>1. x \in opened
    OBVIOUS
  <2> QED BY <2>1, OnlyRemembered
<1> QED BY <1>1, ContFromPairs DEF ContInv

LEMMA SendAreaCont ==
  ASSUME ContInv, NEW p \in Players, NEW a \in AreaIds, SendArea(p, a)
  PROVE  ContInv'
<1>1. /\ CloseCurrentContainer(p) /\ handler' = Handler("send_area", p, a)
      /\ placeables' = placeables
  BY DEF SendArea
<1>2. handler'.player = p
  BY <1>1, HandlerFields
<1>3. ASSUME NEW x \in opened'
      PROVE  /\ x \in Players \X placeables'
             /\ players_current_container'[x[1]] = x[2]
             /\ ~(handler'.kind = "send_area" /\ handler'.player = x[1])
  <2>1. x \in opened /\ x[1] # p /\ players_current_container'[x[1]] = x[2]
    BY <1>1, CloseCurrent
  <2>2. x = <<x[1], x[2]>> /\ x[1] \in Players /\ x[2] \in placeables
    BY <2>1, OnlyRemembered
  <2> QED BY <1>1, <1>2, <2>1, <2>2
<1>4. players_current_container' \in [Players -> Placeables \cup {NoPlaceable}]
  BY <1>1, CloseCurrent
<1> QED BY <1>1, <1>3, <1>4, ContFromPairs DEF ContInv

LEMMA SaveServerCharCont ==
  ASSUME CharInv, ContInv, SaveServerCharDone
  PROVE  ContInv'
<1> DEFINE p == handler.player
<1>1. p \in Players
  BY DEF SaveServerCharDone, CharInv
<1>2. CloseCurrentContainer(p) /\ handler' = Idle /\ placeables' = placeables
  BY DEF SaveServerCharDone
<1> HIDE DEF p
<1>3. ASSUME NEW x \in opened'
      PROVE  /\ x \in Players \X placeables'
             /\ players_current_container'[x[1]] = x[2]
             /\ ~(handler'.kind = "send_area" /\ handler'.player = x[1])
  <2>1. x \in opened /\ players_current_container'[x[1]] = x[2]
    BY <1>1, <1>2, CloseCurrent
  <2>2. x = <<x[1], x[2]>> /\ x[1] \in Players /\ x[2] \in placeables
    BY <2>1, OnlyRemembered
  <2> QED BY <1>2, <2>1, <2>2, IdleFields
<1>4. players_current_container' \in [Players -> Placeables \cup {NoPlaceable}]
  BY <1>1, <1>2, CloseCurrent
<1> QED BY <1>2, <1>3, <1>4, ContFromPairs DEF ContInv

LEMMA NextCont == CharInv /\ ContInv /\ [Next]_vars => ContInv'
<1> SUFFICES ASSUME CharInv, ContInv, [Next]_vars PROVE ContInv'
  OBVIOUS
<1>1. ASSUME UNCHANGED contVars
      PROVE  ContInv'
  BY <1>1 DEF contVars, ContInv, OneContainer
<1>2. CASE UNCHANGED vars
  BY <1>1, <1>2 DEF vars, containers, contVars
<1>3. CASE ScriptStep
  <2>1. ASSUME NEW r \in ResRefs, CreateArea(r)
        PROVE  ContInv'
    <3>1. UNCHANGED containers
      BY <2>1 DEF CreateArea
    <3>2. CASE handler' = handler
      BY <1>1, <3>1, <3>2 DEF containers, contVars
    <3>3. CASE /\ handler.kind = "send_area"
               /\ handler' = Handler("send_area", handler.player, NextAreaId)
      BY <3>1, <3>3, HandlerFields, OnlyLess DEF containers
    <3> QED BY <2>1, <3>2, <3>3 DEF CreateArea
  <2>2. ASSUME NEW a \in AreaIds, DestroyArea(a) \/ WokeUpArea(a) \/ SuspendArea(a)
        PROVE  ContInv'
    BY <1>1, <2>2 DEF DestroyArea, WokeUpArea, SuspendArea, containers, contVars
  <2>3. CASE LoadDMAreasPrefix
    BY <1>1, <2>3 DEF LoadDMAreasPrefix, containers, contVars
  <2> QED BY <1>3, <2>1, <2>2, <2>3 DEF ScriptStep
<1>4. CASE SendAreaDone
  <2>1. handler' = Idle /\ UNCHANGED containers
    BY <1>4 DEF SendAreaDone
  <2> QED BY <2>1, IdleFields, OnlyLess DEF containers
<1>5. CASE RemovePCFromWorldDone
  <2>1. /\ handler' = Idle /\ opened' \subseteq opened
        /\ UNCHANGED <<placeables, players_current_container>>
    BY <1>5 DEF RemovePCFromWorldDone
  <2> QED BY <2>1, IdleFields, OnlyLess
<1>6. ASSUME NEW p \in Players, EnterWorld(p) \/ Explore(p) \/ EnterArea(p) \/ LeaveArea(p)
      PROVE  ContInv'
  BY <1>1, <1>6 DEF EnterWorld, Explore, EnterArea, LeaveArea, containers, contVars
<1>7. ASSUME NEW p \in Players, NEW leaving \in BOOLEAN, SaveServerChar(p, leaving)
      PROVE  ContInv'
  <2>1. UNCHANGED containers /\ handler'.kind # "send_area"
    BY <1>7, HandlerFields, IdleFields DEF SaveServerChar
  <2> QED BY <2>1, OnlyLess DEF containers
<1>13. CASE SaveServerCharDone
  BY <1>13, SaveServerCharCont
<1>8. ASSUME NEW p \in Players, RemovePCFromWorld(p)
      PROVE  ContInv'
  <2>1. UNCHANGED containers /\ handler'.kind # "send_area"
    BY <1>8, HandlerFields DEF RemovePCFromWorld
  <2> QED BY <2>1, OnlyLess DEF containers
<1>9. ASSUME NEW p \in Players, DestroyPlayer(p)
      PROVE  ContInv'
  <2>1. /\ handler = Idle /\ handler' = handler /\ opened' \subseteq opened
        /\ UNCHANGED <<placeables, players_current_container>>
    BY <1>9 DEF DestroyPlayer
  <2> QED BY <2>1, IdleFields, OnlyLess
<1>10. ASSUME NEW p \in Players, NEW a \in AreaIds, SendArea(p, a)
       PROVE  ContInv'
  BY <1>10, SendAreaCont
<1>11. ASSUME NEW p \in Players, NEW k \in Placeables,
              OpenPlaceableInventory(p, k) \/ ClosePlaceableInventory(p, k)
       PROVE  ContInv'
  BY <1>11, OpenClose
<1>12. ASSUME NEW k \in Placeables, DestroyPlaceable(k)
       PROVE  ContInv'
  <2>1. /\ placeables' = placeables \ {k} /\ opened' = {x \in opened : x[2] # k}
        /\ UNCHANGED <<players_current_container, handler>>
    BY <1>12 DEF DestroyPlaceable
  <2>2. ASSUME NEW x \in opened'
        PROVE  /\ x \in Players \X placeables'
               /\ players_current_container'[x[1]] = x[2]
               /\ ~(handler'.kind = "send_area" /\ handler'.player = x[1])
    BY <2>1, OnlyRemembered
  <2> QED BY <2>1, <2>2, ContFromPairs DEF ContInv
<1> QED BY <1>2, <1>3, <1>4, <1>5, <1>6, <1>7, <1>8, <1>9, <1>10, <1>11, <1>12, <1>13 DEF Next

\* A player looks into one container at most, the one the server remembers, and
\* into none while an area is sent to it, whatever placeables are destroyed.
THEOREM OneContainerAlways == Spec => []OneContainer
<1>1. ContInv => OneContainer
  BY DEF ContInv
<1> QED BY <1>1, InitCount, NextCount, InitChar, NextChar, InitCont, NextCont, PTL DEF Spec

-----------------------------------------------------------------------------
(* Automaps                                                                *)

Maps == [areas : Seq(AreaIds), tiles : Seq(SUBSET ResRefs)]
Rows == [ResRefs -> (SUBSET ResRefs) \cup {NoRow}]

\* An automap of the areas in s, or of none.
Fits(map, s) ==
  /\ map \in Maps
  /\ map.areas # <<>> => map.areas = s
  /\ Len(map.tiles) = Len(map.areas)

\* AutomapParallel, and that a player without a character has no automap: a
\* tile is read and written only where the automap has a block.
MapInv ==
  /\ automap \in [Players -> Maps]
  /\ pcs_minimaps \in [Players -> Rows]
  /\ \A p \in Players \ in_world : automap[p] = NoMap
  /\ AutomapParallel

mapVars == <<mod_areas, in_world, automap, pcs_minimaps>>

LEMMA MapFields ==
  ASSUME NEW ids \in Seq(AreaIds), NEW tiles \in Seq(SUBSET ResRefs)
  PROVE  /\ Map(ids, tiles) \in Maps
         /\ Map(ids, tiles).areas = ids /\ Map(ids, tiles).tiles = tiles
BY DEF Map, Maps

LEMMA NoMapFits == NoMap \in Maps /\ NoMap.areas = <<>> /\ NoMap.tiles = <<>>
<1>1. <<>> \in Seq(AreaIds)
  OBVIOUS
<1>2. <<>> \in Seq(SUBSET ResRefs)
  OBVIOUS
<1> QED BY <1>1, <1>2, MapFields DEF NoMap

\* Whatever the automap was, it lists the areas it is given, or none.
LEMMA UpdatedMapFits ==
  ASSUME NEW map \in Maps, NEW s \in Seq(AreaIds), Len(map.tiles) = Len(map.areas)
  PROVE  Fits(UpdatedMap(map, s), s)
<1> DEFINE t == [i \in 1..Len(s) |-> IF i <= Len(map.tiles) THEN map.tiles[i] ELSE {}]
<1>1. CASE map.areas = <<>>
  BY <1>1 DEF UpdatedMap, Fits
<1>2. CASE map.areas # <<>>
  <2>1. map.tiles \in Seq(SUBSET ResRefs)
    BY DEF Maps
  <2>2. t \in Seq(SUBSET ResRefs) /\ Len(t) = Len(s)
    BY <2>1
  <2>3. UpdatedMap(map, s) = Map(s, t)
    BY <1>2 DEF UpdatedMap
  <2> HIDE DEF t
  <2> QED BY <2>2, <2>3, MapFields DEF Fits
<1> QED BY <1>1, <1>2

\* The automap of every player, in the world or not, has a block per area.
LEMMA Blocks ==
  ASSUME MapInv, NEW p \in Players
  PROVE  /\ automap[p] \in Maps
         /\ Len(automap[p].tiles) = Len(automap[p].areas)
         /\ p \in in_world => Fits(automap[p], mod_areas)
<1>1. automap[p] \in Maps
  BY DEF MapInv
<1>2. CASE p \in in_world
  BY <1>1, <1>2 DEF MapInv, AutomapParallel, Fits
<1>3. CASE p \notin in_world
  BY <1>1, <1>3, NoMapFits DEF MapInv
<1> QED BY <1>2, <1>3

LEMMA FromFits ==
  ASSUME automap' \in [Players -> Maps], pcs_minimaps' \in [Players -> Rows],
         \A p \in Players \ in_world' : automap'[p] = NoMap,
         \A p \in in_world' : Fits(automap'[p], mod_areas')
  PROVE  MapInv'
<1>1. AutomapParallel'
  BY DEF AutomapParallel, Fits
<1> QED BY <1>1 DEF MapInv

\* What the search for an area's index returns is the index of a block.
LEMMA IndexOfBlock ==
  ASSUME MapInv, NEW p \in Players, NEW a, MapIndex(p, a) # 0
  PROVE  MapIndex(p, a) \in 1..Len(automap[p].tiles) /\ automap[p].areas # <<>>
<1> DEFINE s == automap[p].areas
           I == {i \in 1..Len(s) : s[i] = a}
<1>1. s \in Seq(AreaIds) /\ Len(automap[p].tiles) = Len(s)
  BY Blocks DEF Maps
<1>2. MapIndex(p, a) = IF I # {} THEN Min(I) ELSE 0
  BY DEF MapIndex, SelectInSeq
<1>3. I # {} /\ I \subseteq Nat
  BY <1>1, <1>2
<1> HIDE DEF I
<1>4. MapIndex(p, a) \in I
  BY <1>2, <1>3, LeastIsIn
<1> QED BY <1>1, <1>4 DEF I

LEMMA InitMap == Init => MapInv
<1> SUFFICES ASSUME Init PROVE MapInv
  OBVIOUS
<1>1. automap = [p \in Players |-> NoMap] /\ in_world = {}
  BY DEF Init
<1>2. automap \in [Players -> Maps]
  BY <1>1, NoMapFits
<1>3. pcs_minimaps \in [Players -> Rows]
  <2> DEFINE none == [r \in ResRefs |-> NoRow]
  <2>1. none \in Rows
    BY DEF Rows
  <2>2. pcs_minimaps = [p \in Players |-> none]
    BY DEF Init
  <2> HIDE DEF none
  <2> QED BY <2>1, <2>2
<1> QED BY <1>1, <1>2, <1>3 DEF MapInv, AutomapParallel

\* Scripts that create and destroy areas.
LEMMA UpdatedMaps ==
  ASSUME MapInv, in_world \subseteq Players, mod_areas' \in Seq(AreaIds),
         UpdatePlayersAutoMap(mod_areas'), UNCHANGED <<in_world, pcs_minimaps>>
  PROVE  MapInv'
<1>1. automap' = [p \in Players |-> IF p \in in_world THEN UpdatedMap(automap[p], mod_areas')
                                    ELSE automap[p]]
  BY DEF UpdatePlayersAutoMap
<1>2. ASSUME NEW p \in in_world
      PROVE  Fits(automap'[p], mod_areas')
  <2>1. Fits(UpdatedMap(automap[p], mod_areas'), mod_areas')
    BY Blocks, UpdatedMapFits
  <2> QED BY <1>1, <2>1
<1>3. \A p \in Players \ in_world : automap'[p] = automap[p]
  BY <1>1
<1>4. automap' \in [Players -> Maps]
  <2>1. \A p \in Players : automap'[p] \in Maps
    BY <1>2, <1>3 DEF Fits, MapInv
  <2> QED BY <1>1, <2>1
<1> QED BY <1>2, <1>3, <1>4, FromFits DEF MapInv

\* A block is written.
LEMMA TileWritten ==
  ASSUME automap \in [Players -> Maps], NEW p \in Players,
         NEW i \in 1..Len(automap[p].tiles), NEW v \in SUBSET ResRefs,
         automap' = [automap EXCEPT ![p].tiles[i] = v]
  PROVE  /\ automap' \in [Players -> Maps]
         /\ automap'[p].areas = automap[p].areas
         /\ Len(automap'[p].tiles) = Len(automap[p].tiles)
         /\ \A q \in Players : q # p => automap'[q] = automap[q]
<1> DEFINE m == automap[p]
           t == [m.tiles EXCEPT ![i] = v]
           n == [m EXCEPT !.tiles = t]
<1>1. m.tiles \in Seq(SUBSET ResRefs) /\ m.areas \in Seq(AreaIds) /\ m \in Maps
  BY DEF Maps
<1>2. t \in Seq(SUBSET ResRefs) /\ Len(t) = Len(m.tiles)
  BY <1>1
<1>3. automap' = [automap EXCEPT ![p] = n]
  OBVIOUS
<1> HIDE DEF t
<1>4. n \in Maps /\ n.tiles = t /\ n.areas = m.areas
  BY <1>1, <1>2 DEF Maps
<1> HIDE DEF n
<1>5. /\ automap' \in [Players -> Maps] /\ automap'[p] = n
      /\ \A q \in Players : q # p => automap'[q] = automap[q]
  BY <1>3, <1>4
<1> QED BY <1>2, <1>4, <1>5

\* Exploring, and loading a saved automap.
LEMMA OneBlock ==
  ASSUME MapInv, NEW p \in Players, NEW a, MapIndex(p, a) # 0, NEW v \in SUBSET ResRefs,
         automap' = [automap EXCEPT ![p].tiles[MapIndex(p, a)] = v],
         UNCHANGED <<mod_areas, in_world, pcs_minimaps>>, in_world \subseteq Players
  PROVE  MapInv'
<1>1. /\ MapIndex(p, a) \in 1..Len(automap[p].tiles) /\ automap[p].areas # <<>>
      /\ automap \in [Players -> Maps]
  BY IndexOfBlock DEF MapInv
<1>2. /\ automap' \in [Players -> Maps]
      /\ automap'[p].areas = automap[p].areas
      /\ Len(automap'[p].tiles) = Len(automap[p].tiles)
      /\ \A q \in Players : q # p => automap'[q] = automap[q]
  BY <1>1, TileWritten
<1>3. p \in in_world
  BY <1>1, NoMapFits DEF MapInv
<1>4. ASSUME NEW q \in in_world
      PROVE  Fits(automap'[q], mod_areas')
  <2>1. Fits(automap[q], mod_areas)
    BY Blocks
  <2>2. automap'[q] \in Maps
    BY <1>2
  <2> QED BY <1>2, <2>1, <2>2 DEF Fits
<1>5. \A q \in Players \ in_world' : automap'[q] = NoMap
  BY <1>2, <1>3 DEF MapInv
<1> QED BY <1>2, <1>4, <1>5, FromFits DEF MapInv

\* What is saved was read from a block; a row has a template.
LEMMA SavedRows ==
  ASSUME MapInv, CountInv, NEW p \in Players, NEW a, SaveAutomapData(p, a)
  PROVE  pcs_minimaps' \in [Players -> Rows]
<1>1. CASE a \in alive /\ MapIndex(p, a) # 0
  <2>1. resref[a] \in ResRefs
    BY <1>1 DEF CountInv, Created
  <2>2. automap[p].tiles[MapIndex(p, a)] \in SUBSET ResRefs
    <3>1. MapIndex(p, a) \in 1..Len(automap[p].tiles)
      BY <1>1, IndexOfBlock
    <3>2. automap[p].tiles \in Seq(SUBSET ResRefs)
      BY Blocks DEF Maps
    <3> QED BY <3>1, <3>2
  <2>3. pcs_minimaps' = [pcs_minimaps EXCEPT ![p][resref[a]] = automap[p].tiles[MapIndex(p, a)]]
    BY <1>1 DEF SaveAutomapData
  <2> QED BY <2>1, <2>2, <2>3 DEF MapInv, Rows
<1>2. CASE ~(a \in alive /\ MapIndex(p, a) # 0)
  BY <1>2 DEF SaveAutomapData, MapInv
<1> QED BY <1>1, <1>2

LEMMA ExploreMap ==
  ASSUME MapInv, CountInv, CharInv, NEW p \in Players, Explore(p)
  PROVE  MapInv'
<1> DEFINE a == obj_area_id[p]
           i == MapIndex(p, a)
<1>1. /\ handler = Idle /\ a # NoArea /\ i # 0
      /\ automap' = [automap EXCEPT ![p].tiles[i] = automap[p].tiles[i] \cup {resref[a]}]
      /\ UNCHANGED <<mod_areas, in_world, pcs_minimaps>>
  BY DEF Explore, objects
<1>2. a \in alive
  BY <1>1, IdleFields DEF CharInv, CharacterInLoadedArea
<1>3. resref[a] \in ResRefs
  BY <1>2 DEF CountInv, Created
<1>4. automap[p].tiles[i] \cup {resref[a]} \in SUBSET ResRefs
  <2>1. i \in 1..Len(automap[p].tiles)
    BY <1>1, IndexOfBlock
  <2>2. automap[p].tiles \in Seq(SUBSET ResRefs)
    BY Blocks DEF Maps
  <2>3. automap[p].tiles[i] \in SUBSET ResRefs
    BY <2>1, <2>2
  <2> QED BY <1>3, <2>3
<1> QED BY <1>1, <1>4, OneBlock DEF CharInv

LEMMA EnterAreaMap ==
  ASSUME MapInv, CountInv, CharInv, NEW p \in Players, EnterArea(p)
  PROVE  MapInv'
<1> DEFINE a == loaded_area_id[p]
           v == pcs_minimaps[p][resref[a]]
<1>1. /\ a \in alive /\ LoadAutomapData(p, a)
      /\ UNCHANGED <<mod_areas, in_world, pcs_minimaps>>
  BY DEF EnterArea, objects
<1>2. resref[a] \in ResRefs
  BY <1>1 DEF CountInv, Created
<1>3. CASE MapIndex(p, a) # 0 /\ v # NoRow
  <2>1. v \in SUBSET ResRefs
    BY <1>2, <1>3 DEF MapInv, Rows
  <2>2. automap' = [automap EXCEPT ![p].tiles[MapIndex(p, a)] = v]
    BY <1>1, <1>3 DEF LoadAutomapData
  <2> QED BY <1>1, <1>3, <2>1, <2>2, OneBlock DEF CharInv
<1>4. CASE ~(MapIndex(p, a) # 0 /\ v # NoRow)
  <2>1. automap' = automap
    BY <1>1, <1>4 DEF LoadAutomapData
  <2> QED BY <1>1, <2>1 DEF MapInv, AutomapParallel
<1> QED BY <1>3, <1>4

LEMMA EnterWorldMap ==
  ASSUME MapInv, ListInv, CharInv, NEW p \in Players, EnterWorld(p)
  PROVE  MapInv'
<1> DEFINE t == [i \in DOMAIN mod_areas |-> {}]
<1>1. /\ in_world' = in_world \cup {p} /\ automap' = [automap EXCEPT ![p] = Map(mod_areas, t)]
      /\ UNCHANGED <<mod_areas, pcs_minimaps>>
  BY DEF EnterWorld, objects
<1>2. mod_areas \in Seq(AreaIds)
  BY DEF ListInv
<1>3. t \in Seq(SUBSET ResRefs) /\ Len(t) = Len(mod_areas)
  BY <1>2
<1> HIDE DEF t
<1>4. Fits(Map(mod_areas, t), mod_areas)
  BY <1>2, <1>3, MapFields DEF Fits
<1> DEFINE m == Map(mod_areas, t)
<1>5. m \in Maps
  BY <1>4 DEF Fits
<1> HIDE DEF m
<1>6. automap' \in [Players -> Maps] /\ automap'[p] = m
      /\ \A q \in Players : q # p => automap'[q] = automap[q]
  BY <1>1, <1>5 DEF MapInv, m
<1>7. ASSUME NEW q \in in_world'
      PROVE  Fits(automap'[q], mod_areas')
  <2>1. CASE q = p
    BY <1>1, <1>4, <1>6, <2>1 DEF m
  <2>2. CASE q # p
    BY <1>1, <1>6, <2>2, Blocks DEF CharInv
  <2> QED BY <2>1, <2>2
<1> QED BY <1>1, <1>6, <1>7, FromFits DEF MapInv

\* A player that goes takes its automap along.
LEMMA GoMap ==
  ASSUME MapInv, CharInv, NEW p \in Players, in_world' = in_world \ {p},
         automap' = [automap EXCEPT ![p] = NoMap], mod_areas' = mod_areas,
         pcs_minimaps' \in [Players -> Rows]
  PROVE  MapInv'
<1>1. automap' \in [Players -> Maps]
  BY NoMapFits DEF MapInv
<1>2. \A q \in Players \ in_world' : automap'[q] = NoMap
  BY DEF MapInv
<1>3. \A q \in in_world' : Fits(automap'[q], mod_areas')
  BY Blocks DEF CharInv, MapInv
<1> QED BY <1>1, <1>2, <1>3, FromFits

LEMMA NextMap == CountInv /\ ListInv /\ ListInv' /\ CharInv /\ MapInv /\ [Next]_vars => MapInv'
<1> SUFFICES ASSUME CountInv, ListInv, ListInv', CharInv, MapInv, [Next]_vars PROVE MapInv'
  OBVIOUS
<1>1. ASSUME UNCHANGED mapVars
      PROVE  MapInv'
  BY <1>1 DEF mapVars, MapInv, AutomapParallel
<1>2. CASE UNCHANGED vars
  BY <1>1, <1>2 DEF vars, objects, characters, mapVars
<1>3. CASE ScriptStep
  <2>1. ASSUME NEW r \in ResRefs, CreateArea(r)
        PROVE  MapInv'
    <3>1. UpdatePlayersAutoMap(mod_areas') /\ UNCHANGED <<in_world, pcs_minimaps>>
      BY <2>1 DEF CreateArea
    <3> QED BY <3>1, UpdatedMaps DEF ListInv, CharInv
  <2>2. ASSUME NEW a \in AreaIds, DestroyArea(a)
        PROVE  MapInv'
    <3>1. UpdatePlayersAutoMap(mod_areas') /\ UNCHANGED <<in_world, pcs_minimaps>>
      BY <2>2 DEF DestroyArea
    <3> QED BY <3>1, UpdatedMaps DEF ListInv, CharInv
  <2>3. ASSUME NEW a \in AreaIds, WokeUpArea(a) \/ SuspendArea(a)
        PROVE  MapInv'
    BY <1>1, <2>3 DEF WokeUpArea, SuspendArea, characters, mapVars
  <2>4. CASE LoadDMAreasPrefix
    BY <1>1, <2>4 DEF LoadDMAreasPrefix, characters, mapVars
  <2> QED BY <1>3, <2>1, <2>2, <2>3, <2>4 DEF ScriptStep
<1>4. CASE SendAreaDone
  BY <1>1, <1>4 DEF SendAreaDone, objects, characters, mapVars
<1>5. CASE RemovePCFromWorldDone
  <2> DEFINE p == handler.player
  <2>1. p \in Players
    BY <1>5 DEF RemovePCFromWorldDone, CharInv
  <2>2. /\ in_world' = in_world \ {p} /\ automap' = [automap EXCEPT ![p] = NoMap]
        /\ UNCHANGED <<mod_areas, pcs_minimaps>>
    BY <1>5 DEF RemovePCFromWorldDone, objects
  <2> HIDE DEF p
  <2>3. pcs_minimaps' \in [Players -> Rows]
    BY <2>2 DEF MapInv
  <2> QED BY <2>1, <2>2, <2>3, GoMap
<1>6. ASSUME NEW p \in Players, EnterWorld(p)
      PROVE  MapInv'
  BY <1>6, EnterWorldMap
<1>7. ASSUME NEW p \in Players, Explore(p)
      PROVE  MapInv'
  BY <1>7, ExploreMap
<1>8. ASSUME NEW p \in Players, EnterArea(p)
      PROVE  MapInv'
  BY <1>8, EnterAreaMap
<1>9. ASSUME NEW p \in Players, \/ LeaveArea(p) \/ RemovePCFromWorld(p)
                                \/ \E leaving \in BOOLEAN : SaveServerChar(p, leaving)
      PROVE  MapInv'
  <2>1. SaveAutomapData(p, obj_area_id[p]) /\ UNCHANGED <<mod_areas, in_world, automap>>
    BY <1>9 DEF LeaveArea, RemovePCFromWorld, SaveServerChar, objects
  <2>2. pcs_minimaps' \in [Players -> Rows]
    BY <2>1, SavedRows
  <2> QED BY <2>1, <2>2 DEF MapInv, AutomapParallel
<1>10. CASE SaveServerCharDone
  BY <1>1, <1>10 DEF SaveServerCharDone, objects, characters, mapVars
<1>11. ASSUME NEW p \in Players, DestroyPlayer(p)
       PROVE  MapInv'
  <2>1. /\ in_world' = in_world \ {p} /\ automap' = [automap EXCEPT ![p] = NoMap]
        /\ UNCHANGED <<mod_areas, pcs_minimaps>>
    BY <1>11 DEF DestroyPlayer, objects
  <2>2. pcs_minimaps' \in [Players -> Rows]
    BY <2>1 DEF MapInv
  <2> QED BY <2>1, <2>2, GoMap
<1>12. ASSUME NEW p \in Players, NEW a \in AreaIds, SendArea(p, a)
       PROVE  MapInv'
  BY <1>1, <1>12 DEF SendArea, objects, characters, mapVars
<1>13. ASSUME NEW p \in Players, NEW k \in Placeables,
              OpenPlaceableInventory(p, k) \/ ClosePlaceableInventory(p, k)
       PROVE  MapInv'
  BY <1>1, <1>13 DEF OpenPlaceableInventory, ClosePlaceableInventory, objects, characters, mapVars
<1>14. ASSUME NEW k \in Placeables, DestroyPlaceable(k)
       PROVE  MapInv'
  BY <1>1, <1>14 DEF DestroyPlaceable, objects, characters, mapVars
<1> QED BY <1>2, <1>3, <1>4, <1>5, <1>6, <1>7, <1>8, <1>9, <1>10, <1>11, <1>12, <1>13, <1>14
        DEF Next

\* The automap of every character in the world keeps to the module's areas,
\* block by block, while scripts create and destroy areas.
THEOREM AutomapsParallel == Spec => []AutomapParallel
<1>1. MapInv => AutomapParallel
  BY DEF MapInv
<1> QED BY <1>1, InitCount, NextCount, InitList, NextList, InitChar, NextChar, InitMap, NextMap,
           PTL DEF Spec

-----------------------------------------------------------------------------

\* Every variable keeps its type, for any constants: ids are ids of areas, a
\* count never leaves its range, and automaps hold what an automap can hold.
THEOREM TypeCorrect == Spec => []TypeOK
<1>1. CountInv /\ ListInv /\ CharInv /\ ContInv /\ MapInv => TypeOK
  <2> SUFFICES ASSUME CountInv, ListInv, CharInv, ContInv, MapInv PROVE TypeOK
    OBVIOUS
  <2>1. /\ alive \subseteq AreaIds /\ resref \in [AreaIds -> ResRefs \cup {NoResRef}]
        /\ num_players \in [AreaIds -> 0..(Word - 1)]
        /\ loaded_area_id \in [Players -> AreaIds \cup {NoArea}]
    BY DEF CountInv, Counts, Loaded
  <2>2. /\ mod_areas \in Seq(AreaIds) /\ dm_client_prefix \subseteq ResRefs
        /\ active_areas \subseteq AreaIds /\ dm_client_areas \subseteq AreaIds
    BY <2>1 DEF ListInv, NoDanglingArea
  <2>3. /\ in_world \subseteq Players /\ obj_area_id \in [Players -> AreaIds \cup {NoArea}]
        /\ handler \in [kind : {"idle", "send_area", "save_char", "remove_pc"},
                        player : Players \cup {NoPlayer}, area : AreaIds \cup {NoArea}]
    BY DEF CharInv, Loaded, Handlers
  <2>4. /\ placeables \subseteq Placeables
        /\ players_current_container \in [Players -> Placeables \cup {NoPlaceable}]
        /\ opened \subseteq Players \X Placeables
    BY DEF ContInv
  <2>5. /\ automap \in [Players -> [areas : Seq(AreaIds), tiles : Seq(SUBSET ResRefs)]]
        /\ pcs_minimaps \in [Players -> [ResRefs -> (SUBSET ResRefs) \cup {NoRow}]]
    BY DEF MapInv, Maps, Rows
  <2> QED BY <2>1, <2>2, <2>3, <2>4, <2>5 DEF TypeOK
<1> QED BY <1>1, InitCount, NextCount, InitList, NextList, InitChar, NextChar, InitCont, NextCont,
           InitMap, NextMap, PTL DEF Spec

=============================================================================
