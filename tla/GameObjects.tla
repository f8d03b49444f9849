------------------------------- MODULE GameObjects -------------------------------
(***************************************************************************)
(* The game objects of a server and the ids they are known by (core.cpp):   *)
(* the map cgoa that replaces the engine's game object array, the two       *)
(* counters ids are taken from, and tags_map, the index of objects by tag.  *)
(*                                                                          *)
(* An object is a block of memory, which may be used again for another one. *)
(* Scripts, lists and events of the whole server keep ids, not objects, so  *)
(* much rests on what an id may come to mean.                               *)
(***************************************************************************)
EXTENDS Integers, Sequences, FiniteSets, SequencesExt

CONSTANTS
  Objects,
  Tags,           \* the tags scripts give to objects
  PTags,          \* those that begin with "P_"
  OBJECT_INVALID, \* 0x7f000000
  LastId,         \* 0x7fffffff, the first id of a character
  NoObject,
  NoTag           \* the empty tag and "NULL"

ASSUME GameObjectsAssumption ==
  /\ NoObject \notin Objects
  /\ PTags \subseteq Tags /\ NoTag \notin Tags
  /\ OBJECT_INVALID \in Nat \ {0} /\ LastId \in Nat /\ OBJECT_INVALID < LastId

Ids == 0..LastId
Types == {"item", "placeable", "area", "creature"}

VARIABLES
  exists,              \* the blocks that hold an object
  type, id, obj_tag,   \* CGameObject::type and id, CNWSObject::obj_tag
  cgoa,                \* the object of each id
  next_object_id, next_char_object_id,
  tags_map,            \* the ids of each tag; none is the same as no entry
  used                 \* history: the ids that were given out

counters == <<next_object_id, next_char_object_id, used>>
blocks == <<exists, type, id, obj_tag>>
vars == <<blocks, cgoa, counters, tags_map>>

TypeOK ==
  /\ exists \subseteq Objects
  /\ type \in [Objects -> Types]
  /\ id \in [Objects -> Ids]
  /\ obj_tag \in [Objects -> Tags \cup {NoTag}]
  /\ cgoa \in [Ids -> Objects \cup {NoObject}]
  /\ next_object_id \in Ids /\ next_char_object_id \in Ids
  /\ tags_map \in [Tags -> Seq(Ids)]
  /\ used \subseteq Ids

Init ==
  /\ exists = {}
  /\ type = [o \in Objects |-> "creature"]
  /\ id = [o \in Objects |-> OBJECT_INVALID]
  /\ obj_tag = [o \in Objects |-> NoTag]
  /\ cgoa = [i \in Ids |-> NoObject]
  /\ next_object_id = 0 /\ next_char_object_id = LastId
  /\ tags_map = [t \in Tags |-> <<>>]
  /\ used = {}

-----------------------------------------------------------------------------
(* The map of objects                                                      *)

\* OBJECT_INVALID is never looked up, even if an object had it.
GetGameObject(i) == IF i = OBJECT_INVALID THEN NoObject ELSE cgoa[i]

\* CGOA_Delete and CGOA_DeleteAndGet
Deleted(i) == IF i = OBJECT_INVALID THEN cgoa ELSE [cgoa EXCEPT ![i] = NoObject]

\* Characters have ids of their own.
NewId(isChar) == IF isChar THEN next_char_object_id ELSE next_object_id

\* Bound: once OBJECT_INVALID was given out nothing more is made.
CountUp(isChar) ==
  /\ OBJECT_INVALID \notin used
  /\ next_char_object_id' = IF isChar THEN next_char_object_id - 1 ELSE next_char_object_id
  /\ next_object_id' = IF isChar THEN next_object_id ELSE next_object_id + 1
  /\ used' = used \cup {NewId(isChar)}

-----------------------------------------------------------------------------
(* The index by tag                                                        *)

\* The type of the object an id finds.
NoType == "none"
TypeOfId(i) == IF GetGameObject(i) = NoObject THEN NoType ELSE type[GetGameObject(i)]

\* Mutant of Indexed: items are, too.
IndexedItems(k, t) == t # NoTag /\ (k = "placeable" => t \in PTags)

\* Whether safe_add_to_tags_map takes an object of type k: no items, and
\* placeables with a tag of PTags only.  What cannot be found is taken.
Indexed(k, t) == t # NoTag /\ k # "item" /\ (k = "placeable" => t \in PTags)

SafeAddToTagsMap(map, k, t, i) ==
  IF Indexed(k, t) THEN [map EXCEPT ![t] = <<i>> \o @] ELSE map

RemoveObjectFromTagsMap(map, t, i) ==
  IF t = NoTag THEN map ELSE [map EXCEPT ![t] = RemoveFirst(@, i)]

\* Mutant of SetTag: the new tag is indexed, the old one stays.
SetTagToo(i, t) ==
  LET o == GetGameObject(i)
  IN /\ o # NoObject /\ type[o] # "area"
     /\ obj_tag' = [obj_tag EXCEPT ![o] = t]
     /\ tags_map' = SafeAddToTagsMap(tags_map, TypeOfId(id[o]), t, id[o])
     /\ UNCHANGED <<exists, type, id, cgoa, counters>>

\* A script sets the tag of an object; an area is no CNWSObject.
SetTag(i, t) ==
  LET o == GetGameObject(i)
  IN /\ o # NoObject /\ type[o] # "area"
     /\ obj_tag' = [obj_tag EXCEPT ![o] = t]
     /\ tags_map' = SafeAddToTagsMap(RemoveObjectFromTagsMap(tags_map, obj_tag[o], id[o]),
                                     TypeOfId(id[o]), t, id[o])
     /\ UNCHANGED <<exists, type, id, cgoa, counters>>

-----------------------------------------------------------------------------
(* The engine makes and destroys objects, scripts give items new ids        *)

\* Mutant of AddInternalObject: the id of the characters is not counted down.
AddInternalObjectAgain(o, isChar) ==
  /\ OBJECT_INVALID \notin used
  /\ id' = [id EXCEPT ![o] = NewId(isChar)]
  /\ next_object_id' = IF isChar THEN next_object_id ELSE next_object_id + 1
  /\ UNCHANGED next_char_object_id
  /\ used' = used \cup {NewId(isChar)}

\* Mutant of AddInternalObject: characters are counted up as well.
AddInternalObjectUp(o, isChar) ==
  /\ OBJECT_INVALID \notin used
  /\ id' = [id EXCEPT ![o] = NewId(isChar)]
  /\ next_char_object_id' = IF isChar THEN next_char_object_id + 1 ELSE next_char_object_id
  /\ next_object_id' = IF isChar THEN next_object_id ELSE next_object_id + 1
  /\ used' = used \cup {NewId(isChar)}

\* CGOA_AddInternalObject, but for the map.  Bound: once OBJECT_INVALID was
\* given out nothing more is made.
AddInternalObject(o, isChar) ==
  /\ OBJECT_INVALID \notin used
  /\ id' = [id EXCEPT ![o] = NewId(isChar)]
  /\ next_char_object_id' = IF isChar THEN next_char_object_id - 1 ELSE next_char_object_id
  /\ next_object_id' = IF isChar THEN next_object_id ELSE next_object_id + 1
  /\ used' = used \cup {NewId(isChar)}

\* The engine makes an object, and then loads its tag, which comes to
\* AddToLookupTable_HookProc.
CreateObject(o, k, isChar, t) ==
  LET i == NewId(isChar)
  IN /\ o \notin exists
     /\ isChar => k = "creature"
     /\ AddInternalObject(o, isChar)
     /\ cgoa' = [cgoa EXCEPT ![i] = o]
     /\ exists' = exists \cup {o}
     /\ type' = [type EXCEPT ![o] = k]
     /\ obj_tag' = [obj_tag EXCEPT ![o] = t]
     /\ tags_map' = SafeAddToTagsMap(tags_map, IF i = OBJECT_INVALID THEN NoType ELSE k, t, i)

\* The engine destroys an object: the destructors take it from the index, if
\* it is no item, and then from the map.
Destroy(o) ==
  /\ o \in exists
  /\ exists' = exists \ {o}
  /\ tags_map' = IF type[o] = "item" THEN tags_map
                 ELSE RemoveObjectFromTagsMap(tags_map, obj_tag[o], id[o])
  /\ cgoa' = Deleted(id[o])
  /\ UNCHANGED <<type, id, obj_tag, counters>>

\* Mutant of UpdateItemAppearance: the item is found under its old id, too.
UpdateItemAppearanceToo(i) ==
  LET o == GetGameObject(i)
  IN /\ o # NoObject /\ type[o] = "item"
     /\ AddInternalObject(o, FALSE)
     /\ cgoa' = [cgoa EXCEPT ![NewId(FALSE)] = o]
     /\ UNCHANGED <<exists, type, obj_tag, tags_map>>

\* A script wants the clients to see an item anew: it gets another id.
UpdateItemAppearance(i) ==
  LET o == GetGameObject(i)
  IN /\ o # NoObject /\ type[o] = "item"
     /\ AddInternalObject(o, FALSE)
     /\ cgoa' = [Deleted(i) EXCEPT ![NewId(FALSE)] = o]
     /\ UNCHANGED <<exists, type, obj_tag, tags_map>>

\* Nothing is made after OBJECT_INVALID was given out.
Exhausted == OBJECT_INVALID \in used /\ UNCHANGED vars

-----------------------------------------------------------------------------

Next ==
  \/ \E o \in Objects :
       \/ \E k \in Types, isChar \in BOOLEAN, t \in Tags \cup {NoTag} : CreateObject(o, k, isChar, t)
       \/ Destroy(o)
  \/ \E i \in Ids :
       \/ \E t \in Tags \cup {NoTag} : SetTag(i, t)
       \/ UpdateItemAppearance(i)
  \/ Exhausted

Spec == Init /\ [][Next]_vars

-----------------------------------------------------------------------------
(* Properties                                                              *)

\* Every object is found under the id it believes to have, and under no other:
\* until OBJECT_INVALID was given out, whatever was made, destroyed or given
\* another id.
FoundUnderId ==
  OBJECT_INVALID \notin used =>
    /\ \A o \in exists : GetGameObject(id[o]) = o
    /\ \A i \in Ids : cgoa[i] # NoObject => cgoa[i] \in exists /\ id[cgoa[i]] = i

\* An id that was given out once never comes to mean another object: an id a
\* script kept finds the object it was kept for, or nothing.
IdsNotReused ==
  [][\A i \in used : cgoa'[i] \in {cgoa[i], NoObject}]_vars

\* The index has the existing objects of each tag that are to be indexed, each
\* once, whatever scripts did to their tags: a loop over find_object_by_tag
\* that nothing disturbs sees each of them, once.
TagsExact ==
  OBJECT_INVALID \notin used =>
    \A t \in Tags :
      /\ ToSet(tags_map[t]) = {id[o] : o \in {p \in exists : obj_tag[p] = t /\ Indexed(type[p], t)}}
      /\ IsInjective(tags_map[t])

=============================================================================
