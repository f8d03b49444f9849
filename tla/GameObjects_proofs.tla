--------------------------- MODULE GameObjects_proofs ---------------------------
(* Ids are never used again, every object is found under its id, and the index *)
(* by tag is exact, for any number of objects, tags and ids.                   *)
EXTENDS GameObjects, SequenceFacts, TLAPS

USE GameObjectsAssumption

\* The ids given out are those the counters have passed, and only they find
\* an object.
CounterInv ==
  /\ next_object_id <= OBJECT_INVALID + 1
  /\ next_char_object_id >= OBJECT_INVALID - 1
  /\ used = {i \in Ids : i < next_object_id \/ i > next_char_object_id}
  /\ \A o \in exists : id[o] \in used
  /\ \A i \in Ids : cgoa[i] # NoObject => i \in used

\* Apart from OBJECT_INVALID, the ids and the objects are found by each other.
FoundInv ==
  /\ \A o \in exists : id[o] # OBJECT_INVALID => cgoa[id[o]] = o
  /\ \A i \in Ids \ {OBJECT_INVALID} :
       cgoa[i] # NoObject => cgoa[i] \in exists /\ id[cgoa[i]] = i

\* The index, in terms of the ids in it.
IndexInv ==
  /\ \A t \in Tags : IsInjective(tags_map[t]) /\ ToSet(tags_map[t]) \subseteq used
  /\ \A t \in Tags : \A i \in ToSet(tags_map[t]) \ {OBJECT_INVALID} :
       cgoa[i] # NoObject /\ obj_tag[cgoa[i]] = t /\ Indexed(type[cgoa[i]], t)
  /\ \A o \in exists :
       id[o] # OBJECT_INVALID /\ Indexed(type[o], obj_tag[o]) => id[o] \in ToSet(tags_map[obj_tag[o]])

IdInv == TypeOK /\ CounterInv /\ FoundInv /\ IndexInv

-----------------------------------------------------------------------------
(* The index                                                               *)

Injective(map) == \A u \in Tags : IsInjective(map[u])

Lists(map) == map \in [Tags -> Seq(Ids)] /\ Injective(map)

\* The lists after an id was added to one, or taken from one.
IsAdded(map, after, k, t, i) ==
  /\ Lists(after)
  /\ \A u \in Tags : ToSet(after[u]) =
       IF u = t /\ Indexed(k, t) THEN ToSet(map[u]) \cup {i} ELSE ToSet(map[u])

IsRemoved(map, after, t, i) ==
  /\ Lists(after)
  /\ \A u \in Tags : ToSet(after[u]) = IF u = t THEN ToSet(map[u]) \ {i} ELSE ToSet(map[u])

\* An id that is in no list is added to the list of its tag, or to none.
LEMMA Added ==
  ASSUME NEW map, Lists(map), NEW k, NEW t \in Tags \cup {NoTag}, NEW i \in Ids,
         \A u \in Tags : i \notin ToSet(map[u])
  PROVE  IsAdded(map, SafeAddToTagsMap(map, k, t, i), k, t, i)
<1> USE DEF Lists, IsAdded
<1>1. CASE ~Indexed(k, t)
  BY <1>1 DEF SafeAddToTagsMap
<1>2. CASE Indexed(k, t)
  <2>1. t \in Tags
    BY <1>2 DEF Indexed
  <2>2. /\ <<i>> \o map[t] \in Seq(Ids) /\ IsInjective(<<i>> \o map[t])
        /\ ToSet(<<i>> \o map[t]) = ToSet(map[t]) \cup {i}
    BY <2>1, PutFront DEF Injective
  <2>3. SafeAddToTagsMap(map, k, t, i) = [map EXCEPT ![t] = <<i>> \o map[t]]
    BY <1>2 DEF SafeAddToTagsMap
  <2> QED BY <1>2, <2>1, <2>2, <2>3 DEF Injective
<1> QED BY <1>1, <1>2

\* An id is taken from the list of a tag.
LEMMA Removed ==
  ASSUME NEW map, Lists(map), NEW t \in Tags \cup {NoTag}, NEW i
  PROVE  IsRemoved(map, RemoveObjectFromTagsMap(map, t, i), t, i)
<1> USE DEF Lists, IsRemoved
<1>1. CASE t = NoTag
  BY <1>1 DEF RemoveObjectFromTagsMap
<1>2. CASE t \in Tags
  <2>1. /\ RemoveFirst(map[t], i) \in Seq(Ids) /\ IsInjective(RemoveFirst(map[t], i))
        /\ ToSet(RemoveFirst(map[t], i)) = ToSet(map[t]) \ {i}
    BY <1>2, RemoveOne DEF Injective
  <2>2. RemoveObjectFromTagsMap(map, t, i) = [map EXCEPT ![t] = RemoveFirst(map[t], i)]
    BY <1>2 DEF RemoveObjectFromTagsMap
  <2> QED BY <1>2, <2>1, <2>2 DEF Injective
<1> QED BY <1>1, <1>2

-----------------------------------------------------------------------------
(* The invariant                                                           *)

LEMMA InitInv == Init => IdInv
<1> SUFFICES ASSUME Init PROVE IdInv
  OBVIOUS
<1> USE DEF Init, Ids
<1>1. TypeOK
  BY DEF TypeOK, Types
<1>2. CounterInv /\ FoundInv
  BY DEF CounterInv, FoundInv
<1>3. ASSUME NEW t \in Tags
      PROVE  ToSet(tags_map[t]) = {} /\ IsInjective(tags_map[t])
  BY DEF ToSet, IsInjective
<1> QED BY <1>1, <1>2, <1>3 DEF IdInv, IndexInv

\* What AddInternalObject does to the counters: the new id was never given out.
LEMMA Counted ==
  ASSUME IdInv, NEW o \in Objects, NEW isChar \in BOOLEAN, AddInternalObject(o, isChar)
  PROVE  /\ NewId(isChar) \in Ids /\ NewId(isChar) \notin used
         /\ OBJECT_INVALID \notin used
         /\ used' = used \cup {NewId(isChar)} /\ used' \subseteq Ids
         /\ id' = [id EXCEPT ![o] = NewId(isChar)] /\ id' \in [Objects -> Ids]
         /\ next_object_id' \in Ids /\ next_char_object_id' \in Ids
         /\ next_object_id' <= OBJECT_INVALID + 1
         /\ next_char_object_id' >= OBJECT_INVALID - 1
         /\ used' = {i \in Ids : i < next_object_id' \/ i > next_char_object_id'}
<1>1. OBJECT_INVALID \notin used /\ OBJECT_INVALID \in Ids
  BY DEF AddInternalObject, Ids
<1>2. next_object_id <= OBJECT_INVALID /\ next_char_object_id >= OBJECT_INVALID
  BY <1>1 DEF IdInv, CounterInv, TypeOK, Ids
<1>3. NewId(isChar) \in Ids /\ NewId(isChar) \notin used
  BY <1>2 DEF NewId, IdInv, CounterInv, TypeOK, Ids
<1>4. /\ next_object_id' \in Ids /\ next_char_object_id' \in Ids
      /\ next_object_id' <= OBJECT_INVALID + 1
      /\ next_char_object_id' >= OBJECT_INVALID - 1
  BY <1>2 DEF AddInternalObject, IdInv, TypeOK, Ids
<1>5. used' = {i \in Ids : i < next_object_id' \/ i > next_char_object_id'}
  BY <1>2, <1>4 DEF AddInternalObject, NewId, IdInv, CounterInv, TypeOK, Ids
<1> QED BY <1>1, <1>3, <1>4, <1>5 DEF AddInternalObject, IdInv, TypeOK

LEMMA CreateInv ==
  ASSUME IdInv, NEW o \in Objects, NEW k \in Types, NEW isChar \in BOOLEAN,
         NEW t \in Tags \cup {NoTag}, CreateObject(o, k, isChar, t)
  PROVE  IdInv'
<1> DEFINE i == NewId(isChar)
           kk == IF i = OBJECT_INVALID THEN NoType ELSE k
<1>1. /\ i \in Ids /\ i \notin used /\ OBJECT_INVALID \notin used
      /\ used' = used \cup {i} /\ used' \subseteq Ids
      /\ id' = [id EXCEPT ![o] = i] /\ id' \in [Objects -> Ids]
      /\ next_object_id' \in Ids /\ next_char_object_id' \in Ids
      /\ next_object_id' <= OBJECT_INVALID + 1
      /\ next_char_object_id' >= OBJECT_INVALID - 1
      /\ used' = {j \in Ids : j < next_object_id' \/ j > next_char_object_id'}
  BY Counted DEF CreateObject
<1>2. /\ o \notin exists /\ exists' = exists \cup {o}
      /\ cgoa' = [cgoa EXCEPT ![i] = o]
      /\ type' = [type EXCEPT ![o] = k] /\ obj_tag' = [obj_tag EXCEPT ![o] = t]
      /\ tags_map' = SafeAddToTagsMap(tags_map, kk, t, i)
  BY DEF CreateObject
<1>3. \A u \in Tags : i \notin ToSet(tags_map[u])
  BY <1>1 DEF IdInv, IndexInv
<1>4. Lists(tags_map') /\ IsAdded(tags_map, tags_map', kk, t, i)
  <2>1. Lists(tags_map)
    BY DEF IdInv, IndexInv, TypeOK, Lists, Injective
  <2> HIDE DEF i, kk
  <2>2. IsAdded(tags_map, SafeAddToTagsMap(tags_map, kk, t, i), kk, t, i)
    BY <1>1, <1>3, <2>1, Added
  <2> QED BY <1>2, <2>2 DEF IsAdded
<1> USE DEF Lists, IsAdded
<1> HIDE DEF i
<1>5. TypeOK'
  BY <1>1, <1>2, <1>4 DEF IdInv, TypeOK
<1>6. CounterInv'
  BY <1>1, <1>2 DEF IdInv, TypeOK, CounterInv
<1>7. FoundInv'
  BY <1>1, <1>2 DEF IdInv, TypeOK, CounterInv, FoundInv
<1>8. IndexInv'
  <2>1. \A u \in Tags : IsInjective(tags_map'[u]) /\ ToSet(tags_map'[u]) \subseteq used'
    BY <1>1, <1>4 DEF IdInv, IndexInv, Injective
  <2>2. ASSUME NEW u \in Tags, NEW j \in ToSet(tags_map'[u]) \ {OBJECT_INVALID}
        PROVE  cgoa'[j] # NoObject /\ obj_tag'[cgoa'[j]] = u /\ Indexed(type'[cgoa'[j]], u)
    <3>1. CASE j = i
      <4>1. u = t /\ Indexed(k, t)
        BY <1>3, <1>4, <2>2, <3>1
      <4> QED BY <1>1, <1>2, <3>1, <4>1 DEF IdInv, TypeOK
    <3>2. CASE j # i
      <4>1. j \in ToSet(tags_map[u]) /\ j \in Ids
        BY <1>1, <1>4, <2>1, <2>2, <3>2
      <4>2. cgoa[j] # NoObject /\ cgoa[j] # o /\ cgoa[j] \in Objects
        BY <1>2, <2>2, <4>1 DEF IdInv, TypeOK, IndexInv, FoundInv
      <4> QED BY <1>1, <1>2, <2>2, <3>2, <4>1, <4>2 DEF IdInv, TypeOK, IndexInv
    <3> QED BY <3>1, <3>2
  <2>3. ASSUME NEW p \in exists', id'[p] # OBJECT_INVALID, Indexed(type'[p], obj_tag'[p])
        PROVE  id'[p] \in ToSet(tags_map'[obj_tag'[p]])
    <3>1. CASE p = o
      BY <1>1, <1>2, <1>4, <2>3, <3>1 DEF IdInv, TypeOK, Indexed
    <3>2. CASE p # o
      <4>1. p \in exists /\ p \in Objects /\ type'[p] = type[p]
        BY <1>2, <2>3, <3>2 DEF IdInv, TypeOK
      <4>2. id'[p] = id[p] /\ obj_tag'[p] = obj_tag[p]
        BY <1>1, <1>2, <3>2, <4>1 DEF IdInv, TypeOK
      <4>3. id[p] \in ToSet(tags_map[obj_tag[p]]) /\ obj_tag[p] \in Tags
        BY <2>3, <4>1, <4>2 DEF IdInv, TypeOK, IndexInv, Indexed
      <4> QED BY <1>4, <4>2, <4>3
    <3> QED BY <3>1, <3>2
  <2> QED BY <2>1, <2>2, <2>3 DEF IndexInv
<1> QED BY <1>5, <1>6, <1>7, <1>8 DEF IdInv

LEMMA SetTagInv ==
  ASSUME IdInv, NEW i \in Ids, NEW t \in Tags \cup {NoTag}, SetTag(i, t)
  PROVE  IdInv'
<1> DEFINE o == cgoa[i]
           without == RemoveObjectFromTagsMap(tags_map, obj_tag[o], i)
<1>1. /\ GetGameObject(i) = o /\ i # OBJECT_INVALID /\ o # NoObject
      /\ o \in exists /\ o \in Objects /\ id[o] = i /\ i \in used
  BY DEF SetTag, GetGameObject, IdInv, TypeOK, FoundInv, CounterInv
<1>2. /\ obj_tag' = [obj_tag EXCEPT ![o] = t]
      /\ tags_map' = SafeAddToTagsMap(without, type[o], t, i)
      /\ UNCHANGED <<exists, type, id, cgoa, counters>>
  BY <1>1 DEF SetTag, TypeOfId
<1>3. obj_tag[o] \in Tags \cup {NoTag}
  BY <1>1 DEF IdInv, TypeOK
<1>4. IsRemoved(tags_map, without, obj_tag[o], i)
  <2>1. Lists(tags_map)
    BY DEF IdInv, IndexInv, TypeOK, Lists, Injective
  <2> QED BY <1>3, <2>1, Removed
<1> HIDE DEF o, without
<1>5. \A u \in Tags : i \notin ToSet(without[u])
  <2> SUFFICES ASSUME NEW u \in Tags, i \in ToSet(tags_map[u])
               PROVE  u = obj_tag[o]
    BY <1>4 DEF IsRemoved
  <2> QED BY <1>1 DEF IdInv, IndexInv, o
<1>6. IsAdded(without, tags_map', type[o], t, i)
  BY <1>2, <1>4, <1>5, Added DEF IsRemoved
<1>7. Lists(tags_map')
  BY <1>6 DEF IsAdded
<1>8. ASSUME NEW u \in Tags
      PROVE  /\ ToSet(tags_map'[u]) \ {i} = ToSet(tags_map[u]) \ {i}
             /\ i \in ToSet(tags_map'[u]) <=> u = t /\ Indexed(type[o], t)
  BY <1>4, <1>5, <1>6 DEF IsRemoved, IsAdded
<1>9. TypeOK' /\ CounterInv' /\ FoundInv'
  BY <1>1, <1>2, <1>7 DEF Lists, IdInv, TypeOK, CounterInv, FoundInv, counters
<1>10. IndexInv'
  <2>1. \A u \in Tags : IsInjective(tags_map'[u]) /\ ToSet(tags_map'[u]) \subseteq used'
    <3>1. used' = used /\ \A u \in Tags : ToSet(tags_map[u]) \subseteq used
      BY <1>2 DEF IdInv, IndexInv, counters
    <3>2. \A u \in Tags : ToSet(tags_map'[u]) \subseteq used
      BY <1>1, <1>8, <3>1
    <3> QED BY <1>7, <3>1, <3>2 DEF Lists, Injective
  <2>2. ASSUME NEW u \in Tags, NEW j \in ToSet(tags_map'[u]) \ {OBJECT_INVALID}
        PROVE  cgoa'[j] # NoObject /\ obj_tag'[cgoa'[j]] = u /\ Indexed(type'[cgoa'[j]], u)
    <3>1. CASE j = i
      BY <1>1, <1>2, <1>8, <2>2, <3>1 DEF IdInv, TypeOK, o
    <3>2. CASE j # i
      <4>1. j \in ToSet(tags_map[u]) /\ j \in Ids
        BY <1>2, <1>8, <2>1, <2>2, <3>2 DEF IdInv, TypeOK, counters
      <4>2. cgoa[j] # NoObject /\ cgoa[j] # o /\ cgoa[j] \in Objects
        BY <1>1, <2>2, <3>2, <4>1 DEF IdInv, TypeOK, IndexInv, FoundInv
      <4> QED BY <1>2, <2>2, <4>1, <4>2 DEF IdInv, TypeOK, IndexInv
    <3> QED BY <3>1, <3>2
  <2>3. ASSUME NEW p \in exists', id'[p] # OBJECT_INVALID, Indexed(type'[p], obj_tag'[p])
        PROVE  id'[p] \in ToSet(tags_map'[obj_tag'[p]])
    <3>1. CASE p = o
      <4>1. obj_tag'[p] = t /\ t \in Tags
        BY <1>1, <1>2, <2>3, <3>1 DEF IdInv, TypeOK, Indexed
      <4> QED BY <1>1, <1>2, <1>8, <2>3, <3>1, <4>1
    <3>2. CASE p # o
      <4>1. p \in exists /\ p \in Objects /\ type'[p] = type[p] /\ id'[p] = id[p]
        BY <1>2, <2>3 DEF IdInv, TypeOK
      <4>2. obj_tag'[p] = obj_tag[p]
        BY <1>2, <3>2, <4>1 DEF IdInv, TypeOK
      <4>3. id[p] \in ToSet(tags_map[obj_tag[p]]) /\ obj_tag[p] \in Tags
        BY <2>3, <4>1, <4>2 DEF IdInv, TypeOK, IndexInv, Indexed
      <4>4. id[p] # i
        BY <1>1, <2>3, <3>2, <4>1 DEF IdInv, FoundInv, o
      <4> QED BY <1>8, <4>1, <4>2, <4>3, <4>4
    <3> QED BY <3>1, <3>2
  <2> QED BY <2>1, <2>2, <2>3 DEF IndexInv
<1> QED BY <1>9, <1>10 DEF IdInv

LEMMA DestroyInv ==
  ASSUME IdInv, NEW o \in Objects, Destroy(o)
  PROVE  IdInv'
<1> DEFINE i == id[o]
<1>1. /\ o \in exists /\ exists' = exists \ {o}
      /\ cgoa' = Deleted(i) /\ UNCHANGED <<type, id, obj_tag, counters>>
      /\ i \in Ids /\ obj_tag[o] \in Tags \cup {NoTag}
  BY DEF Destroy, IdInv, TypeOK
<1>2. /\ Lists(tags_map')
      /\ \A u \in Tags : ToSet(tags_map'[u]) \subseteq ToSet(tags_map[u])
      /\ \A u \in Tags : ToSet(tags_map[u]) \ {i} \subseteq ToSet(tags_map'[u])
      /\ \A u \in Tags : i # OBJECT_INVALID => i \notin ToSet(tags_map'[u])
  <2>1. Lists(tags_map)
    BY DEF IdInv, IndexInv, TypeOK, Lists, Injective
  <2>2. ASSUME NEW u \in Tags, i \in ToSet(tags_map[u]), i # OBJECT_INVALID
        PROVE  u = obj_tag[o] /\ type[o] # "item"
    BY <1>1, <2>2 DEF IdInv, IndexInv, FoundInv, Indexed
  <2>3. CASE type[o] = "item"
    BY <2>1, <2>2, <2>3 DEF Destroy
  <2>4. CASE type[o] # "item"
    <3>1. IsRemoved(tags_map, tags_map', obj_tag[o], i)
      BY <1>1, <2>1, <2>4, Removed DEF Destroy
    <3> QED BY <2>2, <3>1 DEF IsRemoved
  <2> QED BY <2>3, <2>4
<1>3. /\ cgoa' \in [Ids -> Objects \cup {NoObject}]
      /\ \A j \in Ids : cgoa'[j] \in {cgoa[j], NoObject}
      /\ \A j \in Ids : j # i => cgoa'[j] = cgoa[j]
      /\ i # OBJECT_INVALID => cgoa'[i] = NoObject
  BY <1>1 DEF Deleted, IdInv, TypeOK
<1>4. TypeOK'
  BY <1>1, <1>2, <1>3 DEF Lists, IdInv, TypeOK, counters
<1>5. CounterInv'
  BY <1>1, <1>3 DEF IdInv, TypeOK, CounterInv, counters
<1>6. FoundInv'
  BY <1>1, <1>3 DEF IdInv, TypeOK, FoundInv
<1>7. IndexInv'
  <2>1. \A u \in Tags : IsInjective(tags_map'[u]) /\ ToSet(tags_map'[u]) \subseteq used'
    BY <1>1, <1>2 DEF Lists, Injective, IdInv, IndexInv, counters
  <2>2. ASSUME NEW u \in Tags, NEW j \in ToSet(tags_map'[u]) \ {OBJECT_INVALID}
        PROVE  cgoa'[j] # NoObject /\ obj_tag'[cgoa'[j]] = u /\ Indexed(type'[cgoa'[j]], u)
    <3>1. j \in ToSet(tags_map[u]) /\ j # i /\ j \in Ids
      BY <1>2, <2>2 DEF IdInv, IndexInv, TypeOK
    <3> QED BY <1>1, <1>3, <2>2, <3>1 DEF IdInv, IndexInv
  <2>3. ASSUME NEW p \in exists', id'[p] # OBJECT_INVALID, Indexed(type'[p], obj_tag'[p])
        PROVE  id'[p] \in ToSet(tags_map'[obj_tag'[p]])
    <3>1. p \in exists /\ p # o /\ p \in Objects
      BY <1>1 DEF IdInv, TypeOK
    <3>2. id[p] \in ToSet(tags_map[obj_tag[p]]) /\ obj_tag[p] \in Tags
      BY <1>1, <2>3, <3>1 DEF IdInv, TypeOK, IndexInv, Indexed
    <3>3. id[p] # i
      BY <1>1, <2>3, <3>1 DEF IdInv, FoundInv
    <3> QED BY <1>1, <1>2, <3>2, <3>3
  <2> QED BY <2>1, <2>2, <2>3 DEF IndexInv
<1> QED BY <1>4, <1>5, <1>6, <1>7 DEF IdInv

LEMMA UpdateItemInv ==
  ASSUME IdInv, NEW i \in Ids, UpdateItemAppearance(i)
  PROVE  IdInv'
<1> DEFINE o == cgoa[i]
           n == NewId(FALSE)
<1>1. /\ GetGameObject(i) = o /\ i # OBJECT_INVALID /\ o # NoObject /\ type[o] = "item"
      /\ o \in exists /\ o \in Objects /\ id[o] = i /\ i \in used
  BY DEF UpdateItemAppearance, GetGameObject, IdInv, TypeOK, FoundInv, CounterInv
<1>2. /\ n \in Ids /\ n \notin used /\ OBJECT_INVALID \notin used
      /\ used' = used \cup {n} /\ used' \subseteq Ids
      /\ id' = [id EXCEPT ![o] = n] /\ id' \in [Objects -> Ids]
      /\ next_object_id' \in Ids /\ next_char_object_id' \in Ids
      /\ next_object_id' <= OBJECT_INVALID + 1
      /\ next_char_object_id' >= OBJECT_INVALID - 1
      /\ used' = {j \in Ids : j < next_object_id' \/ j > next_char_object_id'}
  BY <1>1, Counted DEF UpdateItemAppearance
<1>3. /\ UNCHANGED <<exists, type, obj_tag, tags_map>>
      /\ cgoa' = [[cgoa EXCEPT ![i] = NoObject] EXCEPT ![n] = o]
  BY <1>1 DEF UpdateItemAppearance, Deleted
<1> HIDE DEF o, n
<1>4. TypeOK'
  BY <1>1, <1>2, <1>3 DEF IdInv, TypeOK
<1>5. CounterInv'
  BY <1>1, <1>2, <1>3 DEF IdInv, TypeOK, CounterInv
<1>6. FoundInv'
  BY <1>1, <1>2, <1>3 DEF IdInv, TypeOK, CounterInv, FoundInv, o
<1>7. IndexInv'
  <2>1. \A u \in Tags : IsInjective(tags_map'[u]) /\ ToSet(tags_map'[u]) \subseteq used'
    BY <1>2, <1>3 DEF IdInv, IndexInv
  <2>2. ASSUME NEW u \in Tags, NEW j \in ToSet(tags_map'[u]) \ {OBJECT_INVALID}
        PROVE  cgoa'[j] # NoObject /\ obj_tag'[cgoa'[j]] = u /\ Indexed(type'[cgoa'[j]], u)
    <3>1. j \in ToSet(tags_map[u]) /\ j \in Ids /\ j # n
      BY <1>2, <1>3, <2>2 DEF IdInv, IndexInv, TypeOK
    <3>2. j # i
      BY <1>1, <2>2, <3>1 DEF IdInv, IndexInv, Indexed, o
    <3>3. cgoa'[j] = cgoa[j]
      BY <1>2, <1>3, <3>1, <3>2 DEF IdInv, TypeOK
    <3> QED BY <1>3, <2>2, <3>1, <3>3 DEF IdInv, IndexInv
  <2>3. ASSUME NEW p \in exists', id'[p] # OBJECT_INVALID, Indexed(type'[p], obj_tag'[p])
        PROVE  id'[p] \in ToSet(tags_map'[obj_tag'[p]])
    <3>1. p \in exists /\ p # o /\ p \in Objects
      BY <1>1, <1>3, <2>3 DEF IdInv, TypeOK, Indexed
    <3>2. id'[p] = id[p]
      BY <1>1, <1>2, <3>1 DEF IdInv, TypeOK
    <3> QED BY <1>3, <2>3, <3>1, <3>2 DEF IdInv, IndexInv
  <2> QED BY <2>1, <2>2, <2>3 DEF IndexInv
<1> QED BY <1>4, <1>5, <1>6, <1>7 DEF IdInv

LEMMA StutterInv ==
  ASSUME IdInv, UNCHANGED vars
  PROVE  IdInv'
  BY DEF vars, blocks, counters, IdInv, TypeOK, CounterInv, FoundInv, IndexInv

\* The invariant is inductive, so it holds for any number of objects and tags.
THEOREM IdsInductive == Spec => []IdInv
<1>1. IdInv /\ [Next]_vars => IdInv'
  <2> SUFFICES ASSUME IdInv, [Next]_vars
               PROVE  IdInv'
    OBVIOUS
  <2>1. ASSUME NEW o \in Objects, NEW k \in Types, NEW isChar \in BOOLEAN,
               NEW t \in Tags \cup {NoTag}, CreateObject(o, k, isChar, t)
        PROVE  IdInv'
    BY <2>1, CreateInv
  <2>2. ASSUME NEW o \in Objects, Destroy(o)
        PROVE  IdInv'
    BY <2>2, DestroyInv
  <2>3. ASSUME NEW i \in Ids, NEW t \in Tags \cup {NoTag}, SetTag(i, t)
        PROVE  IdInv'
    BY <2>3, SetTagInv
  <2>4. ASSUME NEW i \in Ids, UpdateItemAppearance(i)
        PROVE  IdInv'
    BY <2>4, UpdateItemInv
  <2>5. ASSUME Exhausted \/ UNCHANGED vars
        PROVE  IdInv'
    BY <2>5, StutterInv DEF Exhausted
  <2> QED BY <2>1, <2>2, <2>3, <2>4, <2>5 DEF Next
<1> QED BY <1>1, InitInv, PTL DEF Spec

\* Type correctness of the map of objects, the counters and the index.
THEOREM TypeCorrect == Spec => []TypeOK
<1>1. IdInv => TypeOK
  BY DEF IdInv
<1> QED BY <1>1, IdsInductive, PTL

\* Every object is found under its id and under no other: what GetGameObject
\* returns for the id an object carries is that object.
THEOREM FoundUnderIdAlways == Spec => []FoundUnderId
<1>1. IdInv => FoundUnderId
  <2> SUFFICES ASSUME IdInv, OBJECT_INVALID \notin used
               PROVE  /\ \A o \in exists : GetGameObject(id[o]) = o
                      /\ \A i \in Ids : cgoa[i] # NoObject => cgoa[i] \in exists /\ id[cgoa[i]] = i
    BY DEF FoundUnderId
  <2>1. \A o \in exists : id[o] # OBJECT_INVALID
    BY DEF IdInv, CounterInv
  <2>2. \A i \in Ids : cgoa[i] # NoObject => i # OBJECT_INVALID
    BY DEF IdInv, CounterInv
  <2> QED BY <2>1, <2>2 DEF IdInv, FoundInv, GetGameObject
<1> QED BY <1>1, IdsInductive, PTL

\* The index by tag lists the existing objects of each tag, each once.
THEOREM TagsAlwaysExact == Spec => []TagsExact
<1>1. IdInv => TagsExact
  <2> SUFFICES ASSUME IdInv, OBJECT_INVALID \notin used, NEW t \in Tags
               PROVE  /\ ToSet(tags_map[t]) =
                           {id[o] : o \in {p \in exists : obj_tag[p] = t /\ Indexed(type[p], t)}}
                      /\ IsInjective(tags_map[t])
    BY DEF TagsExact
  <2>1. ASSUME NEW i \in ToSet(tags_map[t])
        PROVE  \E o \in exists : obj_tag[o] = t /\ Indexed(type[o], t) /\ id[o] = i
    <3>1. i \in used /\ i \in Ids /\ i # OBJECT_INVALID
      BY DEF IdInv, IndexInv, TypeOK
    <3>2. cgoa[i] # NoObject /\ obj_tag[cgoa[i]] = t /\ Indexed(type[cgoa[i]], t)
      BY <3>1 DEF IdInv, IndexInv
    <3>3. cgoa[i] \in exists /\ id[cgoa[i]] = i
      BY <3>1, <3>2 DEF IdInv, FoundInv
    <3> QED BY <3>2, <3>3
  <2>2. ASSUME NEW o \in exists, obj_tag[o] = t, Indexed(type[o], t)
        PROVE  id[o] \in ToSet(tags_map[t])
    BY <2>2 DEF IdInv, CounterInv, IndexInv
  <2>3. IsInjective(tags_map[t])
    BY DEF IdInv, IndexInv
  <2> QED BY <2>1, <2>2, <2>3
<1> QED BY <1>1, IdsInductive, PTL

\* An id that was given out never comes to mean another object: ids that
\* scripts, lists and events kept are safe to look up later.
THEOREM IdsNeverReused == Spec => IdsNotReused
<1> DEFINE Kept == \A i \in used : cgoa'[i] \in {cgoa[i], NoObject}
<1>1. IdInv /\ [Next]_vars => [Kept]_vars
  <2> SUFFICES ASSUME IdInv, Next
               PROVE  Kept
    OBVIOUS
  <2> USE DEF IdInv, TypeOK
  <2>1. ASSUME NEW o \in Objects, NEW k \in Types, NEW isChar \in BOOLEAN,
               NEW t \in Tags \cup {NoTag}, CreateObject(o, k, isChar, t)
        PROVE  Kept
    <3>1. NewId(isChar) \notin used
      BY <2>1, Counted DEF CreateObject
    <3> QED BY <2>1, <3>1 DEF CreateObject
  <2>2. ASSUME NEW o \in Objects, Destroy(o)
        PROVE  Kept
    BY <2>2 DEF Destroy, Deleted
  <2>3. ASSUME NEW i \in Ids, NEW t \in Tags \cup {NoTag}, SetTag(i, t)
        PROVE  Kept
    BY <2>3 DEF SetTag
  <2>4. ASSUME NEW i \in Ids, UpdateItemAppearance(i)
        PROVE  Kept
    <3>1. GetGameObject(i) \in Objects
      BY <2>4 DEF UpdateItemAppearance, GetGameObject
    <3>2. NewId(FALSE) \notin used
      BY <2>4, <3>1, Counted DEF UpdateItemAppearance
    <3> QED BY <2>4, <3>2 DEF UpdateItemAppearance, Deleted
  <2>5. ASSUME Exhausted
        PROVE  Kept
    BY <2>5 DEF Exhausted, vars
  <2> QED BY <2>1, <2>2, <2>3, <2>4, <2>5 DEF Next
<1> QED BY <1>1, IdsInductive, PTL DEF Spec, IdsNotReused

=============================================================================
