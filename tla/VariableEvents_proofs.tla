------------------------- MODULE VariableEvents_proofs -------------------------
(* The registry, the service of every script and the bypass, for any number of *)
(* events, scripts, slots and nested calls.                                    *)
EXTENDS VariableEvents, TLAPS

USE VariableEventsAssumption

\* Every registered script has run in the call, or is in a slot ahead of it with
\* its mark, or lost its turn to the bypass.
Served(c, t) ==
  c.registration # "grown" =>
    \A r \in Entries(t) :
      \/ r[1] \in c.ran
      \/ c.bypassed /\ ~r[2]
      \/ \E i \in Ahead(c) : t.slot[i] = r[1] /\ t.nobp[i] = r[2]

\* While the registration stays the same the slots ahead are live and new.
Once(c, t) ==
  c.registration = "same" =>
    /\ ~c.twice
    /\ c.registered_count = t.count
    /\ \A i \in Ahead(c) : t.slot[i] \notin c.ran

CallsServed ==
  \A k \in DOMAIN calls :
    Served(calls[k], table[calls[k].event]) /\ Once(calls[k], table[calls[k].event])

\* Only the innermost call can still have the globals to itself.
OwnGlobals ==
  \A k \in DOMAIN calls : calls[k].bypass # "foreign" =>
    /\ k = Len(calls)
    /\ current_event = calls[k].event
    /\ calls[k].bypassed \/ bypass_current_event <=> calls[k].bypass = "own"

-----------------------------------------------------------------------------
LEMMA SameLength ==
  ASSUME NEW S, NEW s \in Seq(S), NEW t, DOMAIN t = DOMAIN s,
         t = [k \in DOMAIN t |-> t[k]], \A k \in DOMAIN s : t[k] \in S
  PROVE  t \in Seq(S) /\ Len(t) = Len(s)
<1>1. DOMAIN s = 1..Len(s) /\ Len(s) \in Nat
  OBVIOUS
<1>2. t \in [1..Len(s) -> S]
  BY <1>1
<1> QED BY <1>1, <1>2

\* The innermost call, when there is one.
LEMMA InnermostCall ==
  ASSUME TypeOK, Len(calls) > 0
  PROVE  Len(calls) \in Nat /\ DOMAIN calls = 1..Len(calls) /\ calls[Len(calls)] \in Call
BY DEF TypeOK

\* What becomes of a call is a call.
LEMMA NextScript ==
  ASSUME NEW c \in Call, NEW i \in Index, NEW b \in BOOLEAN, NEW s \in Scripts, NEW d,
         d = WithScript(c, i, b, s)
  PROVE  /\ d \in Call
         /\ d.script_index = i /\ d.bypassed = b
         /\ d.event = c.event /\ d.registered_count = c.registered_count
         /\ d.bypass = c.bypass /\ d.registration = c.registration
         /\ c.registration # "grown" => d.ran = c.ran \union {s}
         /\ c.registration # "grown" => (d.twice <=> c.twice \/ s \in c.ran)
<1> DEFINE a == [c EXCEPT !.script_index = i, !.bypassed = b]
<1>1. i \in -1..(MaxCount - 1)
  BY DEF Index
<1>2. /\ a \in Call
      /\ a.script_index = i /\ a.bypassed = b
      /\ a.event = c.event /\ a.registered_count = c.registered_count
      /\ a.bypass = c.bypass /\ a.registration = c.registration
      /\ a.ran = c.ran /\ a.twice = c.twice
  BY <1>1 DEF Call
<1>3. d = Ran(a, s)
  BY DEF WithScript
<1> HIDE DEF a
<1>4. CASE a.registration = "grown"
  BY <1>2, <1>3, <1>4 DEF Ran
<1>5. CASE a.registration # "grown"
  <2> DEFINE ran == a.ran \union {s}
             twice == a.twice \/ s \in a.ran
  <2>1. d = [a EXCEPT !.ran = ran, !.twice = twice]
    BY <1>3, <1>5 DEF Ran
  <2>2. ran \in SUBSET Scripts /\ twice \in BOOLEAN
    BY <1>2 DEF Call
  <2> HIDE DEF ran, twice
  <2>3. d \in Call
    BY <1>2, <2>1, <2>2 DEF Call
  <2>4. /\ d.script_index = a.script_index /\ d.bypassed = a.bypassed
        /\ d.event = a.event /\ d.registered_count = a.registered_count
        /\ d.bypass = a.bypass /\ d.registration = a.registration
        /\ d.ran = ran /\ d.twice = twice
    BY <1>2, <2>1, <2>2 DEF Call
  <2> QED BY <1>2, <2>3, <2>4 DEF ran, twice
<1> QED BY <1>4, <1>5

LEMMA ForeignCall ==
  ASSUME NEW c \in Call
  PROVE  [c EXCEPT !.bypass = "foreign"] \in Call
BY DEF Call

LEMMA OwnCall ==
  ASSUME NEW c \in Call
  PROVE  [c EXCEPT !.bypass = "own"] \in Call
BY DEF Call

LEMMA GrownCalls ==
  ASSUME TypeOK, NEW e \in Events
  PROVE  /\ Grown(e) \in Seq(Call) /\ Len(Grown(e)) = Len(calls)
         /\ DOMAIN Grown(e) = DOMAIN calls
         /\ \A k \in DOMAIN calls :
              /\ Grown(e)[k].event = calls[k].event
              /\ Grown(e)[k].bypass = calls[k].bypass
              /\ Grown(e)[k].bypassed = calls[k].bypassed
              /\ calls[k].event = e => Grown(e)[k].registration = "grown"
              /\ calls[k].event # e => Grown(e)[k] = calls[k]
<1>1. \A k \in DOMAIN calls : calls[k] \in Call
  BY DEF TypeOK
<1>2. \A k \in DOMAIN calls : Grown(e)[k] \in Call
  <2>1. \A k \in DOMAIN calls : calls[k].event = e =>
          [calls[k] EXCEPT !.registration = "grown", !.ran = {}, !.twice = FALSE] \in Call
    BY <1>1 DEF Call
  <2> QED BY <1>1, <2>1 DEF Grown
<1>3. DOMAIN Grown(e) = DOMAIN calls /\ Grown(e) = [k \in DOMAIN Grown(e) |-> Grown(e)[k]]
  BY DEF Grown
<1>4. Grown(e) \in Seq(Call) /\ Len(Grown(e)) = Len(calls)
  BY <1>2, <1>3, SameLength DEF TypeOK
<1> QED BY <1>1, <1>3, <1>4 DEF Grown, Call

LEMMA ShrunkCalls ==
  ASSUME TypeOK, NEW e \in Events
  PROVE  /\ Shrunk(e) \in Seq(Call) /\ Len(Shrunk(e)) = Len(calls)
         /\ DOMAIN Shrunk(e) = DOMAIN calls
         /\ \A k \in DOMAIN calls :
              /\ Shrunk(e)[k].event = calls[k].event
              /\ Shrunk(e)[k].bypass = calls[k].bypass
              /\ Shrunk(e)[k].bypassed = calls[k].bypassed
              /\ Shrunk(e)[k].ran = calls[k].ran
              /\ Ahead(Shrunk(e)[k]) = Ahead(calls[k])
              /\ Shrunk(e)[k].registration = "grown" <=> calls[k].registration = "grown"
              /\ calls[k].event = e => Shrunk(e)[k].registration # "same"
              /\ calls[k].event # e => Shrunk(e)[k] = calls[k]
<1>1. \A k \in DOMAIN calls : calls[k] \in Call
  BY DEF TypeOK
<1>2. \A k \in DOMAIN calls : Shrunk(e)[k] \in Call
  BY <1>1 DEF Shrunk, Call
<1>3. DOMAIN Shrunk(e) = DOMAIN calls /\ Shrunk(e) = [k \in DOMAIN Shrunk(e) |-> Shrunk(e)[k]]
  BY DEF Shrunk
<1>4. Shrunk(e) \in Seq(Call) /\ Len(Shrunk(e)) = Len(calls)
  BY <1>2, <1>3, SameLength DEF TypeOK
<1> QED BY <1>1, <1>3, <1>4 DEF Shrunk, Call, Ahead

-----------------------------------------------------------------------------
(* The table of an event after a registration and after a script is taken out. *)

\* The table u is t without s; the slots that did not hold s are as they were.
Out(t, u, s) ==
  /\ u \in Variables /\ Packed(u)
  /\ Entries(u) = Entries(t) \ ({s} \X BOOLEAN)
  /\ \A i \in Index : t.slot[i] # s => u.slot[i] = t.slot[i] /\ u.nobp[i] = t.nobp[i]

\* The table u is t with s, marked or not.
In(t, u, s, b) ==
  /\ u \in Variables /\ Packed(u)
  /\ Entries(u) = (Entries(t) \ ({s} \X BOOLEAN)) \union {<<s, b>>}

\* The entries one by one.
EntryByEntry(t) ==
  \A x \in Script, b \in BOOLEAN :
    <<x, b>> \in Entries(t) <=>
      \/ t.first # NoScript /\ x = t.first /\ b = t.first_nobp
      \/ \E i \in Live(t) : x = t.slot[i] /\ b = t.nobp[i]

LEMMA EntryOf ==
  ASSUME NEW t \in Variables
  PROVE  Entries(t) \subseteq Script \X BOOLEAN /\ EntryByEntry(t)
<1>1. Live(t) \subseteq Index
  BY DEF Variables, Live, Index
<1>2. /\ t.first \in Script /\ t.first_nobp \in BOOLEAN
      /\ \A i \in Live(t) : t.slot[i] \in Script /\ t.nobp[i] \in BOOLEAN
  BY <1>1 DEF Variables
<1> QED BY <1>2 DEF Entries, EntryByEntry

\* The entries of a table whose live slots are as in another one.
Held(t, slots, x, b) == \E i \in slots : x = t.slot[i] /\ b = t.nobp[i]

LEMMA Member ==
  ASSUME NEW t, EntryByEntry(t), NEW x \in Script, NEW b \in BOOLEAN
  PROVE  <<x, b>> \in Entries(t) <=>
           \/ t.first # NoScript /\ x = t.first /\ b = t.first_nobp
           \/ Held(t, Live(t), x, b)
BY DEF EntryByEntry, Held

LEMMA SameSlots ==
  ASSUME NEW t, NEW u, NEW slots, NEW x, NEW b,
         \A i \in slots : u.slot[i] = t.slot[i] /\ u.nobp[i] = t.nobp[i]
  PROVE  Held(u, slots, x, b) <=> Held(t, slots, x, b)
BY DEF Held

\* Two tables compared entry by entry.
LEMMA SameEntries ==
  ASSUME NEW t \in Variables, NEW u \in Variables, NEW s \in Scripts,
         \A x \in Script, b \in BOOLEAN :
           <<x, b>> \in Entries(u) <=> x # s /\ <<x, b>> \in Entries(t)
  PROVE  Entries(u) = Entries(t) \ ({s} \X BOOLEAN)
<1>1. Entries(u) \subseteq Script \X BOOLEAN /\ Entries(t) \subseteq Script \X BOOLEAN
  BY EntryOf
<1>2. \A x \in Script, b \in BOOLEAN :
        <<x, b>> \in Entries(u) <=> <<x, b>> \in Entries(t) \ ({s} \X BOOLEAN)
  OBVIOUS
<1> QED BY <1>1, <1>2

\* Taking out the only script.
LEMMA TakeOnly ==
  ASSUME NEW t \in Variables, Packed(t), NEW s \in Scripts, NEW u,
         t.first = s, t.count = 0,
         u = [t EXCEPT !.first = NoScript, !.first_nobp = FALSE]
  PROVE  Out(t, u, s)
<1>1. u \in Variables
  BY DEF Variables, Script
<1>2. u.count = 0 /\ u.first = NoScript /\ u.first_nobp = FALSE
      /\ u.slot = t.slot /\ u.nobp = t.nobp
  BY DEF Variables
<1>3. Live(u) = {} /\ Live(t) = {}
  BY <1>2 DEF Live
<1>4. Packed(u)
  BY <1>2, <1>3 DEF Packed
<1>9. EntryByEntry(t) /\ EntryByEntry(u)
  BY <1>1, EntryOf
<1>5. \A x \in Script, b \in BOOLEAN :
        <<x, b>> \in Entries(u) <=> x # s /\ <<x, b>> \in Entries(t)
  BY <1>1, <1>2, <1>3, <1>9 DEF EntryByEntry
<1>10. Entries(u) = Entries(t) \ ({s} \X BOOLEAN)
  BY <1>1, <1>2, <1>4, <1>5, SameEntries
<1> QED BY <1>1, <1>2, <1>4, <1>5, <1>10 DEF Out

LEMMA LastSlot ==
  ASSUME NEW t \in Variables, t.count > 0
  PROVE  /\ t.count - 1 \in Index /\ t.count - 1 \in 0..MaxCount
         /\ t.count - 1 \in Live(t) /\ Live(t) \subseteq Index
         /\ Live(t) = (0..(t.count - 2)) \union {t.count - 1}
BY DEF Variables, Live, Index

\* Taking out the first script: the last one takes its place.
LEMMA TakeFirst ==
  ASSUME NEW t \in Variables, Packed(t), NEW s \in Scripts, NEW u, NEW last,
         last = t.count - 1, t.first = s, t.count > 0,
         u = [t EXCEPT !.first = t.slot[last], !.first_nobp = t.nobp[last], !.count = last]
  PROVE  Out(t, u, s)
<1>1. last \in Index /\ last \in Live(t) /\ Live(t) \subseteq Index
  BY LastSlot
<1>2. u \in Variables
  BY <1>1, LastSlot DEF Variables
<1>3. /\ u.count = last /\ u.first = t.slot[last] /\ u.first_nobp = t.nobp[last]
      /\ u.slot = t.slot /\ u.nobp = t.nobp
  BY DEF Variables
<1>4. Live(t) = Live(u) \union {last} /\ last \notin Live(u)
  BY <1>1, <1>3, LastSlot DEF Live, Index
<1>5. \A i \in Live(t) : t.slot[i] # NoScript /\ t.slot[i] # s
  BY DEF Packed
<1>6. Packed(u)
  BY <1>1, <1>3, <1>4, <1>5 DEF Packed
<1>9. EntryByEntry(t) /\ EntryByEntry(u)
  BY <1>2, EntryOf
<1>7. ASSUME NEW x \in Script, NEW b \in BOOLEAN
      PROVE  <<x, b>> \in Entries(u) <=> x # s /\ <<x, b>> \in Entries(t)
  <2> DEFINE is(i) == x = t.slot[i] /\ b = t.nobp[i]
  <2>1. <<x, b>> \in Entries(t) <=> (x = s /\ b = t.first_nobp) \/ \E i \in Live(t) : is(i)
    BY <1>9 DEF EntryByEntry
  <2>2. <<x, b>> \in Entries(u) <=> is(last) \/ \E i \in Live(u) : is(i)
    BY <1>1, <1>3, <1>5, <1>9 DEF EntryByEntry
  <2>3. (\E i \in Live(t) : is(i)) => x # s
    BY <1>5
  <2> HIDE DEF is
  <2>4. (\E i \in Live(t) : is(i)) <=> is(last) \/ \E i \in Live(u) : is(i)
    BY <1>4
  <2> QED BY <2>1, <2>2, <2>3, <2>4
<1>10. Entries(u) = Entries(t) \ ({s} \X BOOLEAN)
  BY <1>2, <1>3, <1>6, <1>7, SameEntries
<1> QED BY <1>2, <1>3, <1>6, <1>7, <1>10 DEF Out

\* Taking out the last of the others: its variables are deleted.
LEMMA TakeLast ==
  ASSUME NEW t \in Variables, Packed(t), NEW s \in Scripts, NEW u, NEW last,
         last = t.count - 1, t.first \notin {s, NoScript}, last \in At(t, s),
         u = [t EXCEPT !.slot[last] = NoScript, !.nobp[last] = FALSE, !.count = last]
  PROVE  Out(t, u, s)
<1>0. t.count > 0 /\ t.slot[last] = s
  BY DEF At, Live, Variables
<1>1. last \in Index /\ last \in Live(t) /\ Live(t) \subseteq Index
  BY <1>0, LastSlot
<1>2. u \in Variables
  BY <1>0, <1>1, LastSlot DEF Variables, Script
<1>3. /\ u.count = last /\ u.first = t.first /\ u.first_nobp = t.first_nobp
      /\ \A i \in Index \ {last} : u.slot[i] = t.slot[i] /\ u.nobp[i] = t.nobp[i]
  BY <1>1 DEF Variables
<1>4. Live(t) = Live(u) \union {last} /\ last \notin Live(u)
  BY <1>0, <1>1, <1>3, LastSlot DEF Live, Index
<1>5. \A i \in Live(u) : t.slot[i] # s
  BY <1>0, <1>1, <1>4 DEF Packed
<1>6. Packed(u)
  BY <1>1, <1>3, <1>4 DEF Packed
<1>9. EntryByEntry(t) /\ EntryByEntry(u)
  BY <1>2, EntryOf
<1>7. ASSUME NEW x \in Script, NEW b \in BOOLEAN
      PROVE  <<x, b>> \in Entries(u) <=> x # s /\ <<x, b>> \in Entries(t)
  <2> DEFINE is(i) == x = t.slot[i] /\ b = t.nobp[i]
             first == x = t.first /\ b = t.first_nobp
  <2>1. <<x, b>> \in Entries(t) <=> first \/ \E i \in Live(t) : is(i)
    BY <1>9 DEF EntryByEntry
  <2>2. <<x, b>> \in Entries(u) <=> first \/ \E i \in Live(u) : is(i)
    <3>1. u.first = t.first /\ u.first_nobp = t.first_nobp /\ u.first # NoScript
      BY <1>3
    <3>2. \A i \in Live(u) : u.slot[i] = t.slot[i] /\ u.nobp[i] = t.nobp[i]
      BY <1>1, <1>3, <1>4
    <3>3. Held(u, Live(u), x, b) <=> Held(t, Live(u), x, b)
      BY <3>2 DEF Held
    <3>4. Held(t, Live(u), x, b) <=> \E i \in Live(u) : is(i)
      BY DEF Held
    <3>5. first <=> u.first # NoScript /\ x = u.first /\ b = u.first_nobp
      BY <3>1
    <3> HIDE DEF is, first
    <3>6. <<x, b>> \in Entries(u) <=>
            (u.first # NoScript /\ x = u.first /\ b = u.first_nobp) \/ Held(u, Live(u), x, b)
      BY <1>9, Member
    <3> QED BY <3>3, <3>4, <3>5, <3>6, Zenon
  <2>3. (first => x # s) /\ (is(last) => x = s) /\ \A i \in Live(u) : is(i) => x # s
    BY <1>0, <1>5
  <2> HIDE DEF is, first
  <2>4. (\E i \in Live(t) : is(i)) <=> is(last) \/ \E i \in Live(u) : is(i)
    BY <1>4
  <2> QED BY <2>1, <2>2, <2>3, <2>4
<1>10. Entries(u) = Entries(t) \ ({s} \X BOOLEAN)
  BY <1>0, <1>2, <1>3, <1>6, <1>7, SameEntries
<1> QED BY <1>0, <1>2, <1>3, <1>6, <1>7, <1>10 DEF Out

\* Taking out another: the last one takes its place.
LEMMA TakeOther ==
  ASSUME NEW t \in Variables, Packed(t), NEW s \in Scripts, NEW u, NEW last,
         last = t.count - 1, t.first \notin {s, NoScript}, NEW j \in At(t, s) \ {last},
         u = [t EXCEPT !.slot[j] = t.slot[last], !.nobp[j] = t.nobp[last], !.count = last]
  PROVE  Out(t, u, s)
<1>0. t.count > 0 /\ j \in Live(t) /\ j # last /\ t.slot[j] = s
  BY DEF At, Live, Variables
<1>1. last \in Index /\ last \in Live(t) /\ Live(t) \subseteq Index /\ j \in Index
  BY <1>0, LastSlot
<1>2. u \in Variables
  BY <1>0, <1>1, LastSlot DEF Variables
<1>3. /\ u.count = last /\ u.first = t.first /\ u.first_nobp = t.first_nobp
      /\ u.slot[j] = t.slot[last] /\ u.nobp[j] = t.nobp[last]
      /\ \A i \in Index \ {j} : u.slot[i] = t.slot[i] /\ u.nobp[i] = t.nobp[i]
  BY <1>1 DEF Variables
<1>4. Live(t) = Live(u) \union {last} /\ last \notin Live(u) /\ j \in Live(u)
  BY <1>0, <1>1, <1>3, LastSlot DEF Live, Index
<1>5. \A i \in Live(t) : t.slot[i] # NoScript /\ t.slot[i] # t.first
                        /\ (i # j => t.slot[i] # s) /\ (i # last => t.slot[i] # t.slot[last])
  BY <1>0, <1>1 DEF Packed
<1>6. Packed(u)
  <2>1. \A i \in Live(u) : u.slot[i] \notin {NoScript, u.first}
    BY <1>1, <1>3, <1>4, <1>5
  <2>2. ASSUME NEW i \in Live(u), NEW k \in Live(u), u.slot[i] = u.slot[k]
        PROVE  i = k
    <3>1. CASE i = j \/ k = j
      BY <1>1, <1>3, <1>4, <1>5, <2>2, <3>1
    <3>2. CASE i # j /\ k # j
      <4>1. t.slot[i] = t.slot[k] /\ i \in Live(t) /\ k \in Live(t)
        BY <1>1, <1>3, <1>4, <2>2, <3>2
      <4> QED BY <4>1 DEF Packed
    <3> QED BY <3>1, <3>2
  <2> QED BY <1>3, <2>1, <2>2 DEF Packed
<1>9. EntryByEntry(t) /\ EntryByEntry(u)
  BY <1>2, EntryOf
<1>7. ASSUME NEW x \in Script, NEW b \in BOOLEAN
      PROVE  <<x, b>> \in Entries(u) <=> x # s /\ <<x, b>> \in Entries(t)
  <2> DEFINE is(i) == x = t.slot[i] /\ b = t.nobp[i]
             now(i) == x = u.slot[i] /\ b = u.nobp[i]
             first == x = t.first /\ b = t.first_nobp
  <2>1. <<x, b>> \in Entries(t) <=> first \/ \E i \in Live(t) : is(i)
    BY <1>9 DEF EntryByEntry
  <2>2. <<x, b>> \in Entries(u) <=> first \/ \E i \in Live(u) : now(i)
    <3>1. u.first = t.first /\ u.first_nobp = t.first_nobp /\ t.first # NoScript
      BY <1>3
    <3> QED BY <3>1, <1>9 DEF EntryByEntry
  <2>3. /\ first => x # s
        /\ is(j) => x = s
        /\ now(j) <=> is(last)
        /\ \A i \in Live(t) \ {j} : is(i) => x # s
        /\ \A i \in Live(u) \ {j} : now(i) <=> is(i)
    BY <1>0, <1>1, <1>3, <1>4, <1>5
  <2> HIDE DEF is, now, first
  <2>4. (\E i \in Live(u) : now(i)) <=> \E i \in Live(t) \ {j} : is(i)
    BY <1>0, <1>4, <2>3
  <2> QED BY <1>4, <2>1, <2>2, <2>3, <2>4
<1>10. Entries(u) = Entries(t) \ ({s} \X BOOLEAN)
  BY <1>0, <1>2, <1>3, <1>6, <1>7, SameEntries
<1> QED BY <1>0, <1>2, <1>3, <1>6, <1>7, <1>10 DEF Out

\* What UnregisterVariableEvent does to the table, if it does not throw.
LEMMA TakenOut ==
  ASSUME TypeOK, SlotsPacked, NEW e \in Events, NEW s \in Scripts,
         UnregisterVariableEvent(e, s), ~Throw
  PROVE  /\ Out(table[e], table'[e], s)
         /\ table' = [table EXCEPT ![e] = table'[e]]
         /\ calls' = Shrunk(e)
         /\ UNCHANGED <<server_up, bypass_current_event, current_event>>
<1>1. table \in [Events -> Variables] /\ table[e] \in Variables /\ Packed(table[e])
  BY DEF TypeOK, SlotsPacked
<1> DEFINE t == table[e]
           last == t.count - 1
<1>2. ASSUME NEW u, table' = [table EXCEPT ![e] = u], Out(t, u, s)
      PROVE  Out(t, table'[e], s) /\ table' = [table EXCEPT ![e] = table'[e]]
  BY <1>1, <1>2
<1>3. ASSUME /\ t.first = s /\ t.count = 0
             /\ table' = [table EXCEPT ![e] = [t EXCEPT !.first = NoScript, !.first_nobp = FALSE]]
      PROVE  Out(t, table'[e], s) /\ table' = [table EXCEPT ![e] = table'[e]]
  <2> DEFINE u == [t EXCEPT !.first = NoScript, !.first_nobp = FALSE]
  <2>1. Out(t, u, s)
    BY <1>1, <1>3, TakeOnly
  <2>2. table' = [table EXCEPT ![e] = u]
    BY <1>3
  <2> HIDE DEF u
  <2> QED BY <1>2, <2>1, <2>2
<1>4. ASSUME /\ t.first = s /\ t.count > 0
             /\ table' = [table EXCEPT ![e] =
                  [t EXCEPT !.first = t.slot[last], !.first_nobp = t.nobp[last], !.count = last]]
      PROVE  Out(t, table'[e], s) /\ table' = [table EXCEPT ![e] = table'[e]]
  <2> DEFINE u == [t EXCEPT !.first = t.slot[last], !.first_nobp = t.nobp[last], !.count = last]
  <2>1. Out(t, u, s)
    BY <1>1, <1>4, TakeFirst
  <2>2. table' = [table EXCEPT ![e] = u]
    BY <1>4
  <2> HIDE DEF u
  <2> QED BY <1>2, <2>1, <2>2
<1>5. ASSUME /\ t.first \notin {s, NoScript} /\ last \in At(t, s)
             /\ table' = [table EXCEPT ![e] =
                  [t EXCEPT !.slot[last] = NoScript, !.nobp[last] = FALSE, !.count = last]]
      PROVE  Out(t, table'[e], s) /\ table' = [table EXCEPT ![e] = table'[e]]
  <2> DEFINE u == [t EXCEPT !.slot[last] = NoScript, !.nobp[last] = FALSE, !.count = last]
  <2>1. Out(t, u, s)
    BY <1>1, <1>5, TakeLast
  <2>2. table' = [table EXCEPT ![e] = u]
    BY <1>5
  <2> HIDE DEF u
  <2> QED BY <1>2, <2>1, <2>2
<1>6. ASSUME t.first \notin {s, NoScript}, NEW j \in At(t, s) \ {last},
             table' = [table EXCEPT ![e] =
               [t EXCEPT !.slot[j] = t.slot[last], !.nobp[j] = t.nobp[last], !.count = last]]
      PROVE  Out(t, table'[e], s) /\ table' = [table EXCEPT ![e] = table'[e]]
  <2> DEFINE u == [t EXCEPT !.slot[j] = t.slot[last], !.nobp[j] = t.nobp[last], !.count = last]
  <2>1. Out(t, u, s)
    BY <1>1, <1>6, TakeOther
  <2>2. table' = [table EXCEPT ![e] = u]
    BY <1>6
  <2> HIDE DEF u
  <2> QED BY <1>2, <2>1, <2>2
<1>7. Out(t, table'[e], s) /\ table' = [table EXCEPT ![e] = table'[e]]
  BY <1>3, <1>4, <1>5, <1>6 DEF UnregisterVariableEvent
<1>8. calls' = Shrunk(e) /\ UNCHANGED <<server_up, bypass_current_event, current_event>>
  BY DEF UnregisterVariableEvent
<1> QED BY <1>7, <1>8

\* The same for a table that one script is put into.
LEMMA OneMore ==
  ASSUME NEW t \in Variables, NEW u \in Variables, NEW s \in Scripts, NEW b \in BOOLEAN,
         \A x \in Script, c \in BOOLEAN :
           <<x, c>> \in Entries(u) <=>
             (x # s /\ <<x, c>> \in Entries(t)) \/ (x = s /\ c = b)
  PROVE  Entries(u) = (Entries(t) \ ({s} \X BOOLEAN)) \union {<<s, b>>}
<1>1. Entries(u) \subseteq Script \X BOOLEAN /\ Entries(t) \subseteq Script \X BOOLEAN
  BY EntryOf
<1>2. s \in Script
  BY DEF Script
<1>3. \A x \in Script, c \in BOOLEAN :
        <<x, c>> \in Entries(u) <=>
          <<x, c>> \in (Entries(t) \ ({s} \X BOOLEAN)) \union {<<s, b>>}
  OBVIOUS
<1> QED BY <1>1, <1>2, <1>3

\* The first script of an event, which nothing else can be without.
LEMMA PutFirst ==
  ASSUME NEW t \in Variables, Packed(t), NEW s \in Scripts, NEW u, NEW b, b = FALSE,
         t.first = NoScript, u = [t EXCEPT !.first = s]
  PROVE  In(t, u, s, b)
<1>0. b \in BOOLEAN
  OBVIOUS
<1>1. u \in Variables
  BY DEF Variables, Script
<1>2. /\ u.count = 0 /\ t.count = 0 /\ u.first = s
      /\ u.first_nobp = b
  BY DEF Variables, Packed
<1>3. Live(u) = {} /\ Live(t) = {}
  BY <1>2 DEF Live
<1>4. Packed(u)
  BY <1>2, <1>3 DEF Packed
<1>5. EntryByEntry(t) /\ EntryByEntry(u)
  BY <1>1, EntryOf
<1>6. \A x \in Script, c \in BOOLEAN :
        <<x, c>> \in Entries(u) <=>
          (x # s /\ <<x, c>> \in Entries(t)) \/ (x = s /\ c = b)
  BY <1>2, <1>3, <1>5 DEF EntryByEntry
<1>7. Entries(u) = (Entries(t) \ ({s} \X BOOLEAN)) \union {<<s, b>>}
  BY <1>0, <1>1, <1>6, OneMore
<1> QED BY <1>1, <1>4, <1>7 DEF In

\* The first script gets another mark.
LEMMA MarkFirst ==
  ASSUME NEW t \in Variables, Packed(t), NEW s \in Scripts, NEW b \in BOOLEAN, NEW u,
         t.first = s, u = [t EXCEPT !.first_nobp = b]
  PROVE  In(t, u, s, b)
<1>1. u \in Variables
  BY DEF Variables
<1>2. /\ u.count = t.count /\ u.first = s /\ u.first_nobp = b /\ s # NoScript
      /\ u.slot = t.slot /\ u.nobp = t.nobp /\ Live(u) = Live(t)
  BY DEF Variables, Live
<1>3. Packed(u) /\ \A i \in Live(t) : t.slot[i] # s
  BY <1>2 DEF Packed
<1>4. EntryByEntry(t) /\ EntryByEntry(u)
  BY <1>1, EntryOf
<1>5. ASSUME NEW x \in Script, NEW c \in BOOLEAN
      PROVE  <<x, c>> \in Entries(u) <=>
               (x # s /\ <<x, c>> \in Entries(t)) \/ (x = s /\ c = b)
  <2>1. Held(u, Live(u), x, c) <=> Held(t, Live(t), x, c)
    BY <1>2, SameSlots
  <2>2. Held(t, Live(t), x, c) => x # s
    BY <1>3 DEF Held
  <2>3. <<x, c>> \in Entries(u) <=> (x = s /\ c = b) \/ Held(u, Live(u), x, c)
    BY <1>2, <1>4, Member
  <2>4. <<x, c>> \in Entries(t) <=> (x = s /\ c = t.first_nobp) \/ Held(t, Live(t), x, c)
    BY <1>2, <1>4, Member
  <2> QED BY <2>1, <2>2, <2>3, <2>4
<1>6. Entries(u) = (Entries(t) \ ({s} \X BOOLEAN)) \union {<<s, b>>}
  BY <1>1, <1>5, OneMore
<1> QED BY <1>1, <1>3, <1>6 DEF In

\* Another script gets another mark.
LEMMA MarkOther ==
  ASSUME NEW t \in Variables, Packed(t), NEW s \in Scripts, NEW b \in BOOLEAN, NEW u,
         t.first \notin {s, NoScript}, NEW j \in At(t, s), u = [t EXCEPT !.nobp[j] = b]
  PROVE  In(t, u, s, b)
<1>1. j \in Live(t) /\ j \in Index /\ Live(t) \subseteq Index /\ t.slot[j] = s
  BY DEF At, Live, Variables, Index
<1>2. u \in Variables
  BY <1>1 DEF Variables
<1>3. /\ u.count = t.count /\ u.first = t.first /\ u.first_nobp = t.first_nobp
      /\ u.slot = t.slot /\ Live(u) = Live(t)
      /\ u.nobp[j] = b /\ \A i \in Index \ {j} : u.nobp[i] = t.nobp[i]
  BY <1>1 DEF Variables, Live
<1>4. Packed(u) /\ \A i \in Live(t) \ {j} : t.slot[i] # s
  BY <1>1, <1>3 DEF Packed
<1>5. EntryByEntry(t) /\ EntryByEntry(u)
  BY <1>2, EntryOf
<1>6. ASSUME NEW x \in Script, NEW c \in BOOLEAN
      PROVE  <<x, c>> \in Entries(u) <=>
               (x # s /\ <<x, c>> \in Entries(t)) \/ (x = s /\ c = b)
  <2> DEFINE rest == Live(t) \ {j}
             first == t.first # NoScript /\ x = t.first /\ c = t.first_nobp
  <2>1. Held(u, rest, x, c) <=> Held(t, rest, x, c)
    BY <1>1, <1>3, SameSlots
  <2>2. Held(t, rest, x, c) => x # s
    BY <1>4 DEF Held
  <2>3. Held(u, Live(u), x, c) <=> (x = s /\ c = b) \/ Held(u, rest, x, c)
    BY <1>1, <1>3 DEF Held
  <2>4. Held(t, Live(t), x, c) <=> (x = s /\ c = t.nobp[j]) \/ Held(t, rest, x, c)
    BY <1>1 DEF Held
  <2>5. <<x, c>> \in Entries(u) <=> first \/ Held(u, Live(u), x, c)
    BY <1>3, <1>5, Member
  <2>6. <<x, c>> \in Entries(t) <=> first \/ Held(t, Live(t), x, c)
    BY <1>5, Member
  <2>7. first => x # s
    OBVIOUS
  <2> HIDE DEF rest, first
  <2> QED BY <2>1, <2>2, <2>3, <2>4, <2>5, <2>6, <2>7
<1>7. Entries(u) = (Entries(t) \ ({s} \X BOOLEAN)) \union {<<s, b>>}
  BY <1>2, <1>6, OneMore
<1> QED BY <1>2, <1>4, <1>7 DEF In

\* A script is put behind the others.
LEMMA PutLast ==
  ASSUME NEW t \in Variables, Packed(t), NEW s \in Scripts, NEW b \in BOOLEAN, NEW u, NEW j,
         j = t.count, t.first \notin {s, NoScript}, At(t, s) = {}, t.count < MaxCount,
         u = [t EXCEPT !.slot[j] = s, !.nobp[j] = b, !.count = j + 1]
  PROVE  In(t, u, s, b)
<1>1. /\ j \in Index /\ j + 1 \in 0..MaxCount /\ j \notin Live(t) /\ Live(t) \subseteq Index
      /\ Live(t) \union {j} = 0..j
  BY DEF Live, Variables, Index
<1>2. u \in Variables
  BY <1>1 DEF Variables, Script
<1>3. /\ u.count = j + 1 /\ u.first = t.first /\ u.first_nobp = t.first_nobp
      /\ u.slot[j] = s /\ u.nobp[j] = b
      /\ \A i \in Index \ {j} : u.slot[i] = t.slot[i] /\ u.nobp[i] = t.nobp[i]
  BY <1>1 DEF Variables
<1>4. Live(u) = Live(t) \union {j}
  BY <1>1, <1>3 DEF Live, Index
<1>5. \A i \in Live(t) : t.slot[i] # s
  BY DEF At
<1>6. Packed(u)
  <2>1. s # NoScript /\ \A i \in Live(t) : u.slot[i] = t.slot[i]
    BY <1>1, <1>3
  <2> QED BY <1>1, <1>3, <1>4, <1>5, <2>1 DEF Packed
<1>7. EntryByEntry(t) /\ EntryByEntry(u)
  BY <1>2, EntryOf
<1>8. ASSUME NEW x \in Script, NEW c \in BOOLEAN
      PROVE  <<x, c>> \in Entries(u) <=>
               (x # s /\ <<x, c>> \in Entries(t)) \/ (x = s /\ c = b)
  <2> DEFINE first == t.first # NoScript /\ x = t.first /\ c = t.first_nobp
  <2>1. Held(u, Live(t), x, c) <=> Held(t, Live(t), x, c)
    <3>1. \A i \in Live(t) : i \in Index \ {j}
      BY <1>1
    <3>2. \A i \in Live(t) : u.slot[i] = t.slot[i] /\ u.nobp[i] = t.nobp[i]
      BY <1>3, <3>1
    <3> QED BY <3>2 DEF Held
  <2>2. Held(t, Live(t), x, c) => x # s
    BY <1>5 DEF Held
  <2>3. Held(u, Live(u), x, c) <=> (x = s /\ c = b) \/ Held(u, Live(t), x, c)
    BY <1>3, <1>4 DEF Held
  <2>4. <<x, c>> \in Entries(u) <=> first \/ Held(u, Live(u), x, c)
    <3>1. <<x, c>> \in Entries(u) <=> \/ u.first # NoScript /\ x = u.first /\ c = u.first_nobp
                                     \/ Held(u, Live(u), x, c)
      BY <1>7, Member
    <3> QED BY <1>3, <3>1
  <2>5. <<x, c>> \in Entries(t) <=> first \/ Held(t, Live(t), x, c)
    BY <1>7, Member
  <2>6. first => x # s
    OBVIOUS
  <2> HIDE DEF first
  <2> QED BY <2>1, <2>2, <2>3, <2>4, <2>5, <2>6
<1>9. Entries(u) = (Entries(t) \ ({s} \X BOOLEAN)) \union {<<s, b>>}
  BY <1>2, <1>8, OneMore
<1> QED BY <1>2, <1>6, <1>9 DEF In

\* What RegisterVariableEvent does to the table, if it does not throw.
LEMMA PutIn ==
  ASSUME TypeOK, SlotsPacked, NEW e \in Events, NEW s \in Scripts, NEW b \in BOOLEAN,
         RegisterVariableEvent(e, s, b), ~Throw
  PROVE  /\ In(table[e], table'[e], s, b)
         /\ table' = [table EXCEPT ![e] = table'[e]]
<1>1. table \in [Events -> Variables] /\ table[e] \in Variables /\ Packed(table[e])
  BY DEF TypeOK, SlotsPacked
<1> DEFINE t == table[e]
<1>2. ASSUME NEW u, table' = [table EXCEPT ![e] = u], In(t, u, s, b)
      PROVE  In(t, table'[e], s, b) /\ table' = [table EXCEPT ![e] = table'[e]]
  BY <1>1, <1>2
<1>3. CASE t.first = s /\ table' = [table EXCEPT ![e] = [t EXCEPT !.first_nobp = b]]
  <2> DEFINE u == [t EXCEPT !.first_nobp = b]
  <2>1. In(t, u, s, b)
    BY <1>1, <1>3, MarkFirst
  <2>2. table' = [table EXCEPT ![e] = u]
    BY <1>3
  <2> HIDE DEF u
  <2> QED BY <1>2, <2>1, <2>2
<1>4. ASSUME t.first \notin {s, NoScript}, NEW j \in At(t, s),
             table' = [table EXCEPT ![e] = [t EXCEPT !.nobp[j] = b]]
      PROVE  In(t, table'[e], s, b) /\ table' = [table EXCEPT ![e] = table'[e]]
  <2> DEFINE u == [t EXCEPT !.nobp[j] = b]
  <2>1. In(t, u, s, b)
    BY <1>1, <1>4, MarkOther
  <2>2. table' = [table EXCEPT ![e] = u]
    BY <1>4
  <2> HIDE DEF u
  <2> QED BY <1>2, <2>1, <2>2
<1>5. CASE /\ t.first \notin {s, NoScript} /\ At(t, s) = {} /\ t.count < MaxCount
           /\ table' = [table EXCEPT ![e] =
                [t EXCEPT !.slot[t.count] = s, !.nobp[t.count] = b, !.count = t.count + 1]]
  <2> DEFINE u == [t EXCEPT !.slot[t.count] = s, !.nobp[t.count] = b, !.count = t.count + 1]
  <2>1. In(t, u, s, b)
    BY <1>1, <1>5, PutLast
  <2>2. table' = [table EXCEPT ![e] = u]
    BY <1>5
  <2> HIDE DEF u
  <2> QED BY <1>2, <2>1, <2>2
<1> QED BY <1>3, <1>4, <1>5 DEF RegisterVariableEvent

LEMMA VariableSet ==
  ASSUME TypeOK, SlotsPacked, NEW e \in Events, NEW s \in Scripts, SetVariable(e, s)
  PROVE  /\ In(table[e], table'[e], s, FALSE)
         /\ table' = [table EXCEPT ![e] = table'[e]]
<1> DEFINE t == table[e]
           u == [t EXCEPT !.first = s]
<1>1. table \in [Events -> Variables] /\ t \in Variables /\ Packed(t)
  BY DEF TypeOK, SlotsPacked
<1>2. In(t, u, s, FALSE)
  BY <1>1, PutFirst DEF SetVariable
<1>3. table' = [table EXCEPT ![e] = u]
  BY DEF SetVariable
<1> HIDE DEF u
<1> QED BY <1>1, <1>2, <1>3

\* Without SlotsPacked, the types alone.
LEMMA TakenType ==
  ASSUME TypeOK, NEW e \in Events, NEW s \in Scripts, UnregisterVariableEvent(e, s), ~Throw
  PROVE  table' \in [Events -> Variables]
<1>1. table \in [Events -> Variables] /\ table[e] \in Variables
  BY DEF TypeOK
<1> DEFINE t == table[e]
           last == t.count - 1
<1>2. ASSUME NEW u \in Variables, table' = [table EXCEPT ![e] = u]
      PROVE  table' \in [Events -> Variables]
  BY <1>1, <1>2
<1>3. CASE /\ t.first = s /\ t.count = 0
           /\ table' = [table EXCEPT ![e] = [t EXCEPT !.first = NoScript, !.first_nobp = FALSE]]
  <2>1. [t EXCEPT !.first = NoScript, !.first_nobp = FALSE] \in Variables
    BY <1>1 DEF Variables, Script
  <2> QED BY <1>2, <1>3, <2>1
<1>4. CASE /\ t.first = s /\ t.count > 0
           /\ table' = [table EXCEPT ![e] =
                [t EXCEPT !.first = t.slot[last], !.first_nobp = t.nobp[last], !.count = last]]
  <2>1. last \in Index /\ last \in 0..MaxCount
    BY <1>1, <1>4, LastSlot
  <2>2. [t EXCEPT !.first = t.slot[last], !.first_nobp = t.nobp[last], !.count = last] \in Variables
    BY <1>1, <2>1 DEF Variables
  <2> QED BY <1>2, <1>4, <2>2
<1>5. CASE /\ t.first \notin {s, NoScript} /\ last \in At(t, s)
           /\ table' = [table EXCEPT ![e] =
                [t EXCEPT !.slot[last] = NoScript, !.nobp[last] = FALSE, !.count = last]]
  <2>1. last \in Index /\ last \in 0..MaxCount
    BY <1>1, <1>5 DEF At, Live, Variables, Index
  <2>2. [t EXCEPT !.slot[last] = NoScript, !.nobp[last] = FALSE, !.count = last] \in Variables
    BY <1>1, <2>1 DEF Variables, Script
  <2> QED BY <1>2, <1>5, <2>2
<1>6. ASSUME t.first \notin {s, NoScript}, NEW j \in At(t, s) \ {last},
             table' = [table EXCEPT ![e] =
               [t EXCEPT !.slot[j] = t.slot[last], !.nobp[j] = t.nobp[last], !.count = last]]
      PROVE  table' \in [Events -> Variables]
  <2>1. last \in Index /\ last \in 0..MaxCount /\ j \in Index
    BY <1>1, <1>6 DEF At, Live, Variables, Index
  <2>2. [t EXCEPT !.slot[j] = t.slot[last], !.nobp[j] = t.nobp[last], !.count = last] \in Variables
    BY <1>1, <2>1 DEF Variables
  <2> QED BY <1>2, <1>6, <2>2
<1> QED BY <1>3, <1>4, <1>5, <1>6 DEF UnregisterVariableEvent

LEMMA RegisteredType ==
  ASSUME TypeOK, NEW e \in Events, NEW s \in Scripts, NEW b \in BOOLEAN,
         RegisterVariableEvent(e, s, b), ~Throw
  PROVE  table' \in [Events -> Variables]
<1>1. table \in [Events -> Variables] /\ table[e] \in Variables
  BY DEF TypeOK
<1> DEFINE t == table[e]
<1>2. ASSUME NEW u \in Variables, table' = [table EXCEPT ![e] = u]
      PROVE  table' \in [Events -> Variables]
  BY <1>1, <1>2
<1>3. CASE table' = [table EXCEPT ![e] = [t EXCEPT !.first_nobp = b]]
  <2>1. [t EXCEPT !.first_nobp = b] \in Variables
    BY <1>1 DEF Variables
  <2> QED BY <1>2, <1>3, <2>1
<1>4. ASSUME NEW i \in At(t, s), table' = [table EXCEPT ![e] = [t EXCEPT !.nobp[i] = b]]
      PROVE  table' \in [Events -> Variables]
  <2>1. i \in Index
    BY <1>1 DEF At, Live, Variables, Index
  <2>2. [t EXCEPT !.nobp[i] = b] \in Variables
    BY <1>1, <2>1 DEF Variables
  <2> QED BY <1>2, <1>4, <2>2
<1>5. CASE /\ t.count < MaxCount
           /\ table' = [table EXCEPT ![e] =
                [t EXCEPT !.slot[t.count] = s, !.nobp[t.count] = b, !.count = t.count + 1]]
  <2>1. t.count \in Index /\ t.count + 1 \in 0..MaxCount
    BY <1>1, <1>5 DEF Variables, Index
  <2>2. [t EXCEPT !.slot[t.count] = s, !.nobp[t.count] = b, !.count = t.count + 1] \in Variables
    BY <1>1, <2>1 DEF Variables, Script
  <2> QED BY <1>2, <1>5, <2>2
<1> QED BY <1>3, <1>4, <1>5 DEF RegisterVariableEvent

LEMMA TypeStep ==
  ASSUME TypeOK, [Next]_vars
  PROVE  TypeOK'
<1> USE DEF TypeOK
<1> SUFFICES ASSUME Next PROVE TypeOK'
  BY DEF vars
<1>1. ASSUME Throw PROVE TypeOK'
  <2>1. << >> \in Seq(Call)
    OBVIOUS
  <2>2. calls' \in Seq(Call)
    BY <1>1, <2>1 DEF Throw
  <2>3. server_up' \in BOOLEAN /\ bypass_current_event' \in BOOLEAN
    BY <1>1 DEF Throw
  <2> QED BY <1>1, <2>2, <2>3 DEF Throw
<1>2. ASSUME NEW e \in Events, RunVariableEvent(e) PROVE TypeOK'
  <2>1. CASE Throw
    BY <1>1, <2>1
  <2>2. CASE ~Throw
    <3> DEFINE old == [k \in DOMAIN calls |-> [calls[k] EXCEPT !.bypass = "foreign"]]
    <3>1. \A k \in DOMAIN calls : calls[k] \in Call
      OBVIOUS
    <3>2. old \in Seq(Call)
      <4>1. \A k \in DOMAIN calls : old[k] \in Call
        BY <3>1, ForeignCall
      <4>2. DOMAIN old = DOMAIN calls /\ old = [k \in DOMAIN old |-> old[k]]
        OBVIOUS
      <4> HIDE DEF old
      <4> QED BY <4>1, <4>2, SameLength
    <3>3. NewCall(e) \in Call
      BY <1>2, <2>2 DEF NewCall, Call, Variables, RunVariableEvent, Script, Index
    <3>4. calls' = Append(old, NewCall(e))
      BY <1>2, <2>2 DEF RunVariableEvent
    <3> HIDE DEF old
    <3>5. calls' \in Seq(Call)
      BY <3>2, <3>3, <3>4
    <3> QED BY <1>2, <2>2, <3>5 DEF RunVariableEvent
  <2> QED BY <2>1, <2>2
<1>3. ASSUME NEW e \in Events, NEW s \in Scripts, SetVariable(e, s) PROVE TypeOK'
  <2>1. table' \in [Events -> Variables]
    <3>1. [table[e] EXCEPT !.first = s] \in Variables
      BY DEF Variables, Script
    <3>2. table' = [table EXCEPT ![e] = [table[e] EXCEPT !.first = s]]
      BY <1>3 DEF SetVariable
    <3> QED BY <3>1, <3>2
  <2> QED BY <1>3, <2>1, GrownCalls DEF SetVariable
<1>4. ASSUME NEW e \in Events, NEW s \in Scripts, UnregisterVariableEvent(e, s) PROVE TypeOK'
  <2>1. CASE Throw
    BY <1>1, <2>1
  <2>2. CASE ~Throw
    <3>1. table' \in [Events -> Variables]
      BY <1>4, <2>2, TakenType
    <3> QED BY <1>4, <2>2, <3>1, ShrunkCalls DEF UnregisterVariableEvent
  <2> QED BY <2>1, <2>2
<1>5. ASSUME NEW e \in Events, NEW s \in Scripts, NEW b \in BOOLEAN,
             RegisterVariableEvent(e, s, b)
      PROVE TypeOK'
  <2>1. CASE Throw
    BY <1>1, <2>1
  <2>2. CASE ~Throw
    <3>1. table' \in [Events -> Variables]
      BY <1>5, <2>2, RegisteredType
    <3> QED BY <1>5, <2>2, <3>1, GrownCalls DEF RegisterVariableEvent
  <2> QED BY <2>1, <2>2
<1>6. ASSUME BypassVariableEvent PROVE TypeOK'
  <2>0. \A k \in DOMAIN calls : calls[k] \in Call
    OBVIOUS
  <2>1. \A k \in DOMAIN calls : calls'[k] \in Call
    <3>1. \A k \in DOMAIN calls :
            calls'[k] \in {calls[k], [calls[k] EXCEPT !.bypass = "own"]}
      BY <1>6 DEF BypassVariableEvent
    <3> QED BY <2>0, <3>1, OwnCall
  <2>2. calls' \in Seq(Call)
    <3>1. DOMAIN calls' = DOMAIN calls /\ calls' = [k \in DOMAIN calls' |-> calls'[k]]
      BY <1>6 DEF BypassVariableEvent
    <3> QED BY <2>1, <3>1, SameLength
  <2> QED BY <1>6, <2>2 DEF BypassVariableEvent
<1>7. ASSUME ScriptEnds PROVE TypeOK'
  <2> DEFINE n == Len(calls)
             c == calls[n]
             bypassed == c.bypassed \/ bypass_current_event
  <2>0. n \in Nat /\ n > 0 /\ c \in Call /\ DOMAIN calls = 1..n
    BY <1>7, InnermostCall DEF ScriptEnds
  <2>1. CASE Throw
    BY <1>1, <2>1
  <2>2. CASE calls' = SubSeq(calls, 1, n - 1) /\ ~Throw
    <3>1. calls' \in Seq(Call)
      BY <2>0, <2>2
    <3> QED BY <1>7, <2>2, <3>1 DEF ScriptEnds
  <2>3. ASSUME NEW i \in ToRun(c, bypassed), NEW s, s = table[c.event].slot[i], s # NoScript,
               calls' = [calls EXCEPT ![n] = WithScript(c, i, bypassed, s)],
               UNCHANGED <<server_up, table, bypass_current_event, current_event>>
        PROVE TypeOK'
    <3>1. i \in Index
      BY <2>0, <2>3 DEF ToRun, Ahead, Call, Index
    <3>2. s \in Scripts
      BY <2>0, <2>3, <3>1 DEF Call, Variables, Script
    <3> DEFINE d == WithScript(c, i, bypassed, s)
    <3>3. bypassed \in BOOLEAN
      BY <2>0 DEF Call
    <3>4. d \in Call
      <4> HIDE DEF bypassed, c
      <4> QED BY <2>0, <3>1, <3>2, <3>3, NextScript
    <3> HIDE DEF d
    <3>5. calls' \in Seq(Call)
      BY <2>0, <2>3, <3>4 DEF d
    <3> QED BY <2>3, <3>5
  <2> QED BY <1>7, <2>1, <2>2, <2>3 DEF ScriptEnds
<1> QED BY <1>2, <1>3, <1>4, <1>5, <1>6, <1>7 DEF Next

LEMMA TypeInit == Init => TypeOK
<1> SUFFICES ASSUME Init PROVE TypeOK
  OBVIOUS
<1>1. table \in [Events -> Variables]
  BY DEF Init, Variables, Script, Index
<1>2. calls \in Seq(Call)
  <2>1. << >> \in Seq(Call)
    OBVIOUS
  <2> QED BY <2>1 DEF Init
<1> QED BY <1>1, <1>2 DEF Init, TypeOK

\* Every variable has its type, for any constants.
THEOREM TypeCorrect == Spec => []TypeOK
<1>1. Init => TypeOK
  BY TypeInit
<1>2. TypeOK /\ [Next]_vars => TypeOK'
  BY TypeStep
<1> QED BY <1>1, <1>2, PTL DEF Spec

-----------------------------------------------------------------------------
(* The registry. *)

LEMMA PackedStep ==
  ASSUME TypeOK, SlotsPacked, Next
  PROVE  SlotsPacked'
<1>1. CASE UNCHANGED table
  BY <1>1 DEF SlotsPacked
<1>2. ASSUME NEW e \in Events, table' = [table EXCEPT ![e] = table'[e]], Packed(table'[e])
      PROVE  SlotsPacked'
  <2>1. \A f \in Events \ {e} : table'[f] = table[f]
    BY <1>2 DEF TypeOK
  <2> QED BY <1>2, <2>1 DEF SlotsPacked
<1>3. CASE Throw
  BY <1>1, <1>3 DEF Throw
<1>4. ASSUME NEW e \in Events, NEW s \in Scripts, UnregisterVariableEvent(e, s), ~Throw
      PROVE  SlotsPacked'
  BY <1>2, <1>4, TakenOut DEF Out
<1>5. ASSUME NEW e \in Events, NEW s \in Scripts, NEW b \in BOOLEAN,
             RegisterVariableEvent(e, s, b), ~Throw
      PROVE  SlotsPacked'
  BY <1>2, <1>5, PutIn DEF In
<1>6. ASSUME NEW e \in Events, NEW s \in Scripts, SetVariable(e, s)
      PROVE  SlotsPacked'
  BY <1>2, <1>6, VariableSet DEF In
<1>7. ASSUME NEW e \in Events, RunVariableEvent(e) PROVE UNCHANGED table
  BY <1>7 DEF RunVariableEvent, Throw
<1>8. BypassVariableEvent \/ ScriptEnds => UNCHANGED table
  BY DEF BypassVariableEvent, ScriptEnds, Throw
<1> QED BY <1>1, <1>3, <1>4, <1>5, <1>6, <1>7, <1>8 DEF Next

\* No gap and no script twice in the variables of an event, however the scripts
\* are registered and taken out.
THEOREM SlotsAlwaysPacked == Spec => [](TypeOK /\ SlotsPacked)
<1>1. Init => TypeOK
  BY TypeInit
<1>2. Init => SlotsPacked
  BY DEF Init, SlotsPacked, Packed, Live
<1>3. TypeOK /\ SlotsPacked /\ [Next]_vars => (TypeOK /\ SlotsPacked)'
  <2>1. UNCHANGED vars => SlotsPacked' = SlotsPacked
    BY DEF vars, SlotsPacked
  <2> QED BY <2>1, TypeStep, PackedStep
<1> QED BY <1>1, <1>2, <1>3, PTL DEF Spec

\* What happens to the entries of one event happens to the registry.
LEMMA EntriesStep ==
  ASSUME TypeOK, NEW e \in Events, NEW R,
         table' = [table EXCEPT ![e] = table'[e]], Entries(table'[e]) = R
  PROVE  [f \in Events |-> Entries(table'[f])] =
           [[f \in Events |-> Entries(table[f])] EXCEPT ![e] = R]
<1>1. \A f \in Events \ {e} : table'[f] = table[f]
  BY DEF TypeOK
<1>2. \A f \in Events : Entries(table'[f]) = IF f = e THEN R ELSE Entries(table[f])
  BY <1>1
<1> QED BY <1>2

\* One step of the variables is one of the registry, or none.
LEMMA RegistryStep ==
  ASSUME TypeOK, SlotsPacked, Next
  PROVE  [Registry!Next]_(Registry!vars)
<1>1. CASE UNCHANGED table
  BY <1>1 DEF Registry!vars
<1>2. CASE Throw
  BY <1>1, <1>2 DEF Throw
<1>3. ASSUME NEW e \in Events, NEW s \in Scripts, UnregisterVariableEvent(e, s), ~Throw
      PROVE  Registry!Next
  <2>1. /\ Entries(table'[e]) = Entries(table[e]) \ ({s} \X BOOLEAN)
        /\ table' = [table EXCEPT ![e] = table'[e]]
    BY <1>3, TakenOut DEF Out
  <2>2. Registry!Unregister(e, s)
    BY <2>1, EntriesStep DEF Registry!Unregister, Registry!Without
  <2> QED BY <2>2 DEF Registry!Next
<1>4. ASSUME NEW e \in Events, NEW s \in Scripts, NEW b \in BOOLEAN, In(table[e], table'[e], s, b),
             table' = [table EXCEPT ![e] = table'[e]]
      PROVE  Registry!Next
  <2>1. Entries(table'[e]) = (Entries(table[e]) \ ({s} \X BOOLEAN)) \union {<<s, b>>}
    BY <1>4 DEF In
  <2>2. Registry!Register(e, s, b)
    BY <1>4, <2>1, EntriesStep DEF Registry!Register, Registry!Without
  <2> QED BY <2>2 DEF Registry!Next
<1>5. ASSUME NEW e \in Events, NEW s \in Scripts, NEW b \in BOOLEAN,
             RegisterVariableEvent(e, s, b), ~Throw
      PROVE  Registry!Next
  BY <1>4, <1>5, PutIn
<1>6. ASSUME NEW e \in Events, NEW s \in Scripts, SetVariable(e, s)
      PROVE  Registry!Next
  BY <1>4, <1>6, VariableSet
<1>7. ASSUME NEW e \in Events, RunVariableEvent(e) PROVE UNCHANGED table
  BY <1>7 DEF RunVariableEvent, Throw
<1>8. BypassVariableEvent \/ ScriptEnds => UNCHANGED table
  BY DEF BypassVariableEvent, ScriptEnds, Throw
<1> QED BY <1>1, <1>2, <1>3, <1>5, <1>6, <1>7, <1>8 DEF Next

\* The local variables of an object implement a set of marked scripts for each
\* event, for any number of events, scripts and slots.
THEOREM RegistryImplemented == Spec => ImplementsRegistry
<1>1. Init => Registry!Init
  BY DEF Init, Registry!Init, Entries, Live
<1>2. TypeOK /\ SlotsPacked /\ [Next]_vars => [Registry!Next]_(Registry!vars)
  <2>1. UNCHANGED vars => UNCHANGED Registry!vars
    BY DEF vars, Registry!vars
  <2> QED BY <2>1, RegistryStep
<1>3. Spec => [](TypeOK /\ SlotsPacked)
  BY SlotsAlwaysPacked
<1> QED BY <1>1, <1>2, <1>3, PTL DEF Spec, ImplementsRegistry, Registry!Spec

-----------------------------------------------------------------------------
(* The service of the registered scripts. *)

\* What is said of a call does not depend on its globals.
LEMMA SameService ==
  ASSUME NEW c, NEW d, NEW t,
         d.registration = c.registration, d.ran = c.ran, d.twice = c.twice,
         d.bypassed = c.bypassed, d.registered_count = c.registered_count,
         d.script_index = c.script_index
  PROVE  (Served(d, t) <=> Served(c, t)) /\ (Once(d, t) <=> Once(c, t))
<1>1. Ahead(d) = Ahead(c)
  BY DEF Ahead
<1> QED BY <1>1 DEF Served, Once

LEMMA GrownService ==
  ASSUME NEW c, NEW t, c.registration = "grown"
  PROVE  Served(c, t) /\ Once(c, t)
BY DEF Served, Once

LEMMA ServedGrown ==
  ASSUME TypeOK, SlotsPacked, CallsServed, NEW e \in Events,
         table' = [table EXCEPT ![e] = table'[e]], calls' = Grown(e)
  PROVE  CallsServed'
<1>1. \A f \in Events \ {e} : table'[f] = table[f]
  BY DEF TypeOK
<1>2. ASSUME NEW k \in DOMAIN calls
      PROVE  Served(calls'[k], table'[calls'[k].event]) /\ Once(calls'[k], table'[calls'[k].event])
  <2>0. calls[k] \in Call /\ calls[k].event \in Events
    <3>1. calls[k] \in Call
      BY DEF TypeOK
    <3> QED BY <3>1 DEF Call
  <2>1. CASE calls[k].event = e
    BY <2>1, GrownCalls, GrownService
  <2>2. CASE calls[k].event # e
    BY <1>1, <2>0, <2>2, GrownCalls DEF CallsServed
  <2> QED BY <2>1, <2>2
<1> QED BY <1>2, GrownCalls DEF CallsServed

LEMMA ServedShrunk ==
  ASSUME TypeOK, SlotsPacked, CallsServed, NEW e \in Events, NEW s \in Scripts,
         UnregisterVariableEvent(e, s), ~Throw
  PROVE  CallsServed'
<1>1. \A f \in Events \ {e} : table'[f] = table[f]
  BY TakenOut DEF TypeOK
<1>2. /\ calls' = Shrunk(e)
      /\ Out(table[e], table'[e], s)
  BY TakenOut
<1>3. ASSUME NEW k \in DOMAIN calls
      PROVE  Served(calls'[k], table'[calls'[k].event]) /\ Once(calls'[k], table'[calls'[k].event])
  <2> DEFINE c == calls[k]
             d == calls'[k]
  <2>0. c \in Call /\ c.event \in Events
    <3>1. c \in Call
      BY DEF TypeOK
    <3> QED BY <3>1 DEF Call
  <2>1. CASE c.event # e
    BY <1>1, <1>2, <2>0, <2>1, ShrunkCalls DEF CallsServed
  <2>2. CASE c.event = e
    <3>1. /\ d.event = e /\ d.registration # "same"
          /\ d.ran = c.ran /\ d.bypassed = c.bypassed /\ Ahead(d) = Ahead(c)
          /\ d.registration # "grown" => c.registration # "grown"
      BY <1>2, <2>2, ShrunkCalls
    <3>2. Served(c, table[e])
      BY <2>2 DEF CallsServed
    <3>3. Ahead(c) \subseteq Index
      BY <2>0 DEF Ahead, Call, Index
    <3> DEFINE t == table[e]
               u == table'[e]
    <3>4. /\ Entries(u) \subseteq Entries(t)
          /\ \A r \in Entries(u) : r[1] # s
          /\ \A i \in Ahead(c) : t.slot[i] # s => u.slot[i] = t.slot[i] /\ u.nobp[i] = t.nobp[i]
      <4>1. Entries(u) = Entries(t) \ ({s} \X BOOLEAN) /\ u \in Variables
        BY <1>2 DEF Out
      <4>2. Entries(u) \subseteq Script \X BOOLEAN
        BY <4>1, EntryOf
      <4> QED BY <1>2, <3>3, <4>1, <4>2 DEF Out
    <3> HIDE DEF t, u, c, d
    <3>5. Served(d, u)
      BY <3>1, <3>2, <3>4 DEF Served, t
    <3>6. Once(d, u)
      BY <3>1 DEF Once
    <3> QED BY <3>1, <3>5, <3>6 DEF u, d
  <2> QED BY <2>1, <2>2
<1> QED BY <1>2, <1>3, ShrunkCalls DEF CallsServed

LEMMA ServedRun ==
  ASSUME TypeOK, SlotsPacked, CallsServed, NEW e \in Events, RunVariableEvent(e), ~Throw
  PROVE  CallsServed'
<1> DEFINE old == [k \in DOMAIN calls |-> [calls[k] EXCEPT !.bypass = "foreign"]]
           n == Len(calls)
<1>1. calls' = Append(old, NewCall(e)) /\ UNCHANGED table /\ table[e].first # NoScript
  BY DEF RunVariableEvent
<1>2. n \in Nat /\ DOMAIN calls = 1..n /\ DOMAIN old = 1..n /\ \A k \in 1..n : calls[k] \in Call
  BY DEF TypeOK
<1>3. old \in Seq(Call) /\ Len(old) = n
  <2>1. \A k \in DOMAIN calls : old[k] \in Call
    BY <1>2, ForeignCall
  <2>2. DOMAIN old = DOMAIN calls /\ old = [k \in DOMAIN old |-> old[k]]
    OBVIOUS
  <2>3. calls \in Seq(Call)
    BY DEF TypeOK
  <2> HIDE DEF old
  <2> QED BY <2>1, <2>2, <2>3, SameLength
<1>4. ASSUME NEW k \in 1..n
      PROVE  Served(old[k], table[old[k].event]) /\ Once(old[k], table[old[k].event])
  <2> DEFINE c == calls[k]
             d == old[k]
  <2>1. c \in Call
    BY <1>2
  <2>2. d = [c EXCEPT !.bypass = "foreign"]
    BY <1>2
  <2>3. Served(c, table[c.event]) /\ Once(c, table[c.event])
    BY <1>2 DEF CallsServed
  <2> HIDE DEF c, d, old
  <2>4. /\ d.registration = c.registration /\ d.ran = c.ran /\ d.twice = c.twice
        /\ d.bypassed = c.bypassed /\ d.registered_count = c.registered_count
        /\ d.script_index = c.script_index /\ d.event = c.event
    BY <2>1, <2>2 DEF Call
  <2>5. Served(d, table[c.event]) /\ Once(d, table[c.event])
    BY <2>3, <2>4, SameService
  <2> QED BY <2>4, <2>5 DEF d
<1>5. Served(NewCall(e), table[e]) /\ Once(NewCall(e), table[e])
  <2> DEFINE c == NewCall(e)
             t == table[e]
  <2>1. t \in Variables /\ Packed(t)
    BY DEF TypeOK, SlotsPacked
  <2>2. /\ c.ran = {t.first} /\ ~c.twice /\ c.registered_count = t.count
        /\ c.script_index = -1
    BY DEF NewCall
  <2>3. Ahead(c) = Live(t)
    BY <2>1, <2>2 DEF Ahead, Live, Variables
  <2>4. t.first # NoScript
    BY <1>1
  <2> HIDE DEF c, t
  <2>5. \A i \in Ahead(c) : t.slot[i] \notin c.ran
    BY <2>1, <2>2, <2>3 DEF Packed
  <2>6. \A r \in Entries(t) :
          r[1] \in c.ran \/ \E i \in Ahead(c) : t.slot[i] = r[1] /\ t.nobp[i] = r[2]
    BY <2>2, <2>3 DEF Entries
  <2> QED BY <2>2, <2>5, <2>6 DEF Served, Once, c, t
<1>6. NewCall(e) \in Call /\ NewCall(e).event = e
  BY <1>1 DEF NewCall, Call, Variables, Script, Index, TypeOK
<1>7. ASSUME NEW k \in DOMAIN calls'
      PROVE  Served(calls'[k], table[calls'[k].event]) /\ Once(calls'[k], table[calls'[k].event])
  <2> HIDE DEF old
  <2>1. k \in 1..(n + 1)
    BY <1>1, <1>3, <1>6
  <2>2. CASE k \in 1..n
    <3>1. calls'[k] = old[k]
      BY <1>1, <1>2, <1>3, <1>6, <2>2
    <3> QED BY <1>4, <2>2, <3>1
  <2>3. CASE k = n + 1
    <3>1. calls'[k] = NewCall(e)
      BY <1>1, <1>2, <1>3, <1>6, <2>3
    <3> QED BY <1>5, <1>6, <3>1
  <2> QED BY <1>2, <2>1, <2>2, <2>3
<1> QED BY <1>1, <1>7 DEF CallsServed

\* The call runs the first of the scripts it has still to run.
LEMMA ServedNext ==
  ASSUME NEW c \in Call, NEW t \in Variables, Packed(t), Served(c, t), Once(c, t),
         NEW b \in BOOLEAN, c.bypassed => b,
         NEW i \in Ahead(c), b => t.nobp[i],
         \A j \in Ahead(c) : (b => t.nobp[j]) => i <= j,
         NEW s, s = t.slot[i], s # NoScript, NEW d,
         d = WithScript(c, i, b, s)
  PROVE  Served(d, t) /\ Once(d, t)
<1>1. i \in Index /\ Ahead(c) \subseteq Index
  BY DEF Ahead, Call, Index
<1>2. s \in Scripts
  BY <1>1 DEF Variables, Script
<1>3. /\ d \in Call /\ d.script_index = i /\ (d.bypassed <=> b)
      /\ d.registered_count = c.registered_count /\ d.registration = c.registration
      /\ c.registration # "grown" =>
           d.ran = c.ran \union {s} /\ (d.twice <=> c.twice \/ s \in c.ran)
  BY <1>1, <1>2, NextScript
<1>4. Ahead(d) = {j \in Ahead(c) : j > i} /\ Ahead(c) \subseteq Int
  BY <1>1, <1>3 DEF Ahead, Call, Index
<1>5. Served(d, t)
  <2>1. ASSUME d.registration # "grown", NEW r \in Entries(t), r[1] \notin d.ran,
               ~(d.bypassed /\ ~r[2])
        PROVE  \E j \in Ahead(d) : t.slot[j] = r[1] /\ t.nobp[j] = r[2]
    <3>1. r[1] \notin c.ran /\ r[1] # s /\ (b => r[2])
      BY <1>3, <2>1
    <3>2. PICK j \in Ahead(c) : t.slot[j] = r[1] /\ t.nobp[j] = r[2]
      BY <1>3, <2>1, <3>1 DEF Served
    <3>3. j # i /\ i <= j
      BY <3>1, <3>2
    <3> QED BY <1>1, <1>4, <3>2, <3>3 DEF Index
  <2> QED BY <2>1 DEF Served
<1>6. Once(d, t)
  <2>1. ASSUME d.registration = "same"
        PROVE  /\ ~d.twice /\ d.registered_count = t.count
               /\ \A j \in Ahead(d) : t.slot[j] \notin d.ran
    <3>1. /\ ~c.twice /\ c.registered_count = t.count
          /\ \A j \in Ahead(c) : t.slot[j] \notin c.ran
      BY <1>3, <2>1 DEF Once
    <3>2. Ahead(c) \subseteq Live(t)
      BY <3>1 DEF Ahead, Live, Call, Variables
    <3>3. \A j \in Ahead(d) : t.slot[j] # s
      BY <1>4, <3>2 DEF Packed
    <3> QED BY <1>3, <1>4, <2>1, <3>1, <3>3
  <2> QED BY <2>1 DEF Once
<1> QED BY <1>5, <1>6

\* What an end of a script does.
LEMMA EndOfScript ==
  ASSUME TypeOK, ScriptEnds, ~Throw
  PROVE  /\ Len(calls) \in Nat \ {0} /\ DOMAIN calls = 1..Len(calls) /\ Innermost \in Call
         /\ UNCHANGED <<server_up, table, bypass_current_event, current_event>>
         /\ \/ ToRun(Innermost, WasBypassed) = {} /\ calls' = SubSeq(calls, 1, Len(calls) - 1)
            \/ \E i \in ToRun(Innermost, WasBypassed) :
                 /\ \A j \in ToRun(Innermost, WasBypassed) : i <= j
                 /\ table[Innermost.event].slot[i] # NoScript
                 /\ calls' = [calls EXCEPT ![Len(calls)] =
                      WithScript(Innermost, i, WasBypassed, table[Innermost.event].slot[i])]
<1>1. Len(calls) > 0
  BY DEF ScriptEnds
<1>2. Len(calls) \in Nat /\ DOMAIN calls = 1..Len(calls) /\ Innermost \in Call
  BY <1>1, InnermostCall DEF Innermost
<1>3. UNCHANGED <<server_up, table, bypass_current_event, current_event>>
  BY DEF ScriptEnds
<1>4. \/ ToRun(Innermost, WasBypassed) = {} /\ calls' = SubSeq(calls, 1, Len(calls) - 1)
      \/ \E i \in ToRun(Innermost, WasBypassed) :
           /\ \A j \in ToRun(Innermost, WasBypassed) : i <= j
           /\ table[Innermost.event].slot[i] # NoScript
           /\ calls' = [calls EXCEPT ![Len(calls)] =
                WithScript(Innermost, i, WasBypassed, table[Innermost.event].slot[i])]
  BY Zenon DEF ScriptEnds, Innermost, WasBypassed
<1> QED BY <1>1, <1>2, <1>3, <1>4

LEMMA ServedEnds ==
  ASSUME TypeOK, SlotsPacked, CallsServed, ScriptEnds, ~Throw
  PROVE  CallsServed'
<1> DEFINE n == Len(calls)
           c == Innermost
           b == WasBypassed
           t == table[c.event]
<1>1. n \in Nat \ {0} /\ DOMAIN calls = 1..n /\ c \in Call /\ UNCHANGED table
  BY EndOfScript
<1>2. CASE calls' = SubSeq(calls, 1, n - 1)
  <2>1. DOMAIN calls' = 1..(n - 1) /\ \A k \in 1..(n - 1) : calls'[k] = calls[k]
    BY <1>1, <1>2 DEF TypeOK
  <2> QED BY <1>1, <2>1 DEF CallsServed
<1>3. ASSUME NEW i \in ToRun(c, b), \A j \in ToRun(c, b) : i <= j, t.slot[i] # NoScript,
             calls' = [calls EXCEPT ![n] = WithScript(c, i, b, t.slot[i])]
      PROVE  CallsServed'
  <2> DEFINE d == WithScript(c, i, b, t.slot[i])
  <2>1. c.event \in Events /\ c.bypassed \in BOOLEAN
    BY <1>1 DEF Call
  <2>2. t \in Variables /\ Packed(t)
    BY <2>1 DEF TypeOK, SlotsPacked
  <2>3. b \in BOOLEAN /\ (c.bypassed => b)
    BY <2>1 DEF WasBypassed, TypeOK
  <2>4. /\ i \in Ahead(c) /\ (b => t.nobp[i])
        /\ \A j \in Ahead(c) : (b => t.nobp[j]) => i <= j
    BY <1>3 DEF ToRun
  <2>5. Served(c, t) /\ Once(c, t)
    BY <1>1 DEF CallsServed, Innermost
  <2>6. calls' = [calls EXCEPT ![n] = d]
    BY <1>3
  <2>7. d.event = c.event
    <3>1. i \in Index
      BY <1>1, <2>4 DEF Ahead, Call, Index
    <3>2. t.slot[i] \in Scripts
      BY <1>3, <2>2, <3>1 DEF Variables, Script
    <3> HIDE DEF t, b, c
    <3> QED BY <1>1, <2>3, <3>1, <3>2, NextScript
  <2> HIDE DEF b, c, t
  <2>8. Served(d, t) /\ Once(d, t)
    BY <1>1, <1>3, <2>2, <2>3, <2>4, <2>5, ServedNext
  <2> HIDE DEF d
  <2>9. DOMAIN calls' = 1..n /\ calls'[n] = d /\ \A k \in 1..n \ {n} : calls'[k] = calls[k]
    <3>1. calls \in Seq(Call)
      BY DEF TypeOK
    <3>2. DOMAIN calls' = DOMAIN calls /\ n \in DOMAIN calls
      BY <1>1, <2>6
    <3>3. \A k \in DOMAIN calls : calls'[k] = IF k = n THEN d ELSE calls[k]
      BY <2>6
    <3> QED BY <1>1, <3>2, <3>3
  <2> QED BY <1>1, <2>7, <2>8, <2>9 DEF CallsServed, t
<1> QED BY <1>2, <1>3, EndOfScript

LEMMA BypassCalls ==
  ASSUME TypeOK, BypassVariableEvent
  PROVE  /\ DOMAIN calls' = DOMAIN calls /\ Len(calls') = Len(calls)
         /\ bypass_current_event' = TRUE /\ UNCHANGED <<server_up, table, current_event>>
         /\ \A k \in DOMAIN calls :
              LET c == calls[k]
                  d == calls'[k]
              IN /\ d.registration = c.registration /\ d.ran = c.ran /\ d.twice = c.twice
                 /\ d.bypassed = c.bypassed /\ d.registered_count = c.registered_count
                 /\ d.script_index = c.script_index /\ d.event = c.event
                 /\ d.bypass # "foreign" => c.bypass # "foreign"
                 /\ k = Len(calls) => d.bypass \in {"own", "foreign"}
<1>1. \A k \in DOMAIN calls : calls[k] \in Call
  BY DEF TypeOK
<1>2. DOMAIN calls' = DOMAIN calls /\ calls' = [k \in DOMAIN calls' |-> calls'[k]]
  BY DEF BypassVariableEvent
<1>3. \A k \in DOMAIN calls : calls'[k] \in Call
  <2>1. \A k \in DOMAIN calls :
          calls'[k] \in {calls[k], [calls[k] EXCEPT !.bypass = "own"]}
    BY DEF BypassVariableEvent
  <2> QED BY <1>1, <2>1, OwnCall
<1>4. Len(calls') = Len(calls)
  BY <1>2, <1>3, SameLength DEF TypeOK
<1>5. ASSUME NEW k \in DOMAIN calls, NEW c, c = calls[k], NEW d, d = calls'[k]
      PROVE  /\ d.registration = c.registration /\ d.ran = c.ran /\ d.twice = c.twice
             /\ d.bypassed = c.bypassed /\ d.registered_count = c.registered_count
             /\ d.script_index = c.script_index /\ d.event = c.event
             /\ d.bypass # "foreign" => c.bypass # "foreign"
             /\ k = Len(calls) => d.bypass \in {"own", "foreign"}
  <2>1. c \in Call
    BY <1>1, <1>5
  <2>2. d = IF k = Len(calls) /\ c.bypass = "none" THEN [c EXCEPT !.bypass = "own"] ELSE c
    BY <1>5 DEF BypassVariableEvent
  <2> QED BY <2>1, <2>2 DEF Call
<1> QED BY <1>2, <1>4, <1>5 DEF BypassVariableEvent

LEMMA ServedBypass ==
  ASSUME TypeOK, CallsServed, BypassVariableEvent
  PROVE  CallsServed'
<1>1. ASSUME NEW k \in DOMAIN calls
      PROVE  Served(calls'[k], table[calls'[k].event]) /\ Once(calls'[k], table[calls'[k].event])
  <2> DEFINE c == calls[k]
             d == calls'[k]
  <2>1. /\ d.registration = c.registration /\ d.ran = c.ran /\ d.twice = c.twice
        /\ d.bypassed = c.bypassed /\ d.registered_count = c.registered_count
        /\ d.script_index = c.script_index /\ d.event = c.event
    BY BypassCalls
  <2>2. Served(c, table[c.event]) /\ Once(c, table[c.event])
    BY DEF CallsServed
  <2> HIDE DEF c, d
  <2>3. Served(d, table[c.event]) /\ Once(d, table[c.event])
    BY <2>1, <2>2, SameService
  <2> QED BY <2>1, <2>3 DEF d
<1> QED BY <1>1, BypassCalls DEF CallsServed

LEMMA ServedStep ==
  ASSUME TypeOK, SlotsPacked, CallsServed, Next
  PROVE  CallsServed'
<1>1. CASE Throw
  BY <1>1 DEF Throw, CallsServed
<1>2. ASSUME NEW e \in Events, NEW s \in Scripts, NEW b \in BOOLEAN,
             RegisterVariableEvent(e, s, b), ~Throw
      PROVE  CallsServed'
  <2>1. calls' = Grown(e)
    BY <1>2 DEF RegisterVariableEvent
  <2> QED BY <1>2, <2>1, PutIn, ServedGrown
<1>3. ASSUME NEW e \in Events, NEW s \in Scripts, SetVariable(e, s)
      PROVE  CallsServed'
  <2>1. calls' = Grown(e)
    BY <1>3 DEF SetVariable
  <2> QED BY <1>3, <2>1, VariableSet, ServedGrown
<1> QED BY <1>1, <1>2, <1>3, ServedShrunk, ServedRun, ServedBypass, ServedEnds DEF Next

\* The innermost call returns only when nothing is left to run.
LEMMA ReturnStep ==
  ASSUME TypeOK, Next, Returns
  PROVE  ScriptEnds /\ ~Throw /\ ToRun(Innermost, WasBypassed) = {}
<1>1. ~Throw
  BY DEF Returns, Throw
<1>2. Len(calls) \in Nat
  BY DEF TypeOK
<1>3. ASSUME NEW e \in Events, RunVariableEvent(e) PROVE FALSE
  <2> DEFINE old == [k \in DOMAIN calls |-> [calls[k] EXCEPT !.bypass = "foreign"]]
  <2>1. \A k \in DOMAIN calls : calls[k] \in Call
    BY DEF TypeOK
  <2>2. \A k \in DOMAIN calls : old[k] \in Call
    BY <2>1, ForeignCall
  <2>3. DOMAIN old = DOMAIN calls /\ old = [k \in DOMAIN old |-> old[k]]
    OBVIOUS
  <2>4. calls' = Append(old, NewCall(e)) /\ calls \in Seq(Call)
    BY <1>1, <1>3 DEF RunVariableEvent, TypeOK
  <2> HIDE DEF old
  <2>5. old \in Seq(Call) /\ Len(old) = Len(calls)
    BY <2>2, <2>3, <2>4, SameLength
  <2>6. Len(calls') = Len(calls) + 1
    BY <2>4, <2>5
  <2> QED BY <1>2, <2>6 DEF Returns
<1>4. ASSUME NEW e \in Events, NEW s \in Scripts, NEW b \in BOOLEAN,
             RegisterVariableEvent(e, s, b) \/ SetVariable(e, s)
      PROVE  FALSE
  <2>1. calls' = Grown(e)
    BY <1>1, <1>4 DEF RegisterVariableEvent, SetVariable
  <2> QED BY <1>2, <2>1, GrownCalls DEF Returns
<1>5. ASSUME NEW e \in Events, NEW s \in Scripts, UnregisterVariableEvent(e, s)
      PROVE  FALSE
  <2>1. calls' = Shrunk(e)
    BY <1>1, <1>5 DEF UnregisterVariableEvent
  <2> QED BY <1>2, <2>1, ShrunkCalls DEF Returns
<1>6. ASSUME BypassVariableEvent PROVE FALSE
  <2>1. Len(calls') = Len(calls)
    BY <1>6, BypassCalls
  <2> QED BY <1>2, <2>1 DEF Returns
<1>7. ScriptEnds
  BY <1>3, <1>4, <1>5, <1>6 DEF Next
<1>8. ASSUME NEW d, calls' = [calls EXCEPT ![Len(calls)] = d] PROVE FALSE
  <2>1. calls \in Seq(Call)
    BY DEF TypeOK
  <2>2. Len(calls') = Len(calls)
    BY <1>8, <2>1
  <2> QED BY <1>2, <2>2 DEF Returns
<1> QED BY <1>1, <1>7, <1>8, EndOfScript

\* Whatever its scripts take out, an event has run all that is still registered
\* when it returns, unless it was bypassed, and then all the marked ones.
THEOREM EveryScriptAlwaysServed == Spec => EveryScriptServed
<1> DEFINE Inv == TypeOK /\ SlotsPacked /\ CallsServed
<1>1. Init => Inv
  BY TypeInit DEF Init, SlotsPacked, Packed, Live, CallsServed
<1>2. Inv /\ [Next]_vars => Inv'
  <2>1. UNCHANGED vars => (SlotsPacked' <=> SlotsPacked) /\ (CallsServed' <=> CallsServed)
    BY DEF vars, SlotsPacked, CallsServed
  <2> QED BY <2>1, TypeStep, PackedStep, ServedStep
<1>3. Inv /\ [Next]_vars =>
        [Returns =>
           /\ Innermost.registration # "grown" =>
                \A r \in Entries(table[Innermost.event]) :
                  r[1] \in Innermost.ran \/ (WasBypassed /\ ~r[2])
           /\ Innermost.registration = "same" => ~Innermost.twice]_vars
  <2> SUFFICES ASSUME Inv, Next, Returns
               PROVE  /\ Innermost.registration # "grown" =>
                           \A r \in Entries(table[Innermost.event]) :
                             r[1] \in Innermost.ran \/ (WasBypassed /\ ~r[2])
                      /\ Innermost.registration = "same" => ~Innermost.twice
    OBVIOUS
  <2> DEFINE c == Innermost
             t == table[c.event]
  <2>1. ToRun(c, WasBypassed) = {} /\ Len(calls) \in DOMAIN calls
    BY ReturnStep, EndOfScript
  <2>2. Served(c, t) /\ Once(c, t)
    BY <2>1 DEF CallsServed, Innermost
  <2>3. \A i \in Ahead(c) : WasBypassed /\ ~t.nobp[i]
    BY <2>1 DEF ToRun
  <2>4. c.bypassed => WasBypassed
    BY DEF WasBypassed
  <2> HIDE DEF c, t
  <2>5. c.registration # "grown" =>
          \A r \in Entries(t) : r[1] \in c.ran \/ (WasBypassed /\ ~r[2])
    BY <2>2, <2>3, <2>4 DEF Served
  <2>6. c.registration = "same" => ~c.twice
    BY <2>2 DEF Once
  <2> QED BY <2>5, <2>6 DEF c, t
<1> HIDE DEF Inv
<1> QED BY <1>1, <1>2, <1>3, PTL DEF Spec, EveryScriptServed

-----------------------------------------------------------------------------
(* The globals of the innermost event. *)

LEMMA GlobalsStep ==
  ASSUME TypeOK, OwnGlobals, Next
  PROVE  OwnGlobals'
<1>1. Len(calls) \in Nat /\ DOMAIN calls = 1..Len(calls) /\ calls \in Seq(Call)
  BY DEF TypeOK
<1>2. CASE Throw
  BY <1>2 DEF Throw, OwnGlobals
<1>3. ASSUME DOMAIN calls' = DOMAIN calls, Len(calls') = Len(calls),
             \A k \in DOMAIN calls :
               /\ calls'[k].event = calls[k].event /\ calls'[k].bypass = calls[k].bypass
               /\ calls'[k].bypassed = calls[k].bypassed,
             UNCHANGED <<bypass_current_event, current_event>>
      PROVE  OwnGlobals'
  BY <1>3 DEF OwnGlobals
<1>4. ASSUME NEW e \in Events, NEW s \in Scripts, NEW b \in BOOLEAN,
             RegisterVariableEvent(e, s, b) \/ SetVariable(e, s), ~Throw
      PROVE  OwnGlobals'
  <2>1. calls' = Grown(e) /\ UNCHANGED <<bypass_current_event, current_event>>
    BY <1>4 DEF RegisterVariableEvent, SetVariable
  <2> QED BY <1>3, <2>1, GrownCalls
<1>5. ASSUME NEW e \in Events, NEW s \in Scripts, UnregisterVariableEvent(e, s), ~Throw
      PROVE  OwnGlobals'
  <2>1. calls' = Shrunk(e) /\ UNCHANGED <<bypass_current_event, current_event>>
    BY <1>5 DEF UnregisterVariableEvent
  <2> QED BY <1>3, <2>1, ShrunkCalls
<1>6. ASSUME NEW e \in Events, RunVariableEvent(e), ~Throw PROVE OwnGlobals'
  <2> DEFINE old == [k \in DOMAIN calls |-> [calls[k] EXCEPT !.bypass = "foreign"]]
             n == Len(calls)
             new == NewCall(e)
  <2>1. \A k \in DOMAIN calls : calls[k] \in Call
    BY <1>1
  <2>2. \A k \in DOMAIN calls : old[k] \in Call /\ old[k].bypass = "foreign"
    BY <2>1, ForeignCall DEF Call
  <2>3. DOMAIN old = DOMAIN calls /\ old = [k \in DOMAIN old |-> old[k]]
    OBVIOUS
  <2>4. /\ calls' = Append(old, new) /\ current_event' = e /\ bypass_current_event' = FALSE
        /\ new.event = e /\ ~new.bypassed /\ new.bypass = "none"
    BY <1>6 DEF RunVariableEvent, NewCall
  <2>0. new \in Call
    BY <1>6 DEF RunVariableEvent, NewCall, Call, Variables, Script, Index, TypeOK
  <2> HIDE DEF old, new
  <2>5. old \in Seq(Call) /\ Len(old) = n
    BY <1>1, <2>2, <2>3, SameLength
  <2>6. /\ DOMAIN calls' = 1..(n + 1) /\ Len(calls') = n + 1 /\ calls'[n + 1] = new
        /\ \A k \in 1..n : calls'[k] = old[k]
    BY <2>0, <2>4, <2>5
  <2>7. \A k \in DOMAIN calls' : k = n + 1 \/ calls'[k].bypass = "foreign"
    BY <1>1, <2>2, <2>6
  <2> QED BY <2>4, <2>6, <2>7 DEF OwnGlobals
<1>7. ASSUME BypassVariableEvent PROVE OwnGlobals'
  <2>1. /\ DOMAIN calls' = DOMAIN calls /\ Len(calls') = Len(calls)
        /\ bypass_current_event' = TRUE /\ UNCHANGED current_event
    BY <1>7, BypassCalls
  <2>2. ASSUME NEW k \in DOMAIN calls, calls'[k].bypass # "foreign"
        PROVE  /\ k = Len(calls) /\ current_event = calls'[k].event
               /\ calls'[k].bypass = "own"
    <3>1. /\ calls'[k].event = calls[k].event /\ calls[k].bypass # "foreign"
          /\ k = Len(calls) => calls'[k].bypass \in {"own", "foreign"}
      BY <1>7, <2>2, BypassCalls
    <3>2. k = Len(calls) /\ current_event = calls[k].event
      BY <3>1 DEF OwnGlobals
    <3> QED BY <2>2, <3>1, <3>2
  <2> QED BY <2>1, <2>2 DEF OwnGlobals
<1>8. ASSUME ScriptEnds, ~Throw PROVE OwnGlobals'
  <2> DEFINE n == Len(calls)
             c == Innermost
             b == WasBypassed
             t == table[c.event]
  <2>1. /\ n \in Nat \ {0} /\ DOMAIN calls = 1..n /\ c \in Call
        /\ UNCHANGED <<table, bypass_current_event, current_event>>
    BY <1>8, EndOfScript
  <2>2. CASE calls' = SubSeq(calls, 1, n - 1)
    <3>1. DOMAIN calls' = 1..(n - 1) /\ \A k \in 1..(n - 1) : calls'[k] = calls[k]
      BY <1>1, <2>1, <2>2
    <3>2. \A k \in 1..(n - 1) : calls[k].bypass = "foreign"
      BY <2>1 DEF OwnGlobals
    <3> QED BY <3>1, <3>2 DEF OwnGlobals
  <2>3. ASSUME NEW i \in ToRun(c, b), t.slot[i] # NoScript,
               calls' = [calls EXCEPT ![n] = WithScript(c, i, b, t.slot[i])]
        PROVE  OwnGlobals'
    <3> DEFINE d == WithScript(c, i, b, t.slot[i])
    <3>1. i \in Index
      BY <2>1, <2>3 DEF ToRun, Ahead, Call, Index
    <3>2. t.slot[i] \in Scripts
      <4>1. t \in Variables
        BY <2>1 DEF Call, TypeOK
      <4> QED BY <2>3, <3>1, <4>1 DEF Variables, Script
    <3>3. b \in BOOLEAN
      BY <2>1 DEF WasBypassed, TypeOK, Call
    <3>4. calls' = [calls EXCEPT ![n] = d]
      BY <2>3
    <3>5. d.event = c.event /\ d.bypass = c.bypass /\ d.bypassed = b
      <4> HIDE DEF t, b, c
      <4> QED BY <2>1, <3>1, <3>2, <3>3, NextScript
    <3> HIDE DEF d
    <3>6. DOMAIN calls' = DOMAIN calls /\ Len(calls') = n
      BY <1>1, <3>4
    <3>7. \A k \in DOMAIN calls : calls'[k] = IF k = n THEN d ELSE calls[k]
      BY <3>4
    <3>8. \A k \in DOMAIN calls : k # n => calls[k].bypass = "foreign"
      BY DEF OwnGlobals
    <3>9. c.bypass # "foreign" =>
            current_event = c.event /\ (WasBypassed <=> c.bypass = "own")
      BY <2>1 DEF OwnGlobals, Innermost, WasBypassed
    <3>10. WasBypassed \/ bypass_current_event <=> WasBypassed
      BY DEF WasBypassed
    <3> HIDE DEF c
    <3> QED BY <2>1, <3>5, <3>6, <3>7, <3>8, <3>9, <3>10 DEF OwnGlobals
  <2> QED BY <1>8, <2>2, <2>3, EndOfScript
<1> QED BY <1>2, <1>4, <1>5, <1>6, <1>7, <1>8 DEF Next

\* As long as no event ran inside it, an event is told by its own scripts alone
\* whether it is bypassed, however many calls it is inside of.
THEOREM BypassAlwaysHonoured == Spec => BypassHonoured
<1> DEFINE Inv == TypeOK /\ OwnGlobals
<1>1. Init => Inv
  BY TypeInit DEF Init, OwnGlobals
<1>2. Inv /\ [Next]_vars => Inv'
  <2>1. UNCHANGED vars => (OwnGlobals' <=> OwnGlobals)
    BY DEF vars, OwnGlobals
  <2> QED BY <2>1, TypeStep, GlobalsStep
<1>3. Inv /\ [Next]_vars =>
        [Returns /\ Innermost.bypass # "foreign" =>
           /\ WasBypassed <=> Innermost.bypass = "own"
           /\ current_event = Innermost.event]_vars
  <2> SUFFICES ASSUME Inv, Next, Returns, Innermost.bypass # "foreign"
               PROVE  /\ WasBypassed <=> Innermost.bypass = "own"
                      /\ current_event = Innermost.event
    OBVIOUS
  <2>1. Len(calls) \in DOMAIN calls
    BY ReturnStep, EndOfScript
  <2> QED BY <2>1 DEF OwnGlobals, Innermost, WasBypassed
<1> HIDE DEF Inv
<1> QED BY <1>1, <1>2, <1>3, PTL DEF Spec, BypassHonoured
=============================================================================
