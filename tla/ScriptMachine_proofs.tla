-------------------------- MODULE ScriptMachine_proofs --------------------------
(***************************************************************************)
(* Theorems of ScriptMachine, for any scripts and any depth of the calls.    *)
(***************************************************************************)
EXTENDS ScriptMachine, SequenceTheorems, FiniteSetTheorems, TLAPS

\* The scripts of the list behind its first n, the newest first.
Newest(list, n) == [i \in 1..(Len(list) - n) |-> list[(Len(list) - i) + 1]]

\* What a call may rely on, given the list of the script it was made for and the flag.
Placed(c) == c.step \in {"handler", "returned"} => c.next > 0
InOrder(c, list) ==
  c.step # "body" /\ ~c.changed =>
    /\ c.next <= Len(list)
    /\ c.ran = Newest(list, IF c.step = "next" THEN c.next ELSE c.next - 1)
    /\ c.vector_gone => Len(list) <= 1 /\ (c.step = "next" => c.next = 0)
OwnBypass(c, flag) ==
  c.step # "body" /\ c.next > 0 /\ c.bypass # "foreign" => (flag <=> c.bypass = "own")
Fit(c, list, flag) == Placed(c) /\ InOrder(c, list) /\ OwnBypass(c, flag)

CallsFit(cs, events, flag) == \A k \in DOMAIN cs : Fit(cs[k], events[cs[k].script], flag)

\* A call waits for the one above it, a registered script or not.
Nested(cs) ==
  \A k \in DOMAIN cs :
    /\ cs[k].step = "handler" <=> (k < Len(cs) /\ cs[k + 1].handler = TRUE)
    /\ k < Len(cs) => cs[k].step \in {"handler", "body"}

NoScriptTwice == \A e \in Scripts : IsInjective(registered_events[e])

IInv ==
  /\ TypeOK
  /\ NoScriptTwice
  /\ Nested(calls)
  /\ CallsFit(calls, registered_events, bBypassRegisteredEvent)

-----------------------------------------------------------------------------
\* Sequences.
LEMMA SameLength ==
  ASSUME NEW S, NEW s \in Seq(S), NEW t, DOMAIN t = DOMAIN s,
         t = [k \in DOMAIN t |-> t[k]], \A k \in DOMAIN s : t[k] \in S
  PROVE  t \in Seq(S) /\ Len(t) = Len(s)
<1>1. DOMAIN s = 1..Len(s) /\ Len(s) \in Nat
  OBVIOUS
<1>2. t \in [1..Len(s) -> S]
  BY <1>1
<1> QED
  BY <1>1, <1>2

LEMMA Appended ==
  ASSUME NEW S, NEW s \in Seq(S), NEW x \in S
  PROVE  /\ Append(s, x) \in Seq(S) /\ Len(Append(s, x)) = Len(s) + 1
         /\ DOMAIN Append(s, x) = DOMAIN s \union {Len(s) + 1}
         /\ \A k \in DOMAIN s : Append(s, x)[k] = s[k]
         /\ Append(s, x)[Len(s) + 1] = x
OBVIOUS

LEMMA Shortened ==
  ASSUME NEW S, NEW s \in Seq(S), Len(s) > 0
  PROVE  /\ SubSeq(s, 1, Len(s) - 1) \in Seq(S)
         /\ Len(SubSeq(s, 1, Len(s) - 1)) = Len(s) - 1
         /\ DOMAIN SubSeq(s, 1, Len(s) - 1) = 1..(Len(s) - 1)
         /\ \A k \in 1..(Len(s) - 1) : SubSeq(s, 1, Len(s) - 1)[k] = s[k]
<1>1. Len(s) \in Nat
  OBVIOUS
<1> DEFINE n == Len(s) - 1
           t == SubSeq(s, 1, n)
<1>2. n \in Int /\ n >= 0 /\ \A i \in 1..n : s[i] \in S
  BY <1>1
<1> HIDE DEF n
<1>3. /\ t \in Seq(S) /\ Len(t) = IF 1 <= n THEN n - 1 + 1 ELSE 0
      /\ \A i \in 1..(n - 1 + 1) : t[i] = s[1 + i - 1]
  BY <1>2, SubSeqProperties
<1> HIDE DEF t
<1>4. t \in Seq(S) /\ Len(t) = n /\ DOMAIN t = 1..n /\ \A k \in 1..n : t[k] = s[k]
  BY <1>2, <1>3
<1> QED
  BY <1>4 DEF n, t

LEMMA Joined ==
  ASSUME NEW S, NEW s \in Seq(S), NEW t \in Seq(S)
  PROVE  /\ s \o t \in Seq(S) /\ Len(s \o t) = Len(s) + Len(t)
         /\ \A i \in 1..(Len(s) + Len(t)) :
              (s \o t)[i] = IF i <= Len(s) THEN s[i] ELSE t[i - Len(s)]
OBVIOUS

LEMMA ShortenedType ==
  ASSUME NEW S, NEW s \in Seq(S)
  PROVE  SubSeq(s, 1, Len(s) - 1) \in Seq(S)
OBVIOUS

\* Taking a script out leaves a list without it and without repetition.
LEMMA ErasedList ==
  ASSUME NEW list \in Seq(Scripts), NEW h \in Scripts, IsInjective(list)
  PROVE  /\ Erased(list, h) \in Seq(Scripts) /\ IsInjective(Erased(list, h))
         /\ \A i \in DOMAIN Erased(list, h) : Erased(list, h)[i] # h
<1>1. CASE ~ \E i \in DOMAIN list : list[i] = h
  BY <1>1 DEF Erased
<1>2. CASE \E i \in DOMAIN list : list[i] = h
  <2> DEFINE j == CHOOSE i \in DOMAIN list : list[i] = h
             erased == SubSeq(list, 1, j - 1) \o SubSeq(list, j + 1, Len(list))
  <2>1. Erased(list, h) = erased
    BY <1>2 DEF Erased, RemoveAt
  <2>2. j \in DOMAIN list /\ list[j] = h
    BY <1>2
  <2> HIDE DEF j
  <2>3. j \in Nat /\ 1 <= j /\ j <= Len(list) /\ Len(list) \in Nat
    BY <2>2
  <2>4. /\ erased \in Seq(Scripts) /\ Len(erased) = Len(list) - 1
        /\ \A i \in 1..(Len(list) - 1) : erased[i] = IF i < j THEN list[i] ELSE list[i + 1]
    <3>1. SubSeq(list, 1, j - 1) \in Seq(Scripts) /\ Len(SubSeq(list, 1, j - 1)) = j - 1
          /\ \A i \in 1..(j - 1) : SubSeq(list, 1, j - 1)[i] = list[i]
      BY <2>3
    <3>2. SubSeq(list, j + 1, Len(list)) \in Seq(Scripts)
          /\ Len(SubSeq(list, j + 1, Len(list))) = Len(list) - j
          /\ \A i \in 1..(Len(list) - j) : SubSeq(list, j + 1, Len(list))[i] = list[j + i]
      BY <2>3
    <3> DEFINE front == SubSeq(list, 1, j - 1)
               back == SubSeq(list, j + 1, Len(list))
    <3> HIDE DEF front, back
    <3>3. /\ front \o back \in Seq(Scripts) /\ Len(front \o back) = Len(front) + Len(back)
          /\ \A i \in 1..(Len(front) + Len(back)) :
               (front \o back)[i] = IF i <= Len(front) THEN front[i] ELSE back[i - Len(front)]
      BY <3>1, <3>2, Joined DEF front, back
    <3>4. /\ Len(front) = j - 1 /\ Len(back) = Len(list) - j
          /\ \A i \in 1..(j - 1) : front[i] = list[i]
          /\ \A i \in 1..(Len(list) - j) : back[i] = list[j + i]
      BY <3>1, <3>2 DEF front, back
    <3>5. \A i \in 1..(Len(list) - 1) :
            (front \o back)[i] = IF i < j THEN list[i] ELSE list[i + 1]
      <4> SUFFICES ASSUME NEW i \in 1..(Len(list) - 1)
                   PROVE  (front \o back)[i] = IF i < j THEN list[i] ELSE list[i + 1]
        OBVIOUS
      <4>1. CASE i < j
        BY <4>1, <2>3, <3>3, <3>4
      <4>2. CASE ~(i < j)
        <5>1. i - (j - 1) \in 1..(Len(list) - j) /\ j + (i - (j - 1)) = i + 1
          BY <4>2, <2>3
        <5>2. (front \o back)[i] = back[i - (j - 1)]
          BY <4>2, <2>3, <3>3, <3>4
        <5> QED
          BY <5>1, <5>2, <4>2, <3>4
      <4> QED
        BY <4>1, <4>2
    <3>6. Len(front \o back) = Len(list) - 1
      BY <2>3, <3>3, <3>4
    <3> QED
      BY <3>3, <3>5, <3>6 DEF front, back
  <2> HIDE DEF erased
  <2>5. \A i \in 1..(Len(list) - 1) : erased[i] # h
    <3> SUFFICES ASSUME NEW i \in 1..(Len(list) - 1) PROVE erased[i] # h
      OBVIOUS
    <3> DEFINE place == IF i < j THEN i ELSE i + 1
    <3>1. place \in 1..Len(list) /\ j \in 1..Len(list) /\ place # j
      BY <2>3
    <3>2. erased[i] = list[place]
      BY <2>4
    <3> HIDE DEF place
    <3>3. list[place] = list[j] => place = j
      BY <3>1 DEF IsInjective
    <3> QED
      BY <2>2, <3>1, <3>2, <3>3
  <2>6. IsInjective(erased)
    <3> SUFFICES ASSUME NEW a \in 1..(Len(list) - 1), NEW b \in 1..(Len(list) - 1),
                        erased[a] = erased[b]
                 PROVE  a = b
      BY <2>3, <2>4 DEF IsInjective
    <3> DEFINE place(i) == IF i < j THEN i ELSE i + 1
    <3>1. /\ place(a) \in 1..Len(list) /\ place(b) \in 1..Len(list)
          /\ (place(a) = place(b) => a = b)
      BY <2>3
    <3>2. erased[a] = list[place(a)]
      BY <2>4
    <3>3. erased[b] = list[place(b)]
      BY <2>4
    <3> HIDE DEF place
    <3>4. list[place(a)] = list[place(b)]
      BY <3>2, <3>3
    <3>5. \A m, n \in 1..Len(list) : list[m] = list[n] => m = n
      BY DEF IsInjective
    <3>6. place(a) = place(b)
      BY <3>1, <3>4, <3>5
    <3> QED
      BY <3>1, <3>6
  <2> QED
    BY <2>1, <2>3, <2>4, <2>5, <2>6
<1> QED
  BY <1>1, <1>2

LEMMA RegisteredList ==
  ASSUME NEW list \in Seq(Scripts), NEW h \in Scripts, IsInjective(list),
         \A i \in DOMAIN list : list[i] # h
  PROVE  Append(list, h) \in Seq(Scripts) /\ IsInjective(Append(list, h))
BY DEF IsInjective

-----------------------------------------------------------------------------
\* One call.
LEMMA ForeignFits ==
  ASSUME NEW c \in Call, NEW list, NEW flag, Fit(c, list, flag)
  PROVE  /\ Foreign(c) \in Call /\ Fit(Foreign(c), list, FALSE)
         /\ Foreign(c).script = c.script /\ Foreign(c).step = c.step
         /\ Foreign(c).handler = c.handler
<1>1. CASE c.step = "body"
  BY <1>1 DEF Foreign, Fit, Placed, InOrder, OwnBypass
<1>2. CASE c.step # "body"
  BY <1>2 DEF Foreign, Fit, Placed, InOrder, OwnBypass, Call
<1> QED
  BY <1>1, <1>2

LEMMA BodyFits ==
  ASSUME NEW c, NEW list, NEW flag, c.step = "body"
  PROVE  Fit(c, list, flag)
BY DEF Fit, Placed, InOrder, OwnBypass

\* The next registered script begins.
LEMMA NewestGrows ==
  ASSUME NEW list \in Seq(Scripts), NEW n \in Nat, n > 0, n <= Len(list)
  PROVE  Append(Newest(list, n), list[n]) = Newest(list, n - 1)
<1>1. Len(list) - n \in Nat
  OBVIOUS
<1>2. Newest(list, n) \in Seq(Scripts) /\ Len(Newest(list, n)) = Len(list) - n
  <2>1. Newest(list, n) \in [1..(Len(list) - n) -> Scripts]
    BY <1>1 DEF Newest
  <2> QED
    BY <1>1, <2>1
<1> QED
  BY <1>1, <1>2 DEF Newest

Began(c, ran) == [c EXCEPT !.step = "handler", !.ran = ran]

LEMMA HandlerFits ==
  ASSUME NEW c \in Call, NEW list \in Seq(Scripts), NEW flag, Fit(c, list, flag),
         c.step = "next", c.next > 0, c.next <= Len(list),
         NEW ran, ran = IF c.changed THEN c.ran ELSE Append(c.ran, list[c.next])
  PROVE  LET d == Began(c, ran) IN
         d \in Call /\ Fit(d, list, flag) /\ d.script = c.script /\ d.handler = c.handler
         /\ d.step = "handler"
<1> DEFINE d == Began(c, ran)
<1>1. c.ran \in Seq(Scripts) /\ c.next \in Nat /\ list[c.next] \in Scripts
  BY DEF Call
<1>2. ran \in Seq(Scripts)
  BY <1>1
<1>3. ~c.changed => c.ran = Newest(list, c.next)
  BY DEF Fit, InOrder
<1>4. ~c.changed => ran = Newest(list, c.next - 1)
  BY <1>1, <1>3, NewestGrows
<1>5. d \in Call
  BY <1>2 DEF Call, Began
<1>6. /\ d.script = c.script /\ d.handler = c.handler /\ d.step = "handler" /\ d.ran = ran
      /\ d.next = c.next /\ d.changed = c.changed /\ d.vector_gone = c.vector_gone
      /\ d.bypass = c.bypass
  BY DEF Call, Began
<1> HIDE DEF d
<1>7. Placed(d) /\ OwnBypass(d, flag)
  BY <1>6 DEF Fit, Placed, OwnBypass
<1>8. InOrder(d, list)
  BY <1>4, <1>6 DEF Fit, InOrder
<1> QED
  BY <1>5, <1>6, <1>7, <1>8 DEF Fit, d

LEMMA ReturnedFits ==
  ASSUME NEW c \in Call, NEW list, NEW flag, Fit(c, list, flag), c.step = "handler"
  PROVE  LET d == [c EXCEPT !.step = "returned"] IN
         d \in Call /\ Fit(d, list, flag) /\ d.script = c.script /\ d.handler = c.handler
         /\ d.step = "returned"
BY DEF Call, Fit, Placed, InOrder, OwnBypass

Continued(c) == [c EXCEPT !.step = "next", !.next = @ - 1]

LEMMA NextFits ==
  ASSUME NEW c \in Call, NEW list \in Seq(Scripts), NEW flag \in BOOLEAN, Fit(c, list, flag),
         c.step = "returned", ~flag
  PROVE  LET d == Continued(c) IN
         d \in Call /\ Fit(d, list, flag) /\ d.script = c.script /\ d.handler = c.handler
         /\ d.step = "next"
<1> DEFINE d == Continued(c)
<1>1. c.next \in Nat /\ c.next > 0 /\ Len(list) \in Nat
  <2>1. c.next \in Nat /\ Len(list) \in Nat
    BY DEF Call
  <2>2. c.next > 0
    BY DEF Fit, Placed
  <2> QED
    BY <2>1, <2>2
<1>2. d \in Call
  <2>1. c.next - 1 \in Nat
    BY <1>1
  <2> DEFINE n == c.next - 1
  <2> HIDE DEF n
  <2>2. [c EXCEPT !.step = "next", !.next = n] \in Call
    BY <2>1 DEF n, Call
  <2> QED
    BY <2>2 DEF n, Continued
<1>3. /\ d.script = c.script /\ d.handler = c.handler /\ d.step = "next" /\ d.ran = c.ran
      /\ d.next = c.next - 1 /\ d.changed = c.changed /\ d.vector_gone = c.vector_gone
      /\ d.bypass = c.bypass
  BY DEF Call, Continued
<1> HIDE DEF d
<1>4. Placed(d) /\ OwnBypass(d, flag)
  BY <1>1, <1>3 DEF Fit, Placed, OwnBypass
<1>5. InOrder(d, list)
  BY <1>1, <1>3 DEF Fit, InOrder
<1> QED
  BY <1>2, <1>3, <1>4, <1>5 DEF Fit, d

\* A script asks for the bypass.
Asked(c) == IF c.step # "body" /\ c.bypass = "none" THEN [c EXCEPT !.bypass = "own"] ELSE c

LEMMA BypassFits ==
  ASSUME NEW c \in Call, NEW list, NEW flag, Fit(c, list, flag), NEW d, d = Asked(c)
  PROVE  d \in Call /\ Fit(d, list, TRUE) /\ d.script = c.script /\ d.handler = c.handler
         /\ d.step = c.step
<1>1. CASE c.step # "body" /\ c.bypass = "none"
  <2>1. d \in Call
    BY <1>1 DEF Call, Asked
  <2>2. /\ d.script = c.script /\ d.handler = c.handler /\ d.step = c.step /\ d.ran = c.ran
        /\ d.next = c.next /\ d.changed = c.changed /\ d.vector_gone = c.vector_gone
        /\ d.bypass = "own"
    BY <1>1 DEF Call, Asked
  <2>3. Placed(d) /\ InOrder(d, list)
    BY <2>2 DEF Fit, Placed, InOrder
  <2>4. OwnBypass(d, TRUE)
    BY <2>2 DEF OwnBypass
  <2> QED
    BY <2>1, <2>2, <2>3, <2>4 DEF Fit
<1>2. CASE ~(c.step # "body" /\ c.bypass = "none")
  BY <1>2 DEF Fit, Placed, InOrder, OwnBypass, Call, Asked
<1> QED
  BY <1>1, <1>2

LEMMA ResultFits ==
  ASSUME NEW c \in Call, NEW list, NEW flag, Fit(c, list, flag),
         NEW r \in Results, NEW d, d = c \/ d = [c EXCEPT !.result = r]
  PROVE  d \in Call /\ Fit(d, list, flag) /\ d.script = c.script /\ d.handler = c.handler
         /\ d.step = c.step
<1>1. CASE d = c
  BY <1>1
<1>2. CASE d # c
  BY <1>2 DEF Fit, Placed, InOrder, OwnBypass, Call
<1> QED
  BY <1>1, <1>2

LEMMA NamedFits ==
  ASSUME NEW c \in Call, NEW list, NEW flag, Fit(c, list, flag),
         NEW s \in Scripts \union {NoScript}, NEW d, d = c \/ d = [c EXCEPT !.name = s]
  PROVE  d \in Call /\ Fit(d, list, flag) /\ d.script = c.script /\ d.handler = c.handler
         /\ d.step = c.step
<1>1. CASE d = c
  BY <1>1
<1>2. CASE d # c
  BY <1>2 DEF Fit, Placed, InOrder, OwnBypass, Call
<1> QED
  BY <1>1, <1>2

\* The list the call goes through becomes another, or its vector is another one.
Now(c, old, list, emptied) ==
  IF list = old THEN [c EXCEPT !.vector_gone = @ \/ emptied]
  ELSE [c EXCEPT !.vector_gone = @ \/ emptied, !.changed = TRUE, !.ran = << >>]

LEMMA RelistedFits ==
  ASSUME NEW c \in Call, c.step = "handler", NEW old, NEW list, NEW flag,
         NEW emptied \in BOOLEAN, Len(list) \in Nat, emptied => Len(list) <= 1,
         Fit(c, old, flag), NEW d, d = Now(c, old, list, emptied)
  PROVE  d \in Call /\ Fit(d, list, flag) /\ d.script = c.script /\ d.handler = c.handler
         /\ d.step = c.step
<1> DEFINE gone == c.vector_gone \/ emptied
<1>1. gone \in BOOLEAN /\ (gone <=> c.vector_gone \/ emptied)
  BY Zenon DEF Call
<1>2. CASE list = old
  <2>1. d = [c EXCEPT !.vector_gone = gone]
    BY <1>2 DEF Now
  <2> HIDE DEF gone
  <2>2. d \in Call
    BY <1>1, <2>1 DEF Call
  <2>3. /\ d.script = c.script /\ d.handler = c.handler /\ d.step = c.step /\ d.ran = c.ran
        /\ d.next = c.next /\ d.changed = c.changed /\ d.vector_gone = gone
        /\ d.bypass = c.bypass
    BY <2>1 DEF Call
  <2>4. Placed(d) /\ OwnBypass(d, flag)
    BY <2>3 DEF Fit, Placed, OwnBypass
  <2>5. ~c.changed =>
          /\ c.next <= Len(list)
          /\ c.ran = Newest(list, c.next - 1)
          /\ gone => Len(list) <= 1
    BY <1>1, <1>2 DEF Fit, InOrder
  <2>6. InOrder(d, list)
    BY <2>3, <2>5 DEF InOrder
  <2> QED
    BY <2>2, <2>3, <2>4, <2>6 DEF Fit
<1>3. CASE list # old
  <2>1. d = [c EXCEPT !.vector_gone = gone, !.changed = TRUE, !.ran = << >>]
    BY <1>3 DEF Now
  <2> HIDE DEF gone
  <2>2. << >> \in Seq(Scripts)
    OBVIOUS
  <2>3. d \in Call
    BY <1>1, <2>1, <2>2 DEF Call
  <2>4. /\ d.script = c.script /\ d.handler = c.handler /\ d.step = c.step
        /\ d.next = c.next /\ d.changed = TRUE /\ d.bypass = c.bypass
    BY <2>1 DEF Call
  <2>5. Placed(d) /\ InOrder(d, list) /\ OwnBypass(d, flag)
    BY <2>4 DEF Fit, Placed, InOrder, OwnBypass
  <2> QED
    BY <2>3, <2>4, <2>5 DEF Fit
<1> QED
  BY <1>2, <1>3

-----------------------------------------------------------------------------
\* All the calls.
LEMMA InnermostCall ==
  ASSUME TypeOK, Depth > 0
  PROVE  /\ Depth \in Nat /\ DOMAIN calls = 1..Depth /\ Depth \in DOMAIN calls
         /\ Innermost \in Call
BY DEF TypeOK, Depth, Innermost

\* Calls that stay where they are and of the same kind are nested as before.
LEMMA SameNesting ==
  ASSUME NEW cs, NEW ds, Nested(cs), DOMAIN cs = 1..Len(cs), Len(cs) \in Nat,
         Len(ds) = Len(cs), DOMAIN ds = DOMAIN cs,
         \A k \in DOMAIN cs : ds[k].step = cs[k].step /\ ds[k].handler = cs[k].handler
  PROVE  Nested(ds)
BY DEF Nested

\* A new call is put above others, of which the last waits for it or runs it.
LEMMA RunScriptFits ==
  ASSUME TypeOK, NEW s \in Scripts, NEW below \in Seq(Call), NEW slot \in BOOLEAN,
         NEW handler \in BOOLEAN, NEW event \in BOOLEAN,
         CallsFit(below, registered_events, bBypassRegisteredEvent),
         \A k \in DOMAIN below :
           /\ k < Len(below) => below[k].step \in {"handler", "body"}
           /\ k < Len(below) => (below[k].step = "handler" <=> below[k + 1].handler = TRUE)
           /\ k = Len(below) => below[k].step = IF handler THEN "handler" ELSE "body",
         RunScript(s, below, slot, handler, event)
  PROVE  /\ calls' \in Seq(Call) /\ bBypassRegisteredEvent' \in BOOLEAN
         /\ Nested(calls')
         /\ CallsFit(calls', registered_events, bBypassRegisteredEvent')
<1> DEFINE waiting == IF registered_events[s] = << >> THEN below
                      ELSE [k \in DOMAIN below |-> Foreign(below[k])]
           new == NewCall(s, slot, handler, event)
<1>1. /\ calls' = Append(waiting, new)
      /\ bBypassRegisteredEvent' =
           IF registered_events[s] = << >> THEN bBypassRegisteredEvent ELSE FALSE
  BY DEF RunScript
<1>2. /\ waiting \in Seq(Call) /\ Len(waiting) = Len(below) /\ DOMAIN waiting = DOMAIN below
      /\ \A k \in DOMAIN below :
           /\ waiting[k].step = below[k].step /\ waiting[k].handler = below[k].handler
           /\ waiting[k].script = below[k].script
           /\ Fit(waiting[k], registered_events[waiting[k].script], bBypassRegisteredEvent')
  <2>1. CASE registered_events[s] = << >>
    BY <1>1, <2>1 DEF CallsFit
  <2>2. CASE registered_events[s] # << >>
    <3>1. waiting = [k \in DOMAIN below |-> Foreign(below[k])] /\ bBypassRegisteredEvent' = FALSE
      BY <1>1, <2>2
    <3>2. \A k \in DOMAIN below :
            /\ below[k] \in Call
            /\ Fit(below[k], registered_events[below[k].script], bBypassRegisteredEvent)
      BY DEF CallsFit
    <3>3. \A k \in DOMAIN below :
            /\ Foreign(below[k]) \in Call
            /\ Fit(Foreign(below[k]), registered_events[below[k].script], FALSE)
            /\ Foreign(below[k]).script = below[k].script
            /\ Foreign(below[k]).step = below[k].step
            /\ Foreign(below[k]).handler = below[k].handler
      BY <3>2, ForeignFits
    <3> HIDE DEF waiting
    <3>4. /\ DOMAIN waiting = DOMAIN below /\ waiting = [k \in DOMAIN waiting |-> waiting[k]]
          /\ \A k \in DOMAIN below : waiting[k] = Foreign(below[k])
      BY <3>1
    <3>5. \A k \in DOMAIN below : waiting[k] \in Call
      BY <3>3, <3>4
    <3>6. waiting \in Seq(Call) /\ Len(waiting) = Len(below)
      BY <3>4, <3>5, SameLength
    <3> QED
      BY <3>1, <3>3, <3>4, <3>6
  <2> QED
    BY <2>1, <2>2
<1>3. /\ new \in Call /\ new.script = s /\ new.handler = handler /\ new.step = "next"
      /\ Fit(new, registered_events[s], bBypassRegisteredEvent')
  <2> DEFINE list == registered_events[s]
  <2>1. list \in Seq(Scripts) /\ Len(list) \in Nat
    BY DEF TypeOK
  <2>2. << >> \in Seq(Scripts)
    OBVIOUS
  <2>3. new \in Call
    BY <2>1, <2>2 DEF NewCall, Call
  <2>4. /\ new.script = s /\ new.handler = handler /\ new.step = "next" /\ new.next = Len(list)
        /\ new.ran = << >> /\ new.vector_gone = FALSE /\ new.bypass = "none"
    BY DEF NewCall
  <2>5. Newest(list, Len(list)) = << >>
    BY <2>1 DEF Newest
  <2>6. list = << >> \/ bBypassRegisteredEvent' = FALSE
    BY <1>1
  <2>7. new.next > 0 => bBypassRegisteredEvent' = FALSE
    BY <2>1, <2>4, <2>6
  <2> HIDE DEF new, list
  <2>8. Placed(new) /\ InOrder(new, list)
    BY <2>1, <2>4, <2>5 DEF Placed, InOrder
  <2>9. OwnBypass(new, bBypassRegisteredEvent')
    BY <2>4, <2>7 DEF OwnBypass
  <2> QED
    BY <2>3, <2>4, <2>8, <2>9 DEF Fit, list
<1> HIDE DEF waiting, new
<1>4. /\ calls' \in Seq(Call) /\ Len(calls') = Len(below) + 1
      /\ DOMAIN calls' = DOMAIN below \union {Len(below) + 1}
      /\ \A k \in DOMAIN below : calls'[k] = waiting[k]
      /\ calls'[Len(below) + 1] = new
  BY <1>1, <1>2, <1>3, Appended
<1>5. CallsFit(calls', registered_events, bBypassRegisteredEvent')
  BY <1>2, <1>3, <1>4 DEF CallsFit
<1>6. Len(below) \in Nat /\ DOMAIN below = 1..Len(below)
  OBVIOUS
<1>7. Nested(calls')
  <2>1. \A k \in DOMAIN calls' :
          /\ k \in DOMAIN below => calls'[k].step = below[k].step /\ calls'[k].handler = below[k].handler
          /\ k \notin DOMAIN below => k = Len(below) + 1 /\ calls'[k].step = "next"
                                      /\ calls'[k].handler = handler
    BY <1>2, <1>3, <1>4
  <2> QED
    BY <1>4, <1>6, <2>1 DEF Nested
<1>8. bBypassRegisteredEvent' \in BOOLEAN
  BY <1>1 DEF TypeOK
<1> QED
  BY <1>4, <1>5, <1>7, <1>8

\* Calls that only have other fields changed.
LEMMA MappedFit ==
  ASSUME TypeOK, Nested(calls), NEW cs, DOMAIN cs = DOMAIN calls,
         cs = [k \in DOMAIN cs |-> cs[k]], NEW events, NEW flag,
         \A k \in DOMAIN calls :
           /\ cs[k] \in Call /\ Fit(cs[k], events[cs[k].script], flag)
           /\ cs[k].step = calls[k].step /\ cs[k].handler = calls[k].handler
  PROVE  cs \in Seq(Call) /\ Nested(cs) /\ CallsFit(cs, events, flag)
<1>1. \A k \in DOMAIN calls : cs[k] \in Call
  OBVIOUS
<1>2. calls \in Seq(Call)
  BY DEF TypeOK
<1>3. cs \in Seq(Call) /\ Len(cs) = Len(calls)
  BY <1>1, <1>2, SameLength
<1>4. CallsFit(cs, events, flag)
  BY DEF CallsFit
<1>5. DOMAIN calls = 1..Len(calls) /\ Len(calls) \in Nat
  BY <1>2
<1>6. Nested(cs)
  BY <1>3, <1>5, SameNesting
<1> QED
  BY <1>3, <1>4, <1>6

\* The innermost call goes on to another step.
LEMMA InnermostFits ==
  ASSUME TypeOK, Nested(calls), Depth > 0,
         CallsFit(calls, registered_events, bBypassRegisteredEvent),
         NEW d \in Call, Fit(d, registered_events[d.script], bBypassRegisteredEvent),
         d.handler = Innermost.handler, d.step # "handler"
  PROVE  LET cs == [calls EXCEPT ![Depth] = d] IN
         /\ cs \in Seq(Call) /\ Nested(cs)
         /\ CallsFit(cs, registered_events, bBypassRegisteredEvent)
<1> DEFINE cs == [calls EXCEPT ![Depth] = d]
<1>1. Depth \in Nat /\ DOMAIN calls = 1..Depth /\ Depth \in DOMAIN calls /\ Len(calls) = Depth
  BY InnermostCall DEF Depth
<1>2. /\ DOMAIN cs = DOMAIN calls /\ cs = [k \in DOMAIN cs |-> cs[k]] /\ cs[Depth] = d
      /\ \A k \in DOMAIN calls : k # Depth => cs[k] = calls[k]
  BY <1>1
<1> HIDE DEF cs
<1>3. calls \in Seq(Call) /\ \A k \in DOMAIN calls : calls[k] \in Call
  BY DEF TypeOK
<1>4. \A k \in DOMAIN calls : cs[k] \in Call
  BY <1>2, <1>3
<1>5. cs \in Seq(Call) /\ Len(cs) = Len(calls)
  BY <1>2, <1>3, <1>4, SameLength
<1>6. CallsFit(cs, registered_events, bBypassRegisteredEvent)
  BY <1>2 DEF CallsFit
<1>7. \A k \in DOMAIN calls : cs[k].handler = calls[k].handler
  BY <1>2 DEF Innermost
<1>8. Nested(cs)
  BY <1>1, <1>2, <1>5, <1>7 DEF Nested
<1> QED
  BY <1>5, <1>6, <1>8 DEF cs

\* The innermost call returns to the one below.
LEMMA ReturnFits ==
  ASSUME TypeOK, Nested(calls), Depth > 0,
         CallsFit(calls, registered_events, bBypassRegisteredEvent), Return
  PROVE  /\ calls' \in Seq(Call) /\ Len(calls') = Len(calls) - 1 /\ Nested(calls')
         /\ CallsFit(calls', registered_events, bBypassRegisteredEvent)
<1>1. Depth \in Nat /\ DOMAIN calls = 1..Depth /\ Depth \in DOMAIN calls /\ Len(calls) = Depth
  BY InnermostCall DEF Depth
<1>2. calls \in Seq(Call) /\ \A k \in DOMAIN calls : calls[k] \in Call
  BY DEF TypeOK
<1>3. /\ Popped \in Seq(Call) /\ Len(Popped) = Depth - 1 /\ DOMAIN Popped = 1..(Depth - 1)
      /\ \A k \in 1..(Depth - 1) : Popped[k] = calls[k]
  BY <1>1, <1>2, Shortened DEF Popped
<1> DEFINE d(k) == [calls[k] EXCEPT !.step = "returned"]
<1>4. /\ DOMAIN calls' = 1..(Depth - 1) /\ calls' = [k \in DOMAIN calls' |-> calls'[k]]
      /\ \A k \in 1..(Depth - 1) :
           calls'[k] = IF Innermost.handler /\ k = Depth - 1 THEN d(k) ELSE calls[k]
  <2>1. CASE Innermost.handler
    <3>1. calls' = [Popped EXCEPT ![Depth - 1].step = "returned"]
      BY <2>1 DEF Return
    <3>2. Popped = [k \in 1..(Depth - 1) |-> calls[k]]
      BY <1>3
    <3> QED
      BY <1>3, <2>1, <3>1
  <2>2. CASE ~Innermost.handler
    <3>1. calls' = Popped
      BY <2>2 DEF Return
    <3> QED
      BY <1>3, <2>2, <3>1
  <2> QED
    BY <2>1, <2>2
<1>5. \A k \in 1..(Depth - 1) :
        k = Depth - 1 =>
          (calls[k].step = IF Innermost.handler THEN "handler" ELSE "body")
  <2>1. \A k \in 1..(Depth - 1) :
          /\ calls[k].step = "handler" <=> calls[k + 1].handler = TRUE
          /\ calls[k].step \in {"handler", "body"}
    BY <1>1 DEF Nested
  <2>2. Innermost.handler \in BOOLEAN /\ Innermost = calls[Depth]
    BY <1>1, <1>2 DEF Call, Innermost
  <2> QED
    BY <1>1, <2>1, <2>2
<1>6. \A k \in 1..(Depth - 1) :
        /\ calls'[k] \in Call /\ calls'[k].script = calls[k].script
        /\ calls'[k].handler = calls[k].handler
        /\ Fit(calls'[k], registered_events[calls'[k].script], bBypassRegisteredEvent)
        /\ k < Depth - 1 => calls'[k].step = calls[k].step
        /\ k = Depth - 1 => calls'[k].step \in {"returned", "body"}
  <2> SUFFICES ASSUME NEW k \in 1..(Depth - 1)
               PROVE  /\ calls'[k] \in Call /\ calls'[k].script = calls[k].script
                      /\ calls'[k].handler = calls[k].handler
                      /\ Fit(calls'[k], registered_events[calls'[k].script], bBypassRegisteredEvent)
                      /\ k < Depth - 1 => calls'[k].step = calls[k].step
                      /\ k = Depth - 1 => calls'[k].step \in {"returned", "body"}
    OBVIOUS
  <2>1. k \in DOMAIN calls /\ calls[k] \in Call
        /\ Fit(calls[k], registered_events[calls[k].script], bBypassRegisteredEvent)
    BY <1>1, <1>2 DEF CallsFit
  <2>2. CASE Innermost.handler /\ k = Depth - 1
    <3>1. calls'[k] = d(k) /\ calls[k].step = "handler"
      BY <1>4, <1>5, <2>2
    <3> QED
      BY <1>1, <2>1, <2>2, <3>1, ReturnedFits
  <2>3. CASE ~(Innermost.handler /\ k = Depth - 1)
    <3>1. calls'[k] = calls[k] /\ (k = Depth - 1 => calls[k].step = "body")
      BY <1>4, <1>5, <2>3
    <3> QED
      BY <2>1, <3>1
  <2> QED
    BY <2>2, <2>3
<1> HIDE DEF d
<1>7. calls' \in Seq(Call) /\ Len(calls') = Depth - 1
  <2>1. \A k \in DOMAIN Popped : calls'[k] \in Call
    BY <1>3, <1>6
  <2> QED
    BY <1>3, <1>4, <2>1, SameLength
<1>8. CallsFit(calls', registered_events, bBypassRegisteredEvent)
  BY <1>4, <1>6 DEF CallsFit
<1>9. Nested(calls')
  BY <1>1, <1>4, <1>6, <1>7 DEF Nested
<1> QED
  BY <1>1, <1>7, <1>8, <1>9

LEMMA Replaced ==
  ASSUME NEW S, NEW s \in Seq(S), NEW n, NEW x \in S
  PROVE  [s EXCEPT ![n] = x] \in Seq(S)
<1> DEFINE t == [s EXCEPT ![n] = x]
<1>1. /\ DOMAIN t = DOMAIN s /\ t = [k \in DOMAIN t |-> t[k]]
      /\ \A k \in DOMAIN s : t[k] = IF k = n THEN x ELSE s[k]
  OBVIOUS
<1> HIDE DEF t
<1>2. \A k \in DOMAIN s : t[k] \in S
  BY <1>1
<1>3. t \in Seq(S)
  BY <1>1, <1>2, SameLength
<1> QED
  BY <1>3 DEF t

\* While a script runs, the calls below it run one, or wait for one registered.
LEMMA RunningCalls ==
  ASSUME IInv, Running
  PROVE  /\ Depth > 0
         /\ \A k \in DOMAIN calls :
              /\ calls[k] \in Call
              /\ Fit(calls[k], registered_events[calls[k].script], bBypassRegisteredEvent)
              /\ calls[k].step \in {"handler", "body"}
<1>1. Depth \in Nat /\ Depth > 0 /\ DOMAIN calls = 1..Depth /\ Len(calls) = Depth
      /\ calls[Depth].step = "body"
  BY InnermostCall DEF IInv, Running, Depth, Innermost
<1>2. \A k \in DOMAIN calls :
        /\ calls[k] \in Call
        /\ Fit(calls[k], registered_events[calls[k].script], bBypassRegisteredEvent)
  BY DEF IInv, TypeOK, CallsFit
<1>3. \A k \in DOMAIN calls : calls[k].step \in {"handler", "body"}
  <2>1. \A k \in DOMAIN calls : k = Depth \/ k < Len(calls)
    BY <1>1
  <2> QED
    BY <1>1, <2>1 DEF IInv, Nested
<1> QED
  BY <1>1, <1>2, <1>3

-----------------------------------------------------------------------------
\* What the actions leave of the invariant.
LEMMA ThrowKeeps ==
  ASSUME IInv, Throw
  PROVE  IInv'
<1>1. << >> \in Seq(Call) /\ << >> \in Seq(Scripts)
  OBVIOUS
<1>2. <<InitialResult>> \in Seq(Results \union {NoResult})
  BY ScriptMachineAssumption
<1>3. TypeOK'
  BY <1>1, <1>2 DEF IInv, TypeOK, Throw
<1>4. Nested(calls') /\ CallsFit(calls', registered_events', bBypassRegisteredEvent')
  BY DEF Throw, Nested, CallsFit
<1> QED
  BY <1>3, <1>4 DEF IInv, NoScriptTwice, Throw

LEMMA CallKeeps ==
  ASSUME IInv, MayCall, NEW s \in Scripts, NEW slot \in BOOLEAN, NEW event \in BOOLEAN,
         RunScript(s, calls, slot, FALSE, event),
         running_events' \in Seq(Results \union {NoResult}),
         UNCHANGED <<server_up, registered_events, last_script_ran>>
  PROVE  IInv'
<1>1. \A k \in DOMAIN calls :
        /\ k < Len(calls) => calls[k].step \in {"handler", "body"}
        /\ k < Len(calls) => (calls[k].step = "handler" <=> calls[k + 1].handler = TRUE)
        /\ k = Len(calls) => calls[k].step = "body"
  <2>1. calls \in Seq(Call)
    BY DEF IInv, TypeOK
  <2>2. Depth = 0 \/ Running
    BY DEF MayCall
  <2> QED
    BY <2>1, <2>2 DEF IInv, Nested, Running, Depth, Innermost
<1>2. /\ calls' \in Seq(Call) /\ bBypassRegisteredEvent' \in BOOLEAN
      /\ Nested(calls')
      /\ CallsFit(calls', registered_events, bBypassRegisteredEvent')
  <2>1. calls \in Seq(Call) /\ TypeOK
        /\ CallsFit(calls, registered_events, bBypassRegisteredEvent)
    BY DEF IInv, TypeOK
  <2> QED
    BY <1>1, <2>1, RunScriptFits
<1>3. TypeOK'
  BY <1>2 DEF IInv, TypeOK
<1> QED
  BY <1>2, <1>3 DEF IInv, NoScriptTwice

LEMMA ExecuteKeeps ==
  ASSUME IInv, NEW s \in Scripts, NEW slot \in BOOLEAN, Execute(s, slot)
  PROVE  IInv'
<1>1. running_events' \in Seq(Results \union {NoResult})
  BY DEF IInv, TypeOK, Execute
<1> QED
  BY <1>1, CallKeeps DEF Execute

LEMMA RunEventKeeps ==
  ASSUME IInv, NEW s \in Scripts, RunEvent(s)
  PROVE  IInv'
<1>1. running_events' \in Seq(Results \union {NoResult})
  BY Appended DEF IInv, TypeOK, RunEvent
<1> QED
  BY <1>1, CallKeeps DEF RunEvent

LEMMA SituationKeeps ==
  ASSUME IInv, NEW s \in Scripts, RunScriptSituation(s)
  PROVE  IInv'
<1> DEFINE c == [NewCall(s, FALSE, FALSE, FALSE) EXCEPT !.step = "body", !.next = 0]
<1>1. c \in Call /\ c.step = "body" /\ calls' = <<c>>
  <2>1. << >> \in Seq(Scripts)
    OBVIOUS
  <2> QED
    BY <2>1 DEF NewCall, Call, RunScriptSituation
<1> HIDE DEF c
<1>2. calls' \in Seq(Call) /\ Len(calls') = 1 /\ DOMAIN calls' = {1} /\ calls'[1] = c
  BY <1>1
<1>3. last_script_ran' \in Seq(Scripts)
  BY Appended DEF IInv, TypeOK, RunScriptSituation
<1>4. TypeOK'
  BY <1>2, <1>3 DEF IInv, TypeOK, RunScriptSituation
<1>5. Nested(calls')
  BY <1>1, <1>2 DEF Nested
<1>6. CallsFit(calls', registered_events', bBypassRegisteredEvent')
  BY <1>1, <1>2, BodyFits DEF CallsFit
<1> QED
  BY <1>4, <1>5, <1>6 DEF IInv, NoScriptTwice, RunScriptSituation

LEMMA RunRegisteredKeeps ==
  ASSUME IInv, RunRegistered
  PROVE  IInv'
<1> DEFINE c == Innermost
           list == registered_events[c.script]
           h == list[c.next]
           ran == IF c.changed THEN c.ran ELSE Append(c.ran, list[c.next])
           d == Began(c, ran)
           below == [calls EXCEPT ![Depth] = d]
<1>1. CASE Throw
  BY <1>1, ThrowKeeps
<1>2. CASE ~Throw
  <2>1. /\ Depth > 0 /\ c.step = "next" /\ c.next > 0 /\ c.next <= Len(list)
        /\ RunScript(h, below, FALSE, TRUE, FALSE)
        /\ UNCHANGED <<server_up, registered_events, running_events, last_script_ran>>
    BY <1>2 DEF RunRegistered, Began
  <2>2. /\ Depth \in Nat /\ DOMAIN calls = 1..Depth /\ Depth \in DOMAIN calls
        /\ Len(calls) = Depth /\ c \in Call /\ calls[Depth] = c
    BY <2>1, InnermostCall DEF IInv, Depth, Innermost
  <2>3. c.script \in Scripts /\ c.next \in Nat /\ list \in Seq(Scripts)
    BY <2>2 DEF Call, IInv, TypeOK
  <2>4. h \in Scripts
    BY <2>1, <2>3
  <2>5. Fit(c, list, bBypassRegisteredEvent)
    BY <2>2 DEF IInv, CallsFit
  <2>6. /\ d \in Call /\ Fit(d, list, bBypassRegisteredEvent) /\ d.script = c.script
        /\ d.handler = c.handler /\ d.step = "handler"
    <3>1. c.step = "next" /\ c.next > 0 /\ c.next <= Len(list)
      BY <2>1
    <3>2. ran = IF c.changed THEN c.ran ELSE Append(c.ran, list[c.next])
      OBVIOUS
    <3> HIDE DEF c, list, ran
    <3>3. list \in Seq(Scripts)
      BY <2>3
    <3>4. d \in Call
      BY <3>1, <3>2, <3>3, <2>2, <2>5, HandlerFits
    <3>5. Fit(d, list, bBypassRegisteredEvent)
      BY <3>1, <3>2, <3>3, <2>2, <2>5, HandlerFits
    <3>6. d.script = c.script /\ d.handler = c.handler /\ d.step = "handler"
      BY <2>2 DEF Call, Began
    <3> QED
      BY <3>4, <3>5, <3>6
  <2> HIDE DEF c, h, d
  <2>7. /\ DOMAIN below = DOMAIN calls /\ below[Depth] = d
        /\ below = [k \in DOMAIN below |-> below[k]]
        /\ \A k \in DOMAIN calls : k # Depth => below[k] = calls[k]
    BY <2>2
  <2> HIDE DEF below
  <2>8. calls \in Seq(Call) /\ \A k \in DOMAIN calls : calls[k] \in Call
    BY DEF IInv, TypeOK
  <2>9. \A k \in DOMAIN calls : below[k] \in Call
    BY <2>6, <2>7, <2>8
  <2>10. below \in Seq(Call) /\ Len(below) = Depth
    BY <2>2, <2>7, <2>8, <2>9, SameLength
  <2>11. CallsFit(below, registered_events, bBypassRegisteredEvent)
    <3>1. CallsFit(calls, registered_events, bBypassRegisteredEvent)
      BY DEF IInv
    <3> QED
      BY <3>1, <2>6, <2>7 DEF CallsFit
  <2>12. \A k \in DOMAIN below :
          /\ k < Len(below) => below[k].step \in {"handler", "body"}
          /\ k < Len(below) => (below[k].step = "handler" <=> below[k + 1].handler = TRUE)
          /\ k = Len(below) => below[k].step = "handler"
    <3>1. Nested(calls)
      BY DEF IInv
    <3>2. \A k \in DOMAIN calls : below[k].handler = calls[k].handler
      BY <2>2, <2>6, <2>7
    <3> QED
      BY <3>1, <3>2, <2>2, <2>6, <2>7, <2>10 DEF Nested
  <2>13. /\ calls' \in Seq(Call) /\ bBypassRegisteredEvent' \in BOOLEAN
         /\ Nested(calls')
         /\ CallsFit(calls', registered_events, bBypassRegisteredEvent')
    <3>1. TypeOK
      BY DEF IInv
    <3> QED
      BY <3>1, <2>1, <2>4, <2>10, <2>11, <2>12, RunScriptFits
  <2>14. TypeOK'
    BY <2>1, <2>13 DEF IInv, TypeOK
  <2> QED
    BY <2>1, <2>13, <2>14 DEF IInv, NoScriptTwice
<1> QED
  BY <1>1, <1>2

LEMMA ReturnKeeps ==
  ASSUME IInv, Depth > 0, Return, last_script_ran' \in Seq(Scripts)
  PROVE  IInv' /\ Len(calls') = Len(calls) - 1
<1>1. /\ calls' \in Seq(Call) /\ Len(calls') = Len(calls) - 1 /\ Nested(calls')
      /\ CallsFit(calls', registered_events, bBypassRegisteredEvent)
  BY ReturnFits DEF IInv
<1>2. running_events' \in Seq(Results \union {NoResult})
  <2>1. running_events \in Seq(Results \union {NoResult})
    BY DEF IInv, TypeOK
  <2> DEFINE S == Results \union {NoResult}
  <2> HIDE DEF S
  <2>2. SubSeq(running_events, 1, Len(running_events) - 1) \in Seq(S)
    BY <2>1, ShortenedType DEF S
  <2> QED
    BY <2>1, <2>2 DEF Return, S
<1>3. TypeOK'
  BY <1>1, <1>2 DEF IInv, TypeOK, Return
<1> QED
  BY <1>1, <1>3 DEF IInv, NoScriptTwice, Return

LEMMA AfterRegisteredKeeps ==
  ASSUME IInv, AfterRegistered
  PROVE  IInv'
<1>1. CASE bBypassRegisteredEvent
  <2>1. Depth > 0 /\ Return /\ last_script_ran' \in Seq(Scripts)
    BY <1>1 DEF AfterRegistered, IInv, TypeOK
  <2> QED
    BY <2>1, ReturnKeeps
<1>2. CASE ~bBypassRegisteredEvent
  <2>1. /\ Depth > 0 /\ Innermost.step = "returned"
        /\ calls' = [calls EXCEPT ![Depth].step = "next", ![Depth].next = @ - 1]
        /\ UNCHANGED <<server_up, registered_events, bBypassRegisteredEvent,
                       running_events, last_script_ran>>
    BY <1>2 DEF AfterRegistered
  <2>2. /\ Depth \in Nat /\ DOMAIN calls = 1..Depth /\ Depth \in DOMAIN calls
        /\ Innermost \in Call /\ calls[Depth] = Innermost
    BY <2>1, InnermostCall DEF IInv, Innermost
  <2>3. calls' = [calls EXCEPT ![Depth] = Continued(Innermost)]
    BY <2>1, <2>2 DEF Continued
  <2>4. /\ Innermost.script \in Scripts
        /\ registered_events[Innermost.script] \in Seq(Scripts)
        /\ bBypassRegisteredEvent \in BOOLEAN
    BY <2>2 DEF IInv, TypeOK, Call
  <2>5. Fit(Innermost, registered_events[Innermost.script], bBypassRegisteredEvent)
    BY <2>2 DEF IInv, CallsFit
  <2> DEFINE d == Continued(Innermost)
  <2>6. d \in Call /\ Fit(d, registered_events[Innermost.script], bBypassRegisteredEvent)
    BY <1>2, <2>1, <2>2, <2>4, <2>5, NextFits
  <2>7. d.script = Innermost.script /\ d.handler = Innermost.handler /\ d.step = "next"
    BY <2>2 DEF Call, Continued
  <2> HIDE DEF d
  <2>8. calls' = [calls EXCEPT ![Depth] = d]
    BY <2>3 DEF d
  <2>9. /\ calls' \in Seq(Call) /\ Nested(calls')
        /\ CallsFit(calls', registered_events, bBypassRegisteredEvent)
    BY <2>1, <2>6, <2>7, <2>8, InnermostFits DEF IInv
  <2>10. TypeOK'
    BY <2>1, <2>9 DEF IInv, TypeOK
  <2> QED
    BY <2>1, <2>9, <2>10 DEF IInv, NoScriptTwice
<1> QED
  BY <1>1, <1>2

LEMMA RunBodyKeeps ==
  ASSUME IInv, RunBody
  PROVE  IInv'
<1> DEFINE c == Innermost
           d == [c EXCEPT !.step = "body", !.script = c.name, !.vector_gone = FALSE,
                          !.ran = << >>, !.changed = FALSE, !.bypass = "none"]
<1>1. CASE Throw
  BY <1>1, ThrowKeeps
<1>2. CASE ~Throw
  <2>1. /\ Depth > 0 /\ c.name # NoScript
        /\ last_script_ran' = Append(last_script_ran, c.name)
        /\ calls' = [calls EXCEPT ![Depth] = d]
        /\ UNCHANGED <<server_up, registered_events, bBypassRegisteredEvent, running_events>>
    BY <1>2 DEF RunBody
  <2>2. c \in Call
    BY <2>1, InnermostCall DEF IInv
  <2>3. c.name \in Scripts /\ << >> \in Seq(Scripts)
    BY <2>1, <2>2 DEF Call
  <2>4. d \in Call /\ d.handler = c.handler /\ d.step = "body"
    <3> HIDE DEF c
    <3> QED
      BY <2>2, <2>3 DEF Call
  <2>5. last_script_ran' \in Seq(Scripts)
    BY <2>1, <2>3, Appended DEF IInv, TypeOK
  <2> HIDE DEF d
  <2>6. Fit(d, registered_events[d.script], bBypassRegisteredEvent)
    BY <2>4, BodyFits
  <2>7. /\ calls' \in Seq(Call) /\ Nested(calls')
        /\ CallsFit(calls', registered_events, bBypassRegisteredEvent)
    BY <2>1, <2>4, <2>6, InnermostFits DEF IInv
  <2>8. TypeOK'
    BY <2>1, <2>5, <2>7 DEF IInv, TypeOK
  <2> QED
    BY <2>1, <2>7, <2>8 DEF IInv, NoScriptTwice
<1> QED
  BY <1>1, <1>2

LEMMA ScriptEndsKeeps ==
  ASSUME IInv, ScriptEnds
  PROVE  IInv'
<1>1. last_script_ran' \in Seq(Scripts)
  BY ShortenedType DEF IInv, TypeOK, ScriptEnds
<1>2. Depth > 0 /\ Return
  BY DEF ScriptEnds, Running
<1> QED
  BY <1>1, <1>2, ReturnKeeps

\* A list is changed under the calls that go through it.
LEMMA RelistKeeps ==
  ASSUME IInv, Running, NEW e \in Scripts, NEW list \in Seq(Scripts), IsInjective(list),
         NEW emptied \in BOOLEAN, emptied => Len(list) <= 1,
         registered_events' = [registered_events EXCEPT ![e] = list],
         calls' = Relisted(e, list, emptied),
         UNCHANGED <<server_up, bBypassRegisteredEvent, running_events, last_script_ran>>
  PROVE  IInv'
<1> DEFINE events == [registered_events EXCEPT ![e] = list]
           cs == Relisted(e, list, emptied)
           old == registered_events[e]
<1>1. /\ DOMAIN cs = DOMAIN calls /\ cs = [k \in DOMAIN cs |-> cs[k]]
      /\ \A k \in DOMAIN calls :
           cs[k] = IF calls[k].script # e \/ calls[k].step = "body" THEN calls[k]
                   ELSE Now(calls[k], old, list, emptied)
  BY DEF Relisted, Now
<1>2. events \in [Scripts -> Seq(Scripts)] /\ events[e] = list
      /\ \A s \in Scripts : s # e => events[s] = registered_events[s]
  BY DEF IInv, TypeOK
<1> HIDE DEF cs, events, old
<1>3. \A k \in DOMAIN calls :
        /\ cs[k] \in Call /\ Fit(cs[k], events[cs[k].script], bBypassRegisteredEvent)
        /\ cs[k].step = calls[k].step /\ cs[k].handler = calls[k].handler
  <2> SUFFICES ASSUME NEW k \in DOMAIN calls
               PROVE  /\ cs[k] \in Call
                      /\ Fit(cs[k], events[cs[k].script], bBypassRegisteredEvent)
                      /\ cs[k].step = calls[k].step /\ cs[k].handler = calls[k].handler
    OBVIOUS
  <2>1. /\ calls[k] \in Call /\ calls[k].script \in Scripts
        /\ Fit(calls[k], registered_events[calls[k].script], bBypassRegisteredEvent)
        /\ calls[k].step \in {"handler", "body"}
    BY RunningCalls DEF Call
  <2>2. CASE calls[k].step = "body"
    BY <1>1, <2>1, <2>2, BodyFits
  <2>3. CASE calls[k].script # e
    BY <1>1, <1>2, <2>1, <2>3
  <2>4. CASE calls[k].step # "body" /\ calls[k].script = e
    <3>1. cs[k] = Now(calls[k], old, list, emptied) /\ calls[k].step = "handler"
          /\ Fit(calls[k], old, bBypassRegisteredEvent) /\ Len(list) \in Nat
      BY <1>1, <2>1, <2>4 DEF old
    <3>2. cs[k] \in Call
      <4> DEFINE gone == calls[k].vector_gone \/ emptied
      <4>1. gone \in BOOLEAN /\ << >> \in Seq(Scripts)
        OBVIOUS
      <4>2. cs[k] = [calls[k] EXCEPT !.vector_gone = gone]
            \/ cs[k] = [calls[k] EXCEPT !.vector_gone = gone, !.changed = TRUE, !.ran = << >>]
        BY <3>1 DEF Now
      <4> HIDE DEF gone
      <4>3. [calls[k] EXCEPT !.vector_gone = gone] \in Call
        BY <2>1, <4>1 DEF Call
      <4>4. [calls[k] EXCEPT !.vector_gone = gone, !.changed = TRUE, !.ran = << >>] \in Call
        BY <2>1, <4>1 DEF Call
      <4> QED
        BY <4>2, <4>3, <4>4
    <3>3. Fit(cs[k], list, bBypassRegisteredEvent)
      BY <2>1, <3>1, RelistedFits
    <3>4. /\ cs[k].script = calls[k].script /\ cs[k].handler = calls[k].handler
          /\ cs[k].step = calls[k].step
      BY <2>1, <3>1 DEF Now, Call
    <3> QED
      BY <1>2, <2>4, <3>1, <3>2, <3>3, <3>4
  <2> QED
    BY <2>2, <2>3, <2>4
<1>4. cs \in Seq(Call) /\ Nested(cs) /\ CallsFit(cs, events, bBypassRegisteredEvent)
  BY <1>1, <1>3, MappedFit DEF IInv
<1>5. calls' = cs /\ registered_events' = events
  BY DEF cs, events
<1>6. TypeOK'
  BY <1>2, <1>4, <1>5 DEF IInv, TypeOK
<1>7. NoScriptTwice'
  BY <1>2, <1>5 DEF IInv, NoScriptTwice
<1> QED
  BY <1>4, <1>5, <1>6, <1>7 DEF IInv

LEMMA RegisterKeeps ==
  ASSUME IInv, NEW e \in Scripts, NEW h \in Scripts, RegisterEvent(e, h)
  PROVE  IInv'
<1> DEFINE erased == Erased(registered_events[e], h)
           list == Append(erased, h)
           emptied == erased = << >>
<1>1. registered_events[e] \in Seq(Scripts) /\ IsInjective(registered_events[e])
  BY DEF IInv, TypeOK, NoScriptTwice
<1>2. /\ erased \in Seq(Scripts) /\ IsInjective(erased)
      /\ \A i \in DOMAIN erased : erased[i] # h
  BY <1>1, ErasedList
<1>3. /\ Running /\ registered_events' = [registered_events EXCEPT ![e] = list]
      /\ calls' = Relisted(e, list, emptied)
      /\ UNCHANGED <<server_up, bBypassRegisteredEvent, running_events, last_script_ran>>
  BY DEF RegisterEvent
<1> HIDE DEF erased
<1>4. list \in Seq(Scripts) /\ IsInjective(list)
  BY <1>2, RegisteredList
<1>5. emptied \in BOOLEAN /\ (emptied => Len(list) <= 1)
  BY <1>2
<1> HIDE DEF list, emptied
<1> QED
  BY <1>3, <1>4, <1>5, RelistKeeps

LEMMA UnregisterKeeps ==
  ASSUME IInv, NEW e \in Scripts, NEW h \in Scripts, UnregisterEvent(e, h)
  PROVE  IInv'
<1> DEFINE erased == Erased(registered_events[e], h)
           emptied == erased = << >>
<1>1. registered_events[e] \in Seq(Scripts) /\ IsInjective(registered_events[e])
  BY DEF IInv, TypeOK, NoScriptTwice
<1>2. erased \in Seq(Scripts) /\ IsInjective(erased)
  BY <1>1, ErasedList
<1>3. /\ Running /\ registered_events' = [registered_events EXCEPT ![e] = erased]
      /\ calls' = Relisted(e, erased, emptied)
      /\ UNCHANGED <<server_up, bBypassRegisteredEvent, running_events, last_script_ran>>
  BY DEF UnregisterEvent
<1> HIDE DEF erased
<1>4. emptied \in BOOLEAN /\ (emptied => Len(erased) <= 1)
  BY <1>2
<1> HIDE DEF emptied
<1> QED
  BY <1>2, <1>3, <1>4, RelistKeeps

LEMMA BypassKeeps ==
  ASSUME IInv, ByPassRegisteredEvent
  PROVE  IInv'
<1> DEFINE cs == [k \in DOMAIN calls |->
                    IF calls[k].step # "body" /\ calls[k].bypass = "none"
                    THEN [calls[k] EXCEPT !.bypass = "own"] ELSE calls[k]]
<1>1. /\ DOMAIN cs = DOMAIN calls /\ cs = [k \in DOMAIN cs |-> cs[k]]
      /\ \A k \in DOMAIN calls : cs[k] = Asked(calls[k])
  BY DEF Asked
<1>2. Running /\ calls' = cs /\ bBypassRegisteredEvent' = TRUE
      /\ UNCHANGED <<server_up, registered_events, running_events, last_script_ran>>
  BY DEF ByPassRegisteredEvent
<1> HIDE DEF cs
<1>3. \A k \in DOMAIN calls :
        /\ cs[k] \in Call /\ Fit(cs[k], registered_events[cs[k].script], TRUE)
        /\ cs[k].step = calls[k].step /\ cs[k].handler = calls[k].handler
  <2> SUFFICES ASSUME NEW k \in DOMAIN calls
               PROVE  /\ cs[k] \in Call /\ Fit(cs[k], registered_events[cs[k].script], TRUE)
                      /\ cs[k].step = calls[k].step /\ cs[k].handler = calls[k].handler
    OBVIOUS
  <2>1. /\ calls[k] \in Call
        /\ Fit(calls[k], registered_events[calls[k].script], bBypassRegisteredEvent)
    BY <1>2, RunningCalls
  <2>2. cs[k] = Asked(calls[k])
    BY <1>1
  <2>3. cs[k] \in Call /\ Fit(cs[k], registered_events[calls[k].script], TRUE)
    BY <2>1, <2>2, BypassFits
  <2>4. /\ cs[k].script = calls[k].script /\ cs[k].handler = calls[k].handler
        /\ cs[k].step = calls[k].step
    BY <2>1, <2>2 DEF Asked, Call
  <2> QED
    BY <2>3, <2>4
<1>4. cs \in Seq(Call) /\ Nested(cs) /\ CallsFit(cs, registered_events, TRUE)
  BY <1>1, <1>3, MappedFit DEF IInv
<1>5. TypeOK'
  BY <1>2, <1>4 DEF IInv, TypeOK
<1> QED
  BY <1>2, <1>4, <1>5 DEF IInv, NoScriptTwice

LEMMA SetResultKeeps ==
  ASSUME IInv, NEW r \in Results, SetResult(r)
  PROVE  IInv'
<1> DEFINE Outermost(k) == k \in Events /\ \A j \in Events : j <= k
           cs == [k \in DOMAIN calls |->
                    IF Outermost(k) THEN [calls[k] EXCEPT !.result = r] ELSE calls[k]]
<1>1. /\ DOMAIN cs = DOMAIN calls /\ cs = [k \in DOMAIN cs |-> cs[k]]
      /\ \A k \in DOMAIN calls :
           cs[k] = calls[k] \/ cs[k] = [calls[k] EXCEPT !.result = r]
  OBVIOUS
<1>2. /\ Running /\ calls' = cs
      /\ running_events' = [running_events EXCEPT ![Len(running_events)] = r]
      /\ UNCHANGED <<server_up, registered_events, bBypassRegisteredEvent, last_script_ran>>
  BY DEF SetResult
<1> HIDE DEF cs, Outermost
<1>3. \A k \in DOMAIN calls :
        /\ cs[k] \in Call
        /\ Fit(cs[k], registered_events[cs[k].script], bBypassRegisteredEvent)
        /\ cs[k].step = calls[k].step /\ cs[k].handler = calls[k].handler
  <2> SUFFICES ASSUME NEW k \in DOMAIN calls
               PROVE  /\ cs[k] \in Call
                      /\ Fit(cs[k], registered_events[cs[k].script], bBypassRegisteredEvent)
                      /\ cs[k].step = calls[k].step /\ cs[k].handler = calls[k].handler
    OBVIOUS
  <2>1. /\ calls[k] \in Call
        /\ Fit(calls[k], registered_events[calls[k].script], bBypassRegisteredEvent)
    BY <1>2, RunningCalls
  <2> QED
    BY <1>1, <2>1, ResultFits
<1>4. cs \in Seq(Call) /\ Nested(cs) /\ CallsFit(cs, registered_events, bBypassRegisteredEvent)
  BY <1>1, <1>3, MappedFit DEF IInv
<1>5. running_events' \in Seq(Results \union {NoResult})
  BY <1>2, Replaced DEF IInv, TypeOK
<1>6. TypeOK'
  BY <1>2, <1>4, <1>5 DEF IInv, TypeOK
<1> QED
  BY <1>2, <1>4, <1>6 DEF IInv, NoScriptTwice

LEMMA SetScriptKeeps ==
  ASSUME IInv, NEW s \in Scripts \union {NoScript}, SetScript(s)
  PROVE  IInv'
<1> DEFINE cs == [calls EXCEPT ![1].name = s]
<1>1. Running /\ calls' = cs
      /\ UNCHANGED <<server_up, registered_events, bBypassRegisteredEvent, running_events,
                     last_script_ran>>
  BY DEF SetScript
<1>2. /\ DOMAIN cs = DOMAIN calls /\ cs = [k \in DOMAIN cs |-> cs[k]]
      /\ \A k \in DOMAIN calls : cs[k] = calls[k] \/ cs[k] = [calls[k] EXCEPT !.name = s]
  OBVIOUS
<1> HIDE DEF cs
<1>3. \A k \in DOMAIN calls :
        /\ cs[k] \in Call
        /\ Fit(cs[k], registered_events[cs[k].script], bBypassRegisteredEvent)
        /\ cs[k].step = calls[k].step /\ cs[k].handler = calls[k].handler
  <2> SUFFICES ASSUME NEW k \in DOMAIN calls
               PROVE  /\ cs[k] \in Call
                      /\ Fit(cs[k], registered_events[cs[k].script], bBypassRegisteredEvent)
                      /\ cs[k].step = calls[k].step /\ cs[k].handler = calls[k].handler
    OBVIOUS
  <2>1. /\ calls[k] \in Call
        /\ Fit(calls[k], registered_events[calls[k].script], bBypassRegisteredEvent)
    BY <1>1, RunningCalls
  <2> QED
    BY <1>2, <2>1, NamedFits
<1>4. cs \in Seq(Call) /\ Nested(cs) /\ CallsFit(cs, registered_events, bBypassRegisteredEvent)
  BY <1>2, <1>3, MappedFit DEF IInv
<1>5. TypeOK'
  BY <1>1, <1>4 DEF IInv, TypeOK
<1> QED
  BY <1>1, <1>4, <1>5 DEF IInv, NoScriptTwice

LEMMA InitHolds == Init => IInv
<1> SUFFICES ASSUME Init PROVE IInv
  OBVIOUS
<1>1. << >> \in Seq(Scripts) /\ << >> \in Seq(Call)
  OBVIOUS
<1>2. <<InitialResult>> \in Seq(Results \union {NoResult})
  BY ScriptMachineAssumption
<1>3. TypeOK
  BY <1>1, <1>2 DEF Init, TypeOK
<1>4. NoScriptTwice
  BY DEF Init, NoScriptTwice, IsInjective
<1>5. Nested(calls) /\ CallsFit(calls, registered_events, bBypassRegisteredEvent)
  BY DEF Init, Nested, CallsFit
<1> QED
  BY <1>3, <1>4, <1>5 DEF IInv

LEMMA StepKeeps == IInv /\ [Next]_vars => IInv'
<1> SUFFICES ASSUME IInv, [Next]_vars PROVE IInv'
  OBVIOUS
<1>1. ASSUME NEW s \in Scripts, NEW slot \in BOOLEAN, Execute(s, slot) PROVE IInv'
  BY <1>1, ExecuteKeeps
<1>2. ASSUME NEW s \in Scripts, RunEvent(s) PROVE IInv'
  BY <1>2, RunEventKeeps
<1>3. ASSUME NEW s \in Scripts, RunScriptSituation(s) PROVE IInv'
  BY <1>3, SituationKeeps
<1>4. ASSUME NEW s \in Scripts, NEW h \in Scripts, RegisterEvent(s, h) PROVE IInv'
  BY <1>4, RegisterKeeps
<1>5. ASSUME NEW s \in Scripts, NEW h \in Scripts, UnregisterEvent(s, h) PROVE IInv'
  BY <1>5, UnregisterKeeps
<1>6. CASE RunRegistered
  BY <1>6, RunRegisteredKeeps
<1>7. CASE AfterRegistered
  BY <1>7, AfterRegisteredKeeps
<1>8. CASE RunBody
  BY <1>8, RunBodyKeeps
<1>9. CASE ScriptEnds
  BY <1>9, ScriptEndsKeeps
<1>10. CASE ByPassRegisteredEvent
  BY <1>10, BypassKeeps
<1>11. ASSUME NEW r \in Results, SetResult(r) PROVE IInv'
  BY <1>11, SetResultKeeps
<1>12. ASSUME NEW s \in Scripts \union {NoScript}, SetScript(s) PROVE IInv'
  BY <1>12, SetScriptKeeps
<1>13. CASE UNCHANGED vars
  BY <1>13 DEF vars, IInv, TypeOK, NoScriptTwice
<1> QED
  BY <1>1, <1>2, <1>3, <1>4, <1>5, <1>6, <1>7, <1>8, <1>9, <1>10, <1>11, <1>12, <1>13 DEF Next

LEMMA Inductive == Spec => []IInv
BY InitHolds, StepKeeps, PTL DEF Spec

\* Only the loop ends the server, reading a vector or a name that is gone.
LEMMA OnlyTheLoopThrows ==
  ASSUME [Next]_vars, server_up, ~server_up'
  PROVE  RunRegistered \/ RunBody
<1>1. Next
  BY DEF vars
<1>2. CASE \E s \in Scripts :
             \/ \E slot \in BOOLEAN : Execute(s, slot)
             \/ RunEvent(s)
             \/ RunScriptSituation(s)
             \/ \E h \in Scripts : RegisterEvent(s, h) \/ UnregisterEvent(s, h)
  BY <1>2 DEF Execute, RunEvent, RunScriptSituation, RegisterEvent, UnregisterEvent
<1>3. CASE AfterRegistered \/ ScriptEnds
  BY <1>3 DEF AfterRegistered, ScriptEnds, Return
<1>4. CASE \/ ByPassRegisteredEvent
           \/ \E r \in Results : SetResult(r)
           \/ \E s \in Scripts \union {NoScript} : SetScript(s)
  BY <1>4 DEF ByPassRegisteredEvent, SetResult, SetScript
<1> QED
  BY <1>1, <1>2, <1>3, <1>4 DEF Next

-----------------------------------------------------------------------------
\* The stacks.

\* A stack does not depend on what the calls keep besides.
LEMMA StackKept ==
  ASSUME NEW stack, NEW below, NEW item, IsStack(stack, below, item),
         NEW other, DOMAIN other = DOMAIN item, \A k \in DOMAIN item : other[k] = item[k]
  PROVE  IsStack(stack, below, other)
BY DEF IsStack

\* The places of the stack: a call's is that of no earlier call and within the stack.
LEMMA PlaceOnStack ==
  ASSUME NEW n \in Nat, NEW ks \in SUBSET (1..n), NEW k \in ks
  PROVE  /\ IsFiniteSet(ks) /\ Cardinality(ks) \in Nat
         /\ Cardinality({j \in ks : j <= k}) \in 1..Cardinality(ks)
<1> DEFINE upto == {j \in ks : j <= k}
<1>1. IsFiniteSet(ks)
  <2>1. IsFiniteSet(1..n)
    BY FS_Interval
  <2> QED
    BY <2>1, FS_Subset
<1>2. upto \subseteq ks /\ k \in upto
  OBVIOUS
<1> HIDE DEF upto
<1>3. IsFiniteSet(upto) /\ Cardinality(upto) <= Cardinality(ks)
  BY <1>1, <1>2, FS_Subset
<1>4. Cardinality(upto) \in Nat /\ Cardinality(ks) \in Nat
  BY <1>1, <1>3, FS_CardinalityType
<1>5. Cardinality(upto) # 0
  BY <1>2, <1>3, FS_EmptySet
<1> QED
  BY <1>1, <1>3, <1>4, <1>5 DEF upto

LEMMA CountedCalls ==
  ASSUME NEW n \in Nat, NEW ks \in SUBSET (1..n)
  PROVE  IsFiniteSet(ks) /\ Cardinality(ks) \in Nat
<1>1. IsFiniteSet(1..n)
  BY FS_Interval
<1>2. IsFiniteSet(ks)
  BY <1>1, FS_Subset
<1> QED
  BY <1>2, FS_CardinalityType

\* A call that is the last puts its item on top.
LEMMA StackPushed ==
  ASSUME NEW S, NEW stack \in Seq(S), NEW x \in S, NEW below \in Nat, NEW n \in Nat,
         NEW item, DOMAIN item \subseteq 1..n, IsStack(stack, below, item),
         NEW other, DOMAIN other = DOMAIN item \union {n + 1},
         \A k \in DOMAIN item : other[k] = item[k], other[n + 1] = x
  PROVE  IsStack(Append(stack, x), below, other)
<1> DEFINE ks == DOMAIN item
           ms == DOMAIN other
           new == Append(stack, x)
           upto(k) == {j \in ms : j <= k}
<1>1. IsFiniteSet(ks) /\ Cardinality(ks) \in Nat /\ n + 1 \notin ks
  <2>1. n + 1 \notin ks
    OBVIOUS
  <2> QED
    BY <2>1, CountedCalls
<1>2. Cardinality(ms) = Cardinality(ks) + 1
  BY <1>1, FS_AddElement
<1>3. Len(stack) = below + Cardinality(ks) /\ Len(stack) \in Nat
  BY DEF IsStack
<1>4. /\ Len(new) = Len(stack) + 1 /\ new[Len(stack) + 1] = x
      /\ \A i \in 1..Len(stack) : new[i] = stack[i]
  BY <1>3, Appended
<1>5. \A k \in ks : upto(k) = {j \in ks : j <= k}
  OBVIOUS
<1>6. upto(n + 1) = ms
  OBVIOUS
<1>7. ASSUME NEW k \in ks
      PROVE  new[below + Cardinality(upto(k))] = other[k]
  <2>1. upto(k) = {j \in ks : j <= k}
    BY <1>5
  <2>2. Cardinality({j \in ks : j <= k}) \in 1..Cardinality(ks)
    BY PlaceOnStack
  <2>3. stack[below + Cardinality({j \in ks : j <= k})] = item[k]
    BY DEF IsStack
  <2> DEFINE place == Cardinality({j \in ks : j <= k})
  <2> HIDE DEF place, ks, new
  <2>4. below + place \in 1..Len(stack)
    BY <1>1, <1>3, <2>2 DEF place
  <2>5. new[below + place] = item[k]
    BY <1>4, <2>3, <2>4 DEF place
  <2> QED
    BY <2>1, <2>5 DEF place, ks
<1>8. new[below + Cardinality(upto(n + 1))] = other[n + 1]
  <2>1. below + Cardinality(ms) = Len(stack) + 1
    BY <1>1, <1>2, <1>3
  <2> QED
    BY <1>4, <1>6, <2>1
<1>9. Len(new) = below + Cardinality(ms)
  BY <1>1, <1>2, <1>3, <1>4
<1> HIDE DEF new
<1>10. \A k \in ms : new[below + Cardinality({j \in ms : j <= k})] = other[k]
  BY <1>7, <1>8
<1> QED
  BY <1>9, <1>10 DEF IsStack, new

\* The last call's item is the one on top, which goes with it.
LEMMA StackPopped ==
  ASSUME NEW S, NEW stack \in Seq(S), NEW below \in Nat, NEW n \in Nat, n > 0,
         NEW item, DOMAIN item \subseteq 1..n, n \in DOMAIN item,
         IsStack(stack, below, item),
         NEW other, DOMAIN other = DOMAIN item \ {n},
         \A k \in DOMAIN other : other[k] = item[k]
  PROVE  IsStack(SubSeq(stack, 1, Len(stack) - 1), below, other)
<1> DEFINE ks == DOMAIN item
           ms == DOMAIN other
           new == SubSeq(stack, 1, Len(stack) - 1)
<1>1. IsFiniteSet(ks) /\ Cardinality(ks) \in Nat
  BY CountedCalls
<1>2. Cardinality(ms) = Cardinality(ks) - 1
  <2>1. ms = ks \ {n} /\ n \in ks
    OBVIOUS
  <2> HIDE DEF ks, ms
  <2> QED
    BY <1>1, <2>1, FS_RemoveElement
<1>3. Len(stack) = below + Cardinality(ks) /\ Len(stack) \in Nat
  BY DEF IsStack
<1>4. ms \in SUBSET (1..n) /\ Cardinality(ms) \in Nat
  BY CountedCalls
<1>5. Len(stack) > 0
  BY <1>1, <1>2, <1>3, <1>4
<1>6. Len(new) = Len(stack) - 1 /\ \A i \in 1..(Len(stack) - 1) : new[i] = stack[i]
  BY <1>5, Shortened
<1>7. ASSUME NEW k \in ms
      PROVE  new[below + Cardinality({j \in ms : j <= k})] = other[k]
  <2>1. {j \in ms : j <= k} = {j \in ks : j <= k}
    OBVIOUS
  <2>2. Cardinality({j \in ms : j <= k}) \in 1..Cardinality(ms)
    BY <1>4, PlaceOnStack
  <2>3. stack[below + Cardinality({j \in ks : j <= k})] = item[k]
    BY DEF IsStack
  <2> DEFINE place == Cardinality({j \in ms : j <= k})
  <2>4. stack[below + place] = item[k]
    BY <2>1, <2>3
  <2> HIDE DEF place, ms, ks, new
  <2>5. below + place \in 1..(Len(stack) - 1)
    BY <1>1, <1>2, <1>3, <2>2 DEF place
  <2>6. new[below + place] = item[k]
    BY <1>6, <2>4, <2>5
  <2> QED
    BY <2>6 DEF place, ms
<1>8. Len(new) = below + Cardinality(ms)
  BY <1>1, <1>2, <1>3, <1>6
<1> HIDE DEF new
<1> QED
  BY <1>7, <1>8 DEF IsStack, new

\* What is set on top of the stack is the item of the last call that has one.
LEMMA TopSet ==
  ASSUME NEW S, NEW stack \in Seq(S), NEW x \in S, NEW below \in Nat, NEW n \in Nat,
         NEW item, DOMAIN item \subseteq 1..n, IsStack(stack, below, item),
         NEW other, DOMAIN other = DOMAIN item,
         \A k \in DOMAIN item :
           other[k] = IF \A j \in DOMAIN item : j <= k THEN x ELSE item[k]
  PROVE  IsStack([stack EXCEPT ![Len(stack)] = x], below, other)
<1> DEFINE ks == DOMAIN item
           new == [stack EXCEPT ![Len(stack)] = x]
<1>1. IsFiniteSet(ks) /\ Cardinality(ks) \in Nat
  BY CountedCalls
<1>2. Len(stack) = below + Cardinality(ks) /\ Len(stack) \in Nat
  BY DEF IsStack
<1>3. /\ Len(new) = Len(stack)
      /\ \A i \in 1..Len(stack) : new[i] = IF i = Len(stack) THEN x ELSE stack[i]
  OBVIOUS
<1>4. ASSUME NEW k \in ks
      PROVE  new[below + Cardinality({j \in ks : j <= k})] = other[k]
  <2> DEFINE upto == {j \in ks : j <= k}
             place == Cardinality(upto)
  <2>1. place \in 1..Cardinality(ks)
    BY PlaceOnStack
  <2>2. stack[below + place] = item[k]
    BY DEF IsStack
  <2>3. CASE \A j \in ks : j <= k
    <3>1. upto = ks
      BY <2>3
    <3> HIDE DEF upto, new
    <3>2. below + place = Len(stack) /\ Len(stack) \in 1..Len(stack)
      BY <1>1, <1>2, <2>1, <3>1
    <3>3. new[below + place] = x
      BY <1>3, <3>2
    <3> QED
      BY <2>3, <3>3 DEF upto
  <2>4. CASE ~ \A j \in ks : j <= k
    <3>1. PICK m \in ks : ~(m <= k)
      BY <2>4
    <3>2. upto \subseteq ks \ {m}
      BY <3>1
    <3>3. IsFiniteSet(ks \ {m}) /\ Cardinality(ks \ {m}) = Cardinality(ks) - 1
      BY <1>1, FS_RemoveElement
    <3> HIDE DEF upto
    <3>4. place <= Cardinality(ks) - 1
      BY <3>2, <3>3, FS_Subset
    <3> HIDE DEF place, new
    <3>5. below + place \in 1..Len(stack) /\ below + place # Len(stack)
      BY <1>1, <1>2, <2>1, <3>4
    <3>6. new[below + place] = item[k]
      BY <1>3, <2>2, <3>5
    <3> QED
      BY <2>4, <3>6 DEF place, upto
  <2> QED
    BY <2>3, <2>4
<1>5. Len(new) = below + Cardinality(ks)
  BY <1>2, <1>3
<1> HIDE DEF new
<1> QED
  BY <1>4, <1>5 DEF IsStack, new

LEMMA ItemsWithin ==
  ASSUME NEW cs \in Seq(Call)
  PROVE  DOMAIN Names(cs) \subseteq 1..Len(cs) /\ DOMAIN Outcomes(cs) \subseteq 1..Len(cs)
BY DEF Names, Outcomes

\* What a call has on the stacks does not depend on its lists and flags.
LEMMA SameItems ==
  ASSUME NEW cs, NEW ds, DOMAIN ds = DOMAIN cs,
         \A k \in DOMAIN cs :
           /\ ds[k].step = "body" <=> cs[k].step = "body"
           /\ cs[k].step = "body" => ds[k].name = cs[k].name
           /\ ds[k].event = cs[k].event /\ ds[k].result = cs[k].result
  PROVE  Names(ds) = Names(cs) /\ Outcomes(ds) = Outcomes(cs)
<1>1. {j \in DOMAIN ds : ds[j].step = "body"} = {j \in DOMAIN cs : cs[j].step = "body"}
  OBVIOUS
<1>2. {j \in DOMAIN ds : ds[j].event} = {j \in DOMAIN cs : cs[j].event}
  OBVIOUS
<1>3. Names(ds) = Names(cs)
  BY <1>1 DEF Names
<1>4. Outcomes(ds) = Outcomes(cs)
  BY <1>2 DEF Outcomes
<1> QED
  BY <1>3, <1>4

\* A new call above others: its script's own code has not begun.
LEMMA ItemsAppended ==
  ASSUME NEW cs \in Seq(Call), NEW c, NEW ds, DOMAIN ds = DOMAIN cs \union {Len(cs) + 1},
         \A k \in DOMAIN cs : ds[k] = cs[k], ds[Len(cs) + 1] = c, c.step # "body"
  PROVE  /\ Names(ds) = Names(cs)
         /\ c.event = FALSE => Outcomes(ds) = Outcomes(cs)
<1>1. Len(cs) \in Nat /\ DOMAIN cs = 1..Len(cs)
  OBVIOUS
<1>2. {j \in DOMAIN ds : ds[j].step = "body"} = {j \in DOMAIN cs : cs[j].step = "body"}
  BY <1>1
<1>3. Names(ds) = Names(cs)
  BY <1>1, <1>2 DEF Names
<1>4. ASSUME c.event = FALSE
      PROVE  Outcomes(ds) = Outcomes(cs)
  <2>1. {j \in DOMAIN ds : ds[j].event} = {j \in DOMAIN cs : cs[j].event}
    BY <1>1, <1>4
  <2> QED
    BY <1>1, <2>1 DEF Outcomes
<1> QED
  BY <1>3, <1>4

\* The innermost call, taken away with its items.
LEMMA ItemsPopped ==
  ASSUME NEW cs \in Seq(Call), Len(cs) > 0, NEW ds, DOMAIN ds = 1..(Len(cs) - 1),
         \A k \in DOMAIN ds :
           /\ ds[k].step = "body" <=> cs[k].step = "body"
           /\ ds[k].name = cs[k].name
           /\ ds[k].event = cs[k].event /\ ds[k].result = cs[k].result
  PROVE  /\ DOMAIN Names(ds) = DOMAIN Names(cs) \ {Len(cs)}
         /\ \A k \in DOMAIN Names(ds) : Names(ds)[k] = Names(cs)[k]
         /\ Len(cs) \in DOMAIN Names(cs) <=> cs[Len(cs)].step = "body"
         /\ DOMAIN Outcomes(ds) = DOMAIN Outcomes(cs) \ {Len(cs)}
         /\ \A k \in DOMAIN Outcomes(ds) : Outcomes(ds)[k] = Outcomes(cs)[k]
         /\ Len(cs) \in DOMAIN Outcomes(cs) <=> cs[Len(cs)].event
<1>1. /\ Len(cs) \in Nat /\ DOMAIN cs = 1..Len(cs)
      /\ DOMAIN ds = DOMAIN cs \ {Len(cs)} /\ Len(cs) \in DOMAIN cs
  OBVIOUS
<1>2. {j \in DOMAIN ds : ds[j].step = "body"}
        = {j \in DOMAIN cs : cs[j].step = "body"} \ {Len(cs)}
  BY <1>1
<1>3. {j \in DOMAIN ds : ds[j].event} = {j \in DOMAIN cs : cs[j].event} \ {Len(cs)}
  BY <1>1
<1>4. /\ DOMAIN Names(ds) = DOMAIN Names(cs) \ {Len(cs)}
      /\ \A k \in DOMAIN Names(ds) : Names(ds)[k] = Names(cs)[k]
      /\ Len(cs) \in DOMAIN Names(cs) <=> cs[Len(cs)].step = "body"
  BY <1>1, <1>2 DEF Names
<1>5. /\ DOMAIN Outcomes(ds) = DOMAIN Outcomes(cs) \ {Len(cs)}
      /\ \A k \in DOMAIN Outcomes(ds) : Outcomes(ds)[k] = Outcomes(cs)[k]
      /\ Len(cs) \in DOMAIN Outcomes(cs) <=> cs[Len(cs)].event
  BY <1>1, <1>3 DEF Outcomes
<1> QED
  BY <1>4, <1>5

\* The calls keep what they have on the stacks.
LEMMA MappedStacks ==
  ASSUME StacksMatch, NEW ds, DOMAIN ds = DOMAIN calls,
         \A k \in DOMAIN calls :
           /\ ds[k].step = "body" <=> calls[k].step = "body"
           /\ calls[k].step = "body" => ds[k].name = calls[k].name
           /\ ds[k].event = calls[k].event /\ ds[k].result = calls[k].result
  PROVE  IsStack(last_script_ran, 0, Names(ds)) /\ IsStack(running_events, 1, Outcomes(ds))
<1>1. Names(ds) = Names(calls) /\ Outcomes(ds) = Outcomes(calls)
  BY SameItems
<1> QED
  BY <1>1 DEF StacksMatch

LEMMA ForeignKeeps ==
  ASSUME NEW c \in Call
  PROVE  /\ Foreign(c) \in Call
         /\ Foreign(c).step = c.step /\ Foreign(c).name = c.name
         /\ Foreign(c).event = c.event /\ Foreign(c).result = c.result
<1>1. CASE c.step = "body"
  BY <1>1 DEF Foreign
<1>2. CASE c.step # "body"
  BY <1>2 DEF Foreign, Call
<1> QED
  BY <1>1, <1>2

\* Only an event puts something on a stack when its call begins.
LEMMA RunScriptStacks ==
  ASSUME TypeOK, NEW s \in Scripts, NEW below \in Seq(Call), NEW slot \in BOOLEAN,
         NEW handler \in BOOLEAN, NEW event \in BOOLEAN,
         IsStack(last_script_ran, 0, Names(below)),
         IsStack(running_events, 1, Outcomes(below)),
         RunScript(s, below, slot, handler, event),
         UNCHANGED last_script_ran,
         running_events' = IF event THEN Append(running_events, NoResult) ELSE running_events
  PROVE  StacksMatch'
<1> DEFINE waiting == IF registered_events[s] = << >> THEN below
                      ELSE [k \in DOMAIN below |-> Foreign(below[k])]
           new == NewCall(s, slot, handler, event)
<1>1. calls' = Append(waiting, new)
  BY DEF RunScript
<1>2. /\ waiting \in Seq(Call) /\ Len(waiting) = Len(below) /\ DOMAIN waiting = DOMAIN below
      /\ \A k \in DOMAIN below :
           /\ waiting[k].step = below[k].step /\ waiting[k].name = below[k].name
           /\ waiting[k].event = below[k].event /\ waiting[k].result = below[k].result
  <2>1. CASE registered_events[s] = << >>
    BY <2>1
  <2>2. CASE registered_events[s] # << >>
    <3>1. \A k \in DOMAIN below :
            /\ Foreign(below[k]) \in Call
            /\ Foreign(below[k]).step = below[k].step /\ Foreign(below[k]).name = below[k].name
            /\ Foreign(below[k]).event = below[k].event
            /\ Foreign(below[k]).result = below[k].result
      BY ForeignKeeps
    <3>2. waiting = [k \in DOMAIN below |-> Foreign(below[k])]
      BY <2>2
    <3> HIDE DEF waiting
    <3>3. /\ DOMAIN waiting = DOMAIN below /\ waiting = [k \in DOMAIN waiting |-> waiting[k]]
          /\ \A k \in DOMAIN below : waiting[k] = Foreign(below[k])
      BY <3>2
    <3>4. waiting \in Seq(Call) /\ Len(waiting) = Len(below)
      BY <3>1, <3>3, SameLength
    <3> QED
      BY <3>1, <3>3, <3>4
  <2> QED
    BY <2>1, <2>2
<1>3. new \in Call /\ new.step = "next" /\ new.event = event /\ new.result = NoResult
  <2>1. registered_events[s] \in Seq(Scripts) /\ << >> \in Seq(Scripts)
    BY DEF TypeOK
  <2>2. Len(registered_events[s]) \in Nat
    BY <2>1
  <2> QED
    BY <2>1, <2>2 DEF NewCall, Call
<1> HIDE DEF waiting, new
<1>4. Names(waiting) = Names(below) /\ Outcomes(waiting) = Outcomes(below)
  BY <1>2, SameItems
<1>5. new.step # "body"
  BY <1>3
<1>6. /\ Names(calls') = Names(waiting)
      /\ event = FALSE => Outcomes(calls') = Outcomes(waiting)
      /\ event = TRUE =>
           /\ DOMAIN Outcomes(calls') = DOMAIN Outcomes(waiting) \union {Len(waiting) + 1}
           /\ \A k \in DOMAIN Outcomes(waiting) : Outcomes(calls')[k] = Outcomes(waiting)[k]
           /\ Outcomes(calls')[Len(waiting) + 1] = NoResult
  <2> DEFINE ds == calls'
  <2>1. /\ waiting \in Seq(Call) /\ new.step # "body"
        /\ DOMAIN ds = DOMAIN waiting \union {Len(waiting) + 1}
        /\ \A k \in DOMAIN waiting : ds[k] = waiting[k]
        /\ ds[Len(waiting) + 1] = new
    BY <1>1, <1>2, <1>3, Appended
  <2> HIDE DEF ds
  <2>2. Names(ds) = Names(waiting) /\ (event = FALSE => Outcomes(ds) = Outcomes(waiting))
    <3>1. new.event = FALSE <=> event = FALSE
      BY <1>3
    <3> QED
      BY <2>1, <3>1, ItemsAppended
  <2>3. ASSUME event = TRUE
        PROVE  /\ DOMAIN Outcomes(ds) = DOMAIN Outcomes(waiting) \union {Len(waiting) + 1}
               /\ \A k \in DOMAIN Outcomes(waiting) : Outcomes(ds)[k] = Outcomes(waiting)[k]
               /\ Outcomes(ds)[Len(waiting) + 1] = NoResult
    <3> DEFINE n == Len(waiting) + 1
    <3>1. /\ waiting \in Seq(Call) /\ n = Len(waiting) + 1 /\ new.event
          /\ DOMAIN ds = DOMAIN waiting \union {n}
          /\ \A k \in DOMAIN waiting : ds[k] = waiting[k]
          /\ ds[n] = new
      BY <1>3, <2>1, <2>3
    <3> HIDE DEF n
    <3>2. n \notin DOMAIN waiting
      BY <3>1
    <3>3. {j \in DOMAIN ds : ds[j].event} = {j \in DOMAIN waiting : waiting[j].event} \union {n}
      BY <3>1, <3>2
    <3>4. /\ DOMAIN Outcomes(ds) = DOMAIN Outcomes(waiting) \union {n}
          /\ \A k \in DOMAIN Outcomes(waiting) : Outcomes(ds)[k] = Outcomes(waiting)[k]
          /\ Outcomes(ds)[n] = new.result
      BY <3>1, <3>2, <3>3 DEF Outcomes
    <3> QED
      BY <1>3, <3>4 DEF n
  <2> QED
    BY <2>2, <2>3 DEF ds
<1>7. IsStack(running_events', 1, Outcomes(calls'))
  <2>1. CASE event = FALSE
    <3>1. Outcomes(calls') = Outcomes(waiting)
      BY <1>6, <2>1
    <3> QED
      BY <1>4, <2>1, <3>1
  <2>2. CASE event = TRUE
    <3>1. /\ DOMAIN Outcomes(calls') = DOMAIN Outcomes(waiting) \union {Len(waiting) + 1}
          /\ \A k \in DOMAIN Outcomes(waiting) : Outcomes(calls')[k] = Outcomes(waiting)[k]
          /\ Outcomes(calls')[Len(waiting) + 1] = NoResult
      BY <1>6, <2>2
    <3>2. running_events \in Seq(Results \union {NoResult}) /\ Len(waiting) \in Nat
      BY <1>2 DEF TypeOK
    <3>3. DOMAIN Outcomes(waiting) \subseteq 1..Len(waiting)
      BY <1>2, ItemsWithin
    <3>4. IsStack(running_events, 1, Outcomes(waiting))
      BY <1>4
    <3>5. IsStack(Append(running_events, NoResult), 1, Outcomes(calls'))
      <4> DEFINE S == Results \union {NoResult}
                 item == Outcomes(waiting)
                 other == Outcomes(calls')
                 n == Len(waiting)
      <4>1. /\ running_events \in Seq(S) /\ NoResult \in S /\ n \in Nat
            /\ DOMAIN item \subseteq 1..n /\ IsStack(running_events, 1, item)
            /\ DOMAIN other = DOMAIN item \union {n + 1}
            /\ \A k \in DOMAIN item : other[k] = item[k]
            /\ other[n + 1] = NoResult
        BY <3>1, <3>2, <3>3, <3>4
      <4> HIDE DEF S, item, other, n
      <4>2. IsStack(Append(running_events, NoResult), 1, other)
        BY <4>1, StackPushed
      <4> QED
        BY <4>2 DEF other
    <3> QED
      BY <2>2, <3>5
  <2> QED
    BY <2>1, <2>2
<1> QED
  BY <1>4, <1>6, <1>7 DEF StacksMatch

\* What the actions leave of the stacks.
LEMMA ThrowStacks ==
  ASSUME Throw
  PROVE  StacksMatch'
<1>1. Names(<< >>) = << >> /\ Outcomes(<< >>) = << >>
  BY DEF Names, Outcomes
<1>2. IsStack(<< >>, 0, << >>)
  BY FS_EmptySet DEF IsStack
<1>3. IsStack(<<InitialResult>>, 1, << >>)
  BY FS_EmptySet DEF IsStack
<1>4. calls' = << >> /\ last_script_ran' = << >> /\ running_events' = <<InitialResult>>
  BY DEF Throw
<1> QED
  BY <1>1, <1>2, <1>3, <1>4 DEF StacksMatch

LEMMA ExecuteStacks ==
  ASSUME IInv, StacksMatch, NEW s \in Scripts, NEW slot \in BOOLEAN, Execute(s, slot)
  PROVE  StacksMatch'
<1>1. TypeOK /\ calls \in Seq(Call)
  BY DEF IInv, TypeOK
<1>2. IsStack(last_script_ran, 0, Names(calls)) /\ IsStack(running_events, 1, Outcomes(calls))
  BY DEF StacksMatch
<1>3. RunScript(s, calls, slot, FALSE, FALSE) /\ UNCHANGED <<running_events, last_script_ran>>
  BY DEF Execute
<1> QED
  BY <1>1, <1>2, <1>3, RunScriptStacks

LEMMA RunEventStacks ==
  ASSUME IInv, StacksMatch, NEW s \in Scripts, RunEvent(s)
  PROVE  StacksMatch'
<1>1. TypeOK /\ calls \in Seq(Call)
  BY DEF IInv, TypeOK
<1>2. IsStack(last_script_ran, 0, Names(calls)) /\ IsStack(running_events, 1, Outcomes(calls))
  BY DEF StacksMatch
<1>3. /\ RunScript(s, calls, FALSE, FALSE, TRUE) /\ UNCHANGED last_script_ran
      /\ running_events' = Append(running_events, NoResult)
  BY DEF RunEvent
<1> QED
  BY <1>1, <1>2, <1>3, RunScriptStacks

LEMMA SituationStacks ==
  ASSUME IInv, StacksMatch, NEW s \in Scripts, RunScriptSituation(s)
  PROVE  StacksMatch'
<1> DEFINE c == [NewCall(s, FALSE, FALSE, FALSE) EXCEPT !.step = "body", !.next = 0]
<1>1. calls' = <<c>> /\ c.step = "body" /\ c.name = s /\ c.event = FALSE
  BY DEF NewCall, RunScriptSituation
<1> HIDE DEF c
<1>2. calls = << >> /\ last_script_ran \in Seq(Scripts)
  BY DEF IInv, TypeOK, RunScriptSituation, Depth
<1>3. /\ last_script_ran' = Append(last_script_ran, s) /\ UNCHANGED running_events
  BY DEF RunScriptSituation
<1>4. DOMAIN Names(calls) = {} /\ Outcomes(calls) = << >>
  BY <1>2 DEF Names, Outcomes
<1>5. DOMAIN calls' = {1} /\ calls'[1] = c
  BY <1>1
<1>6. DOMAIN Names(calls') = {1} /\ Names(calls')[1] = s
  BY <1>1, <1>5 DEF Names
<1>7. Outcomes(calls') = << >>
  BY <1>1, <1>5 DEF Outcomes
<1>8. IsStack(last_script_ran', 0, Names(calls'))
  <2> DEFINE item == Names(calls)
             other == Names(calls')
  <2>1. /\ IsStack(last_script_ran, 0, item) /\ DOMAIN item \subseteq 1..0
        /\ DOMAIN other = DOMAIN item \union {0 + 1} /\ other[0 + 1] = s
        /\ \A k \in DOMAIN item : other[k] = item[k]
    BY <1>4, <1>6 DEF StacksMatch
  <2> HIDE DEF item, other
  <2>2. IsStack(Append(last_script_ran, s), 0, other)
    BY <1>2, <2>1, StackPushed
  <2> QED
    BY <1>3, <2>2 DEF other
<1> QED
  BY <1>3, <1>4, <1>7, <1>8 DEF StacksMatch

LEMMA RunRegisteredStacks ==
  ASSUME IInv, StacksMatch, RunRegistered
  PROVE  StacksMatch'
<1> DEFINE c == Innermost
           list == registered_events[c.script]
           h == list[c.next]
           ran == IF c.changed THEN c.ran ELSE Append(c.ran, h)
           d == Began(c, ran)
           below == [calls EXCEPT ![Depth] = d]
<1>1. CASE Throw
  BY <1>1, ThrowStacks
<1>2. CASE ~Throw
  <2>1. /\ Depth > 0 /\ c.step = "next" /\ c.next > 0 /\ c.next <= Len(list)
        /\ RunScript(h, below, FALSE, TRUE, FALSE)
        /\ UNCHANGED <<running_events, last_script_ran>>
    BY <1>2 DEF RunRegistered, Began
  <2>2. Depth \in DOMAIN calls /\ c \in Call /\ calls[Depth] = c
    BY <2>1, InnermostCall DEF IInv, Innermost
  <2>3. c.next \in Nat /\ list \in Seq(Scripts) /\ c.ran \in Seq(Scripts)
    BY <2>2 DEF Call, IInv, TypeOK
  <2>4. h \in Scripts
    BY <2>1, <2>3
  <2>5. ran \in Seq(Scripts)
    BY <2>3, <2>4
  <2> HIDE DEF c, h, ran
  <2>6. /\ d \in Call /\ d.step = "handler" /\ d.name = c.name /\ d.event = c.event
        /\ d.result = c.result
    BY <2>2, <2>5 DEF Call, Began
  <2> HIDE DEF d
  <2>7. /\ DOMAIN below = DOMAIN calls /\ below[Depth] = d
        /\ \A k \in DOMAIN calls : k # Depth => below[k] = calls[k]
    BY <2>2
  <2>8. TypeOK /\ below \in Seq(Call)
    BY <2>6, Replaced DEF IInv, TypeOK
  <2> HIDE DEF below
  <2>9. IsStack(last_script_ran, 0, Names(below)) /\ IsStack(running_events, 1, Outcomes(below))
    <3>1. \A k \in DOMAIN calls :
            /\ below[k].step = "body" <=> calls[k].step = "body"
            /\ calls[k].step = "body" => below[k].name = calls[k].name
            /\ below[k].event = calls[k].event /\ below[k].result = calls[k].result
      BY <2>1, <2>2, <2>6, <2>7
    <3> QED
      BY <2>7, <3>1, MappedStacks
  <2> QED
    BY <2>1, <2>4, <2>8, <2>9, RunScriptStacks
<1> QED
  BY <1>1, <1>2

\* A call that returns takes its items with it.
LEMMA ReturnStacks ==
  ASSUME IInv, StacksMatch, Depth > 0, Return,
         last_script_ran' = IF Innermost.step = "body"
                            THEN SubSeq(last_script_ran, 1, Len(last_script_ran) - 1)
                            ELSE last_script_ran
  PROVE  StacksMatch'
<1>1. /\ Depth \in Nat /\ DOMAIN calls = 1..Depth /\ Len(calls) = Depth
      /\ Innermost \in Call /\ Innermost = calls[Depth] /\ calls \in Seq(Call)
  BY InnermostCall DEF IInv, TypeOK, Depth, Innermost
<1>2. /\ Popped \in Seq(Call) /\ Len(Popped) = Depth - 1 /\ DOMAIN Popped = 1..(Depth - 1)
      /\ \A k \in 1..(Depth - 1) : Popped[k] = calls[k]
  BY <1>1, Shortened DEF Popped
<1>3. \A k \in 1..(Depth - 1) :
        Innermost.handler /\ k = Depth - 1 => calls[k].step = "handler"
  <2>1. \A k \in 1..(Depth - 1) : calls[k].step = "handler" <=> calls[k + 1].handler = TRUE
    BY <1>1 DEF IInv, Nested
  <2>2. Innermost.handler \in BOOLEAN
    BY <1>1 DEF Call
  <2> QED
    BY <1>1, <2>1, <2>2
<1>4. DOMAIN calls' = 1..(Depth - 1)
      /\ \A k \in 1..(Depth - 1) :
           \/ calls'[k] = calls[k]
           \/ calls[k].step = "handler" /\ calls'[k] = [calls[k] EXCEPT !.step = "returned"]
  <2>1. CASE Innermost.handler
    <3>1. calls' = [Popped EXCEPT ![Depth - 1].step = "returned"]
      BY <2>1 DEF Return
    <3> QED
      BY <1>2, <1>3, <2>1, <3>1
  <2>2. CASE ~Innermost.handler
    <3>1. calls' = Popped
      BY <2>2 DEF Return
    <3> QED
      BY <1>2, <3>1
  <2> QED
    BY <2>1, <2>2
<1>5. \A k \in DOMAIN calls' :
        /\ calls'[k].step = "body" <=> calls[k].step = "body"
        /\ calls'[k].name = calls[k].name
        /\ calls'[k].event = calls[k].event /\ calls'[k].result = calls[k].result
  <2>1. \A k \in 1..(Depth - 1) : calls[k] \in Call
    BY <1>1
  <2> QED
    BY <1>4, <2>1 DEF Call
<1> DEFINE cs == calls
           ds == calls'
<1>6. /\ cs \in Seq(Call) /\ Len(cs) > 0 /\ DOMAIN ds = 1..(Len(cs) - 1)
      /\ \A k \in DOMAIN ds :
           /\ ds[k].step = "body" <=> cs[k].step = "body"
           /\ ds[k].name = cs[k].name
           /\ ds[k].event = cs[k].event /\ ds[k].result = cs[k].result
  BY <1>1, <1>4, <1>5
<1>7. /\ Len(cs) = Depth /\ cs[Depth] = Innermost
      /\ IsStack(last_script_ran, 0, Names(cs)) /\ IsStack(running_events, 1, Outcomes(cs))
  BY <1>1 DEF StacksMatch
<1>8. ds = calls'
  OBVIOUS
<1> HIDE DEF cs, ds
<1>9. /\ DOMAIN Names(cs) \subseteq 1..Depth /\ DOMAIN Outcomes(cs) \subseteq 1..Depth
  BY <1>6, <1>7, ItemsWithin
<1>10. IsStack(last_script_ran', 0, Names(ds))
  <2>1. /\ DOMAIN Names(ds) = DOMAIN Names(cs) \ {Depth}
        /\ \A k \in DOMAIN Names(ds) : Names(ds)[k] = Names(cs)[k]
        /\ Depth \in DOMAIN Names(cs) <=> Innermost.step = "body"
    BY <1>6, <1>7, ItemsPopped
  <2>2. last_script_ran \in Seq(Scripts)
    BY DEF IInv, TypeOK
  <2>3. CASE Innermost.step = "body"
    BY <1>1, <1>7, <1>9, <2>1, <2>2, <2>3, StackPopped
  <2>4. CASE Innermost.step # "body"
    BY <1>7, <2>1, <2>4, StackKept
  <2> QED
    BY <2>3, <2>4
<1>11. IsStack(running_events', 1, Outcomes(ds))
  <2>1. /\ DOMAIN Outcomes(ds) = DOMAIN Outcomes(cs) \ {Depth}
        /\ \A k \in DOMAIN Outcomes(ds) : Outcomes(ds)[k] = Outcomes(cs)[k]
        /\ Depth \in DOMAIN Outcomes(cs) <=> Innermost.event
    BY <1>6, <1>7, ItemsPopped
  <2>2. running_events \in Seq(Results \union {NoResult})
    BY DEF IInv, TypeOK
  <2>3. CASE Innermost.event
    <3>1. running_events' = SubSeq(running_events, 1, Len(running_events) - 1)
      BY <2>3 DEF Return
    <3> DEFINE S == Results \union {NoResult}
    <3>2. running_events \in Seq(S)
      BY <2>2
    <3> HIDE DEF S
    <3>3. IsStack(SubSeq(running_events, 1, Len(running_events) - 1), 1, Outcomes(ds))
      BY <1>1, <1>7, <1>9, <2>1, <2>3, <3>2, StackPopped
    <3> QED
      BY <3>1, <3>3
  <2>4. CASE ~Innermost.event
    <3>1. running_events' = running_events
      BY <2>4 DEF Return
    <3> QED
      BY <1>7, <2>1, <2>4, <3>1, StackKept
  <2> QED
    BY <2>3, <2>4
<1> QED
  BY <1>8, <1>10, <1>11 DEF StacksMatch

LEMMA AfterRegisteredStacks ==
  ASSUME IInv, StacksMatch, AfterRegistered
  PROVE  StacksMatch'
<1>1. Depth > 0 /\ Innermost.step = "returned" /\ UNCHANGED last_script_ran
  BY DEF AfterRegistered
<1>2. CASE bBypassRegisteredEvent
  BY <1>1, <1>2, ReturnStacks DEF AfterRegistered
<1>3. CASE ~bBypassRegisteredEvent
  <2>1. /\ calls' = [calls EXCEPT ![Depth].step = "next", ![Depth].next = @ - 1]
        /\ UNCHANGED running_events
    BY <1>3 DEF AfterRegistered
  <2>2. Depth \in DOMAIN calls /\ Innermost \in Call /\ calls[Depth] = Innermost
    BY <1>1, InnermostCall DEF IInv, Innermost
  <2> DEFINE d == Continued(Innermost)
  <2>3. calls' = [calls EXCEPT ![Depth] = d]
    BY <2>1, <2>2 DEF Continued
  <2>4. /\ d.step = "next" /\ d.name = Innermost.name /\ d.event = Innermost.event
        /\ d.result = Innermost.result
    BY <2>2 DEF Call, Continued
  <2> HIDE DEF d
  <2>5. DOMAIN calls' = DOMAIN calls
        /\ \A k \in DOMAIN calls :
             /\ calls'[k].step = "body" <=> calls[k].step = "body"
             /\ calls[k].step = "body" => calls'[k].name = calls[k].name
             /\ calls'[k].event = calls[k].event /\ calls'[k].result = calls[k].result
    BY <1>1, <2>2, <2>3, <2>4
  <2>6. IsStack(last_script_ran, 0, Names(calls')) /\ IsStack(running_events, 1, Outcomes(calls'))
    BY <2>5, MappedStacks
  <2> QED
    BY <1>1, <2>1, <2>6 DEF StacksMatch
<1> QED
  BY <1>2, <1>3

LEMMA ScriptEndsStacks ==
  ASSUME IInv, StacksMatch, ScriptEnds
  PROVE  StacksMatch'
BY ReturnStacks DEF ScriptEnds, Running

\* The script itself begins, under the name read again.
LEMMA RunBodyStacks ==
  ASSUME IInv, StacksMatch, RunBody
  PROVE  StacksMatch'
<1> DEFINE c == Innermost
           d == [c EXCEPT !.step = "body", !.script = c.name, !.vector_gone = FALSE,
                          !.ran = << >>, !.changed = FALSE, !.bypass = "none"]
<1>1. CASE Throw
  BY <1>1, ThrowStacks
<1>2. CASE ~Throw
  <2>1. /\ Depth > 0 /\ c.step = "next" /\ c.name # NoScript
        /\ last_script_ran' = Append(last_script_ran, c.name)
        /\ calls' = [calls EXCEPT ![Depth] = d]
        /\ UNCHANGED running_events
    BY <1>2 DEF RunBody
  <2>2. /\ Depth \in Nat /\ DOMAIN calls = 1..Depth /\ Depth \in DOMAIN calls
        /\ c \in Call /\ calls[Depth] = c
    BY <2>1, InnermostCall DEF IInv, Innermost
  <2>3. c.name \in Scripts /\ last_script_ran \in Seq(Scripts)
    BY <2>1, <2>2 DEF Call, IInv, TypeOK
  <2> HIDE DEF c
  <2>4. d.step = "body" /\ d.name = c.name /\ d.event = c.event /\ d.result = c.result
    BY <2>2 DEF Call
  <2> HIDE DEF d
  <2>5. /\ DOMAIN calls' = DOMAIN calls /\ calls'[Depth] = d
        /\ \A k \in DOMAIN calls : k # Depth => calls'[k] = calls[k]
    BY <2>1, <2>2
  <2>6. Outcomes(calls') = Outcomes(calls)
    <3>1. {j \in DOMAIN calls' : calls'[j].event} = {j \in DOMAIN calls : calls[j].event}
      BY <2>2, <2>4, <2>5
    <3> QED
      BY <2>2, <2>4, <2>5, <3>1 DEF Outcomes
  <2> DEFINE item == Names(calls)
             other == Names(calls')
             n == Depth - 1
  <2>7. /\ n \in Nat /\ n + 1 = Depth /\ DOMAIN item \subseteq 1..n
        /\ DOMAIN other = DOMAIN item \union {Depth}
        /\ \A k \in DOMAIN item : other[k] = item[k]
        /\ other[Depth] = c.name
    <3>1. {j \in DOMAIN calls' : calls'[j].step = "body"}
            = {j \in DOMAIN calls : calls[j].step = "body"} \union {Depth}
      BY <2>2, <2>4, <2>5
    <3>2. Depth \notin {j \in DOMAIN calls : calls[j].step = "body"}
      BY <2>1, <2>2
    <3>3. n \in Nat /\ n + 1 = Depth /\ DOMAIN item \subseteq 1..n
      BY <2>1, <2>2, <3>2 DEF Names
    <3>4. /\ DOMAIN other = DOMAIN item \union {Depth}
          /\ \A k \in DOMAIN item : other[k] = item[k]
          /\ other[Depth] = c.name
      BY <2>2, <2>4, <2>5, <3>1, <3>2 DEF Names
    <3> QED
      BY <3>3, <3>4
  <2>8. IsStack(last_script_ran, 0, item)
    BY DEF StacksMatch
  <2> HIDE DEF item, other, n
  <2>9. IsStack(Append(last_script_ran, c.name), 0, other)
    BY <2>3, <2>7, <2>8, StackPushed
  <2> QED
    BY <2>1, <2>6, <2>9 DEF StacksMatch, other
<1> QED
  BY <1>1, <1>2

LEMMA RelistStacks ==
  ASSUME IInv, StacksMatch, NEW e, NEW list, NEW emptied,
         calls' = Relisted(e, list, emptied),
         UNCHANGED <<running_events, last_script_ran>>
  PROVE  StacksMatch'
<1>1. \A k \in DOMAIN calls : calls[k] \in Call
  BY DEF IInv, TypeOK
<1>2. /\ DOMAIN calls' = DOMAIN calls
      /\ \A k \in DOMAIN calls :
           \/ calls'[k] = calls[k]
           \/ calls'[k] = Now(calls[k], registered_events[e], list, emptied)
  BY DEF Relisted, Now
<1>3. \A c \in Call : LET d == Now(c, registered_events[e], list, emptied) IN
        d.step = c.step /\ d.name = c.name /\ d.event = c.event /\ d.result = c.result
  BY DEF Now, Call
<1>4. \A k \in DOMAIN calls :
        /\ calls'[k].step = calls[k].step /\ calls'[k].name = calls[k].name
        /\ calls'[k].event = calls[k].event /\ calls'[k].result = calls[k].result
  BY <1>1, <1>2, <1>3
<1>5. IsStack(last_script_ran, 0, Names(calls')) /\ IsStack(running_events, 1, Outcomes(calls'))
  BY <1>2, <1>4, MappedStacks
<1> QED
  BY <1>5 DEF StacksMatch

LEMMA BypassStacks ==
  ASSUME IInv, StacksMatch, ByPassRegisteredEvent
  PROVE  StacksMatch'
<1>1. \A k \in DOMAIN calls : calls[k] \in Call
  BY DEF IInv, TypeOK
<1>2. /\ DOMAIN calls' = DOMAIN calls
      /\ \A k \in DOMAIN calls :
           calls'[k] = calls[k] \/ calls'[k] = [calls[k] EXCEPT !.bypass = "own"]
      /\ UNCHANGED <<running_events, last_script_ran>>
  BY DEF ByPassRegisteredEvent
<1>3. \A k \in DOMAIN calls :
        /\ calls'[k].step = calls[k].step /\ calls'[k].name = calls[k].name
        /\ calls'[k].event = calls[k].event /\ calls'[k].result = calls[k].result
  BY <1>1, <1>2 DEF Call
<1>4. IsStack(last_script_ran, 0, Names(calls')) /\ IsStack(running_events, 1, Outcomes(calls'))
  BY <1>2, <1>3, MappedStacks
<1> QED
  BY <1>2, <1>4 DEF StacksMatch

\* The result is that of the innermost event, and of the one before all calls if
\* there is none.
LEMMA SetResultStacks ==
  ASSUME IInv, StacksMatch, NEW r \in Results, SetResult(r)
  PROVE  StacksMatch'
<1>1. /\ calls \in Seq(Call) /\ \A k \in DOMAIN calls : calls[k] \in Call
      /\ running_events \in Seq(Results \union {NoResult}) /\ Len(calls) \in Nat
  BY DEF IInv, TypeOK
<1>2. /\ DOMAIN calls' = DOMAIN calls
      /\ \A k \in DOMAIN calls :
           calls'[k] = IF k \in Events /\ \A j \in Events : j <= k
                       THEN [calls[k] EXCEPT !.result = r] ELSE calls[k]
      /\ running_events' = [running_events EXCEPT ![Len(running_events)] = r]
      /\ UNCHANGED last_script_ran
  BY DEF SetResult
<1>3. \A k \in DOMAIN calls :
        /\ calls'[k].step = calls[k].step /\ calls'[k].name = calls[k].name
        /\ calls'[k].event = calls[k].event
        /\ calls'[k].result = IF k \in Events /\ \A j \in Events : j <= k
                              THEN r ELSE calls[k].result
  BY <1>1, <1>2 DEF Call
<1>4. Names(calls') = Names(calls)
  <2>1. {j \in DOMAIN calls' : calls'[j].step = "body"}
          = {j \in DOMAIN calls : calls[j].step = "body"}
    BY <1>2, <1>3
  <2> QED
    BY <1>2, <1>3, <2>1 DEF Names
<1> DEFINE item == Outcomes(calls)
           other == Outcomes(calls')
           S == Results \union {NoResult}
           n == Len(calls)
<1>5. /\ DOMAIN item = Events /\ DOMAIN other = DOMAIN item
      /\ \A k \in DOMAIN item :
           other[k] = IF \A j \in DOMAIN item : j <= k THEN r ELSE item[k]
  <2>1. {j \in DOMAIN calls' : calls'[j].event} = {j \in DOMAIN calls : calls[j].event}
    BY <1>2, <1>3
  <2>2. DOMAIN item = Events /\ \A k \in Events : item[k] = calls[k].result
    BY DEF Outcomes, Events
  <2>3. DOMAIN other = Events /\ \A k \in Events : other[k] = calls'[k].result
    BY <2>1 DEF Outcomes, Events
  <2>4. Events \subseteq DOMAIN calls
    BY DEF Events
  <2> HIDE DEF item, other
  <2> QED
    BY <1>3, <2>2, <2>3, <2>4
<1>6. /\ running_events \in Seq(S) /\ r \in S /\ n \in Nat
      /\ DOMAIN item \subseteq 1..n /\ IsStack(running_events, 1, item)
  BY <1>1, ItemsWithin DEF StacksMatch
<1> HIDE DEF item, other, S, n
<1>7. IsStack([running_events EXCEPT ![Len(running_events)] = r], 1, other)
  BY <1>5, <1>6, TopSet
<1> QED
  BY <1>2, <1>4, <1>7 DEF StacksMatch, other

\* Only the name of a call whose script has not begun is changed.
LEMMA SetScriptStacks ==
  ASSUME IInv, StacksMatch, NEW s \in Scripts \union {NoScript}, SetScript(s)
  PROVE  StacksMatch'
<1>1. \A k \in DOMAIN calls : calls[k] \in Call
  BY DEF IInv, TypeOK
<1>2. /\ DOMAIN calls' = DOMAIN calls
      /\ \A k \in DOMAIN calls :
           \/ calls'[k] = calls[k]
           \/ calls[k].step # "body" /\ calls'[k] = [calls[k] EXCEPT !.name = s]
      /\ UNCHANGED <<running_events, last_script_ran>>
  BY DEF SetScript
<1>3. \A k \in DOMAIN calls :
        /\ calls'[k].step = calls[k].step
        /\ calls[k].step = "body" => calls'[k].name = calls[k].name
        /\ calls'[k].event = calls[k].event /\ calls'[k].result = calls[k].result
  BY <1>1, <1>2 DEF Call
<1>4. IsStack(last_script_ran, 0, Names(calls')) /\ IsStack(running_events, 1, Outcomes(calls'))
  BY <1>2, <1>3, MappedStacks
<1> QED
  BY <1>2, <1>4 DEF StacksMatch

LEMMA InitStacks == Init => StacksMatch
<1> SUFFICES ASSUME Init PROVE StacksMatch
  OBVIOUS
<1>1. Names(<< >>) = << >> /\ Outcomes(<< >>) = << >>
  BY DEF Names, Outcomes
<1>2. IsStack(<< >>, 0, << >>) /\ IsStack(<<InitialResult>>, 1, << >>)
  BY FS_EmptySet DEF IsStack
<1> QED
  BY <1>1, <1>2 DEF Init, StacksMatch

LEMMA StepStacks == IInv /\ StacksMatch /\ [Next]_vars => StacksMatch'
<1> SUFFICES ASSUME IInv, StacksMatch, [Next]_vars PROVE StacksMatch'
  OBVIOUS
<1>1. ASSUME NEW s \in Scripts, NEW slot \in BOOLEAN, Execute(s, slot) PROVE StacksMatch'
  BY <1>1, ExecuteStacks
<1>2. ASSUME NEW s \in Scripts, RunEvent(s) PROVE StacksMatch'
  BY <1>2, RunEventStacks
<1>3. ASSUME NEW s \in Scripts, RunScriptSituation(s) PROVE StacksMatch'
  BY <1>3, SituationStacks
<1>4. ASSUME NEW s \in Scripts, NEW h \in Scripts, RegisterEvent(s, h) PROVE StacksMatch'
  BY <1>4, RelistStacks DEF RegisterEvent
<1>5. ASSUME NEW s \in Scripts, NEW h \in Scripts, UnregisterEvent(s, h) PROVE StacksMatch'
  BY <1>5, RelistStacks DEF UnregisterEvent
<1>6. CASE RunRegistered
  BY <1>6, RunRegisteredStacks
<1>7. CASE AfterRegistered
  BY <1>7, AfterRegisteredStacks
<1>8. CASE RunBody
  BY <1>8, RunBodyStacks
<1>9. CASE ScriptEnds
  BY <1>9, ScriptEndsStacks
<1>10. CASE ByPassRegisteredEvent
  BY <1>10, BypassStacks
<1>11. ASSUME NEW r \in Results, SetResult(r) PROVE StacksMatch'
  BY <1>11, SetResultStacks
<1>12. ASSUME NEW s \in Scripts \union {NoScript}, SetScript(s) PROVE StacksMatch'
  BY <1>12, SetScriptStacks
<1>13. CASE UNCHANGED vars
  BY <1>13 DEF vars, StacksMatch
<1> QED
  BY <1>1, <1>2, <1>3, <1>4, <1>5, <1>6, <1>7, <1>8, <1>9, <1>10, <1>11, <1>12, <1>13 DEF Next

-----------------------------------------------------------------------------
\* The variables of the hook keep their types: in particular every call stays a
\* call, whatever the scripts register, change and bypass below it.
THEOREM TypeCorrect == Spec => []TypeOK
<1>1. IInv => TypeOK
  BY DEF IInv
<1> QED
  BY <1>1, Inductive, PTL

\* For any scripts, registrations and depth of calls: the loop of RunScript_HookProc
\* ran all the registered scripts, the newest first and each once, when it comes
\* to the script itself, and it reads nothing that is gone, unless the list or
\* the name was changed under it.
THEOREM HandlersAlwaysServed == Spec => HandlersServed
<1> DEFINE Served ==
      /\ RunBody /\ server_up' /\ ~Innermost.changed =>
           /\ Innermost.ran = Reverse(registered_events[Innermost.script])
           /\ IsInjective(Innermost.ran)
      /\ server_up /\ ~server_up' => Innermost.changed \/ Innermost.name # Innermost.script
<1>1. IInv /\ [Next]_vars => Served
  <2> SUFFICES ASSUME IInv, [Next]_vars PROVE Served
    OBVIOUS
  <2> DEFINE c == Innermost
             list == registered_events[c.script]
  <2>1. ASSUME Depth > 0
        PROVE  /\ c.script \in Scripts /\ c.next \in Nat
               /\ list \in Seq(Scripts) /\ IsInjective(list)
               /\ Fit(c, list, bBypassRegisteredEvent)
    <3>1. c \in Call /\ Depth \in DOMAIN calls /\ c = calls[Depth]
      BY <2>1, InnermostCall DEF IInv, Innermost
    <3>2. c.script \in Scripts /\ c.next \in Nat
      BY <3>1 DEF Call
    <3>3. list \in Seq(Scripts) /\ IsInjective(list)
      BY <3>2 DEF IInv, TypeOK, NoScriptTwice
    <3> QED
      BY <3>1, <3>2, <3>3 DEF IInv, CallsFit
  <2>2. ASSUME RunBody, ~c.changed
        PROVE  c.ran = Reverse(list) /\ IsInjective(c.ran)
    <3>1. Depth > 0 /\ c.step = "next" /\ c.next = 0
      BY <2>2 DEF RunBody
    <3>2. c.ran = Newest(list, 0)
      BY <2>1, <2>2, <3>1 DEF Fit, InOrder
    <3>3. list \in Seq(Scripts) /\ IsInjective(list)
      BY <2>1, <3>1
    <3> HIDE DEF c, list
    <3>4. c.ran = Reverse(list)
      BY <3>2, <3>3 DEF Newest, Reverse
    <3>5. IsInjective(c.ran)
      BY <3>2, <3>3 DEF Newest, IsInjective
    <3> QED
      BY <3>4, <3>5
  <2>3. ASSUME server_up, ~server_up'
        PROVE  c.changed \/ c.name # c.script
    <3>1. CASE RunRegistered
      <4>1. /\ Depth > 0 /\ c.step = "next" /\ c.next > 0
            /\ c.next > Len(list) \/ c.vector_gone
        BY <2>3, <3>1 DEF RunRegistered
      <4> HIDE DEF c, list
      <4> QED
        BY <2>1, <4>1 DEF Fit, InOrder
    <3>2. CASE RunBody
      <4>1. Depth > 0 /\ c.name = NoScript
        BY <2>3, <3>2 DEF RunBody
      <4> HIDE DEF c, list
      <4> QED
        BY <2>1, <4>1, ScriptMachineAssumption
    <3> QED
      BY <2>3, <3>1, <3>2, OnlyTheLoopThrows
  <2> QED
    BY <2>2, <2>3
<1> QED
  BY <1>1, Inductive, PTL DEF Spec, HandlersServed

\* For any scripts and depth of calls: however the scripts inside were left, a script
\* finds on top of the stacks its own name and the result of the event it was run
\* for.
THEOREM StacksAlwaysMatch == Spec => []StacksMatch
<1>1. Init => IInv /\ StacksMatch
  BY InitHolds, InitStacks
<1>2. (IInv /\ StacksMatch) /\ [Next]_vars => (IInv /\ StacksMatch)'
  BY StepKeeps, StepStacks
<1> QED
  BY <1>1, <1>2, PTL DEF Spec

\* For any scripts and depth of calls: as long as no other dispatch began inside a
\* call, its script is left out exactly if one run for it called
\* ByPassRegisteredEvent.
THEOREM BypassAlwaysScoped == Spec => BypassScoped
<1> DEFINE Scoped ==
      AfterRegistered /\ Innermost.bypass # "foreign" =>
        (Len(calls') < Len(calls) <=> Innermost.bypass = "own")
<1>1. IInv /\ [Next]_vars => Scoped
  <2> SUFFICES ASSUME IInv, AfterRegistered, Innermost.bypass # "foreign"
               PROVE  Len(calls') < Len(calls) <=> Innermost.bypass = "own"
    OBVIOUS
  <2>1. Depth > 0 /\ Innermost.step = "returned"
    BY DEF AfterRegistered
  <2>2. Depth \in Nat /\ Depth \in DOMAIN calls /\ Innermost = calls[Depth]
    BY <2>1, InnermostCall DEF IInv, Innermost
  <2>3. bBypassRegisteredEvent <=> Innermost.bypass = "own"
    BY <2>1, <2>2 DEF IInv, CallsFit, Fit, Placed, OwnBypass
  <2>4. CASE bBypassRegisteredEvent
    <3>1. Return
      BY <2>4 DEF AfterRegistered
    <3>2. Len(calls') = Len(calls) - 1
      BY <2>1, <3>1, ReturnFits DEF IInv
    <3> QED
      BY <2>2, <2>3, <2>4, <3>2 DEF Depth
  <2>5. CASE ~bBypassRegisteredEvent
    <3>1. calls' = [calls EXCEPT ![Depth].step = "next", ![Depth].next = @ - 1]
      BY <2>5 DEF AfterRegistered
    <3>2. calls \in Seq(Call)
      BY DEF IInv, TypeOK
    <3>3. calls' = [calls EXCEPT ![Depth] = Continued(Innermost)]
      BY <2>2, <3>1 DEF Continued
    <3>4. Len(calls') = Len(calls)
      BY <3>2, <3>3
    <3> QED
      BY <2>2, <2>3, <2>5, <3>4 DEF Depth
  <2> QED
    BY <2>4, <2>5
<1> QED
  BY <1>1, Inductive, PTL DEF Spec, BypassScoped
=============================================================================
