------------------------------ MODULE AccountLock ------------------------------
(***************************************************************************)
(* What the game servers promise about player accounts.                    *)
(*                                                                         *)
(* Several server processes share one database.  An account is held by at  *)
(* most one server at a time, and whoever plays the account does so in one *)
(* seat (a connection slot of one server) of the server that holds it.     *)
(***************************************************************************)
CONSTANTS Servers, Accounts, Slots, NoServer

VARIABLES
  holder,   \* holder[a] : the server the account is locked by, or NoServer
  seats     \* seats[a]  : the seats <<server, slot>> the account is played from

vars == <<holder, seats>>

Seats == Servers \X Slots

TypeOK ==
  /\ holder \in [Accounts -> Servers \cup {NoServer}]
  /\ seats \in [Accounts -> SUBSET Seats]

Init ==
  /\ holder = [a \in Accounts |-> NoServer]
  /\ seats = [a \in Accounts |-> {}]

\* A server takes a free account.
Acquire(s, a) ==
  /\ holder[a] = NoServer
  /\ holder' = [holder EXCEPT ![a] = s]
  /\ UNCHANGED seats

\* The account enters the game in a seat of the server that holds it.
Enter(s, i, a) ==
  /\ holder[a] = s
  /\ seats[a] = {}
  /\ seats' = [seats EXCEPT ![a] = {<<s, i>>}]
  /\ UNCHANGED holder

\* Any number of the seats of one server are vacated (a player leaves, the
\* server stops or dies); what it holds stays held.
Vacate(s) ==
  /\ holder' = holder
  /\ \E gone \in SUBSET Slots :
       seats' = [a \in Accounts |-> seats[a] \ ({s} \X gone)]

\* A server gives back accounts it holds and that nobody plays.
Release(s) ==
  /\ \E given \in SUBSET {a \in Accounts : holder[a] = s /\ seats[a] = {}} :
       holder' = [a \in Accounts |-> IF a \in given THEN NoServer ELSE holder[a]]
  /\ UNCHANGED seats

Next ==
  \E s \in Servers :
    \/ \E a \in Accounts : Acquire(s, a)
    \/ \E a \in Accounts, i \in Slots : Enter(s, i, a)
    \/ Vacate(s)
    \/ Release(s)

Spec == Init /\ [][Next]_vars

-----------------------------------------------------------------------------

\* An account is never in the game twice, neither on two servers nor on one.
OneSeat == \A a \in Accounts : \A x, y \in seats[a] : x = y

\* Whoever plays an account does so on the server that holds it.
SeatIsHeld == \A a \in Accounts : \A x \in seats[a] : holder[a] = x[1]

=============================================================================
