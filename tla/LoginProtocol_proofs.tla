-------------------------- MODULE LoginProtocol_proofs --------------------------
(***************************************************************************)
(* Proofs about LoginProtocol for every number of servers, slots, clients   *)
(* and accounts: the types, the account lock, the locks that are released,  *)
(* the rows that are closed, the CD keys, and that the protocol implements  *)
(* AccountLock.                                                             *)
(***************************************************************************)
EXTENDS LoginProtocol, TLAPS

USE LoginAssumption

LEMMA FreeType == Free \in SlotRecords
BY DEF Free, Slot, SlotRecords, PCs

LEMMA SlotFields ==
  ASSUME NEW state, NEW c, NEW a, NEW known, NEW pc
  PROVE  /\ Slot(state, c, a, known, pc).state = state
         /\ Slot(state, c, a, known, pc).client = c
         /\ Slot(state, c, a, known, pc).account = a
         /\ Slot(state, c, a, known, pc).known = known
         /\ Slot(state, c, a, known, pc).pc = pc
BY DEF Slot

LEMMA NoRequestType == NoRequest \in Requests
BY DEF NoRequest, Request, Requests

\* The state of every slot and request has its type, and the slot a handler
\* works on is a slot.
LEMMA InitType == Init => TypeOK
BY FreeType, NoRequestType
   DEF Init, TypeOK, Booting, Running, Stopping

LEMMA UpdateSlotType ==
  ASSUME TypeOK, NEW s \in Servers, NEW i, NEW r \in SlotRecords, UpdateSlot(s, i, r)
  PROVE  slots' \in [Servers -> [Slots -> SlotRecords]]
BY DEF TypeOK, UpdateSlot

LEMMA GotoType ==
  ASSUME TypeOK, NEW s \in Servers, NEW from,
         NEW to \in Running \cup Booting \cup Stopping, Goto(s, from, to)
  PROVE  step' \in [Servers -> Running \cup Booting \cup Stopping]
BY DEF TypeOK, Goto

LEMMA FinishType ==
  ASSUME TypeOK, NEW s \in Servers, NEW from, Finish(s, from)
  PROVE  /\ step' \in [Servers -> Running \cup Booting \cup Stopping]
         /\ cur' \in [Servers -> Slots \cup {NoSlot}]
         /\ req' \in [Servers -> Requests]
BY NoRequestType DEF TypeOK, Finish, Goto, Running

\* What the code reads through the slot it works on.
LEMMA CurrentType ==
  ASSUME TypeOK, NEW s \in Servers, cur[s] \in Slots
  PROVE  Current(s) \in SlotRecords
BY DEF TypeOK, Current

LEMMA DbPlayerIdType ==
  ASSUME NEW slot \in SlotRecords, slot.account \in Accounts
  PROVE  <<DbPlayerId(slot), slot.account>> \in PCs
BY DEF DbPlayerId, SlotRecords, PCs

\* Every action keeps the types; the handlers that work on a slot do so only
\* when cur is one.
LEMMA StartType ==
  ASSUME TypeOK, NEW s \in Servers, Start(s) \/ PrepareRows(s) \/ PrepareLocks(s)
  PROVE  TypeOK'
<1>1. CASE Start(s)
  BY <1>1, GotoType DEF TypeOK, Start, db, Booting
<1>2. CASE PrepareRows(s)
  BY <1>2, GotoType DEF TypeOK, PrepareRows, CloseOpenRows, Booting
<1>3. CASE PrepareLocks(s)
  BY <1>3, GotoType DEF TypeOK, PrepareLocks, ReleaseAccounts, HeldBy, Running
<1>4. QED BY <1>1, <1>2, <1>3

LEMMA BNCSType ==
  ASSUME TypeOK, NEW s \in Servers, NEW c \in Clients, NEW a \in Accounts,
         HandleBNCSMessage(s, c, a)
  PROVE  TypeOK'
<1>1. req' \in [Servers -> Requests]
  BY DEF TypeOK, HandleBNCSMessage, Request, Requests
<1>2. /\ \E to \in {"check_account", "release_lock"} : step' = [step EXCEPT ![s] = to]
      /\ cur' = cur \/ \E i \in Slots : cur' = [cur EXCEPT ![s] = i]
  BY DEF HandleBNCSMessage
<1>3. slots' \in [Servers -> [Slots -> SlotRecords]]
  BY FreeType, UpdateSlotType DEF TypeOK, HandleBNCSMessage
<1>4. /\ step' \in [Servers -> Running \cup Booting \cup Stopping]
      /\ cur' \in [Servers -> Slots \cup {NoSlot}]
  BY <1>2 DEF TypeOK, Running
<1>5. QED BY <1>1, <1>3, <1>4 DEF TypeOK, HandleBNCSMessage, db

LEMMA CheckType ==
  ASSUME TypeOK, NEW s \in Servers,
         \/ CheckAccount(s) \/ Refuse(s) \/ CheckCdkeys(s) \/ CheckUnlocked(s)
         \/ DeleteUnlocked(s) \/ CountPcs(s) \/ DeleteCdkeys(s)
  PROVE  TypeOK'
<1>1. CASE CheckAccount(s)
  <2>1. req' \in [Servers -> Requests]
    <3>1. PICK known \in BOOLEAN, in_use \in BOOLEAN :
            req' = [req EXCEPT ![s] = Request(req[s].client, req[s].account, known, in_use)]
      BY <1>1 DEF CheckAccount
    <3>2. QED BY <3>1 DEF TypeOK, Requests, Request
  <2>2. step' \in [Servers -> Running \cup Booting \cup Stopping]
    BY <1>1, GotoType DEF TypeOK, CheckAccount, Running
  <2>3. QED BY <1>1, <2>1, <2>2 DEF TypeOK, CheckAccount, db
<1>2. CASE Refuse(s)
  BY <1>2, FinishType DEF TypeOK, Refuse, db
<1>3. CASE CheckCdkeys(s)
  BY <1>3, GotoType DEF TypeOK, CheckCdkeys, Running, db
<1>4. CASE CheckUnlocked(s)
  BY <1>4, GotoType DEF TypeOK, CheckUnlocked, Running, db
<1>5. CASE DeleteUnlocked(s)
  BY <1>5, GotoType DEF TypeOK, DeleteUnlocked, Running
<1>6. CASE CountPcs(s)
  BY <1>6, FinishType, GotoType DEF TypeOK, CountPcs, Running, db
<1>7. CASE DeleteCdkeys(s)
  BY <1>7, GotoType DEF TypeOK, DeleteCdkeys, Running
<1>8. QED BY <1>1, <1>2, <1>3, <1>4, <1>5, <1>6, <1>7

LEMMA AllocateType ==
  ASSUME TypeOK, NEW s \in Servers, Allocate(s)
  PROVE  TypeOK'
<1>1. slots' \in [Servers -> [Slots -> SlotRecords]]
  <2>1. Slot("joining", req[s].client, req[s].account, req[s].known, NoPC) \in SlotRecords
    BY DEF TypeOK, Requests, Slot, SlotRecords
  <2>2. QED BY <2>1, UpdateSlotType DEF TypeOK, Allocate
<1>2. QED BY <1>1, FinishType DEF TypeOK, Allocate, db

LEMMA BNVSType ==
  ASSUME TypeOK, LockInv, NEW s \in Servers,
         \/ \E i \in Slots : HandleBNVSMessage(s, i)
         \/ SetPlayerConnectedInDb(s) \/ RegisterCdkey(s)
  PROVE  TypeOK'
<1>1. CASE \E i \in Slots : HandleBNVSMessage(s, i)
  BY <1>1, GotoType DEF TypeOK, HandleBNVSMessage, Running, db
<1>2. CASE SetPlayerConnectedInDb(s)
  <2>1. cur[s] \in Slots /\ Current(s).account \in Accounts
    BY <1>2 DEF LockInv, HandlerInv, OnASlot, OnAPlayer, SetPlayerConnectedInDb, Finish, Goto, Current
  <2>2. Current(s).client \in Clients \cup {NoClient}
    BY <2>1, CurrentType DEF SlotRecords
  <2>3. /\ step' \in [Servers -> Running \cup Booting \cup Stopping]
        /\ cur' \in [Servers -> Slots \cup {NoSlot}]
        /\ req' \in [Servers -> Requests]
    BY <1>2, FinishType DEF TypeOK, SetPlayerConnectedInDb, Running
  <2>4. /\ registered' \subseteq Accounts
        /\ current_server' \in [Accounts -> Servers \cup {NoServer}]
        /\ last_ip' \in [Accounts -> Clients \cup {NoClient}]
    <3>1. \/ UNCHANGED <<registered, current_server, last_ip>>
          \/ /\ registered' = registered \cup {Current(s).account}
             /\ current_server' = [current_server EXCEPT ![Current(s).account] = s]
             /\ last_ip' = [last_ip EXCEPT ![Current(s).account] = Current(s).client]
      BY <1>2 DEF SetPlayerConnectedInDb
    <3>2. registered' \subseteq Accounts
      BY <2>1, <3>1 DEF TypeOK
    <3>3. current_server' \in [Accounts -> Servers \cup {NoServer}]
      BY <2>1, <3>1 DEF TypeOK
    <3>4. last_ip' \in [Accounts -> Clients \cup {NoClient}]
      BY <2>2, <3>1 DEF TypeOK
    <3>5. QED BY <3>2, <3>3, <3>4
  <2>5. QED BY <1>2, <2>3, <2>4 DEF TypeOK, SetPlayerConnectedInDb
<1>3. CASE RegisterCdkey(s)
  <2>1. cur[s] \in Slots /\ Current(s).account \in Accounts /\ Current(s).client \in Clients
    BY <1>3 DEF LockInv, HandlerInv, OnASlot, OnAPlayer, RegisterCdkey, Finish, Goto, Current
  <2>2. Slot("playing", Current(s).client, Current(s).account, Current(s).known, NoPC)
          \in SlotRecords
    BY <2>1, CurrentType DEF Slot, SlotRecords
  <2>3. slots' \in [Servers -> [Slots -> SlotRecords]]
    BY <1>3, <2>2, UpdateSlotType DEF RegisterCdkey
  <2>4. cdkeys' \in [Accounts -> SUBSET CDKeys]
    BY <1>3, <2>1 DEF TypeOK, RegisterCdkey
  <2>5. QED BY <1>3, <2>3, <2>4, FinishType DEF TypeOK, RegisterCdkey
<1>4. QED BY <1>1, <1>2, <1>3

\* The session that plays a PC keeps the types.
LEMMA PlayPcType ==
  ASSUME TypeOK, NEW s \in Servers, cur[s] \in Slots, Current(s).account \in Accounts,
         NEW pc \in PCs \cup {NoPC}, PlayPc(s, pc)
  PROVE  /\ slots' \in [Servers -> [Slots -> SlotRecords]]
         /\ lost_rows' \subseteq PCs \cup {NoPC}
<1>1. Slot("playing", Current(s).client, Current(s).account, Current(s).known, pc)
        \in SlotRecords
  BY CurrentType DEF Slot, SlotRecords
<1>2. slots' \in [Servers -> [Slots -> SlotRecords]]
  BY <1>1, UpdateSlotType DEF PlayPc
<1>3. lost_rows' \subseteq PCs \cup {NoPC}
  BY DEF PlayPc, ClosedOnlyBy, TypeOK
<1>4. QED BY <1>2, <1>3

LEMMA EntryType ==
  ASSUME TypeOK, LockInv, NEW s \in Servers,
         \/ \E i \in Slots : SendModuleInfo(s, i) \/ PC_Create(s, i)
         \/ FindPc(s) \/ InsertPc(s) \/ InsertRow(s)
  PROVE  TypeOK'
<1>1. CASE \E i \in Slots : SendModuleInfo(s, i)
  BY <1>1, GotoType DEF TypeOK, SendModuleInfo, Running, db
<1>2. CASE \E i \in Slots : PC_Create(s, i)
  BY <1>2, GotoType DEF TypeOK, PC_Create, Running, db
<1>3. CASE FindPc(s)
  <2>1. cur[s] \in Slots /\ Current(s).account \in Accounts
    BY <1>3 DEF LockInv, HandlerInv, OnASlot, OnAPlayer, FindPc, Goto, Current
  <2>2. PICK pc \in PCs \cup {NoPC} : PlayPc(s, pc)
    BY <1>3, <2>1, CurrentType, DbPlayerIdType DEF FindPc
  <2>3. /\ slots' \in [Servers -> [Slots -> SlotRecords]]
        /\ lost_rows' \subseteq PCs \cup {NoPC}
    BY <2>1, <2>2, PlayPcType
  <2>4. QED BY <1>3, <2>3, GotoType DEF TypeOK, FindPc, Running, db
<1>4. CASE InsertPc(s)
  <2>1. cur[s] \in Slots /\ Current(s).account \in Accounts
    BY <1>4 DEF LockInv, HandlerInv, OnASlot, OnAPlayer, InsertPc, Goto, Current
  <2>2. <<DbPlayerId(Current(s)), Current(s).account>> \in PCs
    BY <2>1, CurrentType, DbPlayerIdType
  <2>3. PlayPc(s, <<DbPlayerId(Current(s)), Current(s).account>>)
    BY <1>4 DEF InsertPc
  <2>4. /\ slots' \in [Servers -> [Slots -> SlotRecords]]
        /\ lost_rows' \subseteq PCs \cup {NoPC}
    BY <2>1, <2>2, <2>3, PlayPcType
  <2>5. pcs' \subseteq PCs
    BY <1>4, <2>2 DEF InsertPc, TypeOK
  <2>6. QED BY <1>4, <2>4, <2>5, GotoType DEF TypeOK, InsertPc, Running
<1>5. CASE InsertRow(s)
  <2>1. cur[s] \in Slots
    BY <1>5 DEF LockInv, HandlerInv, OnASlot, OnAPlayer, InsertRow, Finish, Goto
  <2>2. Current(s).pc \in PCs \cup {NoPC}
    BY <2>1, CurrentType DEF SlotRecords
  <2>3. QED BY <1>5, <2>2, FinishType DEF TypeOK, InsertRow
<1>6. QED BY <1>1, <1>2, <1>3, <1>4, <1>5

LEMMA DepartureType ==
  ASSUME TypeOK, NEW s \in Servers,
         \/ \E i \in Slots : DisconnectPlayer(s, i) \/ ReleaseAll(s, i)
         \/ ReleaseLock(s) \/ CloseRows(s) \/ Stop(s) \/ CloseRowsStopping(s)
  PROVE  TypeOK'
<1>1. CASE \E i \in Slots : DisconnectPlayer(s, i)
  <2>1. slots' \in [Servers -> [Slots -> SlotRecords]]
    BY <1>1, FreeType, UpdateSlotType DEF TypeOK, DisconnectPlayer
  <2>2. /\ step' = step \/ step' = [step EXCEPT ![s] = "release_lock"]
        /\ cur' = cur \/ \E i \in Slots : cur' = [cur EXCEPT ![s] = i]
    BY <1>1 DEF DisconnectPlayer
  <2>3. step' \in [Servers -> Running \cup Booting \cup Stopping]
    BY <2>2 DEF TypeOK, Running
  <2>4. cur' \in [Servers -> Slots \cup {NoSlot}]
    BY <2>2 DEF TypeOK
  <2>5. QED BY <1>1, <2>1, <2>3, <2>4 DEF TypeOK, DisconnectPlayer, db
<1>2. CASE \E i \in Slots : ReleaseAll(s, i)
  BY <1>2, GotoType DEF TypeOK, ReleaseAll, ReleaseAccounts, HeldBy, Stopping
<1>3. CASE ReleaseLock(s)
  BY <1>3, GotoType DEF TypeOK, ReleaseLock, ReleaseAccounts, HeldBy, Running
<1>4. CASE CloseRows(s)
  <2>1. slots' \in [Servers -> [Slots -> SlotRecords]]
    BY <1>4, FreeType, UpdateSlotType DEF CloseRows
  <2>2. QED BY <1>4, <2>1, GotoType DEF TypeOK, CloseRows, CloseOpenRows, Running
<1>5. CASE Stop(s)
  BY <1>5, GotoType DEF TypeOK, Stop, Stopping, db
<1>6. CASE CloseRowsStopping(s)
  <2>1. slots' \in [Servers -> [Slots -> SlotRecords]]
    BY <1>6, FreeType, UpdateSlotType DEF CloseRowsStopping
  <2>2. QED BY <1>6, <2>1, GotoType DEF TypeOK, CloseRowsStopping, CloseOpenRows, Stopping
<1>7. QED BY <1>1, <1>2, <1>3, <1>4, <1>5, <1>6

LEMMA DieType ==
  ASSUME TypeOK, NEW s \in Servers, Exit(s) \/ Crash(s)
  PROVE  TypeOK'
<1>1. Die(s)
  BY DEF Exit, Crash
<1>2. /\ slots' \in [Servers -> [Slots -> SlotRecords]]
      /\ req' \in [Servers -> Requests]
      /\ cur' \in [Servers -> Slots \cup {NoSlot}]
      /\ step' \in [Servers -> Running \cup Booting \cup Stopping]
  BY <1>1, FreeType, NoRequestType DEF TypeOK, Die, Booting
<1>3. lost_rows' \subseteq PCs \cup {NoPC}
  BY DEF TypeOK, Exit, Crash, ClosedOnlyBy
<1>4. QED BY <1>1, <1>2, <1>3 DEF TypeOK, Die, db

LEMMA WebSiteType ==
  ASSUME TypeOK, NEW a \in Accounts, Unlock(a) \/ UnlockExpires(a)
  PROVE  TypeOK'
BY DEF TypeOK, Unlock, UnlockExpires

\* Every step keeps the types.
LEMMA NextType == TypeOK /\ LockInv /\ [Next]_vars => TypeOK'
<1> SUFFICES ASSUME TypeOK, LockInv, [Next]_vars PROVE TypeOK'
  OBVIOUS
<1>1. CASE UNCHANGED vars
  BY <1>1 DEF TypeOK, vars, db
<1>2. ASSUME NEW s \in Servers,
             Start(s) \/ HandlerStep(s) \/ Event(s) \/ Stop(s) \/ Crash(s)
      PROVE  TypeOK'
  BY <1>2, StartType, BNCSType, CheckType, AllocateType, BNVSType, EntryType,
     DepartureType, DieType DEF HandlerStep, Event
<1>3. QED BY <1>1, <1>2, WebSiteType DEF Next

-----------------------------------------------------------------------------
(* The account lock                                                        *)

\* The state of a server other than the one that steps is not touched, nor
\* are the accounts it holds.
Untouched(t) ==
  /\ step'[t] = step[t] /\ cur'[t] = cur[t] /\ req'[t] = req[t] /\ slots'[t] = slots[t]
  /\ \A a \in Accounts : current_server[a] = t => current_server'[a] = t

LEMMA UntouchedInv ==
  ASSUME TypeOK, NEW t \in Servers, HandlerInv(t), ClaimInv(t), Untouched(t)
  PROVE  HandlerInv(t)' /\ ClaimInv(t)'
<1>1. HandlerInv(t)'
  BY DEF HandlerInv, Untouched
<1>2. \A i \in Slots : (Claims(t, i)' <=> Claims(t, i)) /\ (InGame(t, i)' <=> InGame(t, i))
  BY DEF Claims, InGame, Untouched
<1>3. ClaimInv(t)'
  <2>1. \A i \in Slots : Claims(t, i) =>
          slots[t][i].account \in Accounts /\ slots'[t][i] = slots[t][i]
    BY DEF HandlerInv, Claims, InGame, OnASlot, OnAPlayer, Untouched
  <2>2. QED BY <1>2, <2>1 DEF ClaimInv, Untouched
<1>4. QED BY <1>1, <1>3

\* A step of server s keeps the invariant when it leaves the others alone and
\* s itself comes out well.
LEMMA ServerStepInv ==
  ASSUME TypeOK, LockInv, NEW s \in Servers,
         \A t \in Servers \ {s} : Untouched(t),
         HandlerInv(s)', ClaimInv(s)',
         \A a \in Accounts : current_server'[a] # NoServer =>
           a \in registered' \/ current_server[a] # NoServer,
         registered \subseteq registered'
  PROVE  LockInv'
<1>1. \A t \in Servers : HandlerInv(t)' /\ ClaimInv(t)'
  <2> SUFFICES ASSUME NEW t \in Servers PROVE HandlerInv(t)' /\ ClaimInv(t)'
    OBVIOUS
  <2>1. CASE t = s
    BY <2>1
  <2>2. CASE t # s
    BY <2>2, UntouchedInv DEF LockInv
  <2>3. QED BY <2>1, <2>2
<1>2. \A a \in Accounts : current_server'[a] # NoServer => a \in registered'
  BY DEF LockInv
<1>3. QED BY <1>1, <1>2 DEF LockInv

\* An idle server, or one that stops, claims exactly its players.
LEMMA InitLock == Init => LockInv
BY DEF Init, LockInv, HandlerInv, ClaimInv, Claims, InGame, Booting, Checking, OnASlot, OnAPlayer, Free,
       Slot, NoRequest

\* Steps that move the handler on without touching slots or locks, to a place
\* with the same or fewer obligations.
LEMMA StartLock ==
  ASSUME TypeOK, LockInv, NEW s \in Servers, Start(s) \/ PrepareRows(s)
  PROVE  LockInv'
<1>1. /\ UNCHANGED <<registered, current_server, cur, req, slots>>
      /\ step[s] \in Booting
      /\ \E to \in {"prepare_rows", "prepare_locks"} : step' = [step EXCEPT ![s] = to]
  BY DEF Start, PrepareRows, Goto, db, Booting
<1>2. \A t \in Servers \ {s} : Untouched(t)
  BY <1>1 DEF Untouched, TypeOK
<1>3. HandlerInv(s)' /\ ClaimInv(s)'
  BY <1>1 DEF LockInv, TypeOK, HandlerInv, ClaimInv, Claims, InGame, Booting, Checking, OnASlot, OnAPlayer
<1>4. QED BY <1>1, <1>2, <1>3, ServerStepInv

LEMMA PrepareLocksLock ==
  ASSUME TypeOK, LockInv, NEW s \in Servers, PrepareLocks(s)
  PROVE  LockInv'
<1>1. \A t \in Servers \ {s} : Untouched(t)
  BY DEF PrepareLocks, Goto, ReleaseAccounts, HeldBy, Untouched, TypeOK
<1>2. HandlerInv(s)' /\ ClaimInv(s)'
  BY DEF PrepareLocks, Goto, LockInv, TypeOK, HandlerInv, ClaimInv, Claims, InGame, Booting,
         Checking, OnASlot, OnAPlayer
<1>3. \A a \in Accounts : current_server'[a] # NoServer => current_server[a] # NoServer
  BY DEF PrepareLocks, ReleaseAccounts
<1>4. QED BY <1>1, <1>2, <1>3, ServerStepInv DEF PrepareLocks

\* Handlers that only read, and return or go on.
LEMMA CheckLock ==
  ASSUME TypeOK, LockInv, NEW s \in Servers,
         \/ CheckAccount(s) \/ Refuse(s) \/ CheckCdkeys(s) \/ CheckUnlocked(s)
         \/ DeleteUnlocked(s) \/ CountPcs(s) \/ DeleteCdkeys(s)
  PROVE  LockInv'
<1>1. /\ UNCHANGED <<registered, current_server, slots>>
      /\ step[s] \in Checking
      /\ \E to \in Checking \cup {"idle"} :
           /\ step' = [step EXCEPT ![s] = to]
           /\ \/ to \in Checking /\ UNCHANGED <<cur, req>>
              \/ to = "idle" /\ req' = [req EXCEPT ![s] = NoRequest]
                             /\ cur' = [cur EXCEPT ![s] = NoSlot]
              \/ to \in Checking /\ UNCHANGED cur
                 /\ \E known, in_use \in BOOLEAN :
                      req' = [req EXCEPT ![s] =
                                Request(req[s].client, req[s].account, known, in_use)]
  <2>1. CASE CheckAccount(s)
    BY <2>1 DEF CheckAccount, Goto, db, Checking
  <2>2. CASE Refuse(s) \/ CountPcs(s)
    BY <2>2 DEF Refuse, CountPcs, Finish, Goto, db, Checking
  <2>3. CASE CheckCdkeys(s) \/ CheckUnlocked(s) \/ DeleteUnlocked(s) \/ DeleteCdkeys(s)
    BY <2>3 DEF CheckCdkeys, CheckUnlocked, DeleteUnlocked, DeleteCdkeys, Goto, db, Checking
  <2>4. QED BY <2>1, <2>2, <2>3
<1>2. \A t \in Servers \ {s} : Untouched(t)
  BY <1>1 DEF Untouched, TypeOK
<1>3. \A i \in Slots : (Claims(s, i)' <=> Claims(s, i)) /\ (InGame(s, i)' <=> InGame(s, i))
  BY <1>1 DEF TypeOK, Claims, InGame, Booting, Stopping, Checking
<1>4. ClaimInv(s)'
  BY <1>1, <1>3 DEF LockInv, ClaimInv, TypeOK, Checking
<1>5. HandlerInv(s)'
  <2>1. req[s].account \in Accounts /\ req[s].client \in Clients
    BY <1>1 DEF LockInv, HandlerInv
  <2>2. req'[s] # NoRequest => req'[s].account \in Accounts /\ req'[s].client \in Clients
    BY <1>1, <2>1 DEF TypeOK, Request
  <2>3. step'[s] \in Checking => req'[s] # NoRequest
    BY <1>1, <2>1 DEF LockInv, HandlerInv, TypeOK, Request, NoRequest, Checking
  <2>4. step'[s] \notin Booting \cup OnASlot \cup OnAPlayer /\ step'[s] # "register_cdkey"
    BY <1>1 DEF TypeOK, Booting, OnASlot, OnAPlayer, Checking
  <2>5. QED BY <1>1, <2>2, <2>3, <2>4 DEF LockInv, HandlerInv
<1>6. QED BY <1>1, <1>2, <1>4, <1>5, ServerStepInv

\* A message is a request of a client for an account.
NewRequest(s) ==
  \E c \in Clients, a \in Accounts : req' = [req EXCEPT ![s] = Request(c, a, FALSE, FALSE)]

\* A message or an event that sets the handler to work on a slot.
LEMMA BeginLock ==
  ASSUME TypeOK, LockInv, NEW s \in Servers, NEW i \in Slots,
         NEW to \in {"set_connected", "find_pc", "insert_pc", "release_lock"},
         UNCHANGED <<registered, current_server, slots>>,
         step[s] = "idle", step' = [step EXCEPT ![s] = to],
         cur' = [cur EXCEPT ![s] = i],
         UNCHANGED req \/ NewRequest(s),
         slots[s][i].state # "free",
         to # "set_connected" => slots[s][i].state = "playing"
  PROVE  LockInv'
<1>1. step'[s] = to /\ cur'[s] = i
  BY DEF TypeOK
<1>2. \A t \in Servers \ {s} : Untouched(t)
  BY DEF Untouched, TypeOK, NewRequest
<1>3. HandlerInv(s)'
  <2>1. req'[s] # NoRequest => req'[s].account \in Accounts /\ req'[s].client \in Clients
    BY DEF LockInv, HandlerInv, TypeOK, NewRequest, Request
  <2>2. QED BY <1>1, <2>1 DEF LockInv, HandlerInv, Booting, Checking, OnASlot, OnAPlayer
<1>4. ClaimInv(s)'
  <2>1. \A j \in Slots : /\ InGame(s, j)' => InGame(s, j)
                         /\ Claims(s, j)' => Claims(s, j)
    BY <1>1 DEF Claims, InGame, Booting, Stopping
  <2>2. to = "release_lock" => ~InGame(s, i)' /\ Claims(s, i)
    BY <1>1 DEF Claims, InGame, Booting, Stopping
  <2>3. \A j \in Slots : InGame(s, j)' => Claims(s, j)
    BY <2>1 DEF Claims
  <2>4. to = "release_lock" =>
          \A j \in Slots : InGame(s, j)' => slots[s][j].account # slots[s][i].account
    BY <2>2, <2>3 DEF LockInv, ClaimInv
  <2>5. QED BY <1>1, <2>1, <2>4 DEF LockInv, ClaimInv
<1>5. QED BY <1>2, <1>3, <1>4, ServerStepInv

LEMMA EventLock ==
  ASSUME TypeOK, LockInv, NEW s \in Servers, NEW i \in Slots,
         HandleBNVSMessage(s, i) \/ SendModuleInfo(s, i) \/ PC_Create(s, i)
  PROVE  LockInv'
BY BeginLock DEF HandleBNVSMessage, SendModuleInfo, PC_Create, Goto, db

\* The slot of a connection that asks again, or that goes without a player, is freed.
LEMMA FreeJoiningLock ==
  ASSUME TypeOK, LockInv, NEW s \in Servers, NEW i \in Slots,
         step[s] = "idle", slots[s][i].state = "joining", UpdateSlot(s, i, Free),
         UNCHANGED <<registered, current_server, cur>>,
         \/ UNCHANGED <<step, req>>
         \/ step' = [step EXCEPT ![s] = "check_account"] /\ NewRequest(s)
  PROVE  LockInv'
<1>1. \A t \in Servers \ {s} : Untouched(t)
  BY DEF Untouched, TypeOK, UpdateSlot, NewRequest
<1>2. \A j \in Slots : slots'[s][j] = IF j = i THEN Free ELSE slots[s][j]
  BY DEF UpdateSlot, TypeOK
<1>3. step'[s] \in {"idle", "check_account"}
  BY DEF TypeOK
<1>4. HandlerInv(s)'
  <2>1. step'[s] = "check_account" => req'[s] # NoRequest
    BY DEF TypeOK, Request, NoRequest, NewRequest
  <2>2. req'[s] # NoRequest => req'[s].account \in Accounts /\ req'[s].client \in Clients
    BY DEF TypeOK, Request, LockInv, HandlerInv, NewRequest
  <2>3. QED BY <1>2, <1>3, <2>1, <2>2
           DEF LockInv, HandlerInv, Booting, Checking, OnASlot, OnAPlayer, Free, Slot
<1>5. ClaimInv(s)'
  <2>1. \A j \in Slots : Claims(s, j)' => Claims(s, j) /\ slots'[s][j] = slots[s][j]
    BY <1>2, <1>3 DEF Claims, InGame, Booting, Stopping, Free, Slot
  <2>2. QED BY <1>3, <2>1 DEF LockInv, ClaimInv
<1>6. QED BY <1>1, <1>4, <1>5, ServerStepInv

LEMMA DisconnectLock ==
  ASSUME TypeOK, LockInv, NEW s \in Servers, NEW i \in Slots, DisconnectPlayer(s, i)
  PROVE  LockInv'
BY BeginLock, FreeJoiningLock DEF DisconnectPlayer, db

LEMMA BNCSLock ==
  ASSUME TypeOK, LockInv, NEW s \in Servers, NEW c \in Clients, NEW a \in Accounts,
         HandleBNCSMessage(s, c, a)
  PROVE  LockInv'
<1>1. UNCHANGED <<registered, current_server>> /\ step[s] = "idle" /\ NewRequest(s)
  BY DEF HandleBNCSMessage, db, NewRequest
<1>2. CASE /\ step' = [step EXCEPT ![s] = "check_account"] /\ UNCHANGED cur
           /\ \E i \in Slots : slots[s][i].state = "joining" /\ UpdateSlot(s, i, Free)
  BY <1>1, <1>2, FreeJoiningLock
<1>3. CASE \E i \in Slots : /\ slots[s][i].state = "playing"
                            /\ step' = [step EXCEPT ![s] = "release_lock"]
                            /\ cur' = [cur EXCEPT ![s] = i]
                            /\ UNCHANGED slots
  BY <1>1, <1>3, BeginLock
<1>4. CASE step' = [step EXCEPT ![s] = "check_account"] /\ UNCHANGED <<cur, slots>>
  <2>1. \A t \in Servers \ {s} : Untouched(t)
    BY <1>1, <1>4 DEF Untouched, TypeOK, NewRequest
  <2>2. step'[s] = "check_account"
    BY <1>4 DEF TypeOK
  <2>3. req'[s] # NoRequest /\ req'[s].account \in Accounts /\ req'[s].client \in Clients
    BY <1>1 DEF TypeOK, Request, NoRequest, NewRequest
  <2>4. HandlerInv(s)'
    BY <1>4, <2>2, <2>3 DEF LockInv, HandlerInv, Booting, Checking, OnASlot, OnAPlayer
  <2>5. ClaimInv(s)'
    <3>1. \A j \in Slots : Claims(s, j)' => Claims(s, j)
      BY <1>1, <1>4, <2>2 DEF Claims, InGame, Booting, Stopping
    <3>2. QED BY <1>1, <1>4, <2>2, <3>1 DEF LockInv, ClaimInv
  <2>6. QED BY <1>1, <2>1, <2>4, <2>5, ServerStepInv
<1>5. QED BY <1>2, <1>3, <1>4 DEF HandleBNCSMessage

LEMMA AllocateLock ==
  ASSUME TypeOK, LockInv, NEW s \in Servers, Allocate(s)
  PROVE  LockInv'
<1>1. /\ UNCHANGED <<registered, current_server>>
      /\ step[s] = "allocate" /\ step' = [step EXCEPT ![s] = "idle"]
      /\ cur' = [cur EXCEPT ![s] = NoSlot] /\ req' = [req EXCEPT ![s] = NoRequest]
      /\ \/ UNCHANGED slots
         \/ \E i \in Slots : UpdateSlot(s, i, Slot("joining", req[s].client, req[s].account,
                                                   req[s].known, NoPC))
  BY DEF Allocate, Finish, Goto, db
<1>2. \A t \in Servers \ {s} : Untouched(t)
  BY <1>1 DEF Untouched, TypeOK, UpdateSlot
<1>3. step'[s] = "idle" /\ req'[s] = NoRequest
  BY <1>1 DEF TypeOK
<1>4. req[s].account \in Accounts /\ req[s].client \in Clients
  BY <1>1 DEF LockInv, HandlerInv, Checking
<1>5. \A j \in Slots : \/ slots'[s][j] = slots[s][j]
                       \/ slots'[s][j] = Slot("joining", req[s].client, req[s].account,
                                              req[s].known, NoPC)
  BY <1>1 DEF UpdateSlot, TypeOK
<1>6. HandlerInv(s)'
  BY <1>3, <1>4, <1>5 DEF LockInv, HandlerInv, Booting, Checking, OnASlot, OnAPlayer, Slot
<1>7. ClaimInv(s)'
  <2>1. \A j \in Slots : Claims(s, j)' => Claims(s, j) /\ slots'[s][j] = slots[s][j]
    BY <1>1, <1>3, <1>5 DEF Claims, InGame, Booting, Stopping, Slot
  <2>2. QED BY <1>1, <1>3, <2>1 DEF LockInv, ClaimInv
<1>8. QED BY <1>1, <1>2, <1>6, <1>7, ServerStepInv

\* The UPDATE that takes a free account, or the INSERT of a new one.
LEMMA SetConnectedLock ==
  ASSUME TypeOK, LockInv, NEW s \in Servers, SetPlayerConnectedInDb(s)
  PROVE  LockInv'
<1> DEFINE a == Current(s).account
<1>1. cur[s] \in Slots /\ Current(s) = slots[s][cur[s]] /\ a \in Accounts
      /\ step[s] = "set_connected" /\ slots[s][cur[s]].state # "free"
  BY DEF SetPlayerConnectedInDb, Finish, Goto, LockInv, HandlerInv, OnASlot, OnAPlayer, Current
<1>2. UNCHANGED slots
  BY DEF SetPlayerConnectedInDb
<1>3. CASE /\ Finish(s, "set_connected")
           /\ UNCHANGED <<registered, current_server>>
  <2>1. \A t \in Servers \ {s} : Untouched(t)
    BY <1>2, <1>3 DEF Finish, Goto, Untouched, TypeOK
  <2>2. step'[s] = "idle" /\ req'[s] = NoRequest
    BY <1>3 DEF Finish, Goto, TypeOK
  <2>3. HandlerInv(s)'
    BY <1>2, <2>2 DEF LockInv, HandlerInv, Booting, Checking, OnASlot, OnAPlayer
  <2>4. ClaimInv(s)'
    <3>1. \A j \in Slots : Claims(s, j)' => Claims(s, j)
      BY <1>1, <1>2, <2>2 DEF Claims, InGame, Booting, Stopping
    <3>2. QED BY <1>2, <1>3, <2>2, <3>1 DEF LockInv, ClaimInv
  <2>5. QED BY <1>3, <2>1, <2>3, <2>4, ServerStepInv
<1>4. CASE /\ current_server[a] = NoServer
           /\ step' = [step EXCEPT ![s] = "register_cdkey"]
           /\ registered' = registered \cup {a}
           /\ current_server' = [current_server EXCEPT ![a] = s]
           /\ UNCHANGED <<cur, req>>
  <2>1. \A t \in Servers \ {s} : Untouched(t)
    BY <1>2, <1>4 DEF Untouched, TypeOK
  <2>2. step'[s] = "register_cdkey"
    BY <1>4 DEF TypeOK
  <2>3. \A j \in Slots : Claims(s, j) => slots[s][j].account # a
    BY <1>1, <1>4 DEF LockInv, ClaimInv
  <2>4. slots[s][cur[s]].state = "joining"
    <3>1. slots[s][cur[s]].state = "playing" => Claims(s, cur[s])
      BY <1>1 DEF Claims, InGame, Booting, Stopping
    <3>2. slots[s][cur[s]].state \in {"free", "joining", "playing"}
      BY <1>1 DEF TypeOK, SlotRecords
    <3>3. QED BY <1>1, <2>3, <3>1, <3>2
  <2>5. HandlerInv(s)'
    BY <1>1, <1>2, <1>4, <2>2, <2>4 DEF LockInv, HandlerInv, Booting, Checking, OnASlot, OnAPlayer
  <2>6. ClaimInv(s)'
    <3>1. \A j \in Slots : Claims(s, j)' => Claims(s, j) \/ j = cur[s]
      BY <1>1, <1>2, <1>4, <2>2 DEF Claims, InGame, Booting, Stopping
    <3>2. \A j \in Slots : Claims(s, j)' => current_server'[slots[s][j].account] = s
      <4>1. current_server'[a] = s
        BY <1>1, <1>4 DEF TypeOK
      <4>2. \A j \in Slots : Claims(s, j) => current_server'[slots[s][j].account] = s
        BY <1>1, <1>4, <2>3 DEF LockInv, ClaimInv, TypeOK
      <4>3. QED BY <1>1, <3>1, <4>1, <4>2
    <3>3. QED BY <1>1, <1>2, <2>2, <2>3, <3>1, <3>2 DEF LockInv, ClaimInv
  <2>7. \A b \in Accounts : current_server'[b] # NoServer =>
          b \in registered' \/ current_server[b] # NoServer
    BY <1>4 DEF TypeOK
  <2>8. QED BY <1>4, <2>1, <2>5, <2>6, <2>7, ServerStepInv
<1>5. \/ Current(s).known /\ a \in registered /\ current_server[a] = NoServer
      \/ ~Current(s).known /\ a \notin registered
      => current_server[a] = NoServer
  BY <1>1 DEF LockInv
<1>6. QED BY <1>3, <1>4, <1>5 DEF SetPlayerConnectedInDb

\* Steps that rewrite the slot the handler works on and keep its account.
LEMMA RegisterLock ==
  ASSUME TypeOK, LockInv, NEW s \in Servers, RegisterCdkey(s)
  PROVE  LockInv'
<1>1. cur[s] \in Slots /\ Current(s) = slots[s][cur[s]] /\ step[s] = "register_cdkey"
      /\ slots[s][cur[s]].state = "joining"
      /\ UNCHANGED <<registered, current_server>>
  BY DEF RegisterCdkey, Finish, Goto, LockInv, HandlerInv, OnASlot, OnAPlayer, Current
<1>2. \A j \in Slots : slots'[s][j] = IF j = cur[s]
        THEN Slot("playing", slots[s][j].client, slots[s][j].account, slots[s][j].known, NoPC)
        ELSE slots[s][j]
  BY <1>1 DEF RegisterCdkey, UpdateSlot, TypeOK
<1>3. \A t \in Servers \ {s} : Untouched(t)
  BY <1>1 DEF RegisterCdkey, UpdateSlot, Finish, Goto, Untouched, TypeOK
<1>4. step'[s] = "idle" /\ req'[s] = NoRequest
  <2>1. Finish(s, "register_cdkey")
    BY DEF RegisterCdkey
  <2>2. QED BY <2>1 DEF Finish, Goto, TypeOK
<1>5. \A j \in Slots : slots'[s][j].account = slots[s][j].account
                       /\ (Claims(s, j)' => Claims(s, j))
  <2>1. \A j \in Slots : slots'[s][j].account = slots[s][j].account
    BY <1>2, SlotFields
  <2>2. \A j \in Slots : j # cur[s] /\ Claims(s, j)' => Claims(s, j)
    BY <1>1, <1>2, <1>4 DEF Claims, InGame, Booting, Stopping
  <2>3. Claims(s, cur[s])
    BY <1>1 DEF Claims
  <2>4. QED BY <2>1, <2>2, <2>3
<1>6. HandlerInv(s)'
  BY <1>1, <1>2, <1>4, SlotFields DEF LockInv, HandlerInv, Booting, Checking, OnASlot, OnAPlayer
<1>7. ClaimInv(s)'
  BY <1>1, <1>4, <1>5 DEF LockInv, ClaimInv
<1>8. QED BY <1>1, <1>3, <1>6, <1>7, ServerStepInv

LEMMA EntryLock ==
  ASSUME TypeOK, LockInv, NEW s \in Servers, FindPc(s) \/ InsertPc(s)
  PROVE  LockInv'
<1>1. /\ cur[s] \in Slots /\ Current(s) = slots[s][cur[s]]
      /\ step[s] \in {"find_pc", "insert_pc"} /\ step' = [step EXCEPT ![s] = "insert_row"]
      /\ slots[s][cur[s]].state # "free"
      /\ UNCHANGED <<registered, current_server, cur, req>>
  BY DEF FindPc, InsertPc, Goto, db, LockInv, HandlerInv, OnASlot, OnAPlayer, Current
<1>2. PICK pc : UpdateSlot(s, cur[s], Slot("playing", Current(s).client, Current(s).account,
                                           Current(s).known, pc))
  BY DEF FindPc, InsertPc, PlayPc
<1>3. \A j \in Slots : slots'[s][j] = IF j = cur[s]
        THEN Slot("playing", slots[s][j].client, slots[s][j].account, slots[s][j].known, pc)
        ELSE slots[s][j]
  BY <1>1, <1>2 DEF UpdateSlot, TypeOK
<1>4. \A t \in Servers \ {s} : Untouched(t)
  BY <1>1, <1>2 DEF UpdateSlot, Untouched, TypeOK
<1>5. step'[s] = "insert_row"
  BY <1>1 DEF TypeOK
<1>6. \A j \in Slots : slots'[s][j].account = slots[s][j].account
                       /\ (Claims(s, j)' => Claims(s, j))
  <2>1. \A j \in Slots : slots'[s][j].account = slots[s][j].account
    BY <1>3, SlotFields
  <2>2. \A j \in Slots : j # cur[s] /\ Claims(s, j)' => Claims(s, j)
    BY <1>1, <1>3, <1>5 DEF Claims, InGame, Booting, Stopping
  <2>3. Claims(s, cur[s])
    BY <1>1 DEF Claims, InGame, Booting, Stopping, LockInv, HandlerInv, OnAPlayer
  <2>4. QED BY <2>1, <2>2, <2>3
<1>7. HandlerInv(s)'
  BY <1>1, <1>3, <1>5, SlotFields
     DEF LockInv, HandlerInv, Booting, Checking, OnASlot, OnAPlayer
<1>8. ClaimInv(s)'
  BY <1>1, <1>5, <1>6 DEF LockInv, ClaimInv
<1>9. QED BY <1>1, <1>4, <1>7, <1>8, ServerStepInv

LEMMA InsertRowLock ==
  ASSUME TypeOK, LockInv, NEW s \in Servers, InsertRow(s)
  PROVE  LockInv'
<1>1. /\ UNCHANGED <<registered, current_server, slots>>
      /\ step[s] = "insert_row" /\ Finish(s, "insert_row")
  BY DEF InsertRow, Finish, Goto
<1>2. \A t \in Servers \ {s} : Untouched(t)
  BY <1>1 DEF Finish, Goto, Untouched, TypeOK
<1>3. step'[s] = "idle" /\ req'[s] = NoRequest
  BY <1>1 DEF Finish, Goto, TypeOK
<1>4. HandlerInv(s)'
  BY <1>1, <1>3 DEF LockInv, HandlerInv, Booting, Checking, OnASlot, OnAPlayer
<1>5. ClaimInv(s)'
  <2>1. \A j \in Slots : Claims(s, j)' => Claims(s, j)
    BY <1>1, <1>3 DEF Claims, InGame, Booting, Stopping
  <2>2. QED BY <1>1, <1>3, <2>1 DEF LockInv, ClaimInv
<1>6. QED BY <1>1, <1>2, <1>4, <1>5, ServerStepInv

\* reset_player_current_server takes the lock from nobody in the game.
LEMMA ReleaseLockLock ==
  ASSUME TypeOK, LockInv, NEW s \in Servers, ReleaseLock(s)
  PROVE  LockInv'
<1>1. /\ UNCHANGED <<registered, slots, cur, req>>
      /\ step[s] = "release_lock" /\ step' = [step EXCEPT ![s] = "close_rows"]
      /\ cur[s] \in Slots /\ Current(s) = slots[s][cur[s]]
  BY DEF ReleaseLock, Goto, LockInv, HandlerInv, OnASlot, OnAPlayer, Current
<1>2. \A a \in Accounts : current_server'[a] =
        IF a = Current(s).account /\ current_server[a] = s THEN NoServer ELSE current_server[a]
  BY DEF ReleaseLock, ReleaseAccounts, HeldBy
<1>3. \A t \in Servers \ {s} : Untouched(t)
  BY <1>1, <1>2 DEF Untouched, TypeOK
<1>4. step'[s] = "close_rows"
  BY <1>1 DEF TypeOK
<1>5. HandlerInv(s)'
  BY <1>1, <1>4 DEF LockInv, HandlerInv, Booting, Checking, OnASlot, OnAPlayer
<1>6. ClaimInv(s)'
  <2>1. \A j \in Slots : Claims(s, j)' =>
          Claims(s, j) /\ InGame(s, j) /\ slots[s][j].account \in Accounts
    BY <1>1, <1>4 DEF Claims, InGame, Booting, Stopping, LockInv, HandlerInv
  <2>2. \A j \in Slots : Claims(s, j)' => slots[s][j].account # Current(s).account
    BY <1>1, <2>1 DEF LockInv, ClaimInv
  <2>3. QED BY <1>1, <1>2, <1>4, <2>1, <2>2 DEF LockInv, ClaimInv
<1>7. QED BY <1>1, <1>2, <1>3, <1>5, <1>6, ServerStepInv

LEMMA CloseRowsLock ==
  ASSUME TypeOK, LockInv, NEW s \in Servers, CloseRows(s) \/ CloseRowsStopping(s)
  PROVE  LockInv'
<1>1. /\ UNCHANGED <<registered, current_server, req>>
      /\ cur' = [cur EXCEPT ![s] = NoSlot]
      /\ step[s] \in {"close_rows", "close_rows_stopping"}
      /\ UpdateSlot(s, cur[s], Free)
  BY DEF CloseRows, CloseRowsStopping, Goto
<1>2. \/ step[s] = "close_rows_stopping" /\ step' = [step EXCEPT ![s] = "stopping"]
      \/ step[s] = "close_rows" /\ step' = [step EXCEPT ![s] = "idle"]
      \/ /\ step[s] = "close_rows" /\ req[s] # NoRequest
         /\ step' = [step EXCEPT ![s] = "check_account"]
  BY DEF CloseRows, CloseRowsStopping, Goto
<1>3. cur[s] \in Slots
  BY <1>1 DEF LockInv, HandlerInv, OnASlot, OnAPlayer
<1>4. \A j \in Slots : slots'[s][j] = IF j = cur[s] THEN Free ELSE slots[s][j]
  BY <1>1, <1>3 DEF UpdateSlot, TypeOK
<1>5. \A t \in Servers \ {s} : Untouched(t)
  BY <1>1, <1>2 DEF Untouched, TypeOK, UpdateSlot
<1>6. /\ step'[s] \in {"idle", "stopping", "check_account"}
      /\ step'[s] = "check_account" => req[s] # NoRequest
      /\ step[s] = "close_rows_stopping" => step'[s] = "stopping"
  BY <1>1, <1>2 DEF TypeOK
<1>7. HandlerInv(s)'
  BY <1>1, <1>4, <1>6
     DEF LockInv, HandlerInv, Booting, Checking, OnASlot, OnAPlayer, Free, Slot
<1>8. ClaimInv(s)'
  <2>1. \A j \in Slots : Claims(s, j)' => j # cur[s] /\ slots'[s][j] = slots[s][j]
    BY <1>4, <1>6 DEF Claims, InGame, Free, Slot
  <2>2. \A j \in Slots : Claims(s, j)' => Claims(s, j)
    <3>1. CASE step[s] = "close_rows"
      BY <1>6, <2>1, <3>1 DEF Claims, InGame, Booting, Stopping
    <3>2. CASE step[s] = "close_rows_stopping"
      BY <1>6, <2>1, <3>2 DEF Claims, InGame, Booting, Stopping
    <3>3. QED BY <1>1, <3>1, <3>2
  <2>3. QED BY <1>1, <1>6, <2>1, <2>2 DEF LockInv, ClaimInv
<1>9. QED BY <1>1, <1>5, <1>7, <1>8, ServerStepInv

\* A server that stops, and one that dies, has nobody in the game.
LEMMA StopLock ==
  ASSUME TypeOK, LockInv, NEW s \in Servers, Stop(s)
  PROVE  LockInv'
<1>1. /\ UNCHANGED <<registered, current_server, slots, cur, req>>
      /\ step[s] = "idle" /\ step' = [step EXCEPT ![s] = "stopping"]
  BY DEF Stop, Goto, db
<1>2. step'[s] = "stopping"
  BY <1>1 DEF TypeOK
<1>3. \A t \in Servers \ {s} : Untouched(t)
  BY <1>1 DEF Untouched, TypeOK
<1>4. HandlerInv(s)'
  BY <1>1, <1>2 DEF LockInv, HandlerInv, Booting, Checking, OnASlot, OnAPlayer
<1>5. \A j \in Slots : ~Claims(s, j)'
  BY <1>2 DEF Claims, InGame, Stopping
<1>6. ClaimInv(s)'
  BY <1>2, <1>5 DEF ClaimInv
<1>7. QED BY <1>1, <1>3, <1>4, <1>6, ServerStepInv

LEMMA ReleaseAllLock ==
  ASSUME TypeOK, LockInv, NEW s \in Servers, NEW i \in Slots, ReleaseAll(s, i)
  PROVE  LockInv'
<1>1. /\ UNCHANGED <<registered, slots, req>>
      /\ cur' = [cur EXCEPT ![s] = i]
      /\ slots[s][i].state = "playing"
      /\ step[s] = "stopping" /\ step' = [step EXCEPT ![s] = "close_rows_stopping"]
  BY DEF ReleaseAll, Goto
<1>2. \A a \in Accounts : current_server'[a] =
        IF current_server[a] = s THEN NoServer ELSE current_server[a]
  BY DEF ReleaseAll, ReleaseAccounts, HeldBy
<1>3. step'[s] = "close_rows_stopping" /\ cur'[s] = i
  BY <1>1 DEF TypeOK
<1>4. \A t \in Servers \ {s} : Untouched(t)
  BY <1>1, <1>2 DEF Untouched, TypeOK
<1>5. HandlerInv(s)'
  BY <1>1, <1>3 DEF LockInv, HandlerInv, Booting, Checking, OnASlot, OnAPlayer
<1>6. \A j \in Slots : ~Claims(s, j)'
  BY <1>3 DEF Claims, InGame, Stopping
<1>7. ClaimInv(s)'
  BY <1>3, <1>6 DEF ClaimInv
<1>8. QED BY <1>1, <1>2, <1>4, <1>5, <1>7, ServerStepInv

LEMMA DieLock ==
  ASSUME TypeOK, LockInv, NEW s \in Servers, Die(s)
  PROVE  LockInv'
<1>1. \A t \in Servers \ {s} : Untouched(t)
  BY DEF Die, db, Untouched, TypeOK
<1>2. /\ step'[s] = "down" /\ req'[s] = NoRequest /\ slots'[s] = [i \in Slots |-> Free]
      /\ UNCHANGED <<registered, current_server>>
  BY DEF Die, db, TypeOK
<1>3. HandlerInv(s)'
  BY <1>2 DEF HandlerInv, Checking, OnASlot, OnAPlayer, Free, Slot
<1>4. \A j \in Slots : ~Claims(s, j)'
  BY <1>2 DEF Claims, InGame, Booting
<1>5. ClaimInv(s)'
  BY <1>2, <1>4 DEF ClaimInv
<1>6. QED BY <1>1, <1>2, <1>3, <1>5, ServerStepInv

\* What the web site does, and a stuttering step, touches no server.
LEMMA WebSiteLock ==
  ASSUME TypeOK, LockInv,
         UNCHANGED vars \/ \E a \in Accounts : Unlock(a) \/ UnlockExpires(a)
  PROVE  LockInv'
<1>1. UNCHANGED <<registered, current_server, step, cur, req, slots>>
  BY DEF Unlock, UnlockExpires, vars, db
<1>2. \A t \in Servers : Untouched(t)
  BY <1>1 DEF Untouched
<1>3. QED BY <1>1, <1>2, UntouchedInv DEF LockInv

LEMMA NextLock == TypeOK /\ LockInv /\ [Next]_vars => LockInv'
<1> SUFFICES ASSUME TypeOK, LockInv, [Next]_vars PROVE LockInv'
  OBVIOUS
<1>1. ASSUME NEW s \in Servers, Start(s) \/ HandlerStep(s) PROVE LockInv'
  BY <1>1, StartLock, PrepareLocksLock, CheckLock, AllocateLock, SetConnectedLock,
     RegisterLock, EntryLock, InsertRowLock, ReleaseLockLock, CloseRowsLock,
     ReleaseAllLock, DieLock DEF HandlerStep, Exit
<1>2. ASSUME NEW s \in Servers, Event(s) \/ Stop(s) \/ Crash(s) PROVE LockInv'
  BY <1>2, BNCSLock, EventLock, DisconnectLock, StopLock, DieLock DEF Event, Crash
<1>3. QED BY <1>1, <1>2, WebSiteLock DEF Next

-----------------------------------------------------------------------------
(* Theorems                                                                *)

\* In every reachable state of any number of servers the variables have their
\* types and the lock invariant holds.
THEOREM TypeAndLock == Spec => [](TypeOK /\ LockInv)
<1>1. Init => TypeOK /\ LockInv
  BY InitType, InitLock
<1>2. TypeOK /\ LockInv /\ [Next]_vars => (TypeOK /\ LockInv)'
  BY NextType, NextLock
<1>3. QED BY <1>1, <1>2, PTL DEF Spec

\* Type correctness of the login protocol.
THEOREM TypeCorrect == Spec => []TypeOK
BY TypeAndLock, PTL

LEMMA LockInvImpliesNoDoubleLogin == TypeOK /\ LockInv => NoDoubleLogin
<1> SUFFICES ASSUME TypeOK, LockInv,
                    NEW s \in Servers, NEW t \in Servers, NEW i \in Slots, NEW j \in Slots,
                    InGame(s, i), InGame(t, j), slots[s][i].account = slots[t][j].account
             PROVE  s = t /\ i = j
  BY DEF NoDoubleLogin
<1>1. Claims(s, i) /\ Claims(t, j)
  BY DEF Claims
<1>2. s = t
  BY <1>1 DEF LockInv, ClaimInv
<1>3. i = j
  BY <1>1, <1>2 DEF LockInv, ClaimInv
<1>4. QED BY <1>2, <1>3

\* No interleaving of the servers' handlers, crash or restart puts an account
\* in the game twice.
THEOREM NoDoubleLoginAlways == Spec => []NoDoubleLogin
BY TypeAndLock, LockInvImpliesNoDoubleLogin, PTL

-----------------------------------------------------------------------------
(* What a step of one server leaves to the others                          *)

\* A step of server s leaves the others and what they hold alone, and takes
\* accounts for s only.
Alone(s) ==
  /\ \A t \in Servers \ {s} : Untouched(t)
  /\ \A a \in Accounts : current_server'[a] \in {current_server[a], s, NoServer}

LEMMA HandlerAlone ==
  ASSUME TypeOK, LockInv, NEW s \in Servers, HandlerStep(s)
  PROVE  Alone(s)
<1>1. CASE PrepareRows(s)
  BY <1>1 DEF Alone, Untouched, PrepareRows, Goto, TypeOK
<1>2. CASE PrepareLocks(s)
  BY <1>2 DEF Alone, Untouched, PrepareLocks, Goto, TypeOK, ReleaseAccounts, HeldBy
<1>3. CASE CheckAccount(s)
  <2>1. \E r : req' = [req EXCEPT ![s] = r]
    BY <1>3 DEF CheckAccount
  <2>2. QED BY <1>3, <2>1 DEF Alone, Untouched, CheckAccount, Goto, TypeOK, db
<1>4. CASE Refuse(s) \/ CountPcs(s)
  BY <1>4 DEF Alone, Untouched, Refuse, CountPcs, Finish, Goto, TypeOK, db
<1>5. CASE CheckCdkeys(s) \/ CheckUnlocked(s) \/ DeleteUnlocked(s) \/ DeleteCdkeys(s)
  BY <1>5
     DEF Alone, Untouched, CheckCdkeys, CheckUnlocked, DeleteUnlocked, DeleteCdkeys, Goto, TypeOK, db
<1>6. CASE Allocate(s)
  BY <1>6 DEF Alone, Untouched, Allocate, Finish, Goto, UpdateSlot, TypeOK, db
<1>7. CASE SetPlayerConnectedInDb(s)
  <2>1. cur[s] \in Slots /\ Current(s).account \in Accounts
    BY <1>7 DEF LockInv, HandlerInv, OnASlot, OnAPlayer, SetPlayerConnectedInDb, Finish, Goto,
                Current
  <2>2. \A t \in Servers \ {s} : /\ step'[t] = step[t] /\ cur'[t] = cur[t]
                                 /\ req'[t] = req[t] /\ slots'[t] = slots[t]
    BY <1>7 DEF SetPlayerConnectedInDb, Finish, Goto, TypeOK
  <2>3. \/ UNCHANGED current_server
        \/ /\ current_server[Current(s).account] = NoServer
           /\ current_server' = [current_server EXCEPT ![Current(s).account] = s]
    BY <1>7, <2>1 DEF SetPlayerConnectedInDb, LockInv
  <2>4. QED BY <2>1, <2>2, <2>3 DEF Alone, Untouched, TypeOK
<1>8. CASE RegisterCdkey(s)
  BY <1>8 DEF Alone, Untouched, RegisterCdkey, Finish, Goto, UpdateSlot, TypeOK
<1>9. CASE FindPc(s) \/ InsertPc(s)
  BY <1>9 DEF Alone, Untouched, FindPc, InsertPc, PlayPc, Goto, UpdateSlot, TypeOK, db
<1>10. CASE InsertRow(s)
  BY <1>10 DEF Alone, Untouched, InsertRow, Finish, Goto, TypeOK
<1>11. CASE ReleaseLock(s)
  BY <1>11 DEF Alone, Untouched, ReleaseLock, Goto, ReleaseAccounts, HeldBy, TypeOK
<1>12. CASE CloseRows(s) \/ CloseRowsStopping(s)
  BY <1>12 DEF Alone, Untouched, CloseRows, CloseRowsStopping, Goto, UpdateSlot, TypeOK
<1>13. CASE \E i \in Slots : ReleaseAll(s, i)
  BY <1>13 DEF Alone, Untouched, ReleaseAll, Goto, ReleaseAccounts, HeldBy, TypeOK
<1>14. CASE Exit(s)
  BY <1>14 DEF Alone, Untouched, Exit, Die, TypeOK, db
<1>15. QED
  BY <1>1, <1>2, <1>3, <1>4, <1>5, <1>6, <1>7, <1>8, <1>9, <1>10, <1>11, <1>12, <1>13,
     <1>14 DEF HandlerStep

LEMMA EventAlone ==
  ASSUME TypeOK, NEW s \in Servers, Start(s) \/ Event(s) \/ Stop(s) \/ Crash(s)
  PROVE  Alone(s)
<1>1. CASE Start(s) \/ Stop(s)
  BY <1>1 DEF Alone, Untouched, Start, Stop, Goto, TypeOK, db
<1>2. CASE Crash(s)
  BY <1>2 DEF Alone, Untouched, Crash, Die, TypeOK, db
<1>3. CASE \E c \in Clients, a \in Accounts : HandleBNCSMessage(s, c, a)
  <2>1. UNCHANGED current_server /\ \E r : req' = [req EXCEPT ![s] = r]
    BY <1>3 DEF HandleBNCSMessage, db
  <2>2. \A t \in Servers \ {s} : /\ step'[t] = step[t] /\ cur'[t] = cur[t]
                                 /\ slots'[t] = slots[t]
    BY <1>3 DEF HandleBNCSMessage, UpdateSlot, TypeOK
  <2>3. QED BY <2>1, <2>2 DEF Alone, Untouched, TypeOK
<1>4. CASE \E i \in Slots : HandleBNVSMessage(s, i) \/ SendModuleInfo(s, i) \/ PC_Create(s, i)
  BY <1>4 DEF Alone, Untouched, HandleBNVSMessage, SendModuleInfo, PC_Create, Goto, TypeOK, db
<1>5. CASE \E i \in Slots : DisconnectPlayer(s, i)
  BY <1>5 DEF Alone, Untouched, DisconnectPlayer, UpdateSlot, TypeOK, db
<1>6. QED BY <1>1, <1>2, <1>3, <1>4, <1>5 DEF Event

-----------------------------------------------------------------------------
(* Locks that somebody will release                                        *)

\* A step of s keeps the invariant when s itself comes out well.
LEMMA AloneReleaseInv ==
  ASSUME TypeOK, LockInv, NEW s \in Servers, Alone(s), ReleaseInv(s)',
         \A t \in Servers : ReleaseInv(t)
  PROVE  \A t \in Servers : ReleaseInv(t)'
<1> SUFFICES ASSUME NEW t \in Servers PROVE ReleaseInv(t)'
  OBVIOUS
<1>1. CASE t = s
  BY <1>1
<1>2. CASE t # s
  <2>1. Untouched(t) /\ HeldBy(t)' \subseteq HeldBy(t)
    <3>1. Untouched(t)
      BY <1>2 DEF Alone
    <3>2. \A a \in Accounts : current_server'[a] \in {current_server[a], s, NoServer}
      BY DEF Alone
    <3>3. QED BY <1>2, <3>1, <3>2 DEF HeldBy
  <2>2. \A a \in HeldBy(t)' : Released(t, a)'
    BY <2>1 DEF ReleaseInv, Released, Untouched
  <2>3. step'[t] \in {"close_rows", "close_rows_stopping"} => Current(t)'.account \notin HeldBy(t)'
    BY <2>1 DEF ReleaseInv, Current, Untouched
  <2>4. QED BY <2>2, <2>3 DEF ReleaseInv
<1>3. QED BY <1>1, <1>2

\* A step that takes no lock and leaves every player in its slot.
LEMMA PlayersStay ==
  ASSUME NEW s \in Servers, ReleaseInv(s),
         HeldBy(s)' \subseteq HeldBy(s),
         \A i \in Slots : slots[s][i].state = "playing" =>
           slots'[s][i].state = "playing" /\ slots'[s][i].account = slots[s][i].account,
         step[s] # "register_cdkey",
         step[s] \in Booting => step'[s] \in Booting,
         step'[s] \notin {"close_rows", "close_rows_stopping"}
  PROVE  ReleaseInv(s)'
BY DEF ReleaseInv, Released

LEMMA StartRelease ==
  ASSUME TypeOK, LockInv, NEW s \in Servers, ReleaseInv(s), Start(s) \/ PrepareRows(s)
  PROVE  ReleaseInv(s)'
<1>1. UNCHANGED <<current_server, slots>>
      /\ step[s] \in Booting /\ step'[s] \in {"prepare_rows", "prepare_locks"}
  BY DEF Start, PrepareRows, Goto, db, Booting, TypeOK
<1>2. QED BY <1>1, PlayersStay DEF HeldBy, Booting

LEMMA PrepareLocksRelease ==
  ASSUME TypeOK, NEW s \in Servers, PrepareLocks(s)
  PROVE  ReleaseInv(s)'
<1>1. step'[s] = "idle"
  BY DEF PrepareLocks, Goto, TypeOK
<1>2. HeldBy(s)' = {}
  BY DEF PrepareLocks, ReleaseAccounts, HeldBy
<1>3. QED BY <1>1, <1>2 DEF ReleaseInv

LEMMA CheckRelease ==
  ASSUME TypeOK, NEW s \in Servers, ReleaseInv(s),
         \/ CheckAccount(s) \/ Refuse(s) \/ CheckCdkeys(s) \/ CheckUnlocked(s)
         \/ DeleteUnlocked(s) \/ CountPcs(s) \/ DeleteCdkeys(s)
  PROVE  ReleaseInv(s)'
<1>1. UNCHANGED <<current_server, slots>> /\ step[s] \in Checking
      /\ \E to \in Checking \cup {"idle"} : step' = [step EXCEPT ![s] = to]
  <2>1. CASE CheckAccount(s)
    BY <2>1 DEF CheckAccount, Goto, db, Checking
  <2>2. CASE Refuse(s) \/ CountPcs(s)
    BY <2>2 DEF Refuse, CountPcs, Finish, Goto, db, Checking
  <2>3. CASE CheckCdkeys(s) \/ CheckUnlocked(s) \/ DeleteUnlocked(s) \/ DeleteCdkeys(s)
    BY <2>3 DEF CheckCdkeys, CheckUnlocked, DeleteUnlocked, DeleteCdkeys, Goto, db, Checking
  <2>4. QED BY <2>1, <2>2, <2>3
<1>2. step'[s] \in Checking \cup {"idle"}
  BY <1>1 DEF TypeOK
<1>3. QED BY <1>1, <1>2, PlayersStay DEF HeldBy, Booting, Checking

LEMMA AllocateRelease ==
  ASSUME TypeOK, NEW s \in Servers, ReleaseInv(s), Allocate(s)
  PROVE  ReleaseInv(s)'
<1>1. UNCHANGED current_server /\ step[s] = "allocate" /\ step'[s] = "idle"
  BY DEF Allocate, Finish, Goto, db, TypeOK
<1>2. \A i \in Slots : slots'[s][i] = slots[s][i] \/ slots[s][i] = Free
  BY DEF Allocate, UpdateSlot, TypeOK
<1>3. \A i \in Slots : slots[s][i].state = "playing" => slots'[s][i] = slots[s][i]
  BY <1>2 DEF Free, Slot
<1>4. QED BY <1>1, <1>3, PlayersStay DEF HeldBy, Booting

LEMMA SetConnectedRelease ==
  ASSUME TypeOK, LockInv, NEW s \in Servers, ReleaseInv(s), SetPlayerConnectedInDb(s)
  PROVE  ReleaseInv(s)'
<1>1. /\ UNCHANGED slots /\ step[s] = "set_connected"
      /\ cur[s] \in Slots /\ Current(s) = slots[s][cur[s]]
  BY DEF SetPlayerConnectedInDb, Finish, Goto, LockInv, HandlerInv, OnASlot, OnAPlayer, Current
<1>2. CASE Finish(s, "set_connected") /\ UNCHANGED current_server
  <2>1. step'[s] = "idle"
    BY <1>2 DEF Finish, Goto, TypeOK
  <2>2. QED BY <1>1, <1>2, <2>1, PlayersStay DEF HeldBy, Booting
<1>3. CASE /\ step' = [step EXCEPT ![s] = "register_cdkey"] /\ UNCHANGED cur
           /\ current_server' = [current_server EXCEPT ![Current(s).account] = s]
  <2>1. step'[s] = "register_cdkey" /\ cur'[s] = cur[s]
    BY <1>3 DEF TypeOK
  <2>2. \A a \in HeldBy(s)' : a \in HeldBy(s) \/ a = Current(s).account
    BY <1>3 DEF HeldBy, TypeOK
  <2>3. \A a \in HeldBy(s) : Released(s, a)'
    BY <1>1, <2>1 DEF ReleaseInv, Released, Booting
  <2>4. \A a \in Accounts : a = slots[s][cur[s]].account => Released(s, a)'
    BY <1>1, <2>1 DEF Released
  <2>5. \A a \in HeldBy(s)' : Released(s, a)'
    BY <1>1, <2>2, <2>3, <2>4 DEF HeldBy
  <2>6. QED BY <2>1, <2>5 DEF ReleaseInv
<1>4. QED BY <1>2, <1>3 DEF SetPlayerConnectedInDb

LEMMA RegisterRelease ==
  ASSUME TypeOK, LockInv, NEW s \in Servers, ReleaseInv(s), RegisterCdkey(s)
  PROVE  ReleaseInv(s)'
<1>1. cur[s] \in Slots /\ Current(s) = slots[s][cur[s]] /\ step[s] = "register_cdkey"
      /\ UNCHANGED current_server
  BY DEF RegisterCdkey, Finish, Goto, LockInv, HandlerInv, OnASlot, OnAPlayer, Current
<1>2. \A j \in Slots : slots'[s][j] = IF j = cur[s]
        THEN Slot("playing", slots[s][j].client, slots[s][j].account, slots[s][j].known, NoPC)
        ELSE slots[s][j]
  BY <1>1 DEF RegisterCdkey, UpdateSlot, TypeOK
<1>3. step'[s] = "idle"
  BY DEF RegisterCdkey, Finish, Goto, TypeOK
<1>4. /\ slots'[s][cur[s]].state = "playing"
      /\ \A j \in Slots : slots'[s][j].account = slots[s][j].account
  BY <1>1, <1>2, SlotFields
<1>5. \A a \in HeldBy(s) : Released(s, a)'
  BY <1>1, <1>2, <1>4 DEF ReleaseInv, Released, Booting
<1>6. QED BY <1>1, <1>3, <1>5 DEF ReleaseInv, HeldBy

LEMMA EntryRelease ==
  ASSUME TypeOK, LockInv, NEW s \in Servers, ReleaseInv(s), FindPc(s) \/ InsertPc(s)
  PROVE  ReleaseInv(s)'
<1>1. /\ cur[s] \in Slots /\ Current(s) = slots[s][cur[s]]
      /\ step[s] \in {"find_pc", "insert_pc"} /\ step' = [step EXCEPT ![s] = "insert_row"]
      /\ UNCHANGED current_server
  BY DEF FindPc, InsertPc, Goto, db, LockInv, HandlerInv, OnASlot, OnAPlayer, Current
<1>2. PICK pc : UpdateSlot(s, cur[s], Slot("playing", Current(s).client, Current(s).account,
                                           Current(s).known, pc))
  BY DEF FindPc, InsertPc, PlayPc
<1>3. \A j \in Slots : slots'[s][j] = IF j = cur[s]
        THEN Slot("playing", slots[s][j].client, slots[s][j].account, slots[s][j].known, pc)
        ELSE slots[s][j]
  BY <1>1, <1>2 DEF UpdateSlot, TypeOK
<1>4. \A j \in Slots : slots[s][j].state = "playing" =>
        slots'[s][j].state = "playing" /\ slots'[s][j].account = slots[s][j].account
  BY <1>3, SlotFields
<1>5. step'[s] = "insert_row"
  BY <1>1 DEF TypeOK
<1>6. QED BY <1>1, <1>4, <1>5, PlayersStay DEF HeldBy, Booting

LEMMA InsertRowRelease ==
  ASSUME TypeOK, NEW s \in Servers, ReleaseInv(s), InsertRow(s)
  PROVE  ReleaseInv(s)'
<1>1. UNCHANGED <<current_server, slots>> /\ step[s] = "insert_row" /\ step'[s] = "idle"
  BY DEF InsertRow, Finish, Goto, TypeOK
<1>2. QED BY <1>1, PlayersStay DEF HeldBy, Booting

LEMMA ReleaseLockRelease ==
  ASSUME TypeOK, NEW s \in Servers, ReleaseInv(s), ReleaseLock(s)
  PROVE  ReleaseInv(s)'
<1>1. /\ UNCHANGED <<slots, cur>> /\ step[s] = "release_lock" /\ step'[s] = "close_rows"
      /\ Current(s)' = Current(s)
  BY DEF ReleaseLock, Goto, TypeOK, Current
<1>2. HeldBy(s)' = HeldBy(s) \ {Current(s).account}
  BY DEF ReleaseLock, ReleaseAccounts, HeldBy
<1>3. \A a \in HeldBy(s) : Released(s, a)'
  BY <1>1 DEF ReleaseInv, Released, Booting
<1>4. QED BY <1>1, <1>2, <1>3 DEF ReleaseInv

LEMMA CloseRowsRelease ==
  ASSUME TypeOK, LockInv, NEW s \in Servers, ReleaseInv(s), CloseRows(s) \/ CloseRowsStopping(s)
  PROVE  ReleaseInv(s)'
<1>1. /\ UNCHANGED current_server
      /\ step[s] \in {"close_rows", "close_rows_stopping"}
      /\ step'[s] \in {"idle", "check_account", "stopping"}
      /\ cur[s] \in Slots /\ Current(s) = slots[s][cur[s]]
  BY DEF CloseRows, CloseRowsStopping, Goto, LockInv, HandlerInv, OnASlot, OnAPlayer, Current, TypeOK
<1>2. \A j \in Slots : j # cur[s] => slots'[s][j] = slots[s][j]
  BY DEF CloseRows, CloseRowsStopping, UpdateSlot, TypeOK
<1>3. \A a \in HeldBy(s) : a # slots[s][cur[s]].account
  BY <1>1 DEF ReleaseInv
<1>4. \A a \in HeldBy(s) : Released(s, a)'
  BY <1>1, <1>2, <1>3 DEF ReleaseInv, Released, Booting
<1>5. QED BY <1>1, <1>4 DEF ReleaseInv, HeldBy

LEMMA ReleaseAllRelease ==
  ASSUME TypeOK, NEW s \in Servers, NEW i \in Slots, ReleaseAll(s, i)
  PROVE  ReleaseInv(s)'
<1>1. HeldBy(s)' = {}
  BY DEF ReleaseAll, ReleaseAccounts, HeldBy
<1>2. QED BY <1>1 DEF ReleaseInv

LEMMA DieRelease ==
  ASSUME TypeOK, NEW s \in Servers, Die(s)
  PROVE  ReleaseInv(s)'
<1>1. step'[s] = "down"
  BY DEF Die, TypeOK
<1>2. QED BY <1>1 DEF ReleaseInv, Released, Booting

LEMMA EventRelease ==
  ASSUME TypeOK, NEW s \in Servers, ReleaseInv(s), Event(s) \/ Stop(s)
  PROVE  ReleaseInv(s)'
<1>1. UNCHANGED current_server /\ step[s] = "idle"
  BY DEF Event, HandleBNCSMessage, HandleBNVSMessage, SendModuleInfo, PC_Create,
         DisconnectPlayer, Stop, Goto, db
<1>2. step'[s] \in {"idle", "check_account", "release_lock", "set_connected", "find_pc",
                    "insert_pc", "stopping"}
  BY <1>1 DEF Event, HandleBNCSMessage, HandleBNVSMessage, SendModuleInfo, PC_Create,
         DisconnectPlayer, Stop, Goto, TypeOK
<1>3. \A j \in Slots : slots'[s][j] = slots[s][j] \/ slots[s][j].state = "joining"
  <2>1. \/ UNCHANGED slots
        \/ \E i \in Slots : slots[s][i].state = "joining" /\ UpdateSlot(s, i, Free)
    BY DEF Event, HandleBNCSMessage, HandleBNVSMessage, SendModuleInfo, PC_Create,
           DisconnectPlayer, Stop
  <2>2. QED BY <2>1 DEF UpdateSlot, TypeOK
<1>4. QED BY <1>1, <1>2, <1>3, PlayersStay DEF HeldBy, Booting

LEMMA NextRelease ==
  TypeOK /\ LockInv /\ (\A s \in Servers : ReleaseInv(s)) /\ [Next]_vars
    => \A s \in Servers : ReleaseInv(s)'
<1> SUFFICES ASSUME TypeOK, LockInv, \A s \in Servers : ReleaseInv(s), [Next]_vars
             PROVE  \A s \in Servers : ReleaseInv(s)'
  OBVIOUS
<1>1. ASSUME NEW s \in Servers, Start(s) \/ HandlerStep(s) \/ Event(s) \/ Stop(s) \/ Crash(s)
      PROVE  \A t \in Servers : ReleaseInv(t)'
  <2>1. Alone(s)
    BY <1>1, HandlerAlone, EventAlone
  <2>2. CASE Start(s) \/ HandlerStep(s)
    <3>1. ReleaseInv(s)'
      BY <2>2, StartRelease, PrepareLocksRelease, CheckRelease, AllocateRelease,
         SetConnectedRelease, RegisterRelease, EntryRelease, InsertRowRelease,
         ReleaseLockRelease, CloseRowsRelease, ReleaseAllRelease, DieRelease
         DEF HandlerStep, Exit
    <3>2. QED BY <2>1, <3>1, AloneReleaseInv
  <2>3. CASE Event(s) \/ Stop(s) \/ Crash(s)
    <3>1. ReleaseInv(s)'
      BY <2>3, EventRelease, DieRelease DEF Crash
    <3>2. QED BY <2>1, <3>1, AloneReleaseInv
  <2>4. QED BY <1>1, <2>2, <2>3
<1>2. CASE UNCHANGED vars \/ \E a \in Accounts : Unlock(a) \/ UnlockExpires(a)
  <2>1. UNCHANGED <<current_server, step, cur, slots>>
    BY <1>2 DEF vars, db, Unlock, UnlockExpires
  <2>2. QED BY <2>1 DEF ReleaseInv, Released, HeldBy, Current
<1>3. QED BY <1>1, <1>2 DEF Next

\* While a server runs, every account it holds has a player, or a login, that
\* will give it back: no interleaving of logins, refusals, double BNVS messages
\* and departures leaves a lock without an owner.
THEOREM NoStuckLockAlways == Spec => []NoStuckLock
<1>1. Init => \A s \in Servers : ReleaseInv(s)
  BY DEF Init, ReleaseInv, Released, Booting
<1>2. (\A s \in Servers : ReleaseInv(s)) => NoStuckLock
  BY DEF ReleaseInv, Released, NoStuckLock
<1>3. TypeOK /\ LockInv /\ (\A s \in Servers : ReleaseInv(s)) /\ [Next]_vars
        => (\A s \in Servers : ReleaseInv(s))'
  BY NextRelease
<1>4. QED BY <1>1, <1>2, <1>3, TypeAndLock, PTL DEF Spec

-----------------------------------------------------------------------------
(* Open rows                                                               *)

LEMMA FreeFields == Free.state = "free" /\ Free.pc = NoPC
BY DEF Free, Slot

\* A server that is left alone still accounts for what it accounted for.
LEMMA AloneAccounts ==
  ASSUME TypeOK, NEW s \in Servers, Alone(s), NEW t \in Servers \ {s},
         NEW p, AccountsFor(t, p)
  PROVE  AccountsFor(t, p)'
BY DEF Alone, Untouched, AccountsFor, HeldBy

\* A step of s keeps the invariant when s keeps its slots in order, and every
\* open row is one that s accounts for, or one that another server accounted for.
LEMMA AloneRowInv ==
  ASSUME TypeOK, RowInv, NEW s \in Servers, Alone(s),
         pcs \subseteq pcs',
         open_rows' \subseteq pcs' \cup {NoPC},
         \A i \in Slots : OwnPc(slots[s][i])',
         \A p \in open_rows' \ lost_rows' :
           \/ AccountsFor(s, p)'
           \/ \E t \in Servers \ {s} : AccountsFor(t, p)
  PROVE  RowInv'
<1>1. ASSUME NEW t \in Servers, NEW i \in Slots
      PROVE  OwnPc(slots[t][i])'
  <2>1. CASE t = s
    BY <2>1
  <2>2. CASE t # s
    BY <2>2 DEF RowInv, OwnPc, DbPlayerId, Alone, Untouched
  <2>3. QED BY <2>1, <2>2
<1>2. ASSUME NEW p \in open_rows' \ lost_rows'
      PROVE  \E t \in Servers : AccountsFor(t, p)'
  <2>1. CASE AccountsFor(s, p)'
    BY <2>1
  <2>2. ASSUME NEW t \in Servers \ {s}, AccountsFor(t, p)
        PROVE  AccountsFor(t, p)'
    BY <2>2, AloneAccounts
  <2>3. QED BY <1>2, <2>1, <2>2
<1>3. OpenRowsAccounted'
  BY <1>2 DEF OpenRowsAccounted
<1>4. QED BY <1>1, <1>3 DEF RowInv

\* A row that stays and is not lost: somebody accounted for it before the step.
LEMMA RowBefore ==
  ASSUME RowInv, NEW s \in Servers, NEW p \in open_rows \ lost_rows
  PROVE  AccountsFor(s, p) \/ \E t \in Servers \ {s} : AccountsFor(t, p)
BY DEF RowInv, OpenRowsAccounted

\* A step that writes no row: the players that stay keep their PC, those that
\* come have none, and only a server that starts forgets to account for a row.
LEMMA QuietRows ==
  ASSUME TypeOK, RowInv, NEW s \in Servers, Alone(s),
         UNCHANGED <<pcs, open_rows, lost_rows>>,
         \A i \in Slots :
           \/ slots'[s][i] = slots[s][i]
           \/ /\ slots[s][i].state # "playing"
              /\ slots'[s][i].state # "playing" \/ slots'[s][i].pc = NoPC,
         \/ step[s] \notin {"down", "prepare_rows"}
         \/ step'[s] = "prepare_rows" /\ UNCHANGED current_server
  PROVE  RowInv'
<1>1. \A i \in Slots : OwnPc(slots[s][i])'
  BY DEF RowInv, OwnPc, DbPlayerId
<1>2. \A p : AccountsFor(s, p) => AccountsFor(s, p)'
  BY DEF AccountsFor, HeldBy
<1>3. \A p \in open_rows' \ lost_rows' :
        AccountsFor(s, p)' \/ \E t \in Servers \ {s} : AccountsFor(t, p)
  BY <1>2, RowBefore
<1>4. open_rows' \subseteq pcs' \cup {NoPC}
  BY DEF RowInv
<1>5. QED BY <1>1, <1>3, <1>4, AloneRowInv

LEMMA StartRows ==
  ASSUME TypeOK, RowInv, NEW s \in Servers, Alone(s), Start(s) \/ PrepareLocks(s)
  PROVE  RowInv'
<1>1. /\ UNCHANGED <<pcs, open_rows, lost_rows, slots>>
      /\ \/ step[s] = "prepare_locks"
         \/ step'[s] = "prepare_rows" /\ UNCHANGED current_server
  BY DEF Start, PrepareLocks, Goto, TypeOK, db
<1>2. QED BY <1>1, QuietRows

\* The rows of the accounts this port still holds are closed: the server
\* that restarts need account for none.
LEMMA PrepareRowsRows ==
  ASSUME TypeOK, LockInv, RowInv, NEW s \in Servers, Alone(s), PrepareRows(s)
  PROVE  RowInv'
<1>1. /\ UNCHANGED <<pcs, slots, current_server>>
      /\ step[s] = "prepare_rows"
      /\ open_rows' = open_rows \ {p \in open_rows : p \in pcs /\ p[1] \in HeldBy(s)}
      /\ lost_rows' = lost_rows \ {p \in open_rows : p \in pcs /\ p[1] \in HeldBy(s)}
  BY DEF PrepareRows, CloseOpenRows, Goto
<1>2. \A i \in Slots : OwnPc(slots[s][i])'
  BY <1>1 DEF RowInv, OwnPc, DbPlayerId
<1>3. \A i \in Slots : slots[s][i].state = "free"
  BY <1>1 DEF LockInv, HandlerInv, Booting
<1>4. ASSUME NEW p \in open_rows' \ lost_rows'
      PROVE  \E t \in Servers \ {s} : AccountsFor(t, p)
  <2>1. p \in open_rows /\ ~(p \in pcs /\ p[1] \in HeldBy(s))
    BY <1>1, <1>4
  <2>2. p \notin lost_rows
    BY <1>1, <1>4, <2>1
  <2>3. p = NoPC \/ p \in pcs
    BY <2>1 DEF RowInv
  <2>4. ~AccountsFor(s, p)
    BY <1>3, <2>1, <2>3 DEF AccountsFor
  <2>5. QED BY <2>1, <2>2, <2>4, RowBefore
<1>5. open_rows' \subseteq pcs' \cup {NoPC}
  BY <1>1 DEF RowInv
<1>6. QED BY <1>1, <1>2, <1>4, <1>5, AloneRowInv

LEMMA CheckRows ==
  ASSUME TypeOK, RowInv, NEW s \in Servers, Alone(s),
         \/ CheckAccount(s) \/ Refuse(s) \/ CheckCdkeys(s) \/ CheckUnlocked(s)
         \/ DeleteUnlocked(s) \/ CountPcs(s) \/ DeleteCdkeys(s)
         \/ SetPlayerConnectedInDb(s)
  PROVE  RowInv'
<1>1. UNCHANGED <<pcs, open_rows, lost_rows, slots>>
      /\ step[s] \in Checking \cup {"set_connected"}
  <2>1. CASE CheckAccount(s)
    BY <2>1 DEF CheckAccount, Goto, db, Checking
  <2>2. CASE Refuse(s) \/ CountPcs(s)
    BY <2>2 DEF Refuse, CountPcs, Finish, Goto, db, Checking
  <2>3. CASE CheckCdkeys(s) \/ CheckUnlocked(s) \/ DeleteUnlocked(s) \/ DeleteCdkeys(s)
    BY <2>3 DEF CheckCdkeys, CheckUnlocked, DeleteUnlocked, DeleteCdkeys, Goto, db, Checking
  <2>4. CASE SetPlayerConnectedInDb(s)
    BY <2>4 DEF SetPlayerConnectedInDb
  <2>5. QED BY <2>1, <2>2, <2>3, <2>4
<1>2. QED BY <1>1, QuietRows DEF Checking

LEMMA AllocateRows ==
  ASSUME TypeOK, RowInv, NEW s \in Servers, Alone(s), Allocate(s)
  PROVE  RowInv'
<1>1. /\ UNCHANGED <<pcs, open_rows, lost_rows>> /\ step[s] = "allocate"
      /\ \/ UNCHANGED slots
         \/ \E i \in Slots :
              /\ slots[s][i] = Free
              /\ UpdateSlot(s, i, Slot("joining", req[s].client, req[s].account,
                                       req[s].known, NoPC))
  BY DEF Allocate, Finish, Goto, db
<1>2. \A i \in Slots : \/ slots'[s][i] = slots[s][i]
                       \/ slots[s][i] = Free /\ slots'[s][i].pc = NoPC
  BY <1>1, SlotFields DEF UpdateSlot, TypeOK
<1>3. QED BY <1>1, <1>2, QuietRows, FreeFields

LEMMA RegisterRows ==
  ASSUME TypeOK, LockInv, RowInv, NEW s \in Servers, Alone(s), RegisterCdkey(s)
  PROVE  RowInv'
<1>1. cur[s] \in Slots /\ step[s] = "register_cdkey" /\ slots[s][cur[s]].state = "joining"
      /\ UNCHANGED <<pcs, open_rows, lost_rows>>
  BY DEF RegisterCdkey, Finish, Goto, LockInv, HandlerInv, OnASlot, OnAPlayer
<1>2. \A j \in Slots : \/ slots'[s][j] = slots[s][j]
                       \/ j = cur[s] /\ slots'[s][j].pc = NoPC
  BY <1>1, SlotFields DEF RegisterCdkey, UpdateSlot, TypeOK
<1>3. QED BY <1>1, <1>2, QuietRows

\* The PC a player enters with is the player's own.  The rows of the PC it
\* played before (PC 0) are left to its other sessions, or lost.
LEMMA EntryRows ==
  ASSUME TypeOK, LockInv, RowInv, NEW s \in Servers, Alone(s), FindPc(s) \/ InsertPc(s)
  PROVE  RowInv'
<1>1. /\ cur[s] \in Slots /\ Current(s) = slots[s][cur[s]]
      /\ step[s] \in {"find_pc", "insert_pc"}
      /\ Current(s).state = "playing"
      /\ UNCHANGED <<open_rows, current_server>>
  BY DEF FindPc, InsertPc, Goto, db, LockInv, HandlerInv, OnASlot, OnAPlayer, Current
<1>2. PICK pc : /\ PlayPc(s, pc)
                /\ \/ pc = <<DbPlayerId(Current(s)), Current(s).account>> /\ pc \in pcs'
                   \/ pc = NoPC
                /\ pcs \subseteq pcs'
  BY DEF FindPc, InsertPc, db
<1>3. /\ \A j \in Slots : j # cur[s] => slots'[s][j] = slots[s][j]
      /\ slots'[s][cur[s]] = Slot("playing", Current(s).client, Current(s).account,
                                  Current(s).known, pc)
      /\ lost_rows' = lost_rows \cup (ClosedOnlyBy({<<s, cur[s]>>}) \ {pc})
  BY <1>1, <1>2 DEF PlayPc, UpdateSlot, TypeOK
<1>4. DbPlayerId(slots'[s][cur[s]]) = DbPlayerId(Current(s))
      /\ slots'[s][cur[s]].account = Current(s).account
      /\ slots'[s][cur[s]].state = "playing"
      /\ slots'[s][cur[s]].pc = pc
  BY <1>3, SlotFields DEF DbPlayerId
<1>5. \A i \in Slots : OwnPc(slots[s][i])'
  <2>1. \A i \in Slots : i # cur[s] => OwnPc(slots[s][i])'
    BY <1>2, <1>3 DEF RowInv, OwnPc, DbPlayerId
  <2>2. \A i \in Slots : i = cur[s] => OwnPc(slots[s][i])'
    BY <1>2, <1>4 DEF OwnPc, DbPlayerId
  <2>3. QED BY <2>1, <2>2
<1>6. ASSUME NEW p \in open_rows' \ lost_rows'
      PROVE  AccountsFor(s, p)' \/ \E t \in Servers \ {s} : AccountsFor(t, p)
  <2>1. p \in open_rows \ lost_rows
    BY <1>1, <1>3, <1>6
  <2>2. p = pc \/ p \notin ClosedOnlyBy({<<s, cur[s]>>})
    BY <1>3, <1>6
  <2>3. CASE p = pc
    BY <1>1, <1>4, <2>3 DEF AccountsFor
  <2>4. CASE p # pc /\ <<s, cur[s]>> \in Sessions(p)
    <3>1. PICK x \in Sessions(p) : x # <<s, cur[s]>>
      BY <2>1, <2>2, <2>4 DEF ClosedOnlyBy
    <3>2. PICK t \in Servers, j \in Slots :
            /\ x = <<t, j>> /\ slots[t][j].state = "playing" /\ slots[t][j].pc = p
      BY <3>1 DEF Sessions
    <3>3. CASE t # s
      BY <3>2, <3>3 DEF AccountsFor
    <3>4. CASE t = s
      BY <1>3, <3>1, <3>2, <3>4 DEF AccountsFor
    <3>5. QED BY <3>3, <3>4
  <2>5. CASE p # pc /\ <<s, cur[s]>> \notin Sessions(p)
    <3>1. ~(Current(s).state = "playing" /\ Current(s).pc = p)
      BY <1>1, <2>5 DEF Sessions
    <3>2. AccountsFor(s, p) => AccountsFor(s, p)'
      BY <1>1, <1>3, <3>1 DEF AccountsFor
    <3>3. QED BY <2>1, <3>2, RowBefore
  <2>6. QED BY <2>3, <2>4, <2>5
<1>7. open_rows' \subseteq pcs' \cup {NoPC}
  BY <1>1, <1>2 DEF RowInv
<1>8. QED BY <1>2, <1>5, <1>6, <1>7, AloneRowInv

\* A row is opened for the PC of a player that plays it.
LEMMA InsertRowRows ==
  ASSUME TypeOK, LockInv, RowInv, NEW s \in Servers, Alone(s), InsertRow(s)
  PROVE  RowInv'
<1>1. /\ cur[s] \in Slots /\ Current(s) = slots[s][cur[s]]
      /\ step[s] = "insert_row" /\ Current(s).state = "playing"
      /\ UNCHANGED <<pcs, slots, current_server>>
      /\ open_rows' = open_rows \cup {Current(s).pc}
      /\ lost_rows' = lost_rows \ {Current(s).pc}
  BY DEF InsertRow, Finish, Goto, LockInv, HandlerInv, OnASlot, OnAPlayer, Current
<1>2. \A i \in Slots : OwnPc(slots[s][i])'
  BY <1>1 DEF RowInv, OwnPc, DbPlayerId
<1>3. open_rows' \subseteq pcs' \cup {NoPC}
  BY <1>1 DEF RowInv, OwnPc
<1>4. \A p : p = Current(s).pc \/ AccountsFor(s, p) => AccountsFor(s, p)'
  BY <1>1 DEF AccountsFor
<1>5. ASSUME NEW p \in open_rows' \ lost_rows'
      PROVE  AccountsFor(s, p)' \/ \E t \in Servers \ {s} : AccountsFor(t, p)
  <2>1. p = Current(s).pc \/ p \in open_rows \ lost_rows
    BY <1>1, <1>5
  <2>2. QED BY <1>4, <2>1, RowBefore
<1>6. QED BY <1>1, <1>2, <1>3, <1>5, AloneRowInv

\* The player that leaves closes the row of its PC, and only that one.
LEMMA CloseRowsRows ==
  ASSUME TypeOK, LockInv, RowInv, NEW s \in Servers, Alone(s),
         CloseRows(s) \/ CloseRowsStopping(s)
  PROVE  RowInv'
<1>1. /\ cur[s] \in Slots /\ Current(s) = slots[s][cur[s]]
      /\ step[s] \in {"close_rows", "close_rows_stopping"}
      /\ UNCHANGED <<pcs, current_server>>
      /\ open_rows' = open_rows \ {Current(s).pc}
      /\ lost_rows' = lost_rows \ {Current(s).pc}
  BY DEF CloseRows, CloseRowsStopping, CloseOpenRows, Goto, LockInv, HandlerInv, OnASlot,
         OnAPlayer, Current
<1>2. \A j \in Slots : slots'[s][j] = IF j = cur[s] THEN Free ELSE slots[s][j]
  BY <1>1 DEF CloseRows, CloseRowsStopping, UpdateSlot, TypeOK
<1>3. \A i \in Slots : OwnPc(slots[s][i])'
  BY <1>1, <1>2, FreeFields DEF RowInv, OwnPc, DbPlayerId
<1>4. \A p : p # Current(s).pc /\ AccountsFor(s, p) => AccountsFor(s, p)'
  BY <1>1, <1>2 DEF AccountsFor
<1>5. open_rows' \subseteq pcs' \cup {NoPC}
  BY <1>1 DEF RowInv
<1>6. ASSUME NEW p \in open_rows' \ lost_rows'
      PROVE  AccountsFor(s, p)' \/ \E t \in Servers \ {s} : AccountsFor(t, p)
  <2>1. p \in open_rows \ lost_rows /\ p # Current(s).pc
    BY <1>1, <1>6
  <2>2. QED BY <1>4, <2>1, RowBefore
<1>7. QED BY <1>1, <1>3, <1>5, <1>6, AloneRowInv

LEMMA EventRows ==
  ASSUME TypeOK, RowInv, NEW s \in Servers, Alone(s), Event(s) \/ Stop(s)
  PROVE  RowInv'
<1>1. UNCHANGED <<pcs, open_rows, lost_rows>> /\ step[s] = "idle"
  BY DEF Event, HandleBNCSMessage, HandleBNVSMessage, SendModuleInfo, PC_Create,
         DisconnectPlayer, Stop, Goto, db
<1>2. \/ UNCHANGED slots
      \/ \E i \in Slots : slots[s][i].state = "joining" /\ UpdateSlot(s, i, Free)
  BY DEF Event, HandleBNCSMessage, HandleBNVSMessage, SendModuleInfo, PC_Create,
         DisconnectPlayer, Stop
<1>3. \A j \in Slots : \/ slots'[s][j] = slots[s][j]
                       \/ slots[s][j].state # "playing" /\ slots'[s][j].pc = NoPC
  BY <1>2, FreeFields DEF UpdateSlot, TypeOK
<1>4. QED BY <1>1, <1>3, QuietRows

LEMMA ReleaseRows ==
  ASSUME TypeOK, RowInv, NEW s \in Servers, Alone(s),
         ReleaseLock(s) \/ \E i \in Slots : ReleaseAll(s, i)
  PROVE  RowInv'
<1>1. UNCHANGED <<pcs, open_rows, lost_rows, slots>> /\ step[s] \in {"release_lock", "stopping"}
  BY DEF ReleaseLock, ReleaseAll, Goto
<1>2. QED BY <1>1, QuietRows

LEMMA ExitRows ==
  ASSUME TypeOK, RowInv, NEW s \in Servers, Alone(s), Exit(s)
  PROVE  RowInv'
<1>1. /\ UNCHANGED <<pcs, open_rows, lost_rows>> /\ step[s] = "stopping"
      /\ \A i \in Slots : slots[s][i].state # "playing"
      /\ \A i \in Slots : slots'[s][i] = Free
  BY DEF Exit, Die, TypeOK, db
<1>2. QED BY <1>1, QuietRows, FreeFields

\* A crash leaves an open row that another session will close, one whose
\* account is still held, which the restart finds, or one that is lost.
LEMMA CrashRows ==
  ASSUME TypeOK, LockInv, RowInv, NEW s \in Servers, Alone(s), Crash(s)
  PROVE  RowInv'
<1>1. /\ UNCHANGED <<pcs, open_rows, current_server>>
      /\ step[s] # "down" /\ step'[s] = "down"
      /\ \A i \in Slots : slots'[s][i] = Free
      /\ lost_rows' = lost_rows \cup
           {p \in ClosedOnlyBy({s} \X Slots) : p = NoPC \/ p[1] \notin HeldBy(s)}
  BY DEF Crash, Die, TypeOK, db
<1>2. \A i \in Slots : OwnPc(slots[s][i])'
  BY <1>1, FreeFields DEF OwnPc
<1>3. ASSUME NEW p \in open_rows' \ lost_rows'
      PROVE  AccountsFor(s, p)' \/ \E t \in Servers \ {s} : AccountsFor(t, p)
  <2>1. /\ p \in open_rows \ lost_rows
        /\ p \in ClosedOnlyBy({s} \X Slots) => p # NoPC /\ p[1] \in HeldBy(s)
    BY <1>1, <1>3
  <2>2. CASE p # NoPC /\ p[1] \in HeldBy(s)
    <3>1. p[1] \in Accounts /\ current_server'[p[1]] = s
      BY <1>1, <2>2 DEF HeldBy
    <3>2. step'[s] \in {"down", "prepare_rows"}
      BY <1>1
    <3>3. QED BY <2>2, <3>1, <3>2 DEF AccountsFor, HeldBy
  <2>3. CASE ~(p # NoPC /\ p[1] \in HeldBy(s))
    <3>1. CASE Sessions(p) = {}
      <4>1. ASSUME NEW i \in Slots, slots[s][i].state = "playing", slots[s][i].pc = p
            PROVE  <<s, i>> \in Sessions(p)
        BY <4>1 DEF Sessions
      <4>2. ~AccountsFor(s, p)
        BY <2>3, <3>1, <4>1 DEF AccountsFor
      <4>3. QED BY <2>1, <4>2, RowBefore
    <3>2. CASE Sessions(p) # {}
      <4>1. PICK x \in Sessions(p) : x \notin {s} \X Slots
        BY <2>1, <2>3, <3>2 DEF ClosedOnlyBy
      <4>2. PICK t \in Servers, j \in Slots :
              /\ x = <<t, j>> /\ slots[t][j].state = "playing" /\ slots[t][j].pc = p
        BY <4>1 DEF Sessions
      <4>3. t # s
        BY <4>1, <4>2
      <4>4. QED BY <4>2, <4>3 DEF AccountsFor
    <3>3. QED BY <3>1, <3>2
  <2>4. QED BY <2>2, <2>3
<1>4. open_rows' \subseteq pcs' \cup {NoPC}
  BY <1>1 DEF RowInv
<1>5. QED BY <1>1, <1>2, <1>3, <1>4, AloneRowInv

LEMMA NextRows == TypeOK /\ LockInv /\ RowInv /\ [Next]_vars => RowInv'
<1> SUFFICES ASSUME TypeOK, LockInv, RowInv, [Next]_vars PROVE RowInv'
  OBVIOUS
<1>1. ASSUME NEW s \in Servers, Start(s) \/ HandlerStep(s) \/ Event(s) \/ Stop(s) \/ Crash(s)
      PROVE  RowInv'
  <2>1. Alone(s)
    BY <1>1, HandlerAlone, EventAlone
  <2>2. CASE HandlerStep(s)
    BY <2>1, <2>2, StartRows, PrepareRowsRows, CheckRows, AllocateRows, RegisterRows, EntryRows,
       InsertRowRows, CloseRowsRows, ReleaseRows, ExitRows DEF HandlerStep
  <2>3. CASE Start(s) \/ Event(s) \/ Stop(s) \/ Crash(s)
    BY <2>1, <2>3, StartRows, EventRows, CrashRows
  <2>4. QED BY <1>1, <2>2, <2>3
<1>2. CASE UNCHANGED vars \/ \E a \in Accounts : Unlock(a) \/ UnlockExpires(a)
  <2>1. UNCHANGED <<pcs, open_rows, lost_rows, current_server, step, slots>>
    BY <1>2 DEF vars, db, Unlock, UnlockExpires
  <2>2. QED BY <2>1 DEF RowInv, OpenRowsAccounted, AccountsFor, HeldBy, OwnPc, DbPlayerId
<1>3. QED BY <1>1, <1>2 DEF Next

\* Whatever the interleaving of entries, departures, crashes and restarts of the
\* servers, a pcs_status row that is open and not lost in one of the two named
\* ways belongs to a session that will close it, or to an account whose server
\* will find it when it starts: the rows of player 0 and of PC 0 included.
THEOREM OpenRowsAccountedAlways == Spec => []OpenRowsAccounted
<1>1. Init => RowInv
  BY FreeFields DEF Init, RowInv, OpenRowsAccounted, OwnPc
<1>2. RowInv => OpenRowsAccounted
  BY DEF RowInv
<1>3. QED BY <1>1, <1>2, NextRows, TypeAndLock, PTL DEF Spec

\* Only three statements close rows.
LEMMA RowClosers ==
  ASSUME [Next]_vars, NEW p \in open_rows, p \notin open_rows'
  PROVE  \E t \in Servers :
           \/ PrepareRows(t) /\ p[1] \in HeldBy(t)
           \/ (CloseRows(t) \/ CloseRowsStopping(t)) /\ Current(t).pc = p
<1>1. ASSUME NEW t \in Servers, HandlerStep(t), ~PrepareRows(t), ~CloseRows(t),
             ~CloseRowsStopping(t)
      PROVE  open_rows \subseteq open_rows'
  BY <1>1 DEF HandlerStep, PrepareLocks, CheckAccount, Refuse, CheckCdkeys, CheckUnlocked,
     DeleteUnlocked, CountPcs, DeleteCdkeys, Allocate, SetPlayerConnectedInDb, RegisterCdkey,
     FindPc, InsertPc, InsertRow, ReleaseLock, ReleaseAll, Exit, Die, db
<1>2. ASSUME NEW t \in Servers, Start(t) \/ Event(t) \/ Stop(t) \/ Crash(t)
      PROVE  UNCHANGED open_rows
  BY <1>2 DEF Start, Event, HandleBNCSMessage, HandleBNVSMessage, SendModuleInfo, PC_Create,
     DisconnectPlayer, Stop, Crash, Die, db
<1>3. CASE UNCHANGED vars \/ \E a \in Accounts : Unlock(a) \/ UnlockExpires(a)
  BY <1>3 DEF vars, db, Unlock, UnlockExpires
<1>4. ASSUME NEW t \in Servers, PrepareRows(t)
      PROVE  p[1] \in HeldBy(t)
  BY <1>4 DEF PrepareRows, CloseOpenRows
<1>5. ASSUME NEW t \in Servers, CloseRows(t) \/ CloseRowsStopping(t)
      PROVE  Current(t).pc = p
  BY <1>5 DEF CloseRows, CloseRowsStopping, CloseOpenRows
<1>6. QED BY <1>1, <1>2, <1>3, <1>4, <1>5 DEF Next

\* The server that closes the row of a PC played in the game is another one, and
\* does so at the end of an earlier session of that PC.
LEMMA RowKept ==
  ASSUME TypeOK, LockInv, RowInv, \A t \in Servers : ReleaseInv(t), [Next]_vars,
         NEW s \in Servers, NEW i \in Slots, InGame(s, i), slots[s][i].pc # NoPC,
         slots[s][i].pc \in open_rows, slots[s][i].pc \notin open_rows'
  PROVE  \E t \in Servers \ {s} :
           /\ step[t] \in {"close_rows", "close_rows_stopping"} /\ step'[t] # step[t]
           /\ Current(t).pc = slots[s][i].pc
<1> DEFINE p == slots[s][i].pc
           a == slots[s][i].account
<1>1. /\ slots[s][i].state = "playing" /\ p = <<DbPlayerId(slots[s][i]), a>>
      /\ step[s] \notin Booting \cup Stopping
      /\ ~(step[s] = "close_rows" /\ cur[s] = i)
  BY DEF InGame, RowInv, OwnPc
<1>2. a \in HeldBy(s)
  <2>1. a \in Accounts
    BY <1>1 DEF LockInv, HandlerInv
  <2>2. current_server[a] = s
    BY DEF LockInv, ClaimInv, Claims
  <2>3. QED BY <2>1, <2>2 DEF HeldBy
<1>3. PICK t \in Servers : \/ PrepareRows(t) /\ p[1] \in HeldBy(t)
                           \/ (CloseRows(t) \/ CloseRowsStopping(t)) /\ Current(t).pc = p
  BY RowClosers
<1>4. ~PrepareRows(t) \/ p[1] \notin HeldBy(t)
  <2> SUFFICES ASSUME PrepareRows(t), p[1] \in HeldBy(t) PROVE FALSE
    OBVIOUS
  <2>1. p[1] = a
    BY <1>1, LoginAssumption DEF HeldBy, DbPlayerId
  <2>2. t = s
    BY <1>2, <2>1 DEF HeldBy
  <2>3. QED BY <1>1, <2>2 DEF PrepareRows, Goto, Booting
<1>5. /\ step[t] \in {"close_rows", "close_rows_stopping"} /\ step'[t] # step[t]
      /\ Current(t).pc = p
  BY <1>3, <1>4 DEF CloseRows, CloseRowsStopping, Goto, TypeOK
<1>6. t # s
  <2> SUFFICES ASSUME t = s PROVE FALSE
    OBVIOUS
  <2>1. cur[s] \in Slots /\ Current(s) = slots[s][cur[s]] /\ Current(s).state = "playing"
    BY <1>5 DEF LockInv, HandlerInv, OnASlot, OnAPlayer, Current
  <2>2. Current(s).account = a
    BY <1>1, <1>5, <2>1 DEF RowInv, OwnPc
  <2>3. QED BY <1>2, <1>5, <2>2 DEF ReleaseInv
<1>7. QED BY <1>5, <1>6

\* Behind a player in the game the row of its PC is closed only by the late end
\* of an earlier session of that PC on another server: neither the recovery of a
\* server nor the player's own server does it.
THEOREM RowsOfPlayersAlwaysKept == Spec => RowsOfPlayersKept
<1>1. Init => RowInv /\ \A s \in Servers : ReleaseInv(s)
  BY FreeFields DEF Init, RowInv, OpenRowsAccounted, OwnPc, ReleaseInv, Released, Booting
<1>2. TypeOK /\ LockInv /\ RowInv /\ (\A s \in Servers : ReleaseInv(s)) /\ [Next]_vars
        => (\A s \in Servers : ReleaseInv(s))'
  BY NextRelease
<1>3. TypeOK /\ LockInv /\ RowInv /\ (\A s \in Servers : ReleaseInv(s)) /\ [Next]_vars =>
        [\A s \in Servers, i \in Slots :
           LET p == slots[s][i].pc
           IN InGame(s, i) /\ p # NoPC /\ p \in open_rows /\ p \notin open_rows' =>
                \E t \in Servers \ {s} :
                  /\ step[t] \in {"close_rows", "close_rows_stopping"} /\ step'[t] # step[t]
                  /\ Current(t).pc = p]_vars
  BY RowKept
<1>4. QED BY <1>1, <1>2, <1>3, NextRows, TypeAndLock, PTL DEF Spec, RowsOfPlayersKept

-----------------------------------------------------------------------------
(* CD keys                                                                 *)

\* The handler that registers a key claims the account, hence holds it.
LEMMA KeyStep ==
  ASSUME TypeOK, LockInv, [Next]_vars, NEW a \in Accounts
  PROVE  \/ cdkeys'[a] \subseteq cdkeys[a]
         \/ \E s \in Servers : current_server[a] = s /\ step[s] = "register_cdkey"
<1>1. ASSUME NEW s \in Servers, RegisterCdkey(s)
      PROVE  \/ cdkeys'[a] \subseteq cdkeys[a]
             \/ current_server[a] = s /\ step[s] = "register_cdkey"
  <2>1. cur[s] \in Slots /\ step[s] = "register_cdkey"
    BY <1>1 DEF RegisterCdkey, Finish, Goto, LockInv, HandlerInv, OnASlot, OnAPlayer
  <2>2. current_server[slots[s][cur[s]].account] = s
    BY <2>1 DEF LockInv, ClaimInv, Claims
  <2>3. a # slots[s][cur[s]].account => cdkeys'[a] = cdkeys[a]
    BY <1>1 DEF RegisterCdkey, Current, TypeOK
  <2>4. QED BY <2>1, <2>2, <2>3
<1>2. ASSUME NEW s \in Servers, DeleteCdkeys(s)
      PROVE  cdkeys'[a] \subseteq cdkeys[a]
  BY <1>2 DEF DeleteCdkeys, TypeOK
<1>3. ASSUME NEW s \in Servers, HandlerStep(s), ~RegisterCdkey(s), ~DeleteCdkeys(s)
      PROVE  UNCHANGED cdkeys
  BY <1>3 DEF HandlerStep, PrepareRows, PrepareLocks, CheckAccount, Refuse, CheckCdkeys,
     CheckUnlocked, DeleteUnlocked, CountPcs, Allocate, SetPlayerConnectedInDb, FindPc,
     InsertPc, InsertRow, ReleaseLock, CloseRows, ReleaseAll, CloseRowsStopping, Exit, Die, db
<1>4. ASSUME NEW s \in Servers, Start(s) \/ Event(s) \/ Stop(s) \/ Crash(s)
      PROVE  UNCHANGED cdkeys
  BY <1>4 DEF Start, Event, HandleBNCSMessage, HandleBNVSMessage, SendModuleInfo, PC_Create,
     DisconnectPlayer, Stop, Crash, Die, db
<1>5. CASE UNCHANGED vars \/ \E b \in Accounts : Unlock(b) \/ UnlockExpires(b)
  BY <1>5 DEF vars, db, Unlock, UnlockExpires
<1>6. QED BY <1>1, <1>2, <1>3, <1>4, <1>5 DEF Next

\* A CD key is added to an account only by the server that holds its lock at
\* that moment: a login refused for a name in use leaves no key behind.
THEOREM KeysUnderLock == Spec => KeysAddedUnderLock
<1>1. TypeOK /\ LockInv /\ [Next]_vars =>
        [\A a \in Accounts : cdkeys'[a] \subseteq cdkeys[a] \/
           \E s \in Servers : current_server[a] = s /\ step[s] = "register_cdkey"]_vars
  BY KeyStep
<1>2. QED BY <1>1, TypeAndLock, PTL DEF Spec, KeysAddedUnderLock

-----------------------------------------------------------------------------
(* The protocol implements the account lock: every step of a server is a step *)
(* of AccountLock or leaves holder and seats unchanged.                       *)

\* Who is in the game on another server stays there.
LEMMA SeatsChange ==
  ASSUME NEW s \in Servers,
         \A t \in Servers \ {s} : Untouched(t)
  PROVE  \A t \in Servers \ {s}, i \in Slots :
           (InGame(t, i)' <=> InGame(t, i)) /\ slots'[t][i].account = slots[t][i].account
BY DEF Untouched, InGame

\* A step after which nobody has entered the game, and no lock changed hands,
\* vacates seats of the server that takes it (possibly none).
LEMMA VacateStep ==
  ASSUME NEW s \in Servers,
         \A t \in Servers \ {s} : Untouched(t),
         UNCHANGED current_server,
         \A i \in Slots : InGame(s, i)' =>
           InGame(s, i) /\ slots'[s][i].account = slots[s][i].account
  PROVE  AL!Vacate(s)
<1> DEFINE gone == {i \in Slots : ~InGame(s, i)'}
<1>1. gone \in SUBSET Slots
  OBVIOUS
<1>2. ASSUME NEW a \in Accounts
      PROVE  SeatsOf(a)' = SeatsOf(a) \ ({s} \X gone)
  <2>1. ASSUME NEW t \in Servers, NEW i \in Slots
        PROVE  <<t, i>> \in SeatsOf(a)' <=> <<t, i>> \in SeatsOf(a) /\ <<t, i>> \notin {s} \X gone
    <3>1. CASE t # s
      BY <3>1, SeatsChange DEF SeatsOf
    <3>2. CASE t = s
      BY <3>2 DEF SeatsOf
    <3>3. QED BY <3>1, <3>2
  <2>2. SeatsOf(a)' \subseteq Servers \X Slots /\ SeatsOf(a) \subseteq Servers \X Slots
    BY DEF SeatsOf
  <2>3. QED BY <2>1, <2>2
<1>3. QED BY <1>1, <1>2 DEF AL!Vacate

LEMMA SeatsKept ==
  ASSUME NEW s \in Servers,
         \A t \in Servers \ {s} : Untouched(t),
         \A i \in Slots : (InGame(s, i)' <=> InGame(s, i))
                        /\ (InGame(s, i) => slots'[s][i].account = slots[s][i].account)
  PROVE  \A a \in Accounts : SeatsOf(a)' = SeatsOf(a)
<1>1. ASSUME NEW a \in Accounts, NEW t \in Servers, NEW i \in Slots
      PROVE  <<t, i>> \in SeatsOf(a)' <=> <<t, i>> \in SeatsOf(a)
  <2>1. CASE t # s
    BY <2>1, SeatsChange DEF SeatsOf
  <2>2. CASE t = s
    BY <2>2 DEF SeatsOf
  <2>3. QED BY <2>1, <2>2
<1>2. ASSUME NEW a \in Accounts
      PROVE  SeatsOf(a)' \subseteq Servers \X Slots /\ SeatsOf(a) \subseteq Servers \X Slots
  BY DEF SeatsOf
<1>3. QED BY <1>1, <1>2

\* A step that only gives back accounts nobody plays on its server.
LEMMA ReleaseStep ==
  ASSUME NEW s \in Servers,
         \A t \in Servers \ {s} : Untouched(t),
         UNCHANGED slots,
         \A i \in Slots : InGame(s, i)' <=> InGame(s, i),
         NEW given \in SUBSET HeldBy(s), ReleaseAccounts(given),
         \A a \in given : SeatsOf(a) = {}
  PROVE  AL!Release(s)
<1>1. \A a \in Accounts : SeatsOf(a)' = SeatsOf(a)
  BY SeatsKept
<1>2. given \in SUBSET {a \in Accounts : current_server[a] = s
                                         /\ [b \in Accounts |-> SeatsOf(b)][a] = {}}
  BY DEF HeldBy
<1>3. QED BY <1>1, <1>2 DEF AL!Release, ReleaseAccounts

\* Nobody plays an account on a server that does not hold it.
LEMMA SeatsHeld ==
  ASSUME TypeOK, LockInv, NEW a \in Accounts, NEW s \in Servers, current_server[a] = s,
         \A i \in Slots : ~(InGame(s, i) /\ slots[s][i].account = a)
  PROVE  SeatsOf(a) = {}
<1>1. ASSUME NEW t \in Servers, NEW i \in Slots, InGame(t, i), slots[t][i].account = a
      PROVE  FALSE
  <2>1. current_server[a] = t
    BY <1>1 DEF LockInv, ClaimInv, Claims
  <2>2. QED BY <1>1, <2>1
<1>2. QED BY <1>1 DEF SeatsOf

\* Nobody plays a free account.
LEMMA FreeHasNoSeats ==
  ASSUME TypeOK, LockInv, NEW a \in Accounts, current_server[a] = NoServer
  PROVE  SeatsOf(a) = {}
<1>1. ASSUME NEW t \in Servers, NEW i \in Slots, InGame(t, i), slots[t][i].account = a
      PROVE  FALSE
  <2>1. current_server[a] = t
    BY <1>1 DEF LockInv, ClaimInv, Claims
  <2>2. QED BY <2>1
<1>2. QED BY <1>1 DEF SeatsOf

-----------------------------------------------------------------------------
(* Every step of a server                                                  *)

LEMMA StartRefines ==
  ASSUME TypeOK, LockInv, NEW s \in Servers, Start(s) \/ PrepareRows(s)
  PROVE  AL!Vacate(s)
<1>1. /\ UNCHANGED <<current_server, cur, req, slots>>
      /\ \E to \in {"prepare_rows", "prepare_locks"} : step' = [step EXCEPT ![s] = to]
  BY DEF Start, PrepareRows, Goto, db
<1>2. \A t \in Servers \ {s} : Untouched(t)
  BY <1>1 DEF Untouched, TypeOK
<1>3. \A i \in Slots : ~InGame(s, i)'
  BY <1>1 DEF InGame, Booting, TypeOK
<1>4. QED BY <1>1, <1>2, <1>3, VacateStep

LEMMA PrepareLocksRefines ==
  ASSUME TypeOK, LockInv, NEW s \in Servers, PrepareLocks(s)
  PROVE  AL!Release(s)
<1>1. /\ UNCHANGED <<cur, req, slots>> /\ ReleaseAccounts(HeldBy(s))
      /\ step[s] = "prepare_locks"
  BY DEF PrepareLocks, Goto
<1>2. \A t \in Servers \ {s} : Untouched(t)
  BY DEF PrepareLocks, Goto, ReleaseAccounts, HeldBy, Untouched, TypeOK
<1>3. \A i \in Slots : ~InGame(s, i)' /\ ~InGame(s, i)
  BY <1>1 DEF InGame, Booting, LockInv, HandlerInv
<1>4. \A a \in HeldBy(s) : SeatsOf(a) = {}
  BY <1>3, SeatsHeld DEF HeldBy
<1>5. QED BY <1>1, <1>2, <1>3, <1>4, ReleaseStep

LEMMA CheckRefines ==
  ASSUME TypeOK, LockInv, NEW s \in Servers,
         \/ CheckAccount(s) \/ Refuse(s) \/ CheckCdkeys(s) \/ CheckUnlocked(s)
         \/ DeleteUnlocked(s) \/ CountPcs(s) \/ DeleteCdkeys(s)
  PROVE  AL!Vacate(s)
<1>1. /\ UNCHANGED <<current_server, slots>>
      /\ step[s] \in Checking
      /\ \E to \in Checking \cup {"idle"} : step' = [step EXCEPT ![s] = to]
      /\ UNCHANGED cur \/ cur' = [cur EXCEPT ![s] = NoSlot]
      /\ UNCHANGED req \/ \E r : req' = [req EXCEPT ![s] = r]
  <2>1. CASE CheckAccount(s)
    BY <2>1 DEF CheckAccount, Goto, db, Checking
  <2>2. CASE Refuse(s) \/ CountPcs(s)
    BY <2>2 DEF Refuse, CountPcs, Finish, Goto, db, Checking
  <2>3. CASE CheckCdkeys(s) \/ CheckUnlocked(s) \/ DeleteUnlocked(s) \/ DeleteCdkeys(s)
    BY <2>3 DEF CheckCdkeys, CheckUnlocked, DeleteUnlocked, DeleteCdkeys, Goto, db, Checking
  <2>4. QED BY <2>1, <2>2, <2>3
<1>2. \A t \in Servers \ {s} : Untouched(t)
  BY <1>1 DEF Untouched, TypeOK
<1>3. \A i \in Slots : InGame(s, i)' => InGame(s, i)
  BY <1>1 DEF TypeOK, InGame, Booting, Stopping, Checking
<1>4. QED BY <1>1, <1>2, <1>3, VacateStep

LEMMA AllocateRefines ==
  ASSUME TypeOK, LockInv, NEW s \in Servers, Allocate(s)
  PROVE  AL!Vacate(s)
<1>1. /\ UNCHANGED current_server
      /\ step[s] = "allocate" /\ step' = [step EXCEPT ![s] = "idle"]
      /\ cur' = [cur EXCEPT ![s] = NoSlot] /\ req' = [req EXCEPT ![s] = NoRequest]
      /\ \/ UNCHANGED slots
         \/ \E i \in Slots : UpdateSlot(s, i, Slot("joining", req[s].client, req[s].account,
                                                   req[s].known, NoPC))
  BY DEF Allocate, Finish, Goto, db
<1>2. \A t \in Servers \ {s} : Untouched(t)
  BY <1>1 DEF Untouched, TypeOK, UpdateSlot
<1>3. \A j \in Slots : \/ slots'[s][j] = slots[s][j]
                       \/ slots'[s][j].state = "joining"
  BY <1>1, SlotFields DEF UpdateSlot, TypeOK
<1>4. \A j \in Slots : InGame(s, j)' => InGame(s, j) /\ slots'[s][j] = slots[s][j]
  BY <1>1, <1>3 DEF TypeOK, InGame, Booting, Stopping
<1>5. QED BY <1>1, <1>2, <1>4, VacateStep

\* A message or event that sets the handler to work on a slot.
LEMMA BeginRefines ==
  ASSUME TypeOK, LockInv, NEW s \in Servers, NEW i \in Slots,
         NEW to \in {"set_connected", "find_pc", "insert_pc", "release_lock"},
         UNCHANGED <<current_server, slots>>,
         step[s] = "idle", step' = [step EXCEPT ![s] = to],
         cur' = [cur EXCEPT ![s] = i],
         UNCHANGED req \/ NewRequest(s)
  PROVE  AL!Vacate(s)
<1>1. \A t \in Servers \ {s} : Untouched(t)
  BY DEF Untouched, TypeOK, NewRequest
<1>2. \A j \in Slots : InGame(s, j)' => InGame(s, j)
  BY DEF InGame, Booting, Stopping
<1>3. QED BY <1>1, <1>2, VacateStep

LEMMA EventRefines ==
  ASSUME TypeOK, LockInv, NEW s \in Servers, NEW i \in Slots,
         HandleBNVSMessage(s, i) \/ SendModuleInfo(s, i) \/ PC_Create(s, i)
  PROVE  AL!Vacate(s)
BY BeginRefines DEF HandleBNVSMessage, SendModuleInfo, PC_Create, Goto, db

LEMMA FreeJoiningRefines ==
  ASSUME TypeOK, LockInv, NEW s \in Servers, NEW i \in Slots,
         step[s] = "idle", slots[s][i].state = "joining", UpdateSlot(s, i, Free),
         UNCHANGED <<current_server, cur>>,
         \/ UNCHANGED <<step, req>>
         \/ step' = [step EXCEPT ![s] = "check_account"] /\ NewRequest(s)
  PROVE  AL!Vacate(s)
<1>1. \A t \in Servers \ {s} : Untouched(t)
  BY DEF Untouched, TypeOK, UpdateSlot, NewRequest
<1>2. \A j \in Slots : slots'[s][j] = IF j = i THEN Free ELSE slots[s][j]
  BY DEF UpdateSlot, TypeOK
<1>3. \A j \in Slots : InGame(s, j)' => InGame(s, j) /\ slots'[s][j] = slots[s][j]
  BY <1>2 DEF InGame, Booting, Stopping, Free, Slot
<1>4. QED BY <1>1, <1>3, VacateStep

LEMMA DisconnectRefines ==
  ASSUME TypeOK, LockInv, NEW s \in Servers, NEW i \in Slots, DisconnectPlayer(s, i)
  PROVE  AL!Vacate(s)
BY BeginRefines, FreeJoiningRefines DEF DisconnectPlayer, db

LEMMA BNCSRefines ==
  ASSUME TypeOK, LockInv, NEW s \in Servers, NEW c \in Clients, NEW a \in Accounts,
         HandleBNCSMessage(s, c, a)
  PROVE  AL!Vacate(s)
<1>1. UNCHANGED current_server /\ step[s] = "idle" /\ NewRequest(s)
  BY DEF HandleBNCSMessage, db, NewRequest
<1>2. CASE /\ step' = [step EXCEPT ![s] = "check_account"] /\ UNCHANGED cur
           /\ \E i \in Slots : slots[s][i].state = "joining" /\ UpdateSlot(s, i, Free)
  BY <1>1, <1>2, FreeJoiningRefines
<1>3. CASE \E i \in Slots : /\ step' = [step EXCEPT ![s] = "release_lock"]
                            /\ cur' = [cur EXCEPT ![s] = i]
                            /\ UNCHANGED slots
  BY <1>1, <1>3, BeginRefines
<1>4. CASE step' = [step EXCEPT ![s] = "check_account"] /\ UNCHANGED <<cur, slots>>
  <2>1. \A t \in Servers \ {s} : Untouched(t)
    BY <1>1, <1>4 DEF Untouched, TypeOK, NewRequest
  <2>2. \A j \in Slots : InGame(s, j)' => InGame(s, j)
    BY <1>1, <1>4 DEF InGame, Booting, Stopping
  <2>3. QED BY <1>1, <1>4, <2>1, <2>2, VacateStep
<1>5. QED BY <1>2, <1>3, <1>4 DEF HandleBNCSMessage

\* The UPDATE or INSERT that takes the account acquires it; one that does not
\* leaves holder and seats alone.
LEMMA SetConnectedRefines ==
  ASSUME TypeOK, LockInv, NEW s \in Servers, SetPlayerConnectedInDb(s)
  PROVE  AL!Vacate(s) \/ \E a \in Accounts : AL!Acquire(s, a)
<1> DEFINE a == Current(s).account
<1>1. cur[s] \in Slots /\ Current(s) = slots[s][cur[s]] /\ a \in Accounts
      /\ step[s] = "set_connected" /\ UNCHANGED slots
  BY DEF SetPlayerConnectedInDb, Finish, Goto, LockInv, HandlerInv, OnASlot, OnAPlayer, Current
<1>2. CASE Finish(s, "set_connected") /\ UNCHANGED current_server
  <2>1. \A t \in Servers \ {s} : Untouched(t)
    BY <1>1, <1>2 DEF Finish, Goto, Untouched, TypeOK
  <2>2. \A j \in Slots : InGame(s, j)' => InGame(s, j)
    BY <1>1 DEF InGame, Booting, Stopping
  <2>3. QED BY <1>1, <1>2, <2>1, <2>2, VacateStep
<1>3. CASE /\ current_server[a] = NoServer
           /\ step' = [step EXCEPT ![s] = "register_cdkey"]
           /\ current_server' = [current_server EXCEPT ![a] = s]
           /\ UNCHANGED <<cur, req>>
  <2>0. UNCHANGED slots
    BY <1>1
  <2>1. \A t \in Servers \ {s} : Untouched(t)
    BY <2>0, <1>3 DEF Untouched, TypeOK
  <2>2. \A j \in Slots : InGame(s, j)' <=> InGame(s, j)
    BY <1>1, <1>3 DEF InGame, Booting, Stopping, TypeOK
  <2>3. \A b \in Accounts : SeatsOf(b)' = SeatsOf(b)
    BY <1>1, <2>1, <2>2, SeatsKept
  <2>4. AL!Acquire(s, a)
    BY <1>3, <2>3 DEF AL!Acquire
  <2>5. QED BY <1>1, <2>4
<1>4. \/ Current(s).known /\ a \in registered /\ current_server[a] = NoServer
      \/ ~Current(s).known /\ a \notin registered
      => current_server[a] = NoServer
  BY <1>1 DEF LockInv
<1>5. QED BY <1>2, <1>3, <1>4 DEF SetPlayerConnectedInDb

\* The player object is made: the account enters the game.
LEMMA RegisterRefines ==
  ASSUME TypeOK, LockInv, NEW s \in Servers, RegisterCdkey(s)
  PROVE  \E a \in Accounts, i \in Slots : AL!Enter(s, i, a)
<1>1. cur[s] \in Slots /\ Current(s) = slots[s][cur[s]] /\ step[s] = "register_cdkey"
      /\ slots[s][cur[s]].state = "joining" /\ Current(s).account \in Accounts
      /\ UNCHANGED current_server
  BY DEF RegisterCdkey, Finish, Goto, LockInv, HandlerInv, OnASlot, OnAPlayer, Current
<1>0. PICK a \in Accounts, k \in Slots : k = cur[s] /\ a = slots[s][k].account
  BY <1>1
<1>2. \A j \in Slots : slots'[s][j] = IF j = k
        THEN Slot("playing", slots[s][j].client, slots[s][j].account, slots[s][j].known, NoPC)
        ELSE slots[s][j]
  BY <1>0, <1>1 DEF RegisterCdkey, UpdateSlot, TypeOK
<1>3. \A t \in Servers \ {s} : Untouched(t)
  BY <1>0, <1>1 DEF RegisterCdkey, UpdateSlot, Finish, Goto, Untouched, TypeOK
<1>4. step'[s] = "idle"
  <2>1. Finish(s, "register_cdkey")
    BY DEF RegisterCdkey
  <2>2. QED BY <2>1 DEF Finish, Goto, TypeOK
<1>5. Claims(s, k) /\ current_server[a] = s
  BY <1>0, <1>1 DEF Claims, LockInv, ClaimInv
<1>6. \A j \in Slots : InGame(s, j)' <=> InGame(s, j) \/ j = k
  <2>1. \A j \in Slots : j # k => (InGame(s, j)' <=> InGame(s, j))
    BY <1>0, <1>1, <1>2, <1>4 DEF InGame, Booting, Stopping
  <2>2. InGame(s, k)'
    BY <1>0, <1>1, <1>2, <1>4, SlotFields DEF InGame, Booting, Stopping
  <2>3. QED BY <2>1, <2>2
<1>7. \A j \in Slots : slots'[s][j].account = slots[s][j].account
  BY <1>2, SlotFields
<1>8. \A j \in Slots : ~(InGame(s, j) /\ slots[s][j].account = a)
  <2>1. ~InGame(s, k)
    BY <1>0, <1>1 DEF InGame
  <2>2. QED BY <1>0, <1>1, <1>5, <2>1 DEF LockInv, ClaimInv, Claims
<1>9. SeatsOf(a) = {}
  BY <1>0, <1>1, <1>5, <1>8, SeatsHeld
<1>10. \A b \in Accounts : SeatsOf(b)' = IF b = a THEN {<<s, k>>} ELSE SeatsOf(b)
  <2>1. ASSUME NEW b \in Accounts, NEW t \in Servers, NEW i \in Slots
        PROVE  <<t, i>> \in SeatsOf(b)' <=>
                 <<t, i>> \in SeatsOf(b) \/ (b = a /\ t = s /\ i = k)
    <3>1. CASE t # s
      BY <3>1, <1>3, SeatsChange DEF SeatsOf
    <3>2. CASE t = s
      BY <3>2, <1>0, <1>1, <1>6, <1>7 DEF SeatsOf
    <3>3. QED BY <3>1, <3>2
  <2>2. \A b \in Accounts : SeatsOf(b)' \subseteq Servers \X Slots
                            /\ SeatsOf(b) \subseteq Servers \X Slots
    BY DEF SeatsOf
  <2>3. SeatsOf(a)' = {<<s, k>>}
    <3>1. <<s, k>> \in SeatsOf(a)'
      BY <1>0, <2>1
    <3>2. ASSUME NEW x \in SeatsOf(a)' PROVE x = <<s, k>>
      <4>1. PICK t \in Servers, i \in Slots : x = <<t, i>>
        BY <1>0, <2>2, <3>2
      <4>2. <<t, i>> \in SeatsOf(a) \/ (t = s /\ i = k)
        BY <1>0, <2>1, <3>2, <4>1
      <4>3. QED BY <1>9, <4>1, <4>2
    <3>3. QED BY <3>1, <3>2
  <2>4. \A b \in Accounts \ {a} : SeatsOf(b)' = SeatsOf(b)
    BY <2>1, <2>2
  <2>5. QED BY <2>3, <2>4
<1>11. AL!Enter(s, k, a)
  BY <1>0, <1>1, <1>5, <1>9, <1>10 DEF AL!Enter
<1>12. QED BY <1>0, <1>1, <1>11

LEMMA EntryRefines ==
  ASSUME TypeOK, LockInv, NEW s \in Servers, FindPc(s) \/ InsertPc(s)
  PROVE  AL!Vacate(s)
<1>1. /\ cur[s] \in Slots /\ Current(s) = slots[s][cur[s]]
      /\ step[s] \in {"find_pc", "insert_pc"} /\ step' = [step EXCEPT ![s] = "insert_row"]
      /\ slots[s][cur[s]].state = "playing"
      /\ UNCHANGED <<current_server, cur, req>>
  BY DEF FindPc, InsertPc, Goto, db, LockInv, HandlerInv, OnASlot, OnAPlayer, Current
<1>2. PICK pc : UpdateSlot(s, cur[s], Slot("playing", Current(s).client, Current(s).account,
                                           Current(s).known, pc))
  BY DEF FindPc, InsertPc, PlayPc
<1>3. \A j \in Slots : slots'[s][j] = IF j = cur[s]
        THEN Slot("playing", slots[s][j].client, slots[s][j].account, slots[s][j].known, pc)
        ELSE slots[s][j]
  BY <1>1, <1>2 DEF UpdateSlot, TypeOK
<1>4. \A t \in Servers \ {s} : Untouched(t)
  BY <1>1, <1>2 DEF UpdateSlot, Untouched, TypeOK
<1>5. \A j \in Slots : slots'[s][j].account = slots[s][j].account
  BY <1>3, SlotFields
<1>6. \A j \in Slots : InGame(s, j)' => InGame(s, j)
  <2>1. \A j \in Slots : j # cur[s] /\ InGame(s, j)' => InGame(s, j)
    BY <1>1, <1>3 DEF InGame, Booting, Stopping
  <2>2. InGame(s, cur[s])
    BY <1>1 DEF InGame, Booting, Stopping
  <2>3. QED BY <2>1, <2>2
<1>7. QED BY <1>1, <1>4, <1>5, <1>6, VacateStep

LEMMA InsertRowRefines ==
  ASSUME TypeOK, LockInv, NEW s \in Servers, InsertRow(s)
  PROVE  AL!Vacate(s)
<1>1. /\ UNCHANGED <<current_server, slots>>
      /\ step[s] = "insert_row" /\ Finish(s, "insert_row")
  BY DEF InsertRow, Finish, Goto
<1>2. \A t \in Servers \ {s} : Untouched(t)
  BY <1>1 DEF Finish, Goto, Untouched, TypeOK
<1>3. \A j \in Slots : InGame(s, j)' => InGame(s, j)
  BY <1>1 DEF InGame, Booting, Stopping
<1>4. QED BY <1>1, <1>2, <1>3, VacateStep

LEMMA ReleaseLockRefines ==
  ASSUME TypeOK, LockInv, NEW s \in Servers, ReleaseLock(s)
  PROVE  AL!Release(s)
<1> DEFINE given == {Current(s).account} \cap HeldBy(s)
<1>1. /\ UNCHANGED <<slots, cur, req>>
      /\ step[s] = "release_lock" /\ step' = [step EXCEPT ![s] = "close_rows"]
      /\ cur[s] \in Slots /\ Current(s) = slots[s][cur[s]]
      /\ ReleaseAccounts(given)
  BY DEF ReleaseLock, Goto, LockInv, HandlerInv, OnASlot, OnAPlayer, Current
<1>2. \A t \in Servers \ {s} : Untouched(t)
  BY <1>1 DEF Untouched, TypeOK, ReleaseAccounts, HeldBy
<1>3. \A j \in Slots : InGame(s, j)' <=> InGame(s, j)
  BY <1>1 DEF InGame, Booting, Stopping, TypeOK
<1>4. \A a \in given : SeatsOf(a) = {}
  <2>1. \A a \in given, j \in Slots : ~(InGame(s, j) /\ slots[s][j].account = a)
    BY <1>1 DEF LockInv, ClaimInv
  <2>2. QED BY <2>1, SeatsHeld DEF HeldBy
<1>5. given \in SUBSET HeldBy(s)
  OBVIOUS
<1>6. QED BY <1>1, <1>2, <1>3, <1>4, <1>5, ReleaseStep

LEMMA CloseRowsRefines ==
  ASSUME TypeOK, LockInv, NEW s \in Servers, CloseRows(s) \/ CloseRowsStopping(s)
  PROVE  AL!Vacate(s)
<1>1. /\ UNCHANGED <<current_server, req>>
      /\ cur' = [cur EXCEPT ![s] = NoSlot]
      /\ UpdateSlot(s, cur[s], Free)
  BY DEF CloseRows, CloseRowsStopping, Goto
<1>2. \/ step[s] = "close_rows_stopping" /\ step' = [step EXCEPT ![s] = "stopping"]
      \/ step[s] = "close_rows" /\ step' = [step EXCEPT ![s] = "idle"]
      \/ step[s] = "close_rows" /\ step' = [step EXCEPT ![s] = "check_account"]
  BY DEF CloseRows, CloseRowsStopping, Goto
<1>3. cur[s] \in Slots
  BY <1>2 DEF LockInv, HandlerInv, OnASlot, OnAPlayer
<1>4. \A j \in Slots : slots'[s][j] = IF j = cur[s] THEN Free ELSE slots[s][j]
  BY <1>1, <1>3 DEF UpdateSlot, TypeOK
<1>5. \A t \in Servers \ {s} : Untouched(t)
  BY <1>1, <1>2 DEF Untouched, TypeOK, UpdateSlot
<1>6. \A j \in Slots : InGame(s, j)' => j # cur[s] /\ slots'[s][j] = slots[s][j]
  BY <1>4 DEF InGame, Free, Slot
<1>7. \A j \in Slots : InGame(s, j)' => InGame(s, j)
  BY <1>2, <1>6 DEF InGame, Booting, Stopping, TypeOK
<1>8. QED BY <1>1, <1>5, <1>6, <1>7, VacateStep

LEMMA StopRefines ==
  ASSUME TypeOK, LockInv, NEW s \in Servers, Stop(s)
  PROVE  AL!Vacate(s)
<1>1. /\ UNCHANGED <<current_server, slots, cur, req>>
      /\ step' = [step EXCEPT ![s] = "stopping"]
  BY DEF Stop, Goto, db
<1>2. \A t \in Servers \ {s} : Untouched(t)
  BY <1>1 DEF Untouched, TypeOK
<1>3. \A j \in Slots : ~InGame(s, j)'
  BY <1>1 DEF InGame, Stopping, TypeOK
<1>4. QED BY <1>1, <1>2, <1>3, VacateStep

LEMMA ReleaseAllRefines ==
  ASSUME TypeOK, LockInv, NEW s \in Servers, NEW i \in Slots, ReleaseAll(s, i)
  PROVE  AL!Release(s)
<1>1. /\ UNCHANGED <<slots, req>>
      /\ cur' = [cur EXCEPT ![s] = i]
      /\ step[s] = "stopping" /\ step' = [step EXCEPT ![s] = "close_rows_stopping"]
      /\ ReleaseAccounts(HeldBy(s))
  BY DEF ReleaseAll, Goto
<1>2. \A t \in Servers \ {s} : Untouched(t)
  BY <1>1 DEF Untouched, TypeOK, ReleaseAccounts, HeldBy
<1>3. \A j \in Slots : ~InGame(s, j)' /\ ~InGame(s, j)
  BY <1>1 DEF InGame, Stopping, TypeOK
<1>4. \A a \in HeldBy(s) : SeatsOf(a) = {}
  BY <1>3, SeatsHeld DEF HeldBy
<1>5. QED BY <1>1, <1>2, <1>3, <1>4, ReleaseStep

LEMMA DieRefines ==
  ASSUME TypeOK, LockInv, NEW s \in Servers, Die(s)
  PROVE  AL!Vacate(s)
<1>1. \A t \in Servers \ {s} : Untouched(t)
  BY DEF Die, db, Untouched, TypeOK
<1>2. step'[s] = "down" /\ UNCHANGED current_server
  BY DEF Die, db, TypeOK
<1>3. \A j \in Slots : ~InGame(s, j)'
  BY <1>2 DEF InGame, Booting
<1>4. QED BY <1>1, <1>2, <1>3, VacateStep

LEMMA WebSiteRefines ==
  ASSUME UNCHANGED vars \/ \E a \in Accounts : Unlock(a) \/ UnlockExpires(a)
  PROVE  UNCHANGED AL!vars
<1>1. UNCHANGED <<current_server, step, cur, slots>>
  BY DEF Unlock, UnlockExpires, vars, db
<1>2. \A a \in Accounts : SeatsOf(a)' = SeatsOf(a)
  BY <1>1 DEF SeatsOf, InGame
<1>3. QED BY <1>1, <1>2 DEF AL!vars

LEMMA InitRefines == Init => AL!Init
<1> SUFFICES ASSUME Init PROVE AL!Init
  OBVIOUS
<1>1. \A a \in Accounts : SeatsOf(a) = {}
  BY DEF Init, SeatsOf, InGame, Booting
<1>2. QED BY <1>1 DEF Init, AL!Init

LEMMA NextRefines == TypeOK /\ LockInv /\ [Next]_vars => [AL!Next]_AL!vars
<1> SUFFICES ASSUME TypeOK, LockInv, [Next]_vars PROVE [AL!Next]_AL!vars
  OBVIOUS
<1>1. ASSUME NEW s \in Servers, Start(s) \/ HandlerStep(s) \/ Event(s) \/ Stop(s) \/ Crash(s)
      PROVE  \/ AL!Vacate(s) \/ AL!Release(s)
             \/ \E a \in Accounts : AL!Acquire(s, a)
             \/ \E a \in Accounts, i \in Slots : AL!Enter(s, i, a)
  <2>1. CASE Start(s) \/ HandlerStep(s)
    BY <2>1, StartRefines, PrepareLocksRefines, CheckRefines, AllocateRefines,
       SetConnectedRefines, RegisterRefines, EntryRefines, InsertRowRefines,
       ReleaseLockRefines, CloseRowsRefines, ReleaseAllRefines, DieRefines
       DEF HandlerStep, Exit
  <2>2. CASE Event(s) \/ Stop(s) \/ Crash(s)
    BY <2>2, BNCSRefines, EventRefines, DisconnectRefines, StopRefines, DieRefines
       DEF Event, Crash
  <2>3. QED BY <1>1, <2>1, <2>2
<1>2. CASE \E s \in Servers : Start(s) \/ HandlerStep(s) \/ Event(s) \/ Stop(s) \/ Crash(s)
  BY <1>1, <1>2 DEF AL!Next
<1>3. QED BY <1>2, WebSiteRefines DEF Next

-----------------------------------------------------------------------------

\* The login protocol implements the account lock: players.current_server is
\* taken only when it is free, given back only when nobody plays the account,
\* and an account enters the game only on the server that took it and only once.
THEOREM LoginImplementsAccountLock == Spec => ImplementsAccountLock
<1>1. Spec => [](TypeOK /\ LockInv)
  BY TypeAndLock
<1>2. QED BY <1>1, InitRefines, NextRefines, PTL DEF Spec, ImplementsAccountLock, AL!Spec

=============================================================================
