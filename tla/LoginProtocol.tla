----------------------------- MODULE LoginProtocol -----------------------------
(***************************************************************************)
(* Login, character entry and departure on several game servers that share *)
(* one database (player.cpp, core.cpp).                                    *)
(*                                                                         *)
(* A server is single-threaded: one handler runs at a time and step[s] says *)
(* where it is.  Every SQL statement is one step, so the handlers of        *)
(* different servers interleave between any two statements.  A server may   *)
(* crash anywhere; the database survives.                                   *)
(***************************************************************************)
CONSTANTS
  Servers,      \* server processes, one per UDP port
  Clients,      \* client machines: a connection id and an IP address each
  Accounts,     \* player names
  Slots,        \* connection slots of a server (0x60 in the code)
  CDKeys,       \* CD keys
  KeyOf,        \* KeyOf[c]: the key installed on machine c
  OperatorKey,  \* the key that is authorised for every account
  Unlockable,   \* the accounts the web site may unlock (a bound)
  NoServer, NoSlot, NoClient, NoPlayer, NoPC

ASSUME LoginAssumption ==
  /\ NoServer \notin Servers
  /\ NoSlot \notin Slots
  /\ NoClient \notin Clients
  /\ NoPlayer \notin Accounts
  /\ NoPC \notin (Accounts \cup {NoPlayer}) \X Accounts
  /\ KeyOf \in [Clients -> CDKeys]

VARIABLES
  \* the database
  registered,      \* accounts with a row in players
  current_server,  \* players.current_server
  last_ip,         \* players.last_ip
  cdkeys,          \* players_cdkeys, the active ones
  unlocked,        \* unlocked_accounts less than an hour old
  pcs,             \* rows of pcs
  open_rows,       \* PCs with a pcs_status row whose leave_date is NULL
  \* the servers
  step,            \* what the running handler does next
  cur,             \* the slot that handler works on
  req,             \* the BNCS message it works on, and what it has read
  slots,           \* net_layer_windows, players_info and players_extra_info
  \* history
  lost_rows        \* PCs with an open row that no session and no restart will close

db == <<registered, current_server, last_ip, cdkeys, unlocked, pcs, open_rows>>
vars == <<db, step, cur, req, slots, lost_rows>>

\* A PC is a row of pcs: the owner's player_id and the character, which is
\* the one character of an account.  The owner is NoPlayer (player_id 0)
\* when the server never learned the account's id.
PCs == (Accounts \cup {NoPlayer}) \X Accounts

Slot(state, c, a, known, pc) ==
  [state |-> state, client |-> c, account |-> a, known |-> known, pc |-> pc]

Free == Slot("free", NoClient, NoPlayer, FALSE, NoPC)

\* "joining": BNCS accepted, no player object; "playing": a PLAYER_EXTRA exists
SlotRecords ==
  [state : {"free", "joining", "playing"}, client : Clients \cup {NoClient},
   account : Accounts \cup {NoPlayer}, known : BOOLEAN, pc : PCs \cup {NoPC}]

\* A BNCS message, whether its account was found in players, and whether its
\* name was found in the client list.
Request(c, a, known, in_use) ==
  [client |-> c, account |-> a, known |-> known, in_use |-> in_use]

NoRequest == Request(NoClient, NoPlayer, FALSE, FALSE)

Requests == [client : Clients \cup {NoClient}, account : Accounts \cup {NoPlayer},
             known : BOOLEAN, in_use : BOOLEAN]

Running == {"idle", "check_account", "check_cdkeys", "check_unlocked",
            "delete_unlocked", "count_pcs", "delete_cdkeys", "allocate",
            "set_connected", "register_cdkey", "release_lock", "close_rows",
            "find_pc", "insert_pc", "insert_row"}
Booting == {"down", "prepare_rows", "prepare_locks"}
Stopping == {"stopping", "close_rows_stopping"}

TypeOK ==
  /\ registered \subseteq Accounts
  /\ current_server \in [Accounts -> Servers \cup {NoServer}]
  /\ last_ip \in [Accounts -> Clients \cup {NoClient}]
  /\ cdkeys \in [Accounts -> SUBSET CDKeys]
  /\ unlocked \subseteq Accounts
  /\ pcs \subseteq PCs
  /\ open_rows \subseteq PCs \cup {NoPC}
  /\ step \in [Servers -> Running \cup Booting \cup Stopping]
  /\ cur \in [Servers -> Slots \cup {NoSlot}]
  /\ req \in [Servers -> Requests]
  /\ slots \in [Servers -> [Slots -> SlotRecords]]
  /\ lost_rows \subseteq PCs \cup {NoPC}

Init ==
  /\ registered = {}
  /\ current_server = [a \in Accounts |-> NoServer]
  /\ last_ip = [a \in Accounts |-> NoClient]
  /\ cdkeys = [a \in Accounts |-> {}]
  /\ unlocked = {}
  /\ pcs = {}
  /\ open_rows = {}
  /\ step = [s \in Servers |-> "down"]
  /\ cur = [s \in Servers |-> NoSlot]
  /\ req = [s \in Servers |-> NoRequest]
  /\ slots = [s \in Servers |-> [i \in Slots |-> Free]]
  /\ lost_rows = {}

-----------------------------------------------------------------------------
(* Helpers                                                                 *)

Goto(s, from, to) ==
  /\ step[s] = from
  /\ step' = [step EXCEPT ![s] = to]

\* The handler returns.
Finish(s, from) ==
  /\ Goto(s, from, "idle")
  /\ cur' = [cur EXCEPT ![s] = NoSlot]
  /\ req' = [req EXCEPT ![s] = NoRequest]

\* The slot the handler works on.
Current(s) == slots[s][cur[s]]

\* db_player_id_from_player: 0 (NoPlayer) when the account was new at BNCS.
DbPlayerId(slot) == IF slot.known THEN slot.account ELSE NoPlayer

HeldBy(s) == {a \in Accounts : current_server[a] = s}

ReleaseAccounts(A) ==
  current_server' = [a \in Accounts |-> IF a \in A THEN NoServer ELSE current_server[a]]

CloseOpenRows(closed) ==
  /\ open_rows' = open_rows \ closed
  /\ lost_rows' = lost_rows \ closed

UpdateSlot(s, i, slot) == slots' = [slots EXCEPT ![s][i] = slot]

\* The sessions whose destructor closes the rows of PC p.
Sessions(p) ==
  {x \in Servers \X Slots : slots[x[1]][x[2]].state = "playing" /\ slots[x[1]][x[2]].pc = p}

\* The PCs with an open row that only the sessions in S would close.
ClosedOnlyBy(S) == {p \in open_rows : Sessions(p) # {} /\ Sessions(p) \subseteq S}

\* The session of the running handler plays pc from now on.  Its destructor
\* closes the rows of pc and no more those of PC 0.
PlayPc(s, pc) ==
  LET slot == Current(s)
  IN /\ UpdateSlot(s, cur[s], Slot("playing", slot.client, slot.account, slot.known, pc))
     /\ lost_rows' = lost_rows \cup (ClosedOnlyBy({<<s, cur[s]>>}) \ {pc})

-----------------------------------------------------------------------------
(* Start-up: main_hook runs prepare_databases before anything else         *)

\* Mutant of Start: the accounts are released without closing their rows.
StartSkipsRows(s) ==
  /\ Goto(s, "down", "prepare_locks")
  /\ UNCHANGED <<db, cur, req, slots, lost_rows>>

Start(s) ==
  /\ Goto(s, "down", "prepare_rows")
  /\ UNCHANGED <<db, cur, req, slots, lost_rows>>

\* Mutant of PrepareRows: the rows of every account in use are closed, not only
\* those of the accounts this port holds.
PrepareAllRows(s) ==
  /\ Goto(s, "prepare_rows", "prepare_locks")
  /\ CloseOpenRows({p \in open_rows : p \in pcs /\ \E t \in Servers : p[1] \in HeldBy(t)})
  /\ UNCHANGED <<registered, current_server, last_ip, cdkeys, unlocked, pcs,
                 cur, req, slots>>

\* Close the pcs_status rows of the PCs of players this port still holds;
\* the join finds no player for player_id 0.
PrepareRows(s) ==
  /\ Goto(s, "prepare_rows", "prepare_locks")
  /\ CloseOpenRows({p \in open_rows : p \in pcs /\ p[1] \in HeldBy(s)})
  /\ UNCHANGED <<registered, current_server, last_ip, cdkeys, unlocked, pcs,
                 cur, req, slots>>

\* Mutants of PrepareLocks: every server's accounts are released, or none.
PrepareAllLocks(s) ==
  /\ Goto(s, "prepare_locks", "idle")
  /\ ReleaseAccounts(Accounts)
  /\ UNCHANGED <<registered, last_ip, cdkeys, unlocked, pcs, open_rows, cur, req,
                 slots, lost_rows>>

PrepareNoLocks(s) ==
  /\ Goto(s, "prepare_locks", "idle")
  /\ UNCHANGED <<db, cur, req, slots, lost_rows>>

PrepareLocks(s) ==
  /\ Goto(s, "prepare_locks", "idle")
  /\ ReleaseAccounts(HeldBy(s))
  /\ UNCHANGED <<registered, last_ip, cdkeys, unlocked, pcs, open_rows, cur, req,
                 slots, lost_rows>>

-----------------------------------------------------------------------------
(* BNCS: a client asks to connect (HandleBNCSMessage_HookProc)             *)

\* A slot that already has this connection is disconnected first: its player
\* goes through DestroyPlayer_HookProc, a slot without a player is just reset.
HandleBNCSMessage(s, c, a) ==
  /\ step[s] = "idle"
  /\ req' = [req EXCEPT ![s] = Request(c, a, FALSE, FALSE)]
  /\ \/ /\ \A i \in Slots : slots[s][i].client # c
        /\ step' = [step EXCEPT ![s] = "check_account"]
        /\ UNCHANGED <<cur, slots>>
     \/ \E i \in Slots :
          /\ slots[s][i].client = c
          /\ slots[s][i].state = "joining"
          /\ step' = [step EXCEPT ![s] = "check_account"]
          /\ UpdateSlot(s, i, Free)
          /\ UNCHANGED cur
     \/ \E i \in Slots :
          /\ slots[s][i].client = c
          /\ slots[s][i].state = "playing"
          /\ step' = [step EXCEPT ![s] = "release_lock"]
          /\ cur' = [cur EXCEPT ![s] = i]
          /\ UNCHANGED slots
  /\ UNCHANGED <<db, lost_rows>>

\* The client list is searched for the name as typed (a different case is not
\* found), then validate_player_name reads the account.  A match only sets the
\* response: the checks that follow run all the same.
CheckAccount(s) ==
  LET a == req[s].account
      listed == \E i \in Slots : slots[s][i].state = "playing" /\ slots[s][i].account = a
      trusted == a \notin registered \/ last_ip[a] = req[s].client
  IN /\ Goto(s, "check_account", IF trusted THEN "allocate" ELSE "check_cdkeys")
     /\ \E known, in_use \in BOOLEAN :
          /\ known <=> a \in registered
          /\ in_use => listed
          /\ req' = [req EXCEPT ![s] = Request(req[s].client, a, known, in_use)]
     /\ UNCHANGED <<db, cur, slots, lost_rows>>

\* Version, expansion, connection type, name, ban and key-format checks.
Refuse(s) ==
  /\ Finish(s, "check_account")
  /\ UNCHANGED <<db, slots, lost_rows>>

\* is_player_login_authorized, up to the rows of players_cdkeys.
CheckCdkeys(s) ==
  LET key == KeyOf[req[s].client]
      keys == cdkeys[req[s].account]
  IN /\ Goto(s, "check_cdkeys", IF key = OperatorKey \/ keys = {} \/ key \in keys
                                THEN "allocate" ELSE "check_unlocked")
     /\ UNCHANGED <<db, cur, req, slots, lost_rows>>

CheckUnlocked(s) ==
  /\ Goto(s, "check_unlocked", IF req[s].account \in unlocked
                               THEN "delete_unlocked" ELSE "count_pcs")
  /\ UNCHANGED <<db, cur, req, slots, lost_rows>>

DeleteUnlocked(s) ==
  /\ Goto(s, "delete_unlocked", "allocate")
  /\ unlocked' = unlocked \ {req[s].account}
  /\ UNCHANGED <<registered, current_server, last_ip, cdkeys, pcs, open_rows,
                 cur, req, slots, lost_rows>>

\* query_int gives 0 for an account without PCs, and for one with PCs when the
\* statement fails.
CountPcs(s) ==
  /\ \/ Goto(s, "count_pcs", "delete_cdkeys") /\ UNCHANGED <<cur, req>>
     \/ (\E p \in pcs : p[1] = req[s].account) /\ Finish(s, "count_pcs")
  /\ UNCHANGED <<db, slots, lost_rows>>

DeleteCdkeys(s) ==
  /\ Goto(s, "delete_cdkeys", "allocate")
  /\ cdkeys' = [cdkeys EXCEPT ![req[s].account] = {}]
  /\ UNCHANGED <<registered, current_server, last_ip, unlocked, pcs, open_rows,
                 cur, req, slots, lost_rows>>

\* SetSlidingWindow gives a free slot, or the server is full (response 5).
Allocate(s) ==
  /\ Finish(s, "allocate")
  /\ \/ /\ ~req[s].in_use
        /\ \E i \in Slots :
             /\ slots[s][i] = Free
             /\ UpdateSlot(s, i, Slot("joining", req[s].client, req[s].account,
                                      req[s].known, NoPC))
     \/ /\ req[s].in_use \/ \A i \in Slots : slots[s][i] # Free
        /\ UNCHANGED slots
  /\ UNCHANGED <<db, lost_rows>>

-----------------------------------------------------------------------------
(* BNVS: the client answers the challenge (HandleBNVSMessage_HookProc)     *)

\* The message is not tied to the state of the slot: a repeated one reaches a
\* slot whose player already plays.  A wrong password or an unknown connection
\* changes nothing and is left out.
HandleBNVSMessage(s, i) ==
  /\ slots[s][i].state # "free"
  /\ Goto(s, "idle", "set_connected")
  /\ cur' = [cur EXCEPT ![s] = i]
  /\ UNCHANGED <<db, req, slots, lost_rows>>

\* Mutant of SetPlayerConnectedInDb: the UPDATE does not ask for a free account.
SetConnectedUnconditionally(s) ==
  LET a == Current(s).account
  IN /\ Goto(s, "set_connected", "register_cdkey")
     /\ registered' = registered \cup {a}
     /\ current_server' = [current_server EXCEPT ![a] = s]
     /\ last_ip' = [last_ip EXCEPT ![a] = Current(s).client]
     /\ UNCHANGED <<cdkeys, unlocked, pcs, open_rows, cur, req, slots, lost_rows>>

\* Mutant of SetPlayerConnectedInDb: affected_rows() is not looked at.
SetConnectedUnverified(s) ==
  LET slot == Current(s)
      a == slot.account
      taken == IF slot.known THEN current_server[a] = NoServer ELSE a \notin registered
  IN /\ Goto(s, "set_connected", "register_cdkey")
     /\ registered' = registered \cup {a}
     /\ IF taken THEN current_server' = [current_server EXCEPT ![a] = s]
        ELSE UNCHANGED current_server
     /\ UNCHANGED <<last_ip, cdkeys, unlocked, pcs, open_rows, cur, req, slots, lost_rows>>

\* set_player_connected_in_db: a known account is taken if it is free, an
\* unknown one if INSERT IGNORE adds it.  affected_rows() tells.
SetPlayerConnectedInDb(s) ==
  LET slot == Current(s)
      a == slot.account
      taken == \/ slot.known /\ a \in registered /\ current_server[a] = NoServer
               \/ ~slot.known /\ a \notin registered
  IN /\ step[s] = "set_connected"
     /\ \/ /\ taken
           /\ step' = [step EXCEPT ![s] = "register_cdkey"]
           /\ registered' = registered \cup {a}
           /\ current_server' = [current_server EXCEPT ![a] = s]
           /\ last_ip' = [last_ip EXCEPT ![a] = slot.client]
           /\ UNCHANGED <<cur, req>>
        \/ /\ ~taken
           /\ Finish(s, "set_connected")
           /\ UNCHANGED <<registered, current_server, last_ip>>
     /\ UNCHANGED <<cdkeys, unlocked, pcs, open_rows, slots, lost_rows>>

\* The rest of it: the key is registered, then SetPlayerConnected makes the
\* player object.
RegisterCdkey(s) ==
  LET slot == Current(s)
  IN /\ Finish(s, "register_cdkey")
     /\ cdkeys' = [cdkeys EXCEPT ![slot.account] = @ \cup {KeyOf[slot.client]}]
     /\ UpdateSlot(s, cur[s], Slot("playing", slot.client, slot.account, slot.known, NoPC))
     /\ UNCHANGED <<registered, current_server, last_ip, unlocked, pcs, open_rows,
                    lost_rows>>

-----------------------------------------------------------------------------
(* Character entry: the module info is sent, a script may create the PC    *)

SendModuleInfo(s, i) ==
  /\ slots[s][i].state = "playing"
  /\ Goto(s, "idle", "find_pc")
  /\ cur' = [cur EXCEPT ![s] = i]
  /\ UNCHANGED <<db, req, slots, lost_rows>>

FindPc(s) ==
  LET slot == Current(s)
      pc == <<DbPlayerId(slot), slot.account>>
  IN /\ Goto(s, "find_pc", "insert_row")
     /\ PlayPc(s, IF pc \in pcs THEN pc ELSE NoPC)
     /\ UNCHANGED <<db, cur, req>>

PC_Create(s, i) ==
  /\ slots[s][i].state = "playing"
  /\ slots[s][i].pc = NoPC
  /\ Goto(s, "idle", "insert_pc")
  /\ cur' = [cur EXCEPT ![s] = i]
  /\ UNCHANGED <<db, req, slots, lost_rows>>

\* Mutant of InsertPc: the row's owner and character are swapped.
InsertPcSwapped(s) ==
  LET slot == Current(s)
      pc == <<slot.account, DbPlayerId(slot)>>
  IN /\ Goto(s, "insert_pc", "insert_row")
     /\ pcs' = pcs \cup {pc}
     /\ PlayPc(s, pc)
     /\ UNCHANGED <<registered, current_server, last_ip, cdkeys, unlocked,
                    open_rows, cur, req>>

InsertPc(s) ==
  LET slot == Current(s)
      pc == <<DbPlayerId(slot), slot.account>>
  IN /\ Goto(s, "insert_pc", "insert_row")
     /\ pcs' = pcs \cup {pc}
     /\ PlayPc(s, pc)
     /\ UNCHANGED <<registered, current_server, last_ip, cdkeys, unlocked,
                    open_rows, cur, req>>

\* set_db_pc_id: a pcs_status row, for PC 0 too.  The session will close every
\* open row of its PC, those that were lost before as well.
InsertRow(s) ==
  /\ Finish(s, "insert_row")
  /\ open_rows' = open_rows \cup {Current(s).pc}
  /\ lost_rows' = lost_rows \ {Current(s).pc}
  /\ UNCHANGED <<registered, current_server, last_ip, cdkeys, unlocked, pcs, slots>>

-----------------------------------------------------------------------------
(* Departure: disconnect_player, DestroyPlayer_HookProc, ~PLAYER_EXTRA     *)

DisconnectPlayer(s, i) ==
  /\ step[s] = "idle"
  /\ \/ /\ slots[s][i].state = "playing"
        /\ step' = [step EXCEPT ![s] = "release_lock"]
        /\ cur' = [cur EXCEPT ![s] = i]
        /\ UNCHANGED slots
     \/ /\ slots[s][i].state = "joining"
        /\ UpdateSlot(s, i, Free)
        /\ UNCHANGED <<step, cur>>
  /\ UNCHANGED <<db, req, lost_rows>>

\* Mutant of ReleaseLock: the player's name is reset before the player is
\* destroyed, so the UPDATE matches nobody.
ReleaseLockNameless(s) ==
  /\ Goto(s, "release_lock", "close_rows")
  /\ UNCHANGED <<db, cur, req, slots, lost_rows>>

\* reset_player_current_server
ReleaseLock(s) ==
  /\ Goto(s, "release_lock", "close_rows")
  /\ ReleaseAccounts({Current(s).account} \cap HeldBy(s))
  /\ UNCHANGED <<registered, last_ip, cdkeys, unlocked, pcs, open_rows, cur, req,
                 slots, lost_rows>>

\* ~PLAYER_EXTRA, then reset_player_info; a BNCS message that caused the
\* disconnection goes on with its checks.
CloseRows(s) ==
  /\ Goto(s, "close_rows", IF req[s] = NoRequest THEN "idle" ELSE "check_account")
  /\ CloseOpenRows({Current(s).pc})
  /\ UpdateSlot(s, cur[s], Free)
  /\ cur' = [cur EXCEPT ![s] = NoSlot]
  /\ UNCHANGED <<registered, current_server, last_ip, cdkeys, unlocked, pcs, req>>

\* The server shuts down: the network is gone (srv_network is NULL) when the
\* players are destroyed.
Stop(s) ==
  /\ Goto(s, "idle", "stopping")
  /\ UNCHANGED <<db, cur, req, slots, lost_rows>>

\* DestroyPlayer_HookProc without a network releases every account of the port.
ReleaseAll(s, i) ==
  /\ slots[s][i].state = "playing"
  /\ Goto(s, "stopping", "close_rows_stopping")
  /\ cur' = [cur EXCEPT ![s] = i]
  /\ ReleaseAccounts(HeldBy(s))
  /\ UNCHANGED <<registered, last_ip, cdkeys, unlocked, pcs, open_rows, req,
                 slots, lost_rows>>

CloseRowsStopping(s) ==
  /\ Goto(s, "close_rows_stopping", "stopping")
  /\ CloseOpenRows({Current(s).pc})
  /\ UpdateSlot(s, cur[s], Free)
  /\ cur' = [cur EXCEPT ![s] = NoSlot]
  /\ UNCHANGED <<registered, current_server, last_ip, cdkeys, unlocked, pcs, req>>

\* Everything in memory is gone.
Die(s) ==
  /\ step' = [step EXCEPT ![s] = "down"]
  /\ cur' = [cur EXCEPT ![s] = NoSlot]
  /\ req' = [req EXCEPT ![s] = NoRequest]
  /\ slots' = [slots EXCEPT ![s] = [i \in Slots |-> Free]]
  /\ UNCHANGED db

Exit(s) ==
  /\ step[s] = "stopping"
  /\ \A i \in Slots : slots[s][i].state # "playing"
  /\ Die(s)
  /\ UNCHANGED lost_rows

\* prepare_databases will find the rows of the accounts that are still held,
\* not those of an account given back already, of player 0 or of PC 0.
Crash(s) ==
  /\ step[s] # "down"
  /\ Die(s)
  /\ lost_rows' = lost_rows \cup
       {p \in ClosedOnlyBy({s} \X Slots) : p = NoPC \/ p[1] \notin HeldBy(s)}

-----------------------------------------------------------------------------
(* unlocked_accounts is filled by the web site and its rows expire         *)

Unlock(a) ==
  /\ a \in registered \cap Unlockable
  /\ unlocked' = unlocked \cup {a}
  /\ UNCHANGED <<registered, current_server, last_ip, cdkeys, pcs, open_rows,
                 step, cur, req, slots, lost_rows>>

UnlockExpires(a) ==
  /\ unlocked' = unlocked \ {a}
  /\ UNCHANGED <<registered, current_server, last_ip, cdkeys, pcs, open_rows,
                 step, cur, req, slots, lost_rows>>

-----------------------------------------------------------------------------

\* The steps of a handler that is running.
HandlerStep(s) ==
  \/ PrepareRows(s) \/ PrepareLocks(s)
  \/ CheckAccount(s) \/ Refuse(s) \/ CheckCdkeys(s) \/ CheckUnlocked(s)
  \/ DeleteUnlocked(s) \/ CountPcs(s) \/ DeleteCdkeys(s) \/ Allocate(s)
  \/ SetPlayerConnectedInDb(s) \/ RegisterCdkey(s)
  \/ FindPc(s) \/ InsertPc(s) \/ InsertRow(s)
  \/ ReleaseLock(s) \/ CloseRows(s)
  \/ \E i \in Slots : ReleaseAll(s, i)
  \/ CloseRowsStopping(s) \/ Exit(s)

\* What happens to a server that waits.
Event(s) ==
  \/ \E c \in Clients, a \in Accounts : HandleBNCSMessage(s, c, a)
  \/ \E i \in Slots : \/ HandleBNVSMessage(s, i) \/ SendModuleInfo(s, i)
                      \/ PC_Create(s, i) \/ DisconnectPlayer(s, i)

Next ==
  \/ \E s \in Servers : Start(s) \/ HandlerStep(s) \/ Event(s) \/ Stop(s) \/ Crash(s)
  \/ \E a \in Accounts : Unlock(a) \/ UnlockExpires(a)

Spec == Init /\ [][Next]_vars

\* A handler that started goes on: nothing in the process waits for another.
FairSpec == Spec /\ \A s \in Servers : WF_vars(HandlerStep(s))

-----------------------------------------------------------------------------
(* Properties                                                              *)

\* The player in slot i of s is in the game: not on its way out.
InGame(s, i) ==
  /\ slots[s][i].state = "playing"
  /\ step[s] \notin Booting \cup Stopping
  /\ ~(step[s] \in {"release_lock", "close_rows"} /\ cur[s] = i)

SeatsOf(a) ==
  {x \in Servers \X Slots : InGame(x[1], x[2]) /\ slots[x[1]][x[2]].account = a}

\* The protocol implements the account lock: players.current_server is the
\* holder, and the seats are the slots whose player is in the game.
AL == INSTANCE AccountLock WITH
        holder <- current_server, seats <- [a \in Accounts |-> SeatsOf(a)]

ImplementsAccountLock == AL!Spec

\* "multi server system: check double log": whatever the interleaving of the
\* servers' handlers, an account is in the game at most once.
NoDoubleLogin ==
  \A s, t \in Servers : \A i, j \in Slots :
    InGame(s, i) /\ InGame(t, j) /\ slots[s][i].account = slots[t][j].account
      => s = t /\ i = j

\* An account locked by a server that is up has somebody behind it: a player
\* in the game, one that is just being admitted, or one whose release is due.
\* A lock nobody would ever release cannot arise while the server runs.
NoStuckLock ==
  \A s \in Servers : \A a \in HeldBy(s) :
    \/ step[s] \in Booting
    \/ \E i \in Slots :
         /\ slots[s][i].account = a
         /\ \/ slots[s][i].state = "playing"
            \/ step[s] = "register_cdkey" /\ cur[s] = i

\* A server accounts for an open row: a session of its will close the row, or
\* the server is about to find it when it starts.
AccountsFor(s, p) ==
  \/ \E i \in Slots : slots[s][i].state = "playing" /\ slots[s][i].pc = p
  \/ p # NoPC /\ p[1] \in HeldBy(s) /\ step[s] \in {"down", "prepare_rows"}

\* A pcs_status row is left open for good in two ways only: a crash cuts off the
\* last session of a PC whose account was given back already, or whose row names
\* no account (player 0, PC 0); or the last session without a PC gets one, and
\* then closes that PC's row only.  Every other open row, those of PC 0 and of
\* player 0 included, belongs to a session that will close it or to an account
\* whose server will find it when it starts again.
OpenRowsAccounted ==
  \A p \in open_rows \ lost_rows : \E s \in Servers : AccountsFor(s, p)

\* The row of the PC a player in the game plays is closed under it only by an
\* earlier session of the same PC on another server, whose account was free
\* before its row was closed: never by the recovery of another server, and never
\* by its own.  (All sessions without a PC share the rows of PC 0.)
RowsOfPlayersKept ==
  [][\A s \in Servers, i \in Slots :
       LET p == slots[s][i].pc
       IN InGame(s, i) /\ p # NoPC /\ p \in open_rows /\ p \notin open_rows' =>
            \E t \in Servers \ {s} :
              /\ step[t] \in {"close_rows", "close_rows_stopping"} /\ step'[t] # step[t]
              /\ Current(t).pc = p]_vars

\* A seat in the game, or one about to be, claims its account.
Claims(s, i) == InGame(s, i) \/ (step[s] = "register_cdkey" /\ cur[s] = i)

Checking == {"check_account", "check_cdkeys", "check_unlocked", "delete_unlocked",
             "count_pcs", "delete_cdkeys", "allocate"}
OnAPlayer == {"find_pc", "insert_pc", "insert_row", "release_lock", "close_rows",
              "close_rows_stopping"}
OnASlot == OnAPlayer \cup {"set_connected", "register_cdkey"}

\* What a running handler may rely on.
HandlerInv(s) ==
  /\ step[s] \in Booting => \A i \in Slots : slots[s][i].state = "free"
  /\ step[s] \in Checking => req[s] # NoRequest
  /\ req[s] # NoRequest => req[s].account \in Accounts /\ req[s].client \in Clients
  /\ step[s] \in OnASlot => cur[s] \in Slots /\ slots[s][cur[s]].state # "free"
  /\ step[s] = "register_cdkey" => slots[s][cur[s]].state = "joining"
  /\ step[s] \in OnAPlayer => slots[s][cur[s]].state = "playing"
  /\ \A i \in Slots : slots[s][i].state # "free" =>
       slots[s][i].account \in Accounts /\ slots[s][i].client \in Clients

\* A claimed account is held by the server, and claimed by one slot only.
ClaimInv(s) ==
  /\ \A i \in Slots : Claims(s, i) => current_server[slots[s][i].account] = s
  /\ \A i, j \in Slots :
       Claims(s, i) /\ Claims(s, j) /\ slots[s][i].account = slots[s][j].account => i = j
  /\ step[s] = "release_lock" =>
       \A i \in Slots : InGame(s, i) => slots[s][i].account # slots[s][cur[s]].account

\* The inductive invariant behind NoDoubleLogin and ImplementsAccountLock.
LockInv ==
  /\ \A a \in Accounts : current_server[a] # NoServer => a \in registered
  /\ \A s \in Servers : HandlerInv(s) /\ ClaimInv(s)

\* A player's PC is a row of pcs that belongs to the player.
OwnPc(slot) ==
  slot.state = "playing" /\ slot.pc # NoPC =>
    slot.pc \in pcs /\ slot.pc = <<DbPlayerId(slot), slot.account>>

\* The inductive invariant behind OpenRowsAccounted.
RowInv ==
  /\ open_rows \subseteq pcs \cup {NoPC}
  /\ \A s \in Servers : \A i \in Slots : OwnPc(slots[s][i])
  /\ OpenRowsAccounted

\* Somebody will release account a: see NoStuckLock.
Released(s, a) ==
  \/ step[s] \in Booting
  \/ \E i \in Slots :
       /\ slots[s][i].account = a
       /\ \/ slots[s][i].state = "playing"
          \/ step[s] = "register_cdkey" /\ cur[s] = i

\* The inductive invariant behind NoStuckLock: the slot that is about to be
\* freed holds no lock any more.
ReleaseInv(s) ==
  /\ \A a \in HeldBy(s) : Released(s, a)
  /\ step[s] \in {"close_rows", "close_rows_stopping"} => Current(s).account \notin HeldBy(s)

\* A key is registered for an account only by the server that holds it: a
\* login refused because the name is in use leaves no key behind.
KeysAddedUnderLock ==
  [][\A a \in Accounts : cdkeys'[a] \subseteq cdkeys[a] \/
       \E s \in Servers : current_server[a] = s /\ step[s] = "register_cdkey"]_vars

\* A restarted server gives back every account its predecessor died with,
\* unless it dies again on the way.
RestartReleases ==
  \A s \in Servers : step[s] = "prepare_rows" ~>
     (step[s] = "idle" /\ HeldBy(s) = {}) \/ step[s] = "down"

=============================================================================
