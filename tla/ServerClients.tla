---------------------------- MODULE ServerClients ----------------------------
(***************************************************************************)
(* The server's table of clients, kept by three layers that call each      *)
(* other: CNetServer's connection slots (engine/shared/network_server.cpp, *)
(* network_conn.cpp), CServer's sessions (engine/server/server.cpp) and    *)
(* CGameContext's players (game/server/gamecontext.cpp, ddracechat.cpp).   *)
(*                                                                         *)
(* Everything runs on the server's one thread: a step is one packet or     *)
(* chunk handled, one CNetServer::Update, or one map reload.  Which packet *)
(* comes next, and whose timers have run out, is arbitrary.  Refusals      *)
(* (bans, the connection limit, wrong tokens) leave the state as it is.    *)
(***************************************************************************)
EXTENDS Naturals, FiniteSets, FiniteSetsExt

CONSTANTS MAX_CLIENTS,      \* number of slots
          Addrs,            \* network addresses, with port
          Hosts,            \* network addresses, without port
          HostOf,           \* the host of an address
          m_MaxClientsPerIP,
          Codes,            \* timeout codes
          NoCode,           \* the empty code a new player has
          None              \* no address, no player

ASSUME SlotsAssumption ==
  /\ MAX_CLIENTS \in Nat \ {0}
  /\ m_MaxClientsPerIP \in Nat \ {0}
ASSUME AddrsAssumption == HostOf \in [Addrs -> Hosts] /\ None \notin Addrs
ASSUME CodesAssumption == NoCode \in Codes

Slots == 0..(MAX_CLIENTS - 1)

VARIABLES
  m_aSlots,     \* CNetServer::m_aSlots: the CNetConnection of each slot
  m_aClients,   \* CServer::m_aClients
  m_apPlayers   \* CGameContext::m_apPlayers

vars == <<m_aSlots, m_aClients, m_apPlayers>>

\* m_Authed is the address that logged in, None for AUTHED_NO; m_Persistent the
\* address of the player whose data is kept, None without m_HasPersistentData.
Players == [IsReady : BOOLEAN, TimeoutCode : Codes]
ASSUME NoneAssumption == None \notin Players

Connections == [State : {"OFFLINE", "ONLINE", "ERROR"},
                PeerAddr : Addrs \cup {None},
                TimeoutProtected : BOOLEAN, TimeoutSituation : BOOLEAN,
                RemoteClosed : BOOLEAN, Sixup : BOOLEAN]
Sessions == [State : {"EMPTY", "PREAUTH", "AUTH", "CONNECTING", "READY", "INGAME"},
             Authed : Addrs \cup {None}, Persistent : Addrs \cup {None}]

Init ==
  /\ m_aSlots = [s \in Slots |->
       [State |-> "OFFLINE", PeerAddr |-> None, TimeoutProtected |-> FALSE,
        TimeoutSituation |-> FALSE, RemoteClosed |-> FALSE, Sixup |-> FALSE]]
  /\ m_aClients = [s \in Slots |->
       [State |-> "EMPTY", Authed |-> None, Persistent |-> None]]
  /\ m_apPlayers = [s \in Slots |-> None]

Online(s) == m_aSlots[s].State = "ONLINE"
InState(s, states) == m_aClients[s].State \in states
ReadyOrIngame(s) == InState(s, {"READY", "INGAME"})

-----------------------------------------------------------------------------
(* CNetServer.                                                             *)

\* CNetConnection::Reset; the peer's address is left in place.
ResetConn(c) == [State |-> "OFFLINE", PeerAddr |-> c.PeerAddr, TimeoutProtected |-> FALSE,
                 TimeoutSituation |-> FALSE, RemoteClosed |-> FALSE, Sixup |-> FALSE]

\* CNetConnection::DirectInit, with the flag for a 0.7 client.
DirectInit(a, sixup) ==
  [State |-> "ONLINE", PeerAddr |-> a, TimeoutProtected |-> FALSE,
   TimeoutSituation |-> FALSE, RemoteClosed |-> FALSE, Sixup |-> sixup]

\* A slot whose client timed out and may still be reclaimed.
Protected(c) == c.TimeoutProtected /\ c.TimeoutSituation

\* GetClientSlot: the slots a packet from address a may belong to.
ClientSlots(a) == {s \in Slots : Online(s) /\ m_aSlots[s].PeerAddr = a}

\* NumClientsWithAddr counts these.
Counted(s) ==
  ~ \/ m_aSlots[s].State = "OFFLINE"
    \/ m_aSlots[s].State = "ERROR" /\ ~Protected(m_aSlots[s])

NumClientsWithAddr(h) ==
  Cardinality({s \in Slots : Counted(s) /\ HostOf[m_aSlots[s].PeerAddr] = h})

\* TryAcceptClient, DirectInit and NewClientCallback, or NewClientNoAuthCallback
\* after the vanilla handshake, for a packet of an address without a slot.
Accept(a, vanilla, sixup) ==
  LET free == {s \in Slots : m_aSlots[s].State = "OFFLINE"} IN
  /\ ClientSlots(a) = {}
  /\ NumClientsWithAddr(HostOf[a]) + 1 <= m_MaxClientsPerIP
  /\ free # {}
  /\ m_aSlots' = [m_aSlots EXCEPT ![Min(free)] = DirectInit(a, sixup)]
  /\ m_aClients' = [m_aClients EXCEPT
       ![Min(free)].State = IF vanilla THEN "CONNECTING" ELSE "PREAUTH",
       ![Min(free)].Authed = None]
  /\ UNCHANGED m_apPlayers

\* OnConnCtrlMsg of ACCEPT: Reset(true) and ClientRejoinCallback.
Rejoin(s) ==
  /\ Online(s)
  /\ m_aSlots' = [m_aSlots EXCEPT ![s].RemoteClosed = FALSE]
  /\ m_aClients' = [m_aClients EXCEPT ![s].Authed = None]
  /\ UNCHANGED m_apPlayers

\* Feed of CLOSE.
Close(s) ==
  /\ Online(s)
  /\ m_aSlots' = [m_aSlots EXCEPT ![s].State = "ERROR", ![s].RemoteClosed = TRUE]
  /\ UNCHANGED <<m_aClients, m_apPlayers>>

-----------------------------------------------------------------------------
(* Dropping clients.                                                       *)

\* DelClientCallback, the part of the game (OnClientDrop).
DelPlayers(S) == [s \in Slots |->
  IF s \in S /\ ReadyOrIngame(s) THEN None ELSE m_apPlayers[s]]

\* Mutant: the session is left in its state.
DelClientsKeepsState(S) == [s \in Slots |->
  IF s \in S THEN [m_aClients[s] EXCEPT !.Authed = None] ELSE m_aClients[s]]

\* DelClientCallback, the part of the server.
DelClients(S) == [s \in Slots |->
  IF s \in S THEN [m_aClients[s] EXCEPT !.State = "EMPTY", !.Authed = None]
             ELSE m_aClients[s]]

\* Drop for each of the slots S, whose connections are conns: DelClientCallback
\* and Disconnect.
Drop(S, conns) ==
  /\ m_apPlayers' = DelPlayers(S)
  /\ m_aClients' = DelClients(S)
  /\ m_aSlots' = [s \in Slots |-> IF s \in S THEN ResetConn(conns[s]) ELSE conns[s]]

\* Mutant: the protection never ends.
UpdatedForever(c, late) ==
  CASE c.State = "ONLINE" /\ late -> [c EXCEPT !.State = "ERROR", !.TimeoutSituation = TRUE]
    [] c.State = "ONLINE" /\ ~late -> [c EXCEPT !.TimeoutSituation = FALSE]
    [] OTHER -> c

\* CNetConnection::Update; late when a timer of the connection has run out: the
\* timeout or the resend timeout online, the timeout protection after an error.
Updated(c, late) ==
  CASE c.State = "ONLINE" /\ late -> [c EXCEPT !.State = "ERROR", !.TimeoutSituation = TRUE]
    [] c.State = "ONLINE" /\ ~late -> [c EXCEPT !.TimeoutSituation = FALSE]
    [] c.State = "ERROR" /\ late -> [c EXCEPT !.TimeoutSituation = FALSE]
    [] OTHER -> c

\* CNetServer::Update; the timers of the slots late have run out.
Update(late) ==
  LET conns == [s \in Slots |-> Updated(m_aSlots[s], s \in late)]
  IN  Drop({s \in Slots : conns[s].State = "ERROR" /\ ~Protected(conns[s])}, conns)

\* Kick, and the drops of a session the server or the game refuses (version,
\* password, reserved slot, bans, rcon tries, invalid names).
Kick(s) == ~InState(s, {"EMPTY"}) /\ Drop({s}, m_aSlots)

-----------------------------------------------------------------------------
(* Messages of a client (ProcessClientPacket).                             *)

EnterState(s, from, to) ==
  /\ Online(s)
  /\ InState(s, from)
  /\ m_aClients' = [m_aClients EXCEPT ![s].State = to]

\* NETMSG_CLIENTVER.
ClientVer(s) == EnterState(s, {"PREAUTH"}, "AUTH") /\ UNCHANGED <<m_aSlots, m_apPlayers>>

\* NETMSG_INFO with the right version and password.
Info(s) ==
  EnterState(s, {"PREAUTH", "AUTH"}, "CONNECTING") /\ UNCHANGED <<m_aSlots, m_apPlayers>>

\* NETMSG_READY: the persistent data is handed to OnClientConnected.
Ready(s) ==
  /\ Online(s)
  /\ InState(s, {"CONNECTING"})
  /\ m_aClients' = [m_aClients EXCEPT ![s].State = "READY", ![s].Persistent = None]
  /\ m_apPlayers' = [m_apPlayers EXCEPT ![s] = [IsReady |-> FALSE, TimeoutCode |-> NoCode]]
  /\ UNCHANGED m_aSlots

\* CL_STARTINFO.
StartInfo(s) ==
  /\ Online(s)
  /\ ReadyOrIngame(s)
  /\ ~m_apPlayers[s].IsReady
  /\ m_apPlayers' = [m_apPlayers EXCEPT ![s].IsReady = TRUE]
  /\ UNCHANGED <<m_aSlots, m_aClients>>

\* NETMSG_ENTERGAME.
EnterGame(s) ==
  /\ m_apPlayers[s] # None
  /\ m_apPlayers[s].IsReady
  /\ EnterState(s, {"READY"}, "INGAME")
  /\ UNCHANGED <<m_aSlots, m_apPlayers>>

\* NETMSG_RCON_AUTH with a valid key, in any state of the session.
Login(s) ==
  /\ Online(s)
  /\ m_aClients' = [m_aClients EXCEPT ![s].Authed = m_aSlots[s].PeerAddr]
  /\ UNCHANGED <<m_aSlots, m_apPlayers>>

\* LogoutClient.
Logout(s) ==
  /\ m_aClients[s].Authed # None
  /\ m_aClients' = [m_aClients EXCEPT ![s].Authed = None]
  /\ UNCHANGED <<m_aSlots, m_apPlayers>>

-----------------------------------------------------------------------------
(* Timeout protection: the chat command /timeout.                          *)

\* Slots the command reclaims: ConTimeout's loop up to the test of SetTimedOut.
Reclaimable(s, code) ==
  {i \in Slots \ {s} : /\ m_apPlayers[i] # None
                       /\ m_apPlayers[i].TimeoutCode = code
                       /\ m_aSlots[i].State = "ERROR"}

\* Mutant: the old slot stays online under the same address.
SetTimedOutKeepsOrig(i, OrigID) ==
  /\ m_aSlots' = [m_aSlots EXCEPT
       ![i] = [@ EXCEPT !.State = "ONLINE", !.PeerAddr = m_aSlots[OrigID].PeerAddr,
                        !.RemoteClosed = FALSE, !.Sixup = m_aSlots[OrigID].Sixup]]
  /\ m_aClients' = [m_aClients EXCEPT ![i].Authed = None]
  /\ UNCHANGED m_apPlayers

\* Mutant: the slot keeps the access its former client logged in for.
SetTimedOutKeepsAuth(i, OrigID) ==
  /\ m_aSlots' = [m_aSlots EXCEPT
       ![i] = [@ EXCEPT !.State = "ONLINE", !.PeerAddr = m_aSlots[OrigID].PeerAddr,
                        !.RemoteClosed = FALSE, !.Sixup = m_aSlots[OrigID].Sixup],
       ![OrigID] = ResetConn(@)]
  /\ m_apPlayers' = DelPlayers({OrigID})
  /\ m_aClients' = DelClients({OrigID})

\* SetTimedOut of CServer, CNetServer and CNetConnection: slot i continues with
\* the connection of OrigID, whose session ends.
SetTimedOut(i, OrigID) ==
  /\ m_aSlots' = [m_aSlots EXCEPT
       ![i] = [@ EXCEPT !.State = "ONLINE", !.PeerAddr = m_aSlots[OrigID].PeerAddr,
                        !.RemoteClosed = FALSE, !.Sixup = m_aSlots[OrigID].Sixup],
       ![OrigID] = ResetConn(@)]
  /\ m_apPlayers' = DelPlayers({OrigID})
  /\ m_aClients' = [DelClients({OrigID}) EXCEPT ![i].Authed = None]

\* ConTimeout with an argument.  A 0.7 client never reclaims a slot.
ConTimeout(s, code) ==
  LET slots == IF m_aSlots[s].Sixup THEN {} ELSE Reclaimable(s, code) IN
  /\ Online(s)
  /\ InState(s, {"INGAME"})
  /\ \/ slots # {} /\ SetTimedOut(Min(slots), s)
     \/ /\ slots = {}
        /\ m_aSlots' = [m_aSlots EXCEPT ![s].TimeoutProtected = TRUE]
        /\ m_apPlayers' = [m_apPlayers EXCEPT ![s].TimeoutCode = code]
        /\ UNCHANGED m_aClients

\* ConTimeout without an argument: the player's own code decides what is
\* reclaimed, and is cleared otherwise.
ConTimeoutNoArg(s) ==
  LET slots == IF m_aSlots[s].Sixup THEN {}
               ELSE Reclaimable(s, m_apPlayers[s].TimeoutCode) IN
  /\ Online(s)
  /\ InState(s, {"INGAME"})
  /\ \/ slots # {} /\ SetTimedOut(Min(slots), s)
     \/ /\ slots = {}
        /\ m_aSlots' = [m_aSlots EXCEPT ![s].TimeoutProtected = TRUE]
        /\ m_apPlayers' = [m_apPlayers EXCEPT ![s].TimeoutCode = NoCode]
        /\ UNCHANGED m_aClients

-----------------------------------------------------------------------------
(* Map change.                                                             *)

\* The game's data is kept for the clients that are in the game, every player
\* is destroyed, and the sessions past AUTH load the new map.
MapReload ==
  /\ m_aClients' = [s \in Slots |->
       IF InState(s, {"EMPTY", "PREAUTH", "AUTH"}) THEN m_aClients[s]
       ELSE [m_aClients[s] EXCEPT
               !.State = "CONNECTING",
               !.Persistent = IF ~InState(s, {"INGAME"}) THEN @
                              ELSE IF m_apPlayers[s] = None THEN None
                              ELSE m_aSlots[s].PeerAddr]]
  /\ m_apPlayers' = [s \in Slots |-> None]
  /\ UNCHANGED m_aSlots

-----------------------------------------------------------------------------
Next ==
  \/ \E a \in Addrs, vanilla, sixup \in BOOLEAN :
       ~(vanilla /\ sixup) /\ Accept(a, vanilla, sixup)
  \/ \E s \in Slots :
       \/ Rejoin(s) \/ Close(s) \/ Kick(s)
       \/ ClientVer(s) \/ Info(s) \/ Ready(s) \/ StartInfo(s) \/ EnterGame(s)
       \/ Login(s) \/ Logout(s)
       \/ \E code \in Codes : ConTimeout(s, code)
       \/ ConTimeoutNoArg(s)
  \/ \E late \in SUBSET Slots : Update(late)
  \/ MapReload

Spec == Init /\ [][Next]_vars

\* The server keeps calling Update, and the timer of a connection in error runs
\* out because nothing restarts it.
TimerEnds(s) ==
  \E late \in SUBSET Slots :
    s \in late /\ m_aSlots[s].State = "ERROR" /\ Update(late)

FairSpec == Spec /\ \A s \in Slots : WF_vars(TimerEnds(s))

-----------------------------------------------------------------------------
(* Properties.                                                             *)

\* Type invariant of the three tables; a slot in use has the address of its peer.
TypeOK ==
  /\ m_aSlots \in [Slots -> Connections]
  /\ \A s \in Slots : m_aSlots[s].State # "OFFLINE" => m_aSlots[s].PeerAddr # None
  /\ m_aClients \in [Slots -> Sessions]
  /\ m_apPlayers \in [Slots -> Players \cup {None}]

\* The net layer and the server agree on which slots are in use, whichever of
\* the paths (accept, drop, takeover of a slot) opened or closed them.
SlotsAgree ==
  \A s \in Slots : m_aSlots[s].State = "OFFLINE" <=> InState(s, {"EMPTY"})

\* The game has a player exactly for the sessions that are ready or in the
\* game, and one that is in the game has sent its start info.  OnMessage and
\* OnClientDrop use m_apPlayers[ClientID] on the strength of it.
PlayerWhenReady ==
  \A s \in Slots :
    /\ m_apPlayers[s] # None <=> ReadyOrIngame(s)
    /\ InState(s, {"INGAME"}) => m_apPlayers[s].IsReady

\* An address has at most one slot that is online, so GetClientSlot gives its
\* packets to the client they are from, also after a slot was taken over.
OneSlotPerAddr ==
  \A s, t \in Slots :
    s # t /\ Online(s) /\ Online(t) => m_aSlots[s].PeerAddr # m_aSlots[t].PeerAddr

\* The slots of a host, counting those kept for a client that timed out, stay
\* within m_MaxClientsPerIP: coming back by /timeout takes no extra slot.
Held(s) == Online(s) \/ (m_aSlots[s].State = "ERROR" /\ Protected(m_aSlots[s]))
\* Rcon access belongs to the address that logged in: it does not pass to a
\* client that takes over the slot, or is given the slot later.
AccessIsOwn ==
  \A s \in Slots : m_aClients[s].Authed # None =>
    /\ m_aClients[s].Authed = m_aSlots[s].PeerAddr
    /\ ~InState(s, {"EMPTY"})

\* What OnClientConnected is given was stored for the same client.
PersistentDataIsOwn ==
  \A s \in Slots : Online(s) /\ InState(s, {"CONNECTING"}) =>
    m_aClients[s].Persistent \in {None, m_aSlots[s].PeerAddr}

\* A connection in error does not hold its slot for ever: it is dropped at the
\* end of its protection, or taken over.
ErrorEnds ==
  \A s \in Slots : (m_aSlots[s].State = "ERROR") ~> (m_aSlots[s].State # "ERROR")
=============================================================================
