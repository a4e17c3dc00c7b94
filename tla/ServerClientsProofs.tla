------------------------- MODULE ServerClientsProofs -------------------------
(***************************************************************************)
(* Proofs about the server's table of clients, for any number of slots,    *)
(* addresses and timeout codes.  The invariants need each other: that the  *)
(* layers agree on a slot is why a new session finds no player in it, and  *)
(* that an online slot has an address of its own is why taking over a slot *)
(* duplicates none.                                                        *)
(***************************************************************************)
EXTENDS ServerClients, WellFoundedInduction, TLAPS

IInv == TypeOK /\ SlotsAgree /\ PlayerWhenReady /\ OneSlotPerAddr /\ AccessIsOwn

\* The slot the loops over m_aSlots find first is one of those they look for.
LEMMA MinSlot ==
  ASSUME NEW S \in SUBSET Slots, S # {}
  PROVE  Min(S) \in S
<1>1. S \subseteq Nat
  BY SlotsAssumption DEF Slots
<1>2. PICK x \in S : \A y \in S : ~(<<y, x>> \in OpToRel(<, Nat))
  BY <1>1, NatLessThanWellFounded, WFMin
<1>3. OpToRel(<, Nat) = {ss \in Nat \X Nat : ss[1] < ss[2]}
  BY Zenon DEF OpToRel
<1>4. \A y \in S : x <= y
  <2> DEFINE R == OpToRel(<, Nat)
  <2>1. R = {ss \in Nat \X Nat : ss[1] < ss[2]}
    BY <1>3
  <2>2. \A y \in S : ~(<<y, x>> \in R)
    BY <1>2
  <2> HIDE DEF R
  <2> SUFFICES ASSUME NEW y \in S, ~(x <= y) PROVE FALSE
    OBVIOUS
  <2>3. <<y, x>> \in Nat \X Nat /\ <<y, x>>[1] < <<y, x>>[2]
    BY <1>1
  <2> QED
    BY <2>1, <2>2, <2>3, Zenon
<1> QED
  BY <1>4 DEF Min

\* IInv holds when the server has started.
LEMMA InitInv == Init => IInv
BY DEF Init, IInv, TypeOK, SlotsAgree, PlayerWhenReady, OneSlotPerAddr, AccessIsOwn,
       Connections, Sessions, Players, InState, ReadyOrIngame, Online

\* Accept opens a free slot, and none for an address that has one.
LEMMA AcceptInv ==
  ASSUME IInv, NEW a \in Addrs, NEW vanilla \in BOOLEAN, NEW sixup \in BOOLEAN,
         Accept(a, vanilla, sixup)
  PROVE  IInv'
<1> DEFINE free == {s \in Slots : m_aSlots[s].State = "OFFLINE"}
<1> DEFINE n == Min(free)
<1>1. n \in Slots /\ m_aSlots[n].State = "OFFLINE"
  BY MinSlot DEF Accept
<1> HIDE DEF n
<1>2. /\ m_aSlots' = [m_aSlots EXCEPT ![n] = DirectInit(a, sixup)]
      /\ m_aClients' = [m_aClients EXCEPT
           ![n].State = IF vanilla THEN "CONNECTING" ELSE "PREAUTH", ![n].Authed = None]
      /\ m_apPlayers' = m_apPlayers
  BY DEF Accept, n
<1>3. TypeOK'
  <2>1. m_aSlots' \in [Slots -> Connections]
    BY <1>1, <1>2 DEF IInv, TypeOK, Connections, DirectInit
  <2>2. \A s \in Slots : m_aSlots'[s].State # "OFFLINE" => m_aSlots'[s].PeerAddr # None
    BY <1>1, <1>2, AddrsAssumption DEF IInv, TypeOK, DirectInit
  <2>3. m_aClients' \in [Slots -> Sessions]
    <3> DEFINE c == [m_aClients[n] EXCEPT
                       !.State = IF vanilla THEN "CONNECTING" ELSE "PREAUTH",
                       !.Authed = None]
    <3>1. m_aClients' = [m_aClients EXCEPT ![n] = c]
      BY <1>2
    <3>2. c \in Sessions
      BY <1>1 DEF IInv, TypeOK, Sessions
    <3> QED
      BY <1>1, <3>1, <3>2 DEF IInv, TypeOK
  <2> QED
    BY <1>2, <2>1, <2>2, <2>3 DEF IInv, TypeOK
<1>4. SlotsAgree'
  BY <1>1, <1>2 DEF IInv, TypeOK, Connections, Sessions, DirectInit, SlotsAgree, InState
<1>5. PlayerWhenReady'
  BY <1>1, <1>2 DEF IInv, TypeOK, Connections, Sessions, SlotsAgree, InState,
                    PlayerWhenReady, ReadyOrIngame
<1>6. OneSlotPerAddr'
  BY <1>1, <1>2 DEF IInv, TypeOK, Connections, Accept, ClientSlots, Online, DirectInit,
                    OneSlotPerAddr
<1>7. AccessIsOwn'
  BY <1>1, <1>2 DEF IInv, TypeOK, Connections, Sessions, DirectInit, AccessIsOwn, InState
<1> QED
  BY <1>3, <1>4, <1>5, <1>6, <1>7 DEF IInv

\* A rejoin keeps the slot and takes away the access.
LEMMA RejoinInv ==
  ASSUME IInv, NEW s \in Slots, Rejoin(s)
  PROVE  IInv'
<1>1. TypeOK'
  <2> DEFINE c == [m_aSlots[s] EXCEPT !.RemoteClosed = FALSE]
  <2>1. m_aSlots' = [m_aSlots EXCEPT ![s] = c]
    BY DEF Rejoin
  <2>2. c \in Connections
    BY DEF IInv, TypeOK, Connections
  <2>3. c.PeerAddr = m_aSlots[s].PeerAddr /\ m_aSlots[s].State = "ONLINE"
    BY DEF IInv, TypeOK, Connections, Rejoin, Online
  <2> HIDE DEF c
  <2> QED
    BY <2>1, <2>2, <2>3 DEF IInv, TypeOK, Rejoin, Sessions
<1>2. SlotsAgree'
  BY DEF IInv, TypeOK, Connections, Sessions, Players, SlotsAgree, InState, Rejoin, Online
<1>3. PlayerWhenReady'
  BY DEF IInv, TypeOK, Connections, Sessions, Players, PlayerWhenReady, SlotsAgree, InState, ReadyOrIngame, Rejoin, Online
<1>4. OneSlotPerAddr'
  BY DEF IInv, TypeOK, Connections, Sessions, Players, OneSlotPerAddr, Online, Rejoin
<1>5. AccessIsOwn'
  BY DEF IInv, TypeOK, Connections, Sessions, Players, AccessIsOwn, InState, Rejoin, Online
<1> QED
  BY <1>1, <1>2, <1>3, <1>4, <1>5 DEF IInv

\* A closed connection keeps its slot until it is dropped.
LEMMA CloseInv ==
  ASSUME IInv, NEW s \in Slots, Close(s)
  PROVE  IInv'
<1>1. TypeOK'
  <2> DEFINE c == [m_aSlots[s] EXCEPT !.State = "ERROR", !.RemoteClosed = TRUE]
  <2>1. m_aSlots' = [m_aSlots EXCEPT ![s] = c]
    BY DEF Close
  <2>2. c \in Connections
    BY DEF IInv, TypeOK, Connections
  <2>3. c.PeerAddr = m_aSlots[s].PeerAddr /\ m_aSlots[s].State = "ONLINE"
    BY DEF IInv, TypeOK, Connections, Close, Online
  <2> HIDE DEF c
  <2> QED
    BY <2>1, <2>2, <2>3 DEF IInv, TypeOK, Close, Sessions
<1>2. SlotsAgree'
  BY DEF IInv, TypeOK, Connections, Sessions, Players, SlotsAgree, InState, Close, Online
<1>3. PlayerWhenReady'
  BY DEF IInv, TypeOK, Connections, Sessions, Players, PlayerWhenReady, SlotsAgree, InState, ReadyOrIngame, Close, Online
<1>4. OneSlotPerAddr'
  BY DEF IInv, TypeOK, Connections, Sessions, Players, OneSlotPerAddr, Online, Close
<1>5. AccessIsOwn'
  BY DEF IInv, TypeOK, Connections, Sessions, Players, AccessIsOwn, InState, Close, Online
<1> QED
  BY <1>1, <1>2, <1>3, <1>4, <1>5 DEF IInv

\* A client that sends its version has no player yet.
LEMMA ClientVerInv ==
  ASSUME IInv, NEW s \in Slots, ClientVer(s)
  PROVE  IInv'
<1>1. TypeOK'
  BY DEF IInv, TypeOK, Connections, Sessions, Players, ClientVer, EnterState, InState, Online
<1>2. SlotsAgree'
  BY DEF IInv, TypeOK, Connections, Sessions, Players, SlotsAgree, InState, ClientVer, EnterState, Online
<1>3. PlayerWhenReady'
  BY DEF IInv, TypeOK, Connections, Sessions, Players, PlayerWhenReady, SlotsAgree, InState, ReadyOrIngame, ClientVer, EnterState, Online
<1>4. OneSlotPerAddr'
  BY DEF IInv, TypeOK, Connections, Sessions, Players, OneSlotPerAddr, Online, ClientVer, EnterState, InState
<1>5. AccessIsOwn'
  BY DEF IInv, TypeOK, Connections, Sessions, Players, AccessIsOwn, InState, ClientVer, EnterState, Online
<1> QED
  BY <1>1, <1>2, <1>3, <1>4, <1>5 DEF IInv

\* A client that is let in has no player yet.
LEMMA InfoInv ==
  ASSUME IInv, NEW s \in Slots, Info(s)
  PROVE  IInv'
<1>1. TypeOK'
  BY DEF IInv, TypeOK, Connections, Sessions, Players, Info, EnterState, InState, Online
<1>2. SlotsAgree'
  BY DEF IInv, TypeOK, Connections, Sessions, Players, SlotsAgree, InState, Info, EnterState, Online
<1>3. PlayerWhenReady'
  BY DEF IInv, TypeOK, Connections, Sessions, Players, PlayerWhenReady, SlotsAgree, InState, ReadyOrIngame, Info, EnterState, Online
<1>4. OneSlotPerAddr'
  BY DEF IInv, TypeOK, Connections, Sessions, Players, OneSlotPerAddr, Online, Info, EnterState, InState
<1>5. AccessIsOwn'
  BY DEF IInv, TypeOK, Connections, Sessions, Players, AccessIsOwn, InState, Info, EnterState, Online
<1> QED
  BY <1>1, <1>2, <1>3, <1>4, <1>5 DEF IInv

\* A ready client gets its player.
LEMMA ReadyInv ==
  ASSUME IInv, NEW s \in Slots, Ready(s)
  PROVE  IInv'
<1>1. TypeOK'
  BY CodesAssumption DEF IInv, TypeOK, Connections, Sessions, Players, Ready, InState, Online
<1>2. SlotsAgree'
  BY CodesAssumption DEF IInv, TypeOK, Connections, Sessions, Players, SlotsAgree, InState, Ready, Online
<1>3. PlayerWhenReady'
  <2> DEFINE p == [IsReady |-> FALSE, TimeoutCode |-> NoCode]
  <2>1. p # None
    <3>1. p \in Players
      BY CodesAssumption DEF Players
    <3> QED
      BY <3>1, NoneAssumption
  <2>2. m_apPlayers' = [m_apPlayers EXCEPT ![s] = p]
    BY DEF Ready
  <2> HIDE DEF p
  <2> QED
    BY <2>1, <2>2 DEF IInv, TypeOK, Sessions, PlayerWhenReady, InState, ReadyOrIngame, Ready
<1>4. OneSlotPerAddr'
  BY CodesAssumption DEF IInv, TypeOK, Connections, Sessions, Players, OneSlotPerAddr, Online, Ready, InState
<1>5. AccessIsOwn'
  BY CodesAssumption DEF IInv, TypeOK, Connections, Sessions, Players, AccessIsOwn, InState, Ready, Online
<1> QED
  BY <1>1, <1>2, <1>3, <1>4, <1>5 DEF IInv

\* Start info marks the player ready.
LEMMA StartInfoInv ==
  ASSUME IInv, NEW s \in Slots, StartInfo(s)
  PROVE  IInv'
<1> DEFINE p == [m_apPlayers[s] EXCEPT !.IsReady = TRUE]
<1>0. m_apPlayers' = [m_apPlayers EXCEPT ![s] = p] /\ p \in Players /\ p # None /\ p.IsReady
  <2>1. m_apPlayers[s] \in Players
    BY DEF IInv, TypeOK, PlayerWhenReady, StartInfo
  <2>2. p \in Players /\ p.IsReady
    BY <2>1 DEF Players
  <2> QED
    BY <2>2, NoneAssumption DEF StartInfo
<1> HIDE DEF p
<1>1. TypeOK'
  BY <1>0 DEF IInv, TypeOK, StartInfo
<1>2. SlotsAgree'
  BY DEF IInv, TypeOK, Connections, Sessions, Players, SlotsAgree, InState, StartInfo, ReadyOrIngame, Online
<1>3. PlayerWhenReady'
  BY <1>0 DEF IInv, TypeOK, PlayerWhenReady, InState, ReadyOrIngame, StartInfo
<1>4. OneSlotPerAddr'
  BY DEF IInv, TypeOK, Connections, Sessions, Players, OneSlotPerAddr, Online, StartInfo, ReadyOrIngame, InState
<1>5. AccessIsOwn'
  BY DEF IInv, TypeOK, Connections, Sessions, Players, AccessIsOwn, InState, StartInfo, ReadyOrIngame, Online
<1> QED
  BY <1>1, <1>2, <1>3, <1>4, <1>5 DEF IInv

\* Only a client whose player is ready enters the game.
LEMMA EnterGameInv ==
  ASSUME IInv, NEW s \in Slots, EnterGame(s)
  PROVE  IInv'
<1>1. TypeOK'
  BY DEF IInv, TypeOK, Connections, Sessions, Players, EnterGame, EnterState, InState, Online
<1>2. SlotsAgree'
  BY DEF IInv, TypeOK, Connections, Sessions, Players, SlotsAgree, InState, EnterGame, EnterState, Online
<1>3. PlayerWhenReady'
  BY DEF IInv, TypeOK, Connections, Sessions, Players, PlayerWhenReady, SlotsAgree, InState, ReadyOrIngame, EnterGame, EnterState, Online
<1>4. OneSlotPerAddr'
  BY DEF IInv, TypeOK, Connections, Sessions, Players, OneSlotPerAddr, Online, EnterGame, EnterState, InState
<1>5. AccessIsOwn'
  BY DEF IInv, TypeOK, Connections, Sessions, Players, AccessIsOwn, InState, EnterGame, EnterState, Online
<1> QED
  BY <1>1, <1>2, <1>3, <1>4, <1>5 DEF IInv

\* Access goes to the address of the slot.
LEMMA LoginInv ==
  ASSUME IInv, NEW s \in Slots, Login(s)
  PROVE  IInv'
<1>1. TypeOK'
  BY DEF IInv, TypeOK, Connections, Sessions, Players, Login, InState, Online, SlotsAgree
<1>2. SlotsAgree'
  BY DEF IInv, TypeOK, Connections, Sessions, Players, SlotsAgree, InState, Login, Online
<1>3. PlayerWhenReady'
  BY DEF IInv, TypeOK, Connections, Sessions, Players, PlayerWhenReady, SlotsAgree, InState, ReadyOrIngame, Login, Online
<1>4. OneSlotPerAddr'
  BY DEF IInv, TypeOK, Connections, Sessions, Players, OneSlotPerAddr, Online, Login, InState, SlotsAgree
<1>5. AccessIsOwn'
  BY DEF IInv, TypeOK, Connections, Sessions, Players, AccessIsOwn, InState, Login, Online, SlotsAgree
<1> QED
  BY <1>1, <1>2, <1>3, <1>4, <1>5 DEF IInv

\* A logout takes the access away.
LEMMA LogoutInv ==
  ASSUME IInv, NEW s \in Slots, Logout(s)
  PROVE  IInv'
<1>1. TypeOK'
  BY DEF IInv, TypeOK, Connections, Sessions, Players, Logout
<1>2. SlotsAgree'
  BY DEF IInv, TypeOK, Connections, Sessions, Players, SlotsAgree, InState, Logout
<1>3. PlayerWhenReady'
  BY DEF IInv, TypeOK, Connections, Sessions, Players, PlayerWhenReady, SlotsAgree, InState, ReadyOrIngame, Logout
<1>4. OneSlotPerAddr'
  BY DEF IInv, TypeOK, Connections, Sessions, Players, OneSlotPerAddr, Online, Logout
<1>5. AccessIsOwn'
  BY DEF IInv, TypeOK, Connections, Sessions, Players, AccessIsOwn, InState, Logout
<1> QED
  BY <1>1, <1>2, <1>3, <1>4, <1>5 DEF IInv

\* A map change destroys the players and sends the clients back to connecting.
LEMMA MapReloadInv ==
  ASSUME IInv, MapReload
  PROVE  IInv'
<1>1. ASSUME NEW s \in Slots
      PROVE  /\ m_aClients'[s].State =
                  IF InState(s, {"EMPTY", "PREAUTH", "AUTH"}) THEN m_aClients[s].State
                  ELSE "CONNECTING"
             /\ m_aClients'[s].Authed = m_aClients[s].Authed
             /\ m_aClients'[s] \in Sessions
  <2>1. m_aClients[s] \in Sessions /\ m_aSlots[s].PeerAddr \in Addrs \cup {None}
    BY DEF IInv, TypeOK, Connections
  <2>2. CASE InState(s, {"EMPTY", "PREAUTH", "AUTH"})
    BY <2>1, <2>2 DEF MapReload
  <2>3. CASE ~InState(s, {"EMPTY", "PREAUTH", "AUTH"})
    <3> DEFINE own == IF ~InState(s, {"INGAME"}) THEN m_aClients[s].Persistent
                      ELSE IF m_apPlayers[s] = None THEN None
                      ELSE m_aSlots[s].PeerAddr
               c == [m_aClients[s] EXCEPT !.State = "CONNECTING", !.Persistent = own]
    <3>1. own \in Addrs \cup {None}
      BY <2>1 DEF Sessions
    <3>2. m_aClients'[s] = c
      BY <2>3 DEF MapReload
    <3> HIDE DEF own
    <3> QED
      BY <2>1, <2>3, <3>1, <3>2 DEF Sessions
  <2> QED
    BY <2>2, <2>3
<1>2. m_aClients' = [s \in Slots |-> m_aClients'[s]]
  BY DEF MapReload
<1>3. m_aSlots' = m_aSlots /\ m_apPlayers' = [s \in Slots |-> None]
  BY DEF MapReload
<1>4. TypeOK'
  BY <1>1, <1>2, <1>3 DEF IInv, TypeOK
<1>5. SlotsAgree'
  BY <1>1, <1>3 DEF IInv, SlotsAgree, InState
<1>6. PlayerWhenReady'
  <2> SUFFICES ASSUME NEW s \in Slots PROVE m_aClients'[s].State \notin {"READY", "INGAME"}
    BY <1>3 DEF PlayerWhenReady, ReadyOrIngame, InState
  <2> QED
    BY <1>1 DEF InState
<1>7. OneSlotPerAddr'
  BY <1>3 DEF IInv, OneSlotPerAddr, Online
<1>8. AccessIsOwn'
  BY <1>1, <1>3 DEF IInv, AccessIsOwn, InState
<1> QED
  BY <1>4, <1>5, <1>6, <1>7, <1>8 DEF IInv

\* Drop closes the slots it is called for in all three layers, when what came
\* before it has opened or closed none.
LEMMA DropInv ==
  ASSUME IInv, NEW S \in SUBSET Slots, NEW conns \in [Slots -> Connections],
         Drop(S, conns),
         \A s \in Slots :
           /\ conns[s].PeerAddr = m_aSlots[s].PeerAddr
           /\ conns[s].State = "OFFLINE" <=> m_aSlots[s].State = "OFFLINE"
           /\ conns[s].State = "ONLINE" => m_aSlots[s].State = "ONLINE"
  PROVE  IInv'
<1>1. ASSUME NEW s \in Slots
      PROVE  /\ m_aSlots'[s] \in Connections
             /\ m_aSlots'[s].PeerAddr = m_aSlots[s].PeerAddr
             /\ m_aSlots'[s].State = IF s \in S THEN "OFFLINE" ELSE conns[s].State
  <2>1. conns[s] \in Connections
    OBVIOUS
  <2>2. CASE s \in S
    BY <2>1, <2>2 DEF Drop, ResetConn, Connections
  <2>3. CASE s \notin S
    BY <2>1, <2>3 DEF Drop
  <2> QED
    BY <2>2, <2>3
<1>2. ASSUME NEW s \in Slots
      PROVE  /\ m_aClients'[s] \in Sessions
             /\ m_aClients'[s].State = IF s \in S THEN "EMPTY" ELSE m_aClients[s].State
             /\ m_aClients'[s].Authed = IF s \in S THEN None ELSE m_aClients[s].Authed
  BY DEF Drop, DelClients, IInv, TypeOK, Sessions
<1>3. ASSUME NEW s \in Slots
      PROVE  m_apPlayers'[s] = IF s \in S THEN None ELSE m_apPlayers[s]
  BY DEF Drop, DelPlayers, IInv, PlayerWhenReady
<1>4. /\ m_aSlots' = [s \in Slots |-> m_aSlots'[s]]
      /\ m_aClients' = [s \in Slots |-> m_aClients'[s]]
      /\ m_apPlayers' = [s \in Slots |-> m_apPlayers'[s]]
  BY DEF Drop, DelClients, DelPlayers
<1>5. TypeOK'
  BY <1>1, <1>2, <1>3, <1>4 DEF IInv, TypeOK
<1>6. SlotsAgree'
  BY <1>1, <1>2 DEF IInv, SlotsAgree, InState
<1>7. PlayerWhenReady'
  BY <1>2, <1>3 DEF IInv, PlayerWhenReady, ReadyOrIngame, InState
<1>8. OneSlotPerAddr'
  BY <1>1 DEF IInv, OneSlotPerAddr, Online
<1>9. AccessIsOwn'
  BY <1>1, <1>2 DEF IInv, AccessIsOwn, InState
<1> QED
  BY <1>5, <1>6, <1>7, <1>8, <1>9 DEF IInv

\* A kick is a drop of one slot.
LEMMA KickInv ==
  ASSUME IInv, NEW s \in Slots, Kick(s)
  PROVE  IInv'
<1>1. m_aSlots \in [Slots -> Connections] /\ Drop({s}, m_aSlots)
  BY DEF IInv, TypeOK, Kick
<1> QED
  BY <1>1, DropInv

\* Update drops the slots whose connection failed and is not to be kept.
LEMMA UpdateInv ==
  ASSUME IInv, NEW late \in SUBSET Slots, Update(late)
  PROVE  IInv'
<1> DEFINE conns == [s \in Slots |-> Updated(m_aSlots[s], s \in late)]
           S == {s \in Slots : conns[s].State = "ERROR" /\ ~Protected(conns[s])}
<1>1. Drop(S, conns)
  BY DEF Update
<1>2. ASSUME NEW s \in Slots
      PROVE  /\ conns[s] \in Connections
             /\ conns[s].PeerAddr = m_aSlots[s].PeerAddr
             /\ conns[s].State = "OFFLINE" <=> m_aSlots[s].State = "OFFLINE"
             /\ conns[s].State = "ONLINE" => m_aSlots[s].State = "ONLINE"
  <2> DEFINE c == m_aSlots[s]
  <2>1. c \in Connections
    BY DEF IInv, TypeOK
  <2>2. conns[s] = Updated(c, s \in late)
    OBVIOUS
  <2> HIDE DEF c, conns
  <2>3. CASE c.State = "ONLINE" /\ s \in late
    <3>1. conns[s] = [c EXCEPT !.State = "ERROR", !.TimeoutSituation = TRUE]
      BY <2>2, <2>3 DEF Updated
    <3> QED
      BY <2>1, <2>3, <3>1 DEF Connections, c
  <2>4. CASE c.State = "ONLINE" /\ s \notin late
    <3>1. conns[s] = [c EXCEPT !.TimeoutSituation = FALSE]
      BY <2>2, <2>4 DEF Updated
    <3> QED
      BY <2>1, <2>4, <3>1 DEF Connections, c
  <2>5. CASE c.State = "ERROR" /\ s \in late
    <3>1. conns[s] = [c EXCEPT !.TimeoutSituation = FALSE]
      BY <2>2, <2>5 DEF Updated
    <3> QED
      BY <2>1, <2>5, <3>1 DEF Connections, c
  <2>6. CASE c.State # "ONLINE" /\ ~(c.State = "ERROR" /\ s \in late)
    <3>1. conns[s] = c
      BY <2>2, <2>6 DEF Updated
    <3> QED
      BY <2>1, <3>1 DEF c
  <2> QED
    BY <2>3, <2>4, <2>5, <2>6
<1>3. conns \in [Slots -> Connections] /\ S \in SUBSET Slots
  BY <1>2
<1> HIDE DEF conns, S
<1> QED
  BY <1>1, <1>2, <1>3, DropInv

\* A slot that is taken over gets the address of the other, which is closed, and
\* loses the access of its former client.
LEMMA SetTimedOutInv ==
  ASSUME IInv, NEW s \in Slots, NEW i \in Slots, s # i,
         Online(s), m_aSlots[i].State = "ERROR", SetTimedOut(i, s)
  PROVE  IInv'
<1> DEFINE ci == [m_aSlots[i] EXCEPT !.State = "ONLINE", !.PeerAddr = m_aSlots[s].PeerAddr,
                                     !.RemoteClosed = FALSE, !.Sixup = m_aSlots[s].Sixup]
           cs == ResetConn(m_aSlots[s])
<1>1. /\ ci \in Connections /\ ci.State = "ONLINE" /\ ci.PeerAddr = m_aSlots[s].PeerAddr
      /\ cs \in Connections /\ cs.State = "OFFLINE" /\ cs.PeerAddr = m_aSlots[s].PeerAddr
  <2>1. m_aSlots[s] \in Connections /\ m_aSlots[i] \in Connections
    BY DEF IInv, TypeOK
  <2>2. ci \in Connections
    BY <2>1 DEF Connections
  <2>3. ci.State = "ONLINE" /\ ci.PeerAddr = m_aSlots[s].PeerAddr
    BY <2>1 DEF Connections
  <2>4. cs \in Connections
    BY <2>1 DEF Connections, ResetConn
  <2>5. cs.State = "OFFLINE" /\ cs.PeerAddr = m_aSlots[s].PeerAddr
    BY DEF ResetConn
  <2> QED
    BY <2>2, <2>3, <2>4, <2>5
<1>2. m_aSlots' = [m_aSlots EXCEPT ![i] = ci, ![s] = cs]
  BY DEF SetTimedOut, IInv, TypeOK
<1> HIDE DEF ci, cs
<1>3. /\ m_aSlots'[i] = ci /\ m_aSlots'[s] = cs
      /\ \A t \in Slots \ {i, s} : m_aSlots'[t] = m_aSlots[t]
      /\ m_aSlots' \in [Slots -> Connections]
  BY <1>1, <1>2 DEF IInv, TypeOK
<1>4. ASSUME NEW t \in Slots
      PROVE  /\ m_aClients'[t] \in Sessions
             /\ m_aClients'[t].State = IF t = s THEN "EMPTY" ELSE m_aClients[t].State
             /\ m_aClients'[t].Authed = IF t \in {s, i} THEN None ELSE m_aClients[t].Authed
  BY DEF SetTimedOut, DelClients, IInv, TypeOK, Sessions
<1>5. ASSUME NEW t \in Slots
      PROVE  m_apPlayers'[t] = IF t = s THEN None ELSE m_apPlayers[t]
  BY DEF SetTimedOut, DelPlayers, IInv, PlayerWhenReady
<1>6. /\ m_aClients' = [t \in Slots |-> m_aClients'[t]]
      /\ m_apPlayers' = [t \in Slots |-> m_apPlayers'[t]]
  BY DEF SetTimedOut, DelClients, DelPlayers
<1>7. TypeOK'
  <2>1. \A t \in Slots : m_aSlots'[t].State # "OFFLINE" => m_aSlots'[t].PeerAddr # None
    BY <1>1, <1>3 DEF IInv, TypeOK, Online
  <2> QED
    BY <1>3, <1>4, <1>5, <1>6, <2>1 DEF IInv, TypeOK
<1>8. SlotsAgree'
  BY <1>1, <1>3, <1>4 DEF IInv, SlotsAgree, InState
<1>9. PlayerWhenReady'
  BY <1>4, <1>5 DEF IInv, PlayerWhenReady, ReadyOrIngame, InState
<1>10. OneSlotPerAddr'
  BY <1>1, <1>3 DEF IInv, OneSlotPerAddr, Online
<1>11. AccessIsOwn'
  BY <1>1, <1>3, <1>4 DEF IInv, AccessIsOwn, InState
<1> QED
  BY <1>7, <1>8, <1>9, <1>10, <1>11 DEF IInv

\* A client of the game that reclaims nothing is protected, with a code.
LEMMA ProtectInv ==
  ASSUME IInv, NEW s \in Slots, NEW code \in Codes, Online(s), InState(s, {"INGAME"}),
         m_aSlots' = [m_aSlots EXCEPT ![s].TimeoutProtected = TRUE],
         m_apPlayers' = [m_apPlayers EXCEPT ![s].TimeoutCode = code],
         UNCHANGED m_aClients
  PROVE  IInv'
<1> DEFINE c == [m_aSlots[s] EXCEPT !.TimeoutProtected = TRUE]
           p == [m_apPlayers[s] EXCEPT !.TimeoutCode = code]
<1>1. /\ c \in Connections /\ c.State = m_aSlots[s].State
      /\ c.PeerAddr = m_aSlots[s].PeerAddr
  BY DEF IInv, TypeOK, Connections
<1>2. p \in Players /\ p # None /\ p.IsReady = m_apPlayers[s].IsReady
  <2>1. m_apPlayers[s] \in Players
    BY DEF IInv, TypeOK, PlayerWhenReady, ReadyOrIngame, InState
  <2>2. p \in Players /\ p.IsReady = m_apPlayers[s].IsReady
    BY <2>1 DEF Players
  <2> QED
    BY <2>2, NoneAssumption
<1>3. m_aSlots' = [m_aSlots EXCEPT ![s] = c] /\ m_apPlayers' = [m_apPlayers EXCEPT ![s] = p]
  OBVIOUS
<1> HIDE DEF c, p
<1>4. TypeOK'
  BY <1>1, <1>2, <1>3 DEF IInv, TypeOK
<1>5. SlotsAgree'
  BY <1>1, <1>3 DEF IInv, TypeOK, SlotsAgree, InState
<1>6. PlayerWhenReady'
  BY <1>2, <1>3 DEF IInv, TypeOK, PlayerWhenReady, ReadyOrIngame, InState
<1>7. OneSlotPerAddr'
  BY <1>1, <1>3 DEF IInv, TypeOK, OneSlotPerAddr, Online
<1>8. AccessIsOwn'
  BY <1>1, <1>3 DEF IInv, TypeOK, AccessIsOwn, InState
<1> QED
  BY <1>4, <1>5, <1>6, <1>7, <1>8 DEF IInv

\* The slot /timeout reclaims is in error, and another than the caller's.
LEMMA ReclaimableSlot ==
  ASSUME NEW s \in Slots, NEW code, Reclaimable(s, code) # {}
  PROVE  LET i == Min(Reclaimable(s, code))
         IN  i \in Slots /\ s # i /\ m_aSlots[i].State = "ERROR"
<1>1. Reclaimable(s, code) \in SUBSET Slots
  BY DEF Reclaimable
<1>2. Min(Reclaimable(s, code)) \in Reclaimable(s, code)
  BY <1>1, MinSlot
<1> QED
  BY <1>2 DEF Reclaimable

\* /timeout takes over a slot or protects the caller's.
LEMMA ConTimeoutInv ==
  ASSUME IInv, NEW s \in Slots,
         (\E code \in Codes : ConTimeout(s, code)) \/ ConTimeoutNoArg(s)
  PROVE  IInv'
<1>1. ASSUME NEW code \in Codes, ConTimeout(s, code) PROVE IInv'
  <2>1. Online(s) /\ InState(s, {"INGAME"})
    BY <1>1 DEF ConTimeout
  <2>2. CASE ~m_aSlots[s].Sixup /\ Reclaimable(s, code) # {}
    <3>1. SetTimedOut(Min(Reclaimable(s, code)), s)
      BY <1>1, <2>2 DEF ConTimeout
    <3> QED
      BY <2>1, <2>2, <3>1, ReclaimableSlot, SetTimedOutInv
  <2>3. CASE m_aSlots[s].Sixup \/ Reclaimable(s, code) = {}
    BY <1>1, <2>1, <2>3, ProtectInv DEF ConTimeout
  <2> QED
    BY <2>2, <2>3
<1>2. ASSUME ConTimeoutNoArg(s) PROVE IInv'
  <2> DEFINE code == m_apPlayers[s].TimeoutCode
  <2>1. Online(s) /\ InState(s, {"INGAME"})
    BY <1>2 DEF ConTimeoutNoArg
  <2>2. CASE ~m_aSlots[s].Sixup /\ Reclaimable(s, code) # {}
    <3>1. SetTimedOut(Min(Reclaimable(s, code)), s)
      BY <1>2, <2>2 DEF ConTimeoutNoArg
    <3> QED
      BY <2>1, <2>2, <3>1, ReclaimableSlot, SetTimedOutInv
  <2>3. CASE m_aSlots[s].Sixup \/ Reclaimable(s, code) = {}
    BY <1>2, <2>1, <2>3, ProtectInv, CodesAssumption DEF ConTimeoutNoArg
  <2> QED
    BY <2>2, <2>3
<1> QED
  BY <1>1, <1>2

\* IInv is preserved by every step of the server.
LEMMA NextInv == IInv /\ [Next]_vars => IInv'
<1> SUFFICES ASSUME IInv, [Next]_vars PROVE IInv'
  OBVIOUS
<1>1. ASSUME NEW a \in Addrs, NEW vanilla \in BOOLEAN, NEW sixup \in BOOLEAN,
             Accept(a, vanilla, sixup)
      PROVE  IInv'
  BY <1>1, AcceptInv
<1>2. ASSUME NEW s \in Slots, Rejoin(s) \/ Close(s) \/ Kick(s) PROVE IInv'
  BY <1>2, RejoinInv, CloseInv, KickInv
<1>3. ASSUME NEW s \in Slots,
             ClientVer(s) \/ Info(s) \/ Ready(s) \/ StartInfo(s) \/ EnterGame(s)
      PROVE  IInv'
  BY <1>3, ClientVerInv, InfoInv, ReadyInv, StartInfoInv, EnterGameInv
<1>4. ASSUME NEW s \in Slots, Login(s) \/ Logout(s) PROVE IInv'
  BY <1>4, LoginInv, LogoutInv
<1>5. ASSUME NEW s \in Slots,
             (\E code \in Codes : ConTimeout(s, code)) \/ ConTimeoutNoArg(s)
      PROVE  IInv'
  BY <1>5, ConTimeoutInv
<1>6. ASSUME NEW late \in SUBSET Slots, Update(late) PROVE IInv'
  BY <1>6, UpdateInv
<1>7. CASE MapReload
  BY <1>7, MapReloadInv
<1>8. CASE UNCHANGED vars
  BY <1>8 DEF vars, IInv, TypeOK, SlotsAgree, PlayerWhenReady, OneSlotPerAddr, AccessIsOwn,
              Online, InState, ReadyOrIngame
<1> QED
  BY <1>1, <1>2, <1>3, <1>4, <1>5, <1>6, <1>7, <1>8 DEF Next

\* IInv holds throughout.
LEMMA AlwaysIInv == Spec => []IInv
BY InitInv, NextInv, PTL DEF Spec

\* The three tables stay well typed, and a slot in use has its peer's address.
THEOREM TypeCorrect == Spec => []TypeOK
<1>1. IInv => TypeOK
  BY DEF IInv
<1> QED
  BY <1>1, AlwaysIInv, PTL

\* CNetServer, CServer and CGameContext agree about every slot, always: it is in
\* use for all or for none, and has a player just when its session is ready.
THEOREM LayersAgree == Spec => [](SlotsAgree /\ PlayerWhenReady)
<1>1. IInv => SlotsAgree /\ PlayerWhenReady
  BY DEF IInv
<1> QED
  BY <1>1, AlwaysIInv, PTL

\* No two online slots have the same address, so packets find their client.
THEOREM AddressesUnique == Spec => []OneSlotPerAddr
<1>1. IInv => OneSlotPerAddr
  BY DEF IInv
<1> QED
  BY <1>1, AlwaysIInv, PTL

\* Rcon access stays with the address that logged in, through drops, rejoins,
\* map changes and slots that are taken over.
THEOREM AccessStays == Spec => []AccessIsOwn
<1>1. IInv => AccessIsOwn
  BY DEF IInv
<1> QED
  BY <1>1, AlwaysIInv, PTL
=============================================================================
