------------------------------ MODULE Register ------------------------------
(***************************************************************************)
(* Registration of a game server with the master server: CRegister         *)
(* (engine/server/register.cpp), the jobs that carry its HTTP requests,    *)
(* and the master (mastersrv/src/main.rs) with its two tables and its      *)
(* challenges.                                                             *)
(*                                                                         *)
(* Each protocol (0.6 or 0.7, over IPv4 or IPv6) registers an address of   *)
(* its own; all share the server's secret and info.  An info is known by   *)
(* its serial.  Time is left out: a timer may run out at any moment.  What *)
(* happens to the two from outside (new infos, changes of sv_register,     *)
(* requests and packets that are lost, an entry that times out, a new      *)
(* seed, a server that stops) is bounded by MaxEvents.                     *)
(***************************************************************************)
EXTENDS Integers, Sequences, FiniteSetsExt, SequencesExt

CONSTANTS NumProtocols,  \* protocols 1 .. NumProtocols (4)
          Threads,       \* threads of the server's job pool (2)
          MaxJobs,       \* bound: jobs of the server in the pool
          MaxLate,       \* bound: requests of a server that outlast its restart
          MaxEvents      \* bound: events from outside

ASSUME RegisterAssumption ==
  /\ NumProtocols \in Nat \ {0} /\ Threads \in Nat \ {0} /\ MaxJobs \in Nat
  /\ MaxLate \in Nat /\ MaxEvents \in Nat

Protocols == 1..NumProtocols
NoToken == 0   \* m_HaveChallengeToken is false
NoSecret == 0  \* the master has no such address

VARIABLES
  running, m_Secret,       \* m_GotFirstUpdateCall, and the secret
  m_InfoSerial, m_LatestSuccessfulInfoSerial,  \* CGlobal
  m_aProtocolEnabled,      \* the protocols that are enabled
  unanswered,              \* CShared: m_NumTotalRequests - 1 - m_LatestResponseIndex
  m_LatestResponseStatus,
  m_NewChallengeToken, m_aChallengeToken,      \* CProtocol
  due,                     \* protocols whose m_NextRegister has come
  jobs,                    \* jobs of the pool in the order they were added
  orphans,                 \* requests of a server that has stopped since
  net,                     \* challenge packets on their way
  seed,                    \* the master's seed; the one before is seed - 1
  addresses, servers,      \* the master's tables
  events                   \* events from outside so far

globalVars == <<m_InfoSerial, m_LatestSuccessfulInfoSerial>>
sharedVars == <<unanswered, m_LatestResponseStatus>>
tokenVars == <<m_NewChallengeToken, m_aChallengeToken>>
processVars == <<running, m_Secret, m_aProtocolEnabled>>
masterVars == <<seed, addresses, servers>>
vars == <<processVars, globalVars, sharedVars, tokenVars, due, jobs, orphans, net,
          masterVars, events>>

Event == events < MaxEvents /\ events' = events + 1

\* A server before its first Update: it has an info (UpdateServerInfo comes before
\* the loop) and all protocols are enabled (sv_register is 1).  The master is new.
Init ==
  /\ running = FALSE /\ m_Secret = 1
  /\ m_InfoSerial = 0 /\ m_LatestSuccessfulInfoSerial = -1
  /\ m_aProtocolEnabled = Protocols
  /\ unanswered = [p \in Protocols |-> 0]
  /\ m_LatestResponseStatus = [p \in Protocols |-> "NONE"]
  /\ m_NewChallengeToken = {}
  /\ m_aChallengeToken = [p \in Protocols |-> NoToken]
  /\ due = {}
  /\ jobs = <<>> /\ orphans = {} /\ net = {}
  /\ seed = 2
  /\ addresses = [p \in Protocols |-> NoSecret]
  /\ servers = <<>>
  /\ events = 0

-----------------------------------------------------------------------------
(* The server's thread.                                                    *)

\* The request SendRegister makes with token t.  The index of a request counts
\* from the one that has the latest response.
Request(p, t, serial) ==
  [type |-> "register", p |-> p, secret |-> m_Secret, index |-> unanswered[p] + 1,
   serial |-> serial, info |-> serial > m_LatestSuccessfulInfoSerial, token |-> t,
   stage |-> "sent", status |-> "NONE"]

Deletion(p) ==
  [type |-> "delete", p |-> p, secret |-> m_Secret, index |-> 0, serial |-> 0,
   info |-> FALSE, token |-> NoToken, stage |-> "sent", status |-> "NONE"]

\* The protocols P in the order of the loops over m_aProtocols.
InOrder(P) ==
  {order \in [1..Cardinality(P) -> P] : \A i, j \in 1..Cardinality(P) :
                                          i < j => order[i] < order[j]}

\* SendRegister of the protocols R and SendDeleteIfRegistered of the protocols
\* D, in the order of the protocols.  The challenge tokens are tokens; those of
\* the protocols new are not in use yet.
Send(R, D, serial, tokens, new) ==
  LET deleting == {p \in D : m_LatestResponseStatus[p] = "OK"}
      job(p) == IF p \in R THEN Request(p, tokens[p], serial) ELSE Deletion(p)
  IN \E order \in InOrder(R \cup deleting) :
     /\ Len(jobs) + Len(order) <= MaxJobs
     /\ jobs' = jobs \o [k \in 1..Len(order) |-> job(order[k])]
     /\ unanswered' = [p \in Protocols |-> unanswered[p] + IF p \in R THEN 1 ELSE 0]
     /\ m_LatestResponseStatus' =
          [p \in Protocols |-> IF p \in D THEN "NONE" ELSE m_LatestResponseStatus[p]]
     /\ m_NewChallengeToken' = new \ R
     /\ m_aChallengeToken' = tokens
     /\ due' = due \ R

\* CheckChallengeStatus sets m_NextRegister to now.
ActsNow(p, new) ==
  /\ unanswered[p] = 0
  /\ \/ m_LatestResponseStatus[p] = "NEEDCHALLENGE" /\ p \in new
     \/ m_LatestResponseStatus[p] = "NEEDINFO"

IsDue(p, new) == p \in due \/ ActsNow(p, new)

\* Mutant of Update: it does not skip the protocols that are disabled.
UpdateAll ==
  LET R == {p \in Protocols : IsDue(p, m_NewChallengeToken)} IN
  /\ running /\ R # {}
  /\ Send(R, {}, m_InfoSerial, m_aChallengeToken, m_NewChallengeToken)
  /\ UNCHANGED <<processVars, globalVars, orphans, net, masterVars, events>>

\* CRegister::Update after the first, when it has something to do.
Update ==
  LET R == {p \in m_aProtocolEnabled : IsDue(p, m_NewChallengeToken)} IN
  /\ running /\ R # {}
  /\ Send(R, {}, m_InfoSerial, m_aChallengeToken, m_NewChallengeToken)
  /\ UNCHANGED <<processVars, globalVars, orphans, net, masterVars, events>>

\* OnPacket with a challenge of this server, and OnToken.  It does not ask
\* whether the protocol is enabled.
OnPacket(c) ==
  LET new == m_NewChallengeToken \cup {c.p} IN
  /\ running
  /\ net' = net \ {c}
  /\ Send(IF IsDue(c.p, new) THEN {c.p} ELSE {}, {}, m_InfoSerial,
          [m_aChallengeToken EXCEPT ![c.p] = c.token], new)
  /\ UNCHANGED <<processVars, globalVars, orphans, masterVars, events>>

\* OnNewInfo: protocols that are due are registered.  If none is, the one that
\* is due next (p) is now, if no register was sent in the last second (at once),
\* or comes to be so within that second.
OnNewInfo(p, once) ==
  LET R == due \cap m_aProtocolEnabled
      next == {p} \cap m_aProtocolEnabled
  IN
  /\ running /\ Event
  /\ m_InfoSerial' = m_InfoSerial + 1
  /\ IF R = {} /\ ~once
     THEN due' = due \cup next /\ UNCHANGED <<sharedVars, tokenVars, jobs>>
     ELSE Send(IF R = {} THEN next ELSE R, {}, m_InfoSerial', m_aChallengeToken,
               m_NewChallengeToken)
  /\ UNCHANGED <<processVars, m_LatestSuccessfulInfoSerial, orphans, net, masterVars>>

\* OnConfigChange: the protocols of sv_register are now P.
OnConfigChange(P) ==
  /\ running /\ P # m_aProtocolEnabled
  /\ Event
  /\ Send(P \ m_aProtocolEnabled, m_aProtocolEnabled \ P, m_InfoSerial, m_aChallengeToken,
          m_NewChallengeToken)
  /\ m_aProtocolEnabled' = P
  /\ UNCHANGED <<running, m_Secret, globalVars, orphans, net, masterVars>>

\* Requests and packets have ended when a timer of 15 or 30 seconds runs out.  (A
\* request is given up after 15 seconds; few take that long.)
Quiet == jobs = <<>> /\ orphans = {} /\ net = {}

\* The 15 seconds to m_NextRegister have passed.
Elapse(p) ==
  /\ running /\ p \notin due /\ Quiet
  /\ due' = due \cup {p}
  /\ UNCHANGED <<processVars, globalVars, sharedVars, tokenVars, jobs, orphans, net,
                 masterVars, events>>

\* The secrets that the master or a request on its way to it has.
SecretsInUse == {addresses[p] : p \in Protocols} \cup {r.secret : r \in orphans'}

\* The server stops, after OnShutdown or in a crash.  Requests that are under way
\* may still reach the master.  What is left is the state CRegister::CRegister
\* gives the next server, which does not know the challenges of this one.  The
\* orphans are those of one server at a time.
Stop(shutdown) ==
  LET deleting == {p \in m_aProtocolEnabled : m_LatestResponseStatus[p] = "OK"} IN
  /\ running /\ running' = FALSE
  /\ Event
  /\ orphans = {}
  /\ orphans' = {r \in Range(SubSeq(jobs, 1, Min({Threads, Len(jobs)}))) : r.stage = "sent"}
                \cup IF shutdown THEN {Deletion(p) : p \in deleting} ELSE {}
  /\ jobs' = <<>> /\ net' = {}
  /\ \E secret \in 1..NumProtocols + 2 :  \* a new one, the least for TLC
       /\ 1..secret \ SecretsInUse = {secret}
       /\ m_Secret' = secret
  /\ m_InfoSerial' = 0 /\ m_LatestSuccessfulInfoSerial' = -1
  /\ m_aProtocolEnabled' = Protocols
  /\ unanswered' = [p \in Protocols |-> 0]
  /\ m_LatestResponseStatus' = [p \in Protocols |-> "NONE"]
  /\ m_NewChallengeToken' = {}
  /\ m_aChallengeToken' = [p \in Protocols |-> NoToken]
  /\ due' = {}
  /\ UNCHANGED masterVars

\* The first Update of a server: m_NextRegister is -1, so each enabled protocol
\* registers.  Until then OnNewInfo and OnConfigChange send nothing.
Start ==
  /\ ~running /\ running' = TRUE
  /\ Cardinality(orphans) <= MaxLate
  /\ Send(m_aProtocolEnabled, {}, m_InfoSerial, m_aChallengeToken, m_NewChallengeToken)
  /\ UNCHANGED <<m_Secret, m_aProtocolEnabled, globalVars, orphans, net, masterVars,
                 events>>

-----------------------------------------------------------------------------
(* The master.                                                             *)

With(f, s, e) == [x \in DOMAIN f \cup {s} |-> IF x = s THEN e ELSE f[x]]
Without(f, s) == [x \in DOMAIN f \ {s} |-> f[x]]

\* Mutant of Leave: the server stays when it has no address left.
LeaveKeepsEmpty(f, s, p) == With(f, s, [f[s] EXCEPT !.addresses = @ \ {p}])

\* The servers f when address p is taken from server s; one without addresses
\* is removed.
Leave(f, s, p) ==
  LET rest == f[s].addresses \ {p}
  IN  IF rest = {} THEN Without(f, s) ELSE With(f, s, [f[s] EXCEPT !.addresses = rest])

\* Servers::add of request r: the info is asked for, or
NeedInfo(r) ==
  ~r.info /\ (r.secret \in DOMAIN servers => r.serial > servers[r.secret].info_serial)

\* the address moves to the server of the request, which gets its info if that
\* is newer.
add(r) ==
  LET old == addresses[r.p]
      f == IF old \notin {NoSecret, r.secret} THEN Leave(servers, old, r.p) ELSE servers
      e == IF r.secret \in DOMAIN f
           THEN [addresses |-> f[r.secret].addresses \cup {r.p},
                 info_serial |-> IF r.serial > f[r.secret].info_serial THEN r.serial
                                 ELSE f[r.secret].info_serial]
           ELSE [addresses |-> {r.p}, info_serial |-> r.serial]
  IN /\ addresses' = [addresses EXCEPT ![r.p] = r.secret]
     /\ servers' = With(f, r.secret, e)

\* Servers::remove, if the address belongs to the secret.
remove(p, secret) ==
  IF addresses[p] # NoSecret /\ addresses[p] = secret
  THEN /\ addresses' = [addresses EXCEPT ![p] = NoSecret]
       /\ servers' = Leave(servers, secret, p)
  ELSE UNCHANGED <<addresses, servers>>

CorrectChallenge(r) == r.token \in {seed, seed - 1}

\* What handle_register answers.
Answer(r) ==
  CASE ~CorrectChallenge(r) -> "NEEDCHALLENGE"
    [] CorrectChallenge(r) /\ NeedInfo(r) -> "NEEDINFO"
    [] OTHER -> "OK"

\* handle_register and handle_delete.
Handle(r) ==
  /\ CASE r.type = "delete" -> remove(r.p, r.secret)
       [] r.type = "register" /\ Answer(r) = "OK" -> add(r)
       [] OTHER -> UNCHANGED <<addresses, servers>>
  /\ UNCHANGED seed

\* The challenge that handle_register sends when the token is not that of the
\* present seed.
Challenge(r) ==
  IF r.type = "delete" \/ r.token = seed THEN {} ELSE {[p |-> r.p, token |-> seed]}

\* handle_periodic_reseed.
Reseed ==
  /\ Event
  /\ seed' = seed + 1
  /\ UNCHANGED <<processVars, globalVars, sharedVars, tokenVars, due, jobs, orphans, net,
                 addresses, servers>>

\* An address whose server has given it up is not refreshed any more.
GivenUp(p) == ~running \/ p \notin m_aProtocolEnabled \/ addresses[p] # m_Secret

\* prune_before takes the addresses that were not refreshed for 30 seconds.  One
\* that its server registers every 15 seconds has met a fault.
Prune(P) ==
  /\ P # {} /\ Quiet
  /\ \A p \in P : addresses[p] # NoSecret
  /\ IF \A p \in P : GivenUp(p) THEN UNCHANGED events ELSE Event
  /\ addresses' = [p \in Protocols |-> IF p \in P THEN NoSecret ELSE addresses[p]]
  /\ servers' = [s \in {t \in DOMAIN servers : servers[t].addresses \ P # {}} |->
                   [servers[s] EXCEPT !.addresses = @ \ P]]
  /\ UNCHANGED <<processVars, globalVars, sharedVars, tokenVars, due, jobs, orphans, net,
                 seed>>

-----------------------------------------------------------------------------
(* The jobs.  CJobPool runs the first Threads of them.                     *)

Runs(k) == k <= Len(jobs) /\ k <= Threads

\* The request gets to the master, and its answer back.  A delete has no more to do.
RunRequest(k) ==
  /\ Runs(k) /\ jobs[k].stage = "sent"
  /\ Handle(jobs[k])
  /\ net' = net \cup Challenge(jobs[k])
  /\ jobs' = IF jobs[k].type = "delete" THEN RemoveAt(jobs, k)
             ELSE [jobs EXCEPT ![k].stage = "answered", ![k].status = Answer(jobs[k])]
  /\ UNCHANGED <<processVars, globalVars, sharedVars, tokenVars, due, orphans, events>>

\* The request fails, before or after the master has seen it.
Fail(k) ==
  /\ Runs(k) /\ jobs[k].stage \in {"sent", "answered"} /\ Event
  /\ jobs' = RemoveAt(jobs, k)
  /\ UNCHANGED <<processVars, globalVars, sharedVars, tokenVars, due, orphans, net,
                 masterVars>>

\* CJob::Run, first critical section: the status counts unless that of a later
\* request has come before.  NEEDCHALLENGE changes nothing else.
SetStatus(k) ==
  LET r == jobs[k]
      newer(i) == IF i > r.index THEN i - r.index ELSE 0
      rest == [i \in 1..Len(jobs) |->
                 IF jobs[i].p = r.p THEN [jobs[i] EXCEPT !.index = newer(@)] ELSE jobs[i]]
  IN
  /\ Runs(k) /\ r.stage = "answered"
  /\ unanswered' = [unanswered EXCEPT ![r.p] = @ - r.index]
  /\ m_LatestResponseStatus' =
       IF r.index > 0 THEN [m_LatestResponseStatus EXCEPT ![r.p] = r.status]
       ELSE m_LatestResponseStatus
  /\ jobs' = IF r.status = "NEEDCHALLENGE" THEN RemoveAt(rest, k)
             ELSE [rest EXCEPT ![k].stage = "status"]
  /\ UNCHANGED <<processVars, globalVars, tokenVars, due, orphans, net, masterVars,
                 events>>

\* Mutant of SetSerial: a request for the info does not make the next one send it.
SetSerialKeeps(k) ==
  LET r == jobs[k] IN
  /\ Runs(k) /\ r.stage = "status"
  /\ m_LatestSuccessfulInfoSerial' =
       IF r.status = "OK" /\ r.serial > m_LatestSuccessfulInfoSerial THEN r.serial
       ELSE m_LatestSuccessfulInfoSerial
  /\ jobs' = RemoveAt(jobs, k)
  /\ UNCHANGED <<processVars, m_InfoSerial, sharedVars, tokenVars, due, orphans, net,
                 masterVars, events>>

\* Second critical section: what the master is known to have.
SetSerial(k) ==
  LET r == jobs[k] IN
  /\ Runs(k) /\ r.stage = "status"
  /\ m_LatestSuccessfulInfoSerial' =
       CASE r.status = "OK" /\ r.serial > m_LatestSuccessfulInfoSerial -> r.serial
         [] r.status = "NEEDINFO" /\ r.serial = m_LatestSuccessfulInfoSerial -> r.serial - 1
         [] OTHER -> m_LatestSuccessfulInfoSerial
  /\ jobs' = RemoveAt(jobs, k)
  /\ UNCHANGED <<processVars, m_InfoSerial, sharedVars, tokenVars, due, orphans, net,
                 masterVars, events>>

\* A request of a server that has stopped reaches the master, or does not.
Orphan(r, arrives) ==
  /\ orphans' = orphans \ {r}
  /\ IF arrives THEN Handle(r) ELSE UNCHANGED masterVars
  /\ UNCHANGED <<processVars, globalVars, sharedVars, tokenVars, due, jobs, net, events>>

\* A challenge packet is lost.
Lose(c) ==
  /\ Event
  /\ net' = net \ {c}
  /\ UNCHANGED <<processVars, globalVars, sharedVars, tokenVars, due, jobs, orphans,
                 masterVars>>

-----------------------------------------------------------------------------
JobStep(k) == RunRequest(k) \/ SetStatus(k) \/ SetSerial(k)

Next ==
  \/ Update \/ Start \/ Reseed
  \/ \E p \in Protocols, once \in BOOLEAN : OnNewInfo(p, once)
  \/ \E P \in SUBSET Protocols : OnConfigChange(P) \/ Prune(P)
  \/ \E shutdown \in BOOLEAN : Stop(shutdown)
  \/ \E p \in Protocols : Elapse(p)
  \/ \E k \in 1..Threads : JobStep(k) \/ Fail(k)
  \/ \E c \in net : OnPacket(c) \/ Lose(c)
  \/ \E r \in orphans, arrives \in BOOLEAN : Orphan(r, arrives)

Spec == Init /\ [][Next]_vars

\* Ticks go on, the threads of the pool run, requests end and packets that are
\* not lost arrive.  m_NextRegister and the 30 seconds of an address are points
\* in time, which come whatever the other protocols do meanwhile: hence SF.
Fairness ==
  /\ WF_vars(Update)
  /\ \A p \in Protocols : SF_vars(Elapse(p)) /\ SF_vars(GivenUp(p) /\ Prune({p}))
  /\ \A k \in 1..Threads : WF_vars(JobStep(k))
  /\ WF_vars(\E c \in net : OnPacket(c))
  /\ WF_vars(\E r \in orphans, arrives \in BOOLEAN : Orphan(r, arrives))

FairSpec == Spec /\ Fairness

-----------------------------------------------------------------------------
(* Properties.                                                             *)

Secrets == Nat \ {0}
Statuses == {"NONE", "OK", "NEEDCHALLENGE", "NEEDINFO"}
Requests == [type : {"register", "delete"}, p : Protocols, secret : Secrets, index : Int,
             serial : Int, info : BOOLEAN, token : Int,
             stage : {"sent", "answered", "status"}, status : Statuses]
Entries == [addresses : SUBSET Protocols, info_serial : Int]

\* The state is well typed: requests are about protocols, and the master knows
\* servers by secrets.
TypeOK ==
  /\ running \in BOOLEAN /\ m_Secret \in Secrets
  /\ m_InfoSerial \in Int /\ m_LatestSuccessfulInfoSerial \in Int
  /\ m_aProtocolEnabled \subseteq Protocols /\ due \subseteq Protocols
  /\ unanswered \in [Protocols -> Int]
  /\ m_LatestResponseStatus \in [Protocols -> Statuses]
  /\ m_NewChallengeToken \subseteq Protocols
  /\ m_aChallengeToken \in [Protocols -> Int]
  /\ jobs \in Seq(Requests) /\ orphans \subseteq Requests
  /\ net \subseteq [p : Protocols, token : Int]
  /\ seed \in Int /\ events \in Nat
  /\ addresses \in [Protocols -> Nat]
  /\ DOMAIN servers \subseteq Secrets /\ servers \in [DOMAIN servers -> Entries]

\* The master's tables describe each other: an address belongs to a server that
\* is there and lists it, and a server has an address.  add, remove and
\* prune_before unwrap what they look up: otherwise the first two would refuse the
\* request (build_response catches the panic), and the last would end the master.
ServersAgree ==
  /\ \A p \in Protocols : addresses[p] # NoSecret =>
       addresses[p] \in DOMAIN servers /\ p \in servers[addresses[p]].addresses
  /\ \A s \in DOMAIN servers :
       /\ servers[s].addresses # {}
       /\ \A p \in servers[s].addresses : addresses[p] = s

Listed(p) == addresses[p] = m_Secret /\ servers[m_Secret].info_serial = m_InfoSerial

Registers(p) == running /\ p \in m_aProtocolEnabled

\* A protocol that stays enabled is listed with the newest info in the end and
\* stays listed, whatever requests, answers and challenges were lost, late or
\* overtaken: by a delete, by the request of another protocol, by a new seed.
EventuallyListed ==
  \A p \in Protocols : <>[]Registers(p) => <>[]Listed(p)

\* The address of a protocol that stays disabled, or of a server that has
\* stopped, leaves the list in the end, although late answers and challenges
\* still reach a protocol that was disabled.
EventuallyGone ==
  \A p \in Protocols : <>[]~Registers(p) => <>[](addresses[p] = NoSecret)
=============================================================================
