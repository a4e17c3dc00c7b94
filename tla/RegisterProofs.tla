--------------------------- MODULE RegisterProofs ---------------------------
(***************************************************************************)
(* Proofs about the registration, for any number of protocols, threads,    *)
(* jobs and events.  The master's tables agree because every operation on  *)
(* them takes an address out of the server it belongs to before it gives   *)
(* it to another; that the request is about a protocol and has a secret is *)
(* all this needs to know of the server that sends it.                     *)
(***************************************************************************)
EXTENDS Register, SequenceTheorems, FiniteSetTheorems, TLAPS

-----------------------------------------------------------------------------
(* The master's tables a and f.                                            *)

Tables(a, f) ==
  /\ a \in [Protocols -> Nat]
  /\ DOMAIN f \subseteq Secrets /\ f \in [DOMAIN f -> Entries]
  /\ \A p \in Protocols : a[p] # NoSecret => a[p] \in DOMAIN f /\ p \in f[a[p]].addresses
  /\ \A s \in DOMAIN f : f[s].addresses # {} /\ \A p \in f[s].addresses : a[p] = s

\* Taking an address from its server leaves tables that agree.
LEMMA LeaveAgrees ==
  ASSUME NEW a, NEW f, Tables(a, f), NEW p \in Protocols, a[p] # NoSecret
  PROVE  Tables([a EXCEPT ![p] = NoSecret], Leave(f, a[p], p))
<1> DEFINE s == a[p]
           b == [a EXCEPT ![p] = NoSecret]
           rest == f[s].addresses \ {p}
<1>1. s \in DOMAIN f /\ s \in Secrets /\ f[s] \in Entries /\ p \in f[s].addresses
  BY DEF Tables
<1>2. b \in [Protocols -> Nat] /\ b[p] = NoSecret /\ \A q \in Protocols : q # p => b[q] = a[q]
  BY DEF Tables, NoSecret
<1>3. CASE rest = {}
  <2>1. Leave(f, s, p) = [x \in DOMAIN f \ {s} |-> f[x]]
    BY <1>3 DEF Leave, Without
  <2>2. \A q \in Protocols : q # p => a[q] # s
    BY <1>1, <1>3 DEF Tables, NoSecret, Secrets
  <2> QED
    BY <1>1, <1>2, <2>1, <2>2 DEF Tables, Entries, NoSecret, Secrets
<1>4. CASE rest # {}
  <2> DEFINE e == [f[s] EXCEPT !.addresses = rest]
  <2>1. Leave(f, s, p) = With(f, s, e)
    BY <1>4 DEF Leave
  <2>2. e \in Entries /\ e.addresses = rest
    BY <1>1 DEF Entries
  <2> HIDE DEF e, s
  <2>0. DOMAIN f \subseteq Secrets /\ f \in [DOMAIN f -> Entries]
    BY DEF Tables
  <2>3. /\ DOMAIN With(f, s, e) = DOMAIN f \cup {s}
        /\ With(f, s, e) \in [DOMAIN With(f, s, e) -> Entries]
        /\ With(f, s, e)[s] = e
        /\ \A x \in DOMAIN f : x # s => With(f, s, e)[x] = f[x]
    BY <1>1, <2>0, <2>2 DEF With
  <2> USE DEF s
  <2> QED
    BY <1>1, <1>2, <1>4, <2>1, <2>2, <2>3 DEF Tables, NoSecret, Secrets
<1> QED
  BY <1>3, <1>4

\* An address that has no server, or this one already, may be given to it.
LEMMA WithAgrees ==
  ASSUME NEW a, NEW f, Tables(a, f), NEW p \in Protocols, NEW s \in Secrets,
         a[p] \in {NoSecret, s}, NEW e \in Entries,
         e.addresses = IF s \in DOMAIN f THEN f[s].addresses \cup {p} ELSE {p}
  PROVE  Tables([a EXCEPT ![p] = s], With(f, s, e))
<1>0. DOMAIN f \subseteq Secrets /\ f \in [DOMAIN f -> Entries]
  BY DEF Tables
<1>1. /\ DOMAIN With(f, s, e) = DOMAIN f \cup {s}
      /\ With(f, s, e) \in [DOMAIN With(f, s, e) -> Entries]
      /\ With(f, s, e)[s] = e
      /\ \A x \in DOMAIN f : x # s => With(f, s, e)[x] = f[x]
  BY <1>0 DEF With
<1> DEFINE b == [a EXCEPT ![p] = s]
<1>2. b \in [Protocols -> Nat] /\ b[p] = s /\ \A q \in Protocols : q # p => b[q] = a[q]
  BY DEF Tables, Secrets
<1>3. \A x \in DOMAIN f : x # s => p \notin f[x].addresses
  BY DEF Tables, NoSecret, Secrets
<1>4. \A x \in DOMAIN f : f[x].addresses \subseteq Protocols
  BY DEF Tables, Entries
<1> QED
  BY <1>1, <1>2, <1>3, <1>4 DEF Tables, NoSecret, Secrets

\* Servers::add keeps the tables in agreement.
LEMMA AddAgrees ==
  ASSUME Tables(addresses, servers), NEW r \in Requests, add(r)
  PROVE  Tables(addresses', servers')
<1> DEFINE s == r.secret
           p == r.p
           old == addresses[p]
           f == IF old \notin {NoSecret, s} THEN Leave(servers, old, p) ELSE servers
           a == IF old \notin {NoSecret, s} THEN [addresses EXCEPT ![p] = NoSecret]
                ELSE addresses
           e == IF s \in DOMAIN f
                THEN [addresses |-> f[s].addresses \cup {p},
                      info_serial |-> IF r.serial > f[s].info_serial THEN r.serial
                                      ELSE f[s].info_serial]
                ELSE [addresses |-> {p}, info_serial |-> r.serial]
<1>1. s \in Secrets /\ p \in Protocols /\ r.serial \in Int
  BY DEF Requests
<1>2. Tables(a, f) /\ a[p] \in {NoSecret, s}
  <2>1. CASE old \notin {NoSecret, s}
    <3>1. Tables([addresses EXCEPT ![p] = NoSecret], Leave(servers, old, p))
      BY <1>1, <2>1, LeaveAgrees
    <3>2. [addresses EXCEPT ![p] = NoSecret][p] = NoSecret
      BY <1>1 DEF Tables
    <3> QED
      BY <2>1, <3>1, <3>2
  <2>2. CASE old \in {NoSecret, s}
    BY <2>2
  <2> QED
    BY <2>1, <2>2
<1>3. addresses' = [a EXCEPT ![p] = s] /\ servers' = With(f, s, e)
  BY <1>1 DEF add, Tables
<1> HIDE DEF f, a
<1>4. e \in Entries /\ e.addresses = IF s \in DOMAIN f THEN f[s].addresses \cup {p} ELSE {p}
  BY <1>1, <1>2 DEF Tables, Entries
<1> HIDE DEF e
<1> QED
  BY <1>1, <1>2, <1>3, <1>4, WithAgrees

\* Servers::remove keeps the tables in agreement.
LEMMA RemoveAgrees ==
  ASSUME Tables(addresses, servers), NEW p \in Protocols, NEW secret, remove(p, secret)
  PROVE  Tables(addresses', servers')
<1>1. CASE addresses[p] # NoSecret /\ addresses[p] = secret
  BY <1>1, LeaveAgrees DEF remove
<1>2. CASE ~(addresses[p] # NoSecret /\ addresses[p] = secret)
  BY <1>2 DEF remove
<1> QED
  BY <1>1, <1>2

\* So does a request, whatever it asks for.
LEMMA HandleAgrees ==
  ASSUME Tables(addresses, servers), NEW r \in Requests, Handle(r)
  PROVE  Tables(addresses', servers') /\ seed' = seed
<1>1. seed' = seed
  BY DEF Handle
<1>2. CASE r.type = "delete"
  <2>1. remove(r.p, r.secret)
    BY <1>2 DEF Handle
  <2> QED
    BY <1>1, <2>1, RemoveAgrees DEF Requests
<1>3. CASE r.type = "register" /\ Answer(r) = "OK"
  <2>1. add(r)
    BY <1>3 DEF Handle
  <2> QED
    BY <1>1, <2>1, AddAgrees
<1>4. CASE r.type # "delete" /\ ~(r.type = "register" /\ Answer(r) = "OK")
  BY <1>1, <1>4 DEF Handle
<1> QED
  BY <1>2, <1>3, <1>4

\* prune_before keeps the tables in agreement.
LEMMA PruneAgrees ==
  ASSUME Tables(addresses, servers), NEW P \in SUBSET Protocols, Prune(P)
  PROVE  Tables(addresses', servers')
<1> DEFINE D == {t \in DOMAIN servers : servers[t].addresses \ P # {}}
<1>1. /\ addresses' = [p \in Protocols |-> IF p \in P THEN NoSecret ELSE addresses[p]]
      /\ servers' = [s \in D |-> [servers[s] EXCEPT !.addresses = @ \ P]]
  BY DEF Prune
<1>2. \A s \in D : /\ servers[s] \in Entries
                   /\ [servers[s] EXCEPT !.addresses = @ \ P] \in Entries
                   /\ [servers[s] EXCEPT !.addresses = @ \ P].addresses
                        = servers[s].addresses \ P
  BY DEF Tables, Entries
<1>3. /\ DOMAIN servers' = D /\ servers' \in [D -> Entries]
      /\ \A s \in D : servers'[s].addresses = servers[s].addresses \ P
  BY <1>1, <1>2
<1>4. addresses' \in [Protocols -> Nat]
  BY <1>1 DEF Tables, NoSecret
<1>5. \A p \in Protocols : addresses'[p] # NoSecret =>
        p \notin P /\ addresses'[p] = addresses[p]
  BY <1>1
<1>6. \A s \in D : \A p \in servers[s].addresses \ P : addresses'[p] = s
  BY <1>1, <1>2 DEF Tables, Entries
<1> QED
  BY <1>3, <1>4, <1>5, <1>6 DEF Tables

-----------------------------------------------------------------------------
(* The server's side: requests are well formed.                            *)

\* A sequence of requests without one of them is one.
LEMMA RemoveAtType ==
  ASSUME NEW s \in Seq(Requests), NEW k \in 1..Len(s)
  PROVE  RemoveAt(s, k) \in Seq(Requests)
<1>1. SubSeq(s, 1, k - 1) \in Seq(Requests)
  BY SubSeqProperties
<1>2. SubSeq(s, k + 1, Len(s)) \in Seq(Requests)
  BY SubSeqProperties
<1> QED
  BY <1>1, <1>2, ConcatProperties DEF RemoveAt

\* What the steps of a job set in its request.
LEMMA RequestType ==
  ASSUME NEW r \in Requests
  PROVE  /\ \A st \in Statuses :
              [[r EXCEPT !.stage = "answered"] EXCEPT !.status = st] \in Requests
         /\ [r EXCEPT !.stage = "status"] \in Requests
         /\ \A i \in Int : [r EXCEPT !.index = i] \in Requests
         /\ r.index \in Int /\ r.p \in Protocols /\ r.status \in Statuses
BY DEF Requests

\* A request in a sequence of them may be replaced by another.
LEMMA ReplaceType ==
  ASSUME NEW s \in Seq(Requests), NEW k \in 1..Len(s), NEW r \in Requests
  PROVE  [s EXCEPT ![k] = r] \in Seq(Requests)
OBVIOUS

\* An order of some protocols is a sequence of them.
LEMMA InOrderType ==
  ASSUME NEW P \in SUBSET Protocols, NEW order \in InOrder(P)
  PROVE  order \in Seq(P)
<1>1. IsFiniteSet(P)
  <2>1. IsFiniteSet(1..NumProtocols)
    BY RegisterAssumption, FS_Interval
  <2> QED
    BY <2>1, FS_Subset DEF Protocols
<1>2. Cardinality(P) \in Nat
  BY <1>1, FS_CardinalityType
<1> QED
  BY <1>2 DEF InOrder

\* What the handlers of the server send are requests of its protocols.
LEMMA SendType ==
  ASSUME TypeOK, NEW R \in SUBSET Protocols, NEW D \in SUBSET Protocols, NEW serial \in Int,
         NEW tokens \in [Protocols -> Int], NEW new \in SUBSET Protocols,
         Send(R, D, serial, tokens, new)
  PROVE  /\ jobs' \in Seq(Requests)
         /\ unanswered' \in [Protocols -> Int]
         /\ m_LatestResponseStatus' \in [Protocols -> Statuses]
         /\ m_NewChallengeToken' \subseteq Protocols
         /\ m_aChallengeToken' \in [Protocols -> Int]
         /\ due' \subseteq Protocols
<1> DEFINE deleting == {p \in D : m_LatestResponseStatus[p] = "OK"}
           job(p) == IF p \in R THEN Request(p, tokens[p], serial) ELSE Deletion(p)
<1>1. PICK order \in InOrder(R \cup deleting) :
        jobs' = jobs \o [k \in 1..Len(order) |-> job(order[k])]
  BY DEF Send
<1>2. order \in Seq(R \cup deleting)
  BY <1>1, InOrderType
<1>3. \A p \in Protocols : job(p) \in Requests
  <2> SUFFICES ASSUME NEW p \in Protocols PROVE job(p) \in Requests
    OBVIOUS
  <2>1. Request(p, tokens[p], serial) \in Requests
    BY DEF Request, Requests, TypeOK, Statuses
  <2>2. Deletion(p) \in Requests
    BY DEF Deletion, Requests, TypeOK, Statuses, NoToken
  <2> QED
    BY <2>1, <2>2
<1> HIDE DEF job
<1>4. [k \in 1..Len(order) |-> job(order[k])] \in Seq(Requests)
  BY <1>2, <1>3
<1>5. jobs' \in Seq(Requests)
  BY <1>1, <1>4, ConcatProperties DEF TypeOK
<1>6. unanswered' \in [Protocols -> Int] /\ m_LatestResponseStatus' \in [Protocols -> Statuses]
  BY DEF Send, TypeOK, Statuses
<1>7. /\ m_NewChallengeToken' \subseteq Protocols /\ m_aChallengeToken' \in [Protocols -> Int]
      /\ due' \subseteq Protocols
  BY DEF Send, TypeOK
<1> QED
  BY <1>5, <1>6, <1>7

-----------------------------------------------------------------------------
(* The specification.                                                      *)

IInv == TypeOK /\ ServersAgree

\* The invariant is about the tables and the types of the rest.
LEMMA InvTables ==
  IInv => Tables(addresses, servers)
BY DEF IInv, TypeOK, ServersAgree, Tables

\* The invariant holds at the start.
LEMMA InitInv ==
  Init => IInv
<1> SUFFICES ASSUME Init PROVE IInv
  OBVIOUS
<1>1. DOMAIN servers = {} /\ servers \in [DOMAIN servers -> Entries]
  BY DEF Init
<1>2. jobs \in Seq(Requests)
  BY DEF Init
<1>3. ServersAgree
  BY <1>1 DEF Init, ServersAgree
<1>4. /\ unanswered \in [Protocols -> Int]
      /\ m_LatestResponseStatus \in [Protocols -> Statuses]
      /\ m_aChallengeToken \in [Protocols -> Int]
      /\ addresses \in [Protocols -> Nat]
  BY DEF Init, Statuses, NoToken, NoSecret
<1>5. running \in BOOLEAN
  BY Zenon DEF Init
<1>6. /\ m_Secret \in Secrets /\ seed \in Int /\ events \in Nat
      /\ m_InfoSerial \in Int /\ m_LatestSuccessfulInfoSerial \in Int
  BY DEF Init, Secrets
<1> QED
  BY <1>1, <1>2, <1>3, <1>4, <1>5, <1>6 DEF Init, IInv, TypeOK

\* Steps of the server's thread leave the tables alone.
LEMMA ServerSteps ==
  ASSUME IInv,
         \/ Update \/ Start \/ (\E c \in net : OnPacket(c))
         \/ (\E p \in Protocols, once \in BOOLEAN : OnNewInfo(p, once))
         \/ (\E P \in SUBSET Protocols : OnConfigChange(P))
         \/ (\E p \in Protocols : Elapse(p))
  PROVE  IInv'
<1> USE DEF IInv
<1>1. ASSUME UNCHANGED masterVars, TypeOK' PROVE IInv'
  BY <1>1 DEF masterVars, ServersAgree
<1>2. CASE Update
  <2> DEFINE R == {p \in m_aProtocolEnabled : IsDue(p, m_NewChallengeToken)}
  <2>1. Send(R, {}, m_InfoSerial, m_aChallengeToken, m_NewChallengeToken)
    BY <1>2 DEF Update
  <2>2. R \in SUBSET Protocols
    BY DEF TypeOK
  <2> HIDE DEF R
  <2> QED
    BY <1>1, <1>2, <2>1, <2>2, SendType
       DEF Update, TypeOK, processVars, globalVars, masterVars
<1>3. CASE Start
  <2>1. Send(m_aProtocolEnabled, {}, m_InfoSerial, m_aChallengeToken, m_NewChallengeToken)
    BY <1>3 DEF Start
  <2> QED
    BY <1>1, <1>3, <2>1, SendType DEF Start, TypeOK, globalVars, masterVars
<1>4. ASSUME NEW c \in net, OnPacket(c) PROVE IInv'
  <2> DEFINE new == m_NewChallengeToken \cup {c.p}
             R == IF IsDue(c.p, new) THEN {c.p} ELSE {}
             tokens == [m_aChallengeToken EXCEPT ![c.p] = c.token]
  <2>1. Send(R, {}, m_InfoSerial, tokens, new)
    BY <1>4 DEF OnPacket
  <2>2. new \in SUBSET Protocols /\ R \in SUBSET Protocols /\ tokens \in [Protocols -> Int]
    BY DEF TypeOK
  <2> HIDE DEF new, R, tokens
  <2> QED
    BY <1>1, <1>4, <2>1, <2>2, SendType
       DEF OnPacket, TypeOK, processVars, globalVars, masterVars
<1>5. ASSUME NEW p \in Protocols, NEW once \in BOOLEAN, OnNewInfo(p, once) PROVE IInv'
  <2> DEFINE R == due \cap m_aProtocolEnabled
             next == {p} \cap m_aProtocolEnabled
             S == IF R = {} THEN next ELSE R
  <2>1. m_InfoSerial' = m_InfoSerial + 1 /\ m_InfoSerial' \in Int
    BY <1>5 DEF OnNewInfo, TypeOK
  <2>2. events' \in Nat
    BY <1>5 DEF OnNewInfo, Event, TypeOK
  <2>3. /\ jobs' \in Seq(Requests) /\ unanswered' \in [Protocols -> Int]
        /\ m_LatestResponseStatus' \in [Protocols -> Statuses]
        /\ m_NewChallengeToken' \subseteq Protocols
        /\ m_aChallengeToken' \in [Protocols -> Int] /\ due' \subseteq Protocols
    <3>1. CASE R = {} /\ ~once
      BY <1>5, <3>1 DEF OnNewInfo, TypeOK, sharedVars, tokenVars
    <3>2. CASE ~(R = {} /\ ~once)
      <4>1. Send(S, {}, m_InfoSerial', m_aChallengeToken, m_NewChallengeToken)
        BY <1>5, <3>2 DEF OnNewInfo
      <4>2. S \in SUBSET Protocols
        BY DEF TypeOK
      <4> HIDE DEF S
      <4> QED
        BY <2>1, <4>1, <4>2, SendType DEF TypeOK
    <3> QED
      BY <3>1, <3>2
  <2> QED
    BY <1>1, <1>5, <2>1, <2>2, <2>3 DEF OnNewInfo, TypeOK, processVars, masterVars
<1>6. ASSUME NEW P \in SUBSET Protocols, OnConfigChange(P) PROVE IInv'
  <2>1. Send(P \ m_aProtocolEnabled, m_aProtocolEnabled \ P, m_InfoSerial,
             m_aChallengeToken, m_NewChallengeToken)
    BY <1>6 DEF OnConfigChange
  <2>2. P \ m_aProtocolEnabled \in SUBSET Protocols /\ m_aProtocolEnabled \ P \in SUBSET Protocols
    BY DEF TypeOK
  <2>3. events' \in Nat
    BY <1>6 DEF OnConfigChange, Event, TypeOK
  <2> QED
    BY <1>1, <1>6, <2>1, <2>2, <2>3, SendType DEF OnConfigChange, TypeOK, globalVars, masterVars
<1>7. ASSUME NEW p \in Protocols, Elapse(p) PROVE IInv'
  BY <1>1, <1>7 DEF Elapse, TypeOK, processVars, globalVars, sharedVars, tokenVars, masterVars
<1> QED
  BY <1>2, <1>3, <1>4, <1>5, <1>6, <1>7

\* A server that stops leaves well-formed requests behind.
LEMMA StopStep ==
  ASSUME IInv, NEW shutdown \in BOOLEAN, Stop(shutdown)
  PROVE  IInv'
<1> USE DEF IInv
<1> DEFINE deleting == {p \in m_aProtocolEnabled : m_LatestResponseStatus[p] = "OK"}
<1>1. orphans' \subseteq Requests
  <2>1. \A p \in deleting : Deletion(p) \in Requests
    BY DEF Deletion, Requests, TypeOK, Statuses, NoToken
  <2>2. Range(SubSeq(jobs, 1, Min({Threads, Len(jobs)}))) \subseteq Requests
    <3>1. Len(jobs) \in Nat /\ Threads \in Nat
      BY RegisterAssumption DEF TypeOK
    <3>2. Min({Threads, Len(jobs)}) = IF Threads <= Len(jobs) THEN Threads ELSE Len(jobs)
      BY <3>1 DEF Min
    <3> DEFINE n == Min({Threads, Len(jobs)})
    <3>3. n \in 0..Len(jobs)
      BY <3>1, <3>2
    <3> HIDE DEF n
    <3>4. SubSeq(jobs, 1, n) \in Seq(Requests)
      BY <3>3, SubSeqProperties DEF TypeOK
    <3>5. \A q \in Seq(Requests) : Range(q) \subseteq Requests
      BY DEF Range
    <3> QED
      BY <3>4, <3>5 DEF n
  <2> QED
    BY <2>1, <2>2 DEF Stop
<1>2. m_Secret' \in Secrets
  BY RegisterAssumption DEF Stop, Secrets
<1>3. /\ unanswered' \in [Protocols -> Int]
      /\ m_LatestResponseStatus' \in [Protocols -> Statuses]
      /\ m_aChallengeToken' \in [Protocols -> Int]
      /\ m_InfoSerial' \in Int /\ m_LatestSuccessfulInfoSerial' \in Int
  BY DEF Stop, Statuses, NoToken
<1>4. jobs' \in Seq(Requests)
  BY DEF Stop
<1>5. events' \in Nat
  BY DEF Stop, Event, TypeOK
<1>6. /\ m_aProtocolEnabled' = Protocols /\ m_NewChallengeToken' = {} /\ due' = {}
      /\ net' = {} /\ running' = FALSE /\ UNCHANGED masterVars
  BY DEF Stop
<1>7. TypeOK'
  BY <1>1, <1>2, <1>3, <1>4, <1>5, <1>6 DEF TypeOK, masterVars
<1> QED
  BY <1>6, <1>7 DEF masterVars, ServersAgree

\* So do the steps of the jobs and what happens to requests and packets.
LEMMA JobSteps ==
  ASSUME IInv, NEW k \in 1..Threads, JobStep(k) \/ Fail(k)
  PROVE  IInv'
<1> USE DEF IInv
<1>1. k \in 1..Len(jobs)
  BY DEF JobStep, RunRequest, SetStatus, SetSerial, Fail, Runs, TypeOK
<1>2. jobs[k] \in Requests /\ RemoveAt(jobs, k) \in Seq(Requests)
  BY <1>1, RemoveAtType DEF TypeOK
<1>3. CASE RunRequest(k)
  <2>1. Tables(addresses', servers') /\ seed' = seed
    BY <1>2, <1>3, InvTables, HandleAgrees DEF RunRequest
  <2>2. net' \subseteq [p : Protocols, token : Int]
    BY <1>2, <1>3 DEF RunRequest, Challenge, TypeOK, Requests
  <2>3. jobs' \in Seq(Requests)
    <3>1. Answer(jobs[k]) \in Statuses
      BY DEF Answer, Statuses
    <3>2. [jobs EXCEPT ![k].stage = "answered", ![k].status = Answer(jobs[k])] \in Seq(Requests)
      <4> DEFINE r == [[jobs[k] EXCEPT !.stage = "answered"] EXCEPT !.status = Answer(jobs[k])]
      <4>1. r \in Requests
        BY <1>2, <3>1, RequestType
      <4>2. [jobs EXCEPT ![k].stage = "answered", ![k].status = Answer(jobs[k])]
              = [jobs EXCEPT ![k] = r]
        BY <1>1 DEF TypeOK
      <4> HIDE DEF r
      <4> QED
        BY <1>1, <4>1, <4>2, ReplaceType DEF TypeOK
    <3> QED
      BY <1>2, <1>3, <3>2 DEF RunRequest
  <2> QED
    BY <1>3, <2>1, <2>2, <2>3
       DEF RunRequest, Tables, TypeOK, ServersAgree, processVars, globalVars, sharedVars, tokenVars
<1>4. CASE SetStatus(k)
  <2> DEFINE r == jobs[k]
             newer(i) == IF i > r.index THEN i - r.index ELSE 0
             rest == [i \in 1..Len(jobs) |->
                        IF jobs[i].p = r.p THEN [jobs[i] EXCEPT !.index = newer(@)] ELSE jobs[i]]
  <2>1. rest \in Seq(Requests) /\ Len(rest) = Len(jobs)
    <3>1. \A i \in 1..Len(jobs) : rest[i] \in Requests
      <4> SUFFICES ASSUME NEW i \in 1..Len(jobs) PROVE rest[i] \in Requests
        OBVIOUS
      <4>1. jobs[i] \in Requests /\ r \in Requests
        BY <1>2 DEF TypeOK
      <4>2. newer(jobs[i].index) \in Int
        <5>1. jobs[i].index \in Int /\ r.index \in Int
          BY <4>1, RequestType
        <5> QED
          BY <5>1
      <4>3. [jobs[i] EXCEPT !.index = newer(@)] \in Requests
        BY <4>1, <4>2, RequestType
      <4> QED
        BY <4>1, <4>3
    <3> HIDE DEF rest
    <3>2. rest = [i \in 1..Len(jobs) |-> rest[i]]
      BY DEF rest
    <3> QED
      BY <3>1, <3>2 DEF TypeOK
  <2> HIDE DEF rest
  <2>2. RemoveAt(rest, k) \in Seq(Requests)
    BY <1>1, <2>1, RemoveAtType
  <2>3. [rest EXCEPT ![k].stage = "status"] \in Seq(Requests)
    <3>1. rest[k] \in Requests
      BY <1>1, <2>1
    <3>2. [rest EXCEPT ![k].stage = "status"]
            = [rest EXCEPT ![k] = [rest[k] EXCEPT !.stage = "status"]]
      BY <1>1, <2>1
    <3>3. [rest[k] EXCEPT !.stage = "status"] \in Requests
      BY <3>1, RequestType
    <3> QED
      BY <1>1, <2>1, <3>2, <3>3, ReplaceType
  <2>4. jobs' \in Seq(Requests)
    BY <1>4, <2>2, <2>3 DEF SetStatus, rest
  <2>5. unanswered' \in [Protocols -> Int] /\ m_LatestResponseStatus' \in [Protocols -> Statuses]
    <3>1. r.index \in Int /\ r.p \in Protocols /\ r.status \in Statuses
      BY <1>2, RequestType
    <3> QED
      BY <1>4, <3>1 DEF SetStatus, TypeOK
  <2> QED
    BY <1>4, <2>4, <2>5
       DEF SetStatus, TypeOK, ServersAgree, processVars, globalVars, tokenVars, masterVars
<1>5. CASE SetSerial(k)
  <2>1. m_LatestSuccessfulInfoSerial' \in Int
    BY <1>2, <1>5 DEF SetSerial, TypeOK, Requests
  <2> QED
    BY <1>2, <1>5, <2>1
       DEF SetSerial, TypeOK, ServersAgree, processVars, sharedVars, tokenVars, masterVars
<1>6. CASE Fail(k)
  <2>1. events' \in Nat
    BY <1>6 DEF Fail, Event, TypeOK
  <2> QED
    BY <1>2, <1>6, <2>1 DEF Fail, TypeOK, ServersAgree, processVars, globalVars, sharedVars,
                          tokenVars, masterVars
<1> QED
  BY <1>3, <1>4, <1>5, <1>6 DEF JobStep

\* Every step preserves the invariant.
LEMMA NextInv ==
  IInv /\ [Next]_vars => IInv'
<1> SUFFICES ASSUME IInv, [Next]_vars PROVE IInv'
  OBVIOUS
<1>1. CASE UNCHANGED vars
  BY <1>1 DEF vars, IInv, TypeOK, ServersAgree, processVars, globalVars, sharedVars, tokenVars,
              masterVars
<1>2. CASE Reseed
  <2>1. events' \in Nat
    BY <1>2 DEF Reseed, Event, IInv, TypeOK
  <2> QED
    BY <1>2, <2>1 DEF Reseed, IInv, TypeOK, ServersAgree, processVars, globalVars, sharedVars,
                    tokenVars
<1>3. ASSUME NEW P \in SUBSET Protocols, Prune(P) PROVE IInv'
  <2>1. Tables(addresses', servers')
    BY <1>3, InvTables, PruneAgrees
  <2>2. events' \in Nat
    BY <1>3 DEF Prune, Event, IInv, TypeOK
  <2> QED
    BY <1>3, <2>1, <2>2 DEF Prune, Tables, IInv, TypeOK, ServersAgree, processVars, globalVars,
                          sharedVars, tokenVars
<1>4. ASSUME NEW r \in orphans, NEW arrives \in BOOLEAN, Orphan(r, arrives) PROVE IInv'
  <2>1. r \in Requests
    BY DEF IInv, TypeOK
  <2>2. Tables(addresses', servers') /\ seed' = seed
    <3>1. CASE arrives
      BY <1>4, <2>1, <3>1, InvTables, HandleAgrees DEF Orphan
    <3>2. CASE ~arrives
      BY <1>4, <3>2, InvTables DEF Orphan, masterVars
    <3> QED
      BY <3>1, <3>2
  <2> QED
    BY <1>4, <2>2 DEF Orphan, Tables, IInv, TypeOK, ServersAgree, processVars, globalVars,
                    sharedVars, tokenVars
<1>5. ASSUME NEW c \in net, Lose(c) PROVE IInv'
  <2>1. events' \in Nat
    BY <1>5 DEF Lose, Event, IInv, TypeOK
  <2> QED
    BY <1>5, <2>1 DEF Lose, IInv, TypeOK, ServersAgree, processVars, globalVars, sharedVars,
                    tokenVars, masterVars
<1> QED
  BY <1>1, <1>2, <1>3, <1>4, <1>5, ServerSteps, StopStep, JobSteps DEF Next

\* The state of the server and of the master stays well typed, for any number of
\* protocols, threads, jobs and events.
THEOREM TypeCorrect ==
  Spec => []TypeOK
<1>1. IInv => TypeOK
  BY DEF IInv
<1> QED
  BY InitInv, NextInv, <1>1, PTL DEF Spec

\* The master's two tables agree through every order of registers, deletes, prunes,
\* restarts and late requests: what Servers::add, remove and prune_before unwrap
\* is always there.
THEOREM TablesAgree ==
  Spec => []ServersAgree
<1>1. IInv => ServersAgree
  BY DEF IInv
<1> QED
  BY InitInv, NextInv, <1>1, PTL DEF Spec
=============================================================================
