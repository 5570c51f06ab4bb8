---------------------------- MODULE ClusterProofs ----------------------------
(***************************************************************************)
(* What agents, connections and coordinator threads guarantee together,    *)
(* for any number of worker ids, processes, devices and connections, and   *)
(* for any failures unless a theorem names them.                           *)
(***************************************************************************)
EXTENDS Cluster, FleetStateProofs

-----------------------------------------------------------------------------
(* The inductive invariant *)

(* Process b can have sent message m by now.                               *)
SentBy(b, m) ==
  /\ m.type = "REGISTER" =>
       /\ m.reg.worker = WorkerOf(b) /\ m.reg.boot = b
       /\ m.reg.reg_gen <= agents[b].reg_gen
  /\ m.type = "DEVICE_SNAPSHOT" =>
       \A i \in DOMAIN m.obs : m.obs[i].boot = b /\ m.obs[i].obs_gen < agents[b].obs_gen
  /\ m.type = "TORN" => MayFail("torn_snapshot") \/ MayFail("torn_heartbeat")

(* A slot nobody serves is empty.  What is under way on a connection comes *)
(* from the process that opened it, and no observation is sent before the  *)
(* coordinator has bound the connection to the worker.                     *)
ConnOK(c) ==
  /\ conns[c].served => conns[c].boot \in Boots
  /\ ~conns[c].served => conns[c] = NoConn
  /\ Len(conns[c].inbox) <= MaxInbox
  /\ \A k \in DOMAIN conns[c].inbox :
       /\ SentBy(conns[c].boot, conns[c].inbox[k])
       /\ conns[c].inbox[k].type = "DEVICE_SNAPSHOT" => conns[c].worker_bound

(* Where an agent stands says whether it has a connection and an epoch.    *)
AgentOK(b) ==
  LET a == agents[b] IN
  /\ a.pc \in {"off", "connect", "dead"} <=> a.conn = NoConnection
  /\ a.pc \in {"hello", "register"} => a.reg_gen <= MaxRegGen
  /\ a.pc \in {"register", "publish", "beat"} => a.last_known_epoch # 0

(* Both ends of a working link agree on where the handshake is.            *)
LinkOK(b) ==
  LET a == agents[b]
      link == conns[a.conn]
  IN  a.conn # NoConnection =>
        /\ ~link.up => link.reply = "none"
        /\ link.up =>
             /\ link.served /\ link.boot = b
             /\ a.pc = "hello" =>
                  \/ Len(link.inbox) = 1 /\ link.reply = "none" /\ link.inbox[1].type = "HELLO"
                  \/ link.inbox = <<>> /\ link.reply = "hello" /\ link.ack_epoch # 0
             /\ a.pc = "register" =>
                  \/ Len(link.inbox) = 1 /\ link.reply = "none" /\ link.inbox[1].type = "REGISTER"
                  \/ link.inbox = <<>> /\ link.reply # "hello" /\ link.worker_bound
             /\ a.pc \in {"publish", "beat"} => link.worker_bound

(* The inductive invariant of the cluster.                                 *)
ClusterInv ==
  /\ TypeOK
  /\ ClusterTypeOK
  /\ \A c \in Conns : ConnOK(c)
  /\ \A b \in Boots : AgentOK(b) /\ LinkOK(b)

-----------------------------------------------------------------------------
(* A boot id belongs to exactly one worker id.                             *)
LEMMA WorkerOfBoot ==
  /\ \A b \in Boots : WorkerOf(b) \in Workers /\ b \in BootsOf[WorkerOf(b)]
  /\ \A w \in Workers : \A b \in BootsOf[w] : b \in Boots /\ WorkerOf(b) = w
<1>1. ASSUME NEW b \in Boots PROVE WorkerOf(b) \in Workers /\ b \in BootsOf[WorkerOf(b)]
  BY DEF Boots, WorkerOf
<1>2. ASSUME NEW w \in Workers, NEW b \in BootsOf[w] PROVE b \in Boots /\ WorkerOf(b) = w
  <2>1. b \in Boots
    BY DEF Boots
  <2> QED
    BY <1>1, <2>1, BootIdsUnique
<1> QED
  BY <1>1, <1>2

(* The message at the head of an inbox, by its type.                       *)
LEMMA Received ==
  ASSUME ClusterInv, NEW c \in Conns, conns[c].served, conns[c].inbox # <<>>
  PROVE  LET m == Head(conns[c].inbox)
             b == conns[c].boot
         IN  /\ b \in Boots /\ WorkerOf(b) \in Workers /\ b \in BootsOf[WorkerOf(b)]
             /\ m \in Message /\ SentBy(b, m)
             /\ m.type = "REGISTER" => m.reg \in Registrations
             /\ m.type = "DEVICE_SNAPSHOT" => m.obs \in Batches /\ conns[c].worker_bound
             /\ m.type = "HEARTBEAT" => m.epoch \in 1..MaxEpoch
<1> DEFINE m == Head(conns[c].inbox)
<1>1. conns[c] \in Connection /\ ConnOK(c)
  BY DEF ClusterInv, ClusterTypeOK
<1>2. conns[c].inbox \in Seq(Message) /\ conns[c].boot \in Boots
  BY <1>1 DEF Connection, ConnOK
<1>3. m = conns[c].inbox[1] /\ 1 \in DOMAIN conns[c].inbox /\ m \in Message
  BY <1>2
<1>4. SentBy(conns[c].boot, m) /\ (m.type = "DEVICE_SNAPSHOT" => conns[c].worker_bound)
  BY <1>1, <1>3 DEF ConnOK
<1> HIDE DEF m
<1>5. /\ m.type = "REGISTER" => m.reg \in Registrations
      /\ m.type = "DEVICE_SNAPSHOT" => m.obs \in Batches
      /\ m.type = "HEARTBEAT" => m.epoch \in 1..MaxEpoch
  BY <1>3 DEF Message
<1>6. /\ conns[c].boot \in Boots /\ WorkerOf(conns[c].boot) \in Workers
      /\ conns[c].boot \in BootsOf[WorkerOf(conns[c].boot)]
      /\ m \in Message /\ SentBy(conns[c].boot, m)
      /\ m.type = "REGISTER" => m.reg \in Registrations
      /\ m.type = "DEVICE_SNAPSHOT" => m.obs \in Batches /\ conns[c].worker_bound
      /\ m.type = "HEARTBEAT" => m.epoch \in 1..MaxEpoch
  BY <1>2, <1>3, <1>4, <1>5, WorkerOfBoot
<1> QED
  BY <1>6 DEF m

(* Whatever the coordinator's threads do to the store is one of its        *)
(* operations, with an input the store's specification knows.              *)
LEMMA StoreStep ==
  ASSUME ClusterInv, [ClusterNext]_clusterVars
  PROVE  [Next]_vars
<1>1. ASSUME UNCHANGED vars PROVE [Next]_vars
  BY <1>1
<1>2. ASSUME NEW w \in Workers, MarkLostIfKnown(w) PROVE [Next]_vars
  BY <1>2 DEF MarkLostIfKnown, Next
<1>3. ASSUME NEW c \in Conns, HandleRegister(c) PROVE [Next]_vars
  <2>1. Head(conns[c].inbox).reg \in Registrations
    BY <1>3, Received DEF HandleRegister, Receives
  <2> QED
    BY <1>3, <2>1 DEF HandleRegister, RegisterWorker, Next
<1>4. ASSUME NEW c \in Conns, HandleSnapshot(c) PROVE [Next]_vars
  <2>1. Head(conns[c].inbox).obs \in Batches /\ WorkerOf(conns[c].boot) \in Workers
    BY <1>4, Received DEF HandleSnapshot, Receives
  <2> QED
    BY <1>4, <2>1 DEF HandleSnapshot, Next
<1>5. ASSUME NEW c \in Conns, HandleHeartbeat(c) PROVE [Next]_vars
  <2>1. /\ Head(conns[c].inbox).epoch \in 1..MaxEpoch /\ WorkerOf(conns[c].boot) \in Workers
        /\ conns[c].boot \in BootsOf[WorkerOf(conns[c].boot)]
    BY <1>5, Received DEF HandleHeartbeat, Receives
  <2> QED
    BY <1>5, <2>1 DEF HandleHeartbeat, Next
<1>6. ASSUME NEW c \in Conns, ConnectionEnds(c) PROVE [Next]_vars
  <2>1. WorkerOf(conns[c].boot) \in Workers
    BY <1>6, WorkerOfBoot DEF ConnectionEnds, AtEnd, ClusterInv, ConnOK
  <2> QED
    BY <1>1, <1>2, <1>6, <2>1 DEF ConnectionEnds
<1>7. ASSUME Operator PROVE [Next]_vars
  BY <1>7 DEF Operator, Next, ClusterInv, TypeOK
<1>8. ASSUME NEW w \in Workers, MarkSuspect(w) PROVE [Next]_vars
  BY <1>2, <1>8 DEF MarkSuspect
<1>9. ASSUME TimePasses PROVE [Next]_vars
  BY <1>9 DEF TimePasses, Next
<1>10. ASSUME NEW b \in Boots,
              Launch(b) \/ AgentStep(b) \/ TornSnapshot(b) \/ TornHeartbeat(b) \/ Kill(b)
       PROVE  [Next]_vars
  BY <1>10 DEF Launch, AgentStep, TornSnapshot, TornHeartbeat, Kill, Connect, SendRegister,
     Registered, RegistrationFails, CloseAndRetry, PublishSnapshot, PublishNothing,
     SendHeartbeat, NoticeBroken
<1>11. ASSUME NEW c \in Conns, HandleHello(c) \/ DropConnection(c) \/ ResetConn(c)
       PROVE  [Next]_vars
  BY <1>11 DEF HandleHello, DropConnection, ResetConn
<1>12. ASSUME CheckHeartbeats PROVE [Next]_vars
  BY <1>12 DEF CheckHeartbeats
<1>13. ASSUME UNCHANGED clusterVars PROVE [Next]_vars
  BY <1>13 DEF clusterVars
<1> QED
  BY <1>3, <1>4, <1>5, <1>6, <1>7, <1>8, <1>9, <1>10, <1>11, <1>12, <1>13
     DEF ClusterNext, ServeConn, HandleMessage, WatchLiveness

-----------------------------------------------------------------------------
(* The invariant, step by step *)

(* An agent's generations are numbers, and within the bounds.              *)
LEMMA GenerationsTyped ==
  ASSUME NEW a \in Agent
  PROVE  /\ a.reg_gen \in 1..MaxRegGen + 1 /\ a.obs_gen \in 1..MaxObsGen + 1
         /\ a.reg_gen \in Nat /\ a.obs_gen \in Nat
<1>1. a.reg_gen \in 1..MaxRegGen + 1 /\ a.obs_gen \in 1..MaxObsGen + 1
  BY DEF Agent
<1>2. MaxRegGen + 1 \in Nat /\ MaxObsGen + 1 \in Nat
  BY ConstantsAssumption, ClusterAssumption
<1> QED
  BY <1>1, <1>2

(* An observation of a batch has a generation.                             *)
LEMMA ObservationTyped ==
  ASSUME NEW obs \in Batches, NEW i \in DOMAIN obs
  PROVE  obs[i].obs_gen \in Nat
<1>1. obs \in Seq(DeviceObservation)
  BY BatchesAssumption DEF Batch
<1>2. obs[i] \in DeviceObservation
  BY <1>1
<1> QED
  BY <1>2 DEF DeviceObservation

(* What a process can have sent it can have sent later as well: its        *)
(* generations never go back.                                              *)
LEMMA SentStays ==
  ASSUME NEW b \in Boots, NEW m \in Message, SentBy(b, m),
         agents[b] \in Agent, agents'[b] \in Agent,
         agents'[b].reg_gen >= agents[b].reg_gen, agents'[b].obs_gen >= agents[b].obs_gen
  PROVE  SentBy(b, m)'
<1>1. /\ agents[b].reg_gen \in Nat /\ agents[b].obs_gen \in Nat
      /\ agents'[b].reg_gen \in Nat /\ agents'[b].obs_gen \in Nat
  BY GenerationsTyped
<1>2. m.type = "REGISTER" => m.reg.reg_gen \in Nat
  BY RegistrationTyped DEF Message
<1>3. m.type = "DEVICE_SNAPSHOT" => m.obs \in Batches
  BY DEF Message
<1>4. m.type = "REGISTER" => m.reg.reg_gen <= agents'[b].reg_gen
  BY <1>1, <1>2 DEF SentBy
<1>5. m.type = "DEVICE_SNAPSHOT" =>
        \A i \in DOMAIN m.obs : m.obs[i].boot = b /\ m.obs[i].obs_gen < agents'[b].obs_gen
  BY <1>1, <1>3, ObservationTyped DEF SentBy
<1> QED
  BY <1>4, <1>5 DEF SentBy

(* What an action has to show: the types, and the parts that speak of the  *)
(* agents and connections it changes.                                      *)
LEMMA Preserved ==
  ASSUME ClusterInv, TypeOK',
         agents' \in [Boots -> Agent], conns' \in [Conns -> Connection], suspects' \subseteq Workers,
         \A a \in Boots : /\ agents'[a].reg_gen >= agents[a].reg_gen
                          /\ agents'[a].obs_gen >= agents[a].obs_gen,
         \A x \in Conns : conns'[x] = conns[x] \/ ConnOK(x)',
         \A a \in Boots : agents'[a] = agents[a] \/ AgentOK(a)',
         \A a \in Boots : \/ LinkOK(a)'
                          \/ /\ agents'[a] = agents[a]
                             /\ agents[a].conn # NoConnection
                                  => conns'[agents[a].conn] = conns[agents[a].conn]
  PROVE  ClusterInv'
<1>1. ASSUME NEW b \in Boots, NEW m \in Message, SentBy(b, m) PROVE SentBy(b, m)'
  <2>1. agents[b] \in Agent /\ agents'[b] \in Agent
    BY DEF ClusterInv, ClusterTypeOK
  <2> QED
    BY <1>1, <2>1, SentStays
<1>2. ASSUME NEW x \in Conns PROVE ConnOK(x)'
  <2>1. CASE conns'[x] = conns[x]
    <3>1. conns[x] \in Connection /\ ConnOK(x)
      BY DEF ClusterInv, ClusterTypeOK
    <3>2. conns[x].inbox \in Seq(Message)
      BY <3>1 DEF Connection
    <3>3. ASSUME NEW k \in DOMAIN conns[x].inbox
          PROVE  SentBy(conns[x].boot, conns[x].inbox[k])'
      <4>1. SentBy(conns[x].boot, conns[x].inbox[k]) /\ conns[x].inbox[k] \in Message
        BY <3>1, <3>2 DEF ConnOK
      <4>2. conns[x].boot \in Boots
        <5>1. NoConn.inbox = <<>> /\ DOMAIN <<>> = {}
          BY DEF NoConn
        <5> QED
          BY <3>1, <3>3, <5>1 DEF ConnOK
      <4>3. conns'[x].boot = conns[x].boot /\ conns'[x].inbox[k] = conns[x].inbox[k]
        BY <2>1
      <4> QED
        BY <1>1, <4>1, <4>2, <4>3
    <3> QED
      BY <2>1, <3>1, <3>3 DEF ConnOK
  <2> QED
    BY <2>1
<1>3. ASSUME NEW a \in Boots PROVE AgentOK(a)'
  BY DEF ClusterInv, AgentOK
<1>4. ASSUME NEW a \in Boots PROVE LinkOK(a)'
  BY DEF ClusterInv, LinkOK
<1>5. ClusterTypeOK'
  BY <1>2 DEF ClusterTypeOK, ConnOK
<1> QED
  BY <1>2, <1>3, <1>4, <1>5 DEF ClusterInv

(* Two processes never share a link that is up.                            *)
LEMMA LinkIsPrivate ==
  ASSUME ClusterInv, NEW a \in Boots, NEW b \in Boots, a # b,
         agents[b].conn # NoConnection, conns[agents[b].conn].up
  PROVE  agents[a].conn # agents[b].conn
BY DEF ClusterInv, LinkOK

(* A step of one agent.                                                    *)
LEMMA AgentPreserves ==
  ASSUME ClusterInv, UNCHANGED <<vars, suspects>>,
         NEW b \in Boots, NEW next \in Agent, agents' = [agents EXCEPT ![b] = next],
         next.reg_gen >= agents[b].reg_gen, next.obs_gen >= agents[b].obs_gen,
         conns' \in [Conns -> Connection],
         \A x \in Conns : conns'[x] = conns[x] \/
           (ConnOK(x)' /\ \A a \in Boots : a # b => agents[a].conn # x),
         AgentOK(b)', LinkOK(b)'
  PROVE  ClusterInv'
<1>1. TypeOK' /\ suspects' \subseteq Workers /\ agents \in [Boots -> Agent]
  BY DEF ClusterInv, ClusterTypeOK, TypeOK, vars
<1>2. agents' \in [Boots -> Agent] /\ \A a \in Boots : a # b => agents'[a] = agents[a]
  BY <1>1
<1>3. agents'[b] = next
  BY <1>1
<1>4. \A a \in Boots : /\ agents'[a].reg_gen >= agents[a].reg_gen
                       /\ agents'[a].obs_gen >= agents[a].obs_gen
  <2>1. \A a \in Boots : /\ agents[a].reg_gen >= agents[a].reg_gen
                         /\ agents[a].obs_gen >= agents[a].obs_gen
    BY <1>1, GenerationsTyped
  <2> QED
    BY <1>2, <1>3, <2>1
<1>5. ASSUME NEW a \in Boots, a # b, agents[a].conn # NoConnection
      PROVE  conns'[agents[a].conn] = conns[agents[a].conn]
  <2>1. agents[a].conn \in Conns
    BY <1>1, <1>5 DEF Agent
  <2> QED
    BY <1>5, <2>1
<1> QED
  BY <1>1, <1>2, <1>4, <1>5, Preserved

(* A step of one connection, at the coordinator's end or in the network.   *)
LEMMA ConnPreserves ==
  ASSUME ClusterInv, TypeOK', UNCHANGED <<agents, suspects>>,
         NEW c \in Conns, NEW next \in Connection, conns' = [conns EXCEPT ![c] = next],
         ConnOK(c)', \A a \in Boots : agents[a].conn = c => LinkOK(a)'
  PROVE  ClusterInv'
<1>1. agents \in [Boots -> Agent] /\ suspects \subseteq Workers /\ conns \in [Conns -> Connection]
  BY DEF ClusterInv, ClusterTypeOK
<1>2. conns' \in [Conns -> Connection] /\ \A x \in Conns : x # c => conns'[x] = conns[x]
  BY <1>1
<1>3. \A a \in Boots : /\ agents'[a].reg_gen >= agents[a].reg_gen
                       /\ agents'[a].obs_gen >= agents[a].obs_gen
  BY <1>1, GenerationsTyped
<1>4. ASSUME NEW a \in Boots, agents[a].conn # NoConnection, agents[a].conn # c
      PROVE  conns'[agents[a].conn] = conns[agents[a].conn]
  <2>1. agents[a].conn \in Conns
    BY <1>1, <1>4 DEF Agent
  <2> QED
    BY <1>2, <1>4, <2>1
<1> QED
  BY <1>1, <1>2, <1>3, <1>4, Preserved

(* What sending a message leaves on the agent's connection.                *)
LEMMA SendPreserves ==
  ASSUME ClusterInv, NEW b \in Boots, NEW c \in Conns, agents[b].conn = c,
         NEW m \in Message, SentBy(b, m)', conns' = [conns EXCEPT ![c] = Sent(@, m)],
         agents'[b] \in Agent,
         agents'[b].reg_gen >= agents[b].reg_gen, agents'[b].obs_gen >= agents[b].obs_gen,
         conns[c].up => /\ Len(conns[c].inbox) < MaxInbox
                        /\ m.type = "DEVICE_SNAPSHOT" => conns[c].worker_bound
  PROVE  /\ conns' \in [Conns -> Connection]
         /\ conns'[c] = Sent(conns[c], m)
         /\ \A x \in Conns : conns'[x] = conns[x] \/
              (ConnOK(x)' /\ \A a \in Boots : a # b => agents[a].conn # x)
<1>1. conns \in [Conns -> Connection] /\ ConnOK(c) /\ agents[b] \in Agent /\ LinkOK(b)
  BY DEF ClusterInv, ClusterTypeOK
<1>2. conns[c] \in Connection /\ conns[c].inbox \in Seq(Message)
  BY <1>1 DEF Connection
<1>3. c # NoConnection
  BY ClusterAssumption
<1>4. CASE ~conns[c].up
  <2>1. Sent(conns[c], m) = conns[c]
    BY <1>4 DEF Sent
  <2>2. conns' = conns
    BY <1>1, <2>1
  <2> QED
    BY <1>1, <2>1, <2>2
<1>5. CASE conns[c].up
  <2> DEFINE next == [conns[c] EXCEPT !.inbox = Append(@, m), !.reply = "none"]
  <2>1. Append(conns[c].inbox, m) \in Seq(Message)
    BY <1>2
  <2>2. next \in Connection
    BY <1>2, <2>1 DEF Connection
  <2>3. Sent(conns[c], m) = next
    BY <1>5 DEF Sent
  <2>4. /\ conns' \in [Conns -> Connection] /\ conns'[c] = next
        /\ \A x \in Conns : x # c => conns'[x] = conns[x]
    BY <1>1, <2>2, <2>3
  <2>5. /\ next.boot = conns[c].boot /\ next.served = conns[c].served
        /\ next.inbox = Append(conns[c].inbox, m) /\ next.worker_bound = conns[c].worker_bound
    BY <1>2 DEF Connection
  <2> HIDE DEF next
  <2>6. conns[c].served /\ conns[c].boot = b
    BY <1>1, <1>3, <1>5 DEF LinkOK
  <2>7. ASSUME NEW k \in DOMAIN conns'[c].inbox
        PROVE  /\ SentBy(conns[c].boot, conns[c].inbox[k])'
               /\ conns'[c].inbox[k].type = "DEVICE_SNAPSHOT" => conns'[c].worker_bound
    <3>1. CASE k \in DOMAIN conns[c].inbox
      <4>1. PICK old \in Message : old = conns[c].inbox[k]
        BY <1>2, <3>1
      <4>2. SentBy(b, old) /\ (old.type = "DEVICE_SNAPSHOT" => conns[c].worker_bound)
        BY <1>1, <2>6, <3>1, <4>1 DEF ConnOK
      <4>3. SentBy(b, old)'
        BY <1>1, <4>2, SentStays
      <4>4. conns'[c].inbox[k] = old /\ conns'[c].boot = b
        BY <1>2, <2>4, <2>5, <2>6, <3>1, <4>1
      <4> QED
        BY <2>4, <2>5, <4>2, <4>3, <4>4 DEF SentBy
    <3>2. CASE k \notin DOMAIN conns[c].inbox
      <4>1. conns'[c].inbox[k] = m /\ conns'[c].boot = b
        BY <1>2, <2>4, <2>5, <2>6, <2>7, <3>2
      <4> QED
        BY <1>5, <2>4, <2>5, <4>1 DEF SentBy
    <3> QED
      BY <3>1, <3>2
  <2>8. Len(next.inbox) <= MaxInbox
    BY <1>2, <1>5, <2>5, ClusterAssumption
  <2>9. ConnOK(c)'
    BY <1>1, <2>4, <2>5, <2>6, <2>7, <2>8 DEF ConnOK
  <2> QED
    BY <1>3, <1>5, <2>3, <2>4, <2>9, LinkIsPrivate
<1> QED
  BY <1>4, <1>5

(* What a process can send, it can send by the time it has sent it.        *)
LEMMA AgentSends ==
  ASSUME ClusterInv, UNCHANGED <<vars, suspects>>,
         NEW b \in Boots, NEW c \in Conns, agents[b].conn = c,
         NEW next \in Agent, agents' = [agents EXCEPT ![b] = next], next.conn = c,
         next.reg_gen >= agents[b].reg_gen, next.obs_gen >= agents[b].obs_gen,
         NEW m \in Message, SentBy(b, m)', conns' = [conns EXCEPT ![c] = Sent(@, m)],
         conns[c].up => /\ Len(conns[c].inbox) < MaxInbox
                        /\ m.type = "DEVICE_SNAPSHOT" => conns[c].worker_bound,
         next.pc \in {"register", "publish", "beat"}, next.last_known_epoch # 0,
         next.pc = "register" =>
           /\ m.type = "REGISTER" /\ next.reg_gen <= MaxRegGen
           /\ conns[c].up => conns[c].inbox = <<>>,
         next.pc \in {"publish", "beat"} /\ conns[c].up => conns[c].worker_bound
  PROVE  ClusterInv'
<1>1. /\ agents \in [Boots -> Agent] /\ conns[c] \in Connection /\ c # NoConnection /\ LinkOK(b)
  BY ClusterAssumption DEF ClusterInv, ClusterTypeOK
<1>2. agents'[b] = next
  BY <1>1
<1>3. /\ conns' \in [Conns -> Connection]
      /\ conns'[c] = Sent(conns[c], m)
      /\ \A x \in Conns : conns'[x] = conns[x] \/
           (ConnOK(x)' /\ \A a \in Boots : a # b => agents[a].conn # x)
  BY <1>2, SendPreserves
<1>4. AgentOK(b)'
  BY <1>1, <1>2 DEF AgentOK
<1>5. LinkOK(b)'
  <2>1. CASE ~conns[c].up
    <3>1. conns'[c] = conns[c]
      BY <1>3, <2>1 DEF Sent
    <3> QED
      BY <1>1, <1>2, <2>1, <3>1 DEF LinkOK
  <2>2. CASE conns[c].up
    <3>1. /\ conns'[c].up /\ conns'[c].served = conns[c].served /\ conns'[c].boot = conns[c].boot
          /\ conns'[c].worker_bound = conns[c].worker_bound /\ conns'[c].reply = "none"
          /\ conns'[c].inbox = Append(conns[c].inbox, m)
      BY <1>1, <1>3, <2>2 DEF Sent, Connection
    <3>2. conns[c].served /\ conns[c].boot = b
      BY <1>1, <2>2 DEF LinkOK
    <3>3. next.pc = "register" => Len(conns'[c].inbox) = 1 /\ conns'[c].inbox[1].type = "REGISTER"
      <4>1. next.pc = "register" => conns'[c].inbox = Append(<<>>, m) /\ m.type = "REGISTER"
        BY <2>2, <3>1
      <4>2. Append(<<>>, m) = <<m>> /\ Len(<<m>>) = 1 /\ <<m>>[1] = m
        OBVIOUS
      <4> QED
        BY <4>1, <4>2, Zenon
    <3> QED
      BY <1>1, <1>2, <2>2, <3>1, <3>2, <3>3 DEF LinkOK
  <2> QED
    BY <2>1, <2>2
<1> QED
  BY <1>3, <1>4, <1>5, AgentPreserves

(* An agent in touch has a connection.                                     *)
LEMMA HasConn ==
  ASSUME ClusterInv, NEW b \in Boots, agents[b].pc \in {"hello", "register", "publish", "beat"}
  PROVE  agents[b].conn \in Conns
BY DEF ClusterInv, ClusterTypeOK, AgentOK, Agent

(* Closing a link that is down changes nothing.                            *)
LEMMA DownStaysDown ==
  ASSUME NEW k \in Connection, ~k.up
  PROVE  [k EXCEPT !.up = FALSE] = k
BY DEF Connection

(* The agent lets go of its connection: it closes it, or it is killed.     *)
LEMMA AgentLetsGo ==
  ASSUME ClusterInv, UNCHANGED <<vars, suspects>>, NEW b \in Boots,
         NEW pc \in {"connect", "dead"},
         agents' = [agents EXCEPT ![b].pc = pc, ![b].conn = NoConnection],
         conns' \in [Conns -> Connection],
         \A x \in Conns : conns'[x] = IF x = agents[b].conn THEN [conns[x] EXCEPT !.up = FALSE]
                                                           ELSE conns[x]
  PROVE  ClusterInv'
<1> DEFINE next == [agents[b] EXCEPT !.pc = pc, !.conn = NoConnection]
<1>1. agents \in [Boots -> Agent] /\ conns \in [Conns -> Connection]
  BY DEF ClusterInv, ClusterTypeOK
<1>2. next \in Agent
  <2>1. agents[b] \in Agent /\ pc \in AgentPC
    BY <1>1 DEF AgentPC
  <2> QED
    BY <2>1 DEF Agent
<1>3. agents' = [agents EXCEPT ![b] = next] /\ agents'[b] = next
  BY <1>1
<1>4. /\ next.pc = pc /\ next.conn = NoConnection
      /\ next.reg_gen >= agents[b].reg_gen /\ next.obs_gen >= agents[b].obs_gen
  BY <1>1, GenerationsTyped DEF Agent
<1> HIDE DEF next
<1>5. AgentOK(b)' /\ LinkOK(b)'
  BY <1>3, <1>4 DEF AgentOK, LinkOK
<1>6. ASSUME NEW x \in Conns, conns'[x] # conns[x]
      PROVE  ConnOK(x)' /\ \A a \in Boots : a # b => agents[a].conn # x
  <2>1. x = agents[b].conn /\ x # NoConnection /\ conns[x] \in Connection
    BY <1>1, <1>6, ClusterAssumption
  <2>2. conns[x].up /\ conns'[x] = [conns[x] EXCEPT !.up = FALSE]
    BY <1>6, <2>1, DownStaysDown
  <2>3. /\ conns'[x].served = conns[x].served /\ conns'[x].boot = conns[x].boot
        /\ conns'[x].inbox = conns[x].inbox /\ conns'[x].worker_bound = conns[x].worker_bound
        /\ conns[x].inbox \in Seq(Message)
    BY <2>1, <2>2 DEF Connection
  <2>4. conns[x].served /\ conns[x].boot = b /\ ConnOK(x)
    BY <2>1, <2>2 DEF ClusterInv, LinkOK
  <2>5. ASSUME NEW k \in DOMAIN conns[x].inbox PROVE SentBy(conns[x].boot, conns[x].inbox[k])'
    <3>1. PICK m \in Message : m = conns[x].inbox[k]
      BY <2>3
    <3>2. SentBy(b, m)
      BY <2>4, <3>1 DEF ConnOK
    <3>3. SentBy(b, m)'
      BY <1>1, <1>2, <1>3, <1>4, <3>2, SentStays
    <3>4. conns'[x].boot = b /\ conns'[x].inbox[k] = m
      BY <2>3, <2>4, <3>1
    <3> QED
      BY <3>3, <3>4 DEF SentBy
  <2>6. ConnOK(x)'
    BY <2>3, <2>4, <2>5 DEF ConnOK
  <2> QED
    BY <2>1, <2>2, <2>6, LinkIsPrivate
<1> QED
  BY <1>2, <1>3, <1>4, <1>5, <1>6, AgentPreserves

(* Whatever agents do keeps the invariant.                                 *)
LEMMA AgentKeeps ==
  ASSUME ClusterInv, NEW b \in Boots,
         Launch(b) \/ AgentStep(b) \/ TornSnapshot(b) \/ TornHeartbeat(b) \/ Kill(b)
  PROVE  ClusterInv'
<1> DEFINE a == agents[b]
           link == conns[a.conn]
<1>1. /\ agents \in [Boots -> Agent] /\ conns \in [Conns -> Connection] /\ a \in Agent
      /\ AgentOK(b) /\ LinkOK(b) /\ \A c \in Conns : ConnOK(c)
  BY DEF ClusterInv, ClusterTypeOK
<1>2. /\ a.reg_gen \in Nat /\ a.obs_gen \in Nat /\ MaxRegGen \in Nat /\ MaxObsGen \in Nat
      /\ a.reg_gen \in 1..MaxRegGen + 1 /\ a.obs_gen \in 1..MaxObsGen + 1
  BY <1>1, GenerationsTyped, ConstantsAssumption, ClusterAssumption
<1>3. a.last_known_epoch # 0 => a.last_known_epoch \in 1..MaxEpoch
  <2>1. a.last_known_epoch \in 0..MaxEpoch
    BY <1>1 DEF Agent
  <2> QED
    BY <2>1, ConstantsAssumption
<1>4. ASSUME Launch(b) PROVE ClusterInv'
  <2> DEFINE next == [a EXCEPT !.pc = "connect"]
  <2>1. next \in Agent /\ agents' = [agents EXCEPT ![b] = next] /\ agents'[b] = next
    BY <1>1, <1>4 DEF Launch, Agent, AgentPC
  <2>2. /\ next.pc = "connect" /\ next.conn = a.conn /\ a.pc = "off"
        /\ next.reg_gen = a.reg_gen /\ next.obs_gen = a.obs_gen
    BY <1>1, <1>4 DEF Launch, Agent
  <2> HIDE DEF next
  <2>3. AgentOK(b)' /\ LinkOK(b)'
    BY <1>1, <1>4, <2>1, <2>2 DEF AgentOK, LinkOK, Launch
  <2>4. UNCHANGED <<vars, suspects>> /\ conns' = conns
    BY <1>4 DEF Launch
  <2>5. next.reg_gen >= a.reg_gen /\ next.obs_gen >= a.obs_gen
    BY <1>2, <2>2
  <2> QED
    BY <1>1, <2>1, <2>3, <2>4, <2>5, AgentPreserves
<1>5. ASSUME NEW c \in Conns, Connect(b, c) PROVE ClusterInv'
  <2> DEFINE next == [a EXCEPT !.pc = "hello", !.conn = c]
             opened == [boot |-> b, inbox |-> <<[type |-> "HELLO"]>>, reply |-> "none",
                        ack_epoch |-> 0, up |-> TRUE, served |-> TRUE, worker_bound |-> FALSE]
  <2>1. next \in Agent
    BY <1>1 DEF Agent, AgentPC
  <2>2. agents' = [agents EXCEPT ![b] = next] /\ agents'[b] = next
    BY <1>1, <1>5 DEF Connect
  <2>3. /\ next.pc = "hello" /\ next.conn = c /\ next.reg_gen <= MaxRegGen
        /\ next.reg_gen = a.reg_gen /\ next.obs_gen = a.obs_gen /\ c # NoConnection
    BY <1>1, <1>5, ClusterAssumption DEF Connect, Agent
  <2>4. Sent([NoConn EXCEPT !.boot = b, !.up = TRUE, !.served = TRUE], [type |-> "HELLO"]) = opened
    <3>1. Append(<<>>, [type |-> "HELLO"]) = <<[type |-> "HELLO"]>>
      OBVIOUS
    <3> QED
      BY <3>1 DEF Sent, NoConn
  <2>5. opened \in Connection
    <3>1. [type |-> "HELLO"] \in Message
      BY DEF Message
    <3>2. <<[type |-> "HELLO"]>> \in Seq(Message) /\ 0 \in 0..MaxEpoch
      BY <3>1, ConstantsAssumption
    <3> QED
      BY <3>2 DEF Connection
  <2>6. /\ conns' \in [Conns -> Connection] /\ conns'[c] = opened
        /\ \A x \in Conns : x # c => conns'[x] = conns[x]
    BY <1>1, <1>5, <2>4, <2>5 DEF Connect
  <2>7. /\ opened.inbox = <<[type |-> "HELLO"]>> /\ Len(opened.inbox) = 1
        /\ opened.inbox[1].type = "HELLO" /\ DOMAIN opened.inbox = {1}
    OBVIOUS
  <2>8. /\ opened.served /\ opened.up /\ opened.boot = b /\ opened.reply = "none"
    OBVIOUS
  <2> HIDE DEF next, opened
  <2>9. ConnOK(c)'
    BY <2>6, <2>7, <2>8, ClusterAssumption DEF ConnOK, SentBy
  <2>10. AgentOK(b)' /\ LinkOK(b)'
    BY <2>2, <2>3, <2>6, <2>7, <2>8 DEF AgentOK, LinkOK
  <2>11. \A z \in Boots : z # b => agents[z].conn # c
    BY <1>5 DEF Connect, Free
  <2>12. UNCHANGED <<vars, suspects>>
    BY <1>5 DEF Connect
  <2>13. next.reg_gen >= a.reg_gen /\ next.obs_gen >= a.obs_gen
    BY <1>2, <2>3
  <2> QED
    BY <2>1, <2>2, <2>6, <2>9, <2>10, <2>11, <2>12, <2>13, AgentPreserves
<1>6. ASSUME Registered(b) PROVE ClusterInv'
  <2> DEFINE next == [a EXCEPT !.pc = "publish", !.reg_gen = @ + 1]
  <2>1. a.conn \in Conns /\ a.conn # NoConnection
    BY <1>6, HasConn, ClusterAssumption DEF Registered
  <2>2. a.pc = "register" /\ link.reply = "accepted" /\ a.reg_gen <= MaxRegGen
    BY <1>1, <1>6 DEF Registered, Conn, AgentOK
  <2>3. link.up /\ link.worker_bound /\ link.served /\ link.boot = b
    BY <1>1, <2>1, <2>2 DEF LinkOK
  <2>4. next \in Agent
    <3>1. a.reg_gen + 1 \in 1..MaxRegGen + 1
      BY <1>2, <2>2
    <3> QED
      BY <1>1, <3>1 DEF Agent, AgentPC
  <2>5. agents' = [agents EXCEPT ![b] = next] /\ agents'[b] = next
    BY <1>1, <1>6 DEF Registered
  <2>6. /\ next.pc = "publish" /\ next.conn = a.conn /\ next.reg_gen = a.reg_gen + 1
        /\ next.obs_gen = a.obs_gen /\ next.last_known_epoch = a.last_known_epoch
    BY <1>1 DEF Agent
  <2> HIDE DEF next
  <2>7. AgentOK(b)' /\ LinkOK(b)'
    BY <1>1, <1>6, <2>1, <2>2, <2>3, <2>5, <2>6 DEF AgentOK, LinkOK, Registered
  <2>8. UNCHANGED <<vars, suspects>> /\ conns' = conns
    BY <1>6 DEF Registered
  <2>9. next.reg_gen >= a.reg_gen /\ next.obs_gen >= a.obs_gen
    BY <1>2, <2>6
  <2> QED
    BY <1>1, <2>4, <2>5, <2>7, <2>8, <2>9, AgentPreserves
<1>7. ASSUME PublishNothing(b) PROVE ClusterInv'
  <2> DEFINE next == [a EXCEPT !.pc = "beat"]
  <2>1. next \in Agent /\ agents' = [agents EXCEPT ![b] = next] /\ agents'[b] = next
    BY <1>1, <1>7 DEF PublishNothing, Agent, AgentPC
  <2>2. /\ next.pc = "beat" /\ next.conn = a.conn /\ a.pc = "publish"
        /\ next.last_known_epoch = a.last_known_epoch
        /\ next.reg_gen = a.reg_gen /\ next.obs_gen = a.obs_gen
    BY <1>1, <1>7 DEF PublishNothing, Agent
  <2> HIDE DEF next
  <2>3. AgentOK(b)' /\ LinkOK(b)'
    BY <1>1, <1>7, <2>1, <2>2 DEF AgentOK, LinkOK, PublishNothing
  <2>4. UNCHANGED <<vars, suspects>> /\ conns' = conns
    BY <1>7 DEF PublishNothing
  <2>5. next.reg_gen >= a.reg_gen /\ next.obs_gen >= a.obs_gen
    BY <1>2, <2>2
  <2> QED
    BY <1>1, <2>1, <2>3, <2>4, <2>5, AgentPreserves
<1>8. ASSUME RegistrationFails(b) \/ NoticeBroken(b) PROVE ClusterInv'
  <2>1. a.conn \in Conns /\ CloseAndRetry(b)
    BY <1>8, HasConn DEF RegistrationFails, NoticeBroken
  <2>2. /\ conns' \in [Conns -> Connection]
        /\ \A x \in Conns : conns'[x] = IF x = a.conn THEN [conns[x] EXCEPT !.up = FALSE]
                                                      ELSE conns[x]
    <3>1. [conns[a.conn] EXCEPT !.up = FALSE] \in Connection
      <4>1. conns[a.conn] \in Connection
        BY <1>1, <2>1
      <4> QED
        BY <4>1 DEF Connection
    <3> QED
      BY <1>1, <2>1, <3>1 DEF CloseAndRetry
  <2> QED
    BY <2>1, <2>2, AgentLetsGo DEF CloseAndRetry
<1>9. ASSUME Kill(b) PROVE ClusterInv'
  <2>1. /\ conns' \in [Conns -> Connection]
        /\ \A x \in Conns : conns'[x] = IF x = a.conn THEN [conns[x] EXCEPT !.up = FALSE]
                                                      ELSE conns[x]
    <3>1. ASSUME NEW x \in Conns PROVE [conns[x] EXCEPT !.up = FALSE] \in Connection
      <4>1. conns[x] \in Connection
        BY <1>1
      <4> QED
        BY <4>1 DEF Connection
    <3> QED
      BY <1>1, <1>9, <3>1 DEF Kill
  <2> QED
    BY <1>9, <2>1, AgentLetsGo DEF Kill
<1>10. ASSUME NEW ids \in Enumerations(WorkerOf(b)), SendRegister(b, ids) PROVE ClusterInv'
  <2> DEFINE next == [a EXCEPT !.pc = "register", !.last_known_epoch = link.ack_epoch]
             reg == AgentRegistration(b, link.ack_epoch, ids)
  <2>1. a.conn \in Conns /\ a.conn # NoConnection /\ a.pc = "hello" /\ link.reply = "hello"
    BY <1>10, HasConn, ClusterAssumption DEF SendRegister, Conn
  <2>2. link.up /\ link.inbox = <<>> /\ link.ack_epoch # 0 /\ a.reg_gen <= MaxRegGen
    BY <1>1, <2>1 DEF LinkOK, AgentOK
  <2>3. link.ack_epoch \in 0..MaxEpoch /\ link.ack_epoch \in 1..MaxEpoch
    <3>1. link.ack_epoch \in 0..MaxEpoch
      BY <1>1, <2>1 DEF Connection
    <3> QED
      BY <2>2, <3>1, ConstantsAssumption
  <2>4. next \in Agent /\ agents' = [agents EXCEPT ![b] = next] /\ agents'[b] = next
    <3>1. next \in Agent
      BY <1>1, <2>3 DEF Agent, AgentPC
    <3>2. agents' = [agents EXCEPT ![b] = next]
      BY <1>10 DEF SendRegister, Conn
    <3> QED
      BY <1>1, <3>1, <3>2
  <2>5. /\ next.pc = "register" /\ next.conn = a.conn /\ next.last_known_epoch # 0
        /\ next.reg_gen = a.reg_gen /\ next.obs_gen = a.obs_gen
    BY <1>1, <2>2 DEF Agent
  <2>6. PICK m \in Message : m = [type |-> "REGISTER", reg |-> reg]
    <3>1. reg \in Registrations
      <4>1. WorkerOf(b) \in Workers /\ b \in BootsOf[WorkerOf(b)]
        BY WorkerOfBoot
      <4>2. a.reg_gen \in 1..MaxRegGen
        BY <1>2, <2>2
      <4> QED
        BY <1>10, <2>3, <4>1, <4>2 DEF AgentRegistration, Registrations
    <3> QED
      BY <3>1 DEF Message
  <2> HIDE DEF next
  <2>7. SentBy(b, m)'
    <3>1. m.type = "REGISTER" /\ m.reg = reg
      BY <2>6
    <3>2. m.reg.worker = WorkerOf(b) /\ m.reg.boot = b /\ m.reg.reg_gen = a.reg_gen
      BY <3>1 DEF AgentRegistration
    <3>3. m.reg.reg_gen <= agents'[b].reg_gen
      BY <1>2, <2>4, <2>5, <3>2
    <3> QED
      BY <3>1, <3>2, <3>3 DEF SentBy
  <2>8. conns' = [conns EXCEPT ![a.conn] = Sent(@, m)] /\ UNCHANGED <<vars, suspects>>
    BY <1>10, <2>6 DEF SendRegister, Conn
  <2>9. next.reg_gen >= a.reg_gen /\ next.obs_gen >= a.obs_gen
    BY <1>2, <2>5
  <2>10. Len(link.inbox) < MaxInbox /\ m.type = "REGISTER"
    BY <2>2, <2>6, ClusterAssumption
  <2> QED
    BY <2>1, <2>2, <2>4, <2>5, <2>7, <2>8, <2>9, <2>10, AgentSends
<1>11. ASSUME NEW probed \in Probings(b), PublishSnapshot(b, probed) PROVE ClusterInv'
  <2> DEFINE next == [a EXCEPT !.pc = "beat", !.obs_gen = @ + 1]
  <2>1. a.conn \in Conns /\ a.conn # NoConnection /\ a.pc = "publish"
    BY <1>11, HasConn, ClusterAssumption DEF PublishSnapshot
  <2>2. /\ Len(link.inbox) < MaxInbox /\ a.last_known_epoch \in 1..MaxEpoch
        /\ link.up => link.worker_bound
        /\ a.obs_gen <= MaxObsGen
    BY <1>1, <1>3, <1>11, <2>1 DEF PublishSnapshot, Conn, LinkOK, AgentOK
  <2>3. next \in Agent /\ agents' = [agents EXCEPT ![b] = next] /\ agents'[b] = next
    <3>1. a.obs_gen + 1 \in 1..MaxObsGen + 1
      BY <1>2, <2>2
    <3>2. next \in Agent
      BY <1>1, <3>1 DEF Agent, AgentPC
    <3>3. agents' = [agents EXCEPT ![b] = next]
      BY <1>11 DEF PublishSnapshot
    <3> QED
      BY <1>1, <3>2, <3>3
  <2>4. /\ next.pc = "beat" /\ next.conn = a.conn
        /\ next.last_known_epoch = a.last_known_epoch
        /\ next.reg_gen = a.reg_gen /\ next.obs_gen = a.obs_gen + 1
    BY <1>1 DEF Agent
  <2> HIDE DEF next
  <2>5. PICK m \in Message : m = [type |-> "DEVICE_SNAPSHOT", obs |-> AgentBatch(b, probed)]
    <3>1. a.obs_gen \in 1..MaxObsGen /\ now \in 1..MaxTime
      BY <1>2, <2>2 DEF ClusterInv, TypeOK
    <3>2. AgentBatch(b, probed) \in Batches
      BY <2>2, <3>1, PublishableAssumption DEF AgentBatch
    <3> QED
      BY <3>2 DEF Message
  <2>6. SentBy(b, m)' /\ m.type # "REGISTER"
    <3>1. m.type = "DEVICE_SNAPSHOT" /\ m.obs = AgentBatch(b, probed)
      BY <2>5
    <3>2. \A i \in DOMAIN m.obs : m.obs[i].boot = b /\ m.obs[i].obs_gen = a.obs_gen
      BY <3>1 DEF AgentBatch, BatchOf
    <3>3. a.obs_gen < agents'[b].obs_gen
      BY <1>2, <2>3, <2>4
    <3> QED
      BY <3>1, <3>2, <3>3 DEF SentBy
  <2>7. conns' = [conns EXCEPT ![a.conn] = Sent(@, m)] /\ UNCHANGED <<vars, suspects>>
    BY <1>11, <2>5 DEF PublishSnapshot
  <2>8. next.reg_gen >= a.reg_gen /\ next.obs_gen >= a.obs_gen /\ next.last_known_epoch # 0
    BY <1>2, <2>2, <2>4
  <2> QED
    BY <2>1, <2>2, <2>3, <2>4, <2>6, <2>7, <2>8, AgentSends
<1>12. ASSUME SendHeartbeat(b) PROVE ClusterInv'
  <2> DEFINE next == [a EXCEPT !.pc = "publish"]
  <2>1. a.conn \in Conns /\ a.conn # NoConnection /\ a.pc = "beat"
    BY <1>12, HasConn, ClusterAssumption DEF SendHeartbeat
  <2>2. /\ Len(link.inbox) < MaxInbox /\ a.last_known_epoch \in 1..MaxEpoch
        /\ link.up => link.worker_bound
    BY <1>1, <1>3, <1>12, <2>1 DEF SendHeartbeat, Conn, LinkOK, AgentOK
  <2>3. next \in Agent /\ agents' = [agents EXCEPT ![b] = next] /\ agents'[b] = next
    <3>2. next \in Agent
      BY <1>1 DEF Agent, AgentPC
    <3>3. agents' = [agents EXCEPT ![b] = next]
      BY <1>12 DEF SendHeartbeat
    <3> QED
      BY <1>1, <3>2, <3>3
  <2>4. /\ next.pc = "publish" /\ next.conn = a.conn
        /\ next.last_known_epoch = a.last_known_epoch
        /\ next.reg_gen = a.reg_gen /\ next.obs_gen = a.obs_gen
    BY <1>1 DEF Agent
  <2> HIDE DEF next
  <2>5. PICK m \in Message : m = [type |-> "HEARTBEAT", epoch |-> a.last_known_epoch]
    BY <2>2 DEF Message
  <2>6. SentBy(b, m)' /\ m.type # "REGISTER"
    BY <2>5 DEF SentBy
  <2>7. conns' = [conns EXCEPT ![a.conn] = Sent(@, m)] /\ UNCHANGED <<vars, suspects>>
    BY <1>12, <2>5 DEF SendHeartbeat
  <2>8. next.reg_gen >= a.reg_gen /\ next.obs_gen >= a.obs_gen /\ next.last_known_epoch # 0
    BY <1>2, <2>2, <2>4
  <2> QED
    BY <2>1, <2>2, <2>3, <2>4, <2>6, <2>7, <2>8, AgentSends
<1>13. ASSUME TornSnapshot(b) PROVE ClusterInv'
  <2> DEFINE next == [a EXCEPT !.pc = "beat", !.obs_gen = @ + 1]
  <2>1. a.conn \in Conns /\ a.conn # NoConnection /\ a.pc = "publish"
    BY <1>13, HasConn, ClusterAssumption DEF TornSnapshot
  <2>2. /\ Len(link.inbox) < MaxInbox /\ a.last_known_epoch \in 1..MaxEpoch
        /\ link.up => link.worker_bound
        /\ a.obs_gen <= MaxObsGen
    BY <1>1, <1>3, <1>13, <2>1 DEF TornSnapshot, Conn, LinkOK, AgentOK
  <2>3. next \in Agent /\ agents' = [agents EXCEPT ![b] = next] /\ agents'[b] = next
    <3>1. a.obs_gen + 1 \in 1..MaxObsGen + 1
      BY <1>2, <2>2
    <3>2. next \in Agent
      BY <1>1, <3>1 DEF Agent, AgentPC
    <3>3. agents' = [agents EXCEPT ![b] = next]
      BY <1>13 DEF TornSnapshot
    <3> QED
      BY <1>1, <3>2, <3>3
  <2>4. /\ next.pc = "beat" /\ next.conn = a.conn
        /\ next.last_known_epoch = a.last_known_epoch
        /\ next.reg_gen = a.reg_gen /\ next.obs_gen = a.obs_gen + 1
    BY <1>1 DEF Agent
  <2> HIDE DEF next
  <2>5. PICK m \in Message : m = Torn
    BY DEF Message, Torn
  <2>6. SentBy(b, m)' /\ m.type # "REGISTER"
    BY <1>13, <2>5 DEF TornSnapshot, SentBy, Torn
  <2>7. conns' = [conns EXCEPT ![a.conn] = Sent(@, m)] /\ UNCHANGED <<vars, suspects>>
    BY <1>13, <2>5 DEF TornSnapshot
  <2>8. next.reg_gen >= a.reg_gen /\ next.obs_gen >= a.obs_gen /\ next.last_known_epoch # 0
    BY <1>2, <2>2, <2>4
  <2> QED
    BY <2>1, <2>2, <2>3, <2>4, <2>6, <2>7, <2>8, AgentSends
<1>14. ASSUME TornHeartbeat(b) PROVE ClusterInv'
  <2> DEFINE next == [a EXCEPT !.pc = "publish"]
  <2>1. a.conn \in Conns /\ a.conn # NoConnection /\ a.pc = "beat"
    BY <1>14, HasConn, ClusterAssumption DEF TornHeartbeat
  <2>2. /\ Len(link.inbox) < MaxInbox /\ a.last_known_epoch \in 1..MaxEpoch
        /\ link.up => link.worker_bound
    BY <1>1, <1>3, <1>14, <2>1 DEF TornHeartbeat, Conn, LinkOK, AgentOK
  <2>3. next \in Agent /\ agents' = [agents EXCEPT ![b] = next] /\ agents'[b] = next
    <3>2. next \in Agent
      BY <1>1 DEF Agent, AgentPC
    <3>3. agents' = [agents EXCEPT ![b] = next]
      BY <1>14 DEF TornHeartbeat
    <3> QED
      BY <1>1, <3>2, <3>3
  <2>4. /\ next.pc = "publish" /\ next.conn = a.conn
        /\ next.last_known_epoch = a.last_known_epoch
        /\ next.reg_gen = a.reg_gen /\ next.obs_gen = a.obs_gen
    BY <1>1 DEF Agent
  <2> HIDE DEF next
  <2>5. PICK m \in Message : m = Torn
    BY DEF Message, Torn
  <2>6. SentBy(b, m)' /\ m.type # "REGISTER"
    BY <1>14, <2>5 DEF TornHeartbeat, SentBy, Torn
  <2>7. conns' = [conns EXCEPT ![a.conn] = Sent(@, m)] /\ UNCHANGED <<vars, suspects>>
    BY <1>14, <2>5 DEF TornHeartbeat
  <2>8. next.reg_gen >= a.reg_gen /\ next.obs_gen >= a.obs_gen /\ next.last_known_epoch # 0
    BY <1>2, <2>2, <2>4
  <2> QED
    BY <2>1, <2>2, <2>3, <2>4, <2>6, <2>7, <2>8, AgentSends
<1> QED
  BY <1>4, <1>5, <1>6, <1>7, <1>8, <1>9, <1>10, <1>11, <1>12, <1>13, <1>14 DEF AgentStep

(* A thread that has read a message leaves the rest of the inbox.          *)
LEMMA MessageRead ==
  ASSUME ClusterInv, TypeOK', UNCHANGED <<agents, suspects>>,
         NEW c \in Conns, NEW next \in Connection, conns' = [conns EXCEPT ![c] = next],
         conns[c].served, conns[c].inbox # <<>>, next.inbox = Tail(conns[c].inbox),
         next.served, next.boot = conns[c].boot, next.up = conns[c].up,
         conns[c].worker_bound => next.worker_bound,
         ~next.up => next.reply = conns[c].reply,
         Head(conns[c].inbox).type = "HELLO" /\ next.up =>
           next.reply = "hello" /\ next.ack_epoch # 0,
         Head(conns[c].inbox).type = "REGISTER" =>
           next.worker_bound /\ (next.up => next.reply # "hello")
  PROVE  ClusterInv'
<1> DEFINE s == conns[c].inbox
<1>1. conns \in [Conns -> Connection] /\ conns[c] \in Connection /\ ConnOK(c)
  BY DEF ClusterInv, ClusterTypeOK
<1>2. conns'[c] = next
  BY <1>1
<1>3. s \in Seq(Message) /\ Head(s) = s[1]
  BY <1>1 DEF Connection
<1>4. /\ Len(Tail(s)) = Len(s) - 1 /\ Len(s) \in Nat
      /\ \A k \in DOMAIN Tail(s) : k + 1 \in DOMAIN s /\ Tail(s)[k] = s[k + 1]
      /\ Len(s) = 1 => Tail(s) = <<>>
  <2>1. Len(s) \in Nat /\ Len(s) # 0 /\ DOMAIN s = 1..Len(s)
    BY <1>3
  <2>2. Tail(s) \in Seq(Message) /\ Len(Tail(s)) = Len(s) - 1 /\ DOMAIN Tail(s) = 1..(Len(s) - 1)
    BY <1>3, <2>1
  <2>3. \A k \in 1..(Len(s) - 1) : Tail(s)[k] = s[k + 1] /\ k + 1 \in 1..Len(s)
    BY <1>3, <2>1
  <2>4. Len(s) = 1 => Tail(s) = <<>>
    BY <2>2
  <2> QED
    BY <2>1, <2>2, <2>3, <2>4
<1>5. ConnOK(c)'
  <2>1. Len(next.inbox) <= MaxInbox
    BY <1>1, <1>4, ClusterAssumption DEF ConnOK
  <2>2. ASSUME NEW k \in DOMAIN next.inbox
        PROVE  /\ SentBy(conns[c].boot, conns[c].inbox[k])'
               /\ next.inbox[k].type = "DEVICE_SNAPSHOT" => next.worker_bound
    <3>1. k + 1 \in DOMAIN s /\ next.inbox[k] = s[k + 1]
      BY <1>4, <2>2
    <3>2. /\ SentBy(conns[c].boot, s[k + 1])
          /\ s[k + 1].type = "DEVICE_SNAPSHOT" => conns[c].worker_bound
      BY <1>1, <3>1 DEF ConnOK
    <3>3. conns'[c].boot = conns[c].boot /\ conns'[c].inbox[k] = s[k + 1]
      BY <1>2, <3>1
    <3> QED
      BY <3>1, <3>2, <3>3 DEF SentBy
  <2> QED
    BY <1>1, <1>2, <2>1, <2>2 DEF ConnOK
<1>6. ASSUME NEW a \in Boots, agents[a].conn = c PROVE LinkOK(a)'
  <2>1. LinkOK(a) /\ c # NoConnection
    BY ClusterAssumption DEF ClusterInv
  <2>2. CASE ~conns[c].up
    BY <1>2, <1>6, <2>1, <2>2 DEF LinkOK
  <2>3. CASE conns[c].up
    <3>1. conns[c].boot = a /\ (agents[a].pc \in {"publish", "beat"} => conns[c].worker_bound)
      BY <1>6, <2>1, <2>3 DEF LinkOK
    <3>2. agents[a].pc = "hello" => Len(s) = 1 /\ Head(s).type = "HELLO"
      BY <1>3, <1>6, <2>1, <2>3 DEF LinkOK
    <3>3. agents[a].pc = "register" => Len(s) = 1 /\ Head(s).type = "REGISTER"
      BY <1>3, <1>6, <2>1, <2>3 DEF LinkOK
    <3> QED
      BY <1>2, <1>4, <1>6, <2>1, <2>3, <3>1, <3>2, <3>3 DEF LinkOK
  <2> QED
    BY <2>2, <2>3
<1> QED
  BY <1>5, <1>6, ConnPreserves

(* Whatever the coordinator's threads and the network do to a connection   *)
(* keeps the invariant.                                                    *)
LEMMA ConnKeeps ==
  ASSUME ClusterInv, TypeOK', NEW c \in Conns, ServeConn(c) \/ ResetConn(c)
  PROVE  ClusterInv'
<1>1. conns \in [Conns -> Connection] /\ conns[c] \in Connection /\ ConnOK(c)
  BY DEF ClusterInv, ClusterTypeOK
<1>2. conns[c].inbox \in Seq(Message)
  BY <1>1 DEF Connection
<1>3. conns[c].inbox # <<>> => Tail(conns[c].inbox) \in Seq(Message)
  BY <1>2
<1>4. ASSUME HandleHello(c) PROVE ClusterInv'
  <2> DEFINE next == [Answered(conns[c], "hello") EXCEPT !.ack_epoch = epoch]
  <2>1. epoch \in 0..MaxEpoch /\ epoch # 0
    BY ConstantsAssumption DEF ClusterInv, TypeOK
  <2>2. conns[c].served /\ conns[c].inbox # <<>> /\ Head(conns[c].inbox).type = "HELLO"
    BY <1>4 DEF HandleHello, Receives
  <2>3. next \in Connection
    BY <1>1, <1>3, <2>1, <2>2 DEF Connection, Answered
  <2>4. /\ next.inbox = Tail(conns[c].inbox) /\ next.served = conns[c].served
        /\ next.boot = conns[c].boot /\ next.up = conns[c].up
        /\ next.worker_bound = conns[c].worker_bound /\ next.ack_epoch = epoch
        /\ next.reply = IF conns[c].up THEN "hello" ELSE conns[c].reply
    BY <1>1 DEF Connection, Answered
  <2>5. conns' = [conns EXCEPT ![c] = next] /\ UNCHANGED <<agents, suspects>>
    BY <1>4 DEF HandleHello
  <2> HIDE DEF next
  <2> QED
    BY <2>1, <2>2, <2>3, <2>4, <2>5, MessageRead
<1>5. ASSUME HandleRegister(c) PROVE ClusterInv'
  <2>1. PICK r \in {"accepted", "refused"} :
          /\ conns' = [conns EXCEPT ![c] = [Answered(@, r) EXCEPT !.worker_bound = TRUE]]
          /\ UNCHANGED <<agents, suspects>>
    BY <1>5 DEF HandleRegister
  <2> DEFINE next == [Answered(conns[c], r) EXCEPT !.worker_bound = TRUE]
  <2>2. conns[c].served /\ conns[c].inbox # <<>> /\ Head(conns[c].inbox).type = "REGISTER"
    BY <1>5 DEF HandleRegister, Receives
  <2>3. next \in Connection
    BY <1>1, <1>3, <2>2 DEF Connection, Answered
  <2>4. /\ next.inbox = Tail(conns[c].inbox) /\ next.served = conns[c].served
        /\ next.boot = conns[c].boot /\ next.up = conns[c].up /\ next.worker_bound = TRUE
        /\ next.reply = IF conns[c].up THEN r ELSE conns[c].reply
    BY <1>1 DEF Connection, Answered
  <2>5. conns' = [conns EXCEPT ![c] = next] /\ r # "hello"
    BY <2>1
  <2> HIDE DEF next
  <2> QED
    BY <2>1, <2>2, <2>3, <2>4, <2>5, MessageRead
<1>6. ASSUME HandleSnapshot(c) \/ HandleHeartbeat(c) PROVE ClusterInv'
  <2> DEFINE next == [conns[c] EXCEPT !.inbox = Tail(@)]
  <2>1. /\ conns[c].served /\ conns[c].inbox # <<>>
        /\ Head(conns[c].inbox).type \notin {"HELLO", "REGISTER"}
    BY <1>6 DEF HandleSnapshot, HandleHeartbeat, Receives
  <2>2. next \in Connection
    BY <1>1, <1>3, <2>1 DEF Connection
  <2>3. /\ next.inbox = Tail(conns[c].inbox) /\ next.served = conns[c].served
        /\ next.boot = conns[c].boot /\ next.up = conns[c].up
        /\ next.worker_bound = conns[c].worker_bound /\ next.reply = conns[c].reply
    BY <1>1 DEF Connection
  <2>4. conns' = [conns EXCEPT ![c] = next] /\ UNCHANGED <<agents, suspects>>
    BY <1>6 DEF HandleSnapshot, HandleHeartbeat
  <2> HIDE DEF next
  <2> QED
    BY <2>1, <2>2, <2>3, <2>4, MessageRead
<1>7. ASSUME DropConnection(c) \/ ConnectionEnds(c) PROVE ClusterInv'
  <2>1. conns' = [conns EXCEPT ![c] = NoConn] /\ UNCHANGED <<agents, suspects>>
    BY <1>7 DEF DropConnection, ConnectionEnds
  <2>2. NoConn \in Connection
    BY ConstantsAssumption DEF NoConn, Connection
  <2>3. conns'[c] = NoConn
    BY <1>1, <2>1
  <2>4. /\ ~NoConn.served /\ ~NoConn.up /\ NoConn.reply = "none"
        /\ Len(NoConn.inbox) = 0 /\ DOMAIN NoConn.inbox = {}
    BY DEF NoConn
  <2>5. ConnOK(c)'
    BY <2>3, <2>4, ClusterAssumption DEF ConnOK, NoConn
  <2>6. \A a \in Boots : agents[a].conn = c => LinkOK(a)'
    BY <2>1, <2>3, <2>4 DEF LinkOK
  <2> QED
    BY <2>1, <2>2, <2>5, <2>6, ConnPreserves
<1>8. ASSUME ResetConn(c) PROVE ClusterInv'
  <2> DEFINE next == [conns[c] EXCEPT !.up = FALSE, !.inbox = <<>>, !.reply = "none"]
  <2>1. conns' = [conns EXCEPT ![c] = next] /\ UNCHANGED <<agents, suspects>> /\ conns[c].up
    BY <1>8 DEF ResetConn
  <2>2. next \in Connection
    <3>1. <<>> \in Seq(Message)
      OBVIOUS
    <3> QED
      BY <1>1, <3>1 DEF Connection
  <2>3. /\ next.served = conns[c].served /\ ~next.up /\ next.reply = "none"
        /\ next.boot = conns[c].boot /\ next.inbox = <<>>
    BY <1>1 DEF Connection
  <2>4. conns'[c] = next
    BY <1>1, <2>1
  <2>5. Len(next.inbox) = 0 /\ DOMAIN next.inbox = {}
    BY <2>3
  <2> HIDE DEF next
  <2>6. ConnOK(c)'
    <3>1. ~NoConn.up
      BY DEF NoConn
    <3>2. conns[c].served
      BY <1>1, <2>1, <3>1 DEF ConnOK
    <3>3. conns'[c].served /\ conns'[c].boot \in Boots
      BY <1>1, <2>3, <2>4, <3>2 DEF ConnOK
    <3>4. Len(conns'[c].inbox) <= MaxInbox /\ DOMAIN conns'[c].inbox = {}
      BY <2>4, <2>5, ClusterAssumption
    <3> QED
      BY <3>3, <3>4 DEF ConnOK
  <2>7. \A a \in Boots : agents[a].conn = c => LinkOK(a)'
    BY <2>1, <2>3, <2>4 DEF LinkOK
  <2> QED
    BY <2>1, <2>2, <2>6, <2>7, ConnPreserves
<1> QED
  BY <1>4, <1>5, <1>6, <1>7, <1>8 DEF ServeConn, HandleMessage

(* Every step keeps the invariant.                                         *)
LEMMA ClusterStep == ClusterInv /\ [ClusterNext]_clusterVars => ClusterInv'
<1> SUFFICES ASSUME ClusterInv, [ClusterNext]_clusterVars PROVE ClusterInv'
  OBVIOUS
<1>1. TypeOK'
  BY StoreStep, TypeStep DEF ClusterInv
<1>2. ASSUME UNCHANGED <<agents, conns>>, suspects' \subseteq Workers PROVE ClusterInv'
  <2>1. \A a \in Boots : /\ agents'[a].reg_gen >= agents[a].reg_gen
                         /\ agents'[a].obs_gen >= agents[a].obs_gen
    BY <1>2, GenerationsTyped DEF ClusterInv, ClusterTypeOK
  <2>2. agents' \in [Boots -> Agent] /\ conns' \in [Conns -> Connection]
    BY <1>2 DEF ClusterInv, ClusterTypeOK
  <2> QED
    BY <1>1, <1>2, <2>1, <2>2, Preserved
<1>3. suspects \subseteq Workers
  BY DEF ClusterInv, ClusterTypeOK
<1>4. ASSUME CheckHeartbeats PROVE ClusterInv'
  BY <1>2, <1>4 DEF CheckHeartbeats
<1>5. ASSUME NEW w \in Workers, MarkSuspect(w) PROVE ClusterInv'
  BY <1>2, <1>3, <1>5 DEF MarkSuspect
<1>6. ASSUME Operator \/ TimePasses \/ UNCHANGED clusterVars PROVE ClusterInv'
  BY <1>2, <1>3, <1>6 DEF Operator, TimePasses, clusterVars
<1> QED
  BY <1>1, <1>4, <1>5, <1>6, AgentKeeps, ConnKeeps DEF ClusterNext, WatchLiveness

(* It holds to begin with.                                                 *)
LEMMA ClusterInvInit == ClusterInit => ClusterInv
<1> SUFFICES ASSUME ClusterInit PROVE ClusterInv
  OBVIOUS
<1>1. TypeOK
  BY TypeInit DEF ClusterInit
<1>2. NewAgent \in Agent
  <2>1. 1 \in 1..MaxRegGen + 1 /\ 1 \in 1..MaxObsGen + 1 /\ 0 \in 0..MaxEpoch
    BY ConstantsAssumption, ClusterAssumption
  <2> QED
    BY <2>1 DEF NewAgent, Agent, AgentPC
<1>3. NoConn \in Connection /\ Len(NoConn.inbox) = 0 /\ DOMAIN NoConn.inbox = {}
  BY ConstantsAssumption DEF NoConn, Connection
<1>4. agents = [b \in Boots |-> NewAgent] /\ conns = [c \in Conns |-> NoConn] /\ suspects = {}
  BY DEF ClusterInit
<1>5. ClusterTypeOK
  BY <1>2, <1>3, <1>4, ClusterAssumption DEF ClusterTypeOK
<1>6. \A c \in Conns : ConnOK(c)
  BY <1>3, <1>4, ClusterAssumption DEF ConnOK, NoConn
<1>7. \A b \in Boots : AgentOK(b) /\ LinkOK(b)
  BY <1>4 DEF AgentOK, LinkOK, NewAgent
<1> QED
  BY <1>1, <1>5, <1>6, <1>7 DEF ClusterInv

(* The invariant of the cluster holds for good.                            *)
LEMMA ClusterInvariant == ClusterSpec => []ClusterInv
BY ClusterInvInit, ClusterStep, PTL DEF ClusterSpec

(* Agents, connections and threads keep their types, and the bounds on     *)
(* generations and on messages under way are respected, whatever fails.    *)
THEOREM ClusterTypeCorrect == ClusterSpec => []ClusterTypeOK
<1>1. ClusterInv => ClusterTypeOK
  BY DEF ClusterInv
<1> QED
  BY <1>1, ClusterInvariant, PTL

(* The cluster implements the fleet store: whatever agents send, however   *)
(* connections fail and however late the coordinator's threads run, the    *)
(* store only ever sees operations of its own specification, with inputs   *)
(* that specification admits.  So all that is proved of the store holds in *)
(* the cluster.                                                            *)
THEOREM ClusterImplementsStore == ClusterSpec => ImplementsStore
<1>1. ClusterInit => Init
  BY DEF ClusterInit
<1> QED
  BY <1>1, ClusterInvariant, StoreStep, PTL DEF ClusterSpec, ImplementsStore, Spec

-----------------------------------------------------------------------------
(* What the store promises, the running system keeps: with real agents,    *)
(* connections and threads around it, whatever fails, a usable device has  *)
(* its evidence, a fence stands while its incarnation is on record, an     *)
(* operator's fence stands, generations only advance, and a device enters  *)
(* placement only on an observation that was young and in order.           *)
COROLLARY ClusterKeepsPromises ==
  ClusterSpec => /\ []UsableIsBacked
                 /\ FenceHolds
                 /\ AdminFencesHold
                 /\ GenerationsAdvance
                 /\ BecomesUsableOnlyFresh
BY ClusterImplementsStore, EligibilityIsBacked, FencesHold, AdminFencesStand,
   GenerationsOnlyAdvance, UsableOnlyFresh, PTL DEF ImplementsStore

(* Whatever agents enumerate, skip or fail to probe, no step of the        *)
(* running system mixes two publications of one process for its readers,   *)
(* and none takes the live incarnation away from behind a fresh device,    *)
(* unless the incarnation's own list has dropped the device.               *)
THEOREM ClusterPublishesWhole ==
  ASSUME AgentShaped
  PROVE  ClusterSpec => PublicationIsAtomic /\ FreshKeepsSource
BY ClusterImplementsStore, PublicationsAreAtomic, FreshnessKeepsSource, PTL DEF ImplementsStore

-----------------------------------------------------------------------------
(* Generations *)

(* Only a snapshot read from a connection gives a device a new source or   *)
(* generation, or makes it fresh.                                          *)
LEMMA ClusterDeviceStep ==
  ASSUME ClusterInv, [ClusterNext]_clusterVars, NEW d \in Devices
  PROVE  \/ /\ devices'[d].boot = devices[d].boot
            /\ devices'[d].obs_gen = devices[d].obs_gen
            /\ devices'[d].fresh => devices[d].fresh
         \/ \E c \in Conns :
              /\ HandleSnapshot(c)
              /\ IngestSnapshot(WorkerOf(conns[c].boot), Head(conns[c].inbox).obs)
              /\ d \in AppliedDevices(WorkerOf(conns[c].boot), Head(conns[c].inbox).obs)
<1> DEFINE Kept == /\ devices'[d].boot = devices[d].boot
                   /\ devices'[d].obs_gen = devices[d].obs_gen
                   /\ devices'[d].fresh => devices[d].fresh
           Read(c) == /\ HandleSnapshot(c)
                      /\ IngestSnapshot(WorkerOf(conns[c].boot), Head(conns[c].inbox).obs)
                      /\ d \in AppliedDevices(WorkerOf(conns[c].boot), Head(conns[c].inbox).obs)
<1>1. TypeOK
  BY DEF ClusterInv
<1>2. ASSUME devices'[d] = devices[d] PROVE Kept
  BY <1>2
<1>3. ASSUME TakenDown(d) PROVE Kept
  BY <1>1, <1>3, TakenDownFields
<1>4. ASSUME NEW w, MarkLostIfKnown(w) PROVE Kept
  BY <1>2, <1>3, <1>4 DEF MarkLostIfKnown, MarkWorkerLost, TakenDown, vars
<1>5. ASSUME Operator PROVE Kept
  <2>1. Administered(d) => Kept
    BY <1>1, AdministeredFields
  <2>2. Administered(d) \/ devices'[d] = devices[d]
    <3>1. ASSUME NEW x \in Devices, NEW new, devices' = [devices EXCEPT ![x] = new], x # d
          PROVE  devices'[d] = devices[d]
      BY <1>1, <3>1 DEF TypeOK
    <3>2. epoch \in 1..MaxEpoch
      BY <1>1 DEF TypeOK
    <3>3. ASSUME NEW x \in Devices, NEW level \in DrainLevels, SetDrain(x, level)
          PROVE  Administered(d) \/ devices'[d] = devices[d]
      BY <3>1, <3>3 DEF SetDrain, Administered
    <3>4. ASSUME NEW x \in Devices, NEW g \in QuarantineGens, SetQuarantine(x, g)
          PROVE  Administered(d) \/ devices'[d] = devices[d]
      BY <3>1, <3>4 DEF SetQuarantine, Administered
    <3>5. ASSUME NEW x \in Devices, ClearQuarantine(x, epoch)
          PROVE  Administered(d) \/ devices'[d] = devices[d]
      BY <3>1, <3>2, <3>5 DEF ClearQuarantine, Administered
    <3> QED
      BY <1>5, <3>3, <3>4, <3>5 DEF Operator, RollEpoch
  <2> QED
    BY <1>2, <2>1, <2>2
<1>6. ASSUME NEW c \in Conns, HandleSnapshot(c) PROVE Kept \/ Read(c)
  <2> DEFINE w == WorkerOf(conns[c].boot)
             obs == Head(conns[c].inbox).obs
  <2>1. UNCHANGED vars \/ IngestSnapshot(w, obs)
    BY <1>6 DEF HandleSnapshot
  <2>2. ASSUME IngestSnapshot(w, obs), d \notin AppliedDevices(w, obs)
        PROVE  Kept
    <3>1. devices'[d] = devices[d] \/ TakenDown(d)
      BY <2>2 DEF IngestSnapshot, TakenDown
    <3> QED
      BY <1>2, <1>3, <3>1
  <2> QED
    BY <1>2, <1>6, <2>1, <2>2 DEF vars
<1>7. ASSUME NEW c \in Conns, HandleRegister(c) \/ HandleHeartbeat(c) PROVE Kept
  BY <1>2, <1>7 DEF HandleRegister, HandleHeartbeat, RegisterWorker, ReaffirmWorker, AdmitWorker,
     Heartbeat, vars
<1>8. ASSUME NEW c \in Conns,
             HandleHello(c) \/ DropConnection(c) \/ ConnectionEnds(c) \/ ResetConn(c)
      PROVE  Kept
  BY <1>2, <1>4, <1>8 DEF HandleHello, DropConnection, ConnectionEnds, ResetConn, vars
<1>9. ASSUME NEW b \in Boots,
             Launch(b) \/ AgentStep(b) \/ TornSnapshot(b) \/ TornHeartbeat(b) \/ Kill(b)
      PROVE  Kept
  BY <1>2, <1>9 DEF Launch, AgentStep, TornSnapshot, TornHeartbeat, Kill, Connect, SendRegister,
     Registered, RegistrationFails, CloseAndRetry, PublishSnapshot, PublishNothing,
     SendHeartbeat, NoticeBroken, vars
<1>10. ASSUME WatchLiveness PROVE Kept
  BY <1>2, <1>4, <1>10 DEF WatchLiveness, CheckHeartbeats, MarkSuspect, vars
<1>11. ASSUME TimePasses \/ UNCHANGED clusterVars PROVE Kept
  BY <1>2, <1>11 DEF TimePasses, Tick, clusterVars, vars
<1> HIDE DEF Kept, Read
<1>12. Kept \/ \E c \in Conns : Read(c)
  BY <1>5, <1>6, <1>7, <1>8, <1>9, <1>10, <1>11 DEF ClusterNext, ServeConn, HandleMessage
<1> QED
  BY <1>12 DEF Kept, Read

(* No step takes an agent's generations back.                              *)
LEMMA GenerationsGrow ==
  ASSUME ClusterInv, [ClusterNext]_clusterVars, NEW b \in Boots
  PROVE  agents'[b].reg_gen >= agents[b].reg_gen /\ agents'[b].obs_gen >= agents[b].obs_gen
<1> DEFINE Grow == /\ agents'[b].reg_gen \in {agents[b].reg_gen, agents[b].reg_gen + 1}
                   /\ agents'[b].obs_gen \in {agents[b].obs_gen, agents[b].obs_gen + 1}
<1>1. agents \in [Boots -> Agent]
  BY DEF ClusterInv, ClusterTypeOK
<1>2. ASSUME agents' = agents PROVE Grow
  BY <1>2
<1>3. ASSUME NEW a \in Boots, NEW pc, agents' = [agents EXCEPT ![a].pc = pc] PROVE Grow
  BY <1>1, <1>3 DEF Agent
<1>4. ASSUME NEW a \in Boots, NEW pc, NEW conn,
             agents' = [agents EXCEPT ![a].pc = pc, ![a].conn = conn]
      PROVE  Grow
  BY <1>1, <1>4 DEF Agent
<1>5. ASSUME NEW a \in Boots, NEW pc, NEW e,
             agents' = [agents EXCEPT ![a].pc = pc, ![a].last_known_epoch = e]
      PROVE  Grow
  BY <1>1, <1>5 DEF Agent
<1>6. ASSUME NEW a \in Boots, NEW pc,
             \/ agents' = [agents EXCEPT ![a].pc = pc, ![a].reg_gen = @ + 1]
             \/ agents' = [agents EXCEPT ![a].pc = pc, ![a].obs_gen = @ + 1]
      PROVE  Grow
  BY <1>1, <1>6 DEF Agent
<1> HIDE DEF Grow
<1>7. ASSUME NEW a \in Boots,
             Launch(a) \/ AgentStep(a) \/ TornSnapshot(a) \/ TornHeartbeat(a) \/ Kill(a)
      PROVE  Grow
  <2>1. Launch(a) \/ PublishNothing(a) \/ SendHeartbeat(a) \/ TornHeartbeat(a) => Grow
    BY <1>3 DEF Launch, PublishNothing, SendHeartbeat, TornHeartbeat
  <2>2. Kill(a) \/ CloseAndRetry(a) \/ (\E c \in Conns : Connect(a, c)) => Grow
    BY <1>4 DEF Kill, CloseAndRetry, Connect
  <2>3. (\E ids \in Enumerations(WorkerOf(a)) : SendRegister(a, ids)) => Grow
    BY <1>5 DEF SendRegister
  <2>4. Registered(a) \/ TornSnapshot(a) \/ (\E probed \in Probings(a) : PublishSnapshot(a, probed)) => Grow
    BY <1>6 DEF Registered, TornSnapshot, PublishSnapshot
  <2> QED
    BY <1>7, <2>1, <2>2, <2>3, <2>4 DEF AgentStep, RegistrationFails, NoticeBroken
<1>8. Grow
  BY <1>2, <1>7 DEF ClusterNext, ServeConn, HandleMessage, HandleHello, HandleRegister,
     HandleSnapshot, HandleHeartbeat, DropConnection, ConnectionEnds, ResetConn, WatchLiveness,
     CheckHeartbeats, MarkSuspect, Operator, TimePasses, clusterVars
<1>9. agents[b].reg_gen \in Nat /\ agents[b].obs_gen \in Nat
  BY <1>1, GenerationsTyped
<1> QED
  BY <1>8, <1>9 DEF Grow

(* Only a registration read from a connection changes the incarnation or   *)
(* the registration generation of a worker.                                *)
LEMMA ClusterWorkerStep ==
  ASSUME ClusterInv, [ClusterNext]_clusterVars, NEW w \in Workers
  PROVE  \/ /\ workers'[w].boot = workers[w].boot
            /\ workers'[w].reg_gen = workers[w].reg_gen
         \/ \E c \in Conns :
              /\ HandleRegister(c)
              /\ workers'[w].boot = Head(conns[c].inbox).reg.boot
              /\ workers'[w].reg_gen = Head(conns[c].inbox).reg.reg_gen
<1> DEFINE Kept == workers'[w].boot = workers[w].boot /\ workers'[w].reg_gen = workers[w].reg_gen
           Read(c) == /\ HandleRegister(c)
                      /\ workers'[w].boot = Head(conns[c].inbox).reg.boot
                      /\ workers'[w].reg_gen = Head(conns[c].inbox).reg.reg_gen
<1>1. workers \in [Workers -> WorkerRecord]
  BY DEF ClusterInv, TypeOK
<1>2. ASSUME workers' = workers PROVE Kept
  BY <1>2
<1>3. ASSUME NEW v, NEW next, workers' = [workers EXCEPT ![v] = next],
             next.boot = workers[v].boot, next.reg_gen = workers[v].reg_gen
      PROVE  Kept
  BY <1>1, <1>3
<1>4. ASSUME NEW v \in Workers, MarkLostIfKnown(v) PROVE Kept
  <2>1. workers[v] \in WorkerRecord
    BY <1>1
  <2>2. LET next == [workers[v] EXCEPT !.lost = TRUE, !.alive = FALSE, !.fenced = TRUE] IN
          next.boot = workers[v].boot /\ next.reg_gen = workers[v].reg_gen
    BY <2>1 DEF WorkerRecord
  <2> QED
    BY <1>2, <1>3, <1>4, <2>2, ZenonT(60) DEF MarkLostIfKnown, MarkWorkerLost, vars
<1>5. ASSUME NEW v \in Workers, NEW boot, NEW e, Heartbeat(v, boot, e) PROVE Kept
  <2>1. workers[v] \in WorkerRecord
    BY <1>1
  <2>2. LET next == [workers[v] EXCEPT !.last_heartbeat = now, !.alive = TRUE, !.lost = FALSE] IN
          next.boot = workers[v].boot /\ next.reg_gen = workers[v].reg_gen
    BY <2>1 DEF WorkerRecord
  <2> QED
    BY <1>3, <1>5, <2>2 DEF Heartbeat
<1>6. ASSUME NEW v \in Workers, NEW obs, IngestSnapshot(v, obs) PROVE Kept
  <2> DEFINE found == {d \in AppliedDevices(v, obs) : ~devices[d].known}
             wr == [workers[v] EXCEPT !.ids = @ \cup found]
             new == [wr EXCEPT !.last_heartbeat = now, !.alive = TRUE]
  <2>1. workers' = [workers EXCEPT ![v] = IF Complete(v, obs) THEN new ELSE wr]
    BY <1>6 DEF IngestSnapshot
  <2>2. workers[v] \in WorkerRecord
    BY <1>1
  <2>3. /\ wr.boot = workers[v].boot /\ wr.reg_gen = workers[v].reg_gen
        /\ new.boot = workers[v].boot /\ new.reg_gen = workers[v].reg_gen
    BY <2>2 DEF WorkerRecord
  <2> HIDE DEF wr, new
  <2> QED
    BY <1>3, <2>1, <2>3
<1>7. ASSUME NEW c \in Conns, HandleRegister(c) PROVE Kept \/ Read(c)
  <2> DEFINE reg == Head(conns[c].inbox).reg
  <2>1. reg \in Registrations
    BY <1>7, Received DEF HandleRegister, Receives
  <2>2. workers[reg.worker] \in WorkerRecord /\ reg.worker \in Workers
    BY <1>1, <2>1, RegistrationTyped
  <2>3. ASSUME ReaffirmWorker(reg) PROVE Kept \/ Read(c)
    <3> DEFINE next == [workers[reg.worker] EXCEPT !.reg_gen = reg.reg_gen,
                          !.last_heartbeat = now, !.alive = TRUE, !.lost = FALSE,
                          !.ids = reg.enumerated]
    <3>1. next.boot = reg.boot /\ next.reg_gen = reg.reg_gen
      BY <2>2, <2>3 DEF ReaffirmWorker, CanReaffirm, WorkerRecord
    <3>2. workers' = [workers EXCEPT ![reg.worker] = next]
      BY <2>3 DEF ReaffirmWorker
    <3> HIDE DEF next
    <3>3. IF reg.worker = w THEN workers'[w] = next ELSE workers'[w] = workers[w]
      BY <1>1, <2>2, <3>2
    <3> QED
      BY <1>7, <3>1, <3>3
  <2>4. ASSUME AdmitWorker(reg) PROVE Kept \/ Read(c)
    <3> DEFINE next == [registered |-> TRUE, boot |-> reg.boot, reg_gen |-> reg.reg_gen,
                        ids |-> reg.enumerated, last_heartbeat |-> now,
                        alive |-> TRUE, fenced |-> FALSE, lost |-> FALSE]
    <3>1. next.boot = reg.boot /\ next.reg_gen = reg.reg_gen
      OBVIOUS
    <3>2. workers' = [workers EXCEPT ![reg.worker] = next]
      BY <2>4 DEF AdmitWorker
    <3> HIDE DEF next
    <3>3. IF reg.worker = w THEN workers'[w] = next ELSE workers'[w] = workers[w]
      BY <1>1, <2>2, <3>2
    <3> QED
      BY <1>7, <3>1, <3>3
  <2> QED
    BY <1>2, <1>7, <2>3, <2>4 DEF HandleRegister, RegisterWorker, vars
<1>8. ASSUME NEW c \in Conns, HandleSnapshot(c) \/ HandleHeartbeat(c) PROVE Kept
  <2>1. WorkerOf(conns[c].boot) \in Workers
    BY <1>8, Received DEF HandleSnapshot, HandleHeartbeat, Receives
  <2> QED
    BY <1>2, <1>5, <1>6, <1>8, <2>1 DEF HandleSnapshot, HandleHeartbeat, vars
<1>9. ASSUME NEW c \in Conns,
             HandleHello(c) \/ DropConnection(c) \/ ConnectionEnds(c) \/ ResetConn(c)
      PROVE  Kept
  <2>1. ConnectionEnds(c) => WorkerOf(conns[c].boot) \in Workers
    BY WorkerOfBoot DEF ConnectionEnds, AtEnd, ClusterInv, ConnOK
  <2> QED
    BY <1>2, <1>4, <1>9, <2>1 DEF HandleHello, DropConnection, ConnectionEnds, ResetConn, vars
<1>10. ASSUME NEW b \in Boots,
              Launch(b) \/ AgentStep(b) \/ TornSnapshot(b) \/ TornHeartbeat(b) \/ Kill(b)
       PROVE  Kept
  BY <1>2, <1>10 DEF Launch, AgentStep, TornSnapshot, TornHeartbeat, Kill, Connect, SendRegister,
     Registered, RegistrationFails, CloseAndRetry, PublishSnapshot, PublishNothing,
     SendHeartbeat, NoticeBroken, vars
<1>11. ASSUME WatchLiveness PROVE Kept
  BY <1>2, <1>4, <1>11 DEF WatchLiveness, CheckHeartbeats, MarkSuspect, vars
<1>12. ASSUME Operator \/ TimePasses \/ UNCHANGED clusterVars PROVE Kept
  BY <1>2, <1>12 DEF Operator, RollEpoch, SetDrain, SetQuarantine, ClearQuarantine, TimePasses,
     Tick, clusterVars, vars
<1> HIDE DEF Kept, Read
<1>13. Kept \/ \E c \in Conns : Read(c)
  BY <1>7, <1>8, <1>9, <1>10, <1>11, <1>12 DEF ClusterNext, ServeConn, HandleMessage
<1> QED
  BY <1>13 DEF Kept, Read

(* An observation applied from a connection's inbox is of the process at   *)
(* the other end, of a generation that process has left behind.            *)
LEMMA ReadObservation ==
  ASSUME ClusterInv, NEW c \in Conns, NEW d \in Devices, HandleSnapshot(c),
         IngestSnapshot(WorkerOf(conns[c].boot), Head(conns[c].inbox).obs),
         d \in AppliedDevices(WorkerOf(conns[c].boot), Head(conns[c].inbox).obs)
  PROVE  /\ conns[c].boot \in Boots /\ conns[c].worker_bound /\ conns[c].served
         /\ devices'[d].boot = conns[c].boot
         /\ devices'[d].obs_gen < agents[conns[c].boot].obs_gen
<1> DEFINE w == WorkerOf(conns[c].boot)
           obs == Head(conns[c].inbox).obs
           o == ObservationOf(obs, d)
<1>1. /\ conns[c].served /\ conns[c].inbox # <<>> /\ Head(conns[c].inbox).type = "DEVICE_SNAPSHOT"
  BY DEF HandleSnapshot, Receives
<1>2. /\ conns[c].boot \in Boots /\ w \in Workers /\ obs \in Batches /\ conns[c].worker_bound
      /\ SentBy(conns[c].boot, Head(conns[c].inbox))
  BY <1>1, Received
<1>3. \A i \in DOMAIN obs :
        obs[i].boot = conns[c].boot /\ obs[i].obs_gen < agents[conns[c].boot].obs_gen
  BY <1>1, <1>2, SMTT(30) DEF SentBy
<1>4. o.boot = conns[c].boot /\ o.obs_gen < agents[conns[c].boot].obs_gen
  <2>1. \E i \in DOMAIN obs : obs[i].dev = d
    BY DEF AppliedDevices, Applied, Processed
  <2>2. (CHOOSE i \in DOMAIN obs : obs[i].dev = d) \in DOMAIN obs
    BY <2>1
  <2> QED
    BY <1>3, <2>2 DEF ObservationOf
<1>5. devices'[d] = apply_observation(devices[d], o, now)
  BY DEF IngestSnapshot
<1> HIDE DEF o
<1>6. LET new == apply_observation(devices[d], o, now) IN new.boot = o.boot /\ new.obs_gen = o.obs_gen
  BY DEF apply_observation
<1> QED
  BY <1>1, <1>2, <1>4, <1>5, <1>6

(* Every step keeps the agents ahead.                                      *)
LEMMA AheadStep == ClusterInv /\ AgentAhead /\ [ClusterNext]_clusterVars => AgentAhead'
<1> SUFFICES ASSUME ClusterInv, AgentAhead, [ClusterNext]_clusterVars, NEW b \in Boots
             PROVE  /\ \A d \in Devices : devices'[d].boot = b => devices'[d].obs_gen < agents'[b].obs_gen
                    /\ workers'[WorkerOf(b)].boot = b =>
                         workers'[WorkerOf(b)].reg_gen <= agents'[b].reg_gen
  BY DEF AgentAhead
<1>1. /\ agents'[b].reg_gen >= agents[b].reg_gen /\ agents'[b].obs_gen >= agents[b].obs_gen
      /\ agents[b].reg_gen \in Nat /\ agents[b].obs_gen \in Nat
      /\ agents'[b].reg_gen \in Nat /\ agents'[b].obs_gen \in Nat
  <2>1. agents[b] \in Agent /\ agents'[b] \in Agent
    BY ClusterStep DEF ClusterInv, ClusterTypeOK
  <2> QED
    BY <2>1, GenerationsTyped, GenerationsGrow
<1>2. ASSUME NEW d \in Devices, devices'[d].boot = b PROVE devices'[d].obs_gen < agents'[b].obs_gen
  <2>1. devices'[d].obs_gen < agents[b].obs_gen
    <3>1. CASE devices'[d].boot = devices[d].boot /\ devices'[d].obs_gen = devices[d].obs_gen
      BY <1>2, <3>1 DEF AgentAhead
    <3>2. ASSUME NEW c \in Conns, HandleSnapshot(c),
                 IngestSnapshot(WorkerOf(conns[c].boot), Head(conns[c].inbox).obs),
                 d \in AppliedDevices(WorkerOf(conns[c].boot), Head(conns[c].inbox).obs)
          PROVE  devices'[d].obs_gen < agents[b].obs_gen
      BY <1>2, <3>2, ReadObservation
    <3> QED
      BY <3>1, <3>2, ClusterDeviceStep
  <2>2. devices'[d].obs_gen \in Nat
    <3>1. devices'[d] \in DeviceState
      BY ClusterStep DEF ClusterInv, TypeOK
    <3> QED
      BY <3>1 DEF DeviceState
  <2> QED
    BY <1>1, <2>1, <2>2
<1>3. ASSUME workers'[WorkerOf(b)].boot = b
      PROVE  workers'[WorkerOf(b)].reg_gen <= agents'[b].reg_gen
  <2> DEFINE w == WorkerOf(b)
  <2>1. w \in Workers
    BY WorkerOfBoot
  <2>2. workers'[w].reg_gen <= agents[b].reg_gen
    <3>1. CASE workers'[w].boot = workers[w].boot /\ workers'[w].reg_gen = workers[w].reg_gen
      BY <1>3, <3>1 DEF AgentAhead
    <3>2. ASSUME NEW c \in Conns, HandleRegister(c),
                 workers'[w].boot = Head(conns[c].inbox).reg.boot,
                 workers'[w].reg_gen = Head(conns[c].inbox).reg.reg_gen
          PROVE  workers'[w].reg_gen <= agents[b].reg_gen
      <4>1. /\ SentBy(conns[c].boot, Head(conns[c].inbox))
            /\ Head(conns[c].inbox).type = "REGISTER"
        BY <3>2, Received DEF HandleRegister, Receives
      <4>2. conns[c].boot = b /\ Head(conns[c].inbox).reg.reg_gen <= agents[b].reg_gen
        BY <1>3, <3>2, <4>1 DEF SentBy
      <4> QED
        BY <3>2, <4>2
    <3> QED
      BY <2>1, <3>1, <3>2, ClusterWorkerStep
  <2>3. workers'[w].reg_gen \in Nat
    <3>1. workers'[w] \in WorkerRecord
      BY <2>1, ClusterStep DEF ClusterInv, TypeOK
    <3> QED
      BY <3>1 DEF WorkerRecord
  <2> QED
    BY <1>1, <2>2, <2>3
<1> QED
  BY <1>2, <1>3

(* An agent is ahead of what the coordinator holds of it, whatever was     *)
(* lost, repeated after a reconnect or read late: its next observation is  *)
(* never taken for a repeated one.                                         *)
THEOREM AgentsStayAhead == ClusterSpec => []AgentAhead
<1>1. ClusterInit => AgentAhead
  <2> SUFFICES ASSUME ClusterInit PROVE AgentAhead
    OBVIOUS
  <2>1. ASSUME NEW b \in Boots PROVE b # 0 /\ WorkerOf(b) \in Workers
    BY WorkerOfBoot, ConstantsAssumption
  <2>2. ASSUME NEW d \in Devices PROVE devices[d].boot = 0
    BY DEF ClusterInit, Init, NewDevice
  <2>3. ASSUME NEW w \in Workers PROVE workers[w].boot = 0
    BY DEF ClusterInit, Init, NoWorker
  <2> QED
    BY <2>1, <2>2, <2>3 DEF AgentAhead
<1> QED
  BY <1>1, AheadStep, ClusterInvariant, PTL DEF ClusterSpec

-----------------------------------------------------------------------------
(* Who watches a fresh device *)

(* A bound connection stays what it is until its thread ends or drops it.  *)
LEMMA BoundStep ==
  ASSUME ClusterInv, [ClusterNext]_clusterVars, NEW c \in Conns,
         conns[c].served, conns[c].worker_bound
  PROVE  \/ /\ conns'[c].served /\ conns'[c].worker_bound
            /\ conns'[c].boot = conns[c].boot
         \/ DropConnection(c)
         \/ ConnectionEnds(c)
<1> DEFINE Kept == /\ conns'[c].served /\ conns'[c].worker_bound
                   /\ conns'[c].boot = conns[c].boot
<1>1. conns \in [Conns -> Connection] /\ conns[c] \in Connection
  BY DEF ClusterInv, ClusterTypeOK
<1>2. ASSUME conns'[c] = conns[c] PROVE Kept
  BY <1>2
<1>3. ASSUME NEW x, NEW next, conns' = [conns EXCEPT ![x] = next], x # c PROVE Kept
  BY <1>1, <1>3
<1>4. ASSUME NEW next, conns' = [conns EXCEPT ![c] = next],
             next.served = conns[c].served, next.boot = conns[c].boot,
             next.worker_bound = conns[c].worker_bound \/ next.worker_bound = TRUE
      PROVE  Kept
  BY <1>1, <1>4
<1>5. ASSUME NEW k \in Connection, NEW m
      PROVE  /\ Sent(k, m).served = k.served /\ Sent(k, m).boot = k.boot
             /\ Sent(k, m).worker_bound = k.worker_bound
  BY DEF Sent, Connection
<1>6. ASSUME NEW x, NEW m, conns' = [conns EXCEPT ![x] = Sent(@, m)] PROVE Kept
  BY <1>1, <1>3, <1>4, <1>5, <1>6
<1>7. ASSUME NEW k \in Connection
      PROVE  LET down == [k EXCEPT !.up = FALSE] IN
             down.served = k.served /\ down.boot = k.boot /\ down.worker_bound = k.worker_bound
  BY DEF Connection
<1>8. ASSUME NEW b \in Boots,
             \/ \E ids \in Enumerations(WorkerOf(b)) : SendRegister(b, ids)
             \/ \E probed \in Probings(b) : PublishSnapshot(b, probed)
             \/ SendHeartbeat(b) \/ TornSnapshot(b) \/ TornHeartbeat(b)
      PROVE  Kept
  BY <1>6, <1>8 DEF SendRegister, PublishSnapshot, SendHeartbeat, TornSnapshot, TornHeartbeat
<1>9. ASSUME NEW b \in Boots, NEW x \in Conns, Connect(b, x) PROVE Kept
  <2>1. x # c
    BY <1>9 DEF Connect, Free
  <2> QED
    BY <1>3, <1>9, <2>1 DEF Connect
<1>10. ASSUME NEW b \in Boots, Kill(b) PROVE Kept
  BY <1>1, <1>7, <1>10 DEF Kill
<1>11. ASSUME NEW b \in Boots, RegistrationFails(b) \/ NoticeBroken(b) PROVE Kept
  BY <1>1, <1>3, <1>4, <1>7, <1>11 DEF RegistrationFails, NoticeBroken, CloseAndRetry
<1>12. ASSUME NEW b \in Boots, Launch(b) \/ Registered(b) \/ PublishNothing(b) PROVE Kept
  BY <1>2, <1>12 DEF Launch, Registered, PublishNothing
<1>13. ASSUME NEW x \in Conns, HandleHello(x) PROVE Kept
  <2> DEFINE next == [Answered(conns[x], "hello") EXCEPT !.ack_epoch = epoch]
  <2>1. /\ next.served = conns[x].served /\ next.boot = conns[x].boot
        /\ next.worker_bound = conns[x].worker_bound
    BY <1>1 DEF Answered, Connection
  <2>2. conns' = [conns EXCEPT ![x] = next]
    BY <1>13 DEF HandleHello
  <2> HIDE DEF next
  <2> QED
    BY <1>3, <1>4, <2>1, <2>2
<1>14. ASSUME NEW x \in Conns, HandleRegister(x) PROVE Kept
  <2>1. PICK r : conns' = [conns EXCEPT ![x] = [Answered(@, r) EXCEPT !.worker_bound = TRUE]]
    BY <1>14 DEF HandleRegister
  <2> DEFINE next == [Answered(conns[x], r) EXCEPT !.worker_bound = TRUE]
  <2>2. /\ next.served = conns[x].served /\ next.boot = conns[x].boot
        /\ next.worker_bound = TRUE
    BY <1>1 DEF Answered, Connection
  <2>3. conns' = [conns EXCEPT ![x] = next]
    BY <2>1
  <2> HIDE DEF next
  <2> QED
    BY <1>3, <1>4, <2>2, <2>3
<1>15. ASSUME NEW x \in Conns, HandleSnapshot(x) \/ HandleHeartbeat(x) PROVE Kept
  <2> DEFINE next == [conns[x] EXCEPT !.inbox = Tail(@)]
  <2>1. /\ next.served = conns[x].served /\ next.boot = conns[x].boot
        /\ next.worker_bound = conns[x].worker_bound
    BY <1>1 DEF Connection
  <2>2. conns' = [conns EXCEPT ![x] = next]
    BY <1>15 DEF HandleSnapshot, HandleHeartbeat
  <2> HIDE DEF next
  <2> QED
    BY <1>3, <1>4, <2>1, <2>2
<1>16. ASSUME NEW x \in Conns, DropConnection(x) \/ ConnectionEnds(x), x # c PROVE Kept
  BY <1>3, <1>16 DEF DropConnection, ConnectionEnds
<1>17. ASSUME NEW x \in Conns, ResetConn(x) PROVE Kept
  <2> DEFINE next == [conns[x] EXCEPT !.up = FALSE, !.inbox = <<>>, !.reply = "none"]
  <2>1. /\ next.served = conns[x].served /\ next.boot = conns[x].boot
        /\ next.worker_bound = conns[x].worker_bound
    BY <1>1 DEF Connection
  <2>2. conns' = [conns EXCEPT ![x] = next]
    BY <1>17 DEF ResetConn
  <2> HIDE DEF next
  <2> QED
    BY <1>3, <1>4, <2>1, <2>2
<1>18. ASSUME WatchLiveness \/ Operator \/ TimePasses \/ UNCHANGED clusterVars PROVE Kept
  BY <1>2, <1>18 DEF WatchLiveness, CheckHeartbeats, MarkSuspect, Operator, TimePasses, clusterVars
<1> HIDE DEF Kept
<1>19. Kept \/ DropConnection(c) \/ ConnectionEnds(c)
  BY <1>8, <1>9, <1>10, <1>11, <1>12, <1>13, <1>14, <1>15, <1>16, <1>17, <1>18
     DEF ClusterNext, AgentStep, ServeConn, HandleMessage
<1> QED
  BY <1>19 DEF Kept

(* The only threads that stop serving the connection of a device's         *)
(* incarnation take the device down with them, or leave on a frame they    *)
(* cannot decode.                                                          *)
LEMMA WatchedStep ==
  ASSUME ClusterInv, OwnershipInv, [ClusterNext]_clusterVars,
         NEW d \in Devices, devices'[d].fresh, devices[d].fresh => HasSource(d) /\ Watched(d)
  PROVE  \/ Watched(d)'
         \/ \E c \in Conns : DropConnection(c) /\ conns[c].boot = devices[d].boot
<1>1. TypeOK
  BY DEF ClusterInv
<1>2. ASSUME NEW c \in Conns, HandleSnapshot(c),
             IngestSnapshot(WorkerOf(conns[c].boot), Head(conns[c].inbox).obs),
             d \in AppliedDevices(WorkerOf(conns[c].boot), Head(conns[c].inbox).obs)
      PROVE  Watched(d)'
  <2>1. /\ conns[c].served /\ conns[c].worker_bound
        /\ devices'[d].boot = conns[c].boot
    BY <1>2, ReadObservation
  <2>2. ~ConnectionEnds(c) /\ ~DropConnection(c)
    <3>1. conns' = [conns EXCEPT ![c].inbox = Tail(@)]
      BY <1>2 DEF HandleSnapshot
    <3>2. conns[c] \in Connection /\ conns \in [Conns -> Connection]
      BY DEF ClusterInv, ClusterTypeOK
    <3>3. conns'[c].served = conns[c].served
      BY <3>1, <3>2 DEF Connection
    <3>4. ~NoConn.served
      BY DEF NoConn
    <3>5. ConnectionEnds(c) \/ DropConnection(c) => conns'[c] = NoConn
      BY <3>2 DEF ConnectionEnds, DropConnection
    <3> QED
      BY <2>1, <3>3, <3>4, <3>5
  <2> QED
    BY <2>1, <2>2, BoundStep DEF Watched
<1>3. CASE /\ devices'[d].boot = devices[d].boot
           /\ devices'[d].fresh => devices[d].fresh
  <2>1. PICK c \in Conns : /\ conns[c].served /\ conns[c].worker_bound
                           /\ conns[c].boot = devices[d].boot
    BY <1>3 DEF Watched
  <2>2. ~ConnectionEnds(c)
    <3> SUFFICES ASSUME ConnectionEnds(c) PROVE FALSE
      OBVIOUS
    <3>1. PICK w \in Workers : /\ Authoritative(w) /\ workers[w].boot = devices[d].boot
                               /\ d \in workers[w].ids
      BY <1>3 DEF HasSource
    <3>2. workers[w].registered /\ workers[w].boot \in BootsOf[w] /\ devices[d].known
      BY <1>3, <3>1 DEF Authoritative, OwnershipInv
    <3>3. WorkerOf(conns[c].boot) = w
      BY <2>1, <3>1, <3>2, WorkerOfBoot
    <3>4. MarkWorkerLost(w)
      BY <2>1, <3>2, <3>3 DEF ConnectionEnds, MarkLostIfKnown
    <3>5. devices[d] \in DeviceState /\ ~[devices[d] EXCEPT !.fresh = FALSE].fresh
      BY <1>1 DEF TypeOK, DeviceState
    <3>6. ~devices'[d].fresh
      BY <3>1, <3>2, <3>4, <3>5, VanishedFields DEF MarkWorkerLost
    <3> QED
      BY <3>6
  <2>3. CASE DropConnection(c)
    BY <2>1, <2>3
  <2>4. CASE ~DropConnection(c)
    BY <1>3, <2>1, <2>2, <2>4, BoundStep DEF Watched
  <2> QED
    BY <2>3, <2>4
<1> QED
  BY <1>2, <1>3, ClusterDeviceStep

(* The watch over fresh devices is kept: kills, resets, timeouts, torn     *)
(* frames, short lists, reconnects, second processes of a worker id and    *)
(* late threads leave no fresh device with a live source whose connection  *)
(* nobody serves, but for the return on a frame that cannot be decoded.    *)
THEOREM FreshDevicesAreWatched == ClusterSpec => WatchIsKept
<1> DEFINE Kept == \A d \in Devices :
             devices'[d].fresh /\ (devices[d].fresh => HasSource(d) /\ Watched(d))
               => \/ Watched(d)'
                  \/ \E c \in Conns : DropConnection(c) /\ conns[c].boot = devices[d].boot
<1>1. ClusterSpec => []OwnershipInv
  BY ClusterImplementsStore, OwnershipHolds, PTL DEF ImplementsStore
<1>2. ClusterInv /\ OwnershipInv /\ [ClusterNext]_clusterVars => [Kept]_clusterVars
  BY WatchedStep
<1> HIDE DEF Kept
<1>3. ClusterSpec => [][Kept]_clusterVars
  BY <1>1, <1>2, ClusterInvariant, PTL DEF ClusterSpec
<1> QED
  BY <1>3 DEF WatchIsKept, Kept
=============================================================================
