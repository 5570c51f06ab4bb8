------------------------------- MODULE Cluster --------------------------------
(***************************************************************************)
(* Worker agents and the coordinator, over TCP (agent.cpp, coordinator.cpp)*)
(*                                                                         *)
(* An agent process is one incarnation of its worker id and is named by    *)
(* its boot id; boots are numbered in the order of their launch.  It       *)
(* connects, says HELLO, learns the epoch, registers, then publishes and   *)
(* sends heartbeats until the connection breaks, and starts over.          *)
(*                                                                         *)
(* The coordinator serves every connection with a thread of its own and    *)
(* watches heartbeats with another.  They share nothing but the fleet      *)
(* store, whose operations are the actions of module FleetState.           *)
(*                                                                         *)
(* TCP is external: what is sent arrives in order and undamaged until the  *)
(* link goes down.  After the agent closes it, the coordinator still reads *)
(* what was sent before; after a reset it reads nothing more.  A thread    *)
(* may be arbitrarily late, so an old connection's last messages, and its  *)
(* end, can be seen after a newer connection's first ones.                 *)
(*                                                                         *)
(* A send that times out half-way leaves a torn frame on the connection;   *)
(* module Framing shows what the decoder makes of it, here it is a message *)
(* behind which nothing more can be read.                                  *)
(*                                                                         *)
(* Left out: the coordinator's restart (module Recovery) and replies an    *)
(* agent does not act on (everything but the answers to HELLO and          *)
(* REGISTER).                                                              *)
(***************************************************************************)
EXTENDS FleetState, SequencesExt

CONSTANTS
  Conns,              \* connections that exist at the same time
  NoConnection,       \* what an agent without one has
  heartbeat_timeout,  \* Options::heartbeat_timeout_ms
  AgentProbes,        \* probe results a backend may give
  Failures,           \* which of the FailureKinds may happen
  MaxInbox,           \* bound on messages under way on one connection
  MaxObsGen           \* bound on an agent's observation generation

FailureKinds == {"kill", "reset", "timeout", "backend", "torn_snapshot", "torn_heartbeat"}

ASSUME ClusterAssumption ==
  /\ NoConnection \notin Conns
  /\ heartbeat_timeout \in Nat
  /\ AgentProbes \subseteq DeviceProbe
  /\ Failures \subseteq FailureKinds
  /\ MaxInbox \in Nat \ {0} /\ MaxObsGen \in Nat

WorkerOf(b) == CHOOSE w \in Workers : b \in BootsOf[w]

(* The batch process b publishes: one header for all the devices it could  *)
(* probe, each with a probe of its own.                                    *)
BatchOf(b, e, gen, at, probed) ==
  LET order == SetToSeq(DOMAIN probed) IN
  [i \in DOMAIN order |->
     [dev |-> order[i], worker |-> WorkerOf(b), boot |-> b, epoch |-> e, obs_gen |-> gen,
      device_gen |-> gen, health_gen |-> 1, observed_at |-> at, probe |-> probed[order[i]]]]

MayFail(kind) == kind \in Failures

(* What enumerate and probe may come to: a result for every device of the  *)
(* host or, if the backend can fail, for some of them only.                *)
Probings(b) ==
  UNION {[S -> AgentProbes] : S \in {T \in SUBSET DevicesOf[WorkerOf(b)] :
                                       T # {} /\ (MayFail("backend") \/ T = DevicesOf[WorkerOf(b)])}}

(* Among the batches the store may be sent are all that agents publish.    *)
ASSUME PublishableAssumption ==
  \A b \in Boots, e \in 1..MaxEpoch, gen \in 1..MaxObsGen, at \in 1..MaxTime :
    \A probed \in Probings(b) : BatchOf(b, e, gen, at, probed) \in Batches

VARIABLES
  agents,    \* the agent processes
  conns,     \* the connections, each with the coordinator's end of it
  suspects   \* workers liveness_loop found overdue and has yet to mark

clusterVars == <<vars, agents, conns, suspects>>

(* Where an agent is in reconnect_loop: not launched, about to connect,    *)
(* waiting for the answer to HELLO or to REGISTER, about to publish, about *)
(* to read what came in and send a heartbeat, or killed.                   *)
AgentPC == {"off", "connect", "hello", "register", "publish", "beat", "dead"}

Agent == [pc : AgentPC, conn : Conns \cup {NoConnection}, last_known_epoch : 0..MaxEpoch,
          reg_gen : 1..MaxRegGen + 1, obs_gen : 1..MaxObsGen + 1]

NewAgent == [pc |-> "off", conn |-> NoConnection, last_known_epoch |-> 0, reg_gen |-> 1, obs_gen |-> 1]

(* What the decoder sees of a message of which only a part was sent.       *)
Torn == [type |-> "TORN"]

Message ==
  [type : {"HELLO", "TORN"}]
    \cup [type : {"REGISTER"}, reg : Registrations]
    \cup [type : {"DEVICE_SNAPSHOT"}, obs : Batches]
    \cup [type : {"HEARTBEAT"}, epoch : 1..MaxEpoch]

(* A connection: its agent, what is under way to the coordinator, the      *)
(* answer an agent waits for, whether the link is up, whether the          *)
(* coordinator's thread still serves it, and worker_bound.                 *)
Connection ==
  [boot : Boots \cup {0}, inbox : Seq(Message), up : BOOLEAN, served : BOOLEAN,
   reply : {"none", "hello", "accepted", "refused"}, ack_epoch : 0..MaxEpoch,
   worker_bound : BOOLEAN]

NoConn == [boot |-> 0, inbox |-> <<>>, reply |-> "none", ack_epoch |-> 0,
           up |-> FALSE, served |-> FALSE, worker_bound |-> FALSE]

ClusterInit ==
  /\ Init
  /\ agents = [b \in Boots |-> NewAgent]
  /\ conns = [c \in Conns |-> NoConn]
  /\ suspects = {}

-----------------------------------------------------------------------------
(* The agent *)

(* A process starts with a boot id newer than every earlier one of its     *)
(* worker id; the earlier process may still be running.                    *)
Launch(b) ==
  /\ agents[b].pc = "off"
  /\ \A a \in BootsOf[WorkerOf(b)] : a < b => agents[a].pc # "off"
  /\ agents' = [agents EXCEPT ![b].pc = "connect"]
  /\ UNCHANGED <<vars, conns, suspects>>

(* External: connection slots are reused once both ends are done with them.*)
Free(c) == ~conns[c].served /\ \A b \in Boots : agents[b].conn # c

(* External: send_all.  On a link that is down the bytes go nowhere, and   *)
(* the agent learns of it only when it next reads.                         *)
Sent(conn, m) == IF conn.up THEN [conn EXCEPT !.inbox = Append(@, m), !.reply = "none"]
                            ELSE conn

(* TcpStream::connect and the HELLO that opens connect_and_register.       *)
Connect(b, c) ==
  /\ agents[b].pc = "connect"
  /\ agents[b].reg_gen <= MaxRegGen
  /\ Free(c)
  /\ agents' = [agents EXCEPT ![b].pc = "hello", ![b].conn = c]
  /\ conns' = [conns EXCEPT ![c] = Sent([NoConn EXCEPT !.boot = b, !.up = TRUE,
                                                       !.served = TRUE],
                                        [type |-> "HELLO"])]
  /\ UNCHANGED <<vars, suspects>>

Conn(b) == conns[agents[b].conn]

(* The registration an agent sends, and what its backend enumerates.       *)
AgentRegistration(b, e, ids) ==
  [worker |-> WorkerOf(b), boot |-> b, reg_gen |-> agents[b].reg_gen, epoch |-> e,
   protocol |-> 1, enumerated |-> ids]

(* The answer to HELLO is in: the agent notes the epoch and registers.     *)
SendRegister(b, ids) ==
  /\ agents[b].pc = "hello"
  /\ Conn(b).reply = "hello"
  /\ agents' = [agents EXCEPT ![b].pc = "register",
                              ![b].last_known_epoch = Conn(b).ack_epoch]
  /\ conns' = [conns EXCEPT ![agents[b].conn] =
                 Sent(@, [type |-> "REGISTER",
                          reg |-> AgentRegistration(b, Conn(b).ack_epoch, ids)])]
  /\ UNCHANGED <<vars, suspects>>

(* The registration was accepted: the registration generation moves on.    *)
Registered(b) ==
  /\ agents[b].pc = "register"
  /\ Conn(b).reply = "accepted"
  /\ agents' = [agents EXCEPT ![b].pc = "publish", ![b].reg_gen = @ + 1]
  /\ UNCHANGED <<vars, conns, suspects>>

(* stream.close(): the agent will try again on a new connection.           *)
CloseAndRetry(b) ==
  /\ agents' = [agents EXCEPT ![b].pc = "connect", ![b].conn = NoConnection]
  /\ conns' = [conns EXCEPT ![agents[b].conn].up = FALSE]
  /\ UNCHANGED <<vars, suspects>>

(* connect_and_register fails: the registration is refused, the link is    *)
(* down, or read_one_message runs out of patience.                         *)
RegistrationFails(b) ==
  /\ \/ agents[b].pc = "register" /\ Conn(b).reply = "refused"
     \/ agents[b].pc \in {"hello", "register"} /\ ~Conn(b).up
     \/ agents[b].pc \in {"hello", "register"} /\ Conn(b).reply = "none" /\ MayFail("timeout")
  /\ CloseAndRetry(b)

AgentBatch(b, probed) ==
  BatchOf(b, agents[b].last_known_epoch, agents[b].obs_gen, now, probed)

(* The next batch is published under the same generation. *)
Mut_PublishSnapshot_same_generation(b, probed) ==
  /\ agents[b].pc = "publish"
  /\ Len(Conn(b).inbox) < MaxInbox
  /\ agents' = [agents EXCEPT ![b].pc = "beat"]
  /\ conns' = [conns EXCEPT ![agents[b].conn] =
                 Sent(@, [type |-> "DEVICE_SNAPSHOT", obs |-> AgentBatch(b, probed)])]
  /\ UNCHANGED <<vars, suspects>>

(* publish_snapshot: the generations move on whether or not it was sent.   *)
PublishSnapshot(b, probed) ==
  /\ agents[b].pc = "publish"
  /\ agents[b].obs_gen <= MaxObsGen
  /\ Len(Conn(b).inbox) < MaxInbox
  /\ agents' = [agents EXCEPT ![b].pc = "beat", ![b].obs_gen = @ + 1]
  /\ conns' = [conns EXCEPT ![agents[b].conn] =
                 Sent(@, [type |-> "DEVICE_SNAPSHOT", obs |-> AgentBatch(b, probed)])]
  /\ UNCHANGED <<vars, suspects>>

(* publish_snapshot has nothing to send: enumerate fails or no probe       *)
(* succeeds.  Also what is left to an agent at the bound MaxObsGen.        *)
PublishNothing(b) ==
  /\ agents[b].pc = "publish"
  /\ MayFail("backend") \/ Probings(b) = {} \/ agents[b].obs_gen > MaxObsGen
  /\ agents' = [agents EXCEPT ![b].pc = "beat"]
  /\ UNCHANGED <<vars, conns, suspects>>

(* Nothing came in that matters; send_heartbeat.  Answers, refusals among  *)
(* them, are read and ignored (handle_admin).                              *)
SendHeartbeat(b) ==
  /\ agents[b].pc = "beat"
  /\ Len(Conn(b).inbox) < MaxInbox
  /\ agents' = [agents EXCEPT ![b].pc = "publish"]
  /\ conns' = [conns EXCEPT ![agents[b].conn] =
                 Sent(@, [type |-> "HEARTBEAT", epoch |-> agents[b].last_known_epoch])]
  /\ UNCHANGED <<vars, suspects>>

(* Reading finds the link down.                                            *)
NoticeBroken(b) ==
  /\ agents[b].pc = "beat"
  /\ ~Conn(b).up
  /\ CloseAndRetry(b)

(* A snapshot or a heartbeat gets out only in part.  Nobody looks at the   *)
(* result of the send: the agent goes on as if all of it had.              *)
TornSnapshot(b) ==
  /\ MayFail("torn_snapshot")
  /\ agents[b].pc = "publish" /\ Conn(b).up
  /\ agents[b].obs_gen <= MaxObsGen
  /\ Len(Conn(b).inbox) < MaxInbox
  /\ agents' = [agents EXCEPT ![b].pc = "beat", ![b].obs_gen = @ + 1]
  /\ conns' = [conns EXCEPT ![agents[b].conn] = Sent(@, Torn)]
  /\ UNCHANGED <<vars, suspects>>

TornHeartbeat(b) ==
  /\ MayFail("torn_heartbeat")
  /\ agents[b].pc = "beat" /\ Conn(b).up
  /\ Len(Conn(b).inbox) < MaxInbox
  /\ agents' = [agents EXCEPT ![b].pc = "publish"]
  /\ conns' = [conns EXCEPT ![agents[b].conn] = Sent(@, Torn)]
  /\ UNCHANGED <<vars, suspects>>

(* The process is killed; its operating system closes the connection.      *)
Kill(b) ==
  /\ MayFail("kill")
  /\ agents[b].pc \notin {"off", "dead"}
  /\ agents' = [agents EXCEPT ![b].pc = "dead", ![b].conn = NoConnection]
  /\ conns' = [c \in Conns |-> IF c = agents[b].conn THEN [conns[c] EXCEPT !.up = FALSE]
                                                     ELSE conns[c]]
  /\ UNCHANGED <<vars, suspects>>

(* External: the network resets a connection and drops what was under way. *)
ResetConn(c) ==
  /\ MayFail("reset")
  /\ conns[c].up
  /\ conns' = [conns EXCEPT ![c].up = FALSE, ![c].inbox = <<>>, ![c].reply = "none"]
  /\ UNCHANGED <<vars, agents, suspects>>

-----------------------------------------------------------------------------
(* The coordinator *)

Receives(c, type) ==
  conns[c].served /\ conns[c].inbox # <<>> /\ Head(conns[c].inbox).type = type

(* The rest of the inbox, and the answer if the agent can still read it.   *)
Answered(conn, reply) ==
  [conn EXCEPT !.inbox = Tail(@), !.reply = IF conn.up THEN reply ELSE @]

(* The answer to HELLO does not say the epoch. *)
Mut_HandleHello_no_epoch(c) ==
  /\ Receives(c, "HELLO")
  /\ conns' = [conns EXCEPT ![c] = Answered(@, "hello")]
  /\ UNCHANGED <<vars, agents, suspects>>

(* The answer to HELLO announces the epoch after the current one. *)
Mut_HandleHello_next_epoch(c) ==
  /\ Receives(c, "HELLO")
  /\ conns' = [conns EXCEPT ![c] = [Answered(@, "hello") EXCEPT !.ack_epoch = epoch + 1]]
  /\ UNCHANGED <<vars, agents, suspects>>

HandleHello(c) ==
  /\ Receives(c, "HELLO")
  /\ conns' = [conns EXCEPT ![c] = [Answered(@, "hello") EXCEPT !.ack_epoch = epoch]]
  /\ UNCHANGED <<vars, agents, suspects>>

(* No connection is ever bound to the worker registered on it. *)
Mut_HandleRegister_binds_never(c) ==
  LET reg == Head(conns[c].inbox).reg
      accepted == CanReaffirm(reg) \/ CanAdmit(reg)
  IN  /\ Receives(c, "REGISTER")
      /\ IF accepted THEN RegisterWorker(reg) ELSE UNCHANGED vars
      /\ conns' = [conns EXCEPT ![c] = Answered(@, IF accepted THEN "accepted" ELSE "refused")]
      /\ UNCHANGED <<agents, suspects>>

(* dispatch of REGISTER, then the binding of the connection to the worker  *)
(* id, whether or not the store accepted the registration.                 *)
HandleRegister(c) ==
  LET reg == Head(conns[c].inbox).reg
      accepted == CanReaffirm(reg) \/ CanAdmit(reg)
  IN  /\ Receives(c, "REGISTER")
      /\ IF accepted THEN RegisterWorker(reg) ELSE UNCHANGED vars
      /\ conns' = [conns EXCEPT ![c] =
                     [Answered(@, IF accepted THEN "accepted" ELSE "refused")
                        EXCEPT !.worker_bound = TRUE]]
      /\ UNCHANGED <<agents, suspects>>

HandleSnapshot(c) ==
  LET w == WorkerOf(conns[c].boot) IN
  /\ Receives(c, "DEVICE_SNAPSHOT")
  /\ IF CanIngest(w) THEN IngestSnapshot(w, Head(conns[c].inbox).obs) ELSE UNCHANGED vars
  /\ conns' = [conns EXCEPT ![c].inbox = Tail(@)]
  /\ UNCHANGED <<agents, suspects>>

HandleHeartbeat(c) ==
  LET w == WorkerOf(conns[c].boot)
      e == Head(conns[c].inbox).epoch
  IN  /\ Receives(c, "HEARTBEAT")
      /\ IF CanHeartbeat(w, conns[c].boot, e) THEN Heartbeat(w, conns[c].boot, e)
                                              ELSE UNCHANGED vars
      /\ conns' = [conns EXCEPT ![c].inbox = Tail(@)]
      /\ UNCHANGED <<agents, suspects>>

HandleMessage(c) ==
  HandleHello(c) \/ HandleRegister(c) \/ HandleSnapshot(c) \/ HandleHeartbeat(c)

MarkLostIfKnown(w) == IF workers[w].registered THEN MarkWorkerLost(w) ELSE UNCHANGED vars

(* handle_connection meets a frame it cannot decode: it answers ERROR and  *)
(* returns, past the code that marks the worker lost.  The decoder notices *)
(* the damage only with the bytes that follow it.                          *)
DropConnection(c) ==
  /\ Receives(c, "TORN")
  /\ Len(conns[c].inbox) > 1
  /\ conns' = [conns EXCEPT ![c] = NoConn]
  /\ UNCHANGED <<vars, agents, suspects>>

(* Nothing is left to read, but for a frame that will never be complete.   *)
AtEnd(conn) ==
  conn.served /\ ~conn.up /\ (conn.inbox = <<>> \/ conn.inbox = <<Torn>>)

(* The connection is forgotten without a word to the store. *)
Mut_ConnectionEnds_unmarked(c) ==
  /\ AtEnd(conns[c])
  /\ conns' = [conns EXCEPT ![c] = NoConn]
  /\ UNCHANGED <<vars, agents, suspects>>

(* handle_connection leaves its loop.  The worker id last registered on    *)
(* the connection is marked lost, whichever incarnation holds it by now.   *)
ConnectionEnds(c) ==
  /\ AtEnd(conns[c])
  /\ conns' = [conns EXCEPT ![c] = NoConn]
  /\ IF conns[c].worker_bound THEN MarkLostIfKnown(WorkerOf(conns[c].boot))
                              ELSE UNCHANGED vars
  /\ UNCHANGED <<agents, suspects>>

Overdue(wr) ==
  /\ wr.registered /\ Active(wr)
  /\ wr.last_heartbeat # kInvalidTimestamp
  /\ now - wr.last_heartbeat > heartbeat_timeout

(* liveness_loop copies the state and picks the overdue workers ...        *)
CheckHeartbeats ==
  /\ suspects = {}
  /\ suspects' = {w \in Workers : Overdue(workers[w])}
  /\ suspects' # {}
  /\ UNCHANGED <<vars, agents, conns>>

(* The worker's record is marked, its devices are forgotten. *)
Mut_MarkSuspect_record_only(w) ==
  /\ w \in suspects
  /\ suspects' = suspects \ {w}
  /\ workers' = [workers EXCEPT ![w] = [@ EXCEPT !.lost = TRUE, !.alive = FALSE,
                                                 !.fenced = TRUE]]
  /\ UNCHANGED <<epoch, fleet_gen, devices, now, agents, conns>>

(* ... and marks them one by one, without looking at the store again.      *)
MarkSuspect(w) ==
  /\ w \in suspects
  /\ suspects' = suspects \ {w}
  /\ MarkLostIfKnown(w)
  /\ UNCHANGED <<agents, conns>>

(* An operator's EPOCH_ROLL, DRAIN, UNDRAIN, QUARANTINE, CLEAR_QUARANTINE. *)
Operator ==
  /\ \/ \E ne \in 1..MaxEpoch : RollEpoch(ne)
     \/ \E d \in Devices, level \in DrainLevels : SetDrain(d, level)
     \/ \E d \in Devices, g \in QuarantineGens : SetQuarantine(d, g)
     \/ \E d \in Devices : ClearQuarantine(d, epoch)
  /\ UNCHANGED <<agents, conns, suspects>>

TimePasses == Tick /\ UNCHANGED <<agents, conns, suspects>>

-----------------------------------------------------------------------------
AgentStep(b) ==
  \/ \E c \in Conns : Connect(b, c)
  \/ \E ids \in Enumerations(WorkerOf(b)) : SendRegister(b, ids)
  \/ Registered(b)
  \/ RegistrationFails(b)
  \/ \E probed \in Probings(b) : PublishSnapshot(b, probed)
  \/ PublishNothing(b)
  \/ SendHeartbeat(b)
  \/ NoticeBroken(b)

ServeConn(c) == HandleMessage(c) \/ DropConnection(c) \/ ConnectionEnds(c)

WatchLiveness == CheckHeartbeats \/ \E w \in Workers : MarkSuspect(w)

ClusterNext ==
  \/ \E b \in Boots : Launch(b) \/ AgentStep(b) \/ TornSnapshot(b) \/ TornHeartbeat(b) \/ Kill(b)
  \/ \E c \in Conns : ServeConn(c) \/ ResetConn(c)
  \/ WatchLiveness
  \/ Operator
  \/ TimePasses

ClusterSpec == ClusterInit /\ [][ClusterNext]_clusterVars

(* Every thread and every process keeps running: a connection thread reads *)
(* what arrives, liveness_loop and the agent's loop come round again; and  *)
(* time passes.  Nothing makes an operator act, a process start or die, or *)
(* a link fail.                                                            *)
Fairness ==
  /\ \A b \in Boots : WF_clusterVars(AgentStep(b))
  /\ \A c \in Conns : WF_clusterVars(ServeConn(c))
  /\ WF_clusterVars(WatchLiveness)
  /\ WF_clusterVars(TimePasses)

FairClusterSpec == ClusterSpec /\ Fairness

-----------------------------------------------------------------------------
(* Properties *)

ClusterTypeOK ==
  /\ agents \in [Boots -> Agent]
  /\ conns \in [Conns -> Connection]
  /\ \A c \in Conns : Len(conns[c].inbox) <= MaxInbox
  /\ suspects \subseteq Workers

(* Everything agents, connections and threads do to the fleet store is     *)
(* what the store's own specification allows.                              *)
ImplementsStore == Spec

(* A thread still serves a connection on which d's incarnation registered, *)
(* so the end of that connection will be seen.                             *)
Watched(d) ==
  \E c \in Conns : /\ conns[c].served /\ conns[c].worker_bound
                   /\ conns[c].boot = devices[d].boot

(* Whatever is current is being watched: the end of the connection will    *)
(* take the device down.  Where backends enumerate in full and no send is  *)
(* cut short, resets, late threads and reconnects leave no fresh device    *)
(* behind.                                                                 *)
FreshIsWatched == \A d \in Devices : devices[d].fresh => Watched(d)

(* The watch over a current device is kept, whatever backends enumerate    *)
(* and wherever sends are cut short: no step makes a device fresh without  *)
(* a served connection behind it, and none takes away the last one of a    *)
(* device with a live source and leaves it fresh.  The one exception is    *)
(* handle_connection's return on an undecodable frame.                     *)
WatchIsKept ==
  [][\A d \in Devices :
       devices'[d].fresh /\ (devices[d].fresh => HasSource(d) /\ Watched(d))
         => \/ Watched(d)'
            \/ \E c \in Conns : DropConnection(c) /\ conns[c].boot = devices[d].boot]_clusterVars

(* The agent's generations stay ahead of what the coordinator holds of     *)
(* this incarnation, so its next observation is never taken for a repeated *)
(* one; a registration generation is at most reused after a lost answer.   *)
AgentAhead ==
  \A b \in Boots :
    /\ \A d \in Devices : devices[d].boot = b => devices[d].obs_gen < agents[b].obs_gen
    /\ workers[WorkerOf(b)].boot = b => workers[WorkerOf(b)].reg_gen <= agents[b].reg_gen

(* "kills a worker as a real OS process, marks its observations lost"      *)
(* (README): nothing a dead process reported stays fresh for ever, even    *)
(* when the coordinator has dropped its connection without a word and only *)
(* the heartbeat timeout is left.  A heartbeat too close to the bound of   *)
(* the clock cannot become overdue.                                        *)
DeadGoesDown ==
  \A b \in Boots : agents[b].pc = "dead" ~>
    \/ \A d \in Devices : devices[d].boot = b => ~devices[d].fresh
    \/ workers[WorkerOf(b)].last_heartbeat + heartbeat_timeout >= MaxTime

(* Handshake and loop make progress: a launched agent gets its devices     *)
(* observed, whatever the order its thread and the coordinator's threads   *)
(* run in, unless it is killed, so slow that it is fenced as overdue, or a *)
(* second process of its worker id is launched.                            *)
LaunchedIsObserved ==
  \A b \in Boots : agents[b].pc # "off" ~>
    \/ \A d \in DevicesOf[WorkerOf(b)] : devices[d].fresh /\ devices[d].boot = b
    \/ agents[b].pc = "dead"
    \/ workers[WorkerOf(b)].boot = b /\ workers[WorkerOf(b)].fenced
    \/ \E a \in BootsOf[WorkerOf(b)] \ {b} : agents[a].pc # "off"

-----------------------------------------------------------------------------
(* A statement of the repository that the cluster does not keep *)

(* "Network behavior handles ... reconnect" (README): an agent that is     *)
(* registered on a working link is authoritative, sooner or later, or the  *)
(* link fails again.                                                       *)
ReconnectRegainsAuthority ==
  \A b \in Boots :
    agents[b].pc \in {"publish", "beat"} ~>
      \/ workers[WorkerOf(b)].boot = b /\ Authoritative(WorkerOf(b))
      \/ agents[b].pc \notin {"publish", "beat"}
=============================================================================
