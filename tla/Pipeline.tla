----------------------------- MODULE Pipeline ------------------------------
(***************************************************************************)
(* The threads that carry packets from the capture to the detector         *)
(* (src/main.rs, src/capture/mod.rs): producer, router, aggregator         *)
(* workers, the main thread that trains and then joins, and the inference  *)
(* thread, with their channels and the shared `running` flag.              *)
(*                                                                         *)
(* Every thread is a loop that loads `running`, then waits on a channel:   *)
(* the flag may change between the two, and a blocking send does not look  *)
(* at it.  A packet is its flow and its number within the flow; what a     *)
(* worker does with it is module FlowTable.  MaxPackets bounds the run.    *)
(***************************************************************************)
EXTENDS Naturals, Sequences, FiniteSets

CONSTANTS Workers,         \* the aggregator threads
          Flows,           \* flow keys
          Route,           \* the worker each key hashes to
          Sources,         \* capture sources: "mock", "zero", "pcap", "live"
          Rooms,           \* slot capacities a worker's flow table may get
          ProducerQueue,   \* bounded(30000)
          WorkerQueue,     \* bounded(20000)
          TrainingSamples,
          MaxPackets       \* packets captured per flow

ASSUME PipelineAssumption ==
  /\ IsFiniteSet(Workers)
  /\ Route \in [Flows -> Workers]
  /\ Sources \subseteq {"mock", "zero", "pcap", "live"}
  /\ Rooms \subseteq Nat
  /\ ProducerQueue \in Nat \ {0} /\ WorkerQueue \in Nat \ {0}
  /\ TrainingSamples \in Nat \ {0, 1}
  /\ MaxPackets \in Nat

VARIABLES source, room,        \* configuration: fixed in Init
          running,             \* the AtomicBool all threads poll
          producer, router, worker, inference, main,   \* where each thread is
          draft,               \* the packet the producer is about to send
          routing,             \* the packet the router has received
          working,             \* the packet each worker has received
          toRouter, toWorker, toInference,             \* the channels
          packet_counter,      \* packets routed
          samples,             \* metrics collected for training
          sent,                \* history: packets captured of each flow,
          tables,              \*   what each worker's flow table was given,
          consumed             \*   metrics of each flow trained on or judged

captured == <<producer, draft, sent>>
routed == <<router, routing, packet_counter>>
worked == <<worker, working, tables>>
judged == <<inference, main, samples, consumed>>
vars == <<source, room, running, captured, routed, worked, judged,
          toRouter, toWorker, toInference>>

Packet == [flow : Flows, num : 1 .. MaxPackets]

NoPacket == << >>

\* Mutant of Listening: a receiver kept elsewhere outlives the thread.
ListeningForever(w) == TRUE

\* The receiving end of a worker's channel is dropped with its thread.
Listening(w) == worker[w] \notin {"done", "dead"}

Init ==
  /\ source \in Sources /\ room \in Rooms
  /\ running = TRUE
  /\ producer = IF source = "pcap" THEN "read" ELSE "check"
  /\ router = "check" /\ worker = [w \in Workers |-> "check"]
  /\ inference = "unborn" /\ main = "load"
  /\ draft = NoPacket /\ routing = NoPacket
  /\ working = [w \in Workers |-> NoPacket]
  /\ toRouter = <<>> /\ toWorker = [w \in Workers |-> <<>>] /\ toInference = <<>>
  /\ packet_counter = 0 /\ samples = 0
  /\ sent = [f \in Flows |-> 0]
  /\ tables = [w \in Workers |-> [f \in Flows |-> <<>>]]
  /\ consumed = [f \in Flows |-> <<>>]

\* ctrlc::set_handler: at any moment.
Interrupt ==
  /\ running
  /\ running' = FALSE
  /\ UNCHANGED <<source, room, captured, routed, worked, judged,
                 toRouter, toWorker, toInference>>

-----------------------------------------------------------------------------
(* The producer.  The mock and live sources load `running` between packets *)
(* (mock: between batches); the pcap reader never does.                    *)

ProducerCheck ==
  /\ producer = "check" /\ source \in {"mock", "live"}
  /\ producer' = IF running THEN "read" ELSE "end"
  /\ UNCHANGED <<draft, sent, running, toRouter>>

ProducerEvent ==
  /\ producer = "read"
  /\ \E f \in Flows :
       /\ sent[f] < MaxPackets
       /\ draft' = [flow |-> f, num |-> sent[f] + 1]
       /\ sent' = [sent EXCEPT ![f] = @ + 1]
  /\ producer' = "send"
  /\ UNCHANGED <<running, toRouter>>

\* Mutant of ProducerSend: an unbounded channel.
ProducerSendUnbounded ==
  /\ producer = "send"
  /\ toRouter' = Append(toRouter, draft)
  /\ draft' = NoPacket
  /\ producer' = "read"
  /\ UNCHANGED <<sent, running>>

\* The blocking send: main holds a receiver, so it never fails.
ProducerSend ==
  /\ producer = "send"
  /\ Len(toRouter) < ProducerQueue
  /\ toRouter' = Append(toRouter, draft)
  /\ draft' = NoPacket
  /\ producer' \in CASE source = "mock" -> {"read", "check"}  \* within a batch or after it
                     [] source = "live" -> {"check"}
                     [] OTHER           -> {"read"}
  /\ UNCHANGED <<sent, running>>

\* A live read times out or yields nothing to parse; or the bound is reached
\* and the source stays quiet.
ProducerQuiet ==
  /\ producer = "read"
  /\ source = "live" \/ (source = "mock" /\ \A f \in Flows : sent[f] = MaxPackets)
  /\ producer' = "check"
  /\ UNCHANGED <<draft, sent, running, toRouter>>

\* End of the file, or an error of the file or of the device.
ProducerEnds ==
  /\ producer = "read" /\ source \in {"pcap", "live"}
  /\ producer' = "end"
  /\ UNCHANGED <<draft, sent, running, toRouter>>

\* However the capture returned, the whole system is told to stop.
ProducerStops ==
  /\ producer = "end"
  /\ running' = FALSE
  /\ producer' = "done"
  /\ UNCHANGED <<draft, sent, toRouter>>

\* pps = 0 divides by zero, flows = 0 takes a remainder by zero: the thread
\* panics without clearing the flag.
ProducerPanics ==
  /\ producer = "check" /\ source = "zero"
  /\ producer' = "done"
  /\ UNCHANGED <<draft, sent, running, toRouter>>

Producer ==
  /\ \/ ProducerCheck \/ ProducerEvent \/ ProducerSend \/ ProducerQuiet
     \/ ProducerEnds \/ ProducerStops \/ ProducerPanics
  /\ UNCHANGED <<source, room, routed, worked, judged, toWorker, toInference>>

-----------------------------------------------------------------------------
\* Mutant of RouterCheck: the router drains its channel before it exits.
RouterCheckDrains ==
  /\ router = "check"
  /\ router' = IF running \/ toRouter # <<>> THEN "receive" ELSE "done"
  /\ UNCHANGED <<routing, packet_counter, toRouter, toWorker>>

RouterCheck ==
  /\ router = "check"
  /\ router' = IF running THEN "receive" ELSE "done"
  /\ UNCHANGED <<routing, packet_counter, toRouter, toWorker>>

RouterReceive ==
  /\ router = "receive" /\ toRouter # <<>>
  /\ routing' = Head(toRouter)
  /\ toRouter' = Tail(toRouter)
  /\ router' = "send"
  /\ UNCHANGED <<packet_counter, toWorker>>

\* recv_timeout: 50 ms without a packet, or the producer is gone.
RouterTimeout ==
  /\ router = "receive" /\ toRouter = <<>>
  /\ router' = "check"
  /\ UNCHANGED <<routing, packet_counter, toRouter, toWorker>>

\* Mutant of Target: round robin over the packets instead of the key's hash.
TargetRoundRobin(p) ==
  IF p.num % 2 = 1 THEN CHOOSE w \in Workers : w # Route[p.flow] ELSE Route[p.flow]

Target(p) == Route[p.flow]

\* Mutant of RouterSend: try_send, which drops the packet when there is no room.
RouterTrySend ==
  LET w == Target(routing) IN
  /\ router = "send" /\ Listening(w)
  /\ toWorker' = IF Len(toWorker[w]) < WorkerQueue
                   THEN [toWorker EXCEPT ![w] = Append(@, routing)] ELSE toWorker
  /\ routing' = NoPacket
  /\ router' = "count"
  /\ UNCHANGED <<packet_counter, toRouter>>

\* The blocking send to the flow's worker.
RouterSend ==
  LET w == Target(routing) IN
  /\ router = "send" /\ Listening(w)
  /\ Len(toWorker[w]) < WorkerQueue
  /\ toWorker' = [toWorker EXCEPT ![w] = Append(@, routing)]
  /\ routing' = NoPacket
  /\ router' = "count"
  /\ UNCHANGED <<packet_counter, toRouter>>

\* The count follows the send: the worker may be done with the packet before.
RouterCount ==
  /\ router = "count"
  /\ packet_counter' = packet_counter + 1
  /\ router' = "check"
  /\ UNCHANGED <<routing, toRouter, toWorker>>

\* The send fails because the worker is gone: the packet is dropped.
RouterDrop ==
  /\ router = "send" /\ ~ Listening(Target(routing))
  /\ routing' = NoPacket
  /\ router' = "check"
  /\ UNCHANGED <<packet_counter, toRouter, toWorker>>

Router ==
  /\ RouterCheck \/ RouterReceive \/ RouterTimeout \/ RouterSend \/ RouterCount \/ RouterDrop
  /\ UNCHANGED <<source, room, running, captured, worked, judged, toInference>>

-----------------------------------------------------------------------------
\* The packets still queued are dropped with the thread that exits.
WorkerCheck(w) ==
  /\ worker[w] = "check"
  /\ worker' = [worker EXCEPT ![w] = IF running THEN "receive" ELSE "done"]
  /\ toWorker' = IF running THEN toWorker ELSE [toWorker EXCEPT ![w] = <<>>]
  /\ UNCHANGED <<working, tables, toInference>>

WorkerReceive(w) ==
  /\ worker[w] = "receive" /\ toWorker[w] # <<>>
  /\ working' = [working EXCEPT ![w] = Head(toWorker[w])]
  /\ toWorker' = [toWorker EXCEPT ![w] = Tail(@)]
  /\ worker' = [worker EXCEPT ![w] = "work"]
  /\ UNCHANGED <<tables, toInference>>

\* Mutant of WorkerTimeout: `while let Ok(event)` instead of `if let`.
WorkerTimeoutExits(w) ==
  /\ worker[w] = "receive" /\ toWorker[w] = <<>>
  /\ worker' = [worker EXCEPT ![w] = "done"]
  /\ UNCHANGED <<working, tables, toWorker, toInference>>

WorkerTimeout(w) ==
  /\ worker[w] = "receive" /\ toWorker[w] = <<>>
  /\ worker' = [worker EXCEPT ![w] = "check"]
  /\ UNCHANGED <<working, tables, toWorker, toInference>>

\* process_packet, then the send to the unbounded channel, whose failure is
\* ignored: the inference thread may have exited.
WorkerProcess(w) ==
  LET p == working[w] IN
  /\ worker[w] = "work" /\ room > 0
  /\ tables' = [tables EXCEPT ![w][p.flow] = Append(@, p.num)]
  /\ toInference' = IF inference = "done" THEN toInference ELSE Append(toInference, p)
  /\ working' = [working EXCEPT ![w] = NoPacket]
  /\ worker' = [worker EXCEPT ![w] = "check"]
  /\ UNCHANGED toWorker

\* process_packet panics on a new flow when the table has no room for any
\* (PanicsOnlyWithoutRoom of FlowTable).
WorkerPanics(w) ==
  /\ worker[w] = "work" /\ room = 0
  /\ worker' = [worker EXCEPT ![w] = "dead"]
  /\ working' = [working EXCEPT ![w] = NoPacket]
  /\ toWorker' = [toWorker EXCEPT ![w] = <<>>]
  /\ UNCHANGED <<tables, toInference>>

Worker(w) ==
  /\ \/ WorkerCheck(w) \/ WorkerReceive(w) \/ WorkerTimeout(w)
     \/ WorkerProcess(w) \/ WorkerPanics(w)
  /\ UNCHANGED <<source, room, running, captured, routed, judged, toRouter>>

-----------------------------------------------------------------------------
(* The inference thread, and the main thread before it exists.             *)

\* One metrics record is taken off the channel.
Take ==
  LET p == Head(toInference) IN
  /\ toInference # <<>>
  /\ toInference' = Tail(toInference)
  /\ consumed' = [consumed EXCEPT ![p.flow] = Append(@, p.num)]

InferenceCheck ==
  /\ inference = "check"
  /\ inference' = IF running THEN "receive" ELSE "done"
  /\ toInference' = IF running THEN toInference ELSE <<>>
  /\ UNCHANGED consumed

\* A verdict; its effects are module Mitigation.
InferenceJudge ==
  /\ inference = "receive"
  /\ Take
  /\ inference' = "check"

InferenceTimeout ==
  /\ inference = "receive" /\ toInference = <<>>
  /\ inference' = "check"
  /\ UNCHANGED <<consumed, toInference>>

Inference ==
  /\ InferenceCheck \/ InferenceJudge \/ InferenceTimeout
  /\ UNCHANGED <<source, room, running, captured, routed, worked, main, samples,
                 toRouter, toWorker>>

\* A model file was read and parsed: the detector starts at once.
MainLoads ==
  /\ main = "load"
  /\ inference' = "check" /\ main' = "join"
  /\ UNCHANGED <<running, samples, consumed, toInference>>

MainFindsNoModel ==
  /\ main = "load"
  /\ main' = "collect"
  /\ UNCHANGED <<inference, running, samples, consumed, toInference>>

\* The condition of the collection loop, and what follows the loop.
MainCollects ==
  /\ main = "collect" /\ running /\ samples < TrainingSamples
  /\ main' = "gather"
  /\ UNCHANGED <<inference, running, samples, consumed, toInference>>

MainGathers ==
  /\ main = "gather"
  /\ Take
  /\ samples' = samples + 1
  /\ main' = "collect"
  /\ UNCHANGED <<inference, running>>

MainTimeout ==
  /\ main = "gather" /\ toInference = <<>>
  /\ main' = "collect"
  /\ UNCHANGED <<inference, running, samples, consumed, toInference>>

\* Mutant of MainTrains: the metrics queued during training are discarded.
MainTrainsDrained ==
  /\ main = "collect" /\ samples >= TrainingSamples
  /\ inference' = "check" /\ main' = "join"
  /\ toInference' = <<>>
  /\ UNCHANGED <<running, samples, consumed>>

\* train_model and the write of the model file succeed.
MainTrains ==
  /\ main = "collect" /\ samples >= TrainingSamples
  /\ inference' = "check" /\ main' = "join"
  /\ UNCHANGED <<running, samples, consumed, toInference>>

MainAborts ==
  /\ main = "collect" /\ ~ running /\ samples < TrainingSamples
  /\ running' = FALSE
  /\ main' = "join"
  /\ UNCHANGED <<inference, samples, consumed, toInference>>

\* The joins return one after the other, each when its thread has finished.
Finished ==
  /\ producer = "done" /\ router = "done"
  /\ \A w \in Workers : worker[w] \in {"done", "dead"}
  /\ inference \in {"unborn", "done"}

MainJoins ==
  /\ main = "join" /\ Finished
  /\ main' = "stopped"
  /\ UNCHANGED <<inference, running, samples, consumed, toInference>>

Main ==
  /\ \/ MainLoads \/ MainFindsNoModel \/ MainCollects \/ MainGathers
     \/ MainTimeout \/ MainTrains \/ MainAborts \/ MainJoins
  /\ UNCHANGED <<source, room, captured, routed, worked, toRouter, toWorker>>

-----------------------------------------------------------------------------
Next ==
  \/ Interrupt \/ Producer \/ Router \/ Inference \/ Main
  \/ \E w \in Workers : Worker(w)

\* The scheduler runs every thread; nobody has to press Ctrl+C.
Fairness ==
  /\ WF_vars(Producer) /\ WF_vars(Router) /\ WF_vars(Inference) /\ WF_vars(Main)
  /\ \A w \in Workers : WF_vars(Worker(w))

Spec == Init /\ [][Next]_vars /\ Fairness

-----------------------------------------------------------------------------
TypeOK ==
  /\ source \in Sources /\ room \in Rooms /\ running \in BOOLEAN
  /\ producer \in {"check", "read", "send", "end", "done"}
  /\ router \in {"check", "receive", "send", "count", "done"}
  /\ worker \in [Workers -> {"check", "receive", "work", "done", "dead"}]
  /\ inference \in {"unborn", "check", "receive", "done"}
  /\ main \in {"load", "collect", "gather", "join", "stopped"}
  /\ IF producer = "send" THEN draft \in Packet ELSE draft = NoPacket
  /\ IF router = "send" THEN routing \in Packet ELSE routing = NoPacket
  /\ working \in [Workers -> Packet \union {NoPacket}]
  /\ \A w \in Workers : worker[w] = "work" <=> working[w] \in Packet
  /\ toRouter \in Seq(Packet) /\ Len(toRouter) <= ProducerQueue
  /\ toWorker \in [Workers -> Seq(Packet)]
  /\ \A w \in Workers : Len(toWorker[w]) <= WorkerQueue
  /\ toInference \in Seq(Packet)
  /\ packet_counter \in Nat /\ samples \in 0 .. TrainingSamples
  /\ sent \in [Flows -> 0 .. MaxPackets]
  /\ tables \in [Workers -> [Flows -> Seq(1 .. MaxPackets)]]
  /\ consumed \in [Flows -> Seq(1 .. MaxPackets)]

Queued(channel) == {channel[i] : i \in 1 .. Len(channel)}

Captured == {p \in Packet : p.num <= sent[p.flow]}

\* Not yet handed to a worker.
Upstream == ({draft, routing} \ {NoPacket}) \union Queued(toRouter)

\* Handed to the worker w, which has not processed them.
Waiting(w) == ({working[w]} \ {NoPacket}) \union Queued(toWorker[w])

Processed == {p \in Packet : \E i \in 1 .. Len(tables[Route[p.flow]][p.flow]) :
                               tables[Route[p.flow]][p.flow][i] = p.num}

\* As long as nobody has asked the system to stop and no worker has panicked,
\* every packet that was captured is in exactly one place (queues full, sends
\* blocked and timeouts included), and the packet counter that /api/stats and
\* the monitor report is the number of those that have reached a worker, but
\* for the one the router is about to count.
Accounting ==
  running /\ (\A w \in Workers : worker[w] # "dead") =>
    LET handed == Processed \union UNION {Waiting(w) : w \in Workers} IN
    /\ Captured = Upstream \union handed
    /\ Upstream \intersect handed = {}
    /\ \A w \in Workers : Waiting(w) \intersect Processed = {}
    /\ Cardinality(handed) = packet_counter + IF router = "count" THEN 1 ELSE 0

\* A flow's sliding window is fed by one worker, which gets the flow's packets
\* in capture order with none left out: two directions of a conversation never
\* end up in two tables, and shutdown may only cut the end off.
Windowed == INSTANCE OrderedDelivery
              WITH delivered <- [f \in Flows |-> tables[Route[f]][f]]

WindowsSeeFlowInOrder == Windowed!Spec

\* The metrics of a flow are trained on or judged in that same order, across
\* the hand-over of the channel from the training loop to the detector: a
\* verdict that blocks or unblocks an address is never older than the last.
Judged == INSTANCE OrderedDelivery WITH delivered <- consumed

VerdictsFollowFlowOrder == Judged!Spec

\* Every captured packet is evaluated in the end, unless the system is stopped
\* or a worker has died: no thread waits forever on a full or empty channel.
EveryPacketEvaluated ==
  \A f \in Flows, n \in 1 .. MaxPackets :
    sent[f] >= n ~> \/ Len(consumed[f]) >= n
                   \/ ~ running
                   \/ \E w \in Workers : worker[w] = "dead"

\* What may never reach a window, whenever and however the system is stopped, by
\* Ctrl+C or by the end of the file (main.rs:208): no more packets than the
\* channels of the producer and the workers hold, and one that each thread on the
\* way has in hand, however long the producer goes on and whoever leaves first.
\* It is no bound on the metrics that no verdict or training uses any more: their
\* channel is unbounded and dropped with the inference thread.
LossBounded ==
  (\A w \in Workers : worker[w] # "dead") =>
    Cardinality(Captured \ Processed)
      <= ProducerQueue + 2 + Cardinality(Workers) * (WorkerQueue + 1)

\* How many steps a thread may still take once the flag is cleared: to the end of
\* its round, then out of its loop.
RouterSteps ==
  CASE router = "receive" -> 4 [] router = "send" -> 3 [] router = "count" -> 2
    [] router = "check" -> 1 [] OTHER -> 0

WorkerSteps(w) ==
  CASE worker[w] = "receive" -> 3 [] worker[w] = "work" -> 2
    [] worker[w] = "check" -> 1 [] OTHER -> 0

\* The inference thread may be born after that, if main is still to start it.
InferenceSteps ==
  CASE inference = "receive" -> 2 [] inference = "check" -> 1
    [] inference = "unborn" /\ main \in {"load", "collect", "gather"} -> 1
    [] OTHER -> 0

MainSteps ==
  CASE main \in {"load", "gather"} -> 3 [] main = "collect" -> 2
    [] main = "join" -> 1 [] OTHER -> 0

StepsLeft ==
  ({<<"router">>} \X (1 .. RouterSteps)) \union ({<<"inference">>} \X (1 .. InferenceSteps))
    \union ({<<"main">>} \X (1 .. MainSteps))
    \union UNION {{<<"worker", w>>} \X (1 .. WorkerSteps(w)) : w \in Workers}

\* No thread but the producer begins another round after the flag is cleared,
\* whatever is queued and whoever leaves first: each of their steps uses up one of
\* a set that does not grow again, so shutdown cannot go round in circles.
ShutdownAdvances ==
  [][~ running => \/ StepsLeft' \subseteq StepsLeft /\ StepsLeft' # StepsLeft
                  \/ UNCHANGED <<router, worker, inference, main>>]_vars

\* "Press Ctrl+C (triggers graceful thread join)" (README.md:91): once the flag
\* is cleared, main joins every thread and returns.
GracefulShutdown == ~ running ~> main = "stopped"

\* The producer waits for room in a channel nobody reads any more, which main
\* keeps open by holding `producer_rx`.
ProducerStranded ==
  producer = "send" /\ Len(toRouter) = ProducerQueue /\ router = "done"

\* What holds instead: that is the only way a shutdown can hang.  No other
\* blocking send, receive or join stands in the way, whoever exits first.
OnlyProducerHoldsShutdown == ~ running ~> main = "stopped" \/ ProducerStranded
=============================================================================
