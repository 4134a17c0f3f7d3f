--------------------------- MODULE PipelineProofs ---------------------------
(***************************************************************************)
(* For any threads, flows, hash, queue capacities and run length: types,   *)
(* the order in which each flow's packets reach its window and the         *)
(* detector, the packet count, what a stop may lose, and that it comes to  *)
(* an end.                                                                 *)
(***************************************************************************)
EXTENDS Pipeline, SequenceTheorems, FiniteSetTheorems, TLAPS

-----------------------------------------------------------------------------
(* Types.                                                                  *)

\* The training loop asks for another sample only while some are missing, and
\* the detector is not born before it ends.
TrainingPhase ==
  /\ main = "gather" => samples < TrainingSamples
  /\ main \in {"load", "collect", "gather"} => inference = "unborn"

TypeInv == TypeOK /\ TrainingPhase

\* The empty tuple is no packet.
LEMMA NoPacketIsNone == NoPacket \notin Packet
BY DEF NoPacket, Packet

LEMMA InitType == Init => TypeInv
BY PipelineAssumption, NoPacketIsNone DEF Init, TypeInv, TypeOK, TrainingPhase

LEMMA ProducerType == TypeInv /\ Producer => TypeInv'
<1> SUFFICES ASSUME TypeInv, Producer PROVE TypeInv'
  OBVIOUS
<1> USE DEF TypeInv, TypeOK, TrainingPhase, Producer, routed, worked, judged
<1>1. CASE ProducerCheck
  BY <1>1 DEF ProducerCheck
<1>2. CASE ProducerEvent
  <2>1. PICK f \in Flows : /\ sent[f] < MaxPackets
                           /\ draft' = [flow |-> f, num |-> sent[f] + 1]
                           /\ sent' = [sent EXCEPT ![f] = @ + 1]
    BY <1>2 DEF ProducerEvent
  <2>2. draft' \in Packet /\ sent' \in [Flows -> 0 .. MaxPackets]
    <3>1. sent[f] \in 0 .. MaxPackets /\ sent[f] + 1 \in 1 .. MaxPackets
      BY <2>1, PipelineAssumption
    <3> QED
      BY <2>1, <3>1 DEF Packet
  <2> QED
    BY <1>2, <2>2 DEF ProducerEvent
<1>3. CASE ProducerSend
  <2>1. /\ Append(toRouter, draft) \in Seq(Packet)
        /\ Len(Append(toRouter, draft)) = Len(toRouter) + 1
    BY <1>3 DEF ProducerSend
  <2>2. producer' \in {"read", "check"}
    BY <1>3 DEF ProducerSend
  <2> QED
    BY <1>3, <2>1, <2>2, PipelineAssumption DEF ProducerSend
<1>4. CASE ProducerQuiet
  BY <1>4 DEF ProducerQuiet
<1>5. CASE ProducerEnds
  BY <1>5 DEF ProducerEnds
<1>6. CASE ProducerStops
  BY <1>6 DEF ProducerStops
<1>7. CASE ProducerPanics
  BY <1>7 DEF ProducerPanics
<1> QED
  BY <1>1, <1>2, <1>3, <1>4, <1>5, <1>6, <1>7

LEMMA RouterType == TypeInv /\ Router => TypeInv'
<1> SUFFICES ASSUME TypeInv, Router PROVE TypeInv'
  OBVIOUS
<1> USE DEF TypeInv, TypeOK, TrainingPhase, Router, captured, worked, judged
<1>1. CASE RouterCheck
  BY <1>1 DEF RouterCheck
<1>2. CASE RouterReceive
  <2>1. /\ Head(toRouter) \in Packet /\ Tail(toRouter) \in Seq(Packet)
        /\ Len(Tail(toRouter)) = Len(toRouter) - 1
    BY <1>2 DEF RouterReceive
  <2> QED
    BY <1>2, <2>1, PipelineAssumption DEF RouterReceive
<1>3. CASE RouterTimeout
  BY <1>3 DEF RouterTimeout
<1>4. CASE RouterSend
  <2> DEFINE w == Target(routing)
  <2>1. routing \in Packet /\ w \in Workers
    BY <1>4, PipelineAssumption DEF RouterSend, Target, Packet
  <2>2. toWorker' = [toWorker EXCEPT ![w] = Append(@, routing)] /\ Len(toWorker[w]) < WorkerQueue
    BY <1>4 DEF RouterSend
  <2>3. /\ Append(toWorker[w], routing) \in Seq(Packet)
        /\ Len(Append(toWorker[w], routing)) = Len(toWorker[w]) + 1
    BY <2>1
  <2> HIDE DEF w
  <2>4. /\ toWorker' \in [Workers -> Seq(Packet)]
        /\ \A v \in Workers : Len(toWorker'[v]) <= WorkerQueue
    BY <2>1, <2>2, <2>3, PipelineAssumption
  <2> QED
    BY <1>4, <2>4 DEF RouterSend
<1>5. CASE RouterCount
  BY <1>5 DEF RouterCount
<1>6. CASE RouterDrop
  BY <1>6 DEF RouterDrop
<1> QED
  BY <1>1, <1>2, <1>3, <1>4, <1>5, <1>6

LEMMA WorkerType == \A w \in Workers : TypeInv /\ Worker(w) => TypeInv'
<1> SUFFICES ASSUME NEW w \in Workers, TypeInv, Worker(w) PROVE TypeInv'
  OBVIOUS
<1> USE DEF TypeInv, TypeOK, TrainingPhase, Worker, captured, routed, judged
<1>1. CASE WorkerCheck(w)
  <2>1. toWorker' = toWorker \/ toWorker' = [toWorker EXCEPT ![w] = <<>>]
    BY <1>1 DEF WorkerCheck
  <2>2. /\ toWorker' \in [Workers -> Seq(Packet)]
        /\ \A v \in Workers : Len(toWorker'[v]) <= WorkerQueue
    <3>1. << >> \in Seq(Packet) /\ Len(<< >>) <= WorkerQueue
      BY EmptySeq, PipelineAssumption
    <3> QED
      BY <2>1, <3>1
  <2> QED
    BY <1>1, <2>2 DEF WorkerCheck
<1>2. CASE WorkerReceive(w)
  <2>1. /\ Head(toWorker[w]) \in Packet /\ Tail(toWorker[w]) \in Seq(Packet)
        /\ Len(Tail(toWorker[w])) = Len(toWorker[w]) - 1
    BY <1>2 DEF WorkerReceive
  <2>2. /\ toWorker' \in [Workers -> Seq(Packet)]
        /\ \A v \in Workers : Len(toWorker'[v]) <= WorkerQueue
    <3>1. toWorker' = [toWorker EXCEPT ![w] = Tail(@)] /\ Len(toWorker[w]) <= WorkerQueue
      BY <1>2 DEF WorkerReceive
    <3>2. Len(Tail(toWorker[w])) <= WorkerQueue
      BY <2>1, <3>1, PipelineAssumption
    <3> QED
      BY <2>1, <3>1, <3>2
  <2>3. /\ worker' \in [Workers -> {"check", "receive", "work", "done", "dead"}]
        /\ working' \in [Workers -> Packet \union {NoPacket}]
        /\ \A v \in Workers : worker'[v] = "work" <=> working'[v] \in Packet
    BY <1>2, <2>1 DEF WorkerReceive
  <2> QED
    BY <1>2, <2>2, <2>3 DEF WorkerReceive
<1>3. CASE WorkerTimeout(w)
  BY <1>3 DEF WorkerTimeout
<1>4. CASE WorkerProcess(w)
  <2> DEFINE p == working[w]
  <2>1. p \in Packet /\ p.flow \in Flows /\ p.num \in 1 .. MaxPackets
    BY <1>4 DEF WorkerProcess, Packet
  <2>2. Append(tables[w][p.flow], p.num) \in Seq(1 .. MaxPackets)
    BY <2>1
  <2>3. tables' \in [Workers -> [Flows -> Seq(1 .. MaxPackets)]]
    BY <1>4, <2>1, <2>2 DEF WorkerProcess
  <2>4. toInference' \in Seq(Packet)
    BY <1>4, <2>1 DEF WorkerProcess
  <2>5. /\ worker' \in [Workers -> {"check", "receive", "work", "done", "dead"}]
        /\ working' \in [Workers -> Packet \union {NoPacket}]
        /\ \A v \in Workers : worker'[v] = "work" <=> working'[v] \in Packet
    BY <1>4, NoPacketIsNone DEF WorkerProcess
  <2> QED
    BY <1>4, <2>3, <2>4, <2>5 DEF WorkerProcess
<1>5. CASE WorkerPanics(w)
  <2>1. /\ toWorker' \in [Workers -> Seq(Packet)]
        /\ \A v \in Workers : Len(toWorker'[v]) <= WorkerQueue
    BY <1>5, PipelineAssumption DEF WorkerPanics
  <2>2. /\ worker' \in [Workers -> {"check", "receive", "work", "done", "dead"}]
        /\ working' \in [Workers -> Packet \union {NoPacket}]
        /\ \A v \in Workers : worker'[v] = "work" <=> working'[v] \in Packet
    BY <1>5, NoPacketIsNone DEF WorkerPanics
  <2> QED
    BY <1>5, <2>1, <2>2 DEF WorkerPanics
<1> QED
  BY <1>1, <1>2, <1>3, <1>4, <1>5

\* What taking a metrics record does to the types.
LEMMA TakeType ==
  ASSUME TypeInv, Take
  PROVE  toInference' \in Seq(Packet) /\ consumed' \in [Flows -> Seq(1 .. MaxPackets)]
<1> DEFINE p == Head(toInference)
<1>1. p \in Packet /\ Tail(toInference) \in Seq(Packet)
  BY DEF TypeInv, TypeOK, Take
<1>2. p.flow \in Flows /\ p.num \in 1 .. MaxPackets
  BY <1>1 DEF Packet
<1>3. Append(consumed[p.flow], p.num) \in Seq(1 .. MaxPackets)
  BY <1>2 DEF TypeInv, TypeOK
<1> QED
  BY <1>1, <1>2, <1>3 DEF TypeInv, TypeOK, Take

LEMMA InferenceType == TypeInv /\ Inference => TypeInv'
<1> SUFFICES ASSUME TypeInv, Inference PROVE TypeInv'
  OBVIOUS
<1>1. toInference' \in Seq(Packet) /\ consumed' \in [Flows -> Seq(1 .. MaxPackets)]
  <2>1. CASE InferenceJudge
    BY <2>1, TakeType DEF InferenceJudge
  <2>2. CASE InferenceCheck \/ InferenceTimeout
    <3>1. toInference \in Seq(Packet) /\ consumed \in [Flows -> Seq(1 .. MaxPackets)]
      BY DEF TypeInv, TypeOK
    <3>2. consumed' = consumed /\ (toInference' = toInference \/ toInference' = <<>>)
      BY <2>2 DEF InferenceCheck, InferenceTimeout
    <3> QED
      BY <3>1, <3>2, EmptySeq
  <2> QED
    BY <2>1, <2>2 DEF Inference
<1>2. inference' \in {"unborn", "check", "receive", "done"}
  BY DEF Inference, InferenceCheck, InferenceJudge, InferenceTimeout
<1>3. TrainingPhase'
  BY DEF Inference, InferenceCheck, InferenceJudge, InferenceTimeout, TypeInv, TrainingPhase
<1> QED
  BY <1>1, <1>2, <1>3 DEF Inference, TypeInv, TypeOK, captured, routed, worked

LEMMA MainType == TypeInv /\ Main => TypeInv'
<1> SUFFICES ASSUME TypeInv, Main PROVE TypeInv'
  OBVIOUS
<1> USE DEF Main, captured, routed, worked
<1>1. CASE MainGathers
  <2>1. toInference' \in Seq(Packet) /\ consumed' \in [Flows -> Seq(1 .. MaxPackets)]
    BY <1>1, TakeType DEF MainGathers
  <2> QED
    BY <1>1, <2>1, PipelineAssumption DEF MainGathers, TypeInv, TypeOK, TrainingPhase
<1>2. CASE ~ MainGathers
  BY <1>2 DEF MainLoads, MainFindsNoModel, MainCollects, MainTimeout, MainTrains, MainAborts,
              MainJoins, TypeInv, TypeOK, TrainingPhase
<1> QED
  BY <1>1, <1>2

LEMMA TypeStep == TypeInv /\ [Next]_vars => TypeInv'
<1> SUFFICES ASSUME TypeInv, [Next]_vars PROVE TypeInv'
  OBVIOUS
<1>1. CASE Interrupt
  BY <1>1 DEF Interrupt, TypeInv, TypeOK, TrainingPhase, captured, routed, worked, judged
<1>2. CASE UNCHANGED vars
  BY <1>2 DEF vars, TypeInv, TypeOK, TrainingPhase, captured, routed, worked, judged
<1> QED
  BY <1>1, <1>2, ProducerType, RouterType, WorkerType, InferenceType, MainType DEF Next

\* Every thread, channel and history of the pipeline keeps its type, and no
\* bounded channel ever holds more than its capacity.
THEOREM PipelineTypes == Spec => []TypeOK
<1>1. TypeInv => TypeOK
  BY DEF TypeInv
<1> QED
  BY <1>1, InitType, TypeStep, PTL DEF Spec

-----------------------------------------------------------------------------
(* Order within a channel.                                                 *)

\* The packets of the flow f in the channel q are those numbered lo + 1 to hi,
\* in that order; packets of other flows may stand between them.
InOrder(q, f, lo, hi) ==
  /\ lo <= hi
  /\ \A i \in 1 .. Len(q) : q[i].flow = f => q[i].num \in lo + 1 .. hi
  /\ \A n \in lo + 1 .. hi : \E i \in 1 .. Len(q) : q[i].flow = f /\ q[i].num = n
  /\ \A i, j \in 1 .. Len(q) : i < j /\ q[i].flow = f /\ q[j].flow = f => q[i].num < q[j].num

\* What a send appends.
LEMMA AppendedPacket ==
  ASSUME NEW q \in Seq(Packet), NEW p \in Packet
  PROVE  /\ Append(q, p) \in Seq(Packet)
         /\ Len(q) \in Nat /\ Len(Append(q, p)) = Len(q) + 1
         /\ Append(q, p)[Len(q) + 1] = p
         /\ \A i \in 1 .. Len(q) : Append(q, p)[i] = q[i]
OBVIOUS

\* Sending the next packet of the flow extends the range by it.
LEMMA AppendNext ==
  ASSUME NEW q \in Seq(Packet), NEW p \in Packet, NEW f, NEW lo \in Int, NEW hi \in Int,
         InOrder(q, f, lo, hi), p.flow = f, p.num = hi + 1
  PROVE  InOrder(Append(q, p), f, lo, hi + 1)
<1> DEFINE r == Append(q, p)
<1>1. /\ Len(q) \in Nat /\ Len(r) = Len(q) + 1 /\ r[Len(q) + 1] = p
      /\ \A i \in 1 .. Len(q) : r[i] = q[i]
  BY AppendedPacket
<1> HIDE DEF r
<1> USE DEF InOrder
<1>2. \A i \in 1 .. Len(r) : r[i].flow = f => r[i].num \in lo + 1 .. hi + 1
  <2> SUFFICES ASSUME NEW i \in 1 .. Len(r), r[i].flow = f PROVE r[i].num \in lo + 1 .. hi + 1
    OBVIOUS
  <2>1. CASE i \in 1 .. Len(q)
    BY <1>1, <2>1
  <2>2. CASE i = Len(q) + 1
    BY <1>1, <2>2
  <2> QED
    BY <1>1, <2>1, <2>2
<1>3. \A n \in lo + 1 .. hi + 1 : \E i \in 1 .. Len(r) : r[i].flow = f /\ r[i].num = n
  <2> SUFFICES ASSUME NEW n \in lo + 1 .. hi + 1
               PROVE  \E i \in 1 .. Len(r) : r[i].flow = f /\ r[i].num = n
    OBVIOUS
  <2>1. CASE n \in lo + 1 .. hi
    <3>1. PICK i \in 1 .. Len(q) : q[i].flow = f /\ q[i].num = n
      BY <2>1
    <3>2. i \in 1 .. Len(r) /\ r[i] = q[i]
      BY <1>1
    <3> QED
      BY <3>1, <3>2
  <2>2. CASE n = hi + 1
    <3>1. Len(q) + 1 \in 1 .. Len(r)
      BY <1>1
    <3> QED
      BY <1>1, <2>2, <3>1
  <2> QED
    BY <2>1, <2>2
<1>4. \A i, j \in 1 .. Len(r) :
        i < j /\ r[i].flow = f /\ r[j].flow = f => r[i].num < r[j].num
  <2> SUFFICES ASSUME NEW i \in 1 .. Len(r), NEW j \in 1 .. Len(r),
                      i < j, r[i].flow = f, r[j].flow = f
               PROVE  r[i].num < r[j].num
    OBVIOUS
  <2>1. i \in 1 .. Len(q) /\ r[i] = q[i]
    BY <1>1
  <2>2. CASE j \in 1 .. Len(q)
    BY <1>1, <2>1, <2>2
  <2>3. CASE j = Len(q) + 1
    <3>1. q[i].num \in lo + 1 .. hi /\ r[j] = p
      BY <1>1, <2>1, <2>3
    <3> QED
      BY <2>1, <3>1
  <2>4. j \in 1 .. Len(q) \/ j = Len(q) + 1
    <3>1. Len(q) \in Nat /\ Len(r) = Len(q) + 1 /\ j \in 1 .. Len(r)
      BY <1>1
    <3> QED
      BY ONLY <3>1
  <2> QED
    BY <2>2, <2>3, <2>4
<1> QED
  BY <1>2, <1>3, <1>4 DEF r

\* Sending a packet of another flow changes nothing for this one.
LEMMA AppendOther ==
  ASSUME NEW q \in Seq(Packet), NEW p \in Packet, NEW f, NEW lo \in Int, NEW hi \in Int,
         InOrder(q, f, lo, hi), p.flow # f
  PROVE  InOrder(Append(q, p), f, lo, hi)
<1> DEFINE r == Append(q, p)
<1>1. /\ Len(q) \in Nat /\ Len(r) = Len(q) + 1 /\ r[Len(q) + 1] = p
      /\ \A i \in 1 .. Len(q) : r[i] = q[i]
  BY AppendedPacket
<1> HIDE DEF r
<1>2. \A i \in 1 .. Len(r) : r[i].flow = f => i \in 1 .. Len(q) /\ r[i] = q[i]
  BY <1>1
<1>3. \A i \in 1 .. Len(q) : i \in 1 .. Len(r) /\ r[i] = q[i]
  BY <1>1
<1> QED
  BY <1>2, <1>3 DEF InOrder, r

\* What a receive leaves.
LEMMA ReceivedPacket ==
  ASSUME NEW q \in Seq(Packet), q # << >>
  PROVE  /\ Tail(q) \in Seq(Packet) /\ Head(q) \in Packet /\ Head(q) = q[1]
         /\ Len(q) \in Nat \ {0} /\ Len(Tail(q)) = Len(q) - 1
         /\ \A i \in 1 .. Len(Tail(q)) : Tail(q)[i] = q[i + 1]
BY EmptySeq, HeadTailProperties

\* Receiving a packet of the flow: it is the first of the range.
LEMMA TailNext ==
  ASSUME NEW q \in Seq(Packet), q # << >>, NEW f, NEW lo \in Int, NEW hi \in Int,
         InOrder(q, f, lo, hi), Head(q).flow = f
  PROVE  Head(q).num = lo + 1 /\ lo + 1 <= hi /\ InOrder(Tail(q), f, lo + 1, hi)
<1> DEFINE r == Tail(q)
<1>1. /\ Head(q) = q[1] /\ Len(q) \in Nat \ {0} /\ Len(r) = Len(q) - 1
      /\ \A i \in 1 .. Len(r) : r[i] = q[i + 1]
  BY ReceivedPacket
<1> HIDE DEF r
<1> USE DEF InOrder
<1>2. 1 \in 1 .. Len(q) /\ q[1].flow = f /\ q[1].num \in lo + 1 .. hi
  BY <1>1
<1>3. PICK k \in 1 .. Len(q) : q[k].flow = f /\ q[k].num = lo + 1
  BY <1>2
<1>4. q[1].num = lo + 1
  <2>1. CASE k = 1
    BY <1>3, <2>1
  <2>2. CASE 1 < k
    <3>1. q[1].num < q[k].num
      BY <1>2, <1>3, <2>2
    <3> QED
      BY <1>2, <1>3, <3>1
  <2> QED
    BY <1>1, <2>1, <2>2
<1>5. \A i \in 1 .. Len(r) : i + 1 \in 1 .. Len(q) /\ 1 < i + 1 /\ r[i] = q[i + 1]
  BY <1>1
<1>6. \A i \in 1 .. Len(r) : r[i].flow = f => r[i].num \in lo + 2 .. hi
  <2> SUFFICES ASSUME NEW i \in 1 .. Len(r), r[i].flow = f PROVE r[i].num \in lo + 2 .. hi
    OBVIOUS
  <2>1. q[1].num < q[i + 1].num /\ q[i + 1].num \in lo + 1 .. hi
    BY <1>2, <1>5
  <2> QED
    BY <1>4, <1>5, <2>1
<1>7. \A n \in lo + 2 .. hi : \E i \in 1 .. Len(r) : r[i].flow = f /\ r[i].num = n
  <2> SUFFICES ASSUME NEW n \in lo + 2 .. hi
               PROVE  \E i \in 1 .. Len(r) : r[i].flow = f /\ r[i].num = n
    OBVIOUS
  <2>1. PICK j \in 1 .. Len(q) : q[j].flow = f /\ q[j].num = n
    <3>1. n \in lo + 1 .. hi
      OBVIOUS
    <3> QED
      BY <3>1
  <2>2. j # 1
    BY <1>4, <2>1
  <2>3. j - 1 \in 1 .. Len(r) /\ r[j - 1] = q[(j - 1) + 1] /\ (j - 1) + 1 = j
    BY <1>1, <2>2
  <2> QED
    BY <2>1, <2>3
<1>8. \A i, j \in 1 .. Len(r) :
        i < j /\ r[i].flow = f /\ r[j].flow = f => r[i].num < r[j].num
  <2> SUFFICES ASSUME NEW i \in 1 .. Len(r), NEW j \in 1 .. Len(r),
                      i < j, r[i].flow = f, r[j].flow = f
               PROVE  r[i].num < r[j].num
    OBVIOUS
  <2> DEFINE a == i + 1
             b == j + 1
  <2>1. a \in 1 .. Len(q) /\ b \in 1 .. Len(q) /\ a < b /\ r[i] = q[a] /\ r[j] = q[b]
    BY <1>1, <1>5
  <2> HIDE DEF a, b
  <2> QED
    BY <2>1
<1>9. lo + 1 <= hi /\ (lo + 1) + 1 = lo + 2
  BY <1>2
<1> QED
  BY <1>1, <1>4, <1>6, <1>7, <1>8, <1>9 DEF r

\* Receiving a packet of another flow changes nothing for this one.
LEMMA TailOther ==
  ASSUME NEW q \in Seq(Packet), q # << >>, NEW f, NEW lo \in Int, NEW hi \in Int,
         InOrder(q, f, lo, hi), Head(q).flow # f
  PROVE  InOrder(Tail(q), f, lo, hi)
<1> DEFINE r == Tail(q)
<1>1. /\ Head(q) = q[1] /\ Len(q) \in Nat \ {0} /\ Len(r) = Len(q) - 1
      /\ \A i \in 1 .. Len(r) : r[i] = q[i + 1]
  BY ReceivedPacket
<1> HIDE DEF r
<1> USE DEF InOrder
<1>2. \A i \in 1 .. Len(r) : i + 1 \in 1 .. Len(q) /\ r[i] = q[i + 1]
  BY <1>1
<1>3. \A j \in 1 .. Len(q) : q[j].flow = f =>
        j - 1 \in 1 .. Len(r) /\ r[j - 1] = q[j]
  <2> SUFFICES ASSUME NEW j \in 1 .. Len(q), q[j].flow = f
               PROVE  j - 1 \in 1 .. Len(r) /\ r[j - 1] = q[j]
    OBVIOUS
  <2>1. j # 1
    BY <1>1
  <2>2. j - 1 \in 1 .. Len(r) /\ (j - 1) + 1 = j
    BY <1>1, <2>1
  <2>3. r[j - 1] = q[(j - 1) + 1]
    BY <1>1, <2>2
  <2> QED
    BY <2>2, <2>3
<1>4. \A i \in 1 .. Len(r) : r[i].flow = f => r[i].num \in lo + 1 .. hi
  BY <1>2
<1>5. \A n \in lo + 1 .. hi : \E i \in 1 .. Len(r) : r[i].flow = f /\ r[i].num = n
  <2> SUFFICES ASSUME NEW n \in lo + 1 .. hi
               PROVE  \E i \in 1 .. Len(r) : r[i].flow = f /\ r[i].num = n
    OBVIOUS
  <2>1. PICK j \in 1 .. Len(q) : q[j].flow = f /\ q[j].num = n
    OBVIOUS
  <2> QED
    BY <1>3, <2>1
<1>6. \A i, j \in 1 .. Len(r) :
        i < j /\ r[i].flow = f /\ r[j].flow = f => r[i].num < r[j].num
  <2> SUFFICES ASSUME NEW i \in 1 .. Len(r), NEW j \in 1 .. Len(r),
                      i < j, r[i].flow = f, r[j].flow = f
               PROVE  r[i].num < r[j].num
    OBVIOUS
  <2> DEFINE a == i + 1
             b == j + 1
  <2>1. a \in 1 .. Len(q) /\ b \in 1 .. Len(q) /\ a < b /\ r[i] = q[a] /\ r[j] = q[b]
    BY <1>1, <1>2
  <2> HIDE DEF a, b
  <2> QED
    BY <2>1
<1> QED
  BY <1>4, <1>5, <1>6 DEF r

\* An empty channel.
LEMMA EmptyInOrder == ASSUME NEW f, NEW n \in Int PROVE InOrder(<< >>, f, n, n)
BY DEF InOrder

-----------------------------------------------------------------------------
(* Order along the path.                                                   *)

\* A flow's packet in the hands of the producer, the router or its worker.
Drafted(f) == producer = "send" /\ draft.flow = f

Routing(f) == router = "send" /\ routing.flow = f

Working(f) == worker[Route[f]] = "work" /\ working[Route[f]].flow = f

One(b) == IF b THEN 1 ELSE 0

Handled(f) == Len(tables[Route[f]][f])

\* From the worker back to the capture no packet of the flow is missing or out
\* of place: n of them have left the producer's channel.
ChainAt(f, n) ==
  /\ InOrder(toRouter, f, n, sent[f] - One(Drafted(f)))
  /\ Drafted(f) => draft.num = sent[f]
  /\ InOrder(toWorker[Route[f]], f, Handled(f) + One(Working(f)), n - One(Routing(f)))
  /\ Routing(f) => routing.num = n
  /\ Working(f) => working[Route[f]].num = Handled(f) + 1

\* Once the worker has exited nothing more reaches its table.
Chain(f) == Listening(Route[f]) => \E n \in 0 .. sent[f] : ChainAt(f, n)

\* The same from the detector back to the worker.
JudgeChain(f) ==
  IF inference = "done" THEN toInference = << >>
                        ELSE InOrder(toInference, f, Len(consumed[f]), Handled(f))

\* A worker only ever holds packets of its own flows.
OnRoute ==
  \A w \in Workers :
    /\ \A i \in 1 .. Len(toWorker[w]) : Route[toWorker[w][i].flow] = w
    /\ worker[w] = "work" => Route[working[w].flow] = w

\* The histories count up from 1.
Counting(s) == \A i \in 1 .. Len(s) : s[i] = i

Histories ==
  \A f \in Flows : /\ Counting(tables[Route[f]][f]) /\ Counting(consumed[f])
                   /\ Handled(f) <= sent[f]

OrderInv == OnRoute /\ Histories /\ \A f \in Flows : Chain(f) /\ JudgeChain(f)

PathInv == TypeInv /\ OrderInv

\* The kinds of what a flow's chain speaks of.
LEMMA FlowTypes ==
  ASSUME TypeInv, NEW f \in Flows
  PROVE  /\ Route[f] \in Workers /\ sent[f] \in 0 .. MaxPackets /\ MaxPackets \in Nat
         /\ toRouter \in Seq(Packet) /\ toWorker[Route[f]] \in Seq(Packet)
         /\ toInference \in Seq(Packet)
         /\ tables[Route[f]][f] \in Seq(1 .. MaxPackets) /\ consumed[f] \in Seq(1 .. MaxPackets)
         /\ Handled(f) \in Nat /\ Len(consumed[f]) \in Nat
BY PipelineAssumption DEF TypeInv, TypeOK, Handled

LEMMA InitOrder == Init => OrderInv
<1> SUFFICES ASSUME Init PROVE OrderInv
  OBVIOUS
<1>1. \A f \in Flows : Route[f] \in Workers
  BY PipelineAssumption
<1>2. Len(<< >>) = 0
  BY EmptySeq
<1>3. OnRoute
  BY <1>2 DEF Init, OnRoute
<1>4. Histories
  BY <1>1, <1>2 DEF Init, Histories, Counting, Handled
<1>5. ASSUME NEW f \in Flows PROVE Chain(f) /\ JudgeChain(f)
  <2>1. /\ sent[f] = 0 /\ Handled(f) = 0 /\ Len(consumed[f]) = 0
        /\ toRouter = << >> /\ toWorker[Route[f]] = << >> /\ toInference = << >>
        /\ ~ Drafted(f) /\ ~ Routing(f) /\ ~ Working(f) /\ inference = "unborn"
    BY <1>1, <1>2 DEF Init, Handled, Drafted, Routing, Working
  <2>2. InOrder(<< >>, f, 0, 0)
    BY EmptyInOrder
  <2>3. ChainAt(f, 0)
    BY <2>1, <2>2 DEF ChainAt, One
  <2> QED
    BY <2>1, <2>2, <2>3 DEF Chain, JudgeChain
<1> QED
  BY <1>3, <1>4, <1>5 DEF OrderInv

\* What the router, the workers and the detector see does not change when the
\* producer moves.
LEMMA ProducerOrder == PathInv /\ Producer => OrderInv'
<1> SUFFICES ASSUME PathInv, Producer PROVE OrderInv'
  OBVIOUS
<1>1. /\ router' = router /\ routing' = routing /\ worker' = worker /\ working' = working
      /\ tables' = tables /\ toWorker' = toWorker /\ inference' = inference
      /\ consumed' = consumed /\ toInference' = toInference
  BY DEF Producer, routed, worked, judged
<1>2. \A f \in Flows : sent[f] \in Nat /\ sent'[f] \in Nat /\ sent[f] <= sent'[f]
  <2>1. sent' = sent \/ \E f \in Flows : sent' = [sent EXCEPT ![f] = @ + 1]
    BY DEF Producer, ProducerCheck, ProducerEvent, ProducerSend, ProducerQuiet, ProducerEnds,
           ProducerStops, ProducerPanics
  <2>2. sent \in [Flows -> 0 .. MaxPackets] /\ MaxPackets \in Nat
    BY PipelineAssumption DEF PathInv, TypeInv, TypeOK
  <2> QED
    BY <2>1, <2>2
<1>3. OnRoute'
  BY <1>1 DEF PathInv, OrderInv, OnRoute
<1>4. Histories'
  <2> SUFFICES ASSUME NEW f \in Flows
               PROVE  /\ Counting(tables'[Route[f]][f]) /\ Counting(consumed'[f])
                      /\ Handled(f)' <= sent'[f]
    BY DEF Histories, Counting, Handled
  <2>1. /\ Counting(tables[Route[f]][f]) /\ Counting(consumed[f]) /\ Handled(f) <= sent[f]
    BY DEF PathInv, OrderInv, Histories
  <2>2. Handled(f) \in Nat /\ Handled(f)' = Handled(f)
    BY <1>1, FlowTypes DEF PathInv, Handled
  <2> QED
    BY <1>1, <1>2, <2>1, <2>2
<1>5. ASSUME NEW f \in Flows PROVE JudgeChain(f)'
  BY <1>1 DEF PathInv, OrderInv, JudgeChain, Handled
<1>6. ASSUME NEW f \in Flows PROVE Chain(f)'
  <2> SUFFICES ASSUME Listening(Route[f]) PROVE \E n \in 0 .. sent'[f] : ChainAt(f, n)'
    BY <1>1 DEF Chain, Listening
  <2>1. PICK n \in 0 .. sent[f] : ChainAt(f, n)
    BY DEF PathInv, OrderInv, Chain
  <2>2. /\ InOrder(toWorker'[Route[f]], f, Handled(f)' + One(Working(f)'), n - One(Routing(f)'))
        /\ Routing(f)' => routing'.num = n
        /\ Working(f)' => working'[Route[f]].num = Handled(f)' + 1
    BY <1>1, <2>1 DEF ChainAt, Handled, Working, Routing
  <2>3. InOrder(toRouter, f, n, sent[f] - One(Drafted(f))) /\ (Drafted(f) => draft.num = sent[f])
    BY <2>1 DEF ChainAt
  <2>4. InOrder(toRouter', f, n, sent'[f] - One(Drafted(f)')) /\ (Drafted(f)' => draft'.num = sent'[f])
    <3>1. CASE ProducerEvent
      <4>1. PICK g \in Flows : /\ draft' = [flow |-> g, num |-> sent[g] + 1]
                               /\ sent' = [sent EXCEPT ![g] = @ + 1]
        BY <3>1 DEF ProducerEvent
      <4>2. /\ ~ Drafted(f) /\ toRouter' = toRouter
            /\ Drafted(f)' <=> f = g
        BY <3>1, <4>1 DEF ProducerEvent, Drafted
      <4>3. sent'[f] = IF f = g THEN sent[f] + 1 ELSE sent[f]
        BY <4>1 DEF PathInv, TypeInv, TypeOK
      <4>4. sent'[f] - One(Drafted(f)') = sent[f] - One(Drafted(f))
        BY <1>2, <4>2, <4>3 DEF One
      <4> QED
        BY <2>3, <4>1, <4>2, <4>3, <4>4
    <3>2. CASE ProducerSend
      <4>1. /\ producer = "send" /\ toRouter' = Append(toRouter, draft) /\ sent' = sent
            /\ draft \in Packet /\ toRouter \in Seq(Packet) /\ ~ Drafted(f)'
        BY <3>2 DEF ProducerSend, PathInv, TypeInv, TypeOK, Drafted
      <4>2. CASE draft.flow = f
        <5>1. InOrder(toRouter, f, n, sent[f] - 1) /\ draft.num = (sent[f] - 1) + 1
          BY <1>2, <2>3, <4>1, <4>2 DEF Drafted, One
        <5>2. InOrder(Append(toRouter, draft), f, n, (sent[f] - 1) + 1)
          BY <1>2, <4>1, <4>2, <5>1, AppendNext
        <5>3. (sent[f] - 1) + 1 = sent'[f] - One(Drafted(f)')
          BY <1>2, <4>1 DEF One
        <5> QED
          BY <4>1, <5>2, <5>3
      <4>3. CASE draft.flow # f
        <5>1. InOrder(toRouter, f, n, sent[f] - 0) /\ sent[f] - 0 = sent'[f] - One(Drafted(f)')
          BY <2>3, <4>1, <4>3 DEF Drafted, One
        <5>2. InOrder(Append(toRouter, draft), f, n, sent[f] - 0)
          BY <1>2, <4>1, <4>3, <5>1, AppendOther
        <5> QED
          BY <4>1, <5>1, <5>2
      <4> QED
        BY <4>2, <4>3
    <3>3. CASE ~ ProducerEvent /\ ~ ProducerSend
      <4>1. /\ sent' = sent /\ draft' = draft /\ toRouter' = toRouter
            /\ ~ Drafted(f) /\ ~ Drafted(f)'
        BY <3>3 DEF Producer, ProducerCheck, ProducerQuiet, ProducerEnds, ProducerStops,
                    ProducerPanics, Drafted
      <4> QED
        BY <2>3, <4>1 DEF One
    <3> QED
      BY <3>1, <3>2, <3>3
  <2>5. n \in 0 .. sent'[f]
    BY <1>2
  <2> QED
    BY <2>2, <2>4, <2>5 DEF ChainAt
<1> QED
  BY <1>3, <1>4, <1>5, <1>6 DEF OrderInv

\* The router takes from one channel and fills the others in the same order.
LEMMA RouterOrder == PathInv /\ Router => OrderInv'
<1> SUFFICES ASSUME PathInv, Router PROVE OrderInv'
  OBVIOUS
<1>1. /\ producer' = producer /\ draft' = draft /\ sent' = sent /\ worker' = worker
      /\ working' = working /\ tables' = tables /\ inference' = inference
      /\ consumed' = consumed /\ toInference' = toInference
  BY DEF Router, captured, worked, judged
<1>2. Histories' /\ \A f \in Flows : JudgeChain(f)'
  BY <1>1 DEF PathInv, OrderInv, Histories, JudgeChain, Handled, Counting
<1>3. ASSUME RouterSend
      PROVE  /\ routing \in Packet /\ routing.flow \in Flows
             /\ router = "send" /\ router' = "count"
             /\ toRouter' = toRouter
             /\ toWorker \in [Workers -> Seq(Packet)]
             /\ toWorker' = [toWorker EXCEPT ![Route[routing.flow]] = Append(@, routing)]
  BY <1>3 DEF RouterSend, Target, PathInv, TypeInv, TypeOK, Packet
<1>4. OnRoute'
  <2>1. CASE RouterSend
    <3> SUFFICES ASSUME NEW w \in Workers, NEW i \in 1 .. Len(toWorker'[w])
                 PROVE  Route[toWorker'[w][i].flow] = w
      BY <1>1 DEF PathInv, OrderInv, OnRoute
    <3>1. CASE w = Route[routing.flow]
      <4>1. toWorker'[w] = Append(toWorker[w], routing) /\ toWorker[w] \in Seq(Packet)
        BY <1>3, <2>1, <3>1
      <4>2. CASE i \in 1 .. Len(toWorker[w])
        <5>1. toWorker'[w][i] = toWorker[w][i]
          BY <1>3, <2>1, <4>1, <4>2, AppendedPacket
        <5> QED
          BY <4>2, <5>1 DEF PathInv, OrderInv, OnRoute
      <4>3. CASE i = Len(toWorker[w]) + 1
        <5>1. toWorker'[w][i] = routing
          BY <1>3, <2>1, <4>1, <4>3, AppendedPacket
        <5> QED
          BY <3>1, <5>1
      <4>4. i \in 1 .. Len(toWorker[w]) \/ i = Len(toWorker[w]) + 1
        <5>1. Len(toWorker[w]) \in Nat /\ Len(toWorker'[w]) = Len(toWorker[w]) + 1
          BY <1>3, <2>1, <4>1, AppendedPacket
        <5> QED
          BY <5>1
      <4> QED
        BY <4>2, <4>3, <4>4
    <3>2. CASE w # Route[routing.flow]
      <4>1. toWorker'[w] = toWorker[w]
        BY <1>3, <2>1, <3>2
      <4> QED
        BY <4>1 DEF PathInv, OrderInv, OnRoute
    <3> QED
      BY <3>1, <3>2
  <2>2. CASE ~ RouterSend
    <3>1. toWorker' = toWorker
      BY <2>2 DEF Router, RouterCheck, RouterReceive, RouterTimeout, RouterCount, RouterDrop
    <3> QED
      BY <1>1, <3>1 DEF PathInv, OrderInv, OnRoute
  <2> QED
    BY <2>1, <2>2
<1>5. ASSUME NEW f \in Flows PROVE Chain(f)'
  <2> SUFFICES ASSUME Listening(Route[f]) PROVE \E n \in 0 .. sent[f] : ChainAt(f, n)'
    BY <1>1 DEF Chain, Listening
  <2>1. PICK n \in 0 .. sent[f] : ChainAt(f, n)
    BY DEF PathInv, OrderInv, Chain
  <2> DEFINE hi == sent[f] - One(Drafted(f))
             lo == Handled(f) + One(Working(f))
  <2>2. /\ InOrder(toRouter, f, n, hi)
        /\ InOrder(toWorker[Route[f]], f, lo, n - One(Routing(f)))
        /\ Routing(f) => routing.num = n
    BY <2>1 DEF ChainAt
  <2>3. /\ hi \in Int /\ lo \in Int /\ n \in Int /\ sent[f] \in Nat
        /\ toRouter \in Seq(Packet) /\ toWorker[Route[f]] \in Seq(Packet) /\ hi <= sent[f]
    BY FlowTypes DEF PathInv, One
  <2>4. ASSUME NEW m \in 0 .. sent[f], InOrder(toRouter', f, m, hi),
               InOrder(toWorker'[Route[f]], f, lo, m - One(Routing(f)')),
               Routing(f)' => routing'.num = m
        PROVE  ChainAt(f, m)'
    BY <1>1, <2>1, <2>4 DEF ChainAt, Handled, Working, Drafted
  <2> HIDE DEF hi, lo
  <2>5. CASE RouterReceive
    <3>1. /\ toRouter # << >> /\ routing' = Head(toRouter) /\ toRouter' = Tail(toRouter)
          /\ toWorker' = toWorker /\ ~ Routing(f) /\ router' = "send"
      BY <2>5 DEF RouterReceive, Routing
    <3>2. InOrder(toWorker'[Route[f]], f, lo, n)
      BY <2>2, <2>3, <3>1 DEF One
    <3>3. CASE Head(toRouter).flow = f
      <4>1. /\ Head(toRouter).num = n + 1 /\ n + 1 <= hi
            /\ InOrder(Tail(toRouter), f, n + 1, hi)
        BY <2>2, <2>3, <3>1, <3>3, TailNext
      <4>2. n + 1 \in 0 .. sent[f]
        BY <2>3, <4>1
      <4>3. Routing(f)' /\ (n + 1) - One(Routing(f)') = n
        BY <2>3, <3>1, <3>3 DEF Routing, One
      <4>4. ChainAt(f, n + 1)'
        BY <2>4, <3>1, <3>2, <4>1, <4>2, <4>3
      <4> QED
        BY <4>2, <4>4
    <3>4. CASE Head(toRouter).flow # f
      <4>1. InOrder(Tail(toRouter), f, n, hi)
        BY <2>2, <2>3, <3>1, <3>4, TailOther
      <4>2. ~ Routing(f)' /\ n - One(Routing(f)') = n
        BY <2>3, <3>1, <3>4 DEF Routing, One
      <4> QED
        BY <2>4, <3>1, <3>2, <4>1, <4>2
    <3> QED
      BY <3>3, <3>4
  <2>6. CASE RouterSend
    <3>1. ~ Routing(f)' /\ n - One(Routing(f)') = n
      BY <1>3, <2>3, <2>6 DEF Routing, One
    <3>2. InOrder(toWorker'[Route[f]], f, lo, n)
      <4>1. CASE routing.flow = f
        <5>1. Routing(f) /\ routing.num = (n - 1) + 1 /\ n - One(Routing(f)) = n - 1
          BY <1>3, <2>2, <2>3, <2>6, <4>1 DEF Routing, One
        <5>2. InOrder(Append(toWorker[Route[f]], routing), f, lo, (n - 1) + 1)
          <6>1. InOrder(toWorker[Route[f]], f, lo, n - 1)
            BY <2>2, <5>1
          <6>2. n - 1 \in Int /\ routing \in Packet
            BY <1>3, <2>3, <2>6
          <6> QED
            BY <2>3, <4>1, <5>1, <6>1, <6>2, AppendNext
        <5>3. toWorker'[Route[f]] = Append(toWorker[Route[f]], routing) /\ (n - 1) + 1 = n
          BY <1>3, <2>3, <2>6, <4>1, FlowTypes DEF PathInv
        <5> QED
          BY <5>2, <5>3
      <4>2. CASE routing.flow # f
        <5>1. ~ Routing(f) /\ n - One(Routing(f)) = n
          BY <2>3, <4>2 DEF Routing, One
        <5>2. CASE Route[routing.flow] = Route[f]
          <6>1. toWorker'[Route[f]] = Append(toWorker[Route[f]], routing)
            BY <1>3, <2>6, <5>2, FlowTypes DEF PathInv
          <6>2. InOrder(Append(toWorker[Route[f]], routing), f, lo, n)
            BY <1>3, <2>2, <2>3, <2>6, <4>2, <5>1, AppendOther
          <6> QED
            BY <6>1, <6>2
        <5>3. CASE Route[routing.flow] # Route[f]
          <6>1. toWorker'[Route[f]] = toWorker[Route[f]]
            BY <1>3, <2>6, <5>3, FlowTypes DEF PathInv
          <6> QED
            BY <2>2, <5>1, <6>1
        <5> QED
          BY <5>2, <5>3
      <4> QED
        BY <4>1, <4>2
    <3> QED
      BY <1>3, <2>2, <2>4, <2>6, <3>1, <3>2
  <2>7. CASE RouterCheck \/ RouterTimeout \/ RouterCount
    <3>1. /\ toRouter' = toRouter /\ toWorker' = toWorker /\ routing' = routing
          /\ ~ Routing(f) /\ ~ Routing(f)'
      BY <2>7 DEF RouterCheck, RouterTimeout, RouterCount, Routing
    <3>2. One(Routing(f)') = One(Routing(f))
      BY <3>1 DEF One
    <3> QED
      BY <2>2, <2>4, <3>1, <3>2
  <2>8. CASE RouterDrop
    <3>1. /\ toRouter' = toRouter /\ toWorker' = toWorker
          /\ ~ Routing(f) /\ ~ Routing(f)'
      BY <2>8 DEF RouterDrop, Routing, Target
    <3>2. One(Routing(f)') = One(Routing(f))
      BY <3>1 DEF One
    <3> QED
      BY <2>2, <2>4, <3>1, <3>2
  <2> QED
    BY <2>5, <2>6, <2>7, <2>8 DEF Router
<1> QED
  BY <1>2, <1>4, <1>5 DEF OrderInv

\* A worker's table and the detector's channel get what leaves its own channel.
LEMMA WorkerOrder == \A v \in Workers : PathInv /\ Worker(v) => OrderInv'
<1> SUFFICES ASSUME NEW v \in Workers, PathInv, Worker(v) PROVE OrderInv'
  OBVIOUS
<1>1. /\ producer' = producer /\ draft' = draft /\ sent' = sent /\ router' = router
      /\ routing' = routing /\ inference' = inference
      /\ consumed' = consumed /\ toRouter' = toRouter
  BY DEF Worker, captured, routed, judged
<1>2. /\ toWorker \in [Workers -> Seq(Packet)] /\ worker \in [Workers -> {"check", "receive", "work", "done", "dead"}]
      /\ working \in [Workers -> Packet \union {NoPacket}]
      /\ tables \in [Workers -> [Flows -> Seq(1 .. MaxPackets)]]
  BY DEF PathInv, TypeInv, TypeOK
<1>3. /\ \A w \in Workers \ {v} : /\ toWorker'[w] = toWorker[w] /\ worker'[w] = worker[w]
                                  /\ working'[w] = working[w] /\ tables'[w] = tables[w]
      /\ Listening(v)' => Listening(v)
  <2>1. CASE WorkerCheck(v)
    BY <1>2, <2>1 DEF WorkerCheck, Listening
  <2>2. CASE WorkerReceive(v)
    BY <1>2, <2>2 DEF WorkerReceive, Listening
  <2>3. CASE WorkerTimeout(v)
    BY <1>2, <2>3 DEF WorkerTimeout, Listening
  <2>4. CASE WorkerProcess(v)
    BY <1>2, <2>4 DEF WorkerProcess, Listening
  <2>5. CASE WorkerPanics(v)
    BY <1>2, <2>5 DEF WorkerPanics, Listening
  <2> QED
    BY <2>1, <2>2, <2>3, <2>4, <2>5 DEF Worker
<1>4. ASSUME NEW f \in Flows, Route[f] # v PROVE Chain(f)'
  <2>1. /\ toWorker'[Route[f]] = toWorker[Route[f]] /\ worker'[Route[f]] = worker[Route[f]]
        /\ working'[Route[f]] = working[Route[f]] /\ tables'[Route[f]] = tables[Route[f]]
    BY <1>3, <1>4, FlowTypes DEF PathInv
  <2>2. Chain(f)
    BY DEF PathInv, OrderInv
  <2> QED
    BY <1>1, <2>1, <2>2
       DEF Chain, ChainAt, Listening, Handled, Working, Routing, Drafted
\* What the worker does with a packet of the flow f.
<1>5. ASSUME WorkerProcess(v)
      PROVE  LET p == working[v] IN
             /\ p \in Packet /\ p.flow \in Flows /\ Route[p.flow] = v
             /\ worker[v] = "work" /\ worker'[v] = "check"
             /\ toWorker'[v] = toWorker[v]
             /\ tables'[v][p.flow] = Append(tables[v][p.flow], p.num)
             /\ \A f \in Flows \ {p.flow} : tables'[v][f] = tables[v][f]
             /\ toInference' = IF inference = "done" THEN toInference ELSE Append(toInference, p)
  <2> DEFINE p == working[v]
  <2>1. worker[v] = "work" /\ p \in Packet /\ p.flow \in Flows
    BY <1>5 DEF WorkerProcess, PathInv, TypeInv, TypeOK, Packet
  <2>2. Route[p.flow] = v
    BY <2>1 DEF PathInv, OrderInv, OnRoute
  <2>3. /\ tables' = [tables EXCEPT ![v][p.flow] = Append(@, p.num)]
        /\ toInference' = IF inference = "done" THEN toInference ELSE Append(toInference, p)
        /\ worker' = [worker EXCEPT ![v] = "check"] /\ toWorker' = toWorker
    BY <1>5 DEF WorkerProcess
  <2> HIDE DEF p
  <2>4. /\ tables'[v][p.flow] = Append(tables[v][p.flow], p.num)
        /\ \A f \in Flows \ {p.flow} : tables'[v][f] = tables[v][f]
    BY <1>2, <2>1, <2>3
  <2>5. worker'[v] = "check" /\ toWorker'[v] = toWorker[v]
    BY <1>2, <2>3
  <2> QED
    BY <2>1, <2>2, <2>3, <2>4, <2>5 DEF p
<1>6. ASSUME NEW f \in Flows, Route[f] = v, WorkerProcess(v), working[v].flow = f
      PROVE  /\ working[v].num = Handled(f) + 1 /\ Handled(f)' = Handled(f) + 1
             /\ Handled(f) + 1 <= sent[f]
             /\ Counting(tables'[v][f])
  <2>1. Working(f) /\ Listening(v)
    BY <1>5, <1>6 DEF Working, Listening
  <2>2. PICK n \in 0 .. sent[f] : ChainAt(f, n)
    BY <1>6, <2>1 DEF PathInv, OrderInv, Chain
  <2>3. working[v].num = Handled(f) + 1 /\ Handled(f) + One(Working(f)) <= n - One(Routing(f))
    BY <1>6, <2>1, <2>2 DEF ChainAt, InOrder
  <2>4. Handled(f) + 1 <= sent[f]
    BY <2>1, <2>2, <2>3, FlowTypes DEF One, PathInv
  <2> DEFINE q == tables[v][f]
  <2>5. q \in Seq(1 .. MaxPackets) /\ tables'[v][f] = Append(q, Len(q) + 1) /\ Counting(q)
    BY <1>2, <1>5, <1>6, <2>3 DEF Handled, PathInv, OrderInv, Histories
  <2>6. Handled(f)' = Len(tables'[v][f]) /\ Handled(f) = Len(q)
    BY <1>6 DEF Handled
  <2> HIDE DEF q
  <2>7. Len(Append(q, Len(q) + 1)) = Len(q) + 1 /\ Counting(Append(q, Len(q) + 1))
    BY <2>5 DEF Counting
  <2> QED
    BY <2>3, <2>4, <2>5, <2>6, <2>7
<1>7. ASSUME NEW f \in Flows, Route[f] = v PROVE Chain(f)'
  <2> SUFFICES ASSUME Listening(v)' PROVE \E n \in 0 .. sent[f] : ChainAt(f, n)'
    BY <1>1, <1>7 DEF Chain
  <2>1. PICK n \in 0 .. sent[f] : ChainAt(f, n)
    BY <1>3, <1>7 DEF PathInv, OrderInv, Chain
  <2> DEFINE up == n - One(Routing(f))
             lo == Handled(f)
             q == toWorker[v]
  <2>2. /\ InOrder(q, f, lo + One(Working(f)), up)
        /\ Working(f) => working[v].num = lo + 1
    BY <1>7, <2>1 DEF ChainAt
  <2>3. q \in Seq(Packet) /\ lo \in Int /\ up \in Int
    BY <1>2, FlowTypes DEF PathInv, One
  <2>4. ASSUME InOrder(toWorker'[v], f, Handled(f)' + One(Working(f)'), up),
               Working(f)' => working'[v].num = Handled(f)' + 1
        PROVE  ChainAt(f, n)'
    BY <1>1, <1>7, <2>1, <2>4 DEF ChainAt, Routing, Drafted
  <2> HIDE DEF up, lo, q
  <2>5. CASE WorkerCheck(v) \/ WorkerTimeout(v)
    <3>1. /\ toWorker'[v] = q /\ Handled(f)' = lo
          /\ ~ Working(f) /\ ~ Working(f)'
      BY <1>2, <1>7, <2>5 DEF WorkerCheck, WorkerTimeout, Listening, Working, Handled, lo, q
    <3>2. One(Working(f)') = One(Working(f))
      BY <3>1 DEF One
    <3> QED
      BY <2>2, <2>4, <3>1, <3>2
  <2>6. CASE WorkerReceive(v)
    <3>1. /\ q # << >> /\ toWorker'[v] = Tail(q) /\ Handled(f)' = lo
          /\ working'[v] = Head(q) /\ worker[v] = "receive" /\ worker'[v] = "work"
      BY <1>2, <1>7, <2>6 DEF WorkerReceive, Handled, lo, q
    <3>2. InOrder(q, f, lo, up)
      BY <1>7, <2>2, <2>3, <3>1 DEF Working, One
    <3>3. CASE Head(q).flow = f
      <4>1. /\ Head(q).num = lo + 1 /\ InOrder(Tail(q), f, lo + 1, up)
        BY <2>3, <3>1, <3>2, <3>3, TailNext
      <4>2. One(Working(f)') = 1
        BY <1>7, <3>1, <3>3 DEF Working, One
      <4> QED
        BY <2>4, <3>1, <4>1, <4>2
    <3>4. CASE Head(q).flow # f
      <4>1. InOrder(Tail(q), f, lo, up)
        BY <2>3, <3>1, <3>2, <3>4, TailOther
      <4>2. ~ Working(f)' /\ lo + One(Working(f)') = lo
        BY <1>7, <2>3, <3>1, <3>4 DEF Working, One
      <4> QED
        BY <2>4, <3>1, <4>1, <4>2
    <3> QED
      BY <3>3, <3>4
  <2>7. CASE WorkerProcess(v)
    <3>1. toWorker'[v] = q /\ ~ Working(f)' /\ One(Working(f)') = 0
      BY <1>5, <1>7, <2>7 DEF Working, One, q
    <3>2. CASE working[v].flow = f
      <4>1. Handled(f)' = lo + 1 /\ One(Working(f)) = 1
        BY <1>5, <1>6, <1>7, <2>7, <3>2 DEF lo, Working, One
      <4>2. Handled(f)' + One(Working(f)') = lo + One(Working(f))
        BY <2>3, <3>1, <4>1
      <4> QED
        BY <2>2, <2>4, <3>1, <4>2
    <3>3. CASE working[v].flow # f
      <4>1. Handled(f)' = lo /\ One(Working(f)) = 0
        BY <1>5, <1>7, <2>7, <3>3 DEF Handled, Working, One, lo
      <4> QED
        BY <2>2, <2>4, <3>1, <4>1
    <3> QED
      BY <3>2, <3>3
  <2>8. CASE WorkerPanics(v)
    BY <1>2, <2>8 DEF WorkerPanics, Listening
  <2> QED
    BY <2>5, <2>6, <2>7, <2>8 DEF Worker
<1>8. ASSUME ~ WorkerProcess(v) PROVE tables' = tables /\ toInference' = toInference
  BY <1>8 DEF Worker, WorkerCheck, WorkerReceive, WorkerTimeout, WorkerPanics
<1>9. Histories'
  <2> SUFFICES ASSUME NEW f \in Flows
               PROVE  Counting(tables'[Route[f]][f]) /\ Handled(f)' <= sent[f]
    BY <1>1 DEF PathInv, OrderInv, Histories, Counting
  <2>1. Counting(tables[Route[f]][f]) /\ Handled(f) <= sent[f] /\ Route[f] \in Workers
    BY FlowTypes DEF PathInv, OrderInv, Histories
  <2>2. CASE WorkerProcess(v) /\ f = working[v].flow
    BY <1>5, <1>6, <2>2
  <2>3. CASE ~ (WorkerProcess(v) /\ f = working[v].flow)
    <3>1. tables'[Route[f]][f] = tables[Route[f]][f]
      BY <1>3, <1>5, <1>8, <2>1, <2>3
    <3> QED
      BY <2>1, <3>1 DEF Handled
  <2> QED
    BY <2>2, <2>3
<1>10. ASSUME NEW f \in Flows PROVE JudgeChain(f)'
  <2>1. JudgeChain(f)
    BY DEF PathInv, OrderInv
  <2>2. CASE ~ WorkerProcess(v)
    BY <1>1, <1>8, <2>1, <2>2 DEF JudgeChain, Handled
  <2>3. CASE WorkerProcess(v) /\ inference = "done"
    BY <1>1, <1>5, <2>1, <2>3 DEF JudgeChain
  <2>4. CASE WorkerProcess(v) /\ inference # "done"
    <3> DEFINE p == working[v]
               lo == Len(consumed[f])
               hi == Handled(f)
    <3>1. /\ InOrder(toInference, f, lo, hi) /\ toInference' = Append(toInference, p)
          /\ p \in Packet /\ toInference \in Seq(Packet) /\ lo \in Int /\ hi \in Int
      BY <1>5, <2>1, <2>4, FlowTypes DEF JudgeChain, PathInv
    <3>2. CASE p.flow = f
      <4>1. p.num = hi + 1 /\ Handled(f)' = hi + 1
        BY <1>5, <1>6, <2>4, <3>2
      <4> HIDE DEF p, lo, hi
      <4>2. InOrder(toInference', f, lo, hi + 1)
        BY <3>1, <3>2, <4>1, AppendNext
      <4> QED
        BY <1>1, <2>4, <4>1, <4>2 DEF JudgeChain, lo
    <3>3. CASE p.flow # f
      <4>1. Handled(f)' = hi
        <5>1. tables'[Route[f]][f] = tables[Route[f]][f]
          BY <1>3, <1>5, <2>4, <3>3, FlowTypes DEF PathInv
        <5> QED
          BY <5>1 DEF Handled
      <4> HIDE DEF p, lo, hi
      <4>2. InOrder(toInference', f, lo, hi)
        BY <3>1, <3>3, AppendOther
      <4> QED
        BY <1>1, <2>4, <4>1, <4>2 DEF JudgeChain, lo
    <3> QED
      BY <3>2, <3>3
  <2> QED
    BY <2>2, <2>3, <2>4
<1>11. OnRoute'
  <2>1. OnRoute
    BY DEF PathInv, OrderInv
  <2>2. ASSUME NEW w \in Workers \ {v}
        PROVE  /\ \A i \in 1 .. Len(toWorker'[w]) : Route[toWorker'[w][i].flow] = w
               /\ worker'[w] = "work" => Route[working'[w].flow] = w
    BY <1>3, <2>1 DEF OnRoute
  <2>3. /\ \A i \in 1 .. Len(toWorker'[v]) : Route[toWorker'[v][i].flow] = v
        /\ worker'[v] = "work" => Route[working'[v].flow] = v
    <3> DEFINE q == toWorker[v]
    <3>1. /\ \A i \in 1 .. Len(q) : Route[q[i].flow] = v
          /\ q \in Seq(Packet)
      BY <1>2, <2>1 DEF OnRoute
    <3>2. CASE WorkerReceive(v)
      <4>1. /\ q # << >> /\ toWorker'[v] = Tail(q) /\ working'[v] = Head(q)
        BY <1>2, <3>2 DEF WorkerReceive
      <4> HIDE DEF q
      <4>2. /\ Head(q) = q[1] /\ 1 \in 1 .. Len(q)
            /\ \A i \in 1 .. Len(Tail(q)) : i + 1 \in 1 .. Len(q) /\ Tail(q)[i] = q[i + 1]
        BY <3>1, <4>1, ReceivedPacket
      <4> QED
        BY <3>1, <4>1, <4>2
    <3>3. CASE ~ WorkerReceive(v)
      <4>1. /\ toWorker'[v] = q \/ toWorker'[v] = << >>
            /\ worker'[v] # "work"
        BY <1>2, <3>3 DEF Worker, WorkerCheck, WorkerTimeout, WorkerProcess, WorkerPanics
      <4>2. Len(<< >>) = 0
        BY EmptySeq
      <4> QED
        BY <3>1, <4>1, <4>2
    <3> QED
      BY <3>2, <3>3
  <2> QED
    BY <2>2, <2>3 DEF OnRoute
<1> QED
  BY <1>4, <1>7, <1>9, <1>10, <1>11 DEF OrderInv

\* Nothing upstream of the detector's channel changes.
LEMMA PathFrame ==
  ASSUME OrderInv, UNCHANGED <<captured, routed, worked, toRouter, toWorker>>
  PROVE  /\ OnRoute' /\ \A f \in Flows : Chain(f)'
         /\ \A f \in Flows : Handled(f)' = Handled(f) /\ sent'[f] = sent[f]
         /\ tables' = tables
<1>1. /\ producer' = producer /\ draft' = draft /\ sent' = sent /\ router' = router
      /\ routing' = routing /\ worker' = worker /\ working' = working /\ tables' = tables
      /\ toRouter' = toRouter /\ toWorker' = toWorker
  BY DEF captured, routed, worked
<1>2. OnRoute'
  BY <1>1 DEF OrderInv, OnRoute
<1>3. ASSUME NEW f \in Flows PROVE Chain(f)'
  <2>1. Chain(f)
    BY DEF OrderInv
  <2> QED
    BY <1>1, <2>1 DEF Chain, ChainAt, Listening, Handled, Working, Routing, Drafted
<1> QED
  BY <1>1, <1>2, <1>3 DEF Handled

\* The record taken is the next one of its flow.
LEMMA TakeNext ==
  ASSUME PathInv, Take
  PROVE  LET p == Head(toInference) IN
         /\ p \in Packet /\ p.flow \in Flows /\ inference # "done"
         /\ p.num = Len(consumed[p.flow]) + 1 /\ p.num <= Handled(p.flow)
         /\ consumed'[p.flow] = Append(consumed[p.flow], Len(consumed[p.flow]) + 1)
         /\ \A f \in Flows \ {p.flow} : consumed'[f] = consumed[f]
<1> DEFINE p == Head(toInference)
<1>1. /\ toInference # << >> /\ toInference \in Seq(Packet)
      /\ consumed' = [consumed EXCEPT ![p.flow] = Append(@, p.num)]
      /\ consumed \in [Flows -> Seq(1 .. MaxPackets)]
  BY DEF Take, PathInv, TypeInv, TypeOK
<1>2. p \in Packet /\ p.flow \in Flows
  BY <1>1, ReceivedPacket DEF Packet
<1>3. JudgeChain(p.flow)
  BY <1>2 DEF PathInv, OrderInv
<1>4. inference # "done" /\ InOrder(toInference, p.flow, Len(consumed[p.flow]), Handled(p.flow))
  BY <1>1, <1>3 DEF JudgeChain
<1>5. Len(consumed[p.flow]) \in Int /\ Handled(p.flow) \in Int
  BY <1>2, FlowTypes DEF PathInv
<1>6. /\ p.num = Len(consumed[p.flow]) + 1
      /\ Len(consumed[p.flow]) + 1 <= Handled(p.flow)
  BY <1>1, <1>2, <1>4, <1>5, TailNext
<1> HIDE DEF p
<1>7. /\ consumed'[p.flow] = Append(consumed[p.flow], Len(consumed[p.flow]) + 1)
      /\ \A f \in Flows \ {p.flow} : consumed'[f] = consumed[f]
  BY <1>1, <1>2, <1>6
<1> QED
  BY <1>2, <1>4, <1>6, <1>7 DEF p

\* Taking a record keeps order, whoever takes it.
LEMMA TakeOrder ==
  ASSUME PathInv, Take, inference' = "done" => inference = "done",
         UNCHANGED <<captured, routed, worked, toRouter, toWorker>>
  PROVE  OrderInv'
<1> DEFINE p == Head(toInference)
<1>1. /\ OnRoute' /\ \A f \in Flows : Chain(f)'
      /\ \A f \in Flows : Handled(f)' = Handled(f) /\ sent'[f] = sent[f]
      /\ tables' = tables
  BY PathFrame DEF PathInv
<1>2. /\ p \in Packet /\ p.flow \in Flows /\ inference # "done"
      /\ consumed'[p.flow] = Append(consumed[p.flow], Len(consumed[p.flow]) + 1)
      /\ \A f \in Flows \ {p.flow} : consumed'[f] = consumed[f]
  BY TakeNext
<1>3. /\ toInference # << >> /\ toInference' = Tail(toInference)
      /\ toInference \in Seq(Packet)
  BY DEF Take, PathInv, TypeInv, TypeOK
<1>4. ASSUME NEW f \in Flows PROVE Counting(consumed'[f]) /\ JudgeChain(f)'
  <2> DEFINE c == consumed[f]
             hi == Handled(f)
  <2>1. /\ Counting(c) /\ InOrder(toInference, f, Len(c), hi)
        /\ c \in Seq(1 .. MaxPackets) /\ hi \in Int /\ Len(c) \in Int
    BY <1>2, FlowTypes DEF PathInv, OrderInv, Histories, JudgeChain
  <2>2. inference' # "done" /\ hi = Handled(f)'
    BY <1>1, <1>2
  <2>3. CASE p.flow = f
    <3>1. consumed'[f] = Append(c, Len(c) + 1)
      BY <1>2, <2>3
    <3>2. InOrder(Tail(toInference), f, Len(c) + 1, hi)
      BY <1>3, <2>1, <2>3, TailNext
    <3> HIDE DEF c, hi
    <3>3. Len(consumed'[f]) = Len(c) + 1 /\ Counting(consumed'[f])
      BY <2>1, <3>1 DEF Counting
    <3> QED
      BY <1>3, <2>2, <3>2, <3>3 DEF JudgeChain
  <2>4. CASE p.flow # f
    <3>1. consumed'[f] = c
      BY <1>2, <2>4
    <3>2. InOrder(Tail(toInference), f, Len(c), hi)
      BY <1>3, <2>1, <2>4, TailOther
    <3> QED
      BY <1>3, <2>1, <2>2, <3>1, <3>2 DEF JudgeChain
  <2> QED
    BY <2>3, <2>4
<1>5. Histories'
  BY <1>1, <1>4 DEF PathInv, OrderInv, Histories, Counting
<1> QED
  BY <1>1, <1>4, <1>5 DEF OrderInv

\* A step that leaves the detector's channel alone, or the exit of the detector.
LEMMA IdleOrder ==
  ASSUME PathInv, UNCHANGED <<captured, routed, worked, toRouter, toWorker, consumed>>,
         \/ toInference' = toInference /\ (inference' = "done" <=> inference = "done")
         \/ toInference' = << >> /\ inference' = "done"
  PROVE  OrderInv'
<1>1. /\ OnRoute' /\ \A f \in Flows : Chain(f)'
      /\ \A f \in Flows : Handled(f)' = Handled(f) /\ sent'[f] = sent[f]
      /\ tables' = tables /\ consumed' = consumed
  BY PathFrame DEF PathInv
<1>2. \A f \in Flows : JudgeChain(f)'
  BY <1>1 DEF PathInv, OrderInv, JudgeChain
<1>3. Histories'
  BY <1>1 DEF PathInv, OrderInv, Histories, Counting
<1> QED
  BY <1>1, <1>2, <1>3 DEF OrderInv

LEMMA InferenceOrder == PathInv /\ Inference => OrderInv'
<1> SUFFICES ASSUME PathInv, Inference PROVE OrderInv'
  OBVIOUS
<1>1. UNCHANGED <<captured, routed, worked, toRouter, toWorker>>
  BY DEF Inference
<1>2. CASE InferenceJudge
  BY <1>1, <1>2, TakeOrder DEF InferenceJudge
<1>3. CASE InferenceCheck \/ InferenceTimeout
  BY <1>1, <1>3, IdleOrder DEF InferenceCheck, InferenceTimeout
<1> QED
  BY <1>2, <1>3 DEF Inference

LEMMA MainOrder == PathInv /\ Main => OrderInv'
<1> SUFFICES ASSUME PathInv, Main PROVE OrderInv'
  OBVIOUS
<1>1. UNCHANGED <<captured, routed, worked, toRouter, toWorker>>
  BY DEF Main
<1>2. CASE MainGathers
  BY <1>1, <1>2, TakeOrder DEF MainGathers
<1>3. CASE MainLoads \/ MainTrains
  <2>1. inference # "done"
    BY <1>3 DEF MainLoads, MainTrains, PathInv, TypeInv, TrainingPhase
  <2> QED
    BY <1>1, <1>3, <2>1, IdleOrder DEF MainLoads, MainTrains
<1>4. CASE MainFindsNoModel \/ MainCollects \/ MainTimeout \/ MainAborts \/ MainJoins
  BY <1>1, <1>4, IdleOrder
     DEF MainFindsNoModel, MainCollects, MainTimeout, MainAborts, MainJoins
<1> QED
  BY <1>2, <1>3, <1>4 DEF Main

LEMMA PathStep == PathInv /\ [Next]_vars => PathInv'
<1> SUFFICES ASSUME PathInv, [Next]_vars PROVE PathInv'
  OBVIOUS
<1>1. TypeInv'
  BY TypeStep DEF PathInv
<1>2. CASE Interrupt
  BY <1>1, <1>2, IdleOrder DEF Interrupt, PathInv, judged
<1>3. CASE UNCHANGED vars
  BY <1>1, <1>3, IdleOrder DEF vars, PathInv, judged
<1> QED
  BY <1>1, <1>2, <1>3, ProducerOrder, RouterOrder, WorkerOrder, InferenceOrder, MainOrder
     DEF Next, PathInv

\* Every flow's window is fed by one worker with the flow's packets in capture
\* order, none left out (the router's hash and the FIFO channels of main.rs).
THEOREM WindowsInOrder == Spec => WindowsSeeFlowInOrder
<1> DEFINE seen == [f \in Flows |-> tables[Route[f]][f]]
<1>1. Init => Windowed!Init
  BY PipelineAssumption DEF Init, Windowed!Init
<1>2. PathInv /\ PathInv' /\ [Next]_vars => [Windowed!Next]_<<sent, seen>>
  <2> SUFFICES ASSUME PathInv, PathInv', [Next]_vars PROVE [Windowed!Next]_<<sent, seen>>
    OBVIOUS
  <2>1. CASE ProducerEvent /\ Producer
    <3>1. PICK f \in Flows : sent[f] < MaxPackets /\ sent' = [sent EXCEPT ![f] = @ + 1]
      BY <2>1 DEF ProducerEvent
    <3>2. tables' = tables
      BY <2>1 DEF Producer, worked
    <3>3. Windowed!Send(f)
      BY <3>1, <3>2 DEF Windowed!Send
    <3> QED
      BY <3>3 DEF Windowed!Next
  <2>2. ASSUME NEW v \in Workers, WorkerProcess(v), Worker(v)
        PROVE  [Windowed!Next]_<<sent, seen>>
    <3>0. PICK f \in Flows : f = working[v].flow
      BY <2>2 DEF WorkerProcess, PathInv, TypeInv, TypeOK, Packet
    <3>1. f \in Flows /\ Route[f] = v /\ Working(f) /\ Listening(v)
      <4>1. worker[v] = "work"
        BY <2>2 DEF WorkerProcess
      <4>2. Route[f] = v
        BY <3>0, <4>1 DEF PathInv, OrderInv, OnRoute
      <4> QED
        BY <3>0, <4>1, <4>2 DEF Working, Listening
    <3>2. sent' = sent /\ tables' = [tables EXCEPT ![v][f] = Append(@, working[v].num)]
      BY <2>2, <3>0 DEF Worker, WorkerProcess, captured
    <3>3. working[v].num = Handled(f) + 1
      BY <3>1 DEF PathInv, OrderInv, Chain, ChainAt
    <3>4. /\ tables \in [Workers -> [Flows -> Seq(1 .. MaxPackets)]]
          /\ tables[v][f] \in Seq(1 .. MaxPackets)
      BY <3>1 DEF PathInv, TypeInv, TypeOK
    <3>5. /\ tables'[v][f] = Append(tables[v][f], Len(tables[v][f]) + 1)
          /\ \A g \in Flows \ {f} : tables'[Route[g]][g] = tables[Route[g]][g]
      <4>1. \A g \in Flows : Route[g] \in Workers
        BY PipelineAssumption
      <4> QED
        BY <3>1, <3>2, <3>3, <3>4, <4>1 DEF Handled
    <3>6. seen' = [seen EXCEPT ![f] = Append(@, Len(@) + 1)]
      BY <3>1, <3>5
    <3>7. Len(seen[f]) < sent[f]
      <4>1. Handled(f)' <= sent'[f] /\ sent'[f] \in Nat
        BY <3>1 DEF PathInv, OrderInv, Histories, TypeInv, TypeOK
      <4>2. Handled(f)' = Len(tables[v][f]) + 1 /\ Len(tables[v][f]) \in Nat
        BY <3>1, <3>4, <3>5 DEF Handled
      <4>3. seen[f] = tables[v][f]
        BY <3>1
      <4> QED
        BY <3>2, <4>1, <4>2, <4>3
    <3>8. Windowed!Deliver(f)
      BY <3>2, <3>6, <3>7 DEF Windowed!Deliver
    <3> QED
      BY <3>1, <3>8 DEF Windowed!Next
  <2>3. ASSUME sent' = sent, tables' = tables PROVE [Windowed!Next]_<<sent, seen>>
    BY <2>3
  <2>4. ASSUME Producer, ~ ProducerEvent PROVE sent' = sent /\ tables' = tables
    BY <2>4 DEF Producer, ProducerCheck, ProducerSend, ProducerQuiet, ProducerEnds,
                ProducerStops, ProducerPanics, worked
  <2>5. ASSUME NEW v \in Workers, Worker(v), ~ WorkerProcess(v) PROVE sent' = sent /\ tables' = tables
    BY <2>5 DEF Worker, WorkerCheck, WorkerReceive, WorkerTimeout, WorkerPanics, captured
  <2>6. ASSUME Interrupt \/ Router \/ Inference \/ Main \/ UNCHANGED vars
        PROVE  sent' = sent /\ tables' = tables
    BY <2>6 DEF Interrupt, Router, Inference, Main, vars, captured, worked
  <2> QED
    BY <2>1, <2>2, <2>3, <2>4, <2>5, <2>6 DEF Next
<1>3. Init => PathInv
  BY InitType, InitOrder DEF PathInv
<1> QED
  BY <1>1, <1>2, <1>3, PathStep, PTL DEF Spec, WindowsSeeFlowInOrder, Windowed!Spec

\* Metrics are trained on, then judged, in the flow's capture order, through
\* every send, the training loop and the hand-over to the detector.
THEOREM VerdictsInOrder == Spec => VerdictsFollowFlowOrder
<1>1. Init => Judged!Init
  BY DEF Init, Judged!Init
<1>2. PathInv /\ [Next]_vars => [Judged!Next]_<<sent, consumed>>
  <2> SUFFICES ASSUME PathInv, [Next]_vars PROVE [Judged!Next]_<<sent, consumed>>
    OBVIOUS
  <2>1. CASE ProducerEvent /\ Producer
    <3>1. PICK f \in Flows : sent[f] < MaxPackets /\ sent' = [sent EXCEPT ![f] = @ + 1]
      BY <2>1 DEF ProducerEvent
    <3>2. Judged!Send(f)
      BY <2>1, <3>1 DEF Judged!Send, Producer, judged
    <3> QED
      BY <3>2 DEF Judged!Next
  <2>2. ASSUME Take, sent' = sent PROVE [Judged!Next]_<<sent, consumed>>
    <3> DEFINE f == Head(toInference).flow
    <3>1. /\ f \in Flows /\ Len(consumed[f]) + 1 <= Handled(f)
          /\ consumed' = [consumed EXCEPT ![f] = Append(@, Len(@) + 1)]
      BY <2>2, TakeNext DEF Take
    <3>2. Len(consumed[f]) < sent[f]
      <4>1. Handled(f) <= sent[f]
        BY <3>1 DEF PathInv, OrderInv, Histories
      <4>2. Handled(f) \in Nat /\ Len(consumed[f]) \in Nat /\ sent[f] \in Nat
        BY <3>1, FlowTypes DEF PathInv
      <4> QED
        BY <3>1, <4>1, <4>2
    <3>3. Judged!Deliver(f)
      BY <2>2, <3>1, <3>2 DEF Judged!Deliver
    <3> QED
      BY <3>1, <3>3 DEF Judged!Next
  <2>3. CASE Inference
    <3>1. sent' = sent
      BY <2>3 DEF Inference, captured
    <3> QED
      BY <2>2, <2>3, <3>1 DEF Inference, InferenceCheck, InferenceJudge, InferenceTimeout
  <2>4. CASE Main
    <3>1. sent' = sent
      BY <2>4 DEF Main, captured
    <3>2. Take \/ consumed' = consumed
      BY <2>4 DEF Main, MainLoads, MainFindsNoModel, MainCollects, MainGathers, MainTimeout,
                  MainTrains, MainAborts, MainJoins
    <3> QED
      BY <2>2, <3>1, <3>2
  <2>5. ASSUME Producer, ~ ProducerEvent PROVE sent' = sent /\ consumed' = consumed
    BY <2>5 DEF Producer, ProducerCheck, ProducerSend, ProducerQuiet, ProducerEnds,
                ProducerStops, ProducerPanics, judged
  <2>6. ASSUME Interrupt \/ Router \/ (\E v \in Workers : Worker(v)) \/ UNCHANGED vars
        PROVE  sent' = sent /\ consumed' = consumed
    BY <2>6 DEF Interrupt, Router, Worker, vars, captured, judged
  <2> QED
    BY <2>1, <2>3, <2>4, <2>5, <2>6 DEF Next
<1>3. Init => PathInv
  BY InitType, InitOrder DEF PathInv
<1> QED
  BY <1>1, <1>2, <1>3, PathStep, PTL DEF Spec, VerdictsFollowFlowOrder, Judged!Spec

-----------------------------------------------------------------------------
(* Where each packet is.                                                   *)

Handed == Processed \union UNION {Waiting(w) : w \in Workers}

NoneDead == \A w \in Workers : worker[w] # "dead"

\* A worker exits only once the flag is cleared.
ExitsAreOrdered == \A w \in Workers : worker[w] = "done" => ~ running

\* The packets of a flow in a channel, by their numbers.
LEMMA QueuedRange ==
  ASSUME NEW q \in Seq(Packet), NEW p \in Packet, NEW lo \in Int, NEW hi \in Int,
         InOrder(q, p.flow, lo, hi)
  PROVE  p \in Queued(q) <=> p.num \in lo + 1 .. hi
<1>1. ASSUME p \in Queued(q) PROVE p.num \in lo + 1 .. hi
  BY <1>1 DEF Queued, InOrder
<1>2. ASSUME p.num \in lo + 1 .. hi PROVE p \in Queued(q)
  <2>1. PICK i \in 1 .. Len(q) : q[i].flow = p.flow /\ q[i].num = p.num
    BY <1>2 DEF InOrder
  <2>2. q[i] \in Packet
    OBVIOUS
  <2>3. q[i] = p
    BY <2>1, <2>2 DEF Packet
  <2> QED
    BY <2>3 DEF Queued
<1> QED
  BY <1>1, <1>2

\* What sends and receives do to the set of packets in a channel.
LEMMA QueuedAppend ==
  ASSUME NEW q \in Seq(Packet), NEW p \in Packet
  PROVE  Queued(Append(q, p)) = Queued(q) \union {p}
<1> DEFINE r == Append(q, p)
<1>1. /\ Len(q) \in Nat /\ Len(r) = Len(q) + 1 /\ r[Len(q) + 1] = p
      /\ \A i \in 1 .. Len(q) : r[i] = q[i]
  BY AppendedPacket
<1> HIDE DEF r
<1>2. 1 .. Len(r) = 1 .. Len(q) \union {Len(q) + 1}
  BY <1>1
<1>3. Queued(r) = Queued(q) \union {p}
  BY <1>1, <1>2, Zenon DEF Queued
<1> QED
  BY <1>3 DEF r

LEMMA QueuedTail ==
  ASSUME NEW q \in Seq(Packet), q # << >>
  PROVE  Queued(q) = Queued(Tail(q)) \union {Head(q)}
<1> DEFINE r == Tail(q)
<1>1. /\ Head(q) = q[1] /\ Len(q) \in Nat \ {0} /\ Len(r) = Len(q) - 1
      /\ \A i \in 1 .. Len(r) : r[i] = q[i + 1]
  BY ReceivedPacket
<1> HIDE DEF r
<1>2. ASSUME NEW x \in Queued(q) PROVE x \in Queued(r) \union {Head(q)}
  <2>1. PICK i \in 1 .. Len(q) : x = q[i]
    BY DEF Queued
  <2>2. CASE i = 1
    BY <1>1, <2>1, <2>2
  <2>3. CASE i # 1
    <3>1. i - 1 \in 1 .. Len(r) /\ r[i - 1] = q[(i - 1) + 1] /\ (i - 1) + 1 = i
      BY <1>1, <2>3
    <3> QED
      BY <2>1, <3>1 DEF Queued
  <2> QED
    BY <2>2, <2>3
<1>3. ASSUME NEW x \in Queued(r) \union {Head(q)} PROVE x \in Queued(q)
  <2>1. CASE x = Head(q)
    BY <1>1, <2>1 DEF Queued
  <2>2. CASE x \in Queued(r)
    <3>1. PICK i \in 1 .. Len(r) : x = r[i]
      BY <2>2 DEF Queued
    <3>2. i + 1 \in 1 .. Len(q) /\ x = q[i + 1]
      BY <1>1, <3>1
    <3> QED
      BY <3>2 DEF Queued
  <2> QED
    BY <2>1, <2>2
<1>4. Queued(q) = Queued(r) \union {Head(q)}
  BY <1>2, <1>3
<1> QED
  BY <1>4 DEF r

LEMMA QueuedEmpty == Queued(<< >>) = {}
BY EmptySeq DEF Queued

LEMMA QueuedPackets ==
  ASSUME NEW q \in Seq(Packet)
  PROVE  Queued(q) \subseteq Packet /\ IsFiniteSet(Queued(q)) /\ Cardinality(Queued(q)) <= Len(q)
<1>1. Len(q) \in Nat /\ q \in [1 .. Len(q) -> Packet]
  OBVIOUS
<1>2. Queued(q) \subseteq Packet
  BY <1>1 DEF Queued
<1>3. q \in Surjection(1 .. Len(q), Queued(q))
  BY <1>1 DEF Surjection, Queued
<1>4. IsFiniteSet(1 .. Len(q)) /\ Cardinality(1 .. Len(q)) = Len(q)
  BY <1>1, FS_Interval
<1>5. IsFiniteSet(Queued(q)) /\ Cardinality(Queued(q)) <= Cardinality(1 .. Len(q))
  BY <1>3, <1>4, FS_Surjection
<1> QED
  BY <1>2, <1>4, <1>5

\* A packet whose worker is there is upstream, waiting or processed according
\* to its number.
LEMMA Places ==
  ASSUME PathInv, NEW p \in Packet, Listening(Route[p.flow])
  PROVE  \E m \in Int :
           /\ Handled(p.flow) <= m /\ m <= sent[p.flow]
           /\ p \in Upstream <=> m < p.num /\ p.num <= sent[p.flow]
           /\ \A w \in Workers :
                p \in Waiting(w) <=> w = Route[p.flow] /\ Handled(p.flow) < p.num /\ p.num <= m
           /\ p \in Processed <=> p.num <= Handled(p.flow)
<1> DEFINE f == p.flow
           k == p.num
           v == Route[f]
<1>1. f \in Flows /\ k \in 1 .. MaxPackets
  BY DEF Packet
<1>2. PICK n \in 0 .. sent[f] : ChainAt(f, n)
  BY <1>1 DEF PathInv, OrderInv, Chain
<1>3. /\ v \in Workers /\ sent[f] \in Nat /\ MaxPackets \in Nat /\ Handled(f) \in Nat
      /\ toRouter \in Seq(Packet) /\ toWorker[v] \in Seq(Packet)
      /\ tables[v][f] \in Seq(1 .. MaxPackets)
  BY <1>1, FlowTypes DEF PathInv
<1>4. Processed = {x \in Packet : x.num <= Handled(x.flow)}
  <2> SUFFICES ASSUME NEW x \in Packet
               PROVE  (\E i \in 1 .. Len(tables[Route[x.flow]][x.flow]) :
                         tables[Route[x.flow]][x.flow][i] = x.num) <=> x.num <= Handled(x.flow)
    BY DEF Processed
  <2>1. x.flow \in Flows /\ x.num \in 1 .. MaxPackets
    BY DEF Packet
  <2>2. Counting(tables[Route[x.flow]][x.flow]) /\ Handled(x.flow) \in Nat
    BY <2>1, FlowTypes DEF PathInv, OrderInv, Histories
  <2> QED
    BY <2>1, <2>2 DEF Counting, Handled
<1> DEFINE m == n - One(Routing(f))
<1>5. /\ InOrder(toRouter, f, n, sent[f] - One(Drafted(f)))
      /\ InOrder(toWorker[v], f, Handled(f) + One(Working(f)), m)
  BY <1>2 DEF ChainAt
<1>6. /\ p \in Queued(toRouter) <=> k \in n + 1 .. sent[f] - One(Drafted(f))
      /\ p \in Queued(toWorker[v]) <=> k \in (Handled(f) + One(Working(f))) + 1 .. m
      /\ n <= sent[f] - One(Drafted(f)) /\ Handled(f) + One(Working(f)) <= m
  <2>1. /\ n \in Int /\ sent[f] - One(Drafted(f)) \in Int
        /\ Handled(f) + One(Working(f)) \in Int /\ m \in Int
    BY <1>3 DEF One
  <2>2. n <= sent[f] - One(Drafted(f)) /\ Handled(f) + One(Working(f)) <= m
    BY <1>5 DEF InOrder
  <2>3. p \in Queued(toRouter) <=> k \in n + 1 .. sent[f] - One(Drafted(f))
    BY <1>3, <1>5, <2>1, QueuedRange
  <2>4. p \in Queued(toWorker[v]) <=> k \in (Handled(f) + One(Working(f))) + 1 .. m
    BY <1>3, <1>5, <2>1, QueuedRange
  <2> QED
    BY <2>2, <2>3, <2>4
<1>7. p = draft <=> Drafted(f) /\ k = sent[f]
  <2>1. IF producer = "send" THEN draft \in Packet ELSE draft = NoPacket
    BY DEF PathInv, TypeInv, TypeOK
  <2>2. Drafted(f) => draft.num = sent[f]
    BY <1>2 DEF ChainAt
  <2> QED
    BY <2>1, <2>2, NoPacketIsNone DEF Drafted, Packet
<1>8. p = routing <=> Routing(f) /\ k = n
  <2>1. IF router = "send" THEN routing \in Packet ELSE routing = NoPacket
    BY DEF PathInv, TypeInv, TypeOK
  <2>2. Routing(f) => routing.num = n
    BY <1>2 DEF ChainAt
  <2> QED
    BY <2>1, <2>2, NoPacketIsNone DEF Routing, Packet
<1>9. p = working[v] <=> Working(f) /\ k = Handled(f) + 1
  <2>1. working[v] \in Packet \union {NoPacket} /\ (worker[v] = "work" <=> working[v] \in Packet)
    BY <1>3 DEF PathInv, TypeInv, TypeOK
  <2>2. Working(f) => working[v].num = Handled(f) + 1
    BY <1>2 DEF ChainAt
  <2> QED
    BY <2>1, <2>2, NoPacketIsNone DEF Working, Packet
<1>10. m \in Int /\ Handled(f) <= m /\ m <= sent[f]
  BY <1>3, <1>6 DEF One
<1>11. p \in Upstream <=> m < k /\ k <= sent[f]
  <2>1. p \in Upstream <=> p = draft \/ p = routing \/ p \in Queued(toRouter)
    BY NoPacketIsNone DEF Upstream
  <2> QED
    BY <1>1, <1>3, <1>6, <1>7, <1>8, <2>1 DEF One
<1>12. ASSUME NEW w \in Workers
       PROVE  p \in Waiting(w) <=> w = v /\ Handled(f) < k /\ k <= m
  <2>1. p \in Waiting(w) <=> p = working[w] \/ p \in Queued(toWorker[w])
    BY NoPacketIsNone DEF Waiting
  <2>2. CASE w = v
    BY <1>1, <1>3, <1>6, <1>9, <1>10, <2>1, <2>2 DEF One
  <2>3. CASE w # v
    <3>1. p \notin Queued(toWorker[w])
      BY <2>3 DEF Queued, PathInv, OrderInv, OnRoute
    <3>2. p # working[w]
      <4>1. worker[w] = "work" <=> working[w] \in Packet
        BY DEF PathInv, TypeInv, TypeOK
      <4>2. worker[w] = "work" => Route[working[w].flow] = w
        BY DEF PathInv, OrderInv, OnRoute
      <4> QED
        BY <2>3, <4>1, <4>2
    <3> QED
      BY <2>1, <2>3, <3>1, <3>2
  <2> QED
    BY <2>2, <2>3
<1>13. p \in Processed <=> k <= Handled(f)
  BY <1>4
<1> HIDE DEF m
<1> QED
  BY <1>10, <1>11, <1>12, <1>13

\* Everything that is somewhere is a packet.
LEMMA PlacesArePackets ==
  ASSUME PathInv
  PROVE  /\ Upstream \subseteq Packet /\ Processed \subseteq Packet /\ Captured \subseteq Packet
         /\ \A w \in Workers : Waiting(w) \subseteq Packet
<1>1. draft \in Packet \union {NoPacket} /\ routing \in Packet \union {NoPacket}
  BY DEF PathInv, TypeInv, TypeOK
<1>2. /\ toRouter \in Seq(Packet)
      /\ \A w \in Workers : toWorker[w] \in Seq(Packet) /\ working[w] \in Packet \union {NoPacket}
  BY DEF PathInv, TypeInv, TypeOK
<1>3. Queued(toRouter) \subseteq Packet
  BY <1>2, QueuedPackets
<1>4. \A w \in Workers : Queued(toWorker[w]) \subseteq Packet
  BY <1>2, QueuedPackets
<1>5. Upstream \subseteq Packet
  BY <1>1, <1>3 DEF Upstream
<1>6. \A w \in Workers : Waiting(w) \subseteq Packet
  BY <1>2, <1>4 DEF Waiting
<1> QED
  BY <1>5, <1>6 DEF Processed, Captured

\* The places a packet can be in, when every worker is there.
LEMMA PlacesPartition ==
  ASSUME PathInv, \A w \in Workers : Listening(w)
  PROVE  /\ Captured = Upstream \union Handed
         /\ Upstream \intersect Handed = {}
         /\ \A w \in Workers : Waiting(w) \intersect Processed = {}
<1>1. /\ Upstream \subseteq Packet /\ Processed \subseteq Packet /\ Captured \subseteq Packet
      /\ \A w \in Workers : Waiting(w) \subseteq Packet
  BY PlacesArePackets
<1>2. Handed \subseteq Packet
  BY <1>1 DEF Handed
<1>3. ASSUME NEW p \in Packet
      PROVE  /\ p \in Captured <=> p \in Upstream \/ p \in Handed
             /\ ~ (p \in Upstream /\ p \in Handed)
             /\ \A w \in Workers : ~ (p \in Waiting(w) /\ p \in Processed)
  <2>1. p.flow \in Flows /\ p.num \in Nat
    BY DEF Packet
  <2>2. /\ Route[p.flow] \in Workers /\ sent[p.flow] \in Nat /\ Handled(p.flow) \in Nat
    BY <2>1, FlowTypes DEF PathInv
  <2>3. PICK m \in Int :
           /\ Handled(p.flow) <= m /\ m <= sent[p.flow]
           /\ p \in Upstream <=> m < p.num /\ p.num <= sent[p.flow]
           /\ \A w \in Workers :
                p \in Waiting(w) <=> w = Route[p.flow] /\ Handled(p.flow) < p.num /\ p.num <= m
           /\ p \in Processed <=> p.num <= Handled(p.flow)
    BY <2>2, Places
  <2>4. p \in Captured <=> p.num <= sent[p.flow]
    BY DEF Captured
  <2>5. p \in Handed <=> p \in Processed \/ \E w \in Workers : p \in Waiting(w)
    BY DEF Handed
  <2>6. p \in Handed <=> p.num <= m
    BY <2>1, <2>2, <2>3, <2>5
  <2> QED
    BY <2>1, <2>2, <2>3, <2>4, <2>6
<1> QED
  BY <1>1, <1>2, <1>3

\* What each thread's step does to the places.
LEMMA ProducerPlaces ==
  ASSUME PathInv, Producer
  PROVE  /\ Handed' = Handed /\ Upstream \subseteq Upstream'
         /\ Captured' \ Captured \subseteq Upstream'
<1>1. Handed' = Handed
  BY DEF Producer, worked, Handed, Processed, Waiting
<1>2. routing' = routing
  BY DEF Producer, routed
<1>3. CASE ProducerEvent
  <2>1. PICK f \in Flows : /\ sent[f] < MaxPackets
                           /\ draft' = [flow |-> f, num |-> sent[f] + 1]
                           /\ sent' = [sent EXCEPT ![f] = @ + 1]
    BY <1>3 DEF ProducerEvent
  <2>2. draft = NoPacket /\ toRouter' = toRouter
    BY <1>3 DEF ProducerEvent, PathInv, TypeInv, TypeOK
  <2>3. sent \in [Flows -> 0 .. MaxPackets] /\ MaxPackets \in Nat
    BY PipelineAssumption DEF PathInv, TypeInv, TypeOK
  <2>4. draft' \in Packet
    <3>1. sent[f] + 1 \in 1 .. MaxPackets
      BY <2>1, <2>3
    <3> QED
      BY <2>1, <3>1 DEF Packet
  <2>5. ASSUME NEW p \in Packet, p.num <= sent'[p.flow], ~ (p.num <= sent[p.flow])
        PROVE  p = draft'
    <3>1. p.flow \in Flows /\ p.num \in Nat
      BY DEF Packet
    <3>2. p.flow = f /\ p.num = sent[f] + 1
      BY <2>1, <2>3, <2>5, <3>1
    <3> QED
      BY <2>1, <3>2 DEF Packet
  <2>6. draft' \in Upstream'
    BY <2>4, NoPacketIsNone DEF Upstream
  <2>7. Upstream \subseteq Upstream'
    BY <1>2, <2>2 DEF Upstream, Queued
  <2> QED
    BY <1>1, <2>5, <2>6, <2>7 DEF Captured
<1>4. CASE ProducerSend
  <2>1. /\ toRouter' = Append(toRouter, draft) /\ draft \in Packet /\ toRouter \in Seq(Packet)
        /\ sent' = sent
    BY <1>4 DEF ProducerSend, PathInv, TypeInv, TypeOK
  <2>2. Queued(toRouter') = Queued(toRouter) \union {draft}
    BY <2>1, QueuedAppend
  <2>3. Upstream \subseteq Upstream'
    BY <1>2, <2>2 DEF Upstream
  <2> QED
    BY <1>1, <2>1, <2>3 DEF Captured
<1>5. CASE ~ ProducerEvent /\ ~ ProducerSend
  <2>1. sent' = sent /\ draft' = draft /\ toRouter' = toRouter
    BY <1>5 DEF Producer, ProducerCheck, ProducerQuiet, ProducerEnds, ProducerStops, ProducerPanics
  <2> QED
    BY <1>1, <1>2, <2>1 DEF Captured, Upstream, Queued
<1> QED
  BY <1>3, <1>4, <1>5

LEMMA RouterPlaces ==
  ASSUME PathInv, Router
  PROVE  /\ Captured' = Captured
         /\ RouterSend => /\ Handed' = Handed \union {routing}
                          /\ Upstream \subseteq Upstream' \union {routing}
         /\ RouterDrop => Handed' = Handed /\ Upstream \subseteq Upstream' \union {routing}
         /\ ~ RouterSend /\ ~ RouterDrop => Handed' = Handed /\ Upstream \subseteq Upstream'
<1>1. /\ sent' = sent /\ draft' = draft /\ tables' = tables /\ working' = working
      /\ Captured' = Captured /\ Processed' = Processed
  BY DEF Router, captured, worked, Captured, Processed
<1>2. ASSUME toWorker' = toWorker PROVE Handed' = Handed
  BY <1>1, <1>2 DEF Handed, Waiting
<1>3. CASE RouterSend
  <2> DEFINE w == Route[routing.flow]
  <2>1. /\ routing \in Packet /\ w \in Workers /\ toWorker \in [Workers -> Seq(Packet)]
        /\ toWorker' = [toWorker EXCEPT ![w] = Append(@, routing)] /\ toRouter' = toRouter
        /\ router = "send"
    BY <1>3, PipelineAssumption DEF RouterSend, Target, PathInv, TypeInv, TypeOK, Packet
  <2> HIDE DEF w
  <2>2. Queued(toWorker'[w]) = Queued(toWorker[w]) \union {routing}
    BY <2>1, QueuedAppend
  <2>3. \A v \in Workers : Waiting(v)' = IF v = w THEN Waiting(v) \union {routing} ELSE Waiting(v)
    <3> SUFFICES ASSUME NEW v \in Workers
                 PROVE  Waiting(v)' = IF v = w THEN Waiting(v) \union {routing} ELSE Waiting(v)
      OBVIOUS
    <3>1. CASE v = w
      BY <1>1, <2>2, <3>1 DEF Waiting
    <3>2. CASE v # w
      BY <1>1, <2>1, <3>2 DEF Waiting
    <3> QED
      BY <3>1, <3>2
  <2>4. Handed' = Handed \union {routing}
    BY <1>1, <2>1, <2>3 DEF Handed
  <2>5. Upstream \subseteq Upstream' \union {routing}
    BY <1>1, <2>1 DEF Upstream
  <2> QED
    BY <1>1, <1>3, <2>1, <2>4, <2>5 DEF RouterDrop, Target, RouterSend
<1>4. CASE RouterDrop
  <2>1. toWorker' = toWorker /\ toRouter' = toRouter /\ ~ RouterSend
    BY <1>4 DEF RouterDrop, RouterSend
  <2>2. Upstream \subseteq Upstream' \union {routing}
    BY <1>1, <2>1 DEF Upstream
  <2> QED
    BY <1>1, <1>2, <1>4, <2>1, <2>2
<1>5. CASE RouterReceive
  <2>1. /\ toRouter # << >> /\ toRouter \in Seq(Packet) /\ routing' = Head(toRouter)
        /\ toRouter' = Tail(toRouter) /\ toWorker' = toWorker /\ routing = NoPacket
        /\ ~ RouterSend /\ ~ RouterDrop
    BY <1>5 DEF RouterReceive, RouterSend, RouterDrop, PathInv, TypeInv, TypeOK
  <2>2. Queued(toRouter) = Queued(toRouter') \union {routing'} /\ routing' \in Packet
    BY <2>1, QueuedTail, ReceivedPacket
  <2>3. Upstream \subseteq Upstream'
    BY <1>1, <2>1, <2>2, NoPacketIsNone DEF Upstream
  <2> QED
    BY <1>1, <1>2, <2>1, <2>3
<1>6. CASE RouterCheck \/ RouterTimeout \/ RouterCount
  <2>1. /\ toRouter' = toRouter /\ toWorker' = toWorker /\ routing' = routing
        /\ ~ RouterSend /\ ~ RouterDrop
    BY <1>6 DEF RouterCheck, RouterTimeout, RouterCount, RouterSend, RouterDrop
  <2>2. Upstream' = Upstream
    BY <1>1, <2>1 DEF Upstream
  <2> QED
    BY <1>1, <1>2, <2>1, <2>2
<1> QED
  BY <1>3, <1>4, <1>5, <1>6 DEF Router

\* A worker drops the packets still queued for it only when it exits.
LEMMA WorkerPlaces ==
  ASSUME PathInv, NEW v \in Workers, Worker(v)
  PROVE  /\ Captured' = Captured /\ Upstream' = Upstream
         /\ worker'[v] \notin {"done", "dead"} => Handed' = Handed
         /\ worker'[v] = "done" => Handed \subseteq Handed' \union Queued(toWorker[v])
<1>1. /\ Captured' = Captured /\ Upstream' = Upstream
  BY DEF Worker, captured, routed, Captured, Upstream
<1>2. /\ toWorker \in [Workers -> Seq(Packet)]
      /\ worker \in [Workers -> {"check", "receive", "work", "done", "dead"}]
      /\ working \in [Workers -> Packet \union {NoPacket}]
      /\ \A w \in Workers : worker[w] = "work" <=> working[w] \in Packet
      /\ tables \in [Workers -> [Flows -> Seq(1 .. MaxPackets)]]
  BY DEF PathInv, TypeInv, TypeOK
<1>3. ASSUME NEW w \in Workers \ {v} PROVE Waiting(w)' = Waiting(w)
  <2>1. toWorker'[w] = toWorker[w] /\ working'[w] = working[w]
    <3>1. CASE WorkerCheck(v)
      BY <1>2, <3>1 DEF WorkerCheck
    <3>2. CASE WorkerReceive(v)
      BY <1>2, <3>2 DEF WorkerReceive
    <3>3. CASE WorkerTimeout(v)
      BY <3>3 DEF WorkerTimeout
    <3>4. CASE WorkerProcess(v)
      BY <1>2, <3>4 DEF WorkerProcess
    <3>5. CASE WorkerPanics(v)
      BY <1>2, <3>5 DEF WorkerPanics
    <3> QED
      BY <3>1, <3>2, <3>3, <3>4, <3>5 DEF Worker
  <2> QED
    BY <2>1 DEF Waiting
<1>4. ASSUME Processed' = Processed, Waiting(v)' = Waiting(v) PROVE Handed' = Handed
  <2>1. \A w \in Workers : Waiting(w)' = Waiting(w)
    BY <1>3, <1>4
  <2> QED
    BY <1>4, <2>1 DEF Handed
<1>5. CASE WorkerCheck(v)
  <2>1. tables' = tables /\ working' = working /\ working[v] = NoPacket /\ Processed' = Processed
    BY <1>2, <1>5 DEF WorkerCheck, Processed
  <2>2. CASE running
    <3>1. toWorker' = toWorker /\ worker'[v] # "done"
      BY <1>2, <1>5, <2>2 DEF WorkerCheck
    <3>2. Waiting(v)' = Waiting(v)
      BY <2>1, <3>1 DEF Waiting
    <3> QED
      BY <1>1, <1>4, <2>1, <3>1, <3>2
  <2>3. CASE ~ running
    <3>1. worker'[v] = "done"
      BY <1>2, <1>5, <2>3 DEF WorkerCheck
    <3>2. Waiting(v) = Queued(toWorker[v])
      BY <2>1 DEF Waiting
    <3>3. Handed \subseteq Handed' \union Queued(toWorker[v])
      BY <1>3, <2>1, <3>2 DEF Handed
    <3> QED
      BY <1>1, <3>1, <3>3
  <2> QED
    BY <2>2, <2>3
<1>6. CASE WorkerReceive(v)
  <2>1. /\ tables' = tables /\ toWorker[v] # << >> /\ working'[v] = Head(toWorker[v])
        /\ toWorker'[v] = Tail(toWorker[v]) /\ worker'[v] = "work" /\ working[v] = NoPacket
        /\ toWorker[v] \in Seq(Packet)
    BY <1>2, <1>6 DEF WorkerReceive
  <2>2. /\ Queued(toWorker[v]) = Queued(toWorker'[v]) \union {working'[v]}
        /\ working'[v] \in Packet
    BY <2>1, QueuedTail, ReceivedPacket
  <2>3. Waiting(v)' = Waiting(v) /\ Processed' = Processed
    BY <2>1, <2>2, NoPacketIsNone DEF Waiting, Processed
  <2> QED
    BY <1>1, <1>4, <2>1, <2>3
<1>7. CASE WorkerTimeout(v)
  <2>1. worker'[v] = "check" /\ Waiting(v)' = Waiting(v) /\ Processed' = Processed
    BY <1>2, <1>7 DEF WorkerTimeout, Waiting, Processed
  <2> QED
    BY <1>1, <1>4, <2>1
<1>8. CASE WorkerProcess(v)
  <2> DEFINE p == working[v]
  <2>1. /\ p \in Packet /\ p.flow \in Flows /\ p.num \in 1 .. MaxPackets /\ worker[v] = "work"
    BY <1>8 DEF WorkerProcess, PathInv, TypeInv, TypeOK, Packet
  <2>2. /\ worker'[v] = "check" /\ toWorker' = toWorker /\ working'[v] = NoPacket
        /\ tables' = [tables EXCEPT ![v][p.flow] = Append(@, p.num)]
    BY <1>2, <1>8 DEF WorkerProcess
  <2>3. Route[p.flow] = v
    BY <2>1 DEF PathInv, OrderInv, OnRoute
  <2> HIDE DEF p
  <2>4. Waiting(v) = Waiting(v)' \union {p}
    BY <2>1, <2>2, NoPacketIsNone DEF Waiting, p
  <2>5. Processed' = Processed \union {p}
    <3>1. ASSUME NEW x \in Packet PROVE x \in Processed' <=> x \in Processed \/ x = p
      <4> DEFINE t == tables[Route[x.flow]][x.flow]
      <4>1. /\ x.flow \in Flows /\ x.num \in Nat /\ Route[x.flow] \in Workers
        BY PipelineAssumption DEF Packet
      <4>2. t \in Seq(1 .. MaxPackets)
        BY <1>2, <4>1
      <4>3. x \in Processed <=> \E i \in 1 .. Len(t) : t[i] = x.num
        BY DEF Processed
      <4>4. x \in Processed' <=> \E i \in 1 .. Len(tables'[Route[x.flow]][x.flow]) :
                                   tables'[Route[x.flow]][x.flow][i] = x.num
        BY DEF Processed
      <4> HIDE DEF t
      <4>5. CASE x.flow = p.flow
        <5>1. tables'[Route[x.flow]][x.flow] = Append(t, p.num)
          BY <1>2, <2>1, <2>2, <2>3, <4>5 DEF t
        <5>2. /\ Len(t) \in Nat /\ Len(Append(t, p.num)) = Len(t) + 1
              /\ Append(t, p.num)[Len(t) + 1] = p.num
              /\ \A i \in 1 .. Len(t) : Append(t, p.num)[i] = t[i]
          BY <2>1, <4>2
        <5>3. (\E i \in 1 .. Len(Append(t, p.num)) : Append(t, p.num)[i] = x.num)
                <=> (\E i \in 1 .. Len(t) : t[i] = x.num) \/ p.num = x.num
          <6>1. 1 .. Len(Append(t, p.num)) = 1 .. Len(t) \union {Len(t) + 1}
            BY <5>2
          <6> QED
            BY <5>2, <6>1, Zenon
        <5>4. p.num = x.num <=> x = p
          BY <2>1, <4>5 DEF Packet
        <5> QED
          BY <4>3, <4>4, <5>1, <5>3, <5>4
      <4>6. CASE x.flow # p.flow
        <5>1. tables'[Route[x.flow]][x.flow] = t
          BY <1>2, <2>1, <2>2, <2>3, <4>1, <4>6 DEF t
        <5> QED
          BY <4>3, <4>4, <4>6, <5>1
      <4> QED
        BY <4>5, <4>6
    <3>2. Processed' \subseteq Packet /\ Processed \subseteq Packet
      BY DEF Processed
    <3> QED
      BY <2>1, <3>1, <3>2
  <2>6. Handed' = Handed
    BY <1>3, <2>4, <2>5 DEF Handed
  <2> QED
    BY <1>1, <2>2, <2>6
<1>9. CASE WorkerPanics(v)
  <2>1. worker'[v] = "dead"
    BY <1>2, <1>9 DEF WorkerPanics
  <2> QED
    BY <1>1, <2>1
<1> QED
  BY <1>5, <1>6, <1>7, <1>8, <1>9 DEF Worker

-----------------------------------------------------------------------------
(* The packet count.                                                       *)

Counted ==
  running /\ NoneDead =>
    /\ IsFiniteSet(Handed)
    /\ Cardinality(Handed) = packet_counter + One(router = "count")

CountInv == ExitsAreOrdered /\ Counted

LEMMA InitPlaces == Init => Captured = {} /\ Upstream = {} /\ Handed = {}
<1> SUFFICES ASSUME Init PROVE Captured = {} /\ Upstream = {} /\ Handed = {}
  OBVIOUS
<1>1. Len(<< >>) = 0 /\ Queued(<< >>) = {}
  BY EmptySeq, QueuedEmpty
<1>2. Captured = {}
  BY DEF Init, Captured, Packet
<1>3. Upstream = {}
  BY <1>1 DEF Init, Upstream
<1>4. Processed = {}
  <2>1. \A p \in Packet : tables[Route[p.flow]][p.flow] = << >>
    BY PipelineAssumption DEF Init, Packet
  <2> QED
    BY <1>1, <2>1 DEF Processed
<1>5. \A w \in Workers : Waiting(w) = {}
  BY <1>1 DEF Init, Waiting
<1> QED
  BY <1>2, <1>3, <1>4, <1>5 DEF Handed

\* A thread exits, or the flag is cleared, for good.
LEMMA ExitsStep == PathInv /\ ExitsAreOrdered /\ [Next]_vars => ExitsAreOrdered'
<1> SUFFICES ASSUME PathInv, ExitsAreOrdered, [Next]_vars PROVE ExitsAreOrdered'
  OBVIOUS
<1>1. worker \in [Workers -> {"check", "receive", "work", "done", "dead"}]
  BY DEF PathInv, TypeInv, TypeOK
<1>2. ASSUME NEW v \in Workers, Worker(v) PROVE ExitsAreOrdered'
  <2>1. running' = running
    BY <1>2 DEF Worker
  <2>2. ASSUME NEW w \in Workers, worker'[w] = "done" PROVE ~ running
    <3>1. CASE WorkerCheck(v)
      BY <1>1, <2>2, <3>1 DEF WorkerCheck, ExitsAreOrdered
    <3>2. CASE ~ WorkerCheck(v)
      BY <1>1, <1>2, <2>2, <3>2
         DEF Worker, WorkerReceive, WorkerTimeout, WorkerProcess, WorkerPanics, ExitsAreOrdered
    <3> QED
      BY <3>1, <3>2
  <2> QED
    BY <2>1, <2>2 DEF ExitsAreOrdered
<1>3. ASSUME Producer PROVE worker' = worker /\ (~ running => ~ running')
  BY <1>3 DEF Producer, worked, ProducerCheck, ProducerEvent, ProducerSend, ProducerQuiet,
              ProducerEnds, ProducerStops, ProducerPanics
<1>4. ASSUME Main PROVE worker' = worker /\ (~ running => ~ running')
  BY <1>4 DEF Main, worked, MainLoads, MainFindsNoModel, MainCollects, MainGathers, MainTimeout,
              MainTrains, MainAborts, MainJoins
<1>5. ASSUME Interrupt \/ Router \/ Inference \/ UNCHANGED vars
      PROVE  worker' = worker /\ (~ running => ~ running')
  BY <1>5 DEF Interrupt, Router, Inference, vars, worked
<1>6. ASSUME worker' = worker, ~ running => ~ running' PROVE ExitsAreOrdered'
  BY <1>6 DEF ExitsAreOrdered
<1> QED
  BY <1>2, <1>3, <1>4, <1>5, <1>6 DEF Next

\* The steps that leave the router and the workers alone.
LEMMA QuietPlaces ==
  ASSUME Interrupt \/ Inference \/ Main \/ UNCHANGED vars
  PROVE  /\ Captured' = Captured /\ Upstream' = Upstream /\ Handed' = Handed
         /\ router' = router /\ worker' = worker /\ packet_counter' = packet_counter
         /\ running' => running
<1>1. /\ sent' = sent /\ draft' = draft /\ routing' = routing /\ toRouter' = toRouter
      /\ tables' = tables /\ working' = working /\ toWorker' = toWorker
      /\ router' = router /\ worker' = worker /\ packet_counter' = packet_counter
  BY DEF Interrupt, Inference, Main, vars, captured, routed, worked
<1>2. running' => running
  BY DEF Interrupt, Inference, Main, vars, MainLoads, MainFindsNoModel, MainCollects,
         MainGathers, MainTimeout, MainTrains, MainAborts, MainJoins
<1> QED
  BY <1>1, <1>2 DEF Captured, Upstream, Handed, Processed, Waiting

LEMMA CountedStep == PathInv /\ CountInv /\ [Next]_vars => Counted'
<1> SUFFICES ASSUME PathInv, CountInv, [Next]_vars, running', NoneDead'
             PROVE  /\ IsFiniteSet(Handed')
                    /\ Cardinality(Handed') = packet_counter' + One(router' = "count")
  BY DEF Counted
<1> USE DEF CountInv
<1>0. packet_counter \in Nat
  BY DEF PathInv, TypeInv, TypeOK
<1>1. CASE Producer
  <2>1. running /\ NoneDead /\ router' = router /\ packet_counter' = packet_counter
    BY <1>1 DEF Producer, ProducerCheck, ProducerEvent, ProducerSend, ProducerQuiet, ProducerEnds,
                ProducerStops, ProducerPanics, routed, worked, NoneDead
  <2> QED
    BY <1>1, <2>1, ProducerPlaces DEF Counted
<1>2. CASE Router
  <2>1. running /\ NoneDead
    BY <1>2 DEF Router, worked, NoneDead
  <2>2. IsFiniteSet(Handed) /\ Cardinality(Handed) = packet_counter + One(router = "count")
    BY <2>1 DEF Counted
  <2>3. CASE RouterSend
    <3>1. Handed' = Handed \union {routing}
      BY <1>2, <2>3, RouterPlaces
    <3>2. routing \notin Handed
      <4>1. routing \in Upstream
        BY <2>3, NoPacketIsNone DEF RouterSend, Upstream, PathInv, TypeInv, TypeOK
      <4>2. \A w \in Workers : Listening(w)
        BY <2>1 DEF NoneDead, ExitsAreOrdered, Listening
      <4> QED
        BY <4>1, <4>2, PlacesPartition
    <3>3. IsFiniteSet(Handed') /\ Cardinality(Handed') = Cardinality(Handed) + 1
      BY <2>2, <3>1, <3>2, FS_AddElement
    <3>4. /\ router = "send" /\ router' = "count" /\ packet_counter' = packet_counter
      BY <2>3 DEF RouterSend
    <3> QED
      BY <1>0, <2>2, <3>3, <3>4 DEF One
  <2>4. CASE RouterDrop
    <3>1. routing \in Packet
      BY <2>4 DEF RouterDrop, PathInv, TypeInv, TypeOK
    <3>2. Route[routing.flow] \in Workers
      BY <3>1, PipelineAssumption DEF Packet
    <3> QED
      BY <2>1, <2>4, <3>2 DEF RouterDrop, Target, Listening, NoneDead, ExitsAreOrdered
  <2>5. CASE ~ RouterSend /\ ~ RouterDrop
    <3>1. Handed' = Handed
      BY <1>2, <2>5, RouterPlaces
    <3>2. packet_counter' + One(router' = "count") = packet_counter + One(router = "count")
      BY <1>0, <1>2, <2>5
         DEF Router, RouterCheck, RouterReceive, RouterTimeout, RouterCount, One
    <3> QED
      BY <2>2, <3>1, <3>2
  <2> QED
    BY <2>3, <2>4, <2>5
<1>3. ASSUME NEW v \in Workers, Worker(v)
      PROVE  /\ IsFiniteSet(Handed')
             /\ Cardinality(Handed') = packet_counter' + One(router' = "count")
  <2>1. running /\ router' = router /\ packet_counter' = packet_counter
    BY <1>3 DEF Worker, routed
  <2>2. worker \in [Workers -> {"check", "receive", "work", "done", "dead"}]
    BY DEF PathInv, TypeInv, TypeOK
  <2>3. NoneDead
    <3> SUFFICES ASSUME NEW w \in Workers, worker[w] = "dead" PROVE worker'[w] = "dead"
      BY DEF NoneDead
    <3> QED
      BY <1>3, <2>2
         DEF Worker, WorkerCheck, WorkerReceive, WorkerTimeout, WorkerProcess, WorkerPanics
  <2>4. worker'[v] # "dead" /\ worker'[v] # "done"
    <3>1. ExitsAreOrdered'
      BY ExitsStep
    <3> QED
      BY <3>1 DEF NoneDead, ExitsAreOrdered
  <2> QED
    BY <1>3, <2>1, <2>3, <2>4, WorkerPlaces DEF Counted
<1>4. CASE Interrupt \/ Inference \/ Main \/ UNCHANGED vars
  BY <1>4, QuietPlaces DEF Counted, NoneDead
<1> QED
  BY <1>1, <1>2, <1>3, <1>4 DEF Next

\* While the system runs, every captured packet is in exactly one place and the
\* reported packet count is the number of those handed to a worker.
THEOREM PacketsAccounted == Spec => []Accounting
<1>1. Init => PathInv /\ CountInv
  <2> SUFFICES ASSUME Init PROVE CountInv
    BY InitType, InitOrder DEF PathInv
  <2>1. Handed = {} /\ router = "check" /\ packet_counter = 0
    BY InitPlaces DEF Init
  <2>2. Counted
    BY <2>1, FS_EmptySet DEF Counted, One
  <2> QED
    BY <2>2 DEF CountInv, ExitsAreOrdered, Init
<1>2. PathInv /\ CountInv /\ [Next]_vars => CountInv'
  BY ExitsStep, CountedStep DEF CountInv
<1>3. PathInv /\ CountInv => Accounting
  <2> SUFFICES ASSUME PathInv, CountInv, running, NoneDead
               PROVE  /\ Captured = Upstream \union Handed
                      /\ Upstream \intersect Handed = {}
                      /\ \A w \in Workers : Waiting(w) \intersect Processed = {}
                      /\ Cardinality(Handed) = packet_counter + IF router = "count" THEN 1 ELSE 0
    BY DEF Accounting, NoneDead, Handed
  <2>1. \A w \in Workers : Listening(w)
    BY DEF CountInv, NoneDead, ExitsAreOrdered, Listening
  <2>2. Cardinality(Handed) = packet_counter + One(router = "count")
    BY DEF CountInv, Counted
  <2> QED
    BY <2>1, <2>2, PlacesPartition DEF One
<1> QED
  BY <1>1, <1>2, <1>3, PathStep, PTL DEF Spec

-----------------------------------------------------------------------------
(* What a stop may lose.                                                   *)

Lost == Captured \ (Upstream \union Handed)

\* The workers that have exited, each of which drops at most one full channel.
Exited == {w \in Workers : worker[w] = "done"}

\* The router can still drop a packet: it is on its last round at most.
MayDrop == running \/ router \in {"receive", "send"}

LossInv ==
  NoneDead =>
    /\ IsFiniteSet(Lost)
    /\ Cardinality(Lost) <= Cardinality(Exited) * WorkerQueue + One(~ MayDrop)

LEMMA ExitedFinite == IsFiniteSet(Exited) /\ Cardinality(Exited) \in Nat
                      /\ Cardinality(Exited) <= Cardinality(Workers)
                      /\ Cardinality(Workers) \in Nat
<1>1. IsFiniteSet(Workers) /\ Exited \in SUBSET Workers
  BY PipelineAssumption DEF Exited
<1> QED
  BY <1>1, FS_Subset, FS_CardinalityType

\* Nothing new is lost.
LEMMA NoLoss ==
  ASSUME LossInv, NoneDead, Lost' \subseteq Lost, Exited' = Exited, MayDrop' => MayDrop
  PROVE  LossInv'
<1>1. IsFiniteSet(Lost') /\ Cardinality(Lost') <= Cardinality(Lost)
  BY FS_Subset DEF LossInv
<1>2. Cardinality(Lost) \in Nat /\ Cardinality(Lost') \in Nat
  BY <1>1, FS_CardinalityType DEF LossInv
<1>3. Cardinality(Lost) <= Cardinality(Exited) * WorkerQueue + One(~ MayDrop)
  BY DEF LossInv
<1>4. One(~ MayDrop) <= One(~ MayDrop') /\ One(~ MayDrop) \in Nat /\ One(~ MayDrop') \in Nat
  BY DEF One
<1> DEFINE k == Cardinality(Exited) * WorkerQueue
<1>5. k \in Nat
  BY ExitedFinite, PipelineAssumption
<1>6. Cardinality(Lost') <= k + One(~ MayDrop')
  <2> HIDE DEF k
  <2>1. Cardinality(Lost) <= k + One(~ MayDrop)
    BY <1>3 DEF k
  <2> QED
    BY <1>1, <1>2, <1>4, <1>5, <2>1
<1>7. IsFiniteSet(Lost') /\ Cardinality(Lost') <= Cardinality(Exited') * WorkerQueue + One(~ MayDrop')
  BY <1>1, <1>6
<1> QED
  BY <1>7 DEF LossInv

\* The router drops one packet, on its last round.
LEMMA OneLost ==
  ASSUME LossInv, NoneDead, NEW p, Lost' \subseteq Lost \union {p}, Exited' = Exited,
         MayDrop, ~ MayDrop'
  PROVE  LossInv'
<1>1. IsFiniteSet(Lost)
  BY DEF LossInv
<1>2. IsFiniteSet(Lost \union {p}) /\ Cardinality(Lost \union {p}) <= Cardinality(Lost) + 1
  <2>1. Cardinality(Lost) \in Nat
    BY <1>1, FS_CardinalityType
  <2>2. /\ IsFiniteSet(Lost \union {p})
        /\ Cardinality(Lost \union {p})
             = IF p \in Lost THEN Cardinality(Lost) ELSE Cardinality(Lost) + 1
    BY ONLY <1>1, FS_AddElement
  <2> QED
    BY <2>1, <2>2
<1>3. IsFiniteSet(Lost') /\ Cardinality(Lost') <= Cardinality(Lost \union {p})
  BY <1>2, FS_Subset
<1>4. /\ Cardinality(Lost) \in Nat /\ Cardinality(Lost') \in Nat
      /\ Cardinality(Lost \union {p}) \in Nat
  BY <1>1, <1>2, <1>3, FS_CardinalityType
<1> DEFINE k == Cardinality(Exited) * WorkerQueue
<1>5. k \in Nat
  BY ExitedFinite, PipelineAssumption
<1>6. Cardinality(Lost) <= k + 0
  BY DEF LossInv, One
<1> HIDE DEF k
<1>7. Cardinality(Lost') <= k + 1
  BY <1>2, <1>3, <1>4, <1>5, <1>6
<1> QED
  BY <1>3, <1>7 DEF LossInv, One, k

\* A worker that exits drops what is queued for it.
LEMMA ChannelLost ==
  ASSUME LossInv, NoneDead, NEW v \in Workers, worker[v] # "done", NEW q \in Seq(Packet),
         Len(q) <= WorkerQueue, Lost' \subseteq Lost \union Queued(q),
         Exited' = Exited \union {v}, MayDrop' <=> MayDrop
  PROVE  LossInv'
<1>1. IsFiniteSet(Lost) /\ IsFiniteSet(Queued(q)) /\ Cardinality(Queued(q)) <= Len(q)
  BY QueuedPackets DEF LossInv
<1>2. /\ IsFiniteSet(Lost \union Queued(q))
      /\ Cardinality(Lost \union Queued(q))
           = Cardinality(Lost) + Cardinality(Queued(q)) - Cardinality(Lost \intersect Queued(q))
  BY <1>1, FS_Union
<1>3. IsFiniteSet(Lost \intersect Queued(q))
  BY <1>1, FS_Intersection
<1>4. IsFiniteSet(Lost') /\ Cardinality(Lost') <= Cardinality(Lost \union Queued(q))
  BY <1>2, FS_Subset
<1>5. /\ Cardinality(Lost) \in Nat /\ Cardinality(Lost') \in Nat /\ Cardinality(Queued(q)) \in Nat
      /\ Cardinality(Lost \union Queued(q)) \in Nat
      /\ Cardinality(Lost \intersect Queued(q)) \in Nat /\ Len(q) \in Nat /\ WorkerQueue \in Nat
  BY <1>1, <1>2, <1>3, <1>4, FS_CardinalityType, PipelineAssumption
<1>6. Cardinality(Exited') = Cardinality(Exited) + 1
  BY ExitedFinite, FS_AddElement DEF Exited
<1> DEFINE n == Cardinality(Exited)
<1>7. n \in Nat /\ n * WorkerQueue \in Nat /\ (n + 1) * WorkerQueue = n * WorkerQueue + WorkerQueue
  BY ExitedFinite, <1>5
<1>8. Cardinality(Lost) <= n * WorkerQueue + One(~ MayDrop)
  BY DEF LossInv
<1>9. One(~ MayDrop) \in Nat /\ One(~ MayDrop) = One(~ MayDrop')
  BY DEF One
<1> DEFINE k == n * WorkerQueue
<1> HIDE DEF k
<1>10. Cardinality(Lost') <= k + WorkerQueue + One(~ MayDrop')
  <2>1. k \in Nat /\ Cardinality(Lost) <= k + One(~ MayDrop)
    BY <1>7, <1>8 DEF k
  <2> QED
    BY <1>1, <1>2, <1>4, <1>5, <1>9, <2>1
<1>11. Cardinality(Lost') <= Cardinality(Exited') * WorkerQueue + One(~ MayDrop')
  BY <1>6, <1>7, <1>10 DEF k
<1> QED
  BY <1>4, <1>11 DEF LossInv

LEMMA LossStep == PathInv /\ ExitsAreOrdered /\ LossInv /\ [Next]_vars => LossInv'
<1> SUFFICES ASSUME PathInv, ExitsAreOrdered, LossInv, [Next]_vars, NoneDead' PROVE LossInv'
  BY DEF LossInv
<1>1. CASE Producer
  <2>1. /\ NoneDead /\ Exited' = Exited /\ router' = router /\ (running' => running)
    BY <1>1 DEF Producer, ProducerCheck, ProducerEvent, ProducerSend, ProducerQuiet, ProducerEnds,
                ProducerStops, ProducerPanics, routed, worked, NoneDead, Exited
  <2>2. Lost' \subseteq Lost
    BY <1>1, ProducerPlaces DEF Lost
  <2> QED
    BY <2>1, <2>2, NoLoss DEF MayDrop
<1>2. CASE Router
  <2>1. NoneDead /\ Exited' = Exited /\ running' = running
    BY <1>2 DEF Router, worked, NoneDead, Exited
  <2>2. CASE RouterDrop
    <3>1. Lost' \subseteq Lost \union {routing}
      BY <1>2, <2>2, RouterPlaces DEF Lost
    <3>2. routing \in Packet /\ router = "send" /\ router' = "check"
      BY <2>2 DEF RouterDrop, PathInv, TypeInv, TypeOK
    <3>3. Route[routing.flow] \in Workers
      BY <3>2, PipelineAssumption DEF Packet
    <3>4. ~ running
      BY <2>1, <2>2, <3>3 DEF RouterDrop, Target, Listening, NoneDead, ExitsAreOrdered
    <3> QED
      BY <2>1, <3>1, <3>2, <3>4, OneLost DEF MayDrop
  <2>3. CASE ~ RouterDrop
    <3>1. Lost' \subseteq Lost
      BY <1>2, <2>3, RouterPlaces DEF Lost
    <3>2. MayDrop' => MayDrop
      BY <1>2, <2>1, <2>3
         DEF Router, RouterCheck, RouterReceive, RouterTimeout, RouterSend, RouterCount, MayDrop
    <3> QED
      BY <2>1, <3>1, <3>2, NoLoss
  <2> QED
    BY <2>2, <2>3
<1>3. ASSUME NEW v \in Workers, Worker(v) PROVE LossInv'
  <2>1. /\ running' = running /\ router' = router
    BY <1>3 DEF Worker, routed
  <2>2. /\ worker \in [Workers -> {"check", "receive", "work", "done", "dead"}]
        /\ toWorker[v] \in Seq(Packet) /\ Len(toWorker[v]) <= WorkerQueue
    BY DEF PathInv, TypeInv, TypeOK
  <2>3. /\ worker[v] \notin {"done", "dead"}
        /\ \A w \in Workers \ {v} : worker'[w] = worker[w]
    BY <1>3, <2>2
       DEF Worker, WorkerCheck, WorkerReceive, WorkerTimeout, WorkerProcess, WorkerPanics
  <2>4. NoneDead
    BY <2>3 DEF NoneDead
  <2>5. CASE worker'[v] = "done"
    <3>1. Lost' \subseteq Lost \union Queued(toWorker[v])
      BY <1>3, <2>5, WorkerPlaces DEF Lost
    <3>2. Exited' = Exited \union {v}
      BY <2>3, <2>5 DEF Exited
    <3> QED
      BY <2>1, <2>2, <2>3, <2>4, <3>1, <3>2, ChannelLost DEF MayDrop
  <2>6. CASE worker'[v] # "done"
    <3>1. worker'[v] # "dead"
      BY DEF NoneDead
    <3>2. Lost' \subseteq Lost
      BY <1>3, <2>6, <3>1, WorkerPlaces DEF Lost
    <3>3. Exited' = Exited
      BY <2>3, <2>6 DEF Exited
    <3> QED
      BY <2>1, <2>4, <3>2, <3>3, NoLoss DEF MayDrop
  <2> QED
    BY <2>5, <2>6
<1>4. CASE Interrupt \/ Inference \/ Main \/ UNCHANGED vars
  <2>1. /\ Lost' = Lost /\ worker' = worker /\ router' = router /\ (running' => running)
    BY <1>4, QuietPlaces DEF Lost
  <2> QED
    BY <2>1, NoLoss DEF MayDrop, NoneDead, Exited
<1> QED
  BY <1>1, <1>2, <1>3, <1>4 DEF Next

\* Nothing is in the channel of a worker that has exited.
ExitsAreEmpty == \A w \in Workers : worker[w] = "done" => toWorker[w] = << >>

\* The channel is dropped with its receiver, and the router cannot send to it.
LEMMA EmptyStep == PathInv /\ ExitsAreEmpty /\ [Next]_vars => ExitsAreEmpty'
<1> SUFFICES ASSUME PathInv, ExitsAreEmpty, [Next]_vars, NEW w \in Workers, worker'[w] = "done"
             PROVE  toWorker'[w] = << >>
  BY DEF ExitsAreEmpty
<1>1. /\ worker \in [Workers -> {"check", "receive", "work", "done", "dead"}]
      /\ toWorker \in [Workers -> Seq(Packet)]
  BY DEF PathInv, TypeInv, TypeOK
<1>2. CASE Router
  <2>1. worker' = worker /\ toWorker[w] = << >>
    BY <1>2 DEF Router, worked, ExitsAreEmpty
  <2>2. CASE RouterSend
    <3>1. Target(routing) # w
      BY <2>1, <2>2 DEF RouterSend, Listening
    <3> QED
      BY <1>1, <2>1, <2>2, <3>1 DEF RouterSend
  <2>3. CASE ~ RouterSend
    BY <1>2, <2>1, <2>3
       DEF Router, RouterCheck, RouterReceive, RouterTimeout, RouterCount, RouterDrop
  <2> QED
    BY <2>2, <2>3
<1>3. ASSUME NEW v \in Workers, Worker(v) PROVE toWorker'[w] = << >>
  <2>1. CASE v = w
    BY <1>1, <1>3, <2>1
       DEF Worker, WorkerCheck, WorkerReceive, WorkerTimeout, WorkerProcess, WorkerPanics
  <2>2. CASE v # w
    BY <1>1, <1>3, <2>2
       DEF Worker, WorkerCheck, WorkerReceive, WorkerTimeout, WorkerProcess, WorkerPanics,
           ExitsAreEmpty
  <2> QED
    BY <2>1, <2>2
<1>4. CASE Interrupt \/ Producer \/ Inference \/ Main \/ UNCHANGED vars
  <2>1. worker' = worker /\ toWorker' = toWorker
    BY <1>4 DEF Interrupt, Producer, Inference, Main, vars, worked
  <2> QED
    BY <2>1 DEF ExitsAreEmpty
<1> QED
  BY <1>2, <1>3, <1>4 DEF Next

\* What the workers still there have queued and in hand.
InWorkers == UNION {Waiting(w) : w \in Workers}

\* Each of them holds one packet more than its channel at most.
LEMMA FewInWorkers ==
  ASSUME PathInv, NoneDead, ExitsAreEmpty
  PROVE  /\ IsFiniteSet(InWorkers)
         /\ Cardinality(InWorkers)
              <= (Cardinality(Workers) - Cardinality(Exited)) * (WorkerQueue + 1)
<1> DEFINE There == Workers \ Exited
           Slots == There \X (0 .. WorkerQueue)
           held == [s \in Slots |-> IF s[2] = 0 THEN working[s[1]] ELSE toWorker[s[1]][s[2]]]
           Held == {held[s] : s \in Slots}
<1>1. /\ toWorker \in [Workers -> Seq(Packet)] /\ WorkerQueue \in Nat
      /\ \A w \in Workers : Len(toWorker[w]) <= WorkerQueue
      /\ \A w \in Workers : worker[w] = "work" <=> working[w] \in Packet
      /\ working \in [Workers -> Packet \union {NoPacket}]
  BY PipelineAssumption DEF PathInv, TypeInv, TypeOK
<1>2. InWorkers \subseteq Held
  <2> SUFFICES ASSUME NEW w \in Workers, NEW p \in Waiting(w) PROVE p \in Held
    BY DEF InWorkers
  <2>1. w \in There
    <3> SUFFICES ASSUME worker[w] = "done" PROVE FALSE
      BY DEF Exited
    <3>1. toWorker[w] = << >> /\ working[w] = NoPacket
      BY <1>1 DEF ExitsAreEmpty
    <3> QED
      BY <3>1, QueuedEmpty DEF Waiting
  <2>2. CASE p = working[w]
    <3>1. <<w, 0>> \in Slots /\ held[<<w, 0>>] = p
      BY <1>1, <2>1, <2>2
    <3> QED
      BY <3>1
  <2>3. CASE p \in Queued(toWorker[w])
    <3>1. PICK i \in 1 .. Len(toWorker[w]) : p = toWorker[w][i]
      BY <2>3 DEF Queued
    <3>2. i \in 0 .. WorkerQueue /\ i # 0
      BY <1>1, <3>1
    <3>3. <<w, i>> \in Slots /\ held[<<w, i>>] = p
      BY <2>1, <3>1, <3>2
    <3> QED
      BY <3>3
  <2> QED
    BY <2>2, <2>3 DEF Waiting
<1>3. /\ IsFiniteSet(There)
      /\ Cardinality(There) = Cardinality(Workers) - Cardinality(Exited)
      /\ Cardinality(There) \in Nat
  <2>1. IsFiniteSet(Workers) /\ Workers \intersect Exited = Exited
    BY PipelineAssumption DEF Exited
  <2>2. IsFiniteSet(There) /\ Cardinality(There) = Cardinality(Workers) - Cardinality(Exited)
    BY <2>1, FS_Difference
  <2> QED
    BY <2>2, FS_CardinalityType
<1>4. IsFiniteSet(0 .. WorkerQueue) /\ Cardinality(0 .. WorkerQueue) = WorkerQueue + 1
  BY <1>1, FS_Interval
<1>5. /\ IsFiniteSet(Slots)
      /\ Cardinality(Slots) = Cardinality(There) * Cardinality(0 .. WorkerQueue)
  BY <1>3, <1>4, FS_Product
<1>6. held \in Surjection(Slots, Held)
  BY DEF Surjection
<1>7. IsFiniteSet(Held) /\ Cardinality(Held) <= Cardinality(Slots)
  BY <1>5, <1>6, FS_Surjection
<1>8. IsFiniteSet(InWorkers) /\ Cardinality(InWorkers) <= Cardinality(Held)
  BY <1>2, <1>7, FS_Subset
<1>9. Cardinality(InWorkers) \in Nat /\ Cardinality(Held) \in Nat /\ Cardinality(Slots) \in Nat
  BY <1>5, <1>7, <1>8, FS_CardinalityType
<1>10. Cardinality(InWorkers) <= Cardinality(Slots)
  BY <1>7, <1>8, <1>9
<1> QED
  BY <1>3, <1>4, <1>5, <1>8, <1>10

\* The producer has one packet in hand, the router one while it sends.
LEMMA FewUpstream ==
  ASSUME PathInv
  PROVE  /\ IsFiniteSet(Upstream)
         /\ Cardinality(Upstream) <= ProducerQueue + 1 + One(router = "send")
<1> DEFINE Q == Queued(toRouter)
           R == IF router = "send" THEN Q \union {routing} ELSE Q
<1>1. /\ IsFiniteSet(Q) /\ Cardinality(Q) \in Nat /\ Cardinality(Q) <= ProducerQueue
      /\ ProducerQueue \in Nat
  <2>1. toRouter \in Seq(Packet) /\ Len(toRouter) <= ProducerQueue /\ Len(toRouter) \in Nat
    BY DEF PathInv, TypeInv, TypeOK
  <2>2. IsFiniteSet(Q) /\ Cardinality(Q) <= Len(toRouter)
    BY <2>1, QueuedPackets
  <2>3. Cardinality(Q) \in Nat /\ ProducerQueue \in Nat
    BY <2>2, FS_CardinalityType, PipelineAssumption
  <2> QED
    BY <2>1, <2>2, <2>3
<1> HIDE DEF Q
<1>2. /\ IsFiniteSet(R) /\ Cardinality(R) \in Nat
      /\ Cardinality(R) <= Cardinality(Q) + One(router = "send")
  <2>1. CASE router = "send"
    <3>1. /\ IsFiniteSet(Q \union {routing})
          /\ Cardinality(Q \union {routing})
               = IF routing \in Q THEN Cardinality(Q) ELSE Cardinality(Q) + 1
      BY ONLY <1>1, FS_AddElement
    <3> QED
      BY <1>1, <2>1, <3>1 DEF One
  <2>2. CASE router # "send"
    BY <1>1, <2>2 DEF One
  <2> QED
    BY <2>1, <2>2
<1>3. /\ IsFiniteSet(R \union {draft}) /\ Cardinality(R \union {draft}) \in Nat
      /\ Cardinality(R \union {draft}) <= Cardinality(R) + 1
  BY <1>2, FS_AddElement, FS_CardinalityType
<1>4. Upstream \subseteq R \union {draft}
  <2>1. router # "send" => routing = NoPacket
    BY DEF PathInv, TypeInv, TypeOK
  <2> QED
    BY <2>1 DEF Upstream, Q
<1>5. IsFiniteSet(Upstream) /\ Cardinality(Upstream) <= Cardinality(R \union {draft})
  BY <1>3, <1>4, FS_Subset
<1>6. Cardinality(Upstream) \in Nat /\ One(router = "send") \in Nat
  BY <1>5, FS_CardinalityType DEF One
<1> QED
  BY <1>1, <1>2, <1>3, <1>5, <1>6

\* The union of two finite sets has no more elements than the two have.
LEMMA FewTogether ==
  ASSUME NEW S, NEW T, IsFiniteSet(S), IsFiniteSet(T)
  PROVE  /\ IsFiniteSet(S \union T) /\ Cardinality(S \union T) <= Cardinality(S) + Cardinality(T)
         /\ Cardinality(S) \in Nat /\ Cardinality(T) \in Nat /\ Cardinality(S \union T) \in Nat
<1>1. /\ IsFiniteSet(S \union T) /\ IsFiniteSet(S \intersect T)
      /\ Cardinality(S \union T)
           = Cardinality(S) + Cardinality(T) - Cardinality(S \intersect T)
  BY FS_Union, FS_Intersection
<1>2. /\ Cardinality(S) \in Nat /\ Cardinality(T) \in Nat /\ Cardinality(S \union T) \in Nat
      /\ Cardinality(S \intersect T) \in Nat
  BY <1>1, FS_CardinalityType
<1> QED
  BY <1>1, <1>2

\* For any number of workers and any capacities, and whenever and however the
\* system is stopped: the captured packets that no window has seen are no more
\* than the producer's and the workers' channels hold, and one in the hands of
\* the producer, of the router and of each worker (main.rs:208-236).
THEOREM StopLosesFew == Spec => []LossBounded
<1> DEFINE IInv == ExitsAreOrdered /\ ExitsAreEmpty /\ LossInv
<1>1. Init => PathInv /\ IInv
  <2> SUFFICES ASSUME Init PROVE IInv
    BY InitType, InitOrder DEF PathInv
  <2>1. Lost = {} /\ Exited = {} /\ MayDrop
    BY InitPlaces DEF Init, Lost, Exited, MayDrop
  <2>2. IsFiniteSet(Lost) /\ Cardinality(Lost) = 0 /\ Cardinality(Exited) = 0
    BY <2>1, FS_EmptySet
  <2>3. 0 <= 0 * WorkerQueue + One(~ MayDrop)
    BY PipelineAssumption DEF One
  <2> QED
    BY <2>2, <2>3 DEF LossInv, ExitsAreOrdered, ExitsAreEmpty, Init
<1>2. PathInv /\ IInv /\ [Next]_vars => IInv'
  BY ExitsStep, EmptyStep, LossStep
<1>3. PathInv /\ IInv => LossBounded
  <2> SUFFICES ASSUME PathInv, IInv, NoneDead
               PROVE  Cardinality(Captured \ Processed)
                        <= ProducerQueue + 2 + Cardinality(Workers) * (WorkerQueue + 1)
    BY DEF LossBounded, NoneDead
  <2> DEFINE n == Cardinality(Exited)
             m == Cardinality(Workers)
             All == Lost \union (Upstream \union InWorkers)
  <2>1. n \in Nat /\ m \in Nat /\ n <= m /\ WorkerQueue \in Nat /\ ProducerQueue \in Nat
    BY ExitedFinite, PipelineAssumption
  <2>2. IsFiniteSet(Lost) /\ Cardinality(Lost) <= n * WorkerQueue + One(~ MayDrop)
    BY DEF LossInv
  <2>3. IsFiniteSet(Upstream) /\ Cardinality(Upstream) <= ProducerQueue + 1 + One(router = "send")
    BY FewUpstream
  <2>4. IsFiniteSet(InWorkers) /\ Cardinality(InWorkers) <= (m - n) * (WorkerQueue + 1)
    BY FewInWorkers
  <2>5. Captured \ Processed \subseteq All
    BY DEF Lost, Handed, InWorkers
  <2>6. /\ IsFiniteSet(All) /\ Cardinality(All) \in Nat /\ Cardinality(Lost) \in Nat
        /\ Cardinality(Upstream) \in Nat /\ Cardinality(InWorkers) \in Nat
        /\ Cardinality(All) <= Cardinality(Lost) + Cardinality(Upstream) + Cardinality(InWorkers)
    <3>1. /\ IsFiniteSet(Upstream \union InWorkers)
          /\ Cardinality(Upstream \union InWorkers) \in Nat
          /\ Cardinality(Upstream) \in Nat /\ Cardinality(InWorkers) \in Nat
          /\ Cardinality(Upstream \union InWorkers)
               <= Cardinality(Upstream) + Cardinality(InWorkers)
      BY <2>3, <2>4, FewTogether
    <3>2. /\ IsFiniteSet(All) /\ Cardinality(All) \in Nat /\ Cardinality(Lost) \in Nat
          /\ Cardinality(All) <= Cardinality(Lost) + Cardinality(Upstream \union InWorkers)
      BY <2>2, <3>1, FewTogether
    <3> QED
      BY <3>1, <3>2
  <2>7. Cardinality(Captured \ Processed) \in Nat
        /\ Cardinality(Captured \ Processed) <= Cardinality(All)
    BY <2>5, <2>6, FS_Subset, FS_CardinalityType
  <2>8. One(~ MayDrop) + One(router = "send") <= 1
        /\ One(~ MayDrop) \in Nat /\ One(router = "send") \in Nat
    BY DEF One, MayDrop
  <2> HIDE DEF n, m, All
  <2>9. /\ n * WorkerQueue \in Nat /\ (m - n) * (WorkerQueue + 1) \in Nat
        /\ m * (WorkerQueue + 1) \in Nat
        /\ n * WorkerQueue + (m - n) * (WorkerQueue + 1) <= m * (WorkerQueue + 1)
    BY <2>1
  <2>10. Cardinality(Captured \ Processed) <= ProducerQueue + 2 + m * (WorkerQueue + 1)
    <3> DEFINE a == n * WorkerQueue
               b == (m - n) * (WorkerQueue + 1)
               c == m * (WorkerQueue + 1)
    <3>1. a \in Nat /\ b \in Nat /\ c \in Nat /\ a + b <= c
      BY <2>9
    <3>2. Cardinality(Lost) <= a + One(~ MayDrop) /\ Cardinality(InWorkers) <= b
      BY <2>2, <2>4 DEF n, m
    <3> HIDE DEF a, b, c
    <3>3. Cardinality(Captured \ Processed) <= ProducerQueue + 2 + c
      BY <2>1, <2>3, <2>6, <2>7, <2>8, <3>1, <3>2
    <3> QED
      BY <3>3 DEF c
  <2> QED
    BY <2>10 DEF m
<1> QED
  BY <1>1, <1>2, <1>3, PathStep, PTL DEF Spec

-----------------------------------------------------------------------------
(* Shutdown.                                                               *)

\* StepsLeft for given numbers of steps.
Steps(router_steps, inference_steps, main_steps, worker_steps) ==
  ({<<"router">>} \X (1 .. router_steps)) \union ({<<"inference">>} \X (1 .. inference_steps))
    \union ({<<"main">>} \X (1 .. main_steps))
    \union UNION {{<<"worker", w>>} \X (1 .. worker_steps[w]) : w \in Workers}

\* What belongs to a thread of the set.
LEMMA StepsOf ==
  ASSUME NEW r \in Nat, NEW i \in Nat, NEW m \in Nat, NEW ws \in [Workers -> Nat]
  PROVE  /\ \A k : <<<<"router">>, k>> \in Steps(r, i, m, ws) <=> k \in 1 .. r
         /\ \A k : <<<<"inference">>, k>> \in Steps(r, i, m, ws) <=> k \in 1 .. i
         /\ \A k : <<<<"main">>, k>> \in Steps(r, i, m, ws) <=> k \in 1 .. m
         /\ \A w \in Workers : \A k : <<<<"worker", w>>, k>> \in Steps(r, i, m, ws) <=> k \in 1 .. ws[w]
<1>1. \A w : <<"router">> # <<"worker", w>> /\ <<"inference">> # <<"worker", w>>
             /\ <<"main">> # <<"worker", w>>
  OBVIOUS
<1>2. <<"router">> # <<"inference">> /\ <<"router">> # <<"main">> /\ <<"inference">> # <<"main">>
  OBVIOUS
<1>3. \A w, v : <<"worker", w>> = <<"worker", v>> <=> w = v
  OBVIOUS
<1>4. \A t, k : <<t, k>> \in Steps(r, i, m, ws) <=>
           \/ t = <<"router">> /\ k \in 1 .. r
           \/ t = <<"inference">> /\ k \in 1 .. i
           \/ t = <<"main">> /\ k \in 1 .. m
           \/ \E w \in Workers : t = <<"worker", w>> /\ k \in 1 .. ws[w]
  BY DEF Steps
<1> QED
  BY <1>1, <1>2, <1>3, <1>4

\* Fewer steps of one thread, and no more of the others, are a smaller set.
LEMMA FewerSteps ==
  ASSUME NEW r \in Nat, NEW i \in Nat, NEW m \in Nat, NEW ws \in [Workers -> Nat],
         NEW p \in Nat, NEW j \in Nat, NEW n \in Nat, NEW vs \in [Workers -> Nat],
         p <= r, j <= i, n <= m, \A w \in Workers : vs[w] <= ws[w],
         p < r \/ j < i \/ n < m \/ \E w \in Workers : vs[w] < ws[w]
  PROVE  /\ Steps(p, j, n, vs) \subseteq Steps(r, i, m, ws)
         /\ Steps(p, j, n, vs) # Steps(r, i, m, ws)
<1>1. Steps(p, j, n, vs) \subseteq Steps(r, i, m, ws)
  <2>1. /\ 1 .. p \subseteq 1 .. r /\ 1 .. j \subseteq 1 .. i /\ 1 .. n \subseteq 1 .. m
        /\ \A w \in Workers : 1 .. vs[w] \subseteq 1 .. ws[w]
    OBVIOUS
  <2> QED
    BY <2>1 DEF Steps
<1>2. CASE p < r
  <2>1. r \in 1 .. r /\ ~ (r \in 1 .. p)
    BY <1>2
  <2>2. <<<<"router">>, r>> \in Steps(r, i, m, ws)
    BY <2>1, StepsOf
  <2>3. ~ (<<<<"router">>, r>> \in Steps(p, j, n, vs))
    BY <2>1, StepsOf
  <2> QED
    BY ONLY <1>1, <2>2, <2>3
<1>3. CASE j < i
  <2>1. i \in 1 .. i /\ ~ (i \in 1 .. j)
    BY <1>3
  <2>2. <<<<"inference">>, i>> \in Steps(r, i, m, ws)
    BY <2>1, StepsOf
  <2>3. ~ (<<<<"inference">>, i>> \in Steps(p, j, n, vs))
    BY <2>1, StepsOf
  <2> QED
    BY ONLY <1>1, <2>2, <2>3
<1>4. CASE n < m
  <2>1. m \in 1 .. m /\ ~ (m \in 1 .. n)
    BY <1>4
  <2>2. <<<<"main">>, m>> \in Steps(r, i, m, ws)
    BY <2>1, StepsOf
  <2>3. ~ (<<<<"main">>, m>> \in Steps(p, j, n, vs))
    BY <2>1, StepsOf
  <2> QED
    BY ONLY <1>1, <2>2, <2>3
<1>5. CASE \E w \in Workers : vs[w] < ws[w]
  <2>1. PICK w \in Workers : vs[w] < ws[w]
    BY <1>5
  <2>2. ws[w] \in 1 .. ws[w] /\ ~ (ws[w] \in 1 .. vs[w])
    BY <2>1
  <2>3. <<<<"worker", w>>, ws[w]>> \in Steps(r, i, m, ws)
    BY <2>2, StepsOf
  <2>4. ~ (<<<<"worker", w>>, ws[w]>> \in Steps(p, j, n, vs))
    BY <2>2, StepsOf
  <2> QED
    BY ONLY <1>1, <2>3, <2>4
<1> QED
  BY <1>2, <1>3, <1>4, <1>5

WorkersSteps == [w \in Workers |-> WorkerSteps(w)]

\* The numbers of steps are numbers, and make up StepsLeft.
Counts ==
  /\ RouterSteps \in Nat /\ InferenceSteps \in Nat /\ MainSteps \in Nat
  /\ WorkersSteps \in [Workers -> Nat]
  /\ \A w \in Workers : WorkersSteps[w] = WorkerSteps(w)
  /\ StepsLeft = Steps(RouterSteps, InferenceSteps, MainSteps, WorkersSteps)

\* WorkerSteps as a function adds nothing.
LEMMA StepCounts == Counts
<1>1. RouterSteps \in Nat
  BY DEF RouterSteps
<1>2. InferenceSteps \in Nat
  BY DEF InferenceSteps
<1>3. MainSteps \in Nat
  BY DEF MainSteps
<1>4. \A w \in Workers : WorkerSteps(w) \in Nat
  BY DEF WorkerSteps
<1>5. StepsLeft = Steps(RouterSteps, InferenceSteps, MainSteps, WorkersSteps)
  BY DEF StepsLeft, Steps, WorkersSteps
<1> QED
  BY <1>1, <1>2, <1>3, <1>4, <1>5 DEF WorkersSteps, Counts

\* The steps left are finitely many.
LEMMA StepsFinite == IsFiniteSet(StepsLeft)
<1> DEFINE threads == {<<"router">>, <<"inference">>, <<"main">>} \union ({"worker"} \X Workers)
<1>1. IsFiniteSet(threads)
  <2>1. IsFiniteSet({<<"router">>, <<"inference">>, <<"main">>})
    <3>1. IsFiniteSet({<<"router">>}) /\ IsFiniteSet({<<"inference">>}) /\ IsFiniteSet({<<"main">>})
      BY FS_Singleton, Zenon
    <3>2. IsFiniteSet(({<<"router">>} \union {<<"inference">>}) \union {<<"main">>})
      BY <3>1, FS_Union, Zenon
    <3>3. {<<"router">>, <<"inference">>, <<"main">>}
            = ({<<"router">>} \union {<<"inference">>}) \union {<<"main">>}
      OBVIOUS
    <3> QED
      BY <3>2, <3>3, Zenon
  <2>2. IsFiniteSet({"worker"} \X Workers)
    BY FS_Singleton, FS_Product, PipelineAssumption, Zenon
  <2> QED
    BY <2>1, <2>2, FS_Union, Zenon
<1>2. IsFiniteSet(1 .. 4)
  <2>1. 1 \in Int /\ 4 \in Int
    OBVIOUS
  <2> QED
    BY <2>1, FS_Interval, Zenon
<1>3. IsFiniteSet(threads \X (1 .. 4))
  BY <1>1, <1>2, FS_Product, Zenon
<1>4. /\ 1 .. RouterSteps \subseteq 1 .. 4 /\ 1 .. InferenceSteps \subseteq 1 .. 4
      /\ 1 .. MainSteps \subseteq 1 .. 4 /\ \A w \in Workers : 1 .. WorkerSteps(w) \subseteq 1 .. 4
  BY DEF RouterSteps, InferenceSteps, MainSteps, WorkerSteps
<1>5. StepsLeft \subseteq threads \X (1 .. 4)
  BY <1>4 DEF StepsLeft
<1> QED
  BY <1>3, <1>5, FS_Subset, Zenon

\* A step of the router.
LEMMA RouterAdvances ==
  TypeInv /\ ~ running /\ Router => RouterSteps' < RouterSteps
BY DEF TypeInv, TypeOK, Router, RouterCheck, RouterReceive, RouterTimeout, RouterSend, RouterCount,
       RouterDrop, RouterSteps

\* A step of a worker.
LEMMA WorkerAdvances ==
  ASSUME TypeInv, ~ running, NEW v \in Workers, Worker(v)
  PROVE  /\ WorkerSteps(v)' < WorkerSteps(v)
         /\ \A w \in Workers \ {v} : WorkerSteps(w)' = WorkerSteps(w)
<1>1. worker \in [Workers -> {"check", "receive", "work", "done", "dead"}]
  BY DEF TypeInv, TypeOK
<1> QED
  BY <1>1 DEF Worker, WorkerCheck, WorkerReceive, WorkerTimeout, WorkerProcess, WorkerPanics,
              WorkerSteps

\* A step of the inference thread.
LEMMA InferenceAdvances ==
  TypeInv /\ ~ running /\ Inference => InferenceSteps' < InferenceSteps
BY DEF TypeInv, TypeOK, Inference, InferenceCheck, InferenceJudge, InferenceTimeout, InferenceSteps

\* A step of main, which may start the inference thread.
LEMMA MainAdvances ==
  TypeInv /\ ~ running /\ Main => MainSteps' < MainSteps /\ InferenceSteps' <= InferenceSteps
<1> SUFFICES ASSUME TypeInv, ~ running, Main
             PROVE  MainSteps' < MainSteps /\ InferenceSteps' <= InferenceSteps
  OBVIOUS
<1>1. main \in {"load", "collect", "gather"} => inference = "unborn"
  BY DEF TypeInv, TrainingPhase
<1> QED
  BY <1>1 DEF TypeInv, TypeOK, Main, MainLoads, MainFindsNoModel, MainCollects, MainGathers, MainTimeout,
              MainTrains, MainAborts, MainJoins, MainSteps, InferenceSteps

\* For any number of workers, flows and capacities: after the flag is cleared the
\* threads but the producer take finitely many steps (StepsFinite), since each of
\* them shrinks the set of those left.
THEOREM ShutdownIsFinite == Spec => ShutdownAdvances
<1> DEFINE advances == ~ running => \/ StepsLeft' \subseteq StepsLeft /\ StepsLeft' # StepsLeft
                                    \/ UNCHANGED <<router, worker, inference, main>>
<1>1. ASSUME TypeInv, [Next]_vars PROVE advances
  <2> SUFFICES ASSUME ~ running, ~ UNCHANGED <<router, worker, inference, main>>
               PROVE  StepsLeft' \subseteq StepsLeft /\ StepsLeft' # StepsLeft
    OBVIOUS
  <2>1. Counts'
    BY StepCounts, PTL
  <2>2. \/ Router \/ Inference \/ Main \/ \E v \in Workers : Worker(v)
    BY <1>1 DEF Next, vars, Interrupt, Producer, routed, worked, judged
  <2>3. /\ RouterSteps' <= RouterSteps /\ InferenceSteps' <= InferenceSteps
        /\ MainSteps' <= MainSteps
        /\ \A w \in Workers : WorkersSteps'[w] <= WorkersSteps[w]
        /\ \/ RouterSteps' < RouterSteps \/ InferenceSteps' < InferenceSteps
           \/ MainSteps' < MainSteps
           \/ \E w \in Workers : WorkersSteps'[w] < WorkersSteps[w]
    <3>1. CASE Router
      <4>1. RouterSteps' < RouterSteps
        BY <1>1, <3>1, RouterAdvances
      <4>2. UNCHANGED <<InferenceSteps, MainSteps, WorkersSteps>>
        BY <3>1 DEF Router, worked, judged, InferenceSteps, MainSteps, WorkersSteps, WorkerSteps
      <4> QED
        BY <2>1, <4>1, <4>2, StepCounts DEF Counts
    <3>2. CASE Inference
      <4>1. InferenceSteps' < InferenceSteps
        BY <1>1, <3>2, InferenceAdvances
      <4>2. UNCHANGED <<RouterSteps, MainSteps, WorkersSteps>>
        BY <3>2 DEF Inference, routed, worked, RouterSteps, MainSteps, WorkersSteps, WorkerSteps
      <4> QED
        BY <2>1, <4>1, <4>2, StepCounts DEF Counts
    <3>3. CASE Main
      <4>1. MainSteps' < MainSteps /\ InferenceSteps' <= InferenceSteps
        BY <1>1, <3>3, MainAdvances
      <4>2. UNCHANGED <<RouterSteps, WorkersSteps>>
        BY <3>3 DEF Main, routed, worked, RouterSteps, WorkersSteps, WorkerSteps
      <4> QED
        BY <2>1, <4>1, <4>2, StepCounts DEF Counts
    <3>4. CASE \E v \in Workers : Worker(v)
      <4>1. PICK v \in Workers : Worker(v)
        BY <3>4
      <4>2. /\ WorkerSteps(v)' < WorkerSteps(v)
            /\ \A w \in Workers \ {v} : WorkerSteps(w)' = WorkerSteps(w)
        BY <1>1, <4>1, WorkerAdvances
      <4>3. UNCHANGED <<RouterSteps, InferenceSteps, MainSteps>>
        BY <4>1 DEF Worker, routed, judged, RouterSteps, InferenceSteps, MainSteps
      <4>4. \A w \in Workers : WorkersSteps'[w] = WorkerSteps(w)' /\ WorkersSteps[w] = WorkerSteps(w)
        BY DEF WorkersSteps
      <4>5. \A w \in Workers : WorkersSteps'[w] <= WorkersSteps[w]
        BY <2>1, <4>2, <4>4, StepCounts DEF Counts
      <4> QED
        BY <4>2, <4>3, <4>4, <4>5, StepCounts DEF Counts
    <3> QED
      BY <2>2, <3>1, <3>2, <3>3, <3>4
  <2>4. /\ StepsLeft = Steps(RouterSteps, InferenceSteps, MainSteps, WorkersSteps)
        /\ StepsLeft' = Steps(RouterSteps', InferenceSteps', MainSteps', WorkersSteps')
    BY <2>1, StepCounts DEF Counts, Steps
  <2> QED
    BY <2>1, <2>3, <2>4, StepCounts, FewerSteps DEF Counts
<1> QED
  BY <1>1, InitType, TypeStep, PTL DEF Spec, ShutdownAdvances
=============================================================================
