---------------------------- MODULE Daemon_proofs ----------------------------
(***************************************************************************)
(* Safety of the daemon and its engine, for any number of workers, any     *)
(* channel and batch size. The engine's part is an invariant of EngineNext *)
(* alone; what main and the metrics loop do leaves the engine as it is.    *)
(***************************************************************************)
EXTENDS Daemon, FiniteSetTheorems, TLAPS

Processing == { w \in Workers : worker[w] = "process" }

\* The listener's own WaitGroup counts while it runs, its channel is closed
\* only after its last send, and without a listener nothing is ever queued.
Lifecycle ==
  /\ listening => listener \in {"check", "read", "offer", "close", "finish"}
  /\ outClosed => listener \in {"finish", "ended"}
  /\ listener = "absent" => queue = 0 /\ batch = 0

EngineInv ==
  /\ EngineTypeOK /\ PacketsConserved /\ Lifecycle
  /\ QuietAfterReturn /\ NoWorkerAbandonsQueue

-----------------------------------------------------------------------------
(* The engine. *)

LEMMA EngineStarts == EngineInit => EngineInv
<1> SUFFICES ASSUME EngineInit PROVE EngineInv
  OBVIOUS
<1>1. EngineTypeOK
  <2>1. StagesOK
    BY DEF EngineInit, StagesOK
  <2>2. NumbersOK
    BY RunAssumption DEF RunAssumption, EngineInit, NumbersOK
  <2>3. QED  BY <2>1, <2>2 DEF EngineTypeOK
<1>2. Lifecycle /\ QuietAfterReturn /\ NoWorkerAbandonsQueue
  BY <1>1 DEF EngineInit, EngineTypeOK, StagesOK, Lifecycle, QuietAfterReturn, NoWorkerAbandonsQueue
<1>3. { w \in Workers : worker[w] = "process" } = {}
  BY DEF EngineInit
<1>4. PacketsConserved
  BY <1>3, FS_EmptySet DEF EngineInit, PacketsConserved
<1>5. QED  BY <1>1, <1>2, <1>4 DEF EngineInv

LEMMA StagesStep == EngineTypeOK /\ EngineNext => StagesOK'
<1> SUFFICES ASSUME EngineTypeOK, EngineNext PROVE StagesOK'
  OBVIOUS
<1> USE DEF EngineTypeOK, StagesOK, udp, ListenerStep, RunStep
<1>1. CASE StartListening  BY <1>1 DEF StartListening
<1>2. CASE CheckContext  BY <1>2 DEF CheckContext
<1>3. CASE ReadBatch  BY <1>3 DEF ReadBatch
<1>4. CASE ReadFails  BY <1>4 DEF ReadFails
<1>5. CASE Offer  BY <1>5 DEF Offer
<1>6. CASE EndBatch  BY <1>6 DEF EndBatch
<1>7. CASE Deferred  BY <1>7 DEF Deferred
<1>8. ASSUME NEW w \in Workers, Receive(w) PROVE StagesOK'
  BY <1>8 DEF Receive
<1>9. ASSUME NEW w \in Workers, ProcessPacket(w) PROVE StagesOK'
  BY <1>9 DEF ProcessPacket
<1>10. CASE TickLoop  BY <1>10 DEF TickLoop
<1>11. CASE Serve  BY <1>11 DEF Serve
<1>12. CASE Cancel  BY <1>12 DEF Cancel
<1>13. CASE Run
  <2>1. run' \in {"running", "close", "await", "wait", "returned"}
    BY <1>13 DEF Run
  <2>2. done' \in BOOLEAN
    BY <1>13 DEF Run
  <2>3. cancelled' \in BOOLEAN /\ listening' \in BOOLEAN /\ outClosed' \in BOOLEAN
    BY <1>13 DEF Run
  <2>4. UNCHANGED <<listener, worker, tick, server>>
    BY <1>13 DEF Run
  <2>5. QED  BY <2>1, <2>2, <2>3, <2>4
<1>14. QED
  BY <1>1, <1>2, <1>3, <1>4, <1>5, <1>6, <1>7, <1>8, <1>9, <1>10, <1>11, <1>12, <1>13
     DEF EngineNext, Listen, Work

LEMMA NumbersStep == EngineTypeOK /\ EngineNext => NumbersOK'
<1> SUFFICES ASSUME EngineTypeOK, EngineNext PROVE NumbersOK'
  OBVIOUS
<1> USE RunAssumption DEF RunAssumption, EngineTypeOK, NumbersOK, udp, counts, results, ListenerStep
<1>1. CASE StartListening  BY <1>1 DEF StartListening
<1>2. CASE CheckContext  BY <1>2 DEF CheckContext
<1>3. CASE ReadBatch
  <2>1. batch' \in 0 .. BatchSize /\ received' \in 0 .. MaxPackets
    <3> HIDE DEF EngineTypeOK, NumbersOK
    <3>1. received \in 0 .. MaxPackets  BY DEF EngineTypeOK, NumbersOK
    <3>2. /\ batch' \in 0 .. BatchSize
          /\ received + batch' <= MaxPackets /\ received' = received + batch'
      BY <1>3 DEF ReadBatch
    <3>3. PICK n \in 0 .. BatchSize : batch' = n
      BY <3>2
    <3>4. received' = received + n /\ received + n <= MaxPackets
      BY <3>2, <3>3
    <3>5. received + n \in 0 .. MaxPackets
      BY <3>1, <3>4
    <3>6. QED  BY <3>2, <3>4, <3>5
  <2>2. UNCHANGED <<queue, ignored, dropped, routed, rejected, frames>> /\ listener' = "offer"
    BY <1>3 DEF ReadBatch
  <2>3. batch' \in 0 .. BatchSize /\ queue' \in 0 .. ChannelSize /\ received' \in 0 .. MaxPackets
    BY <2>1, <2>2
  <2>4. ignored' \in Nat /\ dropped' \in Nat /\ routed' \in Nat /\ rejected' \in Nat
    BY <2>2
  <2>5. frames' \in 0 .. MaxFrames
    BY <2>2
  <2>6. batch' > 0 => listener' = "offer"
    BY <2>2
  <2> HIDE DEF EngineTypeOK
  <2>7. QED  BY <2>3, <2>4, <2>5, <2>6, Zenon DEF NumbersOK
<1>4. CASE ReadFails  BY <1>4 DEF ReadFails
<1>5. CASE Offer  BY <1>5 DEF Offer, CountDropped
<1>6. CASE EndBatch  BY <1>6 DEF EndBatch, BatchDone
<1>7. CASE Deferred  BY <1>7 DEF Deferred
<1>8. ASSUME NEW w \in Workers, Receive(w) PROVE NumbersOK'
  BY <1>8 DEF Receive
<1>9. ASSUME NEW w \in Workers, ProcessPacket(w) PROVE NumbersOK'
  BY <1>9 DEF ProcessPacket
<1>10. CASE TickLoop  BY <1>10 DEF TickLoop
<1>11. CASE Serve  BY <1>11 DEF Serve
<1>12. CASE Cancel  BY <1>12 DEF Cancel
<1>13. CASE Run  BY <1>13 DEF Run
<1>14. QED
  BY <1>1, <1>2, <1>3, <1>4, <1>5, <1>6, <1>7, <1>8, <1>9, <1>10, <1>11, <1>12, <1>13
     DEF EngineNext, Listen, Work

LEMMA EngineTypeStep == EngineTypeOK /\ EngineNext => EngineTypeOK'
BY StagesStep, NumbersStep DEF EngineTypeOK

LEMMA LifecycleStep == EngineTypeOK /\ Lifecycle /\ EngineNext => Lifecycle'
<1> SUFFICES ASSUME EngineTypeOK, Lifecycle, EngineNext PROVE Lifecycle'
  OBVIOUS
<1> USE DEF EngineTypeOK, StagesOK, Lifecycle, udp, ListenerStep, RunStep
<1>1. CASE StartListening  BY <1>1 DEF StartListening
<1>2. CASE CheckContext  BY <1>2 DEF CheckContext
<1>3. CASE ReadBatch  BY <1>3 DEF ReadBatch
<1>4. CASE ReadFails  BY <1>4 DEF ReadFails
<1>5. CASE Offer  BY <1>5 DEF Offer
<1>6. CASE EndBatch  BY <1>6 DEF EndBatch
<1>7. CASE Deferred  BY <1>7 DEF Deferred
<1>8. ASSUME NEW w \in Workers, Receive(w) PROVE Lifecycle'
  BY <1>8 DEF Receive
<1>9. ASSUME NEW w \in Workers, ProcessPacket(w) PROVE Lifecycle'
  BY <1>9 DEF ProcessPacket
<1>10. CASE TickLoop  BY <1>10 DEF TickLoop
<1>11. CASE Serve  BY <1>11 DEF Serve
<1>12. CASE Cancel  BY <1>12 DEF Cancel
<1>13. CASE Run  BY <1>13 DEF Run
<1>14. QED
  BY <1>1, <1>2, <1>3, <1>4, <1>5, <1>6, <1>7, <1>8, <1>9, <1>10, <1>11, <1>12, <1>13
     DEF EngineNext, Listen, Work

\* Cardinalities: a worker that takes a packet, and one that is done.
LEMMA OneMore ==
  ASSUME NEW S, NEW T, NEW x, IsFiniteSet(S), x \notin S, T = S \cup {x}
  PROVE  Cardinality(T) = Cardinality(S) + 1 /\ Cardinality(S) \in Nat
BY FS_AddElement, FS_CardinalityType

LEMMA ProcessingFinite ==
  /\ IsFiniteSet(Processing)
  /\ Cardinality(Processing) \in Nat
<1>1. Processing \subseteq Workers  BY DEF Processing
<1>2. QED  BY <1>1, RunAssumption, FS_Subset, FS_CardinalityType DEF RunAssumption

LEMMA ConservedStep ==
  EngineTypeOK /\ PacketsConserved /\ EngineNext => PacketsConserved'
<1> SUFFICES ASSUME EngineTypeOK, PacketsConserved, EngineNext PROVE PacketsConserved'
  OBVIOUS
<1> DEFINE total == batch + ignored + dropped + queue + routed + rejected
<1>1. received = total + Cardinality(Processing)
  BY DEF PacketsConserved, Processing
<1>2. Cardinality(Processing) \in Nat /\ IsFiniteSet(Processing)
  BY ProcessingFinite
<1>3. ASSUME worker' = worker PROVE Processing' = Processing
  BY <1>3 DEF Processing
<1>4. ASSUME received' = total' + Cardinality(Processing') PROVE PacketsConserved'
  BY <1>4 DEF PacketsConserved, Processing
<1>5. /\ batch \in Nat /\ queue \in Nat /\ received \in Nat /\ ignored \in Nat
      /\ dropped \in Nat /\ routed \in Nat /\ rejected \in Nat
  BY RunAssumption DEF RunAssumption, EngineTypeOK, NumbersOK
<1>6. total \in Nat
  BY <1>5
<1>7. worker \in [Workers -> {"select", "process", "ended"}]
  BY DEF EngineTypeOK, StagesOK
<1> USE DEF udp, counts, results
<1>9. CASE UNCHANGED <<worker, received, batch, queue, ignored, dropped, routed, rejected>>
  BY <1>1, <1>3, <1>4, <1>9
<1>10. CASE ReadBatch
  <2>1. /\ batch = 0 /\ batch' \in Nat /\ received' = received + batch'
        /\ UNCHANGED <<worker, queue, ignored, dropped, routed, rejected>>
    <3>1. listener = "read" /\ batch' \in 0 .. BatchSize /\ received' = received + batch'
      BY <1>10 DEF ReadBatch, ListenerStep
    <3>2. batch = 0
      BY <3>1, <1>5 DEF EngineTypeOK, NumbersOK
    <3>3. batch' \in Nat
      BY <3>1, RunAssumption DEF RunAssumption
    <3>4. QED  BY <3>1, <3>2, <3>3, <1>10 DEF ReadBatch
  <2>2. total' = total + batch'
    BY <2>1, <1>5
  <2>3. QED  BY <2>1, <2>2, <1>1, <1>2, <1>3, <1>4, <1>6
<1>11. CASE Offer
  <2>1. total' = total /\ UNCHANGED <<worker, received>>
    BY <1>5, <1>11 DEF Offer, CountDropped
  <2>2. QED  BY <2>1, <1>1, <1>3, <1>4
<1>12. ASSUME NEW w \in Workers, Receive(w) PROVE PacketsConserved'
  <2>1. CASE UNCHANGED queue
    <3>1. Processing' = Processing
      <4>1. worker[w] = "select" /\ (worker' = [worker EXCEPT ![w] = "ended"])
        BY <2>1, <1>5, <1>12 DEF Receive
      <4>2. \A v \in Workers : worker'[v] = "process" <=> worker[v] = "process"
        BY <4>1, <1>7
      <4>3. QED  BY <4>2 DEF Processing
    <3>2. total' = total /\ received' = received
      BY <2>1, <1>12 DEF Receive
    <3>3. QED  BY <1>1, <1>4, <3>1, <3>2
  <2>2. CASE queue > 0 /\ queue' = queue - 1 /\ worker' = [worker EXCEPT ![w] = "process"]
    <3>1. w \notin Processing /\ Processing' = Processing \cup {w}
      BY <2>2, <1>7, <1>12 DEF Receive, Processing
    <3>2. Cardinality(Processing') = Cardinality(Processing) + 1
      BY <3>1, <1>2, OneMore
    <3>3. total' = total - 1 /\ received' = received
      BY <2>2, <1>5, <1>12 DEF Receive
    <3>4. QED  BY <1>1, <1>2, <1>4, <1>6, <3>2, <3>3
  <2>3. QED  BY <2>1, <2>2, <1>12 DEF Receive
<1>13. ASSUME NEW w \in Workers, ProcessPacket(w) PROVE PacketsConserved'
  <2>1. w \notin Processing' /\ Processing = Processing' \cup {w}
    BY <1>7, <1>13 DEF ProcessPacket, Processing
  <2>2. IsFiniteSet(Processing')
    BY <2>1, <1>2, FS_Subset
  <2>3. /\ Cardinality(Processing) = Cardinality(Processing') + 1
        /\ Cardinality(Processing') \in Nat
    BY <2>1, <2>2, OneMore
  <2>4. total' = total + 1 /\ received' = received
    BY <1>5, <1>13 DEF ProcessPacket
  <2>5. received' = total' + Cardinality(Processing')
    BY <1>1, <1>2, <1>6, <2>3, <2>4
  <2>6. QED  BY <1>4, <2>5
<1>14. CASE StartListening \/ CheckContext \/ ReadFails \/ EndBatch \/ Deferred
  BY <1>9, <1>14 DEF StartListening, CheckContext, ReadFails, EndBatch, Deferred
<1>15. CASE TickLoop \/ Serve \/ Cancel \/ Run
  BY <1>9, <1>15 DEF TickLoop, Serve, Cancel, Run
<1>16. QED
  BY <1>10, <1>11, <1>12, <1>13, <1>14, <1>15 DEF EngineNext, Listen, Work

LEMMA QuietStep ==
  EngineTypeOK /\ Lifecycle /\ QuietAfterReturn /\ EngineNext => QuietAfterReturn'
<1> SUFFICES ASSUME EngineTypeOK, Lifecycle, QuietAfterReturn, EngineNext, run' = "returned"
             PROVE  AllEnded' /\ batch' = 0 /\ ~listening'
  BY DEF QuietAfterReturn
<1>1. CASE Run
  <2>1. AllEnded /\ batch = 0 /\ ~listening
    <3>1. run = "returned" \/ AllEnded
      BY <1>1 DEF Run, RunStep
    <3>2. AllEnded => batch = 0 /\ ~listening
      <4>1. AllEnded => listener \in {"absent", "ended"}
        BY DEF AllEnded
      <4>2. batch > 0 => listener = "offer"
        BY DEF EngineTypeOK, NumbersOK
      <4>3. batch \in Nat
        BY RunAssumption DEF RunAssumption, EngineTypeOK, NumbersOK
      <4>4. QED  BY <4>1, <4>2, <4>3 DEF Lifecycle
    <3>3. QED  BY <3>1, <3>2 DEF QuietAfterReturn
  <2>2. QED  BY <2>1, <1>1 DEF Run, AllEnded
<1>2. CASE ~Run
  <2>1. run = "returned"
    BY <1>2 DEF EngineNext, Listen, Work, StartListening, CheckContext, ReadBatch, ReadFails,
        Offer, EndBatch, Deferred, Receive, ProcessPacket, TickLoop, Serve, Cancel
  <2>2. AllEnded /\ batch = 0 /\ ~listening
    BY <2>1 DEF QuietAfterReturn
  <2>3. Cancel
    BY <1>2, <2>2 DEF EngineNext, Listen, Work, StartListening, CheckContext, ReadBatch,
        ReadFails, Offer, EndBatch, Deferred, Receive, ProcessPacket, TickLoop, Serve,
        AllEnded, ListenerStep
  <2>4. QED  BY <2>2, <2>3 DEF Cancel, AllEnded, udp
<1>3. QED  BY <1>1, <1>2

LEMMA AbandonStep ==
  EngineTypeOK /\ Lifecycle /\ NoWorkerAbandonsQueue /\ EngineNext => NoWorkerAbandonsQueue'
<1> SUFFICES ASSUME EngineTypeOK, Lifecycle, NoWorkerAbandonsQueue, EngineNext
             PROVE  NoWorkerAbandonsQueue'
  OBVIOUS
<1> DEFINE someEnded == \E w \in Workers : worker[w] = "ended"
           settled == queue = 0 /\ (listener # "absent" => outClosed)
<1>1. ~cancelled /\ someEnded => settled
  BY DEF NoWorkerAbandonsQueue
<1>2. ASSUME cancelled' = cancelled, worker' = worker,
             settled => settled'
      PROVE  NoWorkerAbandonsQueue'
  BY <1>1, <1>2 DEF NoWorkerAbandonsQueue
<1>3. ASSUME cancelled' PROVE NoWorkerAbandonsQueue'
  BY <1>3 DEF NoWorkerAbandonsQueue
<1> USE DEF udp
<1>4. CASE Listen
  <2>1. cancelled' = cancelled /\ worker' = worker
    BY <1>4 DEF Listen, StartListening, CheckContext, ReadBatch, ReadFails, Offer, EndBatch, Deferred
  <2>2. settled /\ listener = "absent" => FALSE
    BY <1>4 DEF Listen, StartListening, CheckContext, ReadBatch, ReadFails, Offer, EndBatch,
        Deferred, ListenerStep
  <2>3. outClosed => Deferred
    BY <1>4 DEF Listen, StartListening, CheckContext, ReadBatch, ReadFails, Offer, EndBatch,
        Deferred, ListenerStep, Lifecycle
  <2>4. settled => settled'
    BY <2>2, <2>3 DEF Deferred
  <2>5. QED  BY <2>1, <2>4, <1>2
<1>5. ASSUME NEW w \in Workers, Receive(w) PROVE NoWorkerAbandonsQueue'
  <2>0. worker \in [Workers -> {"select", "process", "ended"}]
    BY DEF EngineTypeOK, StagesOK
  <2>1. UNCHANGED <<cancelled, listener, outClosed>>
    BY <1>5 DEF Receive
  <2>2. CASE worker' = [worker EXCEPT ![w] = "ended"] /\ UNCHANGED queue
    <3>1. cancelled \/ listener = "absent" \/ Drained
      BY <1>5, <2>2, <2>0 DEF Receive
    <3>2. CASE cancelled  BY <3>2, <2>1, <1>3
    <3>3. CASE listener = "absent"
      BY <3>3, <2>1, <2>2 DEF Lifecycle, NoWorkerAbandonsQueue
    <3>4. CASE Drained
      BY <3>4, <2>1, <2>2 DEF Drained, NoWorkerAbandonsQueue
    <3>5. QED  BY <3>1, <3>2, <3>3, <3>4
  <2>3. CASE queue > 0 /\ worker' = [worker EXCEPT ![w] = "process"]
    <3>1. queue # 0
      BY <2>3
    <3>2. ~cancelled => ~someEnded
      BY <3>1, <1>1
    <3>3. someEnded' => someEnded
      BY <2>0, <2>3
    <3>4. QED  BY <3>2, <3>3, <2>1 DEF NoWorkerAbandonsQueue
  <2>4. QED  BY <1>5, <2>2, <2>3 DEF Receive
<1>6. ASSUME NEW w \in Workers, ProcessPacket(w) PROVE NoWorkerAbandonsQueue'
  <2>1. someEnded' => someEnded
    BY <1>6 DEF ProcessPacket, EngineTypeOK, StagesOK
  <2>2. UNCHANGED <<cancelled, listener, outClosed, queue>>
    BY <1>6 DEF ProcessPacket
  <2>3. QED  BY <2>1, <2>2, <1>1 DEF NoWorkerAbandonsQueue
<1>7. CASE Cancel  BY <1>7, <1>3 DEF Cancel
<1>8. CASE TickLoop \/ Serve \/ Run
  BY <1>8, <1>2 DEF TickLoop, Serve, Run
<1>9. QED  BY <1>4, <1>5, <1>6, <1>7, <1>8 DEF EngineNext, Work

LEMMA EngineStep == EngineInv /\ EngineNext => EngineInv'
BY EngineTypeStep, ConservedStep, LifecycleStep, QuietStep, AbandonStep DEF EngineInv

-----------------------------------------------------------------------------
(* The daemon. *)

\* What the metrics loop has summed up lies between what it last exported and
\* what the engine has counted; the export is what was remembered.
MetricsInv ==
  /\ last = exported
  /\ exported["routed"] <= routed
  /\ exported["dropped"] <= rejected + dropped + frames
  /\ loop = "udp" => snap <= rejected /\ exported["dropped"] <= snap + dropped + frames
  /\ loop = "frames" => snap <= rejected + dropped /\ exported["dropped"] <= snap + frames
  /\ loop = "routed" => snap <= rejected + dropped + frames /\ exported["dropped"] <= snap

\* The defaults leave no zero, so only a negative number can be fatal.
ConfigInv ==
  /\ phase # "load" => \A k \in Settings : config[k] # 0
  /\ status = "panicked" => \E k \in Settings : config[k] < 0

Inv == TypeOK /\ EngineInv /\ MetricsInv /\ ConfigInv

LEMMA DaemonStarts == Init => Inv
<1> SUFFICES ASSUME Init PROVE Inv
  OBVIOUS
<1>1. EngineInv  BY EngineStarts DEF Init
<1>2. TypeOK
  BY <1>1 DEF TypeOK, EngineInv, Init, EngineInit, Nought
<1>3. MetricsInv
  BY DEF MetricsInv, Init, EngineInit, Nought, Counters
<1>4. ConfigInv  BY DEF ConfigInv, Init
<1>5. QED  BY <1>1, <1>2, <1>3, <1>4 DEF Inv

\* The engine never takes a count back.
LEMMA CountersGrow ==
  ASSUME EngineTypeOK, EngineNext
  PROVE  /\ dropped \in Nat /\ routed \in Nat /\ rejected \in Nat /\ frames \in Nat
         /\ dropped' \in Nat /\ routed' \in Nat /\ rejected' \in Nat /\ frames' \in Nat
         /\ dropped' >= dropped /\ routed' >= routed
         /\ rejected' >= rejected /\ frames' >= frames
<1>1. /\ dropped \in Nat /\ routed \in Nat /\ rejected \in Nat /\ frames \in Nat
  BY RunAssumption DEF RunAssumption, EngineTypeOK, NumbersOK
<1>2. /\ dropped' \in Nat /\ routed' \in Nat /\ rejected' \in Nat /\ frames' \in Nat
  BY EngineTypeStep, RunAssumption DEF RunAssumption, EngineTypeOK, NumbersOK
<1>3. CASE Offer
  <2>1. dropped' = dropped \/ dropped' = dropped + 1
    BY <1>3 DEF Offer, CountDropped
  <2>2. UNCHANGED <<routed, rejected, frames>>
    BY <1>3 DEF Offer, results
  <2>3. QED  BY <1>1, <1>2, <2>1, <2>2
<1>4. ASSUME NEW w \in Workers, ProcessPacket(w)
      PROVE  /\ dropped' >= dropped /\ routed' >= routed
             /\ rejected' >= rejected /\ frames' >= frames
  <2>1. UNCHANGED <<dropped, frames>>
    BY <1>4 DEF ProcessPacket, counts
  <2>2. \/ routed' = routed + 1 /\ rejected' = rejected
        \/ rejected' = rejected + 1 /\ routed' = routed
    BY <1>4 DEF ProcessPacket
  <2>3. QED  BY <1>1, <2>1, <2>2
<1>5. CASE TickLoop
  <2>1. UNCHANGED <<dropped, routed, rejected>>
    BY <1>5 DEF TickLoop, counts
  <2>2. frames' = frames \/ frames' \in frames .. MaxFrames
    BY <1>5 DEF TickLoop
  <2>3. PICK n \in Nat : frames' = n
    BY <1>2
  <2>4. frames = n \/ n \in frames .. MaxFrames
    BY <2>2, <2>3
  <2>5. n >= frames
    BY <2>4, <1>1, RunAssumption DEF RunAssumption
  <2>6. QED  BY <1>1, <2>1, <2>3, <2>5
<1>6. CASE UNCHANGED <<dropped, routed, rejected, frames>>
  BY <1>1, <1>6
<1>7. CASE StartListening \/ CheckContext \/ ReadBatch \/ ReadFails \/ EndBatch \/ Deferred
  BY <1>6, <1>7 DEF StartListening, CheckContext, ReadBatch, ReadFails, EndBatch, Deferred,
     counts, results
<1>8. ASSUME NEW w \in Workers, Receive(w)
      PROVE  UNCHANGED <<dropped, routed, rejected, frames>>
  BY <1>8 DEF Receive, counts, results
<1>9. CASE Serve \/ Cancel \/ Run
  BY <1>6, <1>9 DEF Serve, Cancel, Run, counts, results
<1>10. QED
  BY <1>1, <1>2, <1>3, <1>4, <1>5, <1>6, <1>7, <1>8, <1>9 DEF EngineNext, Listen, Work

LEMMA DaemonTypeStep == TypeOK /\ [Next]_vars => TypeOK'
<1> SUFFICES ASSUME TypeOK, [Next]_vars PROVE TypeOK'
  OBVIOUS
<1> USE DEF daemonVars, metrics
<1>1. ASSUME UNCHANGED engineVars PROVE EngineTypeOK'
  BY <1>1 DEF engineVars, udp, counts, results, TypeOK, EngineTypeOK, StagesOK, NumbersOK
<1>2. CASE Load
  <2>1. EngineTypeOK' /\ run' = run  BY <1>1, <1>2 DEF Load, engineVars
  <2>2. config' \in [Settings -> -1 .. 1]  BY <1>2 DEF Load, Defaults, TypeOK
  <2>3. QED  BY <1>2, <2>1, <2>2 DEF Load, TypeOK
<1>3. CASE Build
  <2>1. EngineTypeOK' /\ run' = run  BY <1>1, <1>3 DEF Build, engineVars
  <2>2. QED  BY <1>3, <2>1 DEF Build, TypeOK
<1>4. CASE EngineNext /\ Sound
  <2>1. EngineTypeOK'  BY <1>4, EngineTypeStep DEF TypeOK
  <2>2. QED  BY <1>4, <2>1 DEF Sound, Running, TypeOK
<1>5. CASE Panic
  <2>1. EngineTypeOK' /\ run' = run  BY <1>1, <1>5 DEF Panic, engineVars
  <2>2. QED  BY <1>5, <2>1 DEF Panic, Running, TypeOK
<1>6. CASE Exit
  <2>1. EngineTypeOK' /\ run' = run  BY <1>1, <1>6 DEF Exit, engineVars
  <2>2. QED  BY <1>6, <2>1 DEF Exit, Running, TypeOK
<1>7. rejected \in Nat /\ dropped \in Nat /\ frames \in Nat /\ routed \in Nat
  BY RunAssumption DEF RunAssumption, TypeOK, EngineTypeOK, NumbersOK
<1>8. ASSUME NEW from, NEW to \in {"udp", "frames", "routed"}, NEW value \in Nat,
             ReadCounter(from, to, value)
      PROVE  TypeOK'
  <2>1. EngineTypeOK' /\ run' = run  BY <1>1, <1>8 DEF ReadCounter, engineVars
  <2>2. snap' \in Nat  BY <1>8 DEF ReadCounter, TypeOK
  <2>3. QED  BY <1>8, <2>1, <2>2 DEF ReadCounter, Running, TypeOK
<1>9. CASE Export
  <2>1. EngineTypeOK' /\ run' = run  BY <1>1, <1>9 DEF Export, engineVars
  <2> DEFINE stats == [c \in Counters |-> IF c = "routed" THEN routed ELSE snap]
  <2>2. stats \in [Counters -> Nat]
    BY <1>7 DEF TypeOK
  <2>3. last' = stats /\ (exported' = [c \in Counters |-> exported[c] + Increase(stats, c)])
    BY <1>9 DEF Export, Remember
  <2> HIDE DEF stats
  <2>4. \A c \in Counters : exported[c] \in Nat /\ last[c] \in Nat /\ stats[c] \in Nat
    BY <2>2 DEF TypeOK
  <2>5. \A c \in Counters : Increase(stats, c) \in Nat
    BY <2>4 DEF Increase
  <2>6. exported' \in [Counters -> Nat]
    BY <2>3, <2>4, <2>5
  <2>7. QED  BY <1>9, <2>1, <2>2, <2>3, <2>6 DEF Export, Running, TypeOK
<1>10. CASE StopPolling
  <2>1. EngineTypeOK' /\ run' = run  BY <1>1, <1>10 DEF StopPolling, engineVars
  <2>2. QED  BY <1>10, <2>1 DEF StopPolling, Running, TypeOK
<1>11. CASE UNCHANGED vars
  <2>1. EngineTypeOK' /\ run' = run  BY <1>1, <1>11 DEF vars, engineVars
  <2>2. QED  BY <1>11, <2>1 DEF vars, TypeOK
<1>12. QED
  BY <1>2, <1>3, <1>4, <1>5, <1>6, <1>7, <1>8, <1>9, <1>10, <1>11 DEF Next, Poll, Ended

\* Every step of the daemon is one of the engine or leaves it alone.
LEMMA EngineOrNot == [Next]_vars => (EngineNext /\ Sound) \/ UNCHANGED engineVars
BY DEF Next, vars, Load, Build, Panic, Exit, Poll, ReadCounter, Export, StopPolling, Ended

LEMMA EngineInvStep == EngineInv /\ [Next]_vars => EngineInv'
<1> SUFFICES ASSUME EngineInv, [Next]_vars PROVE EngineInv'
  OBVIOUS
<1>1. CASE EngineNext  BY <1>1, EngineStep
<1>2. CASE UNCHANGED engineVars
  <2> USE <1>2 DEF engineVars, udp, counts, results, EngineInv
  <2>1. EngineTypeOK'  BY DEF EngineTypeOK, StagesOK, NumbersOK
  <2>2. PacketsConserved'  BY DEF PacketsConserved
  <2>3. Lifecycle'  BY DEF Lifecycle
  <2>4. QuietAfterReturn'  BY DEF QuietAfterReturn, AllEnded
  <2>5. NoWorkerAbandonsQueue'  BY DEF NoWorkerAbandonsQueue
  <2>6. QED  BY <2>1, <2>2, <2>3, <2>4, <2>5
<1>3. QED  BY <1>1, <1>2, EngineOrNot

\* An export makes the counters what the loop has just read.
LEMMA ExportStep ==
  ASSUME TypeOK, MetricsInv, Export
  PROVE  /\ exported'["routed"] = routed /\ exported'["dropped"] = snap
         /\ exported["routed"] <= routed /\ exported["dropped"] <= snap
         /\ last' = [c \in Counters |-> IF c = "routed" THEN routed ELSE snap]
         /\ exported' \in [Counters -> Nat]
<1>1. /\ routed \in Nat /\ snap \in Nat
      /\ exported["routed"] \in Nat /\ exported["dropped"] \in Nat
  BY RunAssumption DEF RunAssumption, TypeOK, EngineTypeOK, NumbersOK, Counters
<1> DEFINE stats == [c \in Counters |-> IF c = "routed" THEN routed ELSE snap]
<1>2. /\ loop = "routed" /\ last' = stats
      /\ exported' = [c \in Counters |-> exported[c] + Increase(stats, c)]
  BY DEF Export, Remember
<1>3. stats["routed"] = routed /\ stats["dropped"] = snap
  BY DEF Counters
<1>4. last["routed"] = exported["routed"] /\ last["dropped"] = exported["dropped"]
  BY DEF MetricsInv
<1>5. exported["routed"] <= routed /\ exported["dropped"] <= snap
  BY <1>2 DEF MetricsInv
<1> HIDE DEF stats
<1>6. /\ exported["routed"] + Increase(stats, "routed") = routed
      /\ exported["dropped"] + Increase(stats, "dropped") = snap
  BY <1>1, <1>3, <1>4, <1>5 DEF Increase
<1>7. exported'["routed"] = routed /\ exported'["dropped"] = snap
  BY <1>2, <1>6 DEF Counters
<1>8. exported' \in [Counters -> Nat]
  BY <1>1, <1>2, <1>6 DEF Counters
<1>9. QED  BY <1>2, <1>5, <1>7, <1>8 DEF stats

LEMMA MetricsStep == TypeOK /\ MetricsInv /\ [Next]_vars => MetricsInv'
<1> SUFFICES ASSUME TypeOK, MetricsInv, [Next]_vars PROVE MetricsInv'
  OBVIOUS
<1>1. /\ rejected \in Nat /\ dropped \in Nat /\ frames \in Nat /\ routed \in Nat
      /\ snap \in Nat /\ exported["routed"] \in Nat /\ exported["dropped"] \in Nat
  BY RunAssumption DEF RunAssumption, TypeOK, EngineTypeOK, NumbersOK, Counters
<1>2. CASE EngineNext /\ Sound
  <2>1. UNCHANGED <<loop, snap, last, exported>>
    BY <1>2 DEF Sound, daemonVars, metrics
  <2>2. /\ dropped' \in Nat /\ routed' \in Nat /\ rejected' \in Nat /\ frames' \in Nat
        /\ dropped' >= dropped /\ routed' >= routed
        /\ rejected' >= rejected /\ frames' >= frames
    BY <1>2, CountersGrow DEF TypeOK
  <2>3. PICK d \in Nat, o \in Nat, j \in Nat, f \in Nat :
           dropped' = d /\ routed' = o /\ rejected' = j /\ frames' = f
    BY <2>2
  <2>4. d >= dropped /\ o >= routed /\ j >= rejected /\ f >= frames
    BY <2>2, <2>3
  <2>5. /\ exported["routed"] <= o
        /\ exported["dropped"] <= j + d + f
        /\ loop = "udp" => snap <= j /\ exported["dropped"] <= snap + d + f
        /\ loop = "frames" => snap <= j + d /\ exported["dropped"] <= snap + f
        /\ loop = "routed" => snap <= j + d + f /\ exported["dropped"] <= snap
    BY <1>1, <2>4 DEF MetricsInv
  <2>6. last = exported  BY DEF MetricsInv
  <2>7. QED  BY <2>1, <2>3, <2>5, <2>6 DEF MetricsInv
<1>3. CASE UNCHANGED <<routed, rejected, dropped, frames, metrics>>
  BY <1>3 DEF MetricsInv, metrics
<1>4. CASE ReadCounter("select", "udp", rejected)
  <2>1. /\ loop' = "udp" /\ snap' = rejected
        /\ UNCHANGED <<routed, rejected, dropped, frames, last, exported>>
    BY <1>4 DEF ReadCounter, engineVars, counts, results
  <2>2. QED  BY <2>1, <1>1 DEF MetricsInv
<1>5. CASE ReadCounter("udp", "frames", dropped)
  <2>1. /\ loop = "udp" /\ loop' = "frames" /\ snap' = snap + dropped
        /\ UNCHANGED <<routed, rejected, dropped, frames, last, exported>>
    BY <1>5 DEF ReadCounter, engineVars, counts, results
  <2>2. QED  BY <2>1, <1>1 DEF MetricsInv
<1>6. CASE ReadCounter("frames", "routed", frames)
  <2>1. /\ loop = "frames" /\ loop' = "routed" /\ snap' = snap + frames
        /\ UNCHANGED <<routed, rejected, dropped, frames, last, exported>>
    BY <1>6 DEF ReadCounter, engineVars, counts, results
  <2>2. QED  BY <2>1, <1>1 DEF MetricsInv
<1>7. CASE Export
  <2>1. loop = "routed" /\ loop' = "select" /\ UNCHANGED <<routed, rejected, dropped, frames>>
    BY <1>7 DEF Export, engineVars, counts, results
  <2>2. /\ exported'["routed"] = routed /\ exported'["dropped"] = snap
        /\ last' = [c \in Counters |-> IF c = "routed" THEN routed ELSE snap]
        /\ exported' \in [Counters -> Nat]
    BY <1>7, ExportStep
  <2>3. \A c \in Counters : last'[c] = exported'[c]
    BY <2>2 DEF Counters
  <2>4. last' = exported'
    BY <2>2, <2>3
  <2>5. snap <= rejected + dropped + frames
    BY <2>1 DEF MetricsInv
  <2>6. QED  BY <1>1, <2>1, <2>2, <2>4, <2>5 DEF MetricsInv
<1>8. CASE Load \/ Build \/ Panic \/ Exit
  BY <1>3, <1>8 DEF Load, Build, Panic, Exit, engineVars, counts, results
<1>9. CASE StopPolling
  <2>1. /\ loop' = "ended"
        /\ UNCHANGED <<routed, rejected, dropped, frames, snap, last, exported>>
    BY <1>9 DEF StopPolling, engineVars, counts, results
  <2>2. QED  BY <2>1 DEF MetricsInv
<1>10. CASE UNCHANGED vars
  BY <1>3, <1>10 DEF vars, engineVars, counts, results, daemonVars
<1>11. QED
  BY <1>2, <1>4, <1>5, <1>6, <1>7, <1>8, <1>9, <1>10 DEF Next, Poll, Ended

LEMMA ConfigStep == TypeOK /\ ConfigInv /\ [Next]_vars => ConfigInv'
<1> SUFFICES ASSUME TypeOK, ConfigInv, [Next]_vars PROVE ConfigInv'
  OBVIOUS
<1> USE DEF daemonVars, ConfigInv
<1>1. config \in [Settings -> -1 .. 1]  BY DEF TypeOK
<1>2. CASE Load
  <2>1. config' = Defaults(config) /\ status' \in {"up", "failed"}
    BY <1>2 DEF Load, Up
  <2>2. \A k \in Settings : config'[k] # 0
    BY <1>1, <2>1 DEF Defaults
  <2>3. QED  BY <2>1, <2>2
<1>3. CASE Build
  <2>1. UNCHANGED config /\ phase = "build"  BY <1>3 DEF Build
  <2>2. \A k \in Settings : config'[k] # 0  BY <2>1
  <2>3. status' = "panicked" => config["channel_size"] < 0
    BY <1>3 DEF Build, Up
  <2>4. QED  BY <2>1, <2>2, <2>3 DEF Settings
<1>4. CASE EngineNext /\ Sound  BY <1>4 DEF Sound
<1>5. CASE Panic
  <2>1. UNCHANGED <<config, phase>> /\ phase = "run"  BY <1>5 DEF Panic, Running
  <2>2. \A k \in Settings : config[k] # 0 /\ config[k] \in -1 .. 1  BY <1>1, <2>1
  <2>3. config["tick_rate"] < 0 \/ config["batch_size"] < 0
    BY <1>5, <2>2 DEF Panic, TickDoomed, ListenerDoomed, Settings
  <2>4. QED  BY <2>1, <2>2, <2>3 DEF Settings
<1>5a. CASE Exit  BY <1>5a DEF Exit, Running, Up
<1>6. CASE Poll \/ StopPolling
  BY <1>6 DEF Poll, ReadCounter, Export, StopPolling
<1>7. CASE UNCHANGED vars  BY <1>7 DEF vars
<1>8. QED  BY <1>2, <1>3, <1>4, <1>5, <1>5a, <1>6, <1>7 DEF Next, Ended

LEMMA Invariance == Spec => []Inv
<1>1. Inv /\ [Next]_vars => Inv'
  BY DaemonTypeStep, EngineInvStep, MetricsStep, ConfigStep DEF Inv
<1>2. QED  BY DaemonStarts, <1>1, PTL DEF Spec

\* The types, and that the packet channel never holds more than its size
\* (pkg/transport/udp/listener.go:136).
THEOREM TypeCorrect == Spec => []TypeOK
<1>1. Inv => TypeOK  BY DEF Inv
<1>2. QED  BY Invariance, <1>1, PTL

\* Every datagram read is counted exactly once, whatever interleaving of the
\* listener and any number of workers (pkg/transport/udp/listener.go:123,
\* pkg/engine/pipeline.go:31).
THEOREM PacketsConservedHolds == Spec => []PacketsConserved
<1>1. Inv => PacketsConserved  BY DEF Inv, EngineInv
<1>2. QED  BY Invariance, <1>1, PTL

\* When Run has returned, every goroutine it started has ended
\* (pkg/engine/engine.go:105-151).
THEOREM QuietAfterReturnHolds == Spec => []QuietAfterReturn
<1>1. Inv => QuietAfterReturn  BY DEF Inv, EngineInv
<1>2. QED  BY Invariance, <1>1, PTL

\* No worker leaves while the context is live and packets wait or may come
\* (pkg/engine/pipeline.go:12-29).
THEOREM NoWorkerAbandonsQueueHolds == Spec => []NoWorkerAbandonsQueue
<1>1. Inv => NoWorkerAbandonsQueue  BY DEF Inv, EngineInv
<1>2. QED  BY Invariance, <1>1, PTL

\* The Prometheus counters never exceed the engine's, whenever the loop reads
\* them (cmd/aerocastd/main.go:120-156, pkg/engine/stats.go:16-49).
THEOREM NeverOverReportedHolds == Spec => []NeverOverReported
<1>1. Inv => NeverOverReported
  BY DEF Inv, MetricsInv, NeverOverReported, Current, Counters
<1>2. QED  BY Invariance, <1>1, PTL

\* With no negative number in the file nothing panics: the defaults replace
\* every zero something divides by or ticks with
\* (pkg/config/loader.go:90-148).
THEOREM NoPanicWithoutNegativeHolds == Spec => []NoPanicWithoutNegative
<1>1. Inv => NoPanicWithoutNegative
  <2> SUFFICES ASSUME Inv, \A k \in Settings : config[k] >= 0, status = "panicked"
               PROVE  FALSE
    BY DEF NoPanicWithoutNegative
  <2>1. PICK k \in Settings : config[k] < 0
    BY DEF Inv, ConfigInv
  <2>2. config[k] \in -1 .. 1
    BY DEF Inv, TypeOK
  <2>3. QED  BY <2>1, <2>2
<1>2. QED  BY Invariance, <1>1, PTL

\* No interval is lost or counted twice, however the counters grow between
\* the reads: what is exported is always what Stats returned last, and it
\* never falls (cmd/aerocastd/main.go:137-153).
THEOREM ExportsTheReading ==
  Spec => [][/\ \A c \in Counters : exported[c] <= exported'[c]
             /\ exported' # exported =>
                  /\ loop = "routed"
                  /\ exported'["routed"] = routed /\ exported'["dropped"] = snap]_vars
<1>1. ASSUME Inv, [Next]_vars
      PROVE  /\ \A c \in Counters : exported[c] <= exported'[c]
             /\ exported' # exported =>
                  /\ loop = "routed"
                  /\ exported'["routed"] = routed /\ exported'["dropped"] = snap
  <2>1. exported \in [Counters -> Nat]
    BY <1>1 DEF Inv, TypeOK
  <2>2. CASE Export
    <3>1. /\ exported'["routed"] = routed /\ exported'["dropped"] = snap
          /\ exported["routed"] <= routed /\ exported["dropped"] <= snap
      BY <1>1, <2>2, ExportStep DEF Inv
    <3>2. \A c \in Counters : exported[c] <= exported'[c]
      BY <3>1 DEF Counters
    <3>3. QED  BY <2>2, <3>1, <3>2 DEF Export
  <2>3. CASE ~Export
    <3>1. exported' = exported
      BY <1>1, <2>3 DEF Next, Load, Build, Sound, Panic, Exit, Poll, ReadCounter, StopPolling,
                        Ended, vars, daemonVars, metrics
    <3>2. QED  BY <2>1, <3>1
  <2>4. QED  BY <2>2, <2>3
<1>2. QED  BY <1>1, Invariance, PTL DEF Spec
=============================================================================
