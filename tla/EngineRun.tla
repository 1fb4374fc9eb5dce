----------------------------- MODULE EngineRun ------------------------------
(***************************************************************************)
(* The life of the engine: Run of pkg/engine/engine.go, the goroutines it  *)
(* starts and waits for, the UDP listener and its bounded channel. Daemon  *)
(* puts the process around it.                                             *)
(*                                                                         *)
(* What a packet, a tick or a connection does is modelled in Pipeline,     *)
(* Delivery and WsServer; here each takes one step, and counts.            *)
(***************************************************************************)
EXTENDS Naturals, FiniteSets

CONSTANTS
  Workers,     \* the pipeline workers (PipelineWorkers)
  ChannelSize, \* packets the listener's channel holds (65536)
  BatchSize,   \* datagrams one read returns at most: 32, or 1 on platforms
               \* without recvmmsg
  Setups,      \* the transports that may be enabled together
  MaxPackets,  \* bound: datagrams read
  MaxFrames    \* bound: frames the ticks drop

ASSUME RunAssumption ==
  /\ IsFiniteSet(Workers)
  /\ ChannelSize \in Nat \ {0} /\ BatchSize \in Nat \ {0}
  /\ Setups \subseteq SUBSET {"udp", "ws"}
  /\ MaxPackets \in Nat /\ MaxFrames \in Nat

VARIABLES
  cancelled,  \* the context
  run,        \* where Run is
  listener,   \* where the listener is; "absent" with DisableUDP
  listening,  \* the listener's own WaitGroup is above zero
  done,       \* the listener's done channel is closed
  outClosed,  \* the packet channel is closed
  batch,      \* datagrams read and not yet offered to it
  queue,      \* packets in it
  worker,     \* where each worker is
  tick,       \* where the tick loop is
  server,     \* where the websocket server is; "absent" with DisableWS
  received, ignored, dropped, \* datagrams read; those empty or too short;
                              \* those not queued (droppedPackets)
  routed, rejected,           \* packets processed and those not routed: over
                              \* the limit or repeated (packetsDropped)
  frames                      \* frames dropped by the ticks

udp == <<listener, listening, done, outClosed, batch>>
counts == <<received, ignored, dropped>>
results == <<routed, rejected, frames>>
engineVars == <<cancelled, run, udp, queue, worker, tick, server, counts, results>>

StagesOK ==
  /\ cancelled \in BOOLEAN /\ listening \in BOOLEAN
  /\ done \in BOOLEAN /\ outClosed \in BOOLEAN
  /\ run \in {"idle", "running", "close", "await", "wait", "returned"}
  /\ listener \in {"absent", "new", "check", "read", "offer", "close", "finish", "ended"}
  /\ worker \in [Workers -> {"select", "process", "ended"}]
  /\ tick \in {"new", "loop", "ended"}
  /\ server \in {"absent", "serving", "ended"}

NumbersOK ==
  /\ batch \in 0 .. BatchSize /\ queue \in 0 .. ChannelSize
  /\ received \in 0 .. MaxPackets
  /\ ignored \in Nat /\ dropped \in Nat
  /\ routed \in Nat /\ rejected \in Nat /\ frames \in 0 .. MaxFrames
  /\ batch > 0 => listener = "offer"

EngineTypeOK == StagesOK /\ NumbersOK

EngineInit ==
  /\ cancelled = FALSE /\ run = "idle"
  /\ \E setup \in Setups :
       /\ listener = IF "udp" \in setup THEN "new" ELSE "absent"
       /\ server = IF "ws" \in setup THEN "serving" ELSE "absent"
  /\ listening = FALSE /\ done = FALSE /\ outClosed = FALSE
  /\ batch = 0 /\ queue = 0
  /\ worker = [w \in Workers |-> "select"] /\ tick = "new"
  /\ received = 0 /\ ignored = 0 /\ dropped = 0
  /\ routed = 0 /\ rejected = 0 /\ frames = 0

\* A goroutine of the engine runs once Run has started it.
Started == run # "idle"

-----------------------------------------------------------------------------
(* The listener: Run, readAndProcessBatch, processPacket. *)

ListenerStep(from, to) == Started /\ listener = from /\ listener' = to

StartListening ==
  /\ ListenerStep("new", "check") /\ listening' = TRUE
  /\ UNCHANGED <<cancelled, run, done, outClosed, batch, queue, worker, tick, server,
                 counts, results>>

\* Mutant of Stopping: the context is not looked at.
NeverStopping == FALSE

Stopping == cancelled

CheckContext ==
  /\ ListenerStep("check", IF Stopping THEN "close" ELSE "read")
  /\ UNCHANGED <<cancelled, run, listening, done, outClosed, batch, queue, worker, tick,
                 server, counts, results>>

\* A read returns some datagrams; none (EAGAIN, a timeout) is no error.
ReadBatch ==
  /\ ListenerStep("read", "offer")
  /\ batch' \in 0 .. BatchSize
  /\ received + batch' <= MaxPackets /\ received' = received + batch'
  /\ UNCHANGED <<cancelled, run, listening, done, outClosed, queue, worker, tick,
                 server, ignored, dropped, results>>

\* Any other error ends the listener; only the log tells it from a Close.
ReadFails ==
  /\ ListenerStep("read", "close")
  /\ UNCHANGED <<cancelled, run, listening, done, outClosed, batch, queue, worker, tick,
                 server, counts, results>>

\* Mutant of CountDropped: the default case does nothing.
DropSilently == UNCHANGED dropped

CountDropped == dropped' = dropped + 1

\* processPacket: too short, sent without waiting, or dropped.
Offer ==
  /\ listener = "offer" /\ batch > 0 /\ batch' = batch - 1
  /\ \/ ignored' = ignored + 1 /\ UNCHANGED <<queue, dropped>>
     \/ queue < ChannelSize /\ queue' = queue + 1 /\ UNCHANGED <<ignored, dropped>>
     \/ queue = ChannelSize /\ CountDropped /\ UNCHANGED <<ignored, queue>>
  /\ UNCHANGED <<cancelled, run, listener, listening, done, outClosed, worker, tick,
                 server, received, results>>

\* Mutant of BatchDone: one datagram is processed, the rest is skipped.
BatchSkipped == batch < BatchSize

BatchDone == batch = 0

EndBatch ==
  /\ BatchDone /\ ListenerStep("offer", "check")
  /\ UNCHANGED <<cancelled, run, listening, done, outClosed, batch, queue, worker, tick,
                 server, counts, results>>

\* The deferred calls, last first: conn.Close and close(out), then wg.Done.
Deferred ==
  /\ \/ ListenerStep("close", "finish") /\ outClosed' = TRUE /\ UNCHANGED listening
     \/ ListenerStep("finish", "ended") /\ listening' = FALSE /\ UNCHANGED outClosed
  /\ UNCHANGED <<cancelled, run, done, batch, queue, worker, tick, server, counts,
                 results>>

Listen ==
  \/ StartListening \/ CheckContext \/ ReadBatch \/ ReadFails
  \/ Offer \/ EndBatch \/ Deferred

-----------------------------------------------------------------------------
(* The workers, the tick loop and the websocket server. *)

\* Mutant of Drained: a closed channel counts as empty.
ClosedIsDrained == outClosed

\* The receive reports a closed channel only when it is empty.
Drained == outClosed /\ queue = 0

\* select: the context, a packet, or the closed and drained channel; when
\* several are ready Go picks any. Without a listener there is nothing to do.
Receive(w) ==
  /\ Started /\ worker[w] = "select"
  /\ \/ /\ cancelled \/ listener = "absent" \/ Drained
        /\ worker' = [worker EXCEPT ![w] = "ended"]
        /\ UNCHANGED queue
     \/ /\ queue > 0 /\ queue' = queue - 1
        /\ worker' = [worker EXCEPT ![w] = "process"]
  /\ UNCHANGED <<cancelled, run, udp, tick, server, counts, results>>

ProcessPacket(w) ==
  /\ worker[w] = "process"
  /\ worker' = [worker EXCEPT ![w] = "select"]
  /\ \/ routed' = routed + 1 /\ UNCHANGED rejected
     \/ rejected' = rejected + 1 /\ UNCHANGED routed
  /\ UNCHANGED <<cancelled, run, udp, queue, tick, server, counts, frames>>

Work(w) == Receive(w) \/ ProcessPacket(w)

\* A tick may drop frames; the select between two ticks looks at the context.
TickLoop ==
  /\ Started
  /\ \/ tick = "new" /\ tick' = "loop" /\ UNCHANGED frames
     \/ tick = "loop" /\ UNCHANGED tick /\ frames' \in frames .. MaxFrames
     \/ tick = "loop" /\ cancelled /\ tick' = "ended" /\ UNCHANGED frames
  /\ UNCHANGED <<cancelled, run, udp, queue, worker, server, counts, routed, rejected>>

\* ListenAndServe fails, or Shutdown returns, five seconds after the context
\* was cancelled at the latest.
Serve ==
  /\ Started /\ server = "serving" /\ server' = "ended"
  /\ UNCHANGED <<cancelled, run, udp, queue, worker, tick, counts, results>>

-----------------------------------------------------------------------------
(* Run. *)

\* The application, or main on a signal, cancels the context.
Cancel ==
  /\ ~cancelled /\ cancelled' = TRUE
  /\ UNCHANGED <<run, udp, queue, worker, tick, server, counts, results>>

RunStep(from, to) == run = from /\ run' = to

\* Mutant of AllEnded: the listener's goroutine is not added.
OthersEnded ==
  /\ server \in {"absent", "ended"}
  /\ tick = "ended" /\ \A w \in Workers : worker[w] = "ended"

\* What the engine's WaitGroup counts.
AllEnded ==
  /\ listener \in {"absent", "ended"} /\ server \in {"absent", "ended"}
  /\ tick = "ended" /\ \A w \in Workers : worker[w] = "ended"

\* Run starts everything, waits for the context, closes the listener
\* (close(done), then the listener's own WaitGroup, which is zero as long as
\* the listener has not got round to Add), and waits for what it started.
Run ==
  /\ \/ RunStep("idle", "running") /\ UNCHANGED done
     \/ /\ cancelled /\ RunStep("running", IF listener = "absent" THEN "wait" ELSE "close")
        /\ UNCHANGED done
     \/ RunStep("close", "await") /\ done' = TRUE
     \/ RunStep("await", "wait") /\ ~listening /\ UNCHANGED done
     \/ RunStep("wait", "returned") /\ AllEnded /\ UNCHANGED done
  /\ UNCHANGED <<cancelled, listener, listening, outClosed, batch, queue, worker,
                 tick, server, counts, results>>

EngineNext ==
  \/ Listen \/ (\E w \in Workers : Work(w)) \/ TickLoop \/ Serve \/ Cancel \/ Run

-----------------------------------------------------------------------------
\* Every datagram read is accounted for once: being offered, ignored,
\* dropped at the full channel, queued, being processed or processed.
PacketsConserved ==
  received = batch + ignored + dropped + queue + routed + rejected
               + Cardinality({ w \in Workers : worker[w] = "process" })

\* When Run returns nothing it started is running, although the listener's
\* own WaitGroup may have been waited for before the listener entered it
\* (udp/listener.go:80, 147).
QuietAfterReturn == run = "returned" => AllEnded /\ batch = 0 /\ ~listening

\* A worker that ends while the context is live leaves nothing in the queue,
\* and nothing will follow.
NoWorkerAbandonsQueue ==
  (~cancelled /\ \E w \in Workers : worker[w] = "ended") =>
    queue = 0 /\ (listener # "absent" => outClosed)
=============================================================================
