------------------------------ MODULE WsServer ------------------------------
(***************************************************************************)
(* Websocket connections: pkg/transport/ws/ws.go on top of Fanout, which   *)
(* it reaches through the callbacks of pkg/engine/callbacks.go.            *)
(*                                                                         *)
(* A connection has two goroutines, its handler (which becomes the reader) *)
(* and its writer. They share the socket and the channel, and neither ever *)
(* waits for the other. Messages of the client are read and ignored, so    *)
(* they are left out; so are pings that succeed.                           *)
(***************************************************************************)
EXTENDS Fanout

CONSTANT Followers  \* bound: the ids the application calls Follow for

ASSUME IdsAssumption ==
  /\ IsFiniteSet(Subs) /\ Subs = 1 .. Cardinality(Subs)
  /\ Followers \subseteq Subs

VARIABLES
  subID,    \* the last id given out
  conns,    \* the connections the server lists
  handler,  \* where each handler is
  writer,   \* where each writer is
  sock      \* the socket: "stalled" a client that does not read, "fin" one
            \* that hung up, "gone" one that vanished, "closed" by this side

connVars == <<subID, conns, handler, writer, sock>>
vars == <<fanoutVars, connVars>>

TypeOK ==
  /\ FanoutTypeOK
  /\ subID \in 0 .. Cardinality(Subs)
  /\ conns \subseteq Subs
  /\ handler \in [Subs -> {"none", "subscribe", "create", "spawn", "reading",
                           "leave", "unsubscribe", "remove", "close", "done"}]
  /\ writer \in [Subs -> {"none", "get", "loop", "exited"}]
  /\ sock \in [Subs -> {"none", "up", "stalled", "fin", "gone", "closed"}]

Init ==
  /\ FanoutInit
  /\ subID = 0 /\ conns = {}
  /\ handler = [s \in Subs |-> "none"]
  /\ writer = [s \in Subs |-> "none"]
  /\ sock = [s \in Subs |-> "none"]

Alive == crashed = "none"

\* The steps of a handler, given what follows four of them.
Steps(subscribe, leave, unsubscribe, remove) ==
  [none |-> "subscribe", subscribe |-> subscribe, create |-> "spawn",
   spawn |-> "reading", reading |-> "leave", leave |-> leave,
   unsubscribe |-> unsubscribe, remove |-> remove, close |-> "done"]

\* Mutants of Order: no channel is made; OnDisconnect is not called; it
\* removes the channel before the subscription.
OrderNoChannel == Steps("spawn", "unsubscribe", "remove", "close")
OrderNoDisconnect == Steps("create", "close", "remove", "close")
OrderRemoveFirst == Steps("create", "remove", "close", "unsubscribe")

\* OnSubscribe and OnDisconnect go to the table first, to the channel after.
Order == Steps("create", "unsubscribe", "remove", "close")

HandlerStep(s, from) ==
  /\ handler[s] = from
  /\ handler' = [handler EXCEPT ![s] = Order[from]]

-----------------------------------------------------------------------------
(* handleWS. *)

\* The upgrade succeeds; the connection gets the next id.
Accept(s) ==
  /\ s = subID + 1
  /\ HandlerStep(s, "none")
  /\ subID' = s
  /\ conns' = conns \cup {s}
  /\ sock' = [sock EXCEPT ![s] = "up"]
  /\ UNCHANGED <<fanoutVars, writer>>

HandlerSubscribe(s) ==
  /\ HandlerStep(s, "subscribe")
  /\ Subscribe(s)
  /\ UNCHANGED <<subID, conns, writer, sock>>

HandlerCreate(s) ==
  /\ HandlerStep(s, "create")
  /\ Create(s)
  /\ UNCHANGED <<subID, conns, writer, sock>>

SpawnWriter(s) ==
  /\ HandlerStep(s, "spawn")
  /\ writer' = [writer EXCEPT ![s] = "get"]
  /\ UNCHANGED <<fanoutVars, subID, conns, sock>>

\* readLoop has no deadline: only a client that hung up, or this side's own
\* Close, ends the read.
ReadError(s) ==
  /\ HandlerStep(s, "reading")
  /\ sock[s] \in {"fin", "closed"}
  /\ UNCHANGED <<fanoutVars, subID, conns, writer, sock>>

Leave(s) ==
  /\ HandlerStep(s, "leave")
  /\ conns' = conns \ {s}
  /\ UNCHANGED <<fanoutVars, subID, writer, sock>>

HandlerUnsubscribe(s) ==
  /\ HandlerStep(s, "unsubscribe")
  /\ Unsubscribe(s)
  /\ UNCHANGED <<subID, conns, writer, sock>>

HandlerRemove(s) ==
  /\ HandlerStep(s, "remove")
  /\ Remove(s)
  /\ UNCHANGED <<subID, conns, writer, sock>>

HandlerClose(s) ==
  /\ HandlerStep(s, "close")
  /\ sock' = [sock EXCEPT ![s] = "closed"]
  /\ UNCHANGED <<fanoutVars, subID, conns, writer>>

Handle(s) ==
  \/ HandlerSubscribe(s) \/ HandlerCreate(s) \/ SpawnWriter(s) \/ ReadError(s)
  \/ Leave(s) \/ HandlerUnsubscribe(s) \/ HandlerRemove(s) \/ HandlerClose(s)

-----------------------------------------------------------------------------
(* writeLoop. *)

\* Without a channel the writer returns, and leaves the socket open.
WriterGet(s) ==
  /\ writer[s] = "get"
  /\ writer' = [writer EXCEPT ![s] = IF chan[s] = "open" THEN "loop" ELSE "exited"]
  /\ UNCHANGED <<fanoutVars, subID, conns, handler, sock>>

\* The kernel may take a frame although the client does not.
WriteFrame(s) ==
  /\ writer[s] = "loop" /\ qlen[s] > 0 /\ sock[s] # "closed"
  /\ qlen' = [qlen EXCEPT ![s] = @ - 1]
  /\ UNCHANGED <<table, chan, droppedFrames, ticker, crashed, connVars>>

\* Mutant of DeferClose: the socket is left open.
DeferNothing(s) == UNCHANGED sock

DeferClose(s) == sock' = [sock EXCEPT ![s] = "closed"]

\* The writer's return closes the socket.
ExitWriter(s) ==
  /\ writer' = [writer EXCEPT ![s] = "exited"] /\ DeferClose(s)
  /\ UNCHANGED <<table, chan, droppedFrames, ticker, crashed, subID, conns, handler>>

\* A frame, or a ping, is not taken within the write deadline or at all.
WriteFails(s) ==
  /\ writer[s] = "loop" /\ sock[s] # "up"
  /\ \/ UNCHANGED qlen
     \/ qlen[s] > 0 /\ qlen' = [qlen EXCEPT ![s] = @ - 1]
  /\ ExitWriter(s)

\* Only when a closed channel is drained does the receive report it.
ChannelClosed(s) ==
  /\ writer[s] = "loop" /\ chan[s] = "closed" /\ qlen[s] = 0
  /\ UNCHANGED qlen
  /\ ExitWriter(s)

Write(s) == WriterGet(s) \/ WriteFrame(s) \/ WriteFails(s) \/ ChannelClosed(s)

-----------------------------------------------------------------------------
(* The clients. *)

\* A client hangs up, vanishes, stops reading or reads again.
Client(s) ==
  /\ \/ sock[s] \in {"up", "stalled"} /\ sock' \in { [sock EXCEPT ![s] = "fin"],
                                                     [sock EXCEPT ![s] = "gone"] }
     \/ sock[s] = "up" /\ sock' = [sock EXCEPT ![s] = "stalled"]
     \/ sock[s] = "stalled" /\ sock' = [sock EXCEPT ![s] = "up"]
  /\ UNCHANGED <<fanoutVars, subID, conns, handler, writer>>

\* The application may call Follow and Unfollow at any time.
Application ==
  /\ \/ \E s \in Followers : \E e \in Entities : Follow(s, e) \/ Unfollow(s, e)
     \/ EndWrite
  /\ UNCHANGED connVars

Tick == (BeginTick \/ TickStep) /\ UNCHANGED connVars

\* Nothing happens after a crash.
Dead == ~Alive /\ UNCHANGED vars

Next ==
  \/ Alive /\ \/ \E s \in Subs : Accept(s) \/ Handle(s) \/ Write(s) \/ Client(s)
              \/ Application
              \/ Tick
  \/ Dead

Spec == Init /\ [][Next]_vars

\* Goroutines run. A lock that is free again and again is taken: RWMutex
\* queues its waiters. A write to a client that is gone fails in the end,
\* with the deadline or with TCP's. Nothing is owed to or by a stalled client.
HandlersRun == \A s \in Subs : SF_vars(Alive /\ Handle(s))
WritersRun == \A s \in Subs :
  /\ WF_vars(Alive /\ (WriterGet(s) \/ ChannelClosed(s)))
  /\ WF_vars(Alive /\ sock[s] = "up" /\ WriteFrame(s))
  /\ WF_vars(Alive /\ sock[s] # "stalled" /\ WriteFails(s))
LocksReleased == WF_vars(Alive /\ EndWrite /\ UNCHANGED connVars)
TickRuns == SF_vars(Alive /\ TickStep /\ UNCHANGED connVars)

FairSpec == Spec /\ HandlersRun /\ WritersRun /\ LocksReleased /\ TickRuns

-----------------------------------------------------------------------------
\* A frame can only be queued for an id the tick may find: a channel is
\* closed after the id left the table, and an id outside the table has none.
ChannelLifetime ==
  \A s \in Subs :
    /\ chan[s] = "open" => s \in member \/ handler[s] = "remove"
    /\ chan[s] = "closed" => s \notin member
    /\ qlen[s] > 0 => chan[s] # "none"

\* While a client is connected the table has its subscription, its channel is
\* open and its writer serves it. A writer that finds no channel returns
\* without closing the socket; that only happens when the handler is past
\* removing it, and about to close the socket itself.
ServedWhileUp ==
  \A s \in Subs :
    /\ handler[s] = "reading" => s \in member /\ chan[s] = "open"
    /\ (handler[s] = "reading" /\ sock[s] \in {"up", "stalled"}) => writer[s] \in {"get", "loop"}
    /\ writer[s] = "exited" => sock[s] = "closed" \/ handler[s] = "close"

\* When a handler is done nothing of its connection is left behind.
ReleasedWhenDone ==
  \A s \in Subs : handler[s] = "done" =>
    s \notin conns /\ s \notin member /\ chan[s] = "closed" /\ sock[s] = "closed"

\* A client that vanished without a word is noticed by the writer, although
\* the reader never would, and both goroutines end.
GoneClientReleased ==
  \A s \in Subs :
    sock[s] = "gone" ~> (handler[s] = "done" /\ writer[s] = "exited") \/ ~Alive

\* No client, however slow or dead, and no handler can hold up a tick.
TickNeverBlocks == tick # "idle" ~> tick = "idle" \/ ~Alive

\* "Run the engine (blocks until context is cancelled)": no legal sequence
\* of connects and disconnects stops the process.
NoSendOnClosedChannel == crashed # "sendOnClosed"

\* Follow may be called while the engine runs.
NoConcurrentMapAccess == crashed # "mapRace"
=============================================================================
