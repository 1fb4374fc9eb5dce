------------------------------- MODULE Daemon -------------------------------
(***************************************************************************)
(* The daemon: main of cmd/aerocastd around EngineRun. It loads and checks *)
(* the configuration, makes the engine, publishes its counters every five  *)
(* seconds, turns a signal into a cancelled context and leaves when Run    *)
(* returns. A transport may be absent, as in an application that runs the  *)
(* engine with one disabled; main itself disables none.                    *)
(*                                                                         *)
(* A number of the configuration is negative, zero (or left out of the     *)
(* file) or positive: -1, 0, 1. A positive one is the value EngineRun's    *)
(* constants give it.                                                      *)
(***************************************************************************)
EXTENDS EngineRun, Integers

VARIABLES
  phase,    \* what main is doing: "load", "build" the engine, or "run" it
  status,   \* how the process ended, or "up"
  config,   \* the numbers of the file, then those of the FileConfig
  loop,     \* where the metrics loop is; which counter of Stats it reads next
  snap,     \* the dropped packets and frames Stats has added up so far
  last,     \* lastStats
  exported  \* the Prometheus counters

metrics == <<loop, snap, last, exported>>
daemonVars == <<phase, status, config, metrics>>
vars == <<engineVars, daemonVars>>

\* The numbers something is made of; the others are only checked, or unused.
Settings == {"tick_rate", "pipeline_workers", "batch_size", "channel_size",
             "max_connections"}

\* Stats sums three counters up as dropped.
Counters == {"routed", "dropped"}
Nought == [c \in Counters |-> 0]
Current == [c \in Counters |-> IF c = "routed" THEN routed ELSE rejected + dropped + frames]

TypeOK ==
  /\ EngineTypeOK
  /\ phase \in {"load", "build", "run"}
  /\ status \in {"up", "failed", "panicked", "complete"}
  /\ config \in [Settings -> -1 .. 1]
  /\ loop \in {"select", "udp", "frames", "routed", "ended"}
  /\ snap \in Nat /\ last \in [Counters -> Nat] /\ exported \in [Counters -> Nat]
  /\ phase # "run" => run = "idle" /\ loop = "select"

Init ==
  /\ EngineInit
  /\ phase = "load" /\ status = "up"
  /\ config \in [Settings -> -1 .. 1]
  /\ loop = "select" /\ snap = 0 /\ last = Nought /\ exported = Nought

Up == status = "up"
Running == Up /\ phase = "run"

-----------------------------------------------------------------------------
(* Starting: config.Load, engine.NewEngine. *)

\* Mutant of Defaults: the batch size has none.
DefaultsButBatch(c) ==
  [k \in Settings |-> IF c[k] = 0 /\ k # "batch_size" THEN 1 ELSE c[k]]

Defaults(c) == [k \in Settings |-> IF c[k] = 0 THEN 1 ELSE c[k]]

Valid(c) == c["max_connections"] > 0 /\ c["pipeline_workers"] > 0

\* The file may also be missing, no YAML, or name a number of shards that is
\* not a power of two.
Load ==
  /\ Up /\ phase = "load"
  /\ config' = Defaults(config)
  /\ \/ status' = "failed" /\ UNCHANGED phase
     \/ Valid(config') /\ phase' = "build" /\ UNCHANGED status
  /\ UNCHANGED <<engineVars, metrics>>

\* The listener's socket may not bind; its channel cannot be negative.
Build ==
  /\ Up /\ phase = "build"
  /\ \/ status' = "failed" /\ UNCHANGED phase
     \/ config["channel_size"] < 0 /\ status' = "panicked" /\ UNCHANGED phase
     \/ config["channel_size"] >= 0 /\ phase' = "run" /\ UNCHANGED status
  /\ UNCHANGED <<engineVars, config, metrics>>

-----------------------------------------------------------------------------
(* Running: the engine, or the goroutine that cannot go on. *)

\* NewTicker panics unless the rate is positive.
TickDoomed == tick = "new" /\ config["tick_rate"] <= 0

\* The read buffer cannot be negative, nor be divided into no slots.
ListenerDoomed ==
  \/ listener = "new" /\ config["batch_size"] < 0
  \/ listener = "read" /\ config["batch_size"] = 0

\* What an engine's step needs and leaves alone.
Sound ==
  /\ Running
  /\ TickDoomed => UNCHANGED tick
  /\ ListenerDoomed => UNCHANGED listener
  /\ UNCHANGED daemonVars

\* No goroutine recovers: the process dies.
Panic ==
  /\ Running /\ Started /\ (TickDoomed \/ ListenerDoomed)
  /\ status' = "panicked"
  /\ UNCHANGED <<engineVars, phase, config, metrics>>

\* Run returned ctx.Err(): main exits with 1 unless that is nil.
Exit ==
  /\ Running /\ run = "returned"
  /\ status' = IF cancelled THEN "failed" ELSE "complete"
  /\ UNCHANGED <<engineVars, phase, config, metrics>>

-----------------------------------------------------------------------------
(* The metrics loop: Stats, one counter at a time, and what it adds. *)

ReadCounter(from, to, value) ==
  /\ Running /\ loop = from /\ loop' = to
  /\ snap' = (IF from = "select" THEN value ELSE snap + value)
  /\ UNCHANGED <<engineVars, phase, status, config, last, exported>>

\* Mutants of Remember: lastStats is never assigned; it is read once more.
RememberNothing(stats) == UNCHANGED last
RememberLater(stats) == last' = Current

Remember(stats) == last' = stats

Increase(stats, c) == IF stats[c] > last[c] THEN stats[c] - last[c] ELSE 0

Export ==
  /\ Running /\ loop = "routed" /\ loop' = "select" /\ snap' = 0
  /\ LET stats == [c \in Counters |-> IF c = "routed" THEN routed ELSE snap]
     IN  /\ exported' = [c \in Counters |-> exported[c] + Increase(stats, c)]
         /\ Remember(stats)
  /\ UNCHANGED <<engineVars, phase, status, config>>

Poll ==
  \/ ReadCounter("select", "udp", rejected)
  \/ ReadCounter("udp", "frames", dropped)
  \/ ReadCounter("frames", "routed", frames)
  \/ Export

StopPolling ==
  /\ Running /\ loop = "select" /\ cancelled /\ loop' = "ended"
  /\ UNCHANGED <<engineVars, phase, status, config, snap, last, exported>>

-----------------------------------------------------------------------------
Ended == ~Up /\ UNCHANGED vars

Next ==
  \/ Load \/ Build \/ (EngineNext /\ Sound) \/ Panic \/ Exit
  \/ Poll \/ StopPolling \/ Ended

Spec == Init /\ [][Next]_vars

\* Goroutines run, and a select takes a case that stays ready some time: Go
\* picks among the ready ones at random. Nobody owes the daemon a signal.
FairSpec ==
  /\ Spec
  /\ WF_vars(Load) /\ WF_vars(Build) /\ WF_vars(Panic) /\ WF_vars(Exit) /\ WF_vars(Poll)
  /\ WF_vars(Listen /\ Sound) /\ WF_vars(Run /\ Sound)
  /\ \A w \in Workers : WF_vars(Work(w) /\ Sound)
  /\ WF_vars(TickLoop /\ tick' # tick /\ Sound)
  /\ WF_vars(cancelled /\ Serve /\ Sound)

-----------------------------------------------------------------------------
\* A number the file leaves out or sets to zero never takes the process down:
\* each that a goroutine would panic over has a default (loader.go:90).
NoPanicWithoutNegative ==
  (\A k \in Settings : config[k] >= 0) => status # "panicked"

\* The counters never run ahead of the engine, although Stats reads them one
\* by one while it runs and the loop adds up differences (main.go:137).
NeverOverReported == \A c \in Counters : exported[c] <= Current[c]

\* When traffic ends (here at the bounds) the counters become exact: no
\* difference between two reads of Stats is lost.
CountersSettle == <>(cancelled \/ ~Up) \/ <>[](exported = Current)

\* A cancelled engine ends, whatever it was doing.
StopsAfterCancel == cancelled ~> ~Up

\* If the listener fails the packets it had queued are still processed.
DrainsAfterFailure == (outClosed /\ ~cancelled) ~> (queue = 0 \/ cancelled \/ ~Up)
=============================================================================
